--------------------------- MODULE TopicRegistry ---------------------------
(***************************************************************************)
(* What the tree of topics promises its callers, whatever the goroutines   *)
(* behind it do: a path is free, or it names one topic that is not yet     *)
(* served, is served, or will never be served again.  The paths in use are *)
(* always closed under parents, and no topic that is still served leaves   *)
(* the tree.  TopicTree implements this module.                            *)
(***************************************************************************)
EXTENDS Integers, Sequences

CONSTANT
    Path        \* the paths of topics: non-empty sequences of names

VARIABLE
    status      \* path -> what a caller may find there

Status == {"free", "idle", "served", "cancelled"}

Above(p) == SubSeq(p, 1, Len(p) - 1)
Below(p) == {q \in Path : Len(q) >= Len(p) /\ SubSeq(q, 1, Len(p)) = p}

\* The part of the tree at p that is served is served no longer.
Cut(p) == [q \in Path |-> IF q \in Below(p) /\ status[q] = "served"
                          THEN "cancelled" ELSE status[q]]

-----------------------------------------------------------------------------
Init == status = [p \in Path |-> "free"]

Add(p) ==
    /\ status[p] = "free"
    /\ Len(p) > 1 => status[Above(p)] # "free"
    /\ status' = [status EXCEPT ![p] = "idle"]

\* A topic that starts when the server, or the topic above, has been
\* cancelled meanwhile is cancelled from the start.
Start(p) ==
    /\ status[p] = "idle"
    /\ \E s \in {"served", "cancelled"} : status' = [status EXCEPT ![p] = s]
    /\ (Len(p) > 1 /\ status'[p] = "served") => status[Above(p)] = "served"

Cancel(p) ==
    /\ status[p] = "served"
    /\ status' = Cut(p)

CancelAll ==
    /\ \E p \in Path : status[p] = "served"
    /\ status' = [p \in Path |-> IF status[p] = "served" THEN "cancelled" ELSE status[p]]

\* A branch leaves the tree once nothing in it is served.
Remove(p) ==
    /\ status[p] = "cancelled"
    /\ \A q \in Below(p) : status[q] # "served"
    /\ status' = [q \in Path |-> IF q \in Below(p) THEN "free" ELSE status[q]]

\* A clean start of a stopped server.
Clear ==
    /\ \A p \in Path : status[p] # "served"
    /\ status' = [p \in Path |-> "free"]

Next ==
    /\ status' # status
    /\ \/ \E p \in Path : Add(p) \/ Start(p) \/ Cancel(p) \/ Remove(p)
       \/ CancelAll
       \/ Clear

Spec == Init /\ [][Next]_status

-----------------------------------------------------------------------------
TypeOK == status \in [Path -> Status]

\* A topic can be looked up only through the topics above it.
ParentsPresent ==
    \A p \in Path : (Len(p) > 1 /\ status[p] # "free") => status[Above(p)] # "free"

\* A topic is served only if the one above it is.
ServedFromAbove ==
    \A p \in Path : (Len(p) > 1 /\ status[p] = "served") => status[Above(p)] = "served"

=============================================================================
