--------------------------- MODULE ServiceWaiters ---------------------------
(***************************************************************************)
(* WaitForService of the service server (s2/s2.go).                        *)
(*                                                                         *)
(* A call waits for one service, with one goroutine that looks at the      *)
(* service's state every second, or for all services that run: then it     *)
(* counts them and starts such a waiter for each, and a collector sums up  *)
(* what they send to a channel with room for half of the services.         *)
(***************************************************************************)
EXTENDS ServiceServer, Sequences, FiniteSets

CONSTANT Wait     \* calls of WaitForService

\* The server's map of services is finite, and so are the counts.
ASSUME WaitersAssumption == IsFiniteSet(Service)

VARIABLES
    wait,       \* wait -> where the call or its collector is
    waiter,     \* wait -> service -> where its waiter is
    sum,        \* wait -> the content of sumChan
    room,       \* wait -> the size of sumChan
    cnt,        \* wait -> how many signals its collector still needs
    over        \* waits whose context has ended

waiting == <<wait, waiter, sum, room, cnt, over>>
wvars == <<vars, waiting>>

Known == {s \in Service : state[s] # "absent"}
Comes(w, where) == wait' = [wait EXCEPT ![w] = where]
Turns(w, s, where) == waiter' = [waiter EXCEPT ![w][s] = where]
Started(w) == {s \in Service : waiter[w][s] \notin {"none", "uncounted"}}

-----------------------------------------------------------------------------
(* The call.                                                               *)

WaitForOne(w, s) ==
    /\ wait[w] = "new"
    /\ LockFree
    /\ IF s \in Known THEN Comes(w, "single") /\ Turns(w, s, "polling")
       ELSE Comes(w, "refused") /\ UNCHANGED waiter
    /\ UNCHANGED <<vars, sum, room, cnt, over>>

\* The states are read one by one, with sSrv.Lock held.
WaitForAll(w) ==
    /\ wait[w] = "new"
    /\ LockFree
    /\ Comes(w, "counting")
    /\ waiter' = [waiter EXCEPT ![w] = [s \in Service |->
                    IF s \in Known THEN "uncounted" ELSE "none"]]
    /\ room' = [room EXCEPT ![w] = Cardinality(Known) \div 2]
    /\ UNCHANGED <<vars, sum, cnt, over>>

Count(w, s) ==
    /\ waiter[w][s] = "uncounted"
    /\ Turns(w, s, IF state[s] = "Running" THEN "polling" ELSE "none")
    /\ UNCHANGED <<vars, wait, sum, room, cnt, over>>

\* Mutated form: every service is counted, running or not.
CountedAll(w) ==
    /\ wait[w] = "counting"
    /\ \A s \in Service : waiter[w][s] # "uncounted"
    /\ Comes(w, IF Started(w) = {} THEN "idle" ELSE "waiting")
    /\ cnt' = [cnt EXCEPT ![w] = Cardinality(Known)]
    /\ UNCHANGED <<vars, waiter, sum, room, over>>

Counted(w) ==
    /\ wait[w] = "counting"
    /\ \A s \in Service : waiter[w][s] # "uncounted"
    /\ Comes(w, IF Started(w) = {} THEN "idle" ELSE "waiting")
    /\ cnt' = [cnt EXCEPT ![w] = Cardinality(Started(w))]
    /\ UNCHANGED <<vars, waiter, sum, room, over>>

\* When nothing runs true is sent at once, or never.
IdleEnds(w) ==
    /\ wait[w] = "idle"
    /\ \/ Comes(w, "true")
       \/ w \in over /\ Comes(w, "left")
    /\ UNCHANGED <<vars, waiter, sum, room, cnt, over>>

-----------------------------------------------------------------------------
(* Waiters and the collector.                                              *)

\* Mutated form: a failed service is not taken for final.
SeesEnded(w, s) ==
    /\ waiter[w][s] = "polling"
    /\ state[s] = "Ended"
    /\ Turns(w, s, "final")
    /\ UNCHANGED <<vars, wait, sum, room, cnt, over>>

\* Once it has seen a final state the waiter sends true, whatever follows.
Sees(w, s) ==
    /\ waiter[w][s] = "polling"
    /\ state[s] \in {"Ended", "Failed"}
    /\ Turns(w, s, "final")
    /\ UNCHANGED <<vars, wait, sum, room, cnt, over>>

WaiterInterrupted(w, s) ==
    /\ waiter[w][s] \in {"polling", "final"}
    /\ w \in over
    /\ Turns(w, s, "interrupted")
    /\ UNCHANGED <<vars, wait, sum, room, cnt, over>>

\* Mutated form: true is the result as soon as one waiter has sent it.
GetsFirst(w, signal) ==
    /\ Comes(w, IF signal THEN "true" ELSE "false")
    /\ cnt' = [cnt EXCEPT ![w] = IF signal THEN @ - 1 ELSE @]

\* The collector is through with the first false, and with the last true.
Gets(w, signal) ==
    /\ Comes(w, IF ~signal THEN "false" ELSE IF cnt[w] = 1 THEN "true" ELSE "waiting")
    /\ cnt' = [cnt EXCEPT ![w] = IF signal THEN @ - 1 ELSE @]

\* A waiter's signal goes to the caller, or to sumChan: into its buffer or, if
\* it has none, to the collector while it listens.
Sends(w, s) ==
    LET signal == waiter[w][s] = "final" IN
    /\ waiter[w][s] \in {"final", "interrupted"}
    /\ \/ /\ wait[w] = "single"
          /\ Comes(w, IF signal THEN "true" ELSE "false")
          /\ UNCHANGED <<sum, cnt>>
       \/ /\ wait[w] # "single"
          /\ Len(sum[w]) < room[w]
          /\ sum' = [sum EXCEPT ![w] = Append(@, signal)]
          /\ UNCHANGED <<wait, cnt>>
       \/ /\ room[w] = 0 /\ wait[w] = "waiting"
          /\ Gets(w, signal)
          /\ UNCHANGED sum
    /\ Turns(w, s, "gone")
    /\ UNCHANGED <<vars, room, over>>

Collect(w) ==
    /\ wait[w] = "waiting"
    /\ sum[w] # <<>>
    /\ Gets(w, Head(sum[w]))
    /\ sum' = [sum EXCEPT ![w] = Tail(@)]
    /\ UNCHANGED <<vars, waiter, room, over>>

CollectorInterrupted(w) ==
    /\ wait[w] = "waiting"
    /\ w \in over
    /\ Comes(w, "false")
    /\ UNCHANGED <<vars, waiter, sum, room, cnt, over>>

ContextEnds(w) ==
    /\ wait[w] \notin {"new", "refused", "left"}
    /\ w \notin over
    /\ over' = over \cup {w}
    /\ UNCHANGED <<vars, wait, waiter, sum, room, cnt>>

-----------------------------------------------------------------------------
WaitersInit ==
    /\ Init
    /\ wait = [w \in Wait |-> "new"]
    /\ waiter = [w \in Wait |-> [s \in Service |-> "none"]]
    /\ sum = [w \in Wait |-> <<>>]
    /\ room = [w \in Wait |-> 0]
    /\ cnt = [w \in Wait |-> 0]
    /\ over = {}

Locked == \E w \in Wait : wait[w] = "counting"

\* What the server's goroutines do with no need of sSrv.Lock.
Unlocked ==
    \/ Cancel
    \/ LoopDone
    \/ \E c \in Request : LoopReceives(c) \/ Runner(c)
    \/ \E c \in Exec : Executor(c)
    \/ \E p \in StopCall : StopService(p) \/ Stopper(p)

ServerStep == (IF Locked THEN Unlocked ELSE Next) /\ UNCHANGED waiting

Waits(w) ==
    \/ Counted(w) \/ IdleEnds(w) \/ Collect(w) \/ CollectorInterrupted(w)
    \/ \E s \in Service : Count(w, s)

Waiter(w, s) == Sees(w, s) \/ WaiterInterrupted(w, s) \/ Sends(w, s)

WaitersNext ==
    \/ ServerStep
    \/ \E w \in Wait : ContextEnds(w) \/ Waits(w) \/ \E s \in Service : Waiter(w, s)
    \/ ~Locked /\ \E w \in Wait : WaitForAll(w) \/ \E s \in Service : WaitForOne(w, s)

WaitersSpec == WaitersInit /\ [][WaitersNext]_wvars

\* FairSpec, and the goroutines of each call are scheduled; its caller receives.
WaitersFairSpec ==
    /\ WaitersSpec
    /\ WF_wvars(ServerStep /\ Loop)
    /\ \A c \in Exec : WF_wvars(ServerStep /\ Executor(c))
    /\ \A c \in Request : WF_wvars(ServerStep /\ (RunnerStarts(c) \/ RunnerEnds(c)))
    /\ \A p \in StopCall : WF_wvars(ServerStep /\ (StopOffers(p) \/ StopMarks(p) \/ StopQuits(p)))
    /\ \A w \in Wait : WF_wvars(Waits(w)) /\ \A s \in Service : WF_wvars(Waiter(w, s))

-----------------------------------------------------------------------------
(* Properties.                                                             *)

\* Each variable has its type, sumChan never holds more than its room, and a
\* collector expects as many signals as there are to come.
WaitersTypeOK ==
    /\ TypeOK
    /\ wait \in [Wait -> {"new", "refused", "single", "counting", "idle", "waiting",
                          "true", "false", "left"}]
    /\ waiter \in [Wait -> [Service -> {"none", "uncounted", "polling", "final",
                                        "interrupted", "gone"}]]
    /\ \A w \in Wait : sum[w] \in Seq(BOOLEAN) /\ Len(sum[w]) <= room[w]
    /\ room \in [Wait -> Nat]
    /\ cnt \in [Wait -> Nat]
    /\ \A w \in Wait : wait[w] = "waiting" =>
          cnt[w] = Len(sum[w]) + Cardinality({s \in Started(w) : waiter[w][s] # "gone"})
    /\ over \subseteq Wait

\* s2.go "WaitForService waits for finalization": when the result is true, every
\* waiter has left, and each service waited for was stopped or had a body end;
\* signals of one service are never taken for another's.
TrueMeansEnded ==
    \A w \in Wait : wait[w] = "true" =>
        \A s \in Started(w) :
            /\ waiter[w][s] = "gone"
            /\ RequestsOf(s, {"stopped", "ok", "err", "finished"}) # {}

\* A service is through: nothing about it is under way.
Through(s) ==
    /\ state[s] \in {"Ended", "Failed"}
    /\ RequestsOf(s, Stage \ {"new", "called", "finished", "skipped", "dropped"}) = {}

\* A call of WaitForService comes to its result when its context ends, or when
\* the services it waits for are through for good, however the signals of the
\* waiters and the size of sumChan fall together.
WaitEnds ==
    \A w \in Wait :
        <>[](w \in over \/ \A s \in Started(w) : Through(s))
            => <>[](wait[w] \notin {"single", "counting", "waiting"})

=============================================================================
