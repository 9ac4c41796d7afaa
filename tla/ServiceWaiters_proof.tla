------------------------ MODULE ServiceWaiters_proof ------------------------
(***************************************************************************)
(* Proofs about ServiceWaiters, for every finite set of services and any   *)
(* number of calls: waiting never disturbs the server, the collector's     *)
(* count is right, and true means that all the services have ended.        *)
(***************************************************************************)
EXTENDS ServiceWaiters, ServiceServer_proof, FiniteSetTheorems

-----------------------------------------------------------------------------
(* ServiceWaiters implements ServiceServer.                                *)

LEMMA ServerMoves == ASSUME [WaitersNext]_wvars PROVE [Next]_vars
<1>1. CASE ServerStep
  BY <1>1 DEF ServerStep, Unlocked, Next, Loop
<1>2. ASSUME NEW w \in Wait, ContextEnds(w) \/ WaitForAll(w) \/ Waits(w)
      PROVE  UNCHANGED vars
  BY <1>2 DEF ContextEnds, WaitForAll, Waits, Counted, IdleEnds, Collect,
              CollectorInterrupted, Count
<1>3. ASSUME NEW w \in Wait, NEW s \in Service, WaitForOne(w, s) \/ Waiter(w, s)
      PROVE  UNCHANGED vars
  BY <1>3 DEF WaitForOne, Waiter, Sees, WaiterInterrupted, Sends
<1>4. CASE UNCHANGED wvars
  BY <1>4 DEF wvars
<1> QED
  BY <1>1, <1>2, <1>3, <1>4 DEF WaitersNext

\* Those who wait only look at the server, and what holds of it holds while
\* they do, though they keep its lock from it while they count.
THEOREM Implements == WaitersSpec => Spec
<1>1. WaitersInit => Init
  BY DEF WaitersInit
<1>2. [WaitersNext]_wvars => [Next]_vars
  BY ServerMoves
<1> QED
  BY <1>1, <1>2, PTL DEF WaitersSpec, Spec

-----------------------------------------------------------------------------
(* The strengthened invariant.                                             *)

WaitStage == {"new", "refused", "single", "counting", "idle", "waiting",
              "true", "false", "left"}
WaiterStage == {"none", "uncounted", "polling", "final", "interrupted", "gone"}

WaitTypes ==
    /\ wait \in [Wait -> WaitStage]
    /\ waiter \in [Wait -> [Service -> WaiterStage]]
    /\ sum \in [Wait -> Seq(BOOLEAN)]
    /\ room \in [Wait -> Nat]
    /\ cnt \in [Wait -> Nat]
    /\ over \subseteq Wait

\* The waiters that have yet to send.
Owing(w) == {s \in Started(w) : waiter[w][s] # "gone"}

HasEnded(s) == Some(s, Over)

\* Before the call there are no waiters, and none is uncounted after it.
Beginnings(w) ==
    /\ wait[w] = "new" =>
          /\ sum[w] = <<>>
          /\ \A s \in Service : waiter[w][s] = "none"
    /\ wait[w] = "single" => \A s, t \in Started(w) : s = t
    /\ wait[w] = "idle" => Started(w) = {}
    /\ wait[w] # "counting" => \A s \in Service : waiter[w][s] # "uncounted"

\* Who was started still owes a signal, or it is in sumChan, or collected.
Counts(w) ==
    /\ Len(sum[w]) <= room[w]
    /\ wait[w] = "counting" =>
          Cardinality(Started(w)) = Len(sum[w]) + Cardinality(Owing(w))
    /\ wait[w] = "waiting" => cnt[w] = Len(sum[w]) + Cardinality(Owing(w))

\* A waiter that saw a final state waits for a service that has ended; one that
\* left for another reason left a false behind, which is not yet collected.
Signals(w) ==
    /\ \A s \in Service : waiter[w][s] = "final" => HasEnded(s)
    /\ wait[w] \in {"counting", "waiting"} =>
          \A s \in Service : waiter[w][s] = "gone" =>
              HasEnded(s) \/ \E i \in 1..Len(sum[w]) : ~sum[w][i]

TrueIsTrue(w) ==
    wait[w] = "true" =>
        \A s \in Started(w) : waiter[w][s] = "gone" /\ HasEnded(s)

WaitInv(w) == Beginnings(w) /\ Counts(w) /\ Signals(w) /\ TrueIsTrue(w)

WaitersInv == WaitTypes /\ \A w \in Wait : WaitInv(w)

-----------------------------------------------------------------------------
(* What steps do to the waiters.                                           *)

LEMMA Finite ==
    ASSUME WaitersAssumption, NEW w \in Wait
    PROVE  /\ IsFiniteSet(Started(w)) /\ IsFiniteSet(Owing(w)) /\ IsFiniteSet(Known)
           /\ Cardinality(Started(w)) \in Nat
           /\ Cardinality(Owing(w)) \in Nat
           /\ Cardinality(Known) \in Nat
<1>1. Started(w) \in SUBSET Service /\ Owing(w) \in SUBSET Service /\ Known \in SUBSET Service
  BY DEF Started, Owing, Known
<1>2. IsFiniteSet(Started(w)) /\ IsFiniteSet(Owing(w)) /\ IsFiniteSet(Known)
  BY <1>1, FS_Subset DEF WaitersAssumption
<1> QED
  BY <1>2, FS_CardinalityType

\* A call of whose goroutines nothing moves keeps its part of the invariant:
\* services that have ended stay so.
LEMMA Kept ==
    ASSUME NEW v \in Wait, WaitInv(v),
           wait'[v] = wait[v], waiter'[v] = waiter[v], sum'[v] = sum[v],
           room'[v] = room[v], cnt'[v] = cnt[v],
           \A s \in Service : HasEnded(s) => HasEnded(s)'
    PROVE  WaitInv(v)'
<1>1. Started(v)' = Started(v) /\ Owing(v)' = Owing(v)
  BY DEF Started, Owing
<1>2. Beginnings(v)'
  BY <1>1 DEF WaitInv, Beginnings
<1>3. Counts(v)'
  BY <1>1 DEF WaitInv, Counts
<1>4. Signals(v)'
  BY DEF WaitInv, Signals
<1>5. TrueIsTrue(v)'
  <2>1. Started(v) \subseteq Service
    BY DEF Started
  <2> QED
    BY <1>1, <2>1 DEF WaitInv, TrueIsTrue
<1> QED
  BY <1>2, <1>3, <1>4, <1>5 DEF WaitInv

\* Steps of the waiters do not touch the server.
LEMMA EndedAsBefore ==
    ASSUME UNCHANGED vars PROVE \A s : HasEnded(s)' <=> HasEnded(s)
BY DEF HasEnded, Some, vars

\* One waiter takes a turn: the others, and those of other calls, stay.
LEMMA Turned ==
    ASSUME WaitTypes, NEW w \in Wait, NEW s \in Service, NEW stage \in WaiterStage,
           Turns(w, s, stage)
    PROVE  /\ waiter' \in [Wait -> [Service -> WaiterStage]]
           /\ \A v \in Wait \ {w} : waiter'[v] = waiter[v]
           /\ \A t \in Service : waiter'[w][t] = IF t = s THEN stage ELSE waiter[w][t]
BY DEF WaitTypes, Turns

\* A waiter that has been started takes a turn short of sending.
LEMMA OwesStill ==
    ASSUME WaitTypes, NEW w \in Wait, NEW s \in Service,
           waiter[w][s] \in {"polling", "final"},
           NEW stage \in {"final", "interrupted"}, Turns(w, s, stage)
    PROVE  Started(w)' = Started(w) /\ Owing(w)' = Owing(w)
<1>1. stage \in WaiterStage
  BY DEF WaiterStage
<1>2. \A t \in Service : waiter'[w][t] = IF t = s THEN stage ELSE waiter[w][t]
  BY <1>1, Turned
<1> QED
  BY <1>2 DEF Started, Owing

\* A waiter sends.
LEMMA OwesNoMore ==
    ASSUME WaitersAssumption, WaitTypes, NEW w \in Wait, NEW s \in Service,
           waiter[w][s] \in {"final", "interrupted"}, Turns(w, s, "gone")
    PROVE  /\ s \in Owing(w) /\ s \in Started(w)
           /\ Started(w)' = Started(w)
           /\ Owing(w)' = Owing(w) \ {s}
           /\ Cardinality(Owing(w)) \in Nat \ {0}
           /\ Cardinality(Owing(w)') = Cardinality(Owing(w)) - 1
           /\ Cardinality(Owing(w)) = 1 => Owing(w) = {s}
<1>1. "gone" \in WaiterStage
  BY DEF WaiterStage
<1>2. \A t \in Service : waiter'[w][t] = IF t = s THEN "gone" ELSE waiter[w][t]
  BY <1>1, Turned
<1>3. s \in Owing(w) /\ s \in Started(w)
  BY DEF Started, Owing
<1>4. Started(w)' = Started(w) /\ Owing(w)' = Owing(w) \ {s}
  BY <1>2 DEF Started, Owing
<1>5. IsFiniteSet(Owing(w)) /\ Cardinality(Owing(w)) \in Nat
  BY Finite
<1>6. Cardinality(Owing(w) \ {s}) = Cardinality(Owing(w)) - 1
  BY <1>3, <1>5, FS_RemoveElement
<1>7. Cardinality(Owing(w)) # 0
  BY <1>3, <1>5, FS_EmptySet
<1>8. Cardinality(Owing(w)) = 1 => Owing(w) = {s}
  BY <1>3, <1>5, FS_Singleton
<1> QED
  BY <1>3, <1>4, <1>5, <1>6, <1>7, <1>8

-----------------------------------------------------------------------------
(* Every step keeps the invariant.                                         *)

LEMMA InitHolds == ASSUME WaitersInit PROVE WaitersInv
<1>1. WaitTypes
  BY DEF WaitersInit, WaitTypes, WaitStage, WaiterStage
<1>2. ASSUME NEW w \in Wait PROVE WaitInv(w)
  <2>1. /\ wait[w] = "new" /\ sum[w] = <<>> /\ room[w] = 0
        /\ \A s \in Service : waiter[w][s] = "none"
    BY DEF WaitersInit
  <2> QED
    BY <2>1 DEF WaitInv, Beginnings, Counts, Signals, TrueIsTrue
<1> QED
  BY <1>1, <1>2 DEF WaitersInv

LEMMA ServerStepKeeps ==
    ASSUME ServiceAssumption, TypeOK, WaitersInv, [Next]_vars, UNCHANGED waiting
    PROVE  WaitersInv'
<1>1. WaitTypes'
  BY DEF WaitersInv, WaitTypes, waiting
<1>2. \A s \in Service : HasEnded(s) => HasEnded(s)'
  BY OverStays DEF HasEnded, Some
<1>3. \A w \in Wait : WaitInv(w)'
  BY <1>2, Kept DEF WaitersInv, waiting
<1> QED
  BY <1>1, <1>3 DEF WaitersInv

LEMMA WaitForOneKeeps ==
    ASSUME WaitersInv, NEW w \in Wait, NEW s \in Service, WaitForOne(w, s)
    PROVE  WaitersInv'
<1>0. WaitTypes /\ WaitInv(w) /\ wait[w] = "new" /\ UNCHANGED <<vars, sum, room, cnt, over>>
  BY DEF WaitersInv, WaitForOne
<1>1. "polling" \in WaiterStage /\ {"single", "refused"} \subseteq WaitStage
  BY DEF WaiterStage, WaitStage
<1>2. /\ wait' \in [Wait -> WaitStage]
      /\ wait'[w] \in {"single", "refused"}
      /\ \A v \in Wait \ {w} : wait'[v] = wait[v]
  BY <1>0, <1>1 DEF WaitForOne, Comes, WaitTypes
<1>3. /\ waiter' \in [Wait -> [Service -> WaiterStage]]
      /\ \A v \in Wait \ {w} : waiter'[v] = waiter[v]
      /\ \A t \in Service \ {s} : waiter'[w][t] = waiter[w][t]
      /\ waiter'[w][s] \in {"polling", waiter[w][s]}
  BY <1>0, <1>1, Turned DEF WaitForOne, WaitTypes
<1>4. WaitTypes'
  BY <1>0, <1>2, <1>3 DEF WaitTypes
<1>5. \A v \in Wait \ {w} : WaitInv(v)'
  BY <1>0, <1>2, <1>3, Kept, EndedAsBefore DEF WaitersInv
<1>6. \A t \in Service : /\ waiter[w][t] = "none"
                         /\ waiter'[w][t] \in {"none", "polling"}
                         /\ t # s => waiter'[w][t] = "none"
  BY <1>0, <1>3 DEF WaitInv, Beginnings
<1>7. Beginnings(w)' /\ Signals(w)' /\ TrueIsTrue(w)'
  BY <1>2, <1>6 DEF Beginnings, Signals, TrueIsTrue, Started
<1>8. Counts(w)'
  BY <1>0, <1>2 DEF WaitInv, Counts
<1> QED
  BY <1>4, <1>5, <1>7, <1>8 DEF WaitersInv, WaitInv

LEMMA WaitForAllKeeps ==
    ASSUME WaitersAssumption, WaitersInv, NEW w \in Wait, WaitForAll(w)
    PROVE  WaitersInv'
<1>0. /\ WaitTypes /\ WaitInv(w) /\ wait[w] = "new"
      /\ UNCHANGED <<vars, sum, cnt, over>>
  BY DEF WaitersInv, WaitForAll
<1>1. Cardinality(Known) \div 2 \in Nat
  BY Finite
<1>2. /\ wait' = [wait EXCEPT ![w] = "counting"]
      /\ room' = [room EXCEPT ![w] = Cardinality(Known) \div 2]
      /\ waiter' = [waiter EXCEPT ![w] = [s \in Service |->
                       IF s \in Known THEN "uncounted" ELSE "none"]]
  BY DEF WaitForAll, Comes
<1>3. [s \in Service |-> IF s \in Known THEN "uncounted" ELSE "none"]
          \in [Service -> WaiterStage]
  BY DEF WaiterStage
<1>4. WaitTypes'
  <2>1. waiter' \in [Wait -> [Service -> WaiterStage]]
    BY <1>0, <1>2, <1>3 DEF WaitTypes
  <2>2. wait' \in [Wait -> WaitStage] /\ room' \in [Wait -> Nat]
    BY <1>0, <1>1, <1>2 DEF WaitTypes, WaitStage
  <2> QED
    BY <1>0, <2>1, <2>2 DEF WaitTypes
<1>5. \A v \in Wait \ {w} : wait'[v] = wait[v] /\ room'[v] = room[v] /\ waiter'[v] = waiter[v]
  BY <1>0, <1>2 DEF WaitTypes
<1>6. \A v \in Wait \ {w} : WaitInv(v)'
  BY <1>0, <1>5, Kept, EndedAsBefore DEF WaitersInv
<1>7. /\ wait'[w] = "counting" /\ sum'[w] = <<>> /\ room'[w] \in Nat
      /\ \A s \in Service : waiter'[w][s] \in {"uncounted", "none"}
  BY <1>0, <1>1, <1>2 DEF WaitTypes, WaitInv, Beginnings
<1>8. Started(w)' = {} /\ Owing(w)' = {}
  BY <1>7 DEF Started, Owing
<1>9. Counts(w)'
  BY <1>7, <1>8, FS_EmptySet DEF Counts
<1>10. Beginnings(w)' /\ Signals(w)' /\ TrueIsTrue(w)'
  BY <1>7 DEF Beginnings, Signals, TrueIsTrue
<1> QED
  BY <1>4, <1>6, <1>9, <1>10 DEF WaitersInv, WaitInv

LEMMA CountKeeps ==
    ASSUME WaitersAssumption, WaitersInv, NEW w \in Wait, NEW s \in Service, Count(w, s)
    PROVE  WaitersInv'
<1>0. /\ WaitTypes /\ WaitInv(w) /\ waiter[w][s] = "uncounted" /\ wait[w] = "counting"
      /\ UNCHANGED <<vars, wait, sum, room, cnt, over>>
  BY DEF WaitersInv, WaitInv, Beginnings, Count
<1>1. PICK stage \in {"polling", "none"} : Turns(w, s, stage)
  BY DEF Count
<1>2. stage \in WaiterStage
  BY DEF WaiterStage
<1>3. /\ waiter' \in [Wait -> [Service -> WaiterStage]]
      /\ \A v \in Wait \ {w} : waiter'[v] = waiter[v]
      /\ \A t \in Service : waiter'[w][t] = IF t = s THEN stage ELSE waiter[w][t]
  BY <1>0, <1>1, <1>2, Turned
<1>4. WaitTypes'
  BY <1>0, <1>3 DEF WaitTypes
<1>5. \A v \in Wait \ {w} : WaitInv(v)'
  BY <1>0, <1>3, Kept, EndedAsBefore DEF WaitersInv
<1>6. \/ Started(w)' = Started(w) /\ Owing(w)' = Owing(w)
      \/ Started(w)' = Started(w) \cup {s} /\ Owing(w)' = Owing(w) \cup {s}
  BY <1>0, <1>3 DEF Started, Owing
<1>7. s \notin Started(w) /\ s \notin Owing(w)
  BY <1>0 DEF Started, Owing
<1>8. Counts(w)'
  <2>1. Cardinality(Started(w)) = Len(sum[w]) + Cardinality(Owing(w))
    BY <1>0 DEF WaitInv, Counts
  <2>2. /\ IsFiniteSet(Started(w)) /\ IsFiniteSet(Owing(w))
        /\ Cardinality(Started(w)) \in Nat /\ Cardinality(Owing(w)) \in Nat
    BY Finite
  <2>3. /\ Cardinality(Started(w) \cup {s}) = Cardinality(Started(w)) + 1
        /\ Cardinality(Owing(w) \cup {s}) = Cardinality(Owing(w)) + 1
    BY <1>7, <2>2, FS_AddElement
  <2>4. Len(sum[w]) \in Nat
    BY <1>0 DEF WaitTypes
  <2>5. Cardinality(Started(w)') = Len(sum[w]) + Cardinality(Owing(w)')
    <3>1. CASE Started(w)' = Started(w) /\ Owing(w)' = Owing(w)
      BY <2>1, <3>1
    <3>2. CASE Started(w)' = Started(w) \cup {s} /\ Owing(w)' = Owing(w) \cup {s}
      <4>1. Cardinality(Started(w)') = Cardinality(Started(w)) + 1
        BY <2>3, <3>2
      <4>2. Cardinality(Owing(w)') = Cardinality(Owing(w)) + 1
        BY <2>3, <3>2
      <4> QED
        BY <2>1, <2>2, <2>4, <4>1, <4>2
    <3> QED
      BY <1>6, <3>1, <3>2
  <2> QED
    BY <1>0, <2>5 DEF WaitInv, Counts
<1>9. Beginnings(w)' /\ TrueIsTrue(w)'
  BY <1>0 DEF Beginnings, TrueIsTrue
<1>10. Signals(w)'
  BY <1>0, <1>3, EndedAsBefore DEF WaitInv, Signals
<1> QED
  BY <1>4, <1>5, <1>8, <1>9, <1>10 DEF WaitersInv, WaitInv

LEMMA CountedKeeps ==
    ASSUME WaitersAssumption, WaitersInv, NEW w \in Wait, Counted(w)
    PROVE  WaitersInv'
<1>0. /\ WaitTypes /\ WaitInv(w) /\ wait[w] = "counting"
      /\ UNCHANGED <<vars, waiter, sum, room, over>>
      /\ \A s \in Service : waiter[w][s] # "uncounted"
  BY DEF WaitersInv, Counted
<1>1. Cardinality(Started(w)) \in Nat
  BY Finite
<1>2. /\ wait' \in [Wait -> WaitStage]
      /\ wait'[w] = IF Started(w) = {} THEN "idle" ELSE "waiting"
      /\ \A v \in Wait \ {w} : wait'[v] = wait[v]
  BY <1>0 DEF Counted, Comes, WaitTypes, WaitStage
<1>3. /\ cnt' \in [Wait -> Nat]
      /\ cnt'[w] = Cardinality(Started(w))
      /\ \A v \in Wait \ {w} : cnt'[v] = cnt[v]
  BY <1>0, <1>1 DEF Counted, WaitTypes
<1>4. WaitTypes'
  BY <1>0, <1>2, <1>3 DEF WaitTypes
<1>5. \A v \in Wait \ {w} : WaitInv(v)'
  BY <1>0, <1>2, <1>3, Kept, EndedAsBefore DEF WaitersInv
<1>6. Started(w)' = Started(w) /\ Owing(w)' = Owing(w)
  BY <1>0 DEF Started, Owing
<1>7. Counts(w)'
  BY <1>0, <1>2, <1>3, <1>6 DEF WaitInv, Counts
<1>8. Beginnings(w)' /\ TrueIsTrue(w)'
  BY <1>0, <1>2, <1>6 DEF Beginnings, TrueIsTrue
<1>9. Signals(w)'
  BY <1>0, EndedAsBefore DEF WaitInv, Signals
<1> QED
  BY <1>4, <1>5, <1>7, <1>8, <1>9 DEF WaitersInv, WaitInv

\* A call or its collector leaves with no signal: with true if there is none to
\* wait for.
LEMMA LeavingKeeps ==
    ASSUME WaitersInv, NEW w \in Wait, IdleEnds(w) \/ CollectorInterrupted(w)
    PROVE  WaitersInv'
<1>0. WaitTypes /\ WaitInv(w) /\ UNCHANGED <<vars, waiter, sum, room, cnt, over>>
  BY DEF WaitersInv, IdleEnds, CollectorInterrupted
<1>1. /\ wait' \in [Wait -> WaitStage]
      /\ wait'[w] \in {"true", "left", "false"}
      /\ wait'[w] = "true" => wait[w] = "idle"
      /\ wait[w] \in {"idle", "waiting"}
      /\ \A v \in Wait \ {w} : wait'[v] = wait[v]
  BY <1>0 DEF IdleEnds, CollectorInterrupted, Comes, WaitTypes, WaitStage
<1>2. WaitTypes'
  BY <1>0, <1>1 DEF WaitTypes
<1>3. \A v \in Wait \ {w} : WaitInv(v)'
  BY <1>0, <1>1, Kept, EndedAsBefore DEF WaitersInv
<1>4. Started(w)' = Started(w)
  BY <1>0 DEF Started
<1>5. Beginnings(w)' /\ TrueIsTrue(w)' /\ Counts(w)'
  BY <1>0, <1>1, <1>4 DEF WaitInv, Beginnings, TrueIsTrue, Counts
<1>6. Signals(w)'
  BY <1>0, <1>1, EndedAsBefore DEF WaitInv, Signals
<1> QED
  BY <1>2, <1>3, <1>5, <1>6 DEF WaitersInv, WaitInv

LEMMA ContextEndsKeeps ==
    ASSUME WaitersInv, NEW w \in Wait, ContextEnds(w)
    PROVE  WaitersInv'
<1>1. UNCHANGED <<vars, wait, waiter, sum, room, cnt>> /\ over' \subseteq Wait
  BY DEF ContextEnds, WaitersInv, WaitTypes
<1>2. WaitTypes'
  BY <1>1 DEF WaitersInv, WaitTypes
<1>3. \A v \in Wait : WaitInv(v)'
  BY <1>1, Kept, EndedAsBefore DEF WaitersInv
<1> QED
  BY <1>2, <1>3 DEF WaitersInv

\* A waiter sees that its service has ended, or that its context has.
LEMMA WaiterKeeps ==
    ASSUME Earned, WaitersInv, NEW w \in Wait, NEW s \in Service,
           Sees(w, s) \/ WaiterInterrupted(w, s)
    PROVE  WaitersInv'
<1>0. /\ WaitTypes /\ WaitInv(w) /\ UNCHANGED <<vars, wait, sum, room, cnt, over>>
      /\ waiter[w][s] \in {"polling", "final"}
  BY DEF WaitersInv, Sees, WaiterInterrupted
<1>1. PICK stage \in {"final", "interrupted"} :
          Turns(w, s, stage) /\ (stage = "final" => state[s] \in {"Ended", "Failed"})
  BY DEF Sees, WaiterInterrupted
<1>2. stage \in WaiterStage
  BY DEF WaiterStage
<1>3. /\ waiter' \in [Wait -> [Service -> WaiterStage]]
      /\ \A v \in Wait \ {w} : waiter'[v] = waiter[v]
      /\ \A t \in Service : waiter'[w][t] = IF t = s THEN stage ELSE waiter[w][t]
  BY <1>0, <1>1, <1>2, Turned
<1>4. Started(w)' = Started(w) /\ Owing(w)' = Owing(w)
  BY <1>0, <1>1, OwesStill
<1>5. WaitTypes'
  BY <1>0, <1>3 DEF WaitTypes
<1>6. \A v \in Wait \ {w} : WaitInv(v)'
  BY <1>0, <1>3, Kept, EndedAsBefore DEF WaitersInv
<1>7. stage = "final" => HasEnded(s)
  BY <1>1 DEF Earned, HasEnded
<1>8. Signals(w)'
  BY <1>0, <1>3, <1>7, EndedAsBefore DEF WaitInv, Signals
<1>9. Counts(w)'
  BY <1>0, <1>4 DEF WaitInv, Counts
<1>10. Beginnings(w)'
  <2>1. wait[w] # "new"
    BY <1>0 DEF WaitInv, Beginnings
  <2> QED
    BY <1>0, <1>3, <1>4, <2>1 DEF WaitInv, Beginnings
<1>11. TrueIsTrue(w)'
  <2>1. s \in Started(w)
    BY <1>0 DEF Started
  <2> QED
    BY <1>0, <2>1 DEF WaitInv, TrueIsTrue
<1> QED
  BY <1>5, <1>6, <1>8, <1>9, <1>10, <1>11 DEF WaitersInv, WaitInv

\* The collector takes a signal: the count goes down with the signals to come.
LEMMA GetsMoves ==
    ASSUME WaitTypes, NEW w \in Wait, NEW signal \in BOOLEAN, Gets(w, signal),
           cnt[w] # 0
    PROVE  /\ wait' \in [Wait -> WaitStage] /\ cnt' \in [Wait -> Nat]
           /\ wait'[w] = IF ~signal THEN "false" ELSE IF cnt[w] = 1 THEN "true" ELSE "waiting"
           /\ signal => cnt'[w] = cnt[w] - 1
           /\ \A v \in Wait \ {w} : wait'[v] = wait[v] /\ cnt'[v] = cnt[v]
BY DEF Gets, Comes, WaitTypes, WaitStage

LEMMA CollectKeeps ==
    ASSUME WaitersAssumption, WaitersInv, NEW w \in Wait, Collect(w)
    PROVE  WaitersInv'
<1>0. /\ WaitTypes /\ WaitInv(w) /\ wait[w] = "waiting" /\ sum[w] # <<>>
      /\ UNCHANGED <<vars, waiter, room, over>>
      /\ Gets(w, Head(sum[w])) /\ sum' = [sum EXCEPT ![w] = Tail(@)]
  BY DEF WaitersInv, Collect
<1> DEFINE signal == Head(sum[w])
<1>1. /\ sum[w] \in Seq(BOOLEAN) /\ signal \in BOOLEAN /\ signal = sum[w][1]
      /\ Tail(sum[w]) \in Seq(BOOLEAN)
      /\ Len(sum[w]) \in Nat \ {0} /\ Len(Tail(sum[w])) = Len(sum[w]) - 1
      /\ \A i \in 1..(Len(sum[w]) - 1) : Tail(sum[w])[i] = sum[w][i + 1]
  BY <1>0 DEF WaitTypes
<1>2. /\ cnt[w] = Len(sum[w]) + Cardinality(Owing(w))
      /\ Cardinality(Owing(w)) \in Nat /\ Len(sum[w]) <= room[w]
      /\ room[w] \in Nat
  BY <1>0, Finite DEF WaitInv, Counts, WaitTypes
<1>3. cnt[w] # 0
  BY <1>1, <1>2
<1> HIDE DEF signal
<1>4. /\ wait' \in [Wait -> WaitStage] /\ cnt' \in [Wait -> Nat]
      /\ wait'[w] = IF ~signal THEN "false" ELSE IF cnt[w] = 1 THEN "true" ELSE "waiting"
      /\ signal => cnt'[w] = cnt[w] - 1
      /\ \A v \in Wait \ {w} : wait'[v] = wait[v] /\ cnt'[v] = cnt[v]
  <2>1. Gets(w, signal)
    BY <1>0 DEF signal
  <2> QED
    BY <1>0, <1>1, <1>3, <2>1, GetsMoves
<1>5. /\ sum' \in [Wait -> Seq(BOOLEAN)]
      /\ sum'[w] = Tail(sum[w])
      /\ \A v \in Wait \ {w} : sum'[v] = sum[v]
  BY <1>0, <1>1 DEF WaitTypes
<1>6. WaitTypes'
  BY <1>0, <1>4, <1>5 DEF WaitTypes
<1>7. \A v \in Wait \ {w} : WaitInv(v)'
  BY <1>0, <1>4, <1>5, Kept, EndedAsBefore DEF WaitersInv
<1>8. Started(w)' = Started(w) /\ Owing(w)' = Owing(w)
  BY <1>0 DEF Started, Owing
<1>9. Beginnings(w)'
  BY <1>0, <1>4, <1>8 DEF WaitInv, Beginnings
<1>10. Counts(w)'
  <2>1. Len(sum'[w]) <= room'[w]
    BY <1>0, <1>1, <1>2, <1>5
  <2>2. wait'[w] = "waiting" => cnt'[w] = Len(sum'[w]) + Cardinality(Owing(w))
    BY <1>1, <1>2, <1>4, <1>5
  <2>3. wait'[w] # "counting"
    BY <1>4
  <2> QED
    BY <1>8, <2>1, <2>2, <2>3 DEF Counts
<1>11. ASSUME signal, NEW s \in Service, waiter[w][s] = "gone", ~HasEnded(s)
       PROVE  \E i \in 1..(Len(sum[w]) - 1) : ~Tail(sum[w])[i]
  <2>1. PICK i \in 1..Len(sum[w]) : ~sum[w][i]
    BY <1>0, <1>11 DEF WaitInv, Signals
  <2>2. i # 1
    <3>1. signal = sum[w][1]
      BY <1>1
    <3> QED
      BY <1>11, <2>1, <3>1, Zenon
  <2>3. i - 1 \in 1..(Len(sum[w]) - 1) /\ (i - 1) + 1 = i
    <3>1. Len(sum[w]) \in Nat /\ i \in 1..Len(sum[w])
      BY <1>1
    <3> QED
      BY <2>2, <3>1
  <2>4. ~Tail(sum[w])[i - 1]
    BY <1>1, <2>1, <2>3
  <2> QED
    BY <2>3, <2>4
<1>12. Signals(w)'
  <2>1. ASSUME NEW s \in Service, waiter'[w][s] = "final" PROVE HasEnded(s)'
    BY <1>0, <2>1, EndedAsBefore DEF WaitInv, Signals
  <2>2. ASSUME wait'[w] \in {"counting", "waiting"}, NEW s \in Service,
               waiter'[w][s] = "gone", ~HasEnded(s)'
        PROVE  \E i \in 1..Len(sum'[w]) : ~sum'[w][i]
    <3>1. signal /\ waiter[w][s] = "gone" /\ ~HasEnded(s)
      BY <1>0, <1>4, <2>2, EndedAsBefore
    <3> QED
      BY <1>1, <1>5, <1>11, <3>1
  <2> QED
    BY <2>1, <2>2 DEF Signals
<1>13. TrueIsTrue(w)'
  <2> SUFFICES ASSUME wait'[w] = "true", NEW s \in Started(w)
               PROVE  waiter'[w][s] = "gone" /\ HasEnded(s)'
    BY <1>8 DEF TrueIsTrue
  <2>1. signal /\ cnt[w] = 1
    BY <1>4
  <2>2. Len(sum[w]) = 1 /\ Cardinality(Owing(w)) = 0
    <3>1. Len(sum[w]) \in Nat \ {0} /\ Cardinality(Owing(w)) \in Nat
      BY <1>1, <1>2
    <3>2. cnt[w] = 1 /\ cnt[w] = Len(sum[w]) + Cardinality(Owing(w))
      BY <1>2, <2>1
    <3>3. \A k, m \in Nat : 1 = k + m /\ k # 0 => k = 1 /\ m = 0
      OBVIOUS
    <3> QED
      BY <3>1, <3>2, <3>3, Zenon
  <2>3. Owing(w) = {}
    BY <2>2, Finite, FS_EmptySet
  <2>4. s \in Service /\ waiter[w][s] = "gone"
    BY <2>3 DEF Owing, Started
  <2>5. HasEnded(s)
    BY <1>11, <2>1, <2>2, <2>4
  <2> QED
    BY <1>0, <2>4, <2>5, EndedAsBefore
<1> QED
  BY <1>6, <1>7, <1>9, <1>10, <1>12, <1>13 DEF WaitersInv, WaitInv

\* What a waiter that sends leaves as it is, in all three ways of sending.
LEMMA SendMoves ==
    ASSUME WaitersAssumption, WaitersInv, NEW w \in Wait, NEW s \in Service, Sends(w, s)
    PROVE  /\ waiter' \in [Wait -> [Service -> WaiterStage]]
           /\ \A v \in Wait \ {w} : waiter'[v] = waiter[v]
           /\ \A t \in Service : waiter'[w][t] = IF t = s THEN "gone" ELSE waiter[w][t]
           /\ s \in Owing(w) /\ s \in Started(w)
           /\ Started(w)' = Started(w)
           /\ Owing(w)' = Owing(w) \ {s}
           /\ Cardinality(Owing(w)) \in Nat \ {0}
           /\ Cardinality(Owing(w)') = Cardinality(Owing(w)) - 1
           /\ Cardinality(Owing(w)) = 1 => Owing(w) = {s}
           /\ wait[w] # "new"
           /\ waiter[w][s] = "final" => HasEnded(s)
           /\ \A t \in Service : waiter'[w][t] = "final" => HasEnded(t)'
<1>0. /\ WaitTypes /\ WaitInv(w) /\ UNCHANGED <<vars, room, over>>
      /\ waiter[w][s] \in {"final", "interrupted"} /\ Turns(w, s, "gone")
  BY DEF WaitersInv, Sends
<1>1. "gone" \in WaiterStage
  BY DEF WaiterStage
<1>2. /\ waiter' \in [Wait -> [Service -> WaiterStage]]
      /\ \A v \in Wait \ {w} : waiter'[v] = waiter[v]
      /\ \A t \in Service : waiter'[w][t] = IF t = s THEN "gone" ELSE waiter[w][t]
  BY <1>0, <1>1, Turned
<1>3. wait[w] # "new"
  BY <1>0 DEF WaitInv, Beginnings
<1>4. \A t \in Service : waiter[w][t] = "final" => HasEnded(t)
  BY <1>0 DEF WaitInv, Signals
<1>5. \A t \in Service : waiter'[w][t] = "final" => HasEnded(t)'
  BY <1>0, <1>2, <1>4, EndedAsBefore
<1> QED
  BY <1>0, <1>2, <1>3, <1>4, <1>5, OwesNoMore

\* The waiter of a single service sends to the caller.
LEMMA SendsToCallerKeeps ==
    ASSUME WaitersAssumption, WaitersInv, NEW w \in Wait, NEW s \in Service, Sends(w, s),
           wait[w] = "single", UNCHANGED <<sum, cnt>>,
           Comes(w, IF waiter[w][s] = "final" THEN "true" ELSE "false")
    PROVE  WaitersInv'
<1>0. WaitTypes /\ WaitInv(w) /\ UNCHANGED <<vars, room, over>>
  BY DEF WaitersInv, Sends
<1>1. /\ wait' \in [Wait -> WaitStage]
      /\ wait'[w] = IF waiter[w][s] = "final" THEN "true" ELSE "false"
      /\ \A v \in Wait \ {w} : wait'[v] = wait[v]
  BY <1>0 DEF Comes, WaitTypes, WaitStage
<1>2. WaitTypes'
  BY <1>0, <1>1, SendMoves DEF WaitTypes
<1>3. \A v \in Wait \ {w} : WaitInv(v)'
  BY <1>0, <1>1, SendMoves, Kept, EndedAsBefore DEF WaitersInv
<1>4. Beginnings(w)'
  BY <1>0, <1>1, SendMoves DEF WaitInv, Beginnings
<1>5. Counts(w)' /\ Signals(w)'
  BY <1>0, <1>1, SendMoves DEF WaitInv, Counts, Signals
<1>6. TrueIsTrue(w)'
  <2>1. \A t \in Started(w) : t = s
    BY <1>0, SendMoves DEF WaitInv, Beginnings
  <2> QED
    BY <1>0, <1>1, <2>1, SendMoves, EndedAsBefore DEF TrueIsTrue
<1> QED
  BY <1>2, <1>3, <1>4, <1>5, <1>6 DEF WaitersInv, WaitInv

\* It sends into sumChan.
LEMMA SendsToSumKeeps ==
    ASSUME WaitersAssumption, WaitersInv, NEW w \in Wait, NEW s \in Service, Sends(w, s),
           wait[w] # "single", Len(sum[w]) < room[w], UNCHANGED <<wait, cnt>>,
           sum' = [sum EXCEPT ![w] = Append(@, waiter[w][s] = "final")]
    PROVE  WaitersInv'
<1> DEFINE signal == (waiter[w][s] = "final")
<1>0. WaitTypes /\ WaitInv(w) /\ UNCHANGED <<vars, room, over>>
  BY DEF WaitersInv, Sends
<1>1. sum[w] \in Seq(BOOLEAN) /\ signal \in BOOLEAN /\ Len(sum[w]) \in Nat
  BY <1>0 DEF WaitTypes
<1>2. /\ Append(sum[w], signal) \in Seq(BOOLEAN)
      /\ Len(Append(sum[w], signal)) = Len(sum[w]) + 1
      /\ Append(sum[w], signal)[Len(sum[w]) + 1] = signal
      /\ \A i \in 1..Len(sum[w]) : Append(sum[w], signal)[i] = sum[w][i]
  <2> HIDE DEF signal
  <2> QED
    BY <1>1
<1>3. /\ sum' \in [Wait -> Seq(BOOLEAN)]
      /\ sum'[w] = Append(sum[w], signal)
      /\ \A v \in Wait \ {w} : sum'[v] = sum[v]
  <2>1. sum' = [sum EXCEPT ![w] = Append(@, signal)]
    OBVIOUS
  <2> HIDE DEF signal
  <2> QED
    BY <1>0, <1>2, <2>1 DEF WaitTypes
<1>4. WaitTypes'
  BY <1>0, <1>3, SendMoves DEF WaitTypes
<1>5. \A v \in Wait \ {w} : WaitInv(v)'
  BY <1>0, <1>3, SendMoves, Kept, EndedAsBefore DEF WaitersInv
<1>6. Beginnings(w)'
  BY <1>0, SendMoves DEF WaitInv, Beginnings
<1>7. Len(sum'[w]) = Len(sum[w]) + 1
  BY <1>2, <1>3
<1>8. Counts(w)'
  <2>1. Len(sum'[w]) <= room'[w]
    BY <1>0, <1>1, <1>7 DEF WaitTypes
  <2>2. Len(sum'[w]) + Cardinality(Owing(w)') = Len(sum[w]) + Cardinality(Owing(w))
    BY <1>1, <1>7, SendMoves
  <2> QED
    BY <1>0, <2>1, <2>2, SendMoves DEF WaitInv, Counts
<1>9. ASSUME NEW t \in Service, wait'[w] \in {"counting", "waiting"},
             waiter'[w][t] = "gone", ~HasEnded(t)'
      PROVE  \E i \in 1..Len(sum'[w]) : ~sum'[w][i]
  <2>0. ~HasEnded(t)
    BY <1>0, <1>9, EndedAsBefore
  <2>1. CASE t = s
    <3>1. ~signal
      BY <2>0, <2>1, SendMoves
    <3>2. sum'[w][Len(sum[w]) + 1] = signal
      BY <1>2, <1>3
    <3>3. ~sum'[w][Len(sum[w]) + 1]
      BY <3>1, <3>2, Zenon
    <3>4. Len(sum[w]) + 1 \in 1..Len(sum'[w])
      BY <1>1, <1>7
    <3> QED
      BY <3>3, <3>4
  <2>2. CASE t # s
    <3>1. waiter[w][t] = "gone"
      BY <1>9, <2>2, SendMoves
    <3>2. PICK i \in 1..Len(sum[w]) : ~sum[w][i]
      BY <1>0, <1>9, <2>0, <3>1 DEF WaitInv, Signals
    <3>3. sum'[w][i] = sum[w][i]
      BY <1>2, <1>3
    <3>4. i \in 1..Len(sum'[w])
      BY <1>1, <1>7
    <3> QED
      BY <3>2, <3>3, <3>4
  <2> QED
    BY <2>1, <2>2
<1>10. Signals(w)'
  BY <1>9, SendMoves DEF Signals
<1>11. TrueIsTrue(w)'
  <2>1. wait[w] # "true"
    BY <1>0, SendMoves DEF WaitInv, TrueIsTrue, Owing
  <2> QED
    BY <2>1 DEF TrueIsTrue
<1> QED
  BY <1>4, <1>5, <1>6, <1>8, <1>10, <1>11 DEF WaitersInv, WaitInv

\* Of one service that runs there is no room in sumChan: it sends to the collector.
LEMMA SendsToCollectorKeeps ==
    ASSUME WaitersAssumption, WaitersInv, NEW w \in Wait, NEW s \in Service, Sends(w, s),
           room[w] = 0, wait[w] = "waiting", UNCHANGED sum,
           Gets(w, waiter[w][s] = "final")
    PROVE  WaitersInv'
<1> DEFINE signal == (waiter[w][s] = "final")
<1>0. WaitTypes /\ WaitInv(w) /\ UNCHANGED <<vars, room, over>>
  BY DEF WaitersInv, Sends
<1>1. Len(sum[w]) = 0
  BY <1>0 DEF WaitTypes, WaitInv, Counts
<1>2. cnt[w] = Cardinality(Owing(w)) /\ Cardinality(Owing(w)) \in Nat \ {0}
  <2>1. cnt[w] = Len(sum[w]) + Cardinality(Owing(w)) /\ Cardinality(Owing(w)) \in Nat \ {0}
    BY <1>0, SendMoves DEF WaitInv, Counts
  <2> QED
    BY <1>1, <2>1
<1>3. /\ wait' \in [Wait -> WaitStage] /\ cnt' \in [Wait -> Nat]
      /\ wait'[w] = IF ~signal THEN "false" ELSE IF cnt[w] = 1 THEN "true" ELSE "waiting"
      /\ signal => cnt'[w] = cnt[w] - 1
      /\ \A v \in Wait \ {w} : wait'[v] = wait[v] /\ cnt'[v] = cnt[v]
  <2>1. Gets(w, signal) /\ signal \in BOOLEAN /\ cnt[w] # 0
    BY <1>2
  <2> HIDE DEF signal
  <2> QED
    BY <1>0, <2>1, GetsMoves
<1>4. WaitTypes'
  BY <1>0, <1>3, SendMoves DEF WaitTypes
<1>5. \A v \in Wait \ {w} : WaitInv(v)'
  BY <1>0, <1>3, SendMoves, Kept, EndedAsBefore DEF WaitersInv
<1>6. Beginnings(w)'
  BY <1>0, <1>3, SendMoves DEF WaitInv, Beginnings
<1>7. Counts(w)'
  <2>1. wait'[w] = "waiting" => cnt'[w] = cnt[w] - 1
    BY <1>3
  <2>2. Cardinality(Owing(w)') = cnt[w] - 1 /\ Cardinality(Owing(w)') \in Nat
    <3>1. Cardinality(Owing(w)') = Cardinality(Owing(w)) - 1
      BY SendMoves
    <3>2. Cardinality(Owing(w)') = cnt[w] - 1 /\ cnt[w] \in Nat \ {0}
      BY <1>2, <3>1
    <3> QED
      BY <3>2
  <2>3. Len(sum'[w]) = 0
    BY <1>1
  <2>4. wait'[w] = "waiting" => cnt'[w] = Len(sum'[w]) + Cardinality(Owing(w)')
    BY <2>1, <2>2, <2>3
  <2> QED
    BY <1>0, <1>3, <2>4 DEF WaitInv, Counts
<1>8. \A t \in Service : waiter[w][t] = "gone" => HasEnded(t)
  BY <1>0, <1>1 DEF WaitInv, Signals
<1>9. Signals(w)'
  <2>1. wait'[w] \in {"counting", "waiting"} => signal
    BY <1>3
  <2>2. signal => \A t \in Service : waiter'[w][t] = "gone" => HasEnded(t)
    BY <1>8, SendMoves
  <2> QED
    BY <1>0, <2>1, <2>2, SendMoves, EndedAsBefore DEF Signals
<1>10. TrueIsTrue(w)'
  <2> SUFFICES ASSUME wait'[w] = "true", NEW t \in Started(w)
               PROVE  waiter'[w][t] = "gone" /\ HasEnded(t)'
    BY SendMoves DEF TrueIsTrue
  <2>1. signal /\ cnt[w] = 1
    BY <1>3
  <2>2. Owing(w) = {s}
    BY <1>2, <2>1, SendMoves
  <2>3. t \in Service /\ waiter'[w][t] = "gone"
    <3>1. t \in Service /\ (t # s => waiter[w][t] = "gone")
      BY <2>2 DEF Owing, Started
    <3>2. \A u \in Service : waiter'[w][u] = IF u = s THEN "gone" ELSE waiter[w][u]
      BY SendMoves
    <3> QED
      BY <3>1, <3>2
  <2>4. HasEnded(t)
    BY <1>8, <2>1, <2>3, SendMoves
  <2> QED
    BY <1>0, <2>3, <2>4, EndedAsBefore
<1> QED
  BY <1>4, <1>5, <1>6, <1>7, <1>9, <1>10 DEF WaitersInv, WaitInv

LEMMA SendsKeeps ==
    ASSUME WaitersAssumption, WaitersInv, NEW w \in Wait, NEW s \in Service, Sends(w, s)
    PROVE  WaitersInv'
BY SendsToCallerKeeps, SendsToSumKeeps, SendsToCollectorKeeps DEF Sends

LEMMA WaitersInvNext ==
    ASSUME ServiceAssumption, WaitersAssumption, TypeOK, Earned, WaitersInv,
           [WaitersNext]_wvars
    PROVE  WaitersInv'
<1>1. CASE ServerStep
  BY <1>1, ServerMoves, ServerStepKeeps DEF ServerStep
<1>2. CASE UNCHANGED wvars
  BY <1>2, ServerStepKeeps DEF wvars
<1>3. ASSUME NEW w \in Wait, ContextEnds(w) PROVE WaitersInv'
  BY <1>3, ContextEndsKeeps
<1>4. ASSUME NEW w \in Wait, Waits(w) PROVE WaitersInv'
  BY <1>4, CountedKeeps, LeavingKeeps, CollectKeeps, CountKeeps DEF Waits
<1>5. ASSUME NEW w \in Wait, NEW s \in Service, Waiter(w, s) PROVE WaitersInv'
  BY <1>5, WaiterKeeps, SendsKeeps DEF Waiter
<1>6. ASSUME NEW w \in Wait, WaitForAll(w) PROVE WaitersInv'
  BY <1>6, WaitForAllKeeps
<1>7. ASSUME NEW w \in Wait, NEW s \in Service, WaitForOne(w, s) PROVE WaitersInv'
  BY <1>7, WaitForOneKeeps
<1> QED
  BY <1>1, <1>2, <1>3, <1>4, <1>5, <1>6, <1>7 DEF WaitersNext

-----------------------------------------------------------------------------
(* The theorems.                                                           *)

\* The invariant, under which a final state of the server is earned.
THEOREM Invariant ==
    ASSUME ServiceAssumption, WaitersAssumption PROVE WaitersSpec => []WaitersInv
<1>1. WaitersInit => WaitersInv
  BY InitHolds
<1>2. Init => Earned
  BY DEF Init, Earned
<1>3. TypeOK /\ Earned /\ [Next]_vars => Earned'
  BY EarnedNext
<1>4. TypeOK /\ Earned /\ WaitersInv /\ [WaitersNext]_wvars => WaitersInv'
  BY WaitersInvNext
<1>5. Spec => []TypeOK
  BY Typing
<1>6. Spec => []Earned
  BY <1>2, <1>3, <1>5, PTL DEF Spec
<1> QED
  BY <1>1, <1>4, <1>5, <1>6, Implements, PTL DEF WaitersSpec

\* A collector expects as many signals as there are to come, however many
\* services there are, and sumChan never holds more than half as many.
THEOREM WaitersTyping ==
    ASSUME ServiceAssumption, WaitersAssumption PROVE WaitersSpec => []WaitersTypeOK
<1>1. TypeOK /\ WaitersInv => WaitersTypeOK
  BY DEF WaitersInv, WaitTypes, WaitStage, WaiterStage, WaitInv, Counts, Owing,
         WaitersTypeOK
<1> QED
  BY <1>1, Typing, Implements, Invariant, PTL

\* WaitForService sends true only when every service it waits for was stopped
\* or had a body end.
THEOREM TrueMeansAllEnded ==
    ASSUME ServiceAssumption, WaitersAssumption PROVE WaitersSpec => []TrueMeansEnded
<1>1. WaitersInv => TrueMeansEnded
  <2> SUFFICES ASSUME WaitersInv, NEW w \in Wait, wait[w] = "true", NEW s \in Started(w)
               PROVE  /\ waiter[w][s] = "gone"
                      /\ RequestsOf(s, {"stopped", "ok", "err", "finished"}) # {}
    BY DEF TrueMeansEnded
  <2>1. waiter[w][s] = "gone" /\ HasEnded(s)
    BY DEF WaitersInv, WaitInv, TrueIsTrue
  <2> QED
    BY <2>1 DEF HasEnded, Some, Over, RequestsOf
<1> QED
  BY <1>1, Invariant, PTL

=============================================================================
