------------------------ MODULE TopicDelivery_proof ------------------------
(***************************************************************************)
(* Proofs about TopicDelivery, for every set of events, subscribers and    *)
(* subscriptions and every starting position.                              *)
(***************************************************************************)
EXTENDS TopicDelivery, TLAPS

USE DEF Busy, Senders, Positions, EventAt, TopicLockFree

-----------------------------------------------------------------------------
(* Typing.                                                                 *)

LEMMA UpdateSenderType ==
    ASSUME DeliveryAssumption, NEW s \in Subscription, NEW p \in Nat
    PROVE  /\ UpdateSender(s, p) \in Sender
           /\ UpdateSender(s, p).sub = s
           /\ UpdateSender(s, p).pos = p
           /\ UpdateSender(s, p).idx = p
           /\ UpdateSender(s, p).via = "update"
BY DEF UpdateSender, Sender

LEMMA StartSenderType ==
    ASSUME DeliveryAssumption, NEW s \in Subscription, StartPos[s] >= 0,
           NEW p \in Nat
    PROVE  /\ StartSender(s, p) \in Sender
           /\ StartSender(s, p).sub = s
           /\ StartSender(s, p).pos = p
           /\ StartSender(s, p).idx = StartPos[s] + p
           /\ StartSender(s, p).via = "start"
BY DEF StartSender, Sender, DeliveryAssumption

\* The state starts well typed.
LEMMA TypeInit == ASSUME DeliveryAssumption, Init PROVE TypeOK
<1>1. delivered \in [Subscription -> Seq(Sender)]
  BY DEF Init
<1>2. joined \in [Subscription -> 0..Len(events)]
  BY DEF Init
<1>3. lastReaded \in [Subscription -> Int]
  BY DEF Init, DeliveryAssumption
<1> QED
  <2>1. /\ events = <<>> /\ <<>> \in Seq(Event)
        /\ Senders = {}
    BY DEF Init
  <2>2. /\ updating = {} /\ fanouts = {} /\ starting = {} /\ parked = {}
        /\ leaving = {}
        /\ {open, srvDone, topicDone, runned, crashed} \subseteq BOOLEAN
        /\ post \in [Event -> {"idle", "posting", "dropped", "stored"}]
        /\ status \in [Subscription -> {"new", "checked", "active", "removed"}]
    BY DEF Init
  <2> QED
    BY <1>1, <1>2, <1>3, <2>1, <2>2 DEF TypeOK

LEMMA TypeNext == ASSUME DeliveryAssumption, TypeOK, [Next]_vars PROVE TypeOK'
<1> USE DEF control, registry, goroutines, pipeline, progress
<1>1. CASE UNCHANGED vars
  BY <1>1 DEF vars, TypeOK
<1>2. ASSUME NEW e \in Event, AddEvent(e) PROVE TypeOK'
  BY <1>2 DEF AddEvent, TypeOK
<1>3. ASSUME NEW s \in Subscription, SubscribeCheck(s) PROVE TypeOK'
  BY <1>3 DEF SubscribeCheck, TypeOK
<1>4. ASSUME NEW o \in Subscriber, UnsubscribeCheck(o) PROVE TypeOK'
  BY <1>4 DEF UnsubscribeCheck, TypeOK
<1>5. CASE CancelServer
  BY <1>5 DEF CancelServer, TypeOK
<1>6. CASE CancelTopic
  BY <1>6 DEF CancelTopic, TypeOK
<1>7. ASSUME NEW e \in Event, DropPost(e) PROVE TypeOK'
  BY <1>7 DEF DropPost, TypeOK
<1>8. ASSUME NEW e \in Event, Register(e) PROVE TypeOK'
  <2>1. /\ events' = Append(events, e)
        /\ events \in Seq(Event)
        /\ Len(events) \in Nat
    BY <1>8 DEF Register, TypeOK
  <2>2. /\ events' \in Seq(Event)
        /\ Len(events') = Len(events) + 1
    BY <2>1
  <2>3. /\ Positions \subseteq Positions'
        /\ Len(events) \in Positions'
        /\ 0..Len(events) \subseteq 0..Len(events')
    BY <2>1, <2>2
  <2>4. post' \in [Event -> {"idle", "posting", "dropped", "stored"}]
    BY <1>8 DEF Register, TypeOK
  <2>5. updating' \subseteq Positions'
    BY <1>8, <2>3 DEF Register, TypeOK
  <2>6. fanouts' \subseteq [pos : Positions', subs : SUBSET Subscription]
    <3>1. fanouts \subseteq [pos : Positions, subs : SUBSET Subscription] /\ fanouts' = fanouts
      BY <1>8 DEF Register, TypeOK
    <3> QED BY <2>3, <3>1
  <2>7. joined' \in [Subscription -> 0..Len(events')]
    <3>1. joined \in [Subscription -> 0..Len(events)] /\ joined' = joined
      BY <1>8 DEF Register, TypeOK
    <3> QED BY <2>3, <3>1
  <2>8. /\ Senders' = Senders
        /\ \A g \in Senders : g.idx \in Positions
    BY <1>8 DEF Register, TypeOK
  <2>9. \A g \in Senders' : g.idx \in Positions'
    BY <2>3, <2>8
  <2> QED
    BY <1>8, <2>2, <2>4, <2>5, <2>6, <2>7, <2>9 DEF Register, TypeOK
<1>9. ASSUME NEW p \in updating, UpdateSubs(p) PROVE TypeOK'
  BY <1>9 DEF UpdateSubs, TypeOK, ActiveOf
<1>10. ASSUME NEW f \in fanouts, Fanout(f) PROVE TypeOK'
  BY <1>10, UpdateSenderType DEF Fanout, TypeOK
<1>11. CASE Close
  BY <1>11 DEF Close, TypeOK
<1>12. CASE LoopStops
  BY <1>12 DEF LoopStops, TypeOK
<1>13. ASSUME NEW s \in Subscription, SubscribeAdd(s) PROVE TypeOK'
  BY <1>13 DEF SubscribeAdd, TypeOK
<1>14. ASSUME NEW s \in starting, StartSubNew(s) PROVE TypeOK'
  BY <1>14 DEF StartSubNew, TypeOK
<1>15. ASSUME NEW s \in starting, StartSubPark(s) PROVE TypeOK'
  BY <1>15 DEF StartSubPark, TypeOK
<1>16. ASSUME NEW s \in starting, StartSubOld(s) PROVE TypeOK'
  <2>1. s \in Subscription /\ StartPos[s] \in 0..Len(events) /\ Len(events) \in Nat
    BY <1>16 DEF StartSubOld, TypeOK
  <2>2. ASSUME NEW p \in 0..(Len(events) - StartPos[s] - 1)
        PROVE  LET g == StartSender(s, p)
               IN /\ g \in Sender
                  /\ g.idx \in Positions
                  /\ g = StartSender(g.sub, g.pos)
    <3>1. p \in Nat /\ StartPos[s] \in Nat /\ StartPos[s] + p \in Positions
      BY <2>1, <2>2 DEF Positions
    <3>2. /\ StartSender(s, p) \in Sender /\ StartSender(s, p).sub = s
          /\ StartSender(s, p).pos = p /\ StartSender(s, p).idx = StartPos[s] + p
      BY <2>1, <3>1, StartSenderType
    <3> QED
      BY <3>1, <3>2
  <2>3. /\ Senders' \subseteq Sender
        /\ \A g \in Senders' :
              /\ g.idx \in Positions
              /\ g \in {UpdateSender(g.sub, g.pos), StartSender(g.sub, g.pos)}
    BY <1>16, <2>2 DEF StartSubOld, TypeOK
  <2> QED
    BY <1>16, <2>3 DEF StartSubOld, TypeOK
<1>17. ASSUME NEW s \in starting, StartSubPanic(s) PROVE TypeOK'
  BY <1>17 DEF StartSubPanic, TypeOK
<1>18. ASSUME NEW s \in parked, StartSubUnpark(s) PROVE TypeOK'
  BY <1>18 DEF StartSubUnpark, TypeOK
<1>19. ASSUME NEW o \in leaving, UnsubscribeDelete(o) PROVE TypeOK'
  BY <1>19 DEF UnsubscribeDelete, TypeOK, ActiveOf
<1>20. ASSUME NEW g \in spawned, Reject(g) PROVE TypeOK'
  BY <1>20 DEF Reject, TypeOK
<1>21. ASSUME NEW g \in spawned, DeliverFiltered(g) PROVE TypeOK'
  <2>1. g \in Sender /\ g.sub \in Subscription
    BY DEF TypeOK, Sender
  <2>2. delivered' \in [Subscription -> Seq(Sender)]
    BY <1>21, <2>1 DEF DeliverFiltered, TypeOK
  <2>3. Senders' \subseteq Senders
    BY <1>21 DEF DeliverFiltered
  <2> QED
    BY <1>21, <2>2, <2>3 DEF DeliverFiltered, TypeOK
<1>22. ASSUME NEW g \in spawned, QuitFiltered(g) PROVE TypeOK'
  BY <1>22 DEF QuitFiltered, TypeOK
<1>23. ASSUME NEW g \in spawned, Acquire(g) PROVE TypeOK'
  BY <1>23 DEF Acquire, TypeOK
<1>24. ASSUME NEW g \in holding, EnterSend(g) PROVE TypeOK'
  BY <1>24 DEF EnterSend, TypeOK
<1>25. ASSUME NEW g \in holding, GiveUp(g) PROVE TypeOK'
  BY <1>25 DEF GiveUp, TypeOK
<1>26. ASSUME NEW g \in sending, Deliver(g) PROVE TypeOK'
  <2>1. g \in Sender
    BY DEF TypeOK
  <2>2. g.sub \in Subscription /\ g.pos \in Int
    BY <2>1 DEF Sender
  <2>3. lastReaded' \in [Subscription -> Int]
    BY <1>26, <2>2 DEF Deliver, TypeOK
  <2>4. delivered' \in [Subscription -> Seq(Sender)]
    BY <1>26, <2>1, <2>2 DEF Deliver, TypeOK
  <2> QED
    BY <1>26, <2>3, <2>4 DEF Deliver, TypeOK
<1> QED
  BY <1>1, <1>2, <1>3, <1>4, <1>5, <1>6, <1>7, <1>8, <1>9, <1>10, <1>11, <1>12,
     <1>13, <1>14, <1>15, <1>16, <1>17, <1>18, <1>19, <1>20, <1>21, <1>22,
     <1>23, <1>24, <1>25, <1>26
  DEF Next, Call, Goroutines, Registration, Subscribing, Unsubscribing, Sending

\* Whatever the goroutines, callers and stops do in which order, each variable
\* keeps its type and every goroutine is about an event the topic has stored.
THEOREM Typing == ASSUME DeliveryAssumption PROVE Spec => []TypeOK
<1>1. Init => TypeOK
  BY TypeInit
<1>2. TypeOK /\ [Next]_vars => TypeOK'
  BY TypeNext
<1> QED
  BY <1>1, <1>2, PTL DEF Spec

-----------------------------------------------------------------------------
(* Nothing is lost.                                                        *)

Carried(g) == g \in Senders \/ Received(g)

\* What a step that receives an event does to the record of receptions.
LEMMA Reception ==
    ASSUME TypeOK, NEW g \in Sender,
           delivered' = [delivered EXCEPT ![g.sub] = Append(@, g)]
    PROVE  /\ Received(g)'
           /\ \A h \in Sender : Received(h) => Received(h)'
<1> DEFINE D == delivered[g.sub]
<1>1. g.sub \in Subscription /\ D \in Seq(Sender)
  BY DEF TypeOK, Sender
<1>2. /\ delivered'[g.sub] = Append(D, g)
      /\ \A s \in Subscription \ {g.sub} : delivered'[s] = delivered[s]
  BY <1>1 DEF TypeOK
<1>3. /\ Len(Append(D, g)) = Len(D) + 1
      /\ Append(D, g)[Len(D) + 1] = g
      /\ DOMAIN Append(D, g) = 1..(Len(D) + 1)
      /\ \A k \in DOMAIN D : k \in DOMAIN Append(D, g) /\ Append(D, g)[k] = D[k]
  BY <1>1
<1>4. Received(g)'
  BY <1>1, <1>2, <1>3 DEF Received
<1>5. ASSUME NEW h \in Sender, Received(h) PROVE Received(h)'
  <2>1. CASE h.sub = g.sub
    BY <1>2, <1>3, <1>5, <2>1 DEF Received
  <2>2. CASE h.sub # g.sub
    BY <1>2, <1>5, <2>2 DEF Received, Sender
  <2> QED BY <2>1, <2>2
<1> QED BY <1>4, <1>5

\* While the topic runs, a step of sendEvent drops no event that is due.
LEMMA SendingCarries ==
    ASSUME TypeOK, Sending, ~topicDone'
    PROVE  \A h \in Sender :
              (Carried(h) /\ EventAt(h.idx) \in Accepts[h.sub]) => Carried(h)'
<1> USE DEF control, registry, goroutines, pipeline, progress
<1> SUFFICES ASSUME NEW h \in Sender, Carried(h), EventAt(h.idx) \in Accepts[h.sub]
             PROVE  Carried(h)'
  OBVIOUS
<1>1. ASSUME NEW g \in spawned, Reject(g) PROVE Carried(h)'
  BY <1>1 DEF Reject, Carried, Received
<1>2. ASSUME NEW g \in spawned, DeliverFiltered(g) PROVE Carried(h)'
  <2>1. g \in Sender
    BY DEF TypeOK
  <2> QED
    BY <1>2, <2>1, Reception DEF DeliverFiltered, Carried
<1>3. ASSUME NEW g \in spawned, QuitFiltered(g) PROVE Carried(h)'
  BY <1>3 DEF QuitFiltered
<1>4. ASSUME NEW g \in spawned, Acquire(g) PROVE Carried(h)'
  BY <1>4 DEF Acquire, Carried, Received
<1>5. ASSUME NEW g \in holding, EnterSend(g) PROVE Carried(h)'
  BY <1>5 DEF EnterSend, Carried, Received
<1>6. ASSUME NEW g \in holding, GiveUp(g) PROVE Carried(h)'
  BY <1>6 DEF GiveUp
<1>7. ASSUME NEW g \in sending, Deliver(g) PROVE Carried(h)'
  <2>1. g \in Sender
    BY DEF TypeOK
  <2> QED
    BY <1>7, <2>1, Reception DEF Deliver, Carried
<1> QED
  BY <1>1, <1>2, <1>3, <1>4, <1>5, <1>6, <1>7 DEF Sending

UpdateCovered(s, i) == Underway(s, i) \/ Received(UpdateSender(s, i))

StartCovered(s, i) == s \in starting \/ Carried(StartSender(s, i - StartPos[s]))

\* What NothingLost says of one subscription and one position.
Covered(s, i) ==
    /\ i >= joined[s] => UpdateCovered(s, i)
    /\ (StartPos[s] \in 0..i /\ i < joined[s]) => StartCovered(s, i)

LEMMA NothingLostCovers ==
    NothingLost <=>
        \A s \in Subscription :
            (status[s] = "active" /\ ~topicDone) =>
                \A i \in Positions : EventAt(i) \in Accepts[s] => Covered(s, i)
BY DEF NothingLost, Covered, UpdateCovered, StartCovered, Carried

\* A step that stores nothing and carries on what was carried, without letting
\* go of an update or of a startSub, keeps every position covered.
LEMMA CoveredStays ==
    ASSUME DeliveryAssumption, TypeOK,
           NEW s \in Subscription, NEW i \in Positions, Covered(s, i),
           EventAt(i) \in Accepts[s],
           joined'[s] = joined[s],
           i \in updating => i \in updating',
           fanouts' = fanouts,
           s \in starting => s \in starting',
           \A h \in Sender :
              (Carried(h) /\ EventAt(h.idx) \in Accepts[h.sub]) => Carried(h)'
    PROVE  Covered(s, i)'
<1>1. i \in Nat /\ joined[s] \in Nat /\ StartPos[s] \in Int
  BY DEF TypeOK, DeliveryAssumption
<1>2. UpdateCovered(s, i) => UpdateCovered(s, i)'
  <2>1. /\ UpdateSender(s, i) \in Sender
        /\ UpdateSender(s, i).idx = i
        /\ UpdateSender(s, i).sub = s
    BY <1>1, UpdateSenderType
  <2>2. UpdateCovered(s, i) <=>
           \/ i \in updating
           \/ \E f \in fanouts : f.pos = i /\ s \in f.subs
           \/ Carried(UpdateSender(s, i))
    BY DEF UpdateCovered, Underway, Carried
  <2>3. Carried(UpdateSender(s, i)) => Carried(UpdateSender(s, i))'
    BY <2>1
  <2> QED
    BY <2>2, <2>3 DEF UpdateCovered, Underway, Carried
<1>3. StartPos[s] \in 0..i /\ StartCovered(s, i) => StartCovered(s, i)'
  <2> SUFFICES ASSUME StartPos[s] \in 0..i, StartCovered(s, i)
               PROVE  StartCovered(s, i)'
    OBVIOUS
  <2> DEFINE p == i - StartPos[s]
  <2>1. StartPos[s] >= 0 /\ p \in Nat /\ StartPos[s] + p = i
    BY <1>1
  <2> HIDE DEF p
  <2>2. /\ StartSender(s, p) \in Sender
        /\ StartSender(s, p).idx = i
        /\ StartSender(s, p).sub = s
    <3>1. i \in Nat
      BY <1>1
    <3> QED
      BY <2>1, <3>1 DEF StartSender, Sender
  <2>3. Carried(StartSender(s, p)) => Carried(StartSender(s, p))'
    BY <2>2
  <2> QED
    BY <2>3 DEF StartCovered, p
<1> QED
  BY <1>1, <1>2, <1>3 DEF Covered

LEMMA NothingLostNext ==
    ASSUME DeliveryAssumption, TypeOK, NothingLost, [Next]_vars
    PROVE  NothingLost'
<1> USE DEF control, registry, goroutines, pipeline, progress
<1> SUFFICES ASSUME NEW s \in Subscription, status'[s] = "active", ~topicDone',
                    NEW i \in Positions', EventAt(i)' \in Accepts[s]
             PROVE  Covered(s, i)'
  BY NothingLostCovers DEF Covered, NothingLost, UpdateCovered, StartCovered, Carried
<1> DEFINE Before == i \in Positions /\ EventAt(i) \in Accepts[s]
                     /\ status[s] = "active" /\ ~topicDone
<1>0. Before => Covered(s, i)
  BY NothingLostCovers
<1>1. i \in Nat /\ joined[s] \in Nat /\ Len(events) \in Nat /\ StartPos[s] \in Int
  BY DEF TypeOK, DeliveryAssumption
<1>2. ASSUME UNCHANGED <<events, delivered, fanouts, starting, spawned, holding,
                         sending, updating, joined>>,
             status[s] = "active", ~topicDone
      PROVE  Covered(s, i)'
  BY <1>0, <1>2, CoveredStays DEF Carried, Received
<1>3. CASE Call
  <2>1. ASSUME NEW e \in Event, AddEvent(e) PROVE Covered(s, i)'
    BY <1>2, <2>1 DEF AddEvent
  <2>2. ASSUME NEW t \in Subscription, SubscribeCheck(t) PROVE Covered(s, i)'
    <3>1. status[s] = "active"
      BY <2>2 DEF SubscribeCheck, TypeOK
    <3> QED
      BY <1>2, <2>2, <3>1 DEF SubscribeCheck
  <2>3. ASSUME NEW o \in Subscriber, UnsubscribeCheck(o) PROVE Covered(s, i)'
    BY <1>2, <2>3 DEF UnsubscribeCheck
  <2>4. CASE CancelServer \/ CancelTopic
    BY <2>4 DEF CancelServer, CancelTopic
  <2> QED
    BY <1>3, <2>1, <2>2, <2>3, <2>4 DEF Call
<1>4. CASE Registration
  <2>1. ASSUME NEW e \in Event, DropPost(e) PROVE Covered(s, i)'
    BY <1>2, <2>1 DEF DropPost
  <2>2. ASSUME NEW e \in Event, Register(e) PROVE Covered(s, i)'
    <3>1. /\ events' = Append(events, e) /\ events \in Seq(Event)
          /\ joined'[s] = joined[s] /\ joined[s] <= Len(events)
          /\ Senders' = Senders /\ delivered' = delivered
          /\ fanouts' = fanouts /\ starting' = starting
          /\ updating' = updating \cup {Len(events)}
          /\ status[s] = "active" /\ ~topicDone
      BY <2>2 DEF Register, TypeOK
    <3>2. CASE i = Len(events)
      BY <1>1, <3>1, <3>2 DEF Covered, UpdateCovered, Underway
    <3>3. CASE i # Len(events)
      <4>1. i \in Positions /\ EventAt(i) = EventAt(i)'
        BY <3>1, <3>3
      <4>2. \A h \in Sender : Carried(h) => Carried(h)'
        BY <3>1 DEF Carried, Received
      <4> QED
        BY <1>0, <3>1, <4>1, <4>2, CoveredStays
    <3> QED BY <3>2, <3>3
  <2>3. ASSUME NEW p \in updating, UpdateSubs(p) PROVE Covered(s, i)'
    <3>1. /\ UNCHANGED <<events, delivered, starting, joined, spawned, holding, sending>>
          /\ status[s] = "active" /\ ~topicDone
          /\ fanouts \subseteq fanouts'
          /\ updating' = updating \ {p}
      BY <2>3 DEF UpdateSubs
    <3>2. [pos |-> p, subs |-> ActiveOf(Owner[s])] \in fanouts'
          /\ s \in ActiveOf(Owner[s])
      <4>1. s \in ActiveOf(Owner[s])
        BY <3>1 DEF ActiveOf
      <4>2. Owner[s] \in {u \in Subscriber : ActiveOf(u) # {}}
        BY <4>1 DEF DeliveryAssumption
      <4> QED
        BY <2>3, <4>1, <4>2 DEF UpdateSubs
    <3>3. \A h : Carried(h)' <=> Carried(h)
      BY <3>1 DEF Carried, Received
    <3>4. UpdateCovered(s, i) => UpdateCovered(s, i)'
      BY <3>1, <3>2, <3>3 DEF UpdateCovered, Underway, Carried
    <3>5. StartCovered(s, i) => StartCovered(s, i)'
      BY <3>1, <3>3 DEF StartCovered
    <3> QED
      BY <1>0, <3>1, <3>4, <3>5 DEF Covered
  <2>4. ASSUME NEW f \in fanouts, Fanout(f) PROVE Covered(s, i)'
    <3>1. /\ UNCHANGED <<events, delivered, starting, joined, holding, sending, updating>>
          /\ status[s] = "active" /\ ~topicDone
          /\ fanouts' = fanouts \ {f}
          /\ spawned' = spawned \cup {UpdateSender(t, f.pos) : t \in f.subs}
      BY <2>4 DEF Fanout
    <3>2. \A h : Carried(h) => Carried(h)'
      BY <3>1 DEF Carried, Received
    <3>3. UpdateCovered(s, i) => UpdateCovered(s, i)'
      BY <3>1, <3>2 DEF UpdateCovered, Underway, Carried
    <3>4. StartCovered(s, i) => StartCovered(s, i)'
      BY <3>1, <3>2 DEF StartCovered
    <3> QED
      BY <1>0, <3>1, <3>3, <3>4 DEF Covered
  <2>5. CASE Close
    BY <1>2, <2>5 DEF Close
  <2>6. CASE LoopStops
    BY <1>2, <2>6 DEF LoopStops
  <2> QED
    BY <1>4, <2>1, <2>2, <2>3, <2>4, <2>5, <2>6 DEF Registration
<1>5. CASE Subscribing
  <2>1. ASSUME NEW t \in Subscription, SubscribeAdd(t) PROVE Covered(s, i)'
    <3>1. /\ UNCHANGED <<events, delivered, fanouts, spawned, holding, sending, updating>>
          /\ ~topicDone
          /\ starting' = starting \cup {t}
          /\ joined' = [joined EXCEPT ![t] = Len(events)]
      BY <2>1 DEF SubscribeAdd
    <3>2. CASE s = t
      <4>1. joined'[s] = Len(events) /\ i < Len(events)
        BY <1>1, <3>1, <3>2 DEF TypeOK
      <4> QED
        BY <1>1, <3>1, <3>2, <4>1 DEF Covered, StartCovered
    <3>3. CASE s # t
      <4>1. status[s] = "active" /\ joined'[s] = joined[s]
        BY <2>1, <3>3 DEF SubscribeAdd, TypeOK
      <4>2. \A h \in Sender : Carried(h) => Carried(h)'
        BY <3>1 DEF Carried, Received
      <4> QED
        BY <1>0, <3>1, <4>1, <4>2, CoveredStays
    <3> QED BY <3>2, <3>3
  <2>2. ASSUME NEW t \in Subscription, StartPos[t] < 0,
               UNCHANGED <<events, delivered, fanouts, spawned, holding, sending,
                           updating, joined, status, topicDone>>,
               starting' \in {starting, starting \ {t}}
        PROVE  Covered(s, i)'
    <3>1. \A h \in Sender : Carried(h) => Carried(h)'
      BY <2>2 DEF Carried, Received
    <3>2. CASE s = t
      <4>1. UpdateCovered(s, i) => UpdateCovered(s, i)'
        BY <2>2 DEF UpdateCovered, Underway, Received
      <4> QED
        BY <1>0, <1>1, <2>2, <3>2, <4>1 DEF Covered
    <3>3. CASE s # t
      BY <1>0, <2>2, <3>1, <3>3, CoveredStays
    <3> QED BY <3>2, <3>3
  <2>3. ASSUME NEW t \in starting, StartSubNew(t) \/ StartSubPark(t) PROVE Covered(s, i)'
    BY <2>2, <2>3 DEF StartSubNew, StartSubPark, TypeOK
  <2>4. ASSUME NEW t \in starting, StartSubOld(t) PROVE Covered(s, i)'
    <3>1. /\ UNCHANGED <<events, delivered, fanouts, holding, sending, updating, joined>>
          /\ status[s] = "active" /\ ~topicDone
          /\ starting' = starting \ {t}
          /\ spawned \subseteq spawned'
          /\ \A p \in 0..(Len(events) - StartPos[t] - 1) : StartSender(t, p) \in spawned'
      BY <2>4 DEF StartSubOld
    <3>2. \A h : Carried(h) => Carried(h)'
      BY <3>1 DEF Carried, Received
    <3>3. UpdateCovered(s, i) => UpdateCovered(s, i)'
      BY <3>1, <3>2 DEF UpdateCovered, Underway, Carried
    <3>4. CASE s = t
      <4>1. StartPos[s] \in 0..i => StartCovered(s, i)'
        BY <1>1, <3>1, <3>4 DEF StartCovered, Carried
      <4> QED
        BY <1>0, <3>1, <3>3, <4>1 DEF Covered
    <3>5. CASE s # t
      <4>1. StartCovered(s, i) => StartCovered(s, i)'
        BY <3>1, <3>2, <3>5 DEF StartCovered
      <4> QED
        BY <1>0, <3>1, <3>3, <4>1 DEF Covered
    <3> QED BY <3>4, <3>5
  <2>5. ASSUME NEW t \in starting, StartSubPanic(t) PROVE Covered(s, i)'
    BY <1>2, <2>5 DEF StartSubPanic
  <2>6. ASSUME NEW t \in parked, StartSubUnpark(t) PROVE Covered(s, i)'
    BY <1>2, <2>6 DEF StartSubUnpark
  <2> QED
    BY <1>5, <2>1, <2>3, <2>4, <2>5, <2>6 DEF Subscribing
<1>6. CASE Unsubscribing
  <2>1. PICK o \in leaving : UnsubscribeDelete(o)
    BY <1>6 DEF Unsubscribing
  <2>2. status[s] = "active"
    BY <2>1 DEF UnsubscribeDelete
  <2> QED
    BY <1>2, <2>1, <2>2 DEF UnsubscribeDelete
<1>7. CASE Sending
  <2>1. UNCHANGED <<events, fanouts, starting, updating, joined, status, topicDone>>
    BY <1>7 DEF Sending, Reject, DeliverFiltered, QuitFiltered, Acquire, EnterSend,
                GiveUp, Deliver
  <2> QED
    BY <1>0, <1>7, <2>1, SendingCarries, CoveredStays
<1>8. CASE UNCHANGED vars
  BY <1>2, <1>8 DEF vars
<1> QED
  BY <1>3, <1>4, <1>5, <1>6, <1>7, <1>8 DEF Next, Goroutines

\* Between the loop, updateSubs, the per-subscriber goroutine, startSub and
\* sendEvent no event a subscription is due is ever dropped while the topic
\* runs, for any number of events, subscribers and subscriptions.
THEOREM NoEventLost == ASSUME DeliveryAssumption PROVE Spec => []NothingLost
<1>1. Init => NothingLost
  BY DEF Init, NothingLost
<1>2. TypeOK /\ NothingLost /\ [Next]_vars => NothingLost'
  BY NothingLostNext
<1> QED
  BY <1>1, <1>2, Typing, PTL DEF Spec
-----------------------------------------------------------------------------
(* Each path sends an event once.                                          *)

\* A sendEvent that was ever started and has not left without sending.
Born(g) == Carried(g)

Good(g) ==
    /\ g.idx \in Positions
    /\ g.via = "update" => g.idx = g.pos
    /\ g.via = "start" => StartPos[g.sub] >= 0

Labelled == \A s \in Subscription : \A k \in DOMAIN delivered[s] : delivered[s][k].sub = s

\* A sender is in one place, and gone once its event was received.
Places ==
    /\ spawned \cap holding = {} /\ spawned \cap sending = {} /\ holding \cap sending = {}
    /\ \A g \in Senders : ~Received(g)

\* An update that waits for its goroutine has no sender yet.
Updates ==
    \A i \in updating :
        /\ \A f \in fanouts : f.pos # i
        /\ \A g \in Sender : Born(g) /\ g.via = "update" => g.pos # i

Fans ==
    /\ \A f \in fanouts, g \in Sender :
          Born(g) /\ g.via = "update" /\ g.pos = f.pos => g.sub \notin f.subs
    /\ \A f, h \in fanouts : f # h /\ f.pos = h.pos => f.subs \cap h.subs = {}

\* startSub runs once.
Starts ==
    \A s \in Subscription :
        /\ status[s] \in {"new", "checked"} => s \notin starting \cup parked
        /\ (status[s] \in {"new", "checked"} \/ s \in starting) =>
              \A g \in Sender : Born(g) /\ g.via = "start" => g.sub # s

Once ==
    /\ Labelled /\ Places /\ Updates /\ Fans /\ Starts /\ AtMostOncePerPath
    /\ \A g \in Sender : Born(g) => Good(g)

\* What a reception does to the record, in full.
LEMMA Appended ==
    ASSUME TypeOK, NEW g \in Sender,
           delivered' = [delivered EXCEPT ![g.sub] = Append(@, g)]
    PROVE  /\ g.sub \in Subscription /\ Len(delivered[g.sub]) \in Nat
           /\ DOMAIN delivered[g.sub] = 1..Len(delivered[g.sub])
           /\ DOMAIN delivered'[g.sub] = 1..(Len(delivered[g.sub]) + 1)
           /\ Len(delivered'[g.sub]) = Len(delivered[g.sub]) + 1
           /\ delivered'[g.sub][Len(delivered[g.sub]) + 1] = g
           /\ \A k \in 1..Len(delivered[g.sub]) :
                 delivered'[g.sub][k] = delivered[g.sub][k]
           /\ \A s \in Subscription \ {g.sub} : delivered'[s] = delivered[s]
           /\ \A h \in Sender : Received(h)' <=> (Received(h) \/ h = g)
<1> DEFINE D == delivered[g.sub]
<1>1. g.sub \in Subscription /\ D \in Seq(Sender)
  BY DEF TypeOK, Sender
<1>2. /\ delivered'[g.sub] = Append(D, g)
      /\ \A s \in Subscription \ {g.sub} : delivered'[s] = delivered[s]
  BY <1>1 DEF TypeOK
<1>3. /\ Len(D) \in Nat /\ DOMAIN D = 1..Len(D)
      /\ Len(Append(D, g)) = Len(D) + 1
      /\ Append(D, g)[Len(D) + 1] = g
      /\ DOMAIN Append(D, g) = 1..(Len(D) + 1)
      /\ \A k \in 1..Len(D) : Append(D, g)[k] = D[k]
  BY <1>1
<1>4. ASSUME NEW h \in Sender PROVE Received(h)' <=> (Received(h) \/ h = g)
  <2>1. CASE h.sub = g.sub
    <3> HIDE DEF D
    <3>1. Received(h)' <=> \E k \in 1..(Len(D) + 1) : Append(D, g)[k] = h
      BY <1>2, <1>3, <2>1 DEF Received
    <3>2. Received(h) <=> \E k \in 1..Len(D) : D[k] = h
      BY <1>3, <2>1 DEF Received, D
    <3>3. \A k \in 1..(Len(D) + 1) : k \in 1..Len(D) \/ k = Len(D) + 1
      BY <1>3
    <3>4. 1..Len(D) \subseteq 1..(Len(D) + 1) /\ Len(D) + 1 \in 1..(Len(D) + 1)
      BY <1>3
    <3> QED
      BY <1>3, <3>1, <3>2, <3>3, <3>4
  <2>2. CASE h.sub # g.sub
    BY <1>2, <2>2 DEF Received, Sender
  <2> QED BY <2>1, <2>2
<1> QED
  BY <1>1, <1>2, <1>3, <1>4

\* A step that starts no sender and leaves what is known of the others.
LEMMA OnceStays ==
    ASSUME TypeOK, Once,
           UNCHANGED <<updating, fanouts, status, delivered, events>>,
           starting' \subseteq starting, parked' \subseteq parked \cup starting,
           Senders' \subseteq Senders,
           spawned' \cap holding' = {}, spawned' \cap sending' = {},
           holding' \cap sending' = {}
    PROVE  Once'
<1>1. \A g : Born(g)' => Born(g)
  BY DEF Born, Carried, Received
<1>2. Places'
  BY DEF Once, Places, Received
<1>3. Updates' /\ Fans'
  BY <1>1 DEF Once, Updates, Fans
<1>4. Starts'
  BY <1>1 DEF Once, Starts
<1>5. Labelled' /\ AtMostOncePerPath'
  BY DEF Once, Labelled, AtMostOncePerPath
<1>6. \A g \in Sender : Born(g)' => Good(g)'
  BY <1>1 DEF Once, Good
<1> QED
  BY <1>2, <1>3, <1>4, <1>5, <1>6 DEF Once

\* A sender's event is received.
LEMMA OnceDelivered ==
    ASSUME TypeOK, Once, NEW g \in Senders,
           delivered' = [delivered EXCEPT ![g.sub] = Append(@, g)],
           UNCHANGED <<updating, fanouts, starting, parked, status, events>>,
           spawned' \subseteq spawned, holding' \subseteq holding,
           sending' \subseteq sending, Senders' = Senders \ {g}
    PROVE  Once'
<1>0. g \in Sender
  BY DEF TypeOK
<1>1. \A h \in Sender : Born(h)' => Born(h)
  BY <1>0, Appended DEF Born, Carried
<1>2. Places'
  BY <1>0, Appended DEF Once, Places, TypeOK
<1>3. Updates' /\ Fans'
  BY <1>1 DEF Once, Updates, Fans
<1>4. Starts'
  BY <1>1 DEF Once, Starts
<1>5. Labelled'
  <2> SUFFICES ASSUME NEW s \in Subscription, NEW k \in DOMAIN delivered'[s]
               PROVE  delivered'[s][k].sub = s
    BY DEF Labelled
  <2>1. CASE s # g.sub
    BY <1>0, <2>1, Appended DEF Once, Labelled
  <2>2. CASE s = g.sub
    <3>1. k \in 1..Len(delivered[s]) \/ k = Len(delivered[s]) + 1
      BY <1>0, <2>2, Appended
    <3> QED
      BY <1>0, <2>2, <3>1, Appended DEF Once, Labelled
  <2> QED
    BY <2>1, <2>2
<1>6. AtMostOncePerPath'
  <2> SUFFICES ASSUME NEW s \in Subscription, NEW i \in DOMAIN delivered'[s],
                      NEW j \in DOMAIN delivered'[s], i # j
               PROVE  delivered'[s][i] # delivered'[s][j]
    BY DEF AtMostOncePerPath
  <2>1. CASE s # g.sub
    BY <1>0, <2>1, Appended DEF Once, AtMostOncePerPath
  <2>2. CASE s = g.sub
    <3>1. \A k \in DOMAIN delivered'[s] :
              k \in 1..Len(delivered[s]) \/ k = Len(delivered[s]) + 1
      BY <1>0, <2>2, Appended
    <3>2. \A k \in 1..Len(delivered[s]) : delivered[s][k] # g
      BY <1>0, <2>2, Appended DEF Once, Places, Received
    <3>3. \A k, l \in 1..Len(delivered[s]) : k # l => delivered[s][k] # delivered[s][l]
      BY <1>0, <2>2, Appended DEF Once, AtMostOncePerPath
    <3>4. \A k \in 1..Len(delivered[s]) : delivered'[s][k] = delivered[s][k]
      <4>1. \A k \in 1..Len(delivered[g.sub]) : delivered'[g.sub][k] = delivered[g.sub][k]
        BY <1>0, Appended
      <4> QED
        BY <2>2, <4>1
    <3>5. delivered'[s][Len(delivered[s]) + 1] = g
      <4>1. delivered'[g.sub][Len(delivered[g.sub]) + 1] = g
        BY <1>0, Appended
      <4> QED
        BY <2>2, <4>1
    <3> QED
      BY <3>1, <3>2, <3>3, <3>4, <3>5
  <2> QED
    BY <2>1, <2>2
<1>7. \A h \in Sender : Born(h)' => Good(h)'
  BY <1>1 DEF Once, Good
<1> QED
  BY <1>2, <1>3, <1>4, <1>5, <1>6, <1>7 DEF Once

\* Goroutines are started for senders that were not there before.
LEMMA OnceSpawned ==
    ASSUME TypeOK, Once, NEW N \in SUBSET Sender,
           \A g \in N : ~Born(g) /\ Good(g),
           spawned' = spawned \cup N, UNCHANGED <<holding, sending, delivered, events>>
    PROVE  /\ Labelled' /\ Places' /\ AtMostOncePerPath'
           /\ \A g \in Sender : Born(g)' => Good(g)'
           /\ \A g : Born(g)' => Born(g) \/ g \in N
<1>1. \A g : Received(g)' <=> Received(g)
  BY DEF Received
<1>2. \A g : Born(g)' => Born(g) \/ g \in N
  BY <1>1 DEF Born, Carried
<1>3. Places'
  BY <1>1 DEF Once, Places, Born, Carried
<1>4. Labelled' /\ AtMostOncePerPath'
  BY DEF Once, Labelled, AtMostOncePerPath
<1>5. \A g \in Sender : Born(g)' => Good(g)'
  BY <1>2 DEF Once, Good
<1> QED
  BY <1>2, <1>3, <1>4, <1>5

LEMMA OnceInit == ASSUME DeliveryAssumption, Init PROVE Once
<1>1. Senders = {} /\ updating = {} /\ fanouts = {} /\ starting = {} /\ parked = {}
  BY DEF Init
<1>2. \A s \in Subscription : delivered[s] = <<>> /\ DOMAIN delivered[s] = {}
  BY DEF Init
<1>3. \A g \in Sender : ~Born(g)
  BY <1>1, <1>2 DEF Born, Carried, Received, Sender
<1>4. Labelled /\ AtMostOncePerPath
  BY <1>2 DEF Labelled, AtMostOncePerPath
<1>5. Places
  BY <1>1 DEF Places
<1> QED
  BY <1>1, <1>3, <1>4, <1>5 DEF Once, Updates, Fans, Starts

LEMMA OnceNext == ASSUME DeliveryAssumption, TypeOK, Once, [Next]_vars PROVE Once'
<1> USE DEF control, registry, goroutines, pipeline, progress
<1>1. ASSUME UNCHANGED <<updating, fanouts, starting, parked, status, delivered,
                         events, spawned, holding, sending>>
      PROVE  Once'
  BY <1>1, OnceStays DEF Once, Places
<1>2. CASE Call
  <2>1. ASSUME NEW e \in Event, AddEvent(e) PROVE Once'
    BY <1>1, <2>1 DEF AddEvent
  <2>2. ASSUME NEW s \in Subscription, SubscribeCheck(s) PROVE Once'
    <3>1. /\ \A t \in Subscription :
                status'[t] \in {"new", "checked"} => status[t] \in {"new", "checked"}
          /\ UNCHANGED <<updating, fanouts, starting, parked, delivered, events,
                         spawned, holding, sending>>
      BY <2>2 DEF SubscribeCheck, TypeOK
    <3>2. \A g : Born(g)' <=> Born(g)
      BY <3>1 DEF Born, Carried, Received
    <3>3. Labelled' /\ Places' /\ AtMostOncePerPath'
      BY <3>1 DEF Once, Labelled, Places, Received, AtMostOncePerPath
    <3>4. Updates' /\ Fans'
      BY <3>1, <3>2 DEF Once, Updates, Fans
    <3>5. Starts'
      BY <3>1, <3>2 DEF Once, Starts
    <3>6. \A g \in Sender : Born(g)' => Good(g)'
      BY <3>1, <3>2 DEF Once, Good
    <3> QED
      BY <3>3, <3>4, <3>5, <3>6 DEF Once
  <2>3. ASSUME NEW o \in Subscriber, UnsubscribeCheck(o) PROVE Once'
    BY <1>1, <2>3 DEF UnsubscribeCheck
  <2>4. CASE CancelServer \/ CancelTopic
    BY <1>1, <2>4 DEF CancelServer, CancelTopic
  <2> QED
    BY <1>2, <2>1, <2>2, <2>3, <2>4 DEF Call
<1>3. CASE Registration
  <2>1. ASSUME NEW e \in Event, DropPost(e) PROVE Once'
    BY <1>1, <2>1 DEF DropPost
  <2>2. ASSUME NEW e \in Event, Register(e) PROVE Once'
    <3>1. /\ UNCHANGED <<fanouts, starting, parked, status, delivered, spawned,
                         holding, sending>>
          /\ updating' = updating \cup {Len(events)}
          /\ events' = Append(events, e) /\ events \in Seq(Event)
      BY <2>2 DEF Register, TypeOK
    <3>2. Len(events) \in Nat /\ Positions \subseteq Positions'
      BY <3>1
    <3>3. \A g : Born(g)' <=> Born(g)
      BY <3>1 DEF Born, Carried, Received
    <3>4. Labelled' /\ Places' /\ AtMostOncePerPath'
      BY <3>1 DEF Once, Labelled, Places, Received, AtMostOncePerPath
    <3>5. Updates'
      <4>1. \A f \in fanouts : f.pos # Len(events)
        BY <3>2 DEF TypeOK
      <4>2. \A g \in Sender : Born(g) /\ g.via = "update" => g.pos # Len(events)
        BY <3>2 DEF Once, Good
      <4> QED
        BY <3>1, <3>3, <4>1, <4>2 DEF Once, Updates
    <3>6. Fans' /\ Starts'
      BY <3>1, <3>3 DEF Once, Fans, Starts
    <3>7. \A g \in Sender : Born(g)' => Good(g)'
      BY <3>2, <3>3 DEF Once, Good
    <3> QED
      BY <3>4, <3>5, <3>6, <3>7 DEF Once
  <2>3. ASSUME NEW p \in updating, UpdateSubs(p) PROVE Once'
    <3> DEFINE New == {[pos |-> p, subs |-> ActiveOf(o)] :
                          o \in {u \in Subscriber : ActiveOf(u) # {}}}
    <3>1. /\ UNCHANGED <<starting, parked, status, delivered, events, spawned,
                         holding, sending>>
          /\ updating' = updating \ {p} /\ fanouts' = fanouts \cup New
      BY <2>3 DEF UpdateSubs
    <3>2. \A g : Born(g)' <=> Born(g)
      BY <3>1 DEF Born, Carried, Received
    <3>3. Labelled' /\ Places' /\ AtMostOncePerPath' /\ Starts'
      BY <3>1, <3>2 DEF Once, Labelled, Places, Received, AtMostOncePerPath, Starts
    <3>4. /\ \A f \in New : f.pos = p
          /\ \A f, h \in New : f # h => f.subs \cap h.subs = {}
      <4>1. \A f \in New : \E o : f = [pos |-> p, subs |-> ActiveOf(o)]
        OBVIOUS
      <4>2. \A o, u : ActiveOf(o) = ActiveOf(u) \/ ActiveOf(o) \cap ActiveOf(u) = {}
        BY DEF ActiveOf
      <4> HIDE DEF New
      <4>3. \A f, h \in New : f # h => f.subs \cap h.subs = {}
        <5> SUFFICES ASSUME NEW f \in New, NEW h \in New, f # h
                     PROVE  f.subs \cap h.subs = {}
          OBVIOUS
        <5>1. PICK o : f = [pos |-> p, subs |-> ActiveOf(o)]
          BY <4>1
        <5>2. PICK u : h = [pos |-> p, subs |-> ActiveOf(u)]
          BY <4>1
        <5> QED
          BY <4>2, <5>1, <5>2
      <4> QED
        BY <4>1, <4>3
    <3> HIDE DEF New
    <3>5. Updates'
      BY <3>1, <3>2, <3>4 DEF Once, Updates
    <3>6. Fans'
      <4>1. /\ \A f \in fanouts : f.pos # p
            /\ \A g \in Sender : Born(g) /\ g.via = "update" => g.pos # p
        BY DEF Once, Updates
      <4>2. \A f \in fanouts', g \in Sender :
               Born(g)' /\ g.via = "update" /\ g.pos = f.pos => g.sub \notin f.subs
        BY <3>1, <3>2, <3>4, <4>1 DEF Once, Fans
      <4>3. \A f, h \in fanouts' : f # h /\ f.pos = h.pos => f.subs \cap h.subs = {}
        BY <3>1, <3>4, <4>1 DEF Once, Fans
      <4> QED
        BY <4>2, <4>3 DEF Fans
    <3>7. \A g \in Sender : Born(g)' => Good(g)'
      BY <3>1, <3>2 DEF Once, Good
    <3> QED
      BY <3>3, <3>5, <3>6, <3>7 DEF Once
  <2>4. ASSUME NEW f \in fanouts, Fanout(f) PROVE Once'
    <3> DEFINE N == {UpdateSender(s, f.pos) : s \in f.subs}
    <3>1. /\ UNCHANGED <<updating, starting, parked, status, delivered, events,
                         holding, sending>>
          /\ fanouts' = fanouts \ {f} /\ spawned' = spawned \cup N
      BY <2>4 DEF Fanout
    <3>2. f.pos \in Positions /\ f.pos \in Nat /\ f.subs \subseteq Subscription
      BY DEF TypeOK
    <3>3. \A g \in N : /\ g \in Sender /\ g.via = "update" /\ g.sub \in f.subs
                       /\ g.pos = f.pos /\ g.idx = f.pos
      BY <3>2, UpdateSenderType
    <3> HIDE DEF N
    <3>4. \A g \in N : ~Born(g) /\ Good(g)
      BY <3>2, <3>3 DEF Once, Fans, Good
    <3>5. /\ Labelled' /\ Places' /\ AtMostOncePerPath'
          /\ \A g \in Sender : Born(g)' => Good(g)'
          /\ \A g : Born(g)' => Born(g) \/ g \in N
      <4>1. N \in SUBSET Sender
        BY <3>3
      <4> QED
        BY <3>1, <3>4, <4>1, OnceSpawned
    <3>6. Updates'
      BY <3>1, <3>3, <3>5 DEF Once, Updates
    <3>7. Fans'
      BY <3>1, <3>3, <3>5 DEF Once, Fans
    <3>8. Starts'
      BY <3>1, <3>3, <3>5 DEF Once, Starts
    <3> QED
      BY <3>5, <3>6, <3>7, <3>8 DEF Once
  <2>5. CASE Close \/ LoopStops
    BY <1>1, <2>5 DEF Close, LoopStops
  <2> QED
    BY <1>3, <2>1, <2>2, <2>3, <2>4, <2>5 DEF Registration
<1>4. CASE Subscribing
  <2>1. ASSUME NEW s \in Subscription, SubscribeAdd(s) PROVE Once'
    <3>1. /\ UNCHANGED <<updating, fanouts, parked, delivered, events, spawned,
                         holding, sending>>
          /\ starting' = starting \cup {s}
          /\ status[s] = "checked" /\ status' = [status EXCEPT ![s] = "active"]
      BY <2>1 DEF SubscribeAdd
    <3>2. \A g : Born(g)' <=> Born(g)
      BY <3>1 DEF Born, Carried, Received
    <3>3. Labelled' /\ Places' /\ AtMostOncePerPath'
      BY <3>1 DEF Once, Labelled, Places, Received, AtMostOncePerPath
    <3>4. Updates' /\ Fans'
      BY <3>1, <3>2 DEF Once, Updates, Fans
    <3>5. Starts'
      BY <3>1, <3>2 DEF Once, Starts, TypeOK
    <3>6. \A g \in Sender : Born(g)' => Good(g)'
      BY <3>1, <3>2 DEF Once, Good
    <3> QED
      BY <3>3, <3>4, <3>5, <3>6 DEF Once
  <2>2. ASSUME NEW s \in starting, StartSubNew(s) \/ StartSubPark(s) PROVE Once'
    BY <2>2, OnceStays DEF StartSubNew, StartSubPark, Once, Places
  <2>3. ASSUME NEW s \in starting, StartSubOld(s) PROVE Once'
    <3> DEFINE N == {StartSender(s, p) : p \in 0..(Len(events) - StartPos[s] - 1)}
    <3>1. /\ UNCHANGED <<updating, fanouts, parked, status, delivered, events,
                         holding, sending>>
          /\ starting' = starting \ {s} /\ spawned' = spawned \cup N
          /\ StartPos[s] \in 0..Len(events) /\ s \in Subscription
      BY <2>3 DEF StartSubOld, TypeOK
    <3>2. \A g \in N : /\ g \in Sender /\ g.via = "start" /\ g.sub = s
                       /\ g.idx \in Positions
      <4> SUFFICES ASSUME NEW p \in 0..(Len(events) - StartPos[s] - 1)
                   PROVE  LET g == StartSender(s, p)
                          IN /\ g \in Sender /\ g.via = "start" /\ g.sub = s
                             /\ g.idx \in Positions
        OBVIOUS
      <4>1. /\ p \in Nat /\ StartPos[s] >= 0 /\ StartPos[s] + p \in Positions
        <5>1. Len(events) \in Nat
          BY DEF TypeOK
        <5> QED
          BY <3>1, <5>1
      <4> QED
        BY <3>1, <4>1, StartSenderType
    <3> HIDE DEF N
    <3>3. \A g \in N : ~Born(g) /\ Good(g)
      BY <3>1, <3>2 DEF Once, Starts, Good
    <3>4. /\ Labelled' /\ Places' /\ AtMostOncePerPath'
          /\ \A g \in Sender : Born(g)' => Good(g)'
          /\ \A g : Born(g)' => Born(g) \/ g \in N
      <4>1. N \in SUBSET Sender
        BY <3>2
      <4> QED
        BY <3>1, <3>3, <4>1, OnceSpawned
    <3>5. Updates' /\ Fans'
      BY <3>1, <3>2, <3>4 DEF Once, Updates, Fans
    <3>6. Starts'
      BY <3>1, <3>2, <3>4 DEF Once, Starts
    <3> QED
      BY <3>4, <3>5, <3>6 DEF Once
  <2>4. ASSUME NEW s \in starting, StartSubPanic(s) PROVE Once'
    BY <1>1, <2>4 DEF StartSubPanic
  <2>5. ASSUME NEW s \in parked, StartSubUnpark(s) PROVE Once'
    BY <2>5, OnceStays DEF StartSubUnpark, Once, Places
  <2> QED
    BY <1>4, <2>1, <2>2, <2>3, <2>4, <2>5 DEF Subscribing
<1>5. CASE Unsubscribing
  <2>1. PICK o \in leaving : UnsubscribeDelete(o)
    BY <1>5 DEF Unsubscribing
  <2>2. /\ \A t \in Subscription :
              status'[t] \in {"new", "checked"} => status[t] \in {"new", "checked"}
        /\ UNCHANGED <<updating, fanouts, starting, parked, delivered, events,
                       spawned, holding, sending>>
    BY <2>1 DEF UnsubscribeDelete, TypeOK
  <2>3. \A g : Born(g)' <=> Born(g)
    BY <2>2 DEF Born, Carried, Received
  <2>4. Labelled' /\ Places' /\ AtMostOncePerPath'
    BY <2>2 DEF Once, Labelled, Places, Received, AtMostOncePerPath
  <2>5. Updates' /\ Fans' /\ Starts'
    BY <2>2, <2>3 DEF Once, Updates, Fans, Starts
  <2>6. \A g \in Sender : Born(g)' => Good(g)'
    BY <2>2, <2>3 DEF Once, Good
  <2> QED
    BY <2>4, <2>5, <2>6 DEF Once
<1>6. CASE Sending
  <2>1. ASSUME NEW g \in spawned, Reject(g) \/ QuitFiltered(g) PROVE Once'
    BY <2>1, OnceStays DEF Reject, QuitFiltered, Once, Places
  <2>2. ASSUME NEW g \in spawned, DeliverFiltered(g) PROVE Once'
    <3>1. Senders' = Senders \ {g}
      BY <2>2 DEF DeliverFiltered, Once, Places
    <3> QED
      BY <2>2, <3>1, OnceDelivered DEF DeliverFiltered
  <2>3. ASSUME NEW g \in spawned, Acquire(g) PROVE Once'
    BY <2>3, OnceStays DEF Acquire, Once, Places
  <2>4. ASSUME NEW g \in holding, EnterSend(g) \/ GiveUp(g) PROVE Once'
    BY <2>4, OnceStays DEF EnterSend, GiveUp, Once, Places
  <2>5. ASSUME NEW g \in sending, Deliver(g) PROVE Once'
    <3>1. Senders' = Senders \ {g}
      BY <2>5 DEF Deliver, Once, Places
    <3> QED
      BY <2>5, <3>1, OnceDelivered DEF Deliver
  <2> QED
    BY <1>6, <2>1, <2>2, <2>3, <2>4, <2>5 DEF Sending
<1>7. CASE UNCHANGED vars
  BY <1>1, <1>7 DEF vars
<1> QED
  BY <1>2, <1>3, <1>4, <1>5, <1>6, <1>7 DEF Next, Goroutines

\* A sender is in one place at a time, is started once, and is gone when its
\* event was received: updateSubs, Fanout and startSub each run once per cause.
THEOREM OnceAlways == ASSUME DeliveryAssumption PROVE Spec => []Once
<1>1. Init => Once
  BY OnceInit
<1>2. TypeOK /\ Once /\ [Next]_vars => Once'
  BY OnceNext
<1> QED
  BY <1>1, <1>2, Typing, PTL DEF Spec

\* Neither updateSubs nor startSub hands a subscription the same event twice,
\* however their goroutines interleave with a subscriber that leaves, with
\* stops and with one another, for any number of them.
THEOREM EachPathOnce == ASSUME DeliveryAssumption PROVE Spec => []AtMostOncePerPath
<1>1. Once => AtMostOncePerPath
  BY DEF Once
<1> QED
  BY <1>1, OnceAlways, PTL

-----------------------------------------------------------------------------
(* An unfiltered subscription's positions go up.                           *)

OneHolder == \A g, h \in Busy : g.sub = h.sub => g = h

InTurn ==
    /\ \A g \in Busy : g.sub \notin Filtered
    /\ \A g \in sending : IsNext(g)
    /\ \A s \in parked : StartPos[s] < 0

\* How lastReaded follows the position received last; for OnlyNewEvents
\* startSub may move it past that.
Follows(s) ==
    LET p == delivered[s][Len(delivered[s])].pos
    IN  IF StartPos[s] < 0 THEN lastReaded[s] >= p ELSE lastReaded[s] = p

Turns ==
    /\ OneHolder /\ InTurn /\ SequentialPositions
    /\ \A s \in Subscription \ Filtered : Len(delivered[s]) > 0 => Follows(s)

\* A step in which no sender takes s.Lock, enters the send or sends without
\* filters, and lastReaded is left alone.
LEMMA TurnsStay ==
    ASSUME TypeOK, Turns, Busy' \subseteq Busy, sending' \subseteq sending,
           \A s \in parked' : StartPos[s] < 0,
           \A s \in Subscription \ Filtered : delivered'[s] = delivered[s],
           UNCHANGED lastReaded
    PROVE  Turns'
<1>1. OneHolder' /\ InTurn'
  BY DEF Turns, OneHolder, InTurn, IsNext
<1>2. SequentialPositions'
  BY DEF Turns, SequentialPositions
<1>3. \A s \in Subscription \ Filtered : Len(delivered[s])' > 0 => Follows(s)'
  BY DEF Turns, Follows
<1> QED
  BY <1>1, <1>2, <1>3 DEF Turns

\* startSub of an OnlyNewEvents subscription moves lastReaded to the end.
LEMMA TurnsSkipToEnd ==
    ASSUME DeliveryAssumption, TypeOK, Once, Turns,
           NEW s \in Subscription, StartPos[s] < 0, SubLockFree(s),
           lastReaded' = [lastReaded EXCEPT ![s] = Len(events) - 1],
           UNCHANGED <<holding, sending, delivered>>, parked' \subseteq parked
    PROVE  Turns'
<1>1. OneHolder' /\ SequentialPositions'
  BY DEF Turns, OneHolder, SequentialPositions
<1>2. InTurn'
  <2>1. \A g \in sending : g.sub \in Subscription /\ g.sub # s
    BY DEF SubLockFree, TypeOK, Sender
  <2>2. \A g \in sending : lastReaded'[g.sub] = lastReaded[g.sub]
    BY <2>1 DEF TypeOK
  <2> QED
    BY <2>2 DEF Turns, InTurn, IsNext
<1>3. ASSUME NEW t \in Subscription \ Filtered, Len(delivered'[t]) > 0
      PROVE  Follows(t)'
  <2>1. CASE t # s
    BY <1>3, <2>1 DEF Turns, Follows, TypeOK
  <2>2. CASE t = s
    <3> DEFINE n == Len(delivered[t])
               g == delivered[t][n]
    <3>1. n \in Nat /\ n \in DOMAIN delivered[t] /\ delivered[t] \in Seq(Sender)
      BY <1>3 DEF TypeOK
    <3>2. g \in Sender /\ g.sub = t
      BY <3>1 DEF Once, Labelled
    <3>3. Received(g)
      BY <3>1, <3>2 DEF Received
    <3>4. Good(g)
      BY <3>2, <3>3 DEF Once, Born, Carried
    <3>5. g.pos \in Positions
      BY <2>2, <3>2, <3>4 DEF Good, Sender
    <3>6. lastReaded'[s] = Len(events) - 1 /\ Len(events) \in Nat
      BY DEF TypeOK
    <3> QED
      BY <2>2, <3>5, <3>6 DEF Follows
  <2> QED
    BY <2>1, <2>2
<1> QED
  BY <1>1, <1>2, <1>3 DEF Turns

LEMMA TurnsDeliver ==
    ASSUME DeliveryAssumption, TypeOK, Once, Turns, NEW g \in sending, Deliver(g)
    PROVE  Turns'
<1> USE DEF control, registry, goroutines, pipeline, progress
<1> DEFINE s == g.sub
           D == delivered[s]
           n == Len(D)
<1>1. /\ g \in Sender /\ s \in Subscription \ Filtered /\ g.pos \in Nat
      /\ D \in Seq(Sender) /\ n \in Nat /\ lastReaded[s] \in Int
      /\ StartPos[s] \in Int
  <2>1. g \in Sender /\ s \in Subscription /\ g.pos \in Nat
    BY DEF TypeOK, Sender
  <2>2. s \notin Filtered
    BY DEF Turns, InTurn
  <2>3. D \in Seq(Sender) /\ lastReaded[s] \in Int /\ StartPos[s] \in Int
    BY <2>1 DEF TypeOK, DeliveryAssumption
  <2> QED
    BY <2>1, <2>2, <2>3
<1>2. delivered' = [delivered EXCEPT ![g.sub] = Append(@, g)]
  BY DEF Deliver
<1>3. /\ Len(delivered'[s]) = n + 1
      /\ delivered'[s][n + 1] = g
      /\ \A k \in 1..n : delivered'[s][k] = D[k]
      /\ \A t \in Subscription \ {s} : delivered'[t] = delivered[t]
  <2>1. /\ Len(delivered'[g.sub]) = Len(delivered[g.sub]) + 1
        /\ delivered'[g.sub][Len(delivered[g.sub]) + 1] = g
    BY <1>1, <1>2, Appended
  <2>2. \A k \in 1..Len(delivered[g.sub]) : delivered'[g.sub][k] = delivered[g.sub][k]
    BY <1>1, <1>2, Appended
  <2>3. \A t \in Subscription \ {g.sub} : delivered'[t] = delivered[t]
    BY <1>1, <1>2, Appended
  <2> QED
    BY <2>1, <2>2, <2>3
<1>4. /\ lastReaded'[s] = g.pos
      /\ \A t \in Subscription \ {s} : lastReaded'[t] = lastReaded[t]
  BY <1>1 DEF Deliver, TypeOK
<1>5. OneHolder'
  BY DEF Deliver, Turns, OneHolder
<1>6. InTurn'
  <2>1. \A h \in sending' : h \in sending /\ h.sub \in Subscription /\ h.sub # s
    BY DEF Deliver, Turns, OneHolder, TypeOK, Sender
  <2>2. /\ \A h \in Busy' : h \in Busy
        /\ parked' = parked
    BY DEF Deliver
  <2> QED
    BY <1>4, <2>1, <2>2 DEF Turns, InTurn, IsNext
<1>7. n > 0 => LET p == D[n].pos
               IN IF StartPos[s] < 0 THEN g.pos > p
                  ELSE g.pos = p + 1 \/ (p = 0 /\ g.pos = 0)
  <2> SUFFICES ASSUME n > 0
               PROVE  LET p == D[n].pos
                      IN IF StartPos[s] < 0 THEN g.pos > p
                         ELSE g.pos = p + 1 \/ (p = 0 /\ g.pos = 0)
    OBVIOUS
  <2> DEFINE h == D[n]
  <2>1. n \in DOMAIN D /\ h \in Sender /\ h.sub = s /\ h.pos \in Nat
    <3>1. n \in DOMAIN D
      BY <1>1
    <3>2. D[n] \in Sender
      BY <1>1, <3>1
    <3>3. D[n].sub = s
      BY <1>1, <3>1 DEF Once, Labelled
    <3> QED
      BY <3>1, <3>2, <3>3 DEF Sender
  <2>2. Received(h)
    BY <2>1 DEF Received
  <2>3. Follows(s)
    BY <1>1 DEF Turns
  <2>4. IsNext(g)
    BY DEF Turns, InTurn
  <2>5. CASE StartPos[s] >= 0
    BY <1>1, <2>1, <2>3, <2>4, <2>5 DEF Follows, IsNext
  <2>6. CASE StartPos[s] < 0
    <3>1. h # g
      BY <2>2 DEF Once, Places
    <3>2. Good(g) /\ Good(h)
      BY <1>1, <2>1, <2>2 DEF Once, Born, Carried
    <3>3. /\ g.via = "update" /\ g.idx = g.pos
          /\ h.via = "update" /\ h.idx = h.pos
      BY <1>1, <2>1, <2>6, <3>2 DEF Good, Sender
    <3>4. h.pos # g.pos
      <4>1. \A a, b \in Sender :
               a.sub = b.sub /\ a.pos = b.pos /\ a.idx = b.idx /\ a.via = b.via => a = b
        BY DEF Sender
      <4> HIDE DEF h
      <4> QED
        BY <1>1, <2>1, <3>1, <3>3, <4>1
    <3>5. lastReaded[s] >= h.pos
      BY <2>3, <2>6 DEF Follows
    <3> QED
      BY <1>1, <2>1, <2>4, <2>6, <3>4, <3>5 DEF IsNext
  <2> QED
    BY <1>1, <2>5, <2>6
<1>8. SequentialPositions'
  <2> SUFFICES ASSUME NEW t \in Subscription \ Filtered,
                      NEW i \in 1..(Len(delivered'[t]) - 1)
               PROVE  LET p == delivered'[t][i].pos
                          q == delivered'[t][i + 1].pos
                      IN IF StartPos[t] < 0 THEN q > p
                         ELSE q = p + 1 \/ (p = 0 /\ q = 0)
    BY DEF SequentialPositions
  <2>1. CASE t # s
    <3>1. delivered'[t] = delivered[t] /\ i \in 1..(Len(delivered[t]) - 1)
      BY <1>3, <2>1
    <3> QED
      BY <3>1 DEF Turns, SequentialPositions
  <2>2. CASE t = s /\ i = n
    <3>1. n > 0 /\ n \in 1..n
      BY <1>1, <2>2
    <3>2. delivered'[t][i] = D[n] /\ delivered'[t][i + 1] = g
      BY <1>3, <2>2, <3>1
    <3> QED
      BY <1>7, <2>2, <3>1, <3>2
  <2>3. CASE t = s /\ i # n
    <3>1. i \in 1..(n - 1) /\ i \in 1..n /\ i + 1 \in 1..n
      BY <1>1, <1>3, <2>3
    <3>2. delivered'[t][i] = D[i] /\ delivered'[t][i + 1] = D[i + 1]
      BY <1>3, <2>3, <3>1
    <3> QED
      BY <1>1, <2>3, <3>1, <3>2 DEF Turns, SequentialPositions
  <2> QED
    BY <2>1, <2>2, <2>3
<1>9. \A t \in Subscription \ Filtered : Len(delivered[t])' > 0 => Follows(t)'
  <2> SUFFICES ASSUME NEW t \in Subscription \ Filtered, Len(delivered'[t]) > 0
               PROVE  Follows(t)'
    OBVIOUS
  <2>1. CASE t # s
    BY <1>3, <1>4, <2>1 DEF Turns, Follows
  <2>2. CASE t = s
    BY <1>1, <1>3, <1>4, <2>2 DEF Follows
  <2> QED
    BY <2>1, <2>2
<1> QED
  BY <1>5, <1>6, <1>8, <1>9 DEF Turns

LEMMA TurnsNext ==
    ASSUME DeliveryAssumption, TypeOK, Once, Turns, [Next]_vars PROVE Turns'
<1> USE DEF control, registry, goroutines, pipeline, progress
<1>1. ASSUME UNCHANGED <<parked, delivered, lastReaded, holding, sending>>
      PROVE  Turns'
  BY <1>1, TurnsStay DEF Turns, InTurn
<1>2. CASE Call
  BY <1>1, <1>2 DEF Call, AddEvent, SubscribeCheck, UnsubscribeCheck, CancelServer,
                    CancelTopic
<1>3. CASE Registration
  BY <1>1, <1>3 DEF Registration, DropPost, Register, UpdateSubs, Fanout, Close,
                    LoopStops
<1>4. CASE Subscribing
  <2>1. ASSUME NEW s \in Subscription, SubscribeAdd(s) PROVE Turns'
    BY <1>1, <2>1 DEF SubscribeAdd
  <2>2. ASSUME NEW s \in starting, StartSubNew(s) PROVE Turns'
    BY <2>2, TurnsSkipToEnd DEF StartSubNew, TypeOK
  <2>3. ASSUME NEW s \in starting, StartSubPark(s) PROVE Turns'
    BY <2>3, TurnsStay DEF StartSubPark, Turns, InTurn
  <2>4. ASSUME NEW s \in starting, StartSubOld(s) \/ StartSubPanic(s) PROVE Turns'
    BY <1>1, <2>4 DEF StartSubOld, StartSubPanic
  <2>5. ASSUME NEW s \in parked, StartSubUnpark(s) PROVE Turns'
    <3>1. StartPos[s] < 0
      BY DEF Turns, InTurn
    <3> QED
      BY <2>5, <3>1, TurnsSkipToEnd DEF StartSubUnpark, TypeOK
  <2> QED
    BY <1>4, <2>1, <2>2, <2>3, <2>4, <2>5 DEF Subscribing
<1>5. CASE Unsubscribing
  BY <1>1, <1>5 DEF Unsubscribing, UnsubscribeDelete
<1>6. CASE Sending
  <2>1. ASSUME NEW g \in spawned, Reject(g) \/ QuitFiltered(g) PROVE Turns'
    BY <1>1, <2>1 DEF Reject, QuitFiltered
  <2>2. ASSUME NEW g \in spawned, DeliverFiltered(g) PROVE Turns'
    <3>1. \A s \in Subscription \ Filtered : delivered'[s] = delivered[s]
      BY <2>2 DEF DeliverFiltered, TypeOK
    <3> QED
      BY <2>2, <3>1, TurnsStay DEF DeliverFiltered, Turns, InTurn
  <2>3. ASSUME NEW g \in spawned, Acquire(g) PROVE Turns'
    <3>1. OneHolder' /\ InTurn'
      BY <2>3 DEF Acquire, SubLockFree, Turns, OneHolder, InTurn, IsNext
    <3> QED
      BY <2>3, <3>1 DEF Acquire, Turns, SequentialPositions, Follows
  <2>4. ASSUME NEW g \in holding, EnterSend(g) PROVE Turns'
    <3>1. OneHolder' /\ InTurn'
      BY <2>4 DEF EnterSend, Turns, OneHolder, InTurn, IsNext
    <3> QED
      BY <2>4, <3>1 DEF EnterSend, Turns, SequentialPositions, Follows
  <2>5. ASSUME NEW g \in holding, GiveUp(g) PROVE Turns'
    BY <2>5, TurnsStay DEF GiveUp, Turns, InTurn
  <2>6. ASSUME NEW g \in sending, Deliver(g) PROVE Turns'
    BY <2>6, TurnsDeliver
  <2> QED
    BY <1>6, <2>1, <2>2, <2>3, <2>4, <2>5, <2>6 DEF Sending
<1>7. CASE UNCHANGED vars
  BY <1>1, <1>7 DEF vars
<1> QED
  BY <1>2, <1>3, <1>4, <1>5, <1>6, <1>7 DEF Next, Goroutines

\* What s.Lock and lastReaded give an unfiltered subscription, for any number
\* of events and any StartPos: received positions go up one by one, or, for
\* OnlyNewEvents, at least up.
THEOREM PositionsGoUp == ASSUME DeliveryAssumption PROVE Spec => []SequentialPositions
<1>1. Init => Turns
  BY DEF Init, Turns, OneHolder, InTurn, SequentialPositions
<1>2. TypeOK /\ Once /\ Turns /\ [Next]_vars => Turns'
  BY TurnsNext
<1>3. Turns => SequentialPositions
  BY DEF Turns
<1> QED
  BY <1>1, <1>2, <1>3, Typing, OnceAlways, PTL DEF Spec

=============================================================================
