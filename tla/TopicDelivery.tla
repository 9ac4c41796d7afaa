--------------------------- MODULE TopicDelivery ---------------------------
(***************************************************************************)
(* One topic of the event server (es/topic.go, es/subscriptions.go) and    *)
(* the goroutines that carry its events to the subscribers.                *)
(*                                                                         *)
(* AddEvent hands an event to a goroutine that waits for the topic's loop. *)
(* The loop stores the event and starts updateSubs, which takes t.Lock and *)
(* starts one goroutine per subscriber; that one takes t.Lock again and    *)
(* starts one sendEvent per subscription.  A new subscription starts       *)
(* startSub, which starts sendEvent for what the topic already holds.      *)
(* Between any two of these steps every other goroutine may run.           *)
(*                                                                         *)
(* A sendEvent of an unfiltered subscription takes s.Lock and spins,       *)
(* holding it, until its position is next.  Nothing hands s.Lock to the    *)
(* senders in the order of their positions.                                *)
(*                                                                         *)
(* t.Lock is held across a step boundary in one case only: startSub of an  *)
(* OnlyNewEvents subscription waiting for s.Lock (parked).  Every other    *)
(* critical section of t.Lock is a single action guarded by TopicLockFree. *)
(***************************************************************************)
EXTENDS Integers, Sequences, FiniteSets

CONSTANTS
    Event,          \* the events offered to the topic, each at most once
    Subscriber,     \* subscriber ids
    Subscription,   \* one per SubscrReq accepted by Topic.subscribe
    Owner,          \* subscription -> the subscriber that made it
    StartPos,       \* subscription -> SubscrReq.StartPos, OnlyNewEvents is -1
    Filtered,       \* subscriptions with filters
    Accepts,        \* subscription -> the events that pass all its filters
    Together,       \* bound: sets of subscriptions one behaviour may make
    Leaver,         \* bound: the subscribers that may call UnSubscribe
    Stop            \* bound: what may be stopped, out of "server" and "topic"

ASSUME DeliveryAssumption ==
    /\ Owner \in [Subscription -> Subscriber]
    /\ StartPos \in [Subscription -> Int]
    /\ Filtered \subseteq Subscription
    /\ Accepts \in [Subscription -> SUBSET Event]
    /\ \A s \in Subscription \ Filtered : Accepts[s] = Event
    /\ Leaver \subseteq Subscriber
    /\ Stop \subseteq {"server", "topic"}

VARIABLES
    open,        \* the server runs and still finds the topic in its tree
    srvDone,     \* the server's context is cancelled
    topicDone,   \* the topic's context is cancelled
    runned,      \* Topic.runned; the topic's loop is alive
    crashed,     \* a goroutine panicked and took the process down
    post,        \* event -> where its AddEvent goroutine is
    events,      \* Topic.events
    updating,    \* positions whose updateSubs has not run yet
    fanouts,     \* [pos, subs]: per-subscriber goroutines not run yet
    starting,    \* subscriptions whose startSub has not got t.Lock yet
    parked,      \* subscriptions whose startSub holds t.Lock, waits for s.Lock
    spawned,     \* sendEvent goroutines not past s.Lock (or the filters) yet
    holding,     \* sendEvent goroutines that hold s.Lock and spin
    sending,     \* sendEvent goroutines blocked on s.eCh with s.Lock held
    lastReaded,  \* subscription -> subscription.lastReaded
    status,      \* subscription -> "new", "checked", "active" or "removed"
    leaving,     \* subscribers whose UnSubscribe found the topic running
    delivered,   \* subscription -> the senders whose event was received
    joined       \* subscription -> Len(events) when it was added to Topic.subs

control == <<open, srvDone, topicDone, runned, crashed>>
registry == <<status, leaving, joined>>
goroutines == <<spawned, holding, sending>>
pipeline == <<updating, fanouts, starting, parked>>
progress == <<lastReaded, delivered>>
vars == <<control, registry, goroutines, pipeline, progress, post, events>>

(***************************************************************************)
(* A sendEvent goroutine.  idx is the index of the event in Topic.events;  *)
(* pos is the argument sendEvent compares with lastReaded.  They differ    *)
(* when startSub ranges over events[fromID:], whose positions begin at 0.  *)
(***************************************************************************)
Sender == [sub : Subscription, pos : Nat, idx : Nat, via : {"update", "start"}]

UpdateSender(s, p) == [sub |-> s, pos |-> p, idx |-> p, via |-> "update"]
\* Mutated form: startSub ranges over events[fromID+1:] with idx off by one.
StartSenderShifted(s, p) ==
    [sub |-> s, pos |-> p, idx |-> StartPos[s] + p + 1, via |-> "start"]

StartSender(s, p) ==
    [sub |-> s, pos |-> p, idx |-> StartPos[s] + p, via |-> "start"]

EventAt(i) == events[i + 1]

Busy == holding \cup sending
TopicLockFree == parked = {}
SubLockFree(s) == \A g \in Busy : g.sub # s

ActiveOf(o) == {s \in Subscription : Owner[s] = o /\ status[s] = "active"}

-----------------------------------------------------------------------------
(* The event server's side: registration of events.                        *)

AddEvent(e) ==
    /\ open
    /\ post[e] = "idle"
    /\ post' = [post EXCEPT ![e] = "posting"]
    /\ UNCHANGED <<control, registry, goroutines, pipeline, progress, events>>

\* The posting goroutine leaves on the server's context, never the topic's.
DropPost(e) ==
    /\ srvDone
    /\ post[e] = "posting"
    /\ post' = [post EXCEPT ![e] = "dropped"]
    /\ UNCHANGED <<control, registry, goroutines, pipeline, progress, events>>

\* The loop's select takes any ready case: an event may still be registered
\* after the topic's context is cancelled.
Register(e) ==
    /\ runned
    /\ post[e] = "posting"
    /\ TopicLockFree
    /\ post' = [post EXCEPT ![e] = "stored"]
    /\ events' = Append(events, e)
    /\ updating' = updating \cup {Len(events)}
    /\ UNCHANGED <<control, registry, goroutines, progress,
                   fanouts, starting, parked>>

\* The slices of Topic.subs are captured here and used later by Fanout.
UpdateSubs(p) ==
    /\ p \in updating
    /\ TopicLockFree
    /\ updating' = updating \ {p}
    /\ fanouts' = fanouts \cup
          {[pos |-> p, subs |-> ActiveOf(o)] : o \in {u \in Subscriber : ActiveOf(u) # {}}}
    /\ UNCHANGED <<control, registry, goroutines, progress, starting, parked,
                   post, events>>

\* Mutated form: the senders share the loop variable (no "s := s").
FanoutSharedVariable(f) ==
    /\ f \in fanouts
    /\ TopicLockFree
    /\ fanouts' = fanouts \ {f}
    /\ spawned' = spawned \cup {UpdateSender(CHOOSE s \in f.subs : TRUE, f.pos)}
    /\ UNCHANGED <<control, registry, progress, holding, sending,
                   updating, starting, parked, post, events>>

Fanout(f) ==
    /\ f \in fanouts
    /\ TopicLockFree
    /\ fanouts' = fanouts \ {f}
    /\ spawned' = spawned \cup {UpdateSender(s, f.pos) : s \in f.subs}
    /\ UNCHANGED <<control, registry, progress, holding, sending,
                   updating, starting, parked, post, events>>

-----------------------------------------------------------------------------
(* Subscribing and unsubscribing.                                          *)

\* Topic.subscribe reads runned under t.Lock and releases it ...
SubscribeCheck(s) ==
    /\ open
    /\ runned
    /\ TopicLockFree
    /\ status[s] = "new"
    /\ \E G \in Together : s \in G /\ \A t \in Subscription \ G : status[t] = "new"
    /\ status' = [status EXCEPT ![s] = "checked"]
    /\ UNCHANGED <<control, goroutines, pipeline, progress, post, events,
                   leaving, joined>>

\* ... and takes it again to add the subscription; then it starts startSub.
SubscribeAdd(s) ==
    /\ TopicLockFree
    /\ status[s] = "checked"
    /\ status' = [status EXCEPT ![s] = "active"]
    /\ joined' = [joined EXCEPT ![s] = Len(events)]
    /\ starting' = starting \cup {s}
    /\ UNCHANGED <<control, goroutines, progress, post, events, leaving,
                   updating, fanouts, parked>>

UnsubscribeCheck(o) ==
    /\ o \in Leaver
    /\ open
    /\ runned
    /\ TopicLockFree
    /\ o \notin leaving
    /\ leaving' = leaving \cup {o}
    /\ UNCHANGED <<control, goroutines, pipeline, progress, post, events,
                   status, joined>>

\* Deletes every subscription the subscriber has by now; none is an error.
\* Senders already started, and slices already captured, are left alone.
UnsubscribeDelete(o) ==
    /\ o \in leaving
    /\ TopicLockFree
    /\ leaving' = leaving \ {o}
    /\ status' = [s \in Subscription |->
                    IF s \in ActiveOf(o) THEN "removed" ELSE status[s]]
    /\ UNCHANGED <<control, goroutines, pipeline, progress, post, events, joined>>

\* startSub of an OnlyNewEvents subscription whose s.Lock is free.
StartSubNew(s) ==
    /\ s \in starting
    /\ StartPos[s] < 0
    /\ TopicLockFree
    /\ SubLockFree(s)
    /\ starting' = starting \ {s}
    /\ lastReaded' = [lastReaded EXCEPT ![s] = Len(events) - 1]
    /\ UNCHANGED <<control, registry, goroutines, delivered, post, events,
                   updating, fanouts, parked>>

\* The same when a sender has s.Lock: startSub waits for it with t.Lock held.
StartSubPark(s) ==
    /\ s \in starting
    /\ StartPos[s] < 0
    /\ TopicLockFree
    /\ ~SubLockFree(s)
    /\ starting' = starting \ {s}
    /\ parked' = parked \cup {s}
    /\ UNCHANGED <<control, registry, goroutines, progress, post, events,
                   updating, fanouts>>

StartSubUnpark(s) ==
    /\ s \in parked
    /\ SubLockFree(s)
    /\ parked' = parked \ {s}
    /\ lastReaded' = [lastReaded EXCEPT ![s] = Len(events) - 1]
    /\ UNCHANGED <<control, registry, goroutines, delivered, post, events,
                   updating, fanouts, starting>>

\* Mutated form: the range starts after the event asked for.
StartSubOldSkips(s) ==
    /\ s \in starting
    /\ StartPos[s] \in 0..Len(events)
    /\ TopicLockFree
    /\ starting' = starting \ {s}
    /\ spawned' = spawned \cup
          {StartSender(s, p) : p \in 1..(Len(events) - StartPos[s] - 1)}
    /\ UNCHANGED <<control, registry, progress, holding, sending, post, events,
                   updating, fanouts, parked>>

\* startSub of a subscription that asks for stored events.
StartSubOld(s) ==
    /\ s \in starting
    /\ StartPos[s] \in 0..Len(events)
    /\ TopicLockFree
    /\ starting' = starting \ {s}
    /\ spawned' = spawned \cup
          {StartSender(s, p) : p \in 0..(Len(events) - StartPos[s] - 1)}
    /\ UNCHANGED <<control, registry, progress, holding, sending, post, events,
                   updating, fanouts, parked>>

\* t.events[fromID:] with fromID beyond the end: a panic nobody recovers.
StartSubPanic(s) ==
    /\ s \in starting
    /\ StartPos[s] > Len(events)
    /\ TopicLockFree
    /\ crashed' = TRUE
    /\ UNCHANGED <<open, srvDone, topicDone, runned, registry, goroutines,
                   pipeline, progress, post, events>>

-----------------------------------------------------------------------------
(* sendEvent.                                                              *)

\* With filters: the event fails one of them.
Reject(g) ==
    /\ g \in spawned
    /\ g.sub \in Filtered
    /\ EventAt(g.idx) \notin Accepts[g.sub]
    /\ spawned' = spawned \ {g}
    /\ UNCHANGED <<control, registry, pipeline, progress, holding, sending,
                   post, events>>

\* With filters: the subscriber receives the event; s.Lock is not involved.
DeliverFiltered(g) ==
    /\ g \in spawned
    /\ g.sub \in Filtered
    /\ EventAt(g.idx) \in Accepts[g.sub]
    /\ spawned' = spawned \ {g}
    /\ delivered' = [delivered EXCEPT ![g.sub] = Append(@, g)]
    /\ UNCHANGED <<control, registry, pipeline, lastReaded, holding, sending,
                   post, events>>

QuitFiltered(g) ==
    /\ topicDone
    /\ g \in spawned
    /\ g.sub \in Filtered
    /\ EventAt(g.idx) \in Accepts[g.sub]
    /\ spawned' = spawned \ {g}
    /\ UNCHANGED <<control, registry, pipeline, progress, holding, sending,
                   post, events>>

\* Mutated form: sendEvent does not take s.Lock.
AcquireUnlocked(g) ==
    /\ g \in spawned
    /\ g.sub \notin Filtered
    /\ spawned' = spawned \ {g}
    /\ holding' = holding \cup {g}
    /\ UNCHANGED <<control, registry, pipeline, progress, sending, post, events>>

\* Without filters: s.Lock goes to any of the waiting senders.
Acquire(g) ==
    /\ g \in spawned
    /\ g.sub \notin Filtered
    /\ SubLockFree(g.sub)
    /\ spawned' = spawned \ {g}
    /\ holding' = holding \cup {g}
    /\ UNCHANGED <<control, registry, pipeline, progress, sending, post, events>>

\* The test the spinning sender repeats.
IsNext(g) ==
    \/ lastReaded[g.sub] = 0 /\ g.pos = 0
    \/ lastReaded[g.sub] + 1 = g.pos

EnterSend(g) ==
    /\ g \in holding
    /\ ~topicDone
    /\ IsNext(g)
    /\ holding' = holding \ {g}
    /\ sending' = sending \cup {g}
    /\ UNCHANGED <<control, registry, pipeline, progress, spawned, post, events>>

\* Mutated form: no return after the send; the loop goes on, s.Lock held.
DeliverNoReturn(g) ==
    /\ g \in sending
    /\ sending' = sending \ {g}
    /\ holding' = holding \cup {g}
    /\ delivered' = [delivered EXCEPT ![g.sub] = Append(@, g)]
    /\ lastReaded' = [lastReaded EXCEPT ![g.sub] = g.pos]
    /\ UNCHANGED <<control, registry, pipeline, spawned, post, events>>

\* s.eCh <- *ee without a select: only a receiver ends it.
Deliver(g) ==
    /\ g \in sending
    /\ sending' = sending \ {g}
    /\ delivered' = [delivered EXCEPT ![g.sub] = Append(@, g)]
    /\ lastReaded' = [lastReaded EXCEPT ![g.sub] = g.pos]
    /\ UNCHANGED <<control, registry, pipeline, spawned, holding, post, events>>

\* Mutated form: the spinning sender never looks at the context.
GiveUpNever(g) ==
    /\ g \in holding
    /\ IsNext(g)
    /\ topicDone
    /\ holding' = holding \ {g}
    /\ UNCHANGED <<control, registry, pipeline, progress, spawned, sending,
                   post, events>>

GiveUp(g) ==
    /\ topicDone
    /\ g \in holding
    /\ holding' = holding \ {g}
    /\ UNCHANGED <<control, registry, pipeline, progress, spawned, sending,
                   post, events>>

-----------------------------------------------------------------------------
(* Stopping.                                                               *)

\* The server's context is cancelled; the topic's is derived from it.
CancelServer ==
    /\ "server" \in Stop
    /\ ~srvDone
    /\ srvDone' = TRUE
    /\ topicDone' = TRUE
    /\ UNCHANGED <<open, runned, crashed, registry, goroutines, pipeline,
                   progress, post, events>>

\* RemoveTopic: t.cancelCtx().
CancelTopic ==
    /\ "topic" \in Stop
    /\ open
    /\ ~topicDone
    /\ topicDone' = TRUE
    /\ UNCHANGED <<open, srvDone, runned, crashed, registry, goroutines, pipeline,
                   progress, post, events>>

\* RemoveTopic takes the topic out of the tree, or the server's stopper
\* clears its running flag: both only after the topic's context is cancelled.
Close ==
    /\ open
    /\ topicDone
    /\ open' = FALSE
    /\ UNCHANGED <<srvDone, topicDone, runned, crashed, registry, goroutines,
                   pipeline, progress, post, events>>

LoopStops ==
    /\ runned
    /\ topicDone
    /\ TopicLockFree
    /\ runned' = FALSE
    /\ UNCHANGED <<open, srvDone, topicDone, crashed, registry, goroutines,
                   pipeline, progress, post, events>>

-----------------------------------------------------------------------------
Init ==
    /\ open = TRUE
    /\ srvDone = FALSE
    /\ topicDone = FALSE
    /\ runned = TRUE
    /\ crashed = FALSE
    /\ post = [e \in Event |-> "idle"]
    /\ events = <<>>
    /\ updating = {}
    /\ fanouts = {}
    /\ starting = {}
    /\ parked = {}
    /\ spawned = {}
    /\ holding = {}
    /\ sending = {}
    /\ lastReaded = StartPos
    /\ status = [s \in Subscription |-> "new"]
    /\ leaving = {}
    /\ delivered = [s \in Subscription |-> <<>>]
    /\ joined = [s \in Subscription |-> 0]

\* What callers of the event server do, when they like.
Call ==
    \/ \E e \in Event : AddEvent(e)
    \/ \E s \in Subscription : SubscribeCheck(s)
    \/ \E o \in Subscriber : UnsubscribeCheck(o)
    \/ CancelServer
    \/ CancelTopic

\* What goroutines already started do next.
Registration ==
    \/ \E e \in Event : DropPost(e) \/ Register(e)
    \/ \E p \in updating : UpdateSubs(p)
    \/ \E f \in fanouts : Fanout(f)
    \/ Close
    \/ LoopStops

Subscribing ==
    \/ \E s \in Subscription : SubscribeAdd(s)
    \/ \E s \in starting :
          StartSubNew(s) \/ StartSubPark(s) \/ StartSubOld(s) \/ StartSubPanic(s)
    \/ \E s \in parked : StartSubUnpark(s)

Sending ==
    \/ \E g \in spawned :
          Reject(g) \/ DeliverFiltered(g) \/ QuitFiltered(g) \/ Acquire(g)
    \/ \E g \in holding : EnterSend(g) \/ GiveUp(g)
    \/ \E g \in sending : Deliver(g)

Unsubscribing == \E o \in leaving : UnsubscribeDelete(o)

Goroutines == Registration \/ Subscribing \/ Sending

Next == ~crashed /\ (Call \/ Goroutines \/ Unsubscribing)

Spec == Init /\ [][Next]_vars

(***************************************************************************)
(* The Go scheduler keeps running goroutines that can run, and subscribers *)
(* keep receiving.  The goroutines of an instance take finitely many steps *)
(* (a spin is no step), so fairness of their disjunction runs each of      *)
(* them; UnSubscribe may be called for ever and is a disjunct of its own.  *)
(* Callers are not fair.                                                   *)
(***************************************************************************)
FairSpec ==
    /\ Spec
    /\ WF_vars(~crashed /\ Goroutines)
    /\ WF_vars(~crashed /\ Unsubscribing)

-----------------------------------------------------------------------------
(* Properties.                                                             *)

Senders == spawned \cup Busy
Positions == 0..(Len(events) - 1)

\* Each variable has its type; every goroutine is about a stored event, and a
\* sender's position agrees with the index of the event it carries.
TypeOK ==
    /\ {open, srvDone, topicDone, runned, crashed} \subseteq BOOLEAN
    /\ post \in [Event -> {"idle", "posting", "dropped", "stored"}]
    /\ events \in Seq(Event)
    /\ updating \subseteq Positions
    /\ fanouts \subseteq [pos : Positions, subs : SUBSET Subscription]
    /\ starting \subseteq Subscription
    /\ parked \subseteq Subscription
    /\ Senders \subseteq Sender
    /\ \A g \in Senders :
          /\ g.idx \in Positions
          /\ g \in {UpdateSender(g.sub, g.pos), StartSender(g.sub, g.pos)}
    /\ lastReaded \in [Subscription -> Int]
    /\ status \in [Subscription -> {"new", "checked", "active", "removed"}]
    /\ leaving \subseteq Subscriber
    /\ delivered \in [Subscription -> Seq(Sender)]
    /\ joined \in [Subscription -> 0..Len(events)]

Received(g) == \E k \in DOMAIN delivered[g.sub] : delivered[g.sub][k] = g

\* The update of position i for s is still somewhere on its way.
Underway(s, i) ==
    \/ i \in updating
    \/ \E f \in fanouts : f.pos = i /\ s \in f.subs
    \/ UpdateSender(s, i) \in Senders

\* While the topic runs, no event that a subscription is due is ever lost
\* between the loop, updateSubs, the per-subscriber goroutine and sendEvent:
\* it was received, or some goroutine still carries it.  An event registered
\* after the subscription is due through the update path, an older one from
\* StartPos on through startSub.
NothingLost ==
    \A s \in Subscription :
        (status[s] = "active" /\ ~topicDone) =>
            \A i \in Positions :
                EventAt(i) \in Accepts[s] =>
                    /\ i >= joined[s] =>
                          Underway(s, i) \/ Received(UpdateSender(s, i))
                    /\ (StartPos[s] \in 0..i /\ i < joined[s]) =>
                          LET g == StartSender(s, i - StartPos[s])
                          IN s \in starting \/ g \in Senders \/ Received(g)

\* Neither path hands the same event to the same subscription twice, however
\* the goroutines of updateSubs, startSub and sendEvent interleave.  (One
\* event can still come once by each path.)
AtMostOncePerPath ==
    \A s \in Subscription :
        \A i, j \in DOMAIN delivered[s] :
            i # j => delivered[s][i] # delivered[s][j]

\* What s.Lock and lastReaded do guarantee an unfiltered subscription: with a
\* starting position the received positions go up one by one (position 0 may
\* come twice); for OnlyNewEvents they only go up.
SequentialPositions ==
    \A s \in Subscription \ Filtered :
        \A i \in 1..(Len(delivered[s]) - 1) :
            LET p == delivered[s][i].pos
                q == delivered[s][i + 1].pos
            IN IF StartPos[s] < 0 THEN q > p ELSE q = p + 1 \/ (p = 0 /\ q = 0)

\* The events due to a subscription that takes part in the topic: those stored
\* since it was added that pass its filters.
Due(s) ==
    {i \in Positions : status[s] = "active" /\ i >= joined[s] /\ EventAt(i) \in Accepts[s]}

\* Again and again each of the subscriptions has received all that is due to it,
\* unless the topic stops or the process dies.
AllServed(S) ==
    []<>(topicDone \/ crashed
           \/ \A s \in S : \A i \in Due(s) : Received(UpdateSender(s, i)))

\* When the topic's context is cancelled every goroutine it started ends, both
\* kinds of lock are released and the loop stops, for good.
Quiet ==
    /\ ~runned
    /\ Senders = {} /\ updating = {} /\ fanouts = {}
    /\ starting = {} /\ parked = {}

ShutdownDrains == topicDone ~> [](crashed \/ Quiet)

\* es/README.md:91 "supports their sequental sending": a subscription from the
\* beginning receives the topic's events in their order, each once.
InTopicOrder ==
    \A s \in Subscription \ Filtered :
        StartPos[s] = 0 =>
            \A k \in DOMAIN delivered[s] : delivered[s][k].idx = k - 1

\* proto/es.proto:134 "start number of events in topic": what a subscription
\* receives first is the event it asked to start from.
StartsAtStartPos ==
    \A s \in Subscription \ Filtered :
        (StartPos[s] >= 0 /\ delivered[s] # <<>>) =>
            delivered[s][1].idx = StartPos[s]

\* es/README.md:83 "sends all appropriate events registered on the topic to a
\* given EventEnvelope channel", for the subscriptions without filters ...
UnfilteredServed == AllServed(Subscription \ Filtered)

\* A startSub keeps t.Lock while a sender of its subscription spins on s.Lock
\* with a position that is not next.
Starved == \E s \in parked, g \in holding : g.sub = s /\ ~IsNext(g)

\* ... and for those with filters, which take no turn on s.Lock: they are served
\* whatever other subscriptions of the topic do, unless some OnlyNewEvents one
\* without filters starves the topic for good; nothing else stops them.
FilteredServed == <>[]Starved \/ AllServed(Filtered)

\* The same without that exception, which the code does not live up to.
AlwaysServed == AllServed(Filtered)

=============================================================================
