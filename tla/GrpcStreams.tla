---------------------------- MODULE GrpcStreams ----------------------------
(***************************************************************************)
(* The gRPC host of an event server: api/grpc/esgrpc/esgrpc.go.            *)
(*                                                                         *)
(* A client opens a stream of events with Subscribe and names it itself;   *)
(* the host keeps a function that cancels the stream under that name, for  *)
(* StopSubscriptionStream and for its own end.  The handlers use the map   *)
(* of these functions in several critical sections, and sometimes with no  *)
(* lock.  Each stream has a channel the event server sends to, from        *)
(* goroutines of its own (es/topic.go and es/subscriptions.go;             *)
(* TopicDelivery has them in detail), and the handler closes it at its end.*)
(* Before it reads that channel the handler makes its subscriptions, one   *)
(* by one, each under the lock of the topic, which a startSub may hold.    *)
(*                                                                         *)
(* Requests with malformed or foreign identifiers are refused before they  *)
(* touch any state and are left out, as are a start_pos behind the stored  *)
(* events, which panics, and the end of the event server.  A recursive     *)
(* subscription is the list of those to the topics it covers.              *)
(***************************************************************************)
EXTENDS Integers, FiniteSets, Sequences

CONSTANTS
    Subscriber,
    Id,         \* the names clients give their streams
    Handler,    \* calls of Subscribe, each with a handler and a channel
    Names,      \* handler -> the <<subscriber, id>> its call may come with
    Topic,
    Removable,  \* the topics DelTopics and AddTopics are called for
    Wants,      \* handler -> the topics its call asks for, one by one
    Event,
    TopicOf,    \* event -> the topic it is published on
    Stop,       \* calls of StopSubscriptionStream
    StopKey,    \* call -> <<subscriber, id>>
    MaxRuns,    \* bound: calls of Run
    NoHandler

ASSUME StreamsAssumption ==
    /\ Names \in [Handler -> (SUBSET (Subscriber \X Id)) \ {{}}]
    /\ Removable \subseteq Topic
    /\ Wants \in [Handler -> Seq(Topic)]
    /\ TopicOf \in [Event -> Topic]
    /\ StopKey \in [Stop -> Subscriber \X Id]
    /\ MaxRuns \in Nat
    /\ NoHandler \notin Handler

Run == 1..MaxRuns

\* The subscriptions, which are <<handler, number>>, and their topics.
Subscription == {s \in Handler \X Nat : s[2] \in 1..Len(Wants[s[1]])}
To(s) == Wants[s[1]][s[2]]

VARIABLES
    runned,     \* EvtServer.runned
    ctx,        \* EvtServer.ctx: the run it was set by, 0 before the first
    run,        \* run -> where its call of Run is
    stopper,    \* run -> where its stopper is
    ended,      \* runs whose context is cancelled
    inner,      \* subscribers that have a map in subsStreams
    entry,      \* key -> the stream whose cancel function is in that map
    at,         \* handler -> where it is
    key,        \* handler -> the name its call came with
    on,         \* handler -> the run whose server took the call
    under,      \* handler -> the run its context derives from
    cancelled,  \* handlers whose own context is cancelled
    asked,      \* handler -> how many of its subscriptions it has asked for
    stop,       \* call of StopSubscriptionStream -> where it is
    topics,     \* the topics on the event server
    stored,     \* the events in them
    subscribed, \* subscriptions in them
    starting,   \* subscriptions whose startSub has yet to run
    carried,    \* <<subscription, event>>: goroutines sending to its channel
    parked,     \* those a startSub that holds its topic's lock waits for
    crash       \* "no", "map", or the handler whose closed channel was sent to

host == <<runned, ctx, run, stopper, ended>>
registry == <<inner, entry>>
handlers == <<at, key, on, under, cancelled, asked>>
es == <<topics, stored, subscribed, starting, carried, parked>>
vars == <<host, registry, handlers, stop, es, crash>>

-----------------------------------------------------------------------------
(* Running the host.                                                       *)

\* A host that runs refuses, and the port may be taken.
RunCheck(r) ==
    /\ run[r] = "new"
    /\ \A q \in 1..(r - 1) : run[q] # "new"
    /\ \E stage \in (IF runned THEN {"failed"} ELSE {"listening", "failed"}) :
          run' = [run EXCEPT ![r] = stage]
    /\ UNCHANGED <<runned, ctx, stopper, ended, registry, handlers, stop, es, crash>>

RunSet(r) ==
    /\ run[r] = "listening"
    /\ run' = [run EXCEPT ![r] = "set"]
    /\ runned' = TRUE
    /\ ctx' = r
    /\ stopper' = [stopper EXCEPT ![r] = "armed"]
    /\ UNCHANGED <<ended, registry, handlers, stop, es, crash>>

\* Serve returns at once from a server that was stopped already.
Serve(r) ==
    /\ run[r] = "set"
    /\ run' = [run EXCEPT ![r] = IF stopper[r] = "done" THEN "stopped" ELSE "serving"]
    /\ UNCHANGED <<runned, ctx, stopper, ended, registry, handlers, stop, es, crash>>

ListenerFails(r) ==
    /\ run[r] = "serving"
    /\ run' = [run EXCEPT ![r] = "stopped"]
    /\ UNCHANGED <<runned, ctx, stopper, ended, registry, handlers, stop, es, crash>>

Cancel(r) ==
    /\ r \notin ended
    /\ run[r] \notin {"new", "failed"}
    /\ ended' = ended \cup {r}
    /\ UNCHANGED <<runned, ctx, run, stopper, registry, handlers, stop, es, crash>>

\* The stopper ranges over subsStreams with no lock ...
StopperRanges(r) ==
    /\ stopper[r] = "armed"
    /\ r \in ended
    /\ stopper' = [stopper EXCEPT ![r] = "ranging"]
    /\ UNCHANGED <<runned, ctx, run, ended, registry, handlers, stop, es, crash>>

Registered == {entry[k] : k \in Subscriber \X Id} \ {NoHandler}

\* Mutated form: the server is not stopped.
StopperCancelsOnly(r) ==
    /\ stopper[r] = "ranging"
    /\ cancelled' = cancelled \cup Registered
    /\ stopper' = [stopper EXCEPT ![r] = "done"]
    /\ UNCHANGED <<runned, ctx, run, ended, registry, at, key, on, under, asked, stop, es, crash>>

\* ... cancels what it finds, of whichever run, and stops the gRPC server.
StopperStops(r) ==
    /\ stopper[r] = "ranging"
    /\ cancelled' = cancelled \cup Registered
    /\ stopper' = [stopper EXCEPT ![r] = "done"]
    /\ run' = [run EXCEPT ![r] = IF @ = "serving" THEN "stopped" ELSE @]
    /\ UNCHANGED <<runned, ctx, ended, registry, at, key, on, under, asked, stop, es, crash>>

RunReturns(r) ==
    /\ run[r] = "stopped"
    /\ run' = [run EXCEPT ![r] = "ended"]
    /\ runned' = FALSE
    /\ UNCHANGED <<ctx, stopper, ended, registry, handlers, stop, es, crash>>

-----------------------------------------------------------------------------
(* Subscribe.                                                              *)

Goes(h, where) == at' = [at EXCEPT ![h] = where]

\* A call reaches the host through the server of any run.
Serving == {r \in Run : run[r] = "serving"}

Open(h) ==
    /\ at[h] = "new"
    /\ \E r \in Serving : on' = [on EXCEPT ![h] = r]
    /\ \E k \in Names[h] : key' = [key EXCEPT ![h] = k]
    /\ Goes(h, IF runned THEN "check" ELSE "refused")
    /\ UNCHANGED <<host, registry, under, cancelled, asked, stop, es, crash>>

\* checkSubsStream: is the name free?
CheckSubsStream(h) ==
    /\ at[h] = "check"
    /\ IF entry[key[h]] # NoHandler
       THEN Goes(h, "refused") /\ UNCHANGED inner
       ELSE Goes(h, "register") /\ inner' = inner \cup {key[h][1]}
    /\ UNCHANGED <<host, entry, key, on, under, cancelled, asked, stop, es, crash>>

\* Mutated forms: the map made by checkSubsStream is taken for granted, though
\* it may have been deleted; or the name is only put in a map that is there.
RegisterNilMap(h) ==
    /\ at[h] = "register"
    /\ Goes(h, "subscribe")
    /\ under' = [under EXCEPT ![h] = ctx]
    /\ entry' = [entry EXCEPT ![key[h]] = h]
    /\ UNCHANGED <<host, inner, key, on, cancelled, asked, stop, es, crash>>

RegisterNoMap(h) ==
    /\ at[h] = "register"
    /\ Goes(h, "subscribe")
    /\ under' = [under EXCEPT ![h] = ctx]
    /\ entry' = [entry EXCEPT ![key[h]] = IF key[h][1] \in inner THEN h ELSE @]
    /\ UNCHANGED <<host, inner, key, on, cancelled, asked, stop, es, crash>>

\* In another critical section the name is taken, from a stream that has taken
\* it meanwhile too.  The context derives from the one the host has now.
Register(h) ==
    /\ at[h] = "register"
    /\ Goes(h, "subscribe")
    /\ under' = [under EXCEPT ![h] = ctx]
    /\ inner' = inner \cup {key[h][1]}
    /\ entry' = [entry EXCEPT ![key[h]] = h]
    /\ UNCHANGED <<host, key, on, cancelled, asked, stop, es, crash>>

\* A topic whose lock is held has it held up for as long as that sender is there.
Locked(t) == \E p \in parked : To(p[1]) = t

\* subscribe goes on after a subscription the event server refused, and waits for
\* the topic's lock.
SubscribeTo(h) ==
    LET s == <<h, asked[h] + 1>> IN
    /\ at[h] = "subscribe"
    /\ s \in Subscription
    /\ ~Locked(To(s))
    /\ asked' = [asked EXCEPT ![h] = @ + 1]
    /\ IF To(s) \in topics
       THEN subscribed' = subscribed \cup {s} /\ starting' = starting \cup {s}
       ELSE UNCHANGED <<subscribed, starting>>
    /\ UNCHANGED <<host, registry, at, key, on, under, cancelled, stop, topics, stored, carried,
                   parked, crash>>

StartsStreaming(h) ==
    /\ at[h] = "subscribe"
    /\ asked[h] = Len(Wants[h])
    /\ Goes(h, "streaming")
    /\ UNCHANGED <<host, registry, key, on, under, cancelled, asked, stop, es, crash>>

\* sendEvents takes an event from the channel ...
Receive(h, c) ==
    /\ at[h] = "streaming"
    /\ c \in carried
    /\ c[1][1] = h
    /\ carried' = carried \ {c}
    /\ Goes(h, "sending")
    /\ UNCHANGED <<host, registry, key, on, under, cancelled, asked, stop, topics, stored,
                   subscribed, starting, parked, crash>>

\* ... and sends it to the client, who may read it, have gone or lose the
\* connection ...
SendToClient(h) ==
    /\ at[h] = "sending"
    /\ \E where \in {"streaming", "finish"} : Goes(h, where)
    /\ UNCHANGED <<host, registry, key, on, under, cancelled, asked, stop, es, crash>>

SendFails(h) ==
    /\ at[h] = "sending"
    /\ stopper[on[h]] = "done"
    /\ Goes(h, "finish")
    /\ UNCHANGED <<host, registry, key, on, under, cancelled, asked, stop, es, crash>>

Done(h) == h \in cancelled \/ under[h] \in ended


\* ... until its context is done.
StreamEnds(h) ==
    /\ at[h] = "streaming"
    /\ Done(h)
    /\ Goes(h, "finish")
    /\ UNCHANGED <<host, registry, key, on, under, cancelled, asked, stop, es, crash>>

\* The end of a stream that leaves these names and maps.
FinishWith(h, names, maps) ==
    /\ at[h] = "finish"
    /\ Goes(h, "ended")
    /\ cancelled' = cancelled \cup {h}
    /\ entry' = names
    /\ inner' = maps
    /\ UNCHANGED <<host, key, on, under, asked, stop, es, crash>>

\* Mutated form: the name is not given back.
FinishKeepsName(h) == FinishWith(h, entry, inner)

\* The name is given back, whosever it is now, and the map with the last one;
\* the channel is closed (at is "ended"), its subscriptions stay.
Finish(h) ==
    LET names == [entry EXCEPT ![key[h]] = NoHandler]
        u == key[h][1]
    IN FinishWith(h, names,
                  IF \A i \in Id : names[<<u, i>>] = NoHandler THEN inner \ {u} ELSE inner)

-----------------------------------------------------------------------------
(* StopSubscriptionStream.                                                 *)

StopCheck(s) ==
    /\ stop[s] = "new"
    /\ Serving # {}
    /\ stop' = [stop EXCEPT ![s] =
                  IF runned /\ entry[StopKey[s]] # NoHandler THEN "cancel" ELSE "over"]
    /\ UNCHANGED <<host, registry, handlers, es, crash>>

\* The map is read again with no lock.
StopCancel(s) ==
    /\ stop[s] = "cancel"
    /\ stop' = [stop EXCEPT ![s] = "over"]
    /\ cancelled' = cancelled \cup ({entry[StopKey[s]]} \ {NoHandler})
    /\ UNCHANGED <<host, registry, at, key, on, under, asked, es, crash>>

\* checkSubsStream for the first stream of a subscriber, the registration and
\* the end of a stream write the map.
Writing == {h \in Handler : \/ at[h] \in {"register", "finish"}
                            \/ at[h] = "check" /\ key[h][1] \notin inner}

\* A write and an access with no lock at once: the runtime stops the program.
MapRace ==
    /\ Writing # {}
    /\ (\E s \in Stop : stop[s] = "cancel") \/ (\E r \in Run : stopper[r] = "ranging")
    /\ crash' = "map"
    /\ UNCHANGED <<host, registry, handlers, stop, es>>

-----------------------------------------------------------------------------
(* The calls that only go to the event server, and its goroutines.         *)

Answering == runned /\ Serving # {}

AddTopics(t) ==
    /\ Answering
    /\ t \in Removable \ topics
    /\ topics' = topics \cup {t}
    /\ UNCHANGED <<host, registry, handlers, stop, stored, subscribed, starting, carried, parked,
                   crash>>

\* What a subscription may be sent of the stored events, by its start_pos and
\* filters: any of them.
Replays(subs) == SUBSET {c \in subs \X stored : TopicOf[c[2]] = To(c[1])}

\* startSub sends them; that of a subscription to new events only has none to
\* send, and waits for a sender that came before it and has the subscription's
\* lock, with the topic's lock held.
StartSub(s) ==
    /\ s \in starting
    /\ ~Locked(To(s))
    /\ starting' = starting \ {s}
    /\ \/ \E more \in Replays({s}) : carried' = carried \cup more /\ UNCHANGED parked
       \/ \E c \in carried : c[1] = s /\ parked' = {c} \cup parked /\ UNCHANGED carried
    /\ UNCHANGED <<host, registry, handlers, stop, topics, stored, subscribed, crash>>

\* The sender is through, and startSub or another sender has the subscription.
Unpark(p) ==
    /\ p \in parked \ carried
    /\ \/ parked' = parked \ {p}
       \/ \E c \in carried : c[1] = p[1] /\ parked' = (parked \ {p}) \cup {c}
    /\ UNCHANGED <<host, registry, handlers, stop, topics, stored, subscribed, starting, carried,
                   crash>>

\* What is on its way to a subscriber is not taken back, and what a startSub has
\* still to send follows it.
DelTopics(t) ==
    LET its(subs) == {s \in subs : To(s) = t} IN
    /\ Answering
    /\ t \in Removable \cap topics
    /\ ~Locked(t)
    /\ topics' = topics \ {t}
    /\ stored' = {e \in stored : TopicOf[e] # t}
    /\ subscribed' = subscribed \ its(subscribed)
    /\ starting' = starting \ its(starting)
    /\ \E more \in Replays(its(starting)) : carried' = carried \cup more
    /\ UNCHANGED <<host, registry, handlers, stop, parked, crash>>

AddEvent(e) ==
    /\ Answering
    /\ e \notin stored
    /\ TopicOf[e] \in topics
    /\ ~Locked(TopicOf[e])
    /\ stored' = stored \cup {e}
    /\ carried' = carried \cup {<<s, e>> : s \in {x \in subscribed : To(x) = TopicOf[e]}}
    /\ UNCHANGED <<host, registry, handlers, stop, topics, subscribed, starting, parked, crash>>

\* All the subscriber's streams lose the topic.
UnSubscribe(u, t) ==
    LET his == {s \in subscribed : key[s[1]][1] = u /\ To(s) = t} IN
    /\ Answering
    /\ his # {}
    /\ ~Locked(t)
    /\ subscribed' = subscribed \ his
    /\ UNCHANGED <<host, registry, handlers, stop, topics, stored, starting, carried, parked, crash>>

\* A goroutine of the event server sends to a channel that was closed.
SendOnClosed(h) ==
    /\ at[h] = "ended"
    /\ \E c \in carried : c[1][1] = h
    /\ crash' = h
    /\ UNCHANGED <<host, registry, handlers, stop, es>>

-----------------------------------------------------------------------------
Init ==
    /\ runned = FALSE /\ ctx = 0 /\ ended = {}
    /\ run = [r \in Run |-> "new"]
    /\ stopper = [r \in Run |-> "none"]
    /\ inner = {}
    /\ entry = [k \in Subscriber \X Id |-> NoHandler]
    /\ at = [h \in Handler |-> "new"]
    /\ key = [h \in Handler |-> CHOOSE k \in Names[h] : TRUE]
    /\ on = [h \in Handler |-> 0]
    /\ under = [h \in Handler |-> 0]
    /\ cancelled = {}
    /\ asked = [h \in Handler |-> 0]
    /\ stop = [s \in Stop |-> "new"]
    /\ topics = Topic
    /\ stored = {} /\ subscribed = {} /\ starting = {} /\ carried = {} /\ parked = {}
    /\ crash = "no"

HandlerStep(h) ==
    \/ CheckSubsStream(h) \/ Register(h) \/ SubscribeTo(h)
    \/ StartsStreaming(h) \/ SendFails(h) \/ StreamEnds(h) \/ Finish(h)

RunStep(r) == RunSet(r) \/ Serve(r) \/ StopperRanges(r) \/ StopperStops(r) \/ RunReturns(r)

EventServerStep ==
    \/ \E t \in Topic : AddTopics(t) \/ DelTopics(t)
    \/ \E e \in Event : AddEvent(e)
    \/ \E u \in Subscriber, t \in Topic : UnSubscribe(u, t)
    \/ \E s \in starting : StartSub(s)
    \/ \E p \in parked : Unpark(p)

Next ==
    /\ crash = "no"
    /\ \/ \E r \in Run : RunCheck(r) \/ Cancel(r) \/ ListenerFails(r) \/ RunStep(r)
       \/ \E h \in Handler :
            \/ Open(h) \/ HandlerStep(h) \/ SendToClient(h) \/ SendOnClosed(h)
            \/ \E c \in carried : Receive(h, c)
       \/ \E s \in Stop : StopCheck(s) \/ StopCancel(s)
       \/ MapRace
       \/ EventServerStep

Spec == Init /\ [][Next]_vars

\* The host's goroutines are scheduled, and those of the event server.  A client
\* need not read its stream: a send is only sure to end when its server was
\* stopped.  Nor need a sender's turn ever come.
FairSpec ==
    /\ Spec
    /\ \A r \in Run : WF_vars(crash = "no" /\ RunStep(r))
    /\ \A h \in Handler : WF_vars(crash = "no" /\ HandlerStep(h))
    /\ WF_vars(crash = "no" /\ \E p \in parked : Unpark(p))

-----------------------------------------------------------------------------
(* Properties.                                                             *)

Opened == {"subscribe", "streaming", "sending", "finish"}

\* Each variable has its type, a registered name is in its subscriber's map, and
\* only one startSub holds a topic's lock.
TypeOK ==
    /\ runned \in BOOLEAN
    /\ ctx \in 0..MaxRuns
    /\ run \in [Run -> {"new", "failed", "listening", "set", "serving", "stopped", "ended"}]
    /\ stopper \in [Run -> {"none", "armed", "ranging", "done"}]
    /\ ended \subseteq Run
    /\ inner \subseteq Subscriber
    /\ entry \in [Subscriber \X Id -> Handler \cup {NoHandler}]
    /\ \A k \in Subscriber \X Id : entry[k] # NoHandler => k[1] \in inner
    /\ at \in [Handler -> Opened \cup {"new", "refused", "check", "register", "ended"}]
    /\ \A h \in Handler : key[h] \in Names[h]
    /\ on \in [Handler -> 0..MaxRuns]
    /\ under \in [Handler -> 0..MaxRuns]
    /\ cancelled \subseteq Handler
    /\ \A h \in Handler : asked[h] \in 0..Len(Wants[h])
    /\ stop \in [Stop -> {"new", "cancel", "over"}]
    /\ topics \subseteq Topic
    /\ stored \subseteq {e \in Event : TopicOf[e] \in topics}
    /\ subscribed \subseteq {s \in Subscription : To(s) \in topics}
    /\ starting \subseteq {s \in Subscription : To(s) \in topics}
    /\ carried \cup parked \subseteq {c \in Subscription \X Event : To(c[1]) = TopicOf[c[2]]}
    /\ \A p, q \in parked : To(p[1]) = To(q[1]) => p = q
    /\ crash \in {"no", "map"} \cup Handler

\* A cancel function in the map is that of an open stream of that name, though
\* two handlers may take one name and either may give it back; and a subscriber's
\* map does not outlive his streams.
RegistryHonest ==
    /\ \A k \in Subscriber \X Id :
          entry[k] # NoHandler => key[entry[k]] = k /\ at[entry[k]] \in Opened
    /\ \A u \in inner : \E h \in Handler : key[h][1] = u /\ at[h] \in Opened \cup {"register"}

\* An open stream can be stopped by its name, unless another call was made
\* with the same name: the end of another stream of the subscriber, which may
\* delete his map meanwhile, does not lose it.
StoppableByName ==
    \A h \in Handler :
        at[h] \in Opened =>
            \/ entry[key[h]] = h
            \/ \E g \in Handler \ {h} : key[g] = key[h] /\ at[g] \in Opened \cup {"ended"}

\* A cancelled run stops: its call of Run returns.
RunEnds ==
    \A r \in Run : (r \in ended) ~> (run[r] \in {"ended", "failed"} \/ crash # "no")

Lingers(h) == at[h] \in Opened /\ Done(h)

HeldByClient(h) == at[h] = "sending" /\ stopper[on[h]] # "done"

\* The topic h subscribes to next is locked until someone receives an event: h
\* itself, which does not read its channel yet, or another stream.
HeldByTopic(h) ==
    /\ at[h] = "subscribe"
    /\ \E p \in parked \cap carried :
          <<h, asked[h] + 1>> \in Subscription /\ To(p[1]) = To(<<h, asked[h] + 1>>)


\* The same without the second exception, which does not hold: no cancel reaches
\* a handler in es.Subscribe.
StreamAlwaysCloses ==
    <>[](\A h \in Handler : Lingers(h) => HeldByClient(h) \/ crash # "no")

\* es/README: UnSubscribe "closes the sending of EventEnvelopes into the
\* subscription channel": no channel that has no subscription is sent to.
UnsubscribedIsQuiet ==
    \A h \in Handler : crash = h => \E s \in subscribed : s[1] = h

=============================================================================
