------------------------- MODULE GrpcStreams_proof -------------------------
(***************************************************************************)
(* Proofs about GrpcStreams: its registry of streams, for any number of    *)
(* subscribers, streams, names, stop calls and runs.                       *)
(***************************************************************************)
EXTENDS GrpcStreams, TLAPS

USE DEF host, registry, handlers, es

Key == Subscriber \X Id
Stages == Opened \cup {"new", "refused", "check", "register", "ended"}

-----------------------------------------------------------------------------
(* Typing.                                                                 *)

\* The types of the variables that the registry is about.
RegistryTypes ==
    /\ inner \subseteq Subscriber
    /\ entry \in [Key -> Handler \cup {NoHandler}]
    /\ at \in [Handler -> Stages]
    /\ key \in [Handler -> Key]
    /\ \A h \in Handler : key[h] \in Names[h]

HostTypes ==
    /\ runned \in BOOLEAN
    /\ ctx \in 0..MaxRuns
    /\ run \in [Run -> {"new", "failed", "listening", "set", "serving", "stopped", "ended"}]
    /\ stopper \in [Run -> {"none", "armed", "ranging", "done"}]
    /\ ended \subseteq Run

HandlerTypes ==
    /\ on \in [Handler -> 0..MaxRuns]
    /\ under \in [Handler -> 0..MaxRuns]
    /\ cancelled \subseteq Handler
    /\ asked \in [Handler -> Nat]
    /\ \A h \in Handler : asked[h] \in 0..Len(Wants[h])
    /\ stop \in [Stop -> {"new", "cancel", "over"}]
    /\ crash \in {"no", "map"} \cup Handler

\* What may be on its way to a subscription.
Sent == {c \in Subscription \X Event : To(c[1]) = TopicOf[c[2]]}

EventTypes ==
    /\ topics \subseteq Topic
    /\ stored \subseteq {e \in Event : TopicOf[e] \in topics}
    /\ subscribed \subseteq {s \in Subscription : To(s) \in topics}
    /\ starting \subseteq {s \in Subscription : To(s) \in topics}
    /\ carried \cup parked \subseteq Sent

\* A topic has one lock.
LocksAreHeldOnce == \A p, q \in parked : To(p[1]) = To(q[1]) => p = q

Types == RegistryTypes /\ HostTypes /\ HandlerTypes /\ EventTypes /\ LocksAreHeldOnce

\* A name that is taken is in its subscriber's map.
NamesInMaps == \A k \in Key : entry[k] # NoHandler => k[1] \in inner

LEMMA TypesSuffice == Types /\ NamesInMaps => TypeOK
BY DEF Types, RegistryTypes, HostTypes, HandlerTypes, EventTypes, LocksAreHeldOnce,
       NamesInMaps, TypeOK, Key, Stages, Sent

IInv == Types /\ NamesInMaps /\ RegistryHonest /\ StoppableByName

-----------------------------------------------------------------------------
(* The steps.                                                              *)

LEMMA InitKeys ==
    ASSUME StreamsAssumption, NEW h \in Handler
    PROVE  /\ (CHOOSE k \in Names[h] : TRUE) \in Names[h]
           /\ Names[h] \subseteq Key
<1>1. Names[h] \subseteq Key /\ Names[h] # {}
  BY DEF StreamsAssumption, Key
<1>2. \E k \in Names[h] : TRUE
  BY <1>1
<1> QED
  BY <1>1, <1>2

LEMMA InitHolds == ASSUME StreamsAssumption, Init PROVE IInv
<1>1. RegistryTypes
  BY InitKeys DEF Init, RegistryTypes, Stages, Key
<1>2. HostTypes
  <2>1. ctx = 0 /\ 0 \in 0..MaxRuns
    BY DEF Init, StreamsAssumption
  <2>2. run = [r \in Run |-> "new"] /\ stopper = [r \in Run |-> "none"]
    BY DEF Init
  <2> QED
    BY <2>1, <2>2 DEF Init, HostTypes
<1>3. HandlerTypes
  <2>1. \A h \in Handler : Len(Wants[h]) \in Nat
    BY DEF StreamsAssumption
  <2> QED
    BY <2>1 DEF Init, HandlerTypes, StreamsAssumption
<1>4. EventTypes /\ LocksAreHeldOnce
  BY DEF Init, EventTypes, LocksAreHeldOnce
<1>5. NamesInMaps /\ RegistryHonest /\ StoppableByName
  BY DEF Init, NamesInMaps, RegistryHonest, StoppableByName, Opened, Key
<1> QED
  BY <1>1, <1>2, <1>3, <1>4, <1>5 DEF IInv, Types

\* A step of the host's runs, of a stop call or of the event server leaves the
\* registry and the stages of the streams alone.
LEMMA RegistryStays ==
    ASSUME IInv, UNCHANGED <<registry, at, key>>
    PROVE  RegistryTypes' /\ NamesInMaps' /\ RegistryHonest' /\ StoppableByName'
<1>1. inner' = inner /\ entry' = entry /\ at' = at /\ key' = key
  OBVIOUS
<1>2. RegistryTypes' /\ NamesInMaps'
  BY <1>1 DEF IInv, Types, RegistryTypes, NamesInMaps
<1>3. RegistryHonest'
  BY <1>1 DEF IInv, RegistryHonest
<1>4. StoppableByName'
  BY <1>1 DEF IInv, StoppableByName
<1> QED
  BY <1>2, <1>3, <1>4

\* A stream that goes from one stage to another, and is open in both or in
\* neither and not about to register, disturbs nobody.
LEMMA StageStays ==
    ASSUME IInv, UNCHANGED <<registry, key>>,
           NEW h \in Handler, NEW where \in Stages, at' = [at EXCEPT ![h] = where],
           \/ at[h] \in Opened /\ where \in Opened
           \/ at[h] = "check" /\ where = "refused"
    PROVE  RegistryTypes' /\ NamesInMaps' /\ RegistryHonest' /\ StoppableByName'
<1>1. /\ inner' = inner /\ entry' = entry /\ key' = key
      /\ at \in [Handler -> Stages]
  BY DEF IInv, Types, RegistryTypes
<1>2. \A g \in Handler : /\ at'[g] \in Stages
                         /\ (at'[g] \in Opened) = (at[g] \in Opened)
                         /\ (at'[g] = "register") = (at[g] = "register")
                         /\ (at'[g] = "ended") = (at[g] = "ended")
  BY <1>1 DEF Opened
<1>3. RegistryTypes' /\ NamesInMaps'
  BY <1>1, <1>2 DEF IInv, Types, RegistryTypes, NamesInMaps
<1>4. RegistryHonest'
  <2>1. ASSUME NEW k \in Key, entry[k] # NoHandler
        PROVE  key[entry[k]] = k /\ at'[entry[k]] \in Opened
    <3>1. entry[k] \in Handler
      BY <2>1 DEF IInv, Types, RegistryTypes
    <3> QED
      BY <1>2, <2>1, <3>1 DEF IInv, RegistryHonest, Key
  <2>2. ASSUME NEW u \in inner
        PROVE  \E g \in Handler : key[g][1] = u /\ at'[g] \in Opened \cup {"register"}
    BY <1>2, <2>2 DEF IInv, RegistryHonest
  <2> QED
    BY <1>1, <2>1, <2>2 DEF RegistryHonest, Key
<1>5. StoppableByName'
  BY <1>1, <1>2 DEF IInv, StoppableByName
<1> QED
  BY <1>3, <1>4, <1>5

\* A call comes with a name: nobody has a stream of this handler yet.
LEMMA OpenKeeps ==
    ASSUME StreamsAssumption, IInv, NEW h \in Handler, Open(h)
    PROVE  RegistryTypes' /\ NamesInMaps' /\ RegistryHonest' /\ StoppableByName'
<1>1. PICK k0 \in Names[h] : key' = [key EXCEPT ![h] = k0]
  BY DEF Open
<1>2. PICK where \in {"check", "refused"} : at' = [at EXCEPT ![h] = where]
  BY DEF Open, Goes
<1>3. /\ inner' = inner /\ entry' = entry /\ at[h] = "new"
      /\ at \in [Handler -> Stages] /\ key \in [Handler -> Key]
      /\ \A g \in Handler : key[g] \in Names[g]
      /\ k0 \in Key
  BY InitKeys DEF Open, IInv, Types, RegistryTypes
<1>4. /\ at' \in [Handler -> Stages] /\ key' \in [Handler -> Key]
      /\ at'[h] = where /\ key'[h] = k0
      /\ \A g \in Handler \ {h} : at'[g] = at[g] /\ key'[g] = key[g]
  BY <1>1, <1>2, <1>3 DEF Stages
<1>5. RegistryTypes' /\ NamesInMaps'
  BY <1>1, <1>3, <1>4 DEF IInv, Types, RegistryTypes, NamesInMaps
<1>6. RegistryHonest'
  <2>1. ASSUME NEW k \in Key, entry[k] # NoHandler
        PROVE  key'[entry[k]] = k /\ at'[entry[k]] \in Opened
    <3>1. entry[k] \in Handler /\ key[entry[k]] = k /\ at[entry[k]] \in Opened
      BY <2>1 DEF IInv, Types, RegistryTypes, RegistryHonest, Key
    <3>2. entry[k] # h
      BY <1>3, <3>1 DEF Opened
    <3> QED
      BY <1>4, <3>1, <3>2
  <2>2. ASSUME NEW u \in inner
        PROVE  \E g \in Handler : key'[g][1] = u /\ at'[g] \in Opened \cup {"register"}
    <3>1. PICK g \in Handler : key[g][1] = u /\ at[g] \in Opened \cup {"register"}
      BY <2>2 DEF IInv, RegistryHonest
    <3>2. g # h
      BY <1>3, <3>1 DEF Opened
    <3> QED
      BY <1>4, <3>1, <3>2
  <2> QED
    BY <1>3, <2>1, <2>2 DEF RegistryHonest, Key
<1>7. StoppableByName'
  <2> SUFFICES ASSUME NEW f \in Handler, at'[f] \in Opened
               PROVE  \/ entry'[key'[f]] = f
                      \/ \E g \in Handler \ {f} :
                            key'[g] = key'[f] /\ at'[g] \in Opened \cup {"ended"}
    BY DEF StoppableByName
  <2>1. f # h
    BY <1>2, <1>4 DEF Opened
  <2>2. CASE entry[key[f]] = f
    BY <1>3, <1>4, <2>1, <2>2
  <2>3. ASSUME NEW g \in Handler \ {f}, key[g] = key[f], at[g] \in Opened \cup {"ended"}
        PROVE  key'[g] = key'[f] /\ at'[g] \in Opened \cup {"ended"}
    BY <1>3, <1>4, <2>1, <2>3 DEF Opened
  <2> QED
    BY <1>4, <2>1, <2>2, <2>3 DEF IInv, StoppableByName
<1> QED
  BY <1>5, <1>6, <1>7

\* The name is free, or seems to be: the subscriber gets a map.
LEMMA CheckKeeps ==
    ASSUME IInv, NEW h \in Handler, CheckSubsStream(h)
    PROVE  RegistryTypes' /\ NamesInMaps' /\ RegistryHonest' /\ StoppableByName'
<1>1. CASE entry[key[h]] # NoHandler
  <2>1. /\ at' = [at EXCEPT ![h] = "refused"] /\ at[h] = "check"
        /\ UNCHANGED <<registry, key>>
    BY <1>1 DEF CheckSubsStream, Goes
  <2>2. "refused" \in Stages
    BY DEF Stages
  <2> QED
    BY <2>1, <2>2, StageStays
<1>2. CASE entry[key[h]] = NoHandler
  <2>1. /\ at' = [at EXCEPT ![h] = "register"] /\ at[h] = "check"
        /\ inner' = inner \cup {key[h][1]} /\ entry' = entry /\ key' = key
        /\ at \in [Handler -> Stages] /\ key \in [Handler -> Key]
    BY <1>2 DEF CheckSubsStream, Goes, IInv, Types, RegistryTypes
  <2>2. key[h][1] \in Subscriber
    BY <2>1 DEF Key
  <2>3. \A g \in Handler : /\ (at'[g] \in Opened) = (at[g] \in Opened)
                           /\ (at'[g] = "ended") = (at[g] = "ended")
                           /\ at[g] = "register" => at'[g] = "register"
    BY <2>1 DEF Opened
  <2>4. RegistryTypes' /\ NamesInMaps'
    BY <2>1, <2>2 DEF IInv, Types, RegistryTypes, NamesInMaps, Stages
  <2>5. RegistryHonest'
    <3>1. ASSUME NEW k \in Key, entry[k] # NoHandler
          PROVE  key[entry[k]] = k /\ at'[entry[k]] \in Opened
      <4>1. entry[k] \in Handler
        BY <3>1 DEF IInv, Types, RegistryTypes
      <4> QED
        BY <2>3, <3>1, <4>1 DEF IInv, RegistryHonest, Key
    <3>2. ASSUME NEW u \in inner
          PROVE  \E g \in Handler : key[g][1] = u /\ at'[g] \in Opened \cup {"register"}
      BY <2>3, <3>2 DEF IInv, RegistryHonest
    <3>3. at'[h] = "register"
      BY <2>1
    <3> QED
      BY <2>1, <3>1, <3>2, <3>3 DEF RegistryHonest, Key
  <2>6. StoppableByName'
    BY <2>1, <2>3 DEF IInv, StoppableByName
  <2> QED
    BY <2>4, <2>5, <2>6
<1> QED
  BY <1>1, <1>2

\* The name is taken, and with it the map is made again if it has gone; a
\* stream that had the name now shares it with one that is open.
LEMMA RegisterKeeps ==
    ASSUME StreamsAssumption, IInv, NEW h \in Handler, Register(h)
    PROVE  RegistryTypes' /\ NamesInMaps' /\ RegistryHonest' /\ StoppableByName'
<1>1. /\ at' = [at EXCEPT ![h] = "subscribe"] /\ at[h] = "register"
      /\ inner' = inner \cup {key[h][1]} /\ key' = key
      /\ entry' = [entry EXCEPT ![key[h]] = h]
  BY DEF Register, Goes
<1>2. /\ at \in [Handler -> Stages] /\ key \in [Handler -> Key]
      /\ entry \in [Key -> Handler \cup {NoHandler}]
      /\ key[h] \in Key /\ key[h][1] \in Subscriber
  BY DEF IInv, Types, RegistryTypes, Key
<1>3. /\ at'[h] = "subscribe" /\ entry'[key[h]] = h
      /\ \A g \in Handler \ {h} : at'[g] = at[g]
      /\ \A k \in Key \ {key[h]} : entry'[k] = entry[k]
  BY <1>1, <1>2
<1>4. RegistryTypes' /\ NamesInMaps'
  BY <1>1, <1>2, <1>3 DEF IInv, Types, RegistryTypes, NamesInMaps, Stages, Opened
<1>5. RegistryHonest'
  <2>1. ASSUME NEW k \in Key, entry'[k] # NoHandler
        PROVE  key[entry'[k]] = k /\ at'[entry'[k]] \in Opened
    <3>1. CASE k = key[h]
      BY <1>3, <3>1 DEF Opened
    <3>2. CASE k # key[h]
      <4>1. /\ entry'[k] = entry[k] /\ entry[k] \in Handler
            /\ key[entry[k]] = k /\ at[entry[k]] \in Opened
        BY <1>2, <1>3, <2>1, <3>2 DEF IInv, RegistryHonest, Key
      <4>2. entry[k] # h
        BY <3>2, <4>1
      <4> QED
        BY <1>3, <4>1, <4>2
    <3> QED
      BY <3>1, <3>2
  <2>2. ASSUME NEW u \in inner'
        PROVE  \E g \in Handler : key[g][1] = u /\ at'[g] \in Opened \cup {"register"}
    <3>1. CASE u = key[h][1]
      BY <1>3, <3>1 DEF Opened
    <3>2. CASE u \in inner
      <4>1. PICK g \in Handler : key[g][1] = u /\ at[g] \in Opened \cup {"register"}
        BY <3>2 DEF IInv, RegistryHonest
      <4> QED
        BY <1>3, <4>1 DEF Opened
    <3> QED
      BY <1>1, <2>2, <3>1, <3>2
  <2> QED
    BY <1>1, <2>1, <2>2 DEF RegistryHonest, Key
<1>6. StoppableByName'
  <2>0. key' = key
    BY <1>1
  <2> SUFFICES ASSUME NEW f \in Handler, at'[f] \in Opened
               PROVE  \/ entry'[key[f]] = f
                      \/ \E g \in Handler \ {f} :
                            key[g] = key[f] /\ at'[g] \in Opened \cup {"ended"}
    BY <2>0 DEF StoppableByName
  <2>1. CASE f = h
    BY <1>3, <2>1
  <2>2. CASE f # h /\ key[f] = key[h]
    BY <1>3, <2>2 DEF Opened
  <2>3. CASE f # h /\ key[f] # key[h]
    <3>1. at[f] \in Opened /\ key[f] \in Key /\ entry'[key[f]] = entry[key[f]]
      BY <1>2, <1>3, <2>3
    <3>2. ASSUME NEW g \in Handler \ {f}, key[g] = key[f], at[g] \in Opened \cup {"ended"}
          PROVE  at'[g] \in Opened \cup {"ended"}
      BY <1>3, <2>3, <3>2
    <3> QED
      BY <3>1, <3>2 DEF IInv, StoppableByName
  <2> QED
    BY <2>1, <2>2, <2>3
<1> QED
  BY <1>4, <1>5, <1>6

\* The end of a stream gives back a name that may be another's, and drops the
\* map only if no name is left in it.
LEMMA FinishKeeps ==
    ASSUME IInv, NEW h \in Handler, Finish(h), NoHandler \notin Handler
    PROVE  RegistryTypes' /\ NamesInMaps' /\ RegistryHonest' /\ StoppableByName'
<1> DEFINE names == [entry EXCEPT ![key[h]] = NoHandler]
           u0 == key[h][1]
<1>1. /\ at' = [at EXCEPT ![h] = "ended"] /\ at[h] = "finish" /\ key' = key
      /\ entry' = names
      /\ inner' = IF \A i \in Id : names[<<u0, i>>] = NoHandler THEN inner \ {u0} ELSE inner
  BY DEF Finish, FinishWith, Goes
<1>2. /\ at \in [Handler -> Stages] /\ key \in [Handler -> Key]
      /\ entry \in [Key -> Handler \cup {NoHandler}]
      /\ key[h] \in Key /\ u0 \in Subscriber /\ inner \subseteq Subscriber
      /\ \A g \in Handler : key[g] \in Names[g]
  BY DEF IInv, Types, RegistryTypes, Key
<1>3. /\ at'[h] = "ended" /\ entry'[key[h]] = NoHandler
      /\ \A g \in Handler \ {h} : at'[g] = at[g]
      /\ \A k \in Key \ {key[h]} : entry'[k] = entry[k]
      /\ inner' \subseteq inner
  BY <1>1, <1>2
<1>4. ASSUME NEW k \in Key, entry'[k] # NoHandler
      PROVE  /\ entry'[k] = entry[k] /\ entry[k] \in Handler \ {h}
             /\ key[entry[k]] = k /\ at'[entry[k]] \in Opened
             /\ k[1] \in inner'
  <2>1. k # key[h]
    BY <1>3, <1>4
  <2>2. /\ entry'[k] = entry[k] /\ entry[k] \in Handler
        /\ key[entry[k]] = k /\ at[entry[k]] \in Opened
    BY <1>2, <1>3, <1>4, <2>1 DEF IInv, RegistryHonest, Key
  <2>3. entry[k] # h
    BY <2>1, <2>2
  <2>4. k[1] \in inner
    BY <1>4, <2>2 DEF IInv, NamesInMaps
  <2>5. k[1] \in inner'
    <3>1. CASE k[1] # u0
      BY <1>1, <2>4, <3>1
    <3>2. CASE k[1] = u0
      <4>1. k[2] \in Id /\ k = <<u0, k[2]>>
        BY <3>2 DEF Key
      <4>2. names[<<u0, k[2]>>] # NoHandler
        BY <1>1, <1>4, <4>1
      <4> QED
        BY <1>1, <2>4, <4>1, <4>2
    <3> QED
      BY <3>1, <3>2
  <2> QED
    BY <1>3, <2>2, <2>3, <2>5
<1>5. RegistryTypes' /\ NamesInMaps'
  <2>1. names \in [Key -> Handler \cup {NoHandler}]
    BY <1>2
  <2> QED
    BY <1>1, <1>2, <1>3, <1>4, <2>1 DEF RegistryTypes, NamesInMaps, Stages
<1>6. RegistryHonest'
  <2>1. ASSUME NEW u \in inner'
        PROVE  \E g \in Handler : key[g][1] = u /\ at'[g] \in Opened \cup {"register"}
    <3>1. PICK g \in Handler : key[g][1] = u /\ at[g] \in Opened \cup {"register"}
      BY <1>3, <2>1 DEF IInv, RegistryHonest
    <3>2. CASE g # h
      BY <1>3, <3>1, <3>2
    <3>3. CASE g = h
      <4>1. PICK i \in Id : names[<<u0, i>>] # NoHandler
        BY <1>1, <2>1, <3>1, <3>3
      <4>2. <<u0, i>> \in Key /\ entry'[<<u0, i>>] # NoHandler
        BY <1>1, <1>2, <4>1 DEF Key
      <4>3. /\ entry[<<u0, i>>] \in Handler
            /\ key[entry[<<u0, i>>]] = <<u0, i>>
            /\ at'[entry[<<u0, i>>]] \in Opened
        BY <1>4, <4>2
      <4> QED
        BY <3>1, <3>3, <4>3
    <3> QED
      BY <3>2, <3>3
  <2> QED
    BY <1>1, <1>4, <2>1 DEF RegistryHonest, Key
<1>7. StoppableByName'
  <2> SUFFICES ASSUME NEW f \in Handler, at'[f] \in Opened
               PROVE  \/ entry'[key[f]] = f
                      \/ \E g \in Handler \ {f} :
                            key[g] = key[f] /\ at'[g] \in Opened \cup {"ended"}
    BY <1>1 DEF StoppableByName
  <2>1. f # h
    BY <1>3 DEF Opened
  <2>2. CASE key[f] = key[h]
    BY <1>3, <2>1, <2>2
  <2>3. CASE key[f] # key[h]
    <3>1. at[f] \in Opened /\ entry'[key[f]] = entry[key[f]]
      BY <1>2, <1>3, <2>1, <2>3
    <3>2. ASSUME NEW g \in Handler \ {f}, key[g] = key[f], at[g] \in Opened \cup {"ended"}
          PROVE  at'[g] \in Opened \cup {"ended"}
      BY <1>3, <2>3, <3>2
    <3> QED
      BY <3>1, <3>2 DEF IInv, StoppableByName
  <2> QED
    BY <2>2, <2>3
<1> QED
  BY <1>5, <1>6, <1>7

-----------------------------------------------------------------------------
(* All steps together.                                                     *)

\* The event server does not know of the streams.
LEMMA EventServerLeaves ==
    EventServerStep => UNCHANGED <<host, registry, handlers, stop>> /\ crash' = crash
BY DEF EventServerStep, AddTopics, DelTopics, AddEvent, UnSubscribe, StartSub, Unpark

LEMMA HostTypesNext ==
    ASSUME StreamsAssumption, IInv, [Next]_vars PROVE HostTypes'
<1> USE DEF IInv, Types, HostTypes
<1>1. CASE UNCHANGED host
  BY <1>1
<1>2. ASSUME NEW r \in Run, RunCheck(r) PROVE HostTypes'
  BY <1>2 DEF RunCheck
<1>3. ASSUME NEW r \in Run, RunSet(r) PROVE HostTypes'
  BY <1>3 DEF RunSet, Run, StreamsAssumption
<1>4. ASSUME NEW r \in Run, Serve(r) \/ ListenerFails(r) PROVE HostTypes'
  BY <1>4 DEF Serve, ListenerFails
<1>5. ASSUME NEW r \in Run, Cancel(r) PROVE HostTypes'
  BY <1>5 DEF Cancel
<1>6. ASSUME NEW r \in Run, StopperRanges(r) PROVE HostTypes'
  BY <1>6 DEF StopperRanges
<1>7. ASSUME NEW r \in Run, StopperStops(r) PROVE HostTypes'
  BY <1>7 DEF StopperStops
<1>8. ASSUME NEW r \in Run, RunReturns(r) PROVE HostTypes'
  BY <1>8 DEF RunReturns
<1>9. ASSUME NEW h \in Handler,
             Open(h) \/ HandlerStep(h) \/ SendToClient(h) \/ SendOnClosed(h)
      PROVE  UNCHANGED host
  BY <1>9 DEF Open, HandlerStep, CheckSubsStream, Register, SubscribeTo, StartsStreaming,
              SendFails, StreamEnds, Finish, FinishWith, SendToClient, SendOnClosed
<1>10. ASSUME NEW h \in Handler, NEW c \in carried, Receive(h, c) PROVE UNCHANGED host
  BY <1>10 DEF Receive
<1>11. ASSUME NEW s \in Stop, StopCheck(s) \/ StopCancel(s) PROVE UNCHANGED host
  BY <1>11 DEF StopCheck, StopCancel
<1>12. CASE EventServerStep
  BY <1>1, <1>12, EventServerLeaves
<1>13. CASE MapRace
  BY <1>1, <1>13 DEF MapRace
<1>14. CASE UNCHANGED vars
  BY <1>1, <1>14 DEF vars
<1> QED
  BY <1>1, <1>2, <1>3, <1>4, <1>5, <1>6, <1>7, <1>8, <1>9, <1>10, <1>11, <1>12, <1>13,
     <1>14
  DEF Next, RunStep

LEMMA HandlerTypesNext ==
    ASSUME StreamsAssumption, IInv, [Next]_vars PROVE HandlerTypes'
<1> USE DEF HandlerTypes
<1>0. HandlerTypes /\ HostTypes /\ RegistryTypes
  BY DEF IInv, Types
<1>1. CASE UNCHANGED vars
  BY <1>0, <1>1 DEF vars
<1>2. ASSUME NEW r \in Run, RunCheck(r) \/ Cancel(r) \/ ListenerFails(r) \/ RunStep(r)
      PROVE  HandlerTypes'
  <2>1. CASE StopperStops(r)
    <3>1. Registered \subseteq Handler
      BY <1>0 DEF Registered, RegistryTypes, Key
    <3> QED
      BY <1>0, <2>1, <3>1 DEF StopperStops
  <2>2. CASE RunCheck(r) \/ Cancel(r) \/ ListenerFails(r)
    BY <1>0, <2>2 DEF RunCheck, Cancel, ListenerFails
  <2>3. CASE RunSet(r) \/ Serve(r) \/ StopperRanges(r) \/ RunReturns(r)
    BY <1>0, <2>3 DEF RunSet, Serve, StopperRanges, RunReturns
  <2> QED
    BY <1>2, <2>1, <2>2, <2>3 DEF RunStep
<1>3. ASSUME NEW h \in Handler, Open(h) PROVE HandlerTypes'
  <2>1. PICK r \in Run : on' = [on EXCEPT ![h] = r]
    BY <1>3 DEF Open, Serving
  <2>2. r \in 0..MaxRuns
    BY DEF Run, StreamsAssumption
  <2> QED
    BY <1>0, <1>3, <2>1, <2>2 DEF Open
<1>4. ASSUME NEW h \in Handler, HandlerStep(h) PROVE HandlerTypes'
  <2>1. CASE CheckSubsStream(h)
    BY <1>0, <2>1 DEF CheckSubsStream
  <2>2. CASE Register(h)
    BY <1>0, <2>2 DEF Register, HostTypes
  <2>3. CASE SubscribeTo(h)
    <3>1. asked[h] + 1 \in 1..Len(Wants[h]) /\ asked' = [asked EXCEPT ![h] = @ + 1]
      BY <2>3 DEF SubscribeTo, Subscription
    <3>2. asked' \in [Handler -> Nat] /\ \A g \in Handler : asked'[g] \in 0..Len(Wants[g])
      <4>1. Len(Wants[h]) \in Nat
        BY DEF StreamsAssumption
      <4> QED
        BY <1>0, <3>1, <4>1
    <3> QED
      BY <1>0, <2>3, <3>2 DEF SubscribeTo
  <2>4. CASE StartsStreaming(h) \/ SendFails(h) \/ StreamEnds(h)
    BY <1>0, <2>4 DEF StartsStreaming, SendFails, StreamEnds
  <2>5. CASE Finish(h)
    BY <1>0, <2>5 DEF Finish, FinishWith
  <2> QED
    BY <1>4, <2>1, <2>2, <2>3, <2>4, <2>5 DEF HandlerStep
<1>5. ASSUME NEW h \in Handler, SendToClient(h) \/ SendOnClosed(h) PROVE HandlerTypes'
  BY <1>0, <1>5 DEF SendToClient, SendOnClosed
<1>6. ASSUME NEW h \in Handler, NEW c \in carried, Receive(h, c) PROVE HandlerTypes'
  BY <1>0, <1>6 DEF Receive
<1>7. ASSUME NEW s \in Stop, StopCheck(s) PROVE HandlerTypes'
  BY <1>0, <1>7 DEF StopCheck
<1>8. ASSUME NEW s \in Stop, StopCancel(s) PROVE HandlerTypes'
  <2>1. entry[StopKey[s]] \in Handler \cup {NoHandler}
    BY <1>0 DEF RegistryTypes, StreamsAssumption, Key
  <2> QED
    BY <1>0, <1>8, <2>1 DEF StopCancel
<1>9. CASE MapRace
  BY <1>0, <1>9 DEF MapRace
<1>10. CASE EventServerStep
  BY <1>0, <1>10, EventServerLeaves
<1> QED
  BY <1>1, <1>2, <1>3, <1>4, <1>5, <1>6, <1>7, <1>8, <1>9, <1>10 DEF Next

LEMMA EventServerTypes ==
    ASSUME StreamsAssumption, EventTypes, LocksAreHeldOnce, EventServerStep
    PROVE  EventTypes' /\ LocksAreHeldOnce'
<1> USE DEF EventTypes, LocksAreHeldOnce
<1>1. ASSUME NEW t \in Topic, AddTopics(t) PROVE EventTypes' /\ LocksAreHeldOnce'
  BY <1>1 DEF AddTopics, StreamsAssumption
<1>2. ASSUME NEW t \in Topic, DelTopics(t) PROVE EventTypes' /\ LocksAreHeldOnce'
  <2>1. PICK more \in Replays({s \in starting : To(s) = t}) : carried' = carried \cup more
    BY <1>2 DEF DelTopics
  <2>2. more \subseteq Sent
    BY <2>1 DEF Replays, Sent
  <2> QED
    BY <1>2, <2>1, <2>2 DEF DelTopics
<1>3. ASSUME NEW e \in Event, AddEvent(e) PROVE EventTypes' /\ LocksAreHeldOnce'
  <2>1. {<<s, e>> : s \in {x \in subscribed : To(x) = TopicOf[e]}} \subseteq Sent
    BY DEF Sent
  <2> QED
    BY <1>3, <2>1 DEF AddEvent
<1>4. ASSUME NEW u \in Subscriber, NEW t \in Topic, UnSubscribe(u, t)
      PROVE  EventTypes' /\ LocksAreHeldOnce'
  BY <1>4 DEF UnSubscribe
<1>5. ASSUME NEW s \in starting, StartSub(s) PROVE EventTypes' /\ LocksAreHeldOnce'
  <2>1. ASSUME NEW more \in Replays({s}), carried' = carried \cup more, UNCHANGED parked
        PROVE  EventTypes' /\ LocksAreHeldOnce'
    <3>1. more \subseteq Sent
      BY DEF Replays, Sent
    <3> QED
      BY <1>5, <2>1, <3>1 DEF StartSub
  <2>2. ASSUME NEW c \in carried, c[1] = s, parked' = {c} \cup parked, UNCHANGED carried
        PROVE  EventTypes' /\ LocksAreHeldOnce'
    <3>1. \A p \in parked : To(p[1]) # To(s)
      BY <1>5 DEF StartSub, Locked
    <3> QED
      BY <1>5, <2>2, <3>1 DEF StartSub
  <2> QED
    BY <1>5, <2>1, <2>2 DEF StartSub
<1>6. ASSUME NEW p \in parked, Unpark(p) PROVE EventTypes' /\ LocksAreHeldOnce'
  <2>1. CASE parked' = parked \ {p}
    BY <1>6, <2>1 DEF Unpark
  <2>2. ASSUME NEW c \in carried, c[1] = p[1], parked' = (parked \ {p}) \cup {c}
        PROVE  EventTypes' /\ LocksAreHeldOnce'
    BY <1>6, <2>2 DEF Unpark
  <2> QED
    BY <1>6, <2>1, <2>2 DEF Unpark
<1> QED
  BY <1>1, <1>2, <1>3, <1>4, <1>5, <1>6 DEF EventServerStep

LEMMA EventTypesNext ==
    ASSUME StreamsAssumption, IInv, [Next]_vars PROVE EventTypes' /\ LocksAreHeldOnce'
<1>0. EventTypes /\ LocksAreHeldOnce
  BY DEF IInv, Types
<1>1. CASE UNCHANGED es
  BY <1>0, <1>1 DEF EventTypes, LocksAreHeldOnce
<1>2. ASSUME NEW r \in Run, RunCheck(r) \/ Cancel(r) \/ ListenerFails(r) \/ RunStep(r)
      PROVE  UNCHANGED es
  BY <1>2 DEF RunCheck, Cancel, ListenerFails, RunStep, RunSet, Serve, StopperRanges,
              StopperStops, RunReturns
<1>3. ASSUME NEW h \in Handler,
             \/ Open(h) \/ CheckSubsStream(h) \/ Register(h) \/ StartsStreaming(h)
             \/ SendFails(h) \/ StreamEnds(h) \/ Finish(h)
             \/ SendToClient(h) \/ SendOnClosed(h)
      PROVE  UNCHANGED es
  BY <1>3 DEF Open, CheckSubsStream, Register, StartsStreaming, SendFails, StreamEnds,
              Finish, FinishWith, SendToClient, SendOnClosed
<1>4. ASSUME NEW h \in Handler, SubscribeTo(h) PROVE EventTypes' /\ LocksAreHeldOnce'
  BY <1>0, <1>4 DEF SubscribeTo, EventTypes, LocksAreHeldOnce
<1>5. ASSUME NEW h \in Handler, NEW c \in carried, Receive(h, c)
      PROVE  EventTypes' /\ LocksAreHeldOnce'
  BY <1>0, <1>5 DEF Receive, EventTypes, LocksAreHeldOnce
<1>6. ASSUME NEW s \in Stop, StopCheck(s) \/ StopCancel(s) PROVE UNCHANGED es
  BY <1>6 DEF StopCheck, StopCancel
<1>7. CASE MapRace
  BY <1>1, <1>7 DEF MapRace
<1>8. CASE EventServerStep
  BY <1>0, <1>8, EventServerTypes
<1>9. CASE UNCHANGED vars
  BY <1>1, <1>9 DEF vars
<1> QED
  BY <1>1, <1>2, <1>3, <1>4, <1>5, <1>6, <1>7, <1>8, <1>9 DEF Next, HandlerStep

LEMMA RegistryNext ==
    ASSUME StreamsAssumption, IInv, [Next]_vars
    PROVE  RegistryTypes' /\ NamesInMaps' /\ RegistryHonest' /\ StoppableByName'
<1> DEFINE Kept == RegistryTypes' /\ NamesInMaps' /\ RegistryHonest' /\ StoppableByName'
       Same == UNCHANGED <<registry, at, key>>
<1>1. CASE Same
  BY <1>1, RegistryStays
<1>2. ASSUME NEW r \in Run, RunCheck(r) \/ Cancel(r) \/ ListenerFails(r) \/ RunStep(r)
      PROVE  Same
  BY <1>2 DEF RunCheck, Cancel, ListenerFails, RunStep, RunSet, Serve, StopperRanges,
              StopperStops, RunReturns
<1>3. ASSUME NEW h \in Handler, Open(h) PROVE Kept
  BY <1>3, OpenKeeps
<1>4. ASSUME NEW h \in Handler, CheckSubsStream(h) PROVE Kept
  BY <1>4, CheckKeeps
<1>5. ASSUME NEW h \in Handler, Register(h) PROVE Kept
  BY <1>5, RegisterKeeps
<1>6. ASSUME NEW h \in Handler, Finish(h) PROVE Kept
  BY <1>6, FinishKeeps DEF StreamsAssumption
<1>7. ASSUME NEW h \in Handler, SubscribeTo(h) PROVE Same
  BY <1>7 DEF SubscribeTo
<1>8. ASSUME NEW h \in Handler,
             \/ StartsStreaming(h) \/ SendFails(h) \/ StreamEnds(h) \/ SendToClient(h)
             \/ \E c \in carried : Receive(h, c)
      PROVE  Kept
  <2>1. /\ UNCHANGED <<registry, key>> /\ at[h] \in Opened
        /\ \E where \in Opened : at' = [at EXCEPT ![h] = where]
    BY <1>8 DEF StartsStreaming, SendFails, StreamEnds, SendToClient, Receive, Goes, Opened
  <2> QED
    BY <2>1, StageStays DEF Stages
<1>9. ASSUME NEW h \in Handler, SendOnClosed(h) PROVE Same
  BY <1>9 DEF SendOnClosed
<1>10. ASSUME NEW s \in Stop, StopCheck(s) \/ StopCancel(s)
       PROVE  Same
  BY <1>10 DEF StopCheck, StopCancel
<1>11. CASE MapRace
  BY <1>1, <1>11 DEF MapRace
<1>12. CASE EventServerStep
  BY <1>1, <1>12, EventServerLeaves
<1>13. CASE UNCHANGED vars
  BY <1>1, <1>13 DEF vars
<1> HIDE DEF Same
<1>14. ASSUME NEW h \in Handler,
              \/ Open(h) \/ HandlerStep(h) \/ SendToClient(h) \/ SendOnClosed(h)
              \/ \E c \in carried : Receive(h, c)
       PROVE  Kept \/ Same
  BY <1>3, <1>4, <1>5, <1>6, <1>7, <1>8, <1>9, <1>14 DEF HandlerStep
<1>15. CASE Next
  <2>1. CASE \E r \in Run : RunCheck(r) \/ Cancel(r) \/ ListenerFails(r) \/ RunStep(r)
    BY <1>1, <1>2, <2>1
  <2>2. CASE \E h \in Handler :
               \/ Open(h) \/ HandlerStep(h) \/ SendToClient(h) \/ SendOnClosed(h)
               \/ \E c \in carried : Receive(h, c)
    BY <1>1, <1>14, <2>2
  <2>3. CASE MapRace \/ \E s \in Stop : StopCheck(s) \/ StopCancel(s)
    BY <1>1, <1>10, <1>11, <2>3
  <2>4. CASE EventServerStep
    BY <1>12, <2>4
  <2> QED
    BY <1>15, <2>1, <2>2, <2>3, <2>4 DEF Next
<1> QED
  BY <1>13, <1>15

\* The invariant holds in every reachable state.
THEOREM Invariant == ASSUME StreamsAssumption PROVE Spec => []IInv
<1>1. Init => IInv
  BY InitHolds
<1>2. IInv /\ [Next]_vars => IInv'
  BY HostTypesNext, HandlerTypesNext, EventTypesNext, RegistryNext DEF IInv, Types
<1> QED
  BY <1>1, <1>2, PTL DEF Spec

\* Each variable keeps its type, a name that is taken is in a map, and a topic's
\* lock is held by one startSub at most.
THEOREM Typing == ASSUME StreamsAssumption PROVE Spec => []TypeOK
<1>1. IInv => TypeOK
  BY TypesSuffice DEF IInv
<1> QED
  BY <1>1, Invariant, PTL

\* A cancel function kept under a name is that of an open stream of that name,
\* and no map outlives the streams of its subscriber.
THEOREM RegistryIsHonest == ASSUME StreamsAssumption PROVE Spec => []RegistryHonest
<1>1. IInv => RegistryHonest
  BY DEF IInv
<1> QED
  BY <1>1, Invariant, PTL

\* An open stream whose name no other call has used is under its name in the map:
\* StopSubscriptionStream finds it, whatever the subscriber's other streams do.
THEOREM StreamsAreStoppable == ASSUME StreamsAssumption PROVE Spec => []StoppableByName
<1>1. IInv => StoppableByName
  BY DEF IInv
<1> QED
  BY <1>1, Invariant, PTL

=============================================================================
