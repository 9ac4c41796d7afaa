-------------------------- MODULE ServiceBus_proof --------------------------
(***************************************************************************)
(* Proofs about ServiceBus, for every set of calls, requests and contexts: *)
(* a bus that says it runs has its three servers, if calls of Run come one *)
(* after another.                                                          *)
(***************************************************************************)
EXTENDS ServiceBus, TLAPS

USE DEF bus, calls, hosts, Call

-----------------------------------------------------------------------------
(* Typing.                                                                 *)

\* A call that is on its way through Run.
Climbing == {"bus", "es", "esSet", "esTopic", "ms", "s2", "busSet"}
CallStage == {"new", "failed", "returned", "serving", "listen", "stopped"} \cup Climbing

BusTypes ==
    /\ at \in [Call -> CallStage]
    /\ ended \subseteq Call
    /\ flag \in [Server -> BOOLEAN]
    /\ of \in [Server -> Call \cup {None}]
    /\ stoppers \subseteq Server \X Call
    /\ hasTopic \in BOOLEAN

\* Only the handler's calls listen.
Listeners ==
    /\ \A c \in Call : at[c] \in {"listen", "serving", "stopped"} => c \in GrpcCall
    /\ \A c \in Call : <<"grpc", c>> \in stoppers => c \in GrpcCall
    /\ of["grpc"] \in GrpcCall \cup {None}
    /\ \A s \in Server, c \in Call : <<s, c>> \in stoppers => at[c] # "new"

RequestStage == {"new", "refused", "look", "create", "run", "got"}
HostStage == {"none", "spawned", "listen", "refused", "serving", "stopped", "ended"}

HostTypes ==
    /\ req \in [Request -> RequestStage]
    /\ kind \in [Request -> {"ms", "es"}]
    /\ \A q \in Request : kind[q] \in Kinds[q]
    /\ handler \in [{"ms", "es"} -> Request \cup {None}]
    /\ up \subseteq Request
    /\ host \in [Request -> HostStage]
    /\ runs \in [Request -> Request \cup {None}]
    /\ under \in [Request -> GrpcCall \cup {None}]
    /\ crashed \in BOOLEAN

\* Nobody runs a host that was not created.
HostsExist ==
    \A q \in Request :
        /\ req[q] \in {"run", "got"} => handler[kind[q]] \in Request
        /\ host[q] # "none" => req[q] = "got"
        /\ host[q] \in {"listen", "serving", "stopped"} => runs[q] \in Request

Types == BusTypes /\ Listeners /\ HostTypes /\ HostsExist

-----------------------------------------------------------------------------
(* Who holds the flags.                                                    *)

Active(c) == at[c] \in Climbing \cup {"listen"}

AtMostOne == \A c, d \in Call : Active(c) /\ Active(d) => c = d

\* A stopper under way is that of the run that set the flag last, but for the
\* event server's, which is there before the flag is.
Owned ==
    /\ \A s \in {"ms", "s2", "bus"}, c \in Call :
          <<s, c>> \in stoppers => flag[s] /\ of[s] = c
    /\ \A c \in Call :
          <<"es", c>> \in stoppers => (flag["es"] /\ of["es"] = c) \/ at[c] = "esSet"

\* What a call has found not running no other call sets meanwhile.
Unset ==
    \A c \in Call :
        /\ at[c] = "esSet" => ~flag["es"]
        /\ at[c] \in Climbing \ {"bus"} => ~flag["bus"]

\* The stopper of the gRPC handler waits for a call that serves.
Grpc == \A c \in Call : <<"grpc", c>> \in stoppers => at[c] = "serving"

Holds(s, c) == flag[s] /\ of[s] = c

\* A call has the servers it has come past, while its context lives.
Gained ==
    \A c \in Call \ ended :
        /\ at[c] \in {"esTopic", "ms", "s2", "busSet"} => Holds("es", c)
        /\ at[c] \in {"s2", "busSet"} => Holds("ms", c)
        /\ at[c] = "busSet" => Holds("s2", c)

BInv == AtMostOne /\ Grpc /\ Owned /\ Unset /\ Gained /\ BusBacked

-----------------------------------------------------------------------------
(* Typing is kept.                                                         *)

LEMMA TypesInit == ASSUME BusAssumption, Init PROVE Types
<1>1. BusTypes
  BY DEF Init, BusTypes, CallStage
<1>2. Listeners
  BY DEF Init, Listeners, Server
<1>3. ASSUME NEW q \in Request PROVE (CHOOSE k \in Kinds[q] : TRUE) \in Kinds[q]
  <2>1. Kinds[q] # {}
    BY DEF BusAssumption
  <2> QED
    BY <2>1
<1>4. ASSUME NEW q \in Request PROVE Kinds[q] \subseteq {"ms", "es"}
  BY DEF BusAssumption
<1>5. \A q \in Request : kind[q] \in Kinds[q] /\ kind[q] \in {"ms", "es"}
  BY <1>3, <1>4 DEF Init
<1>6. kind \in [Request -> {"ms", "es"}]
  <2>1. kind = [q \in Request |-> kind[q]]
    BY DEF Init
  <2> QED
    BY <1>5, <2>1
<1>7. HostTypes
  BY <1>5, <1>6 DEF Init, HostTypes, RequestStage, HostStage
<1>8. HostsExist
  BY DEF Init, HostsExist
<1> QED
  BY <1>1, <1>2, <1>7, <1>8 DEF Types

\* A server is run.
LEMMA ServerTaken ==
    ASSUME BusTypes, NEW s \in Server, NEW c \in Call,
           flag' = [flag EXCEPT ![s] = TRUE], of' = [of EXCEPT ![s] = c],
           stoppers' = stoppers \cup {<<s, c>>}
    PROVE  /\ flag' \in [Server -> BOOLEAN]
           /\ of' \in [Server -> Call \cup {None}]
           /\ stoppers' \subseteq Server \X Call
<1>1. flag' \in [Server -> BOOLEAN]
  BY DEF BusTypes
<1>2. of' \in [Server -> Call \cup {None}]
  BY DEF BusTypes
<1>3. stoppers' \subseteq Server \X Call
  BY DEF BusTypes
<1> QED
  BY <1>1, <1>2, <1>3

\* Steps of calls of Run, and of stoppers.
LEMMA CallTypes ==
    ASSUME BusAssumption, Types, NEW c \in Call,
           \/ Begin(c) \/ RunStep(c) \/ Cancel(c)
           \/ \E s \in Server : StopperFires(s, c)
    PROVE  Types'
<1> USE DEF Goes, BusTypes, Listeners, CallStage, Climbing
<1>1. UNCHANGED <<calls, handler, hosts, crashed>>
  BY DEF Begin, RunStep, Cancel, StopperFires, BusCheck, EsCheck, EsSet, EsTopic,
         MsRun, S2Run, RunServer, BusSet, Listen, GrpcReturns
<1>2. HostTypes' /\ HostsExist'
  BY <1>1 DEF Types, HostTypes, HostsExist
<1>3. BusTypes /\ Listeners
  BY DEF Types
<1>4. CASE Begin(c)
  <2>1. PICK stage \in {"bus", "failed", "listen"} :
            at' = [at EXCEPT ![c] = stage] /\ (stage = "listen" => c \in GrpcCall)
    BY <1>4 DEF Begin
  <2> QED
    BY <1>2, <1>3, <1>4, <2>1 DEF Begin, Types
<1>5. CASE BusCheck(c)
  BY <1>2, <1>3, <1>5 DEF BusCheck, Types
<1>6. CASE EsCheck(c)
  <2>1. BusTypes'
    BY <1>3, <1>6 DEF EsCheck, Server
  <2>2. Listeners'
    BY <1>3, <1>6 DEF EsCheck, Server
  <2> QED
    BY <1>2, <2>1, <2>2 DEF Types
<1>7. CASE EsSet(c)
  <2>1. BusTypes'
    BY <1>3, <1>7 DEF EsSet, Server
  <2>2. Listeners'
    BY <1>3, <1>7 DEF EsSet, Server
  <2> QED
    BY <1>2, <2>1, <2>2 DEF Types
<1>8. CASE EsTopic(c)
  <2>1. PICK stage \in {"ms", "failed"} : at' = [at EXCEPT ![c] = stage]
    BY <1>8 DEF EsTopic
  <2>2. hasTopic' \in BOOLEAN /\ UNCHANGED <<ended, flag, of, stoppers>>
    BY <1>3, <1>8 DEF EsTopic
  <2> QED
    BY <1>2, <1>3, <2>1, <2>2 DEF Types
<1>9. CASE MsRun(c)
  <2>1. BusTypes'
    <3>1. PICK stage \in {"s2", "failed"} : at' = [at EXCEPT ![c] = stage]
      BY <1>9 DEF MsRun, RunServer
    <3>2. \/ UNCHANGED <<flag, of, stoppers>>
          \/ /\ flag' = [flag EXCEPT !["ms"] = TRUE]
             /\ of' = [of EXCEPT !["ms"] = c]
             /\ stoppers' = stoppers \cup {<<"ms", c>>}
      BY <1>9 DEF MsRun, RunServer
    <3>3. /\ flag' \in [Server -> BOOLEAN]
          /\ of' \in [Server -> Call \cup {None}]
          /\ stoppers' \subseteq Server \X Call
      <4>1. CASE UNCHANGED <<flag, of, stoppers>>
        BY <1>3, <4>1
      <4> QED
        BY <1>3, <3>2, <4>1, ServerTaken DEF Server
    <3>4. ended' = ended /\ hasTopic' = hasTopic
      BY <1>9 DEF MsRun, RunServer
    <3> QED
      BY <1>3, <3>1, <3>3, <3>4
  <2>2. Listeners'
    BY <1>3, <1>9 DEF MsRun, RunServer, Server
  <2> QED
    BY <1>2, <2>1, <2>2 DEF Types
<1>10. CASE S2Run(c)
  <2>1. BusTypes'
    <3>1. PICK stage \in {"busSet", "failed"} : at' = [at EXCEPT ![c] = stage]
      BY <1>10 DEF S2Run, RunServer
    <3>2. \/ UNCHANGED <<flag, of, stoppers>>
          \/ /\ flag' = [flag EXCEPT !["s2"] = TRUE]
             /\ of' = [of EXCEPT !["s2"] = c]
             /\ stoppers' = stoppers \cup {<<"s2", c>>}
      BY <1>10 DEF S2Run, RunServer
    <3>3. /\ flag' \in [Server -> BOOLEAN]
          /\ of' \in [Server -> Call \cup {None}]
          /\ stoppers' \subseteq Server \X Call
      <4>1. CASE UNCHANGED <<flag, of, stoppers>>
        BY <1>3, <4>1
      <4> QED
        BY <1>3, <3>2, <4>1, ServerTaken DEF Server
    <3>4. ended' = ended /\ hasTopic' = hasTopic
      BY <1>10 DEF S2Run, RunServer
    <3> QED
      BY <1>3, <3>1, <3>3, <3>4
  <2>2. Listeners'
    BY <1>3, <1>10 DEF S2Run, RunServer, Server
  <2> QED
    BY <1>2, <2>1, <2>2 DEF Types
<1>11. CASE BusSet(c)
  <2>1. BusTypes'
    BY <1>3, <1>11 DEF BusSet, Server
  <2>2. Listeners'
    BY <1>3, <1>11 DEF BusSet, Server
  <2> QED
    BY <1>2, <2>1, <2>2 DEF Types
<1>12. CASE Listen(c)
  <2>1. BusTypes'
    <3>1. PICK stage \in {"serving", "failed"} : at' = [at EXCEPT ![c] = stage]
      BY <1>12 DEF Listen
    <3>2. \/ UNCHANGED <<flag, of, stoppers>>
          \/ /\ flag' = [flag EXCEPT !["grpc"] = TRUE]
             /\ of' = [of EXCEPT !["grpc"] = c]
             /\ stoppers' = stoppers \cup {<<"grpc", c>>}
      BY <1>12 DEF Listen
    <3>3. /\ flag' \in [Server -> BOOLEAN]
          /\ of' \in [Server -> Call \cup {None}]
          /\ stoppers' \subseteq Server \X Call
      <4>1. CASE UNCHANGED <<flag, of, stoppers>>
        BY <1>3, <4>1
      <4> QED
        BY <1>3, <3>2, <4>1, ServerTaken DEF Server
    <3>4. ended' = ended /\ hasTopic' = hasTopic
      BY <1>12 DEF Listen
    <3> QED
      BY <1>3, <3>1, <3>3, <3>4
  <2>2. Listeners'
    BY <1>3, <1>12 DEF Listen, Server
  <2> QED
    BY <1>2, <2>1, <2>2 DEF Types
<1>13. CASE GrpcReturns(c)
  <2>1. BusTypes'
    BY <1>3, <1>13 DEF GrpcReturns, Server
  <2>2. Listeners'
    BY <1>3, <1>13 DEF GrpcReturns, Server
  <2> QED
    BY <1>2, <2>1, <2>2 DEF Types
<1>14. CASE Cancel(c)
  BY <1>2, <1>3, <1>14 DEF Cancel, Types, BusAssumption
<1>15. ASSUME NEW s \in Server, StopperFires(s, c) PROVE Types'
  BY <1>2, <1>3, <1>15 DEF StopperFires, Types
<1> QED
  BY <1>4, <1>5, <1>6, <1>7, <1>8, <1>9, <1>10, <1>11, <1>12, <1>13, <1>14, <1>15
  DEF RunStep

\* Steps of requests, and of the goroutines in which they run a host.
LEMMA RequestTypes ==
    ASSUME BusAssumption, Types, NEW q \in Request,
           Ask(q) \/ RequestStep(q) \/ AnswerEs(q) \/ HostStep(q)
    PROVE  Types'
<1> USE DEF HostTypes, HostsExist, Moves, RequestStage, HostStage
<1>1. UNCHANGED bus
  BY DEF Ask, RequestStep, HostStep, Look, Create, RunIfNotRunned, AnswerEs,
         HostStarts, HostListens, HostStops, HostReturns
<1>2. BusTypes' /\ Listeners'
  BY <1>1 DEF Types, BusTypes, Listeners
<1>3. HostTypes /\ HostsExist /\ None \notin Request
  BY DEF Types, BusAssumption
<1>4. CASE Ask(q)
  <2>1. PICK k \in Kinds[q] : kind' = [kind EXCEPT ![q] = k]
    BY <1>4 DEF Ask
  <2>2. k \in {"ms", "es"}
    BY DEF BusAssumption
  <2> QED
    BY <1>2, <1>3, <1>4, <2>1, <2>2 DEF Ask, Types
<1>5. CASE Look(q)
  BY <1>2, <1>3, <1>5 DEF Look, Types
<1>6. CASE Create(q)
  BY <1>2, <1>3, <1>6 DEF Create, Types
<1>7. CASE RunIfNotRunned(q)
  BY <1>2, <1>3, <1>7 DEF RunIfNotRunned, Types
<1>8. CASE HostStarts(q)
  <2>1. of["grpc"] \in GrpcCall \cup {None}
    BY DEF Types, Listeners
  <2> QED
    BY <1>2, <1>3, <1>8, <2>1 DEF HostStarts, Types
<1>9. CASE HostListens(q)
  BY <1>2, <1>3, <1>9 DEF HostListens, HostOver, Types
<1>10. CASE HostStops(q)
  BY <1>2, <1>3, <1>10 DEF HostStops, Types
<1>11. CASE HostReturns(q)
  BY <1>2, <1>3, <1>11 DEF HostReturns, HostOver, Types
<1>12. CASE AnswerEs(q)
  BY <1>2, <1>3, <1>12 DEF AnswerEs, Types
<1> QED
  BY <1>4, <1>5, <1>6, <1>7, <1>8, <1>9, <1>10, <1>11, <1>12 DEF RequestStep, HostStep

LEMMA TypesNext == ASSUME BusAssumption, Types, [Next]_vars PROVE Types'
<1>1. CASE UNCHANGED vars
  BY <1>1 DEF vars, Types, BusTypes, Listeners, HostTypes, HostsExist
<1> QED
  BY <1>1, CallTypes, RequestTypes DEF Next

\* Whatever calls overlap, no request is answered without a host, and no host
\* runs that was not created.
THEOREM Typing == ASSUME BusAssumption PROVE Spec => []TypeOK
<1>1. Init => Types
  BY TypesInit
<1>2. Types /\ [Next]_vars => Types'
  BY TypesNext
<1>3. Types => TypeOK
  BY DEF Types, BusTypes, Listeners, HostTypes, TypeOK, CallStage, Climbing, Through,
         RequestStage, HostStage
<1> QED
  BY <1>1, <1>2, <1>3, PTL DEF Spec

-----------------------------------------------------------------------------
(* The bus is backed.                                                      *)

\* A call moves on and nothing else changes.
LEMMA Moved ==
    ASSUME BusTypes, BInv, NEW c \in Call, NEW stage \in CallStage,
           at' = [at EXCEPT ![c] = stage], UNCHANGED <<ended, flag, of, stoppers>>,
           at[c] \notin {"esSet", "serving"},
           \/ stage \notin Climbing \cup {"listen"}
           \/ Active(c)
           \/ \A d \in Call : ~Active(d),
           stage \in Climbing \ {"bus"} => ~flag["bus"],
           stage = "esSet" => ~flag["es"],
           c \notin ended =>
               /\ stage \in {"esTopic", "ms", "s2", "busSet"} => Holds("es", c)
               /\ stage \in {"s2", "busSet"} => Holds("ms", c)
               /\ stage = "busSet" => Holds("s2", c)
    PROVE  BInv'
<1>1. \A d \in Call : at'[d] = IF d = c THEN stage ELSE at[d]
  BY DEF BusTypes
<1>2. AtMostOne'
  BY <1>1 DEF BInv, AtMostOne, Active
<1>3. Owned' /\ Grpc'
  BY <1>1 DEF BInv, Owned, Grpc
<1>4. Unset'
  BY <1>1 DEF BInv, Unset
<1>5. Gained'
  BY <1>1 DEF BInv, Gained, Holds
<1>6. BusBacked'
  BY DEF BInv, BusBacked
<1> QED
  BY <1>2, <1>3, <1>4, <1>5, <1>6 DEF BInv

\* A call sets the flag of a server that it found not running.
LEMMA Set ==
    ASSUME BusTypes, BInv, NEW c \in Call, NEW s \in {"es", "ms", "s2"},
           NEW stage \in {"esTopic", "s2", "busSet"},
           at' = [at EXCEPT ![c] = stage], UNCHANGED ended,
           flag' = [flag EXCEPT ![s] = TRUE], of' = [of EXCEPT ![s] = c],
           stoppers \subseteq stoppers', stoppers' \subseteq stoppers \cup {<<s, c>>},
           ~flag[s],
           \/ s = "es" /\ at[c] = "esSet" /\ stage = "esTopic"
           \/ s = "ms" /\ at[c] = "ms" /\ stage = "s2"
           \/ s = "s2" /\ at[c] = "s2" /\ stage = "busSet"
    PROVE  BInv'
<1>1. /\ \A d \in Call : at'[d] = IF d = c THEN stage ELSE at[d]
      /\ \A t \in Server : flag'[t] = IF t = s THEN TRUE ELSE flag[t]
      /\ \A t \in Server : of'[t] = IF t = s THEN c ELSE of[t]
      /\ {"es", "ms", "s2", "bus"} \subseteq Server
  BY DEF BusTypes, Server
<1>2. Active(c) /\ at[c] \in Climbing \ {"bus"} /\ \A d \in Call : Active(d) => d = c
  BY DEF Active, Climbing, BInv, AtMostOne
<1>3. ~flag["bus"]
  BY <1>2 DEF BInv, Unset
<1>4. AtMostOne'
  BY <1>1, <1>2 DEF AtMostOne, Active, Climbing
<1>5. Owned'
  <2>1. ASSUME NEW t \in {"ms", "s2", "bus"}, NEW d \in Call, <<t, d>> \in stoppers'
        PROVE  flag'[t] /\ of'[t] = d
    <3>1. CASE <<t, d>> \in stoppers
      <4>1. flag[t] /\ of[t] = d
        BY <3>1 DEF BInv, Owned
      <4>2. t # s
        BY <4>1
      <4> QED
        BY <1>1, <4>1, <4>2
    <3>2. CASE t = s /\ d = c
      BY <1>1, <3>2
    <3> QED
      BY <2>1, <3>1, <3>2
  <2>2. ASSUME NEW d \in Call, <<"es", d>> \in stoppers'
        PROVE  (flag'["es"] /\ of'["es"] = d) \/ at'[d] = "esSet"
    <3>1. CASE <<"es", d>> \in stoppers
      <4>1. (flag["es"] /\ of["es"] = d) \/ at[d] = "esSet"
        BY <3>1 DEF BInv, Owned
      <4>2. at[d] = "esSet" => d = c
        BY <1>2 DEF Active, Climbing
      <4>3. CASE s = "es"
        BY <1>1, <4>1, <4>2, <4>3
      <4>4. CASE s # "es"
        <5>1. at[c] # "esSet"
          BY <4>4
        <5> QED
          BY <1>1, <4>1, <4>2, <4>4, <5>1
      <4> QED
        BY <4>3, <4>4
    <3>2. CASE "es" = s /\ d = c
      BY <1>1, <3>2
    <3> QED
      BY <2>2, <3>1, <3>2
  <2> QED
    BY <2>1, <2>2 DEF Owned
<1>6. Unset'
  BY <1>1, <1>2, <1>3 DEF BInv, Unset, Active, Climbing
<1>7. Gained'
  <2> SUFFICES ASSUME NEW d \in Call \ ended
               PROVE  /\ at'[d] \in {"esTopic", "ms", "s2", "busSet"} => Holds("es", d)'
                      /\ at'[d] \in {"s2", "busSet"} => Holds("ms", d)'
                      /\ at'[d] = "busSet" => Holds("s2", d)'
    BY DEF Gained
  <2>1. CASE d # c
    BY <1>1, <1>2, <2>1 DEF Active, Climbing
  <2>2. CASE d = c
    <3>1. \A t \in {"es", "ms", "s2"} : Holds(t, c) /\ t # s => Holds(t, c)'
      BY <1>1 DEF Holds
    <3>2. Holds(s, c)'
      BY <1>1 DEF Holds
    <3>3. /\ at[c] \in {"ms", "s2"} => Holds("es", c)
          /\ at[c] = "s2" => Holds("ms", c)
      BY <2>2 DEF BInv, Gained
    <3>4. at'[c] = stage
      BY <1>1
    <3> QED
      BY <2>2, <3>1, <3>2, <3>3, <3>4
  <2> QED
    BY <2>1, <2>2
<1>8. BusBacked'
  BY <1>1, <1>3 DEF BusBacked
<1>9. Grpc'
  BY <1>1, <1>2 DEF BInv, Grpc, Climbing
<1> QED
  BY <1>9, <1>4, <1>5, <1>6, <1>7, <1>8 DEF BInv

\* A stopper clears the flag of the run it belongs to, and of no other.
LEMMA Stopped ==
    ASSUME BusTypes, BInv, NEW c \in Call, NEW s \in Server,
           StopperFires(s, c)
    PROVE  BInv'
<1>1. <<s, c>> \in stoppers /\ c \in ended /\ UNCHANGED <<ended, of>>
      /\ stoppers' = stoppers \ {<<s, c>>}
  BY DEF StopperFires
<1>2. CASE s = "grpc"
  <2>1. UNCHANGED flag /\ at' = [at EXCEPT ![c] = "stopped"]
    BY <1>2 DEF StopperFires, Goes
  <2>2. \A d \in Call : at'[d] = IF d = c THEN "stopped" ELSE at[d]
    BY <2>1 DEF BusTypes
  <2>3. AtMostOne' /\ Unset' /\ Gained' /\ BusBacked'
    BY <1>1, <2>1, <2>2 DEF BInv, AtMostOne, Active, Climbing, Unset, Gained, Holds,
                            BusBacked
  <2>4. Owned'
    <3>1. at[c] # "esSet"
      BY <1>1, <1>2 DEF BInv, Grpc
    <3> QED
      BY <1>1, <2>1, <2>2, <3>1 DEF BInv, Owned
  <2>5. Grpc'
    BY <1>1, <1>2, <2>2 DEF BInv, Grpc
  <2> QED
    BY <2>3, <2>4, <2>5 DEF BInv
<1>3. CASE s # "grpc"
  <2>1. UNCHANGED at /\ flag' = [flag EXCEPT ![s] = FALSE]
    BY <1>3 DEF StopperFires
  <2>2. /\ \A t \in Server : flag'[t] = IF t = s THEN FALSE ELSE flag[t]
        /\ {"es", "ms", "s2", "bus"} \subseteq Server
    BY <2>1 DEF BusTypes, Server
  <2>3. \/ s = "es" /\ at[c] = "esSet"
        \/ of[s] = c
    BY <1>1, <1>3 DEF BInv, Owned, Server
  <2>4. \A d \in Call : at[c] = "esSet" /\ Active(d) => d = c
    BY DEF BInv, AtMostOne, Active, Climbing
  <2>5. AtMostOne'
    BY <2>1 DEF BInv, AtMostOne, Active
  <2>6. Owned'
    <3>1. ASSUME NEW t \in {"ms", "s2", "bus"}, NEW d \in Call, <<t, d>> \in stoppers'
          PROVE  flag'[t] /\ of'[t] = d
      <4>1. flag[t] /\ of[t] = d /\ <<t, d>> \in stoppers /\ <<t, d>> # <<s, c>>
        BY <1>1, <3>1 DEF BInv, Owned
      <4>2. t # s
        BY <2>3, <4>1
      <4> QED
        BY <1>1, <2>2, <4>1, <4>2
    <3>2. ASSUME NEW d \in Call, <<"es", d>> \in stoppers'
          PROVE  (flag'["es"] /\ of'["es"] = d) \/ at'[d] = "esSet"
      <4>1. /\ (flag["es"] /\ of["es"] = d) \/ at[d] = "esSet"
            /\ <<"es", d>> # <<s, c>>
        BY <1>1, <3>2 DEF BInv, Owned
      <4>2. CASE s # "es"
        BY <1>1, <2>1, <2>2, <4>1, <4>2
      <4>3. CASE s = "es"
        <5>1. d # c
          BY <4>1, <4>3
        <5>2. at[c] = "esSet" => ~flag["es"]
          BY DEF BInv, Unset
        <5>3. at[d] = "esSet"
          BY <2>3, <4>1, <4>3, <5>1, <5>2
        <5> QED
          BY <2>1, <5>3
      <4> QED
        BY <4>2, <4>3
    <3> QED
      BY <3>1, <3>2 DEF Owned
  <2>7. Unset'
    BY <2>1, <2>2 DEF BInv, Unset, Climbing
  <2>8. Gained'
    BY <1>1, <2>1, <2>2, <2>3, <2>4 DEF BInv, Gained, Holds, Active, Climbing
  <2>9. BusBacked'
    BY <1>1, <2>1, <2>2, <2>3, <2>4 DEF BInv, BusBacked, Unset, Climbing
  <2>10. Grpc'
    BY <1>1, <2>1 DEF BInv, Grpc
  <2> QED
    BY <2>5, <2>6, <2>7, <2>8, <2>9, <2>10 DEF BInv
<1> QED
  BY <1>2, <1>3

LEMMA BeginKeeps ==
    ASSUME ~MayOverlap, BusTypes, BInv, NEW c \in Call, Begin(c) PROVE BInv'
<1>1. /\ UNCHANGED <<ended, flag, of, stoppers>> /\ at[c] = "new"
      /\ \A d \in Call : at[d] \in Through
  BY DEF Begin
<1>2. PICK stage \in {"bus", "failed", "listen"} : at' = [at EXCEPT ![c] = stage]
  BY DEF Begin, Goes
<1>3. \A d \in Call : ~Active(d)
  BY <1>1 DEF Through, Active, Climbing
<1> QED
  BY <1>1, <1>2, <1>3, Moved DEF CallStage, Climbing

LEMMA EsCheckKeeps ==
    ASSUME BusTypes, BInv, NEW c \in Call, EsCheck(c) PROVE BInv'
<1>1. Active(c) /\ at[c] = "es" /\ UNCHANGED <<ended, flag, of>> /\ ~flag["bus"]
  BY DEF EsCheck, Active, Climbing, BInv, Unset
<1>2. CASE flag["es"]
  <2>1. UNCHANGED stoppers /\ at' = [at EXCEPT ![c] = "failed"]
    BY <1>2 DEF EsCheck, Goes
  <2> QED
    BY <1>1, <2>1, Moved DEF CallStage, Climbing
<1>3. CASE ~flag["es"]
  <2>1. at' = [at EXCEPT ![c] = "esSet"] /\ stoppers' = stoppers \cup {<<"es", c>>}
    BY <1>3 DEF EsCheck, Goes
  <2>2. \A d \in Call : at'[d] = IF d = c THEN "esSet" ELSE at[d]
    BY <2>1 DEF BusTypes
  <2>3. AtMostOne'
    BY <1>1, <2>2 DEF BInv, AtMostOne, Active
  <2>4. Owned'
    BY <1>1, <2>1, <2>2 DEF BInv, Owned
  <2>5. Unset'
    BY <1>1, <1>3, <2>2 DEF BInv, Unset
  <2>6. Gained' /\ BusBacked'
    BY <1>1, <2>2 DEF BInv, Gained, Holds, BusBacked
  <2>7. Grpc'
    BY <1>1, <2>1, <2>2 DEF BInv, Grpc
  <2> QED
    BY <2>3, <2>4, <2>5, <2>6, <2>7 DEF BInv
<1> QED
  BY <1>2, <1>3

LEMMA EsTopicKeeps ==
    ASSUME BusTypes, BInv, NEW c \in Call, EsTopic(c) PROVE BInv'
<1>1. /\ Active(c) /\ at[c] = "esTopic" /\ UNCHANGED <<ended, flag, of, stoppers>>
      /\ ~flag["bus"] /\ (c \notin ended => Holds("es", c))
  BY DEF EsTopic, Active, Climbing, BInv, Unset, Gained
<1>2. PICK stage \in {"ms", "failed"} : at' = [at EXCEPT ![c] = stage]
  BY DEF EsTopic, Goes
<1> QED
  BY <1>1, <1>2, Moved DEF CallStage, Climbing

\* Run of the message or the service server, which fails if it runs.
LEMMA RunServerKeeps ==
    ASSUME BusTypes, BInv, NEW c \in Call, NEW s \in {"ms", "s2"},
           NEW stage \in {"s2", "busSet"}, RunServer(c, s, s, stage),
           (s = "ms" /\ stage = "s2") \/ (s = "s2" /\ stage = "busSet")
    PROVE  BInv'
<1>1. at[c] = s /\ Active(c) /\ UNCHANGED ended
  BY DEF RunServer, Active, Climbing
<1>2. CASE flag[s]
  <2>1. UNCHANGED <<flag, of, stoppers>> /\ at' = [at EXCEPT ![c] = "failed"]
    BY <1>2 DEF RunServer, Goes
  <2> QED
    BY <1>1, <2>1, Moved DEF CallStage, Climbing
<1>3. CASE ~flag[s]
  <2>1. /\ at' = [at EXCEPT ![c] = stage]
        /\ flag' = [flag EXCEPT ![s] = TRUE]
        /\ of' = [of EXCEPT ![s] = c]
        /\ stoppers' = stoppers \cup {<<s, c>>}
    BY <1>3 DEF RunServer, Goes
  <2> QED
    BY <1>1, <1>3, <2>1, Set
<1> QED
  BY <1>2, <1>3

LEMMA BusSetKeeps ==
    ASSUME BusTypes, BInv, NEW c \in Call, BusSet(c) PROVE BInv'
<1>1. /\ at[c] = "busSet" /\ Active(c) /\ UNCHANGED ended
      /\ flag' = [flag EXCEPT !["bus"] = TRUE]
      /\ of' = [of EXCEPT !["bus"] = c]
      /\ stoppers' = stoppers \cup {<<"bus", c>>}
  BY DEF BusSet, Active, Climbing
<1>2. PICK stage \in {"returned", "listen"} : at' = [at EXCEPT ![c] = stage]
  BY DEF BusSet, Goes
<1>3. /\ \A d \in Call : at'[d] = IF d = c THEN stage ELSE at[d]
      /\ \A t \in Server : flag'[t] = IF t = "bus" THEN TRUE ELSE flag[t]
      /\ \A t \in Server : of'[t] = IF t = "bus" THEN c ELSE of[t]
      /\ {"es", "ms", "s2", "bus"} \subseteq Server
  BY <1>1, <1>2 DEF BusTypes, Server
<1>4. ~flag["bus"]
  BY <1>1 DEF BInv, Unset, Climbing
<1>5. \A d \in Call : d # c => ~Active(d)
  BY <1>1 DEF BInv, AtMostOne
<1>6. AtMostOne' /\ Grpc' /\ Unset'
  BY <1>1, <1>3, <1>5 DEF BInv, AtMostOne, Grpc, Unset, Active, Climbing
<1>7. Owned'
  <2>1. ASSUME NEW t \in {"ms", "s2", "bus"}, NEW d \in Call, <<t, d>> \in stoppers'
        PROVE  flag'[t] /\ of'[t] = d
    <3>1. CASE <<t, d>> \in stoppers
      <4>1. flag[t] /\ of[t] = d
        BY <3>1 DEF BInv, Owned
      <4>2. t # "bus"
        BY <1>4, <4>1
      <4> QED
        BY <1>3, <4>1, <4>2
    <3>2. CASE t = "bus" /\ d = c
      BY <1>3, <3>2
    <3> QED
      BY <1>1, <2>1, <3>1, <3>2
  <2>2. ASSUME NEW d \in Call, <<"es", d>> \in stoppers'
        PROVE  (flag'["es"] /\ of'["es"] = d) \/ at'[d] = "esSet"
    <3>1. (flag["es"] /\ of["es"] = d) \/ at[d] = "esSet"
      BY <1>1, <2>2 DEF BInv, Owned
    <3>2. at[c] # "esSet"
      BY <1>1
    <3> QED
      BY <1>3, <3>1, <3>2
  <2> QED
    BY <2>1, <2>2 DEF Owned
<1>8. Gained'
  BY <1>1, <1>3, <1>5 DEF Gained, Active, Climbing
<1>9. BusBacked'
  <2>1. c \notin ended => Holds("es", c) /\ Holds("ms", c) /\ Holds("s2", c)
    BY <1>1 DEF BInv, Gained
  <2> QED
    BY <1>1, <1>3, <2>1 DEF BusBacked, Holds
<1> QED
  BY <1>6, <1>7, <1>8, <1>9 DEF BInv

\* The flag of the gRPC handler is no matter of the bus's.
LEMMA HandlerKeeps ==
    ASSUME BusTypes, BInv, NEW c \in Call, Listen(c) \/ GrpcReturns(c) PROVE BInv'
<1>1. PICK stage \in {"failed", "serving", "returned"} :
          /\ at' = [at EXCEPT ![c] = stage]
          /\ \/ stoppers' = stoppers /\ stage # "serving"
             \/ stoppers' = stoppers \cup {<<"grpc", c>>} /\ stage = "serving"
  <2>1. CASE GrpcReturns(c)
    BY <2>1 DEF GrpcReturns, Goes
  <2>2. CASE Listen(c)
    <3>1. CASE Goes(c, "failed") /\ UNCHANGED <<flag, of, stoppers>>
      BY <3>1 DEF Goes
    <3>2. CASE Goes(c, "serving") /\ stoppers' = stoppers \cup {<<"grpc", c>>}
      BY <3>2 DEF Goes
    <3> QED
      BY <2>2, <3>1, <3>2 DEF Listen
  <2> QED
    BY <2>1, <2>2
<1>2. at[c] \in {"listen", "stopped"} /\ UNCHANGED ended
  BY DEF Listen, GrpcReturns
<1>3. \A s \in Server \ {"grpc"} : flag'[s] = flag[s] /\ of'[s] = of[s]
  BY DEF Listen, GrpcReturns, BusTypes
<1>4. /\ \A d \in Call : at'[d] = IF d = c THEN stage ELSE at[d]
      /\ {"es", "ms", "s2", "bus"} \subseteq Server \ {"grpc"}
  BY <1>1 DEF BusTypes, Server
<1>5. AtMostOne' /\ Grpc'
  BY <1>1, <1>2, <1>4 DEF BInv, AtMostOne, Grpc, Active, Climbing
<1>6. Unset'
  BY <1>3, <1>4 DEF BInv, Unset, Climbing
<1>7. Owned'
  <2>1. \A s \in {"es", "ms", "s2", "bus"}, d \in Call :
            <<s, d>> \in stoppers' => <<s, d>> \in stoppers
    BY <1>1
  <2>2. \A d \in Call : at[d] = "esSet" => at'[d] = "esSet"
    BY <1>2, <1>4
  <2> QED
    BY <1>3, <1>4, <2>1, <2>2 DEF BInv, Owned
<1>8. Gained' /\ BusBacked'
  BY <1>2, <1>3, <1>4 DEF BInv, Gained, Holds, BusBacked
<1> QED
  BY <1>5, <1>6, <1>7, <1>8 DEF BInv

LEMMA RunStepKeeps ==
    ASSUME BusTypes, BInv, NEW c \in Call, RunStep(c) PROVE BInv'
<1>1. CASE BusCheck(c)
  <2>1. PICK stage \in {"failed", "es"} :
            at' = [at EXCEPT ![c] = stage] /\ (stage = "es" => ~flag["bus"])
    BY <1>1 DEF BusCheck, Goes
  <2>2. at[c] = "bus" /\ Active(c) /\ UNCHANGED <<ended, flag, of, stoppers>>
    BY <1>1 DEF BusCheck, Active, Climbing
  <2> QED
    BY <2>1, <2>2, Moved DEF CallStage, Climbing
<1>2. CASE EsSet(c)
  <2>1. /\ at[c] = "esSet" /\ at' = [at EXCEPT ![c] = "esTopic"]
        /\ flag' = [flag EXCEPT !["es"] = TRUE] /\ of' = [of EXCEPT !["es"] = c]
        /\ UNCHANGED <<ended, stoppers>>
    BY <1>2 DEF EsSet, Goes
  <2>2. ~flag["es"]
    BY <2>1 DEF BInv, Unset
  <2> QED
    BY <2>1, <2>2, Set
<1>3. CASE MsRun(c)
  <2>1. RunServer(c, "ms", "ms", "s2")
    BY <1>3 DEF MsRun
  <2> QED
    BY <2>1, RunServerKeeps
<1>4. CASE S2Run(c)
  <2>1. RunServer(c, "s2", "s2", "busSet")
    BY <1>4 DEF S2Run
  <2> QED
    BY <2>1, RunServerKeeps
<1> QED
  BY <1>1, <1>2, <1>3, <1>4, EsCheckKeeps, EsTopicKeeps, BusSetKeeps, HandlerKeeps
  DEF RunStep

LEMMA BInvNext ==
    ASSUME ~MayOverlap, Types, BInv, [Next]_vars PROVE BInv'
<1>1. BusTypes
  BY DEF Types
<1>2. ASSUME UNCHANGED bus PROVE BInv'
  BY <1>2 DEF BInv, AtMostOne, Active, Grpc, Owned, Unset, Gained, Holds, BusBacked
<1>3. ASSUME NEW c \in Call, Cancel(c) PROVE BInv'
  BY <1>3 DEF Cancel, BInv, AtMostOne, Active, Grpc, Owned, Unset, Gained, Holds,
              BusBacked
<1>4. ASSUME NEW q \in Request, Ask(q) \/ RequestStep(q) \/ AnswerEs(q) \/ HostStep(q)
      PROVE  BInv'
  BY <1>2, <1>4 DEF Ask, RequestStep, HostStep, Look, Create, RunIfNotRunned,
                    AnswerEs, HostStarts, HostListens, HostStops, HostReturns
<1>5. CASE UNCHANGED vars
  BY <1>2, <1>5 DEF vars
<1> QED
  BY <1>1, <1>3, <1>4, <1>5, BeginKeeps, RunStepKeeps, Stopped DEF Next

\* A bus that says it runs, and whose context lives, has its three servers
\* running under that context, if calls of Run do not overlap.  Stoppers that
\* are late for the next run are none of its servers'.
THEOREM BusIsBacked == ASSUME BusAssumption, ~MayOverlap PROVE Spec => []BusBacked
<1>1. Init => Types /\ BInv
  <2>1. Init => BInv
    BY DEF Init, BInv, AtMostOne, Active, Climbing, Grpc, Owned, Unset, Gained,
           BusBacked, Server
  <2> QED
    BY <2>1, TypesInit
<1>2. Types /\ BInv /\ [Next]_vars => (Types /\ BInv)'
  BY TypesNext, BInvNext
<1>3. BInv => BusBacked
  BY DEF BInv
<1> QED
  BY <1>1, <1>2, <1>3, PTL DEF Spec

=============================================================================
