----------------------------- MODULE ServiceBus -----------------------------
(***************************************************************************)
(* The service bus and its gRPC handler: srvbus.go, api/grpc/sbgrpc and    *)
(* how api/grpc/msgrpc and api/grpc/esgrpc run.                            *)
(*                                                                         *)
(* ServiceBus.Run starts the event, the message and the service server one *)
(* by one; the handler's Run starts the bus if it does not run, and then   *)
(* serves requests for the gRPC hosts of its servers, which it creates and *)
(* runs when they are first asked for.  Each call of Run comes with a      *)
(* context of its own, named after the call.                               *)
(*                                                                         *)
(* The three servers are their flags and stoppers here; TopicTree,         *)
(* MessageServer and ServiceServer have their insides.                     *)
(***************************************************************************)
EXTENDS Integers, FiniteSets

CONSTANTS
    BusCall,    \* calls of ServiceBus.Run by the program
    GrpcCall,   \* calls of SrvBus.Run
    Cancellable,\* bound: the calls whose context is ever cancelled
    MayOverlap, \* may a call of Run begin before the one before it is through?
    Request,    \* calls of GetMessageServer and GetEventServer
    Kinds,      \* request -> which of "ms" and "es" it may ask for
    None

Call == BusCall \cup GrpcCall

ASSUME BusAssumption ==
    /\ BusCall \cap GrpcCall = {}
    /\ Cancellable \subseteq Call
    /\ MayOverlap \in BOOLEAN
    /\ Kinds \in [Request -> (SUBSET {"ms", "es"}) \ {{}}]
    /\ None \notin Call \cup Request

Server == {"es", "ms", "s2", "bus", "grpc"}

VARIABLES
    at,         \* call -> where it is
    ended,      \* cancelled contexts
    flag,       \* server -> runned
    of,         \* server -> the call whose context it was given last
    stoppers,   \* <<server, call>>: goroutines that wait for the context's end
    hasTopic,   \* the event server has its default topic
    req,        \* request -> where it is
    kind,       \* request -> the server it asks for
    handler,    \* SrvBus.mSrv and eSrv: the request that created them, or None
    up,         \* instances whose runned is set (named as in handler)
    host,       \* request -> where the host's Run it started is
    runs,       \* request -> the instance that Run is of
    under,      \* request -> the context that Run was given
    crashed     \* the program has died

bus == <<at, ended, flag, of, stoppers, hasTopic>>
calls == <<req, kind>>
hosts == <<up, host, runs, under>>
vars == <<bus, calls, handler, hosts, crashed>>

Goes(c, where) == at' = [at EXCEPT ![c] = where]

Through == {"new", "failed", "returned", "serving"}

-----------------------------------------------------------------------------
(* Run.                                                                    *)

\* SrvBus.Run starts the bus unless it runs.
Begin(c) ==
    /\ at[c] = "new"
    /\ MayOverlap \/ \A d \in Call : at[d] \in Through
    /\ Goes(c, IF c \in BusCall THEN "bus"
               ELSE IF flag["grpc"] THEN "failed"
               ELSE IF flag["bus"] THEN "listen" ELSE "bus")
    /\ UNCHANGED <<ended, flag, of, stoppers, hasTopic, calls, handler, hosts, crashed>>

\* Mutated form: the flag is set before the servers run.
BusCheckSets(c) ==
    /\ at[c] = "bus"
    /\ Goes(c, IF flag["bus"] THEN "failed" ELSE "es")
    /\ flag' = [flag EXCEPT !["bus"] = TRUE]
    /\ of' = [of EXCEPT !["bus"] = IF flag["bus"] THEN @ ELSE c]
    /\ UNCHANGED <<ended, stoppers, hasTopic, calls, handler, hosts, crashed>>

BusCheck(c) ==
    /\ at[c] = "bus"
    /\ Goes(c, IF flag["bus"] THEN "failed" ELSE "es")
    /\ UNCHANGED <<ended, flag, of, stoppers, hasTopic, calls, handler, hosts, crashed>>

\* EventServer.Run starts its stopper before it sets anything ...
EsCheck(c) ==
    /\ at[c] = "es"
    /\ Goes(c, IF flag["es"] THEN "failed" ELSE "esSet")
    /\ stoppers' = IF flag["es"] THEN stoppers ELSE stoppers \cup {<<"es", c>>}
    /\ UNCHANGED <<ended, flag, of, hasTopic, calls, handler, hosts, crashed>>

EsSet(c) ==
    /\ at[c] = "esSet"
    /\ Goes(c, "esTopic")
    /\ flag' = [flag EXCEPT !["es"] = TRUE]
    /\ of' = [of EXCEPT !["es"] = c]
    /\ UNCHANGED <<ended, stoppers, hasTopic, calls, handler, hosts, crashed>>

\* ... and fails if it was stopped meanwhile, or has the topic from an earlier
\* run, but goes on running.
EsTopic(c) ==
    /\ at[c] = "esTopic"
    /\ IF flag["es"] /\ ~hasTopic
       THEN hasTopic' = TRUE /\ Goes(c, "ms")
       ELSE Goes(c, "failed") /\ UNCHANGED hasTopic
    /\ UNCHANGED <<ended, flag, of, stoppers, calls, handler, hosts, crashed>>

\* The Run of the message or of the service server.  Its check and what it sets
\* are apart, which only calls that overlap can tell (see MessageServer).
RunServer(c, server, where, next) ==
    /\ at[c] = where
    /\ IF flag[server]
       THEN Goes(c, "failed") /\ UNCHANGED <<flag, of, stoppers>>
       ELSE /\ Goes(c, next)
            /\ flag' = [flag EXCEPT ![server] = TRUE]
            /\ of' = [of EXCEPT ![server] = c]
            /\ stoppers' = stoppers \cup {<<server, c>>}
    /\ UNCHANGED <<ended, hasTopic, calls, handler, hosts, crashed>>

MsRun(c) == RunServer(c, "ms", "ms", "s2")
S2Run(c) == RunServer(c, "s2", "s2", "busSet")

\* Mutated form: there is no stopper.
BusSetOnly(c) ==
    /\ at[c] = "busSet"
    /\ Goes(c, IF c \in BusCall THEN "returned" ELSE "listen")
    /\ flag' = [flag EXCEPT !["bus"] = TRUE]
    /\ of' = [of EXCEPT !["bus"] = c]
    /\ UNCHANGED <<ended, stoppers, hasTopic, calls, handler, hosts, crashed>>

BusSet(c) ==
    /\ at[c] = "busSet"
    /\ Goes(c, IF c \in BusCall THEN "returned" ELSE "listen")
    /\ flag' = [flag EXCEPT !["bus"] = TRUE]
    /\ of' = [of EXCEPT !["bus"] = c]
    /\ stoppers' = stoppers \cup {<<"bus", c>>}
    /\ UNCHANGED <<ended, hasTopic, calls, handler, hosts, crashed>>

\* The port may be taken; then the bus runs on.
Listen(c) ==
    /\ at[c] = "listen"
    /\ \/ Goes(c, "failed") /\ UNCHANGED <<flag, of, stoppers>>
       \/ /\ \A d \in GrpcCall : at[d] # "serving"
          /\ Goes(c, "serving")
          /\ flag' = [flag EXCEPT !["grpc"] = TRUE]
          /\ of' = [of EXCEPT !["grpc"] = c]
          /\ stoppers' = stoppers \cup {<<"grpc", c>>}
    /\ UNCHANGED <<ended, hasTopic, calls, handler, hosts, crashed>>

Cancel(c) ==
    /\ c \in Cancellable \ ended
    /\ at[c] \notin {"new", "failed"} \/ \E s \in Server : of[s] = c
    /\ ended' = ended \cup {c}
    /\ UNCHANGED <<at, flag, of, stoppers, hasTopic, calls, handler, hosts, crashed>>

\* Stoppers clear the flag of whichever run is on; that of the gRPC handler
\* stops the server it was started for, and Run clears the flag.
StopperFires(s, c) ==
    /\ <<s, c>> \in stoppers
    /\ c \in ended
    /\ stoppers' = stoppers \ {<<s, c>>}
    /\ IF s = "grpc" THEN Goes(c, "stopped") /\ UNCHANGED flag
       ELSE flag' = [flag EXCEPT ![s] = FALSE] /\ UNCHANGED at
    /\ UNCHANGED <<ended, of, hasTopic, calls, handler, hosts, crashed>>

GrpcReturns(c) ==
    /\ at[c] = "stopped"
    /\ Goes(c, "returned")
    /\ flag' = [flag EXCEPT !["grpc"] = FALSE]
    /\ UNCHANGED <<ended, of, stoppers, hasTopic, calls, handler, hosts, crashed>>

-----------------------------------------------------------------------------
(* GetMessageServer and GetEventServer.                                    *)

Moves(q, where) == req' = [req EXCEPT ![q] = where]

Ask(q) ==
    /\ req[q] = "new"
    /\ \E c \in GrpcCall : at[c] = "serving"
    /\ Moves(q, IF flag["grpc"] THEN "look" ELSE "refused")
    /\ \E k \in Kinds[q] : kind' = [kind EXCEPT ![q] = k]
    /\ UNCHANGED <<bus, handler, hosts, crashed>>

\* Mutated form: no host is created.
LookCreatesNone(q) ==
    /\ req[q] = "look"
    /\ Moves(q, "run")
    /\ UNCHANGED <<bus, kind, handler, hosts, crashed>>

\* Two requests may both see that there is no host ...
Look(q) ==
    /\ req[q] = "look"
    /\ Moves(q, IF handler[kind[q]] = None THEN "create" ELSE "run")
    /\ UNCHANGED <<bus, kind, handler, hosts, crashed>>

\* ... and each create one; only the flag of the bus is asked.
Create(q) ==
    /\ req[q] = "create"
    /\ IF flag["bus"]
       THEN Moves(q, "run") /\ handler' = [handler EXCEPT ![kind[q]] = q]
       ELSE Moves(q, "refused") /\ UNCHANGED handler
    /\ UNCHANGED <<bus, kind, hosts, crashed>>

\* A host that does not run is run in a goroutine.
RunIfNotRunned(q) ==
    /\ req[q] = "run"
    /\ host' = [host EXCEPT ![q] = IF handler[kind[q]] \notin up THEN "spawned" ELSE @]
    /\ Moves(q, "got")
    /\ UNCHANGED <<bus, kind, handler, up, runs, under, crashed>>

\* The answer, which has the host's port, set or not, changes nothing, except
\* that EvtServer.ID calls itself until the stack is full.  (Calls of getMsGrpc
\* and getEsGrpc that no service makes, as in sbgrpc_test.go, answer nobody.)
AnswerEs(q) ==
    /\ req[q] = "got"
    /\ kind[q] = "es"
    /\ crashed' = TRUE
    /\ UNCHANGED <<bus, calls, handler, hosts>>

-----------------------------------------------------------------------------
(* The Run of a host, in a goroutine of the request that started it.       *)

PortTaken(k) == \E p \in Request : kind[p] = k /\ host[p] = "serving"

\* The instance and the context are those of this moment, and not of the request.
HostStarts(q) ==
    LET i == handler[kind[q]] IN
    /\ host[q] = "spawned"
    /\ IF i \in up
       THEN host' = [host EXCEPT ![q] = "ended"] /\ UNCHANGED <<runs, under>>
       ELSE /\ host' = [host EXCEPT ![q] = "listen"]
            /\ runs' = [runs EXCEPT ![q] = i]
            /\ under' = [under EXCEPT ![q] = of["grpc"]]
    /\ UNCHANGED <<bus, calls, handler, up, crashed>>

\* The Run that is over leaves nothing behind.
HostOver(q, how) ==
    /\ host' = [host EXCEPT ![q] = how]
    /\ runs' = [runs EXCEPT ![q] = None]
    /\ under' = [under EXCEPT ![q] = None]

\* Mutated form: the flag is not set.
HostListensSilently(q) ==
    /\ host[q] = "listen"
    /\ \/ HostOver(q, "refused")
       \/ /\ ~PortTaken(kind[q])
          /\ host' = [host EXCEPT ![q] = "serving"]
          /\ UNCHANGED <<runs, under>>
    /\ UNCHANGED <<bus, calls, handler, up, crashed>>

\* The port may be taken, by whomever, and is while a host of the kind serves;
\* if not, host, port and flag are set.
HostListens(q) ==
    /\ host[q] = "listen"
    /\ \/ HostOver(q, "refused") /\ UNCHANGED up
       \/ /\ ~PortTaken(kind[q])
          /\ host' = [host EXCEPT ![q] = "serving"]
          /\ up' = up \cup {runs[q]}
          /\ UNCHANGED <<runs, under>>
    /\ UNCHANGED <<bus, calls, handler, crashed>>

HostStops(q) ==
    /\ host[q] = "serving"
    /\ under[q] \in ended
    /\ host' = [host EXCEPT ![q] = "stopped"]
    /\ UNCHANGED <<bus, calls, handler, up, runs, under, crashed>>

HostReturns(q) ==
    /\ host[q] = "stopped"
    /\ HostOver(q, "ended")
    /\ up' = up \ {runs[q]}
    /\ UNCHANGED <<bus, calls, handler, crashed>>

-----------------------------------------------------------------------------
Init ==
    /\ at = [c \in Call |-> "new"]
    /\ ended = {}
    /\ flag = [s \in Server |-> FALSE]
    /\ of = [s \in Server |-> None]
    /\ stoppers = {}
    /\ hasTopic = FALSE
    /\ req = [q \in Request |-> "new"]
    /\ kind = [q \in Request |-> CHOOSE k \in Kinds[q] : TRUE]
    /\ handler = [k \in {"ms", "es"} |-> None]
    /\ up = {}
    /\ host = [q \in Request |-> "none"]
    /\ runs = [q \in Request |-> None]
    /\ under = [q \in Request |-> None]
    /\ crashed = FALSE

RunStep(c) ==
    \/ BusCheck(c) \/ EsCheck(c) \/ EsSet(c) \/ EsTopic(c) \/ MsRun(c) \/ S2Run(c)
    \/ BusSet(c) \/ Listen(c) \/ GrpcReturns(c)

RequestStep(q) == Look(q) \/ Create(q) \/ RunIfNotRunned(q)
HostStep(q) == HostStarts(q) \/ HostListens(q) \/ HostStops(q) \/ HostReturns(q)

Next ==
    /\ ~crashed
    /\ \/ \E c \in Call : Begin(c) \/ RunStep(c) \/ Cancel(c)
       \/ \E s \in Server, c \in Call : StopperFires(s, c)
       \/ \E q \in Request : Ask(q) \/ RequestStep(q) \/ AnswerEs(q) \/ HostStep(q)

Spec == Init /\ [][Next]_vars

\* Every goroutine under way is scheduled; nobody has to call or to cancel.
FairSpec ==
    /\ Spec
    /\ \A c \in Call : WF_vars(~crashed /\ RunStep(c))
    /\ WF_vars(~crashed /\ \E s \in Server, c \in Call : StopperFires(s, c))
    /\ \A q \in Request : WF_vars(~crashed /\ (RequestStep(q) \/ HostStep(q)))

-----------------------------------------------------------------------------
(* Properties.                                                             *)

\* Each variable has its type.
TypeOK ==
    /\ at \in [Call -> Through \cup {"bus", "es", "esSet", "esTopic", "ms", "s2", "busSet",
                                     "listen", "stopped"}]
    /\ ended \subseteq Call
    /\ flag \in [Server -> BOOLEAN]
    /\ of \in [Server -> Call \cup {None}]
    /\ stoppers \subseteq Server \X Call
    /\ \A s \in Server, c \in Call : <<s, c>> \in stoppers => at[c] # "new"
    /\ hasTopic \in BOOLEAN
    /\ req \in [Request -> {"new", "refused", "look", "create", "run", "got"}]
    /\ \A q \in Request : kind[q] \in Kinds[q]
    /\ handler \in [{"ms", "es"} -> Request \cup {None}]
    /\ up \subseteq Request
    /\ host \in [Request -> {"none", "spawned", "listen", "refused", "serving", "stopped",
                            "ended"}]
    /\ runs \in [Request -> Request \cup {None}]
    /\ under \in [Request -> GrpcCall \cup {None}]
    /\ crashed \in BOOLEAN

\* A bus whose context lives and that says it runs has its three servers
\* running, under that context: what failed calls left behind, and stoppers
\* that have yet to fire, do not take them away.
BusBacked ==
    flag["bus"] /\ of["bus"] \notin ended =>
        \A s \in {"es", "ms", "s2"} : flag[s] /\ of[s] = of["bus"]

\* When every context has ended the bus, its message and service servers, the
\* gRPC handler and the hosts stop.  (The event server may keep its flag.)
AllStops ==
    <>[](\A c \in Call : c \in ended \/ at[c] \in {"new", "failed"}) =>
        <>[](\/ crashed
             \/ up = {} /\ \A s \in Server \ {"es"} : flag[s] => of[s] \notin ended)

\* sbgrpc.go "if there is no runned handler, it will be created and runned": the
\* instance a request finds comes up and stays up, whichever request created it or
\* runs it and whichever goroutine reads it when, unless a gRPC handler is stopped
\* or the listener of a host of the kind was refused: by someone else's port, or by
\* that of an instance which another request created meanwhile.
HandlerComesUp ==
    <>[](\A q \in Request :
            req[q] = "got" =>
                \/ handler[kind[q]] \in up
                \/ \E p \in Request : kind[p] = kind[q] /\ host[p] = "refused"
                \/ GrpcCall \cap ended # {}
                \/ crashed)

=============================================================================
