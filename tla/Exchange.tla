------------------------------ MODULE Exchange ------------------------------
(***************************************************************************)
(* Those who use a message server: executions of the service for reading   *)
(* messages (s2/services.go), its wait for a queue (ms/mserver.go), and    *)
(* the gRPC calls GetMessages and SendMessages (api/grpc/msgrpc).          *)
(*                                                                         *)
(* A GetMessages call of MessageServer is made by an execution or by a     *)
(* gRPC call, and is named after it; GetSend is its caller receiving.  The *)
(* checks of arguments, which come before any state is read, are left out. *)
(***************************************************************************)
EXTENDS MessageServer

CONSTANTS
    Execution,  \* the gets made by executions of the service, others are gRPC's
    Waits,      \* executions with waitForQueue
    Channel,    \* channels for the results
    Into,       \* execution -> its mesCh, one for all executions of a service
    Request,    \* calls of SendMessages
    Ending,     \* bound: the executions and calls whose context may end
    Msgs        \* request -> its messages, a sequence of batches of one

RpcGet == Get \ Execution

ASSUME ExchangeAssumption ==
    /\ Execution \subseteq Get
    /\ Waits \subseteq Execution
    /\ Into \in [Execution -> Channel]
    /\ Request \cap Get = {}
    /\ Msgs \in [Request -> Seq(Batch)]
    /\ \A b \in Batch : Size[b] = 1

VARIABLES
    exec,       \* execution -> where it is
    given,      \* execution -> how many messages its caller has received
    closed,     \* channels closed
    left,       \* channels nobody receives from any more
    rpc,        \* gRPC get -> where it is
    req,        \* request -> where it is, its position, the positions reported
    over,       \* contexts of executions and gRPC calls that have ended
    panicked    \* the program died sending to, or closing, a closed channel

exchange == <<exec, given, closed, left, rpc, req, over, panicked>>
xvars == <<vars, exchange>>

Enters(e, where) == exec' = [exec EXCEPT ![e] = where]

-----------------------------------------------------------------------------
(* Executions of the service.                                              *)

\* (Reading the flag and then the map has the outcomes of reading both at once.)
HasQueue(q) == runned /\ queues[q] # 0

ExecLook(e) ==
    /\ exec[e] = "new"
    /\ Enters(e, IF e \in Waits \/ HasQueue(Source[e]) THEN "again" ELSE "failed")
    /\ UNCHANGED <<vars, given, closed, left, rpc, req, over, panicked>>

ExecLookAgain(e) ==
    /\ exec[e] = "again"
    /\ Enters(e, IF HasQueue(Source[e]) THEN "read" ELSE "await")
    /\ UNCHANGED <<vars, given, closed, left, rpc, req, over, panicked>>

WaitForQueue(e) ==
    /\ exec[e] = "await"
    /\ Enters(e, IF runned THEN "poll" ELSE "failed")
    /\ UNCHANGED <<vars, given, closed, left, rpc, req, over, panicked>>

\* Each second the queue is looked for, until the time is up.
WaitFinds(e) ==
    /\ exec[e] = "poll"
    /\ HasQueue(Source[e])
    /\ Enters(e, "read")
    /\ UNCHANGED <<vars, given, closed, left, rpc, req, over, panicked>>

WaitTimesOut(e) ==
    /\ exec[e] = "poll"
    /\ Enters(e, "failed")
    /\ UNCHANGED <<vars, given, closed, left, rpc, req, over, panicked>>

\* For a minMessagesNumber above zero the loop's condition is false before
\* anything is read.
ExecReads(e) ==
    /\ exec[e] = "read"
    /\ \/ Enters(e, "handing") /\ UNCHANGED vars
       \/ (e \in over \/ ~runned) /\ Enters(e, "failed") /\ UNCHANGED vars
       \/ e \notin over /\ Enters(e, "ranging") /\ GetCheck(e)
    /\ UNCHANGED <<given, closed, left, rpc, req, over, panicked>>

\* It ranges over the messages without a look at its context.
ExecRanges(e) ==
    /\ exec[e] = "ranging"
    /\ \/ Getter(e) /\ UNCHANGED exec
       \/ /\ get[e].at \in {"closed", "failed"}
          /\ Enters(e, IF get[e].at = "closed" THEN "handing" ELSE "failed")
          /\ UNCHANGED vars
    /\ UNCHANGED <<given, closed, left, rpc, req, over, panicked>>

Collected(e) == get[e].got - get[e].from

\* Mutated form: one message more is taken than there are.
HandOffersOneMore(e) ==
    /\ exec[e] = "handing"
    /\ given[e] <= Collected(e)
    /\ e \notin over
    /\ Enters(e, "offering")
    /\ UNCHANGED <<vars, given, closed, left, rpc, req, over, panicked>>

\* The goroutine that hands the messages out looks at the context ...
HandOffers(e) ==
    /\ exec[e] = "handing"
    /\ given[e] < Collected(e)
    /\ e \notin over
    /\ Enters(e, "offering")
    /\ UNCHANGED <<vars, given, closed, left, rpc, req, over, panicked>>

\* ... and then sends, with nothing else to wake it.
HandGives(e) ==
    /\ exec[e] = "offering"
    /\ IF Into[e] \in closed
       THEN panicked' = TRUE /\ UNCHANGED <<exec, given>>
       ELSE /\ Into[e] \notin left
            /\ Enters(e, "handing")
            /\ given' = [given EXCEPT ![e] = @ + 1]
            /\ UNCHANGED panicked
    /\ UNCHANGED <<vars, closed, left, rpc, req, over>>

\* Mutated form: no return after the channel is closed on ctx.Done.
HandClosesOn(e) ==
    /\ exec[e] = "handing"
    /\ given[e] = Collected(e) \/ e \in over
    /\ panicked' = (Into[e] \in closed)
    /\ closed' = closed \cup {Into[e]}
    /\ exec' = [exec EXCEPT ![e] = IF e \in over THEN @ ELSE "closed"]
    /\ UNCHANGED <<vars, given, left, rpc, req, over>>

\* Mutated form: the loop ends before the last message.
HandClosesEarly(e) ==
    /\ exec[e] = "handing"
    /\ given[e] + 1 >= Collected(e) \/ e \in over
    /\ panicked' = (Into[e] \in closed)
    /\ closed' = closed \cup {Into[e]}
    /\ Enters(e, "closed")
    /\ UNCHANGED <<vars, given, left, rpc, req, over>>

\* Mutated form: the channel is closed only if something was sent.
HandClosesIfAny(e) ==
    /\ exec[e] = "handing"
    /\ (given[e] = Collected(e) /\ given[e] > 0) \/ e \in over
    /\ panicked' = (Into[e] \in closed)
    /\ closed' = closed \cup {Into[e]}
    /\ Enters(e, "closed")
    /\ UNCHANGED <<vars, given, left, rpc, req, over>>

HandCloses(e) ==
    /\ exec[e] = "handing"
    /\ given[e] = Collected(e) \/ e \in over
    /\ panicked' = (Into[e] \in closed)
    /\ closed' = closed \cup {Into[e]}
    /\ Enters(e, "closed")
    /\ UNCHANGED <<vars, given, left, rpc, req, over>>

\* The caller of a service stops receiving.
Leave(ch) ==
    /\ ch \notin left
    /\ \E e \in Execution : Into[e] = ch /\ exec[e] \in {"handing", "offering"}
    /\ left' = left \cup {ch}
    /\ UNCHANGED <<vars, exec, given, closed, rpc, req, over, panicked>>

-----------------------------------------------------------------------------
(* The gRPC calls.                                                         *)

RpcCall(g) ==
    /\ rpc[g] = "new"
    /\ rpc' = [rpc EXCEPT ![g] = IF runned THEN "called" ELSE "failed"]
    /\ IF runned THEN GetCheck(g) ELSE UNCHANGED vars
    /\ UNCHANGED <<exec, given, closed, left, req, over, panicked>>

\* A call that gave up receives no more.
RpcGetter(g) ==
    /\ \/ rpc[g] = "called" /\ Getter(g)
       \/ rpc[g] = "gaveup" /\ (GetClose(g) \/ GetQuit(g))
    /\ UNCHANGED exchange

RpcEnds(g, where) ==
    /\ rpc[g] = "called"
    /\ rpc' = [rpc EXCEPT ![g] = where]
    /\ UNCHANGED <<vars, exec, given, closed, left, req, over, panicked>>

\* Mutated form: the loop waits for the channel alone.
RpcGivesUpIfClosed(g) ==
    get[g].at = "closed" /\ g \in over /\ RpcEnds(g, "gaveup")

RpcGivesUp(g) ==
    get[g].at \in {"sending", "closed", "abandoned"} /\ g \in over /\ RpcEnds(g, "gaveup")

RpcAnswers(g) ==
    \/ get[g].at = "closed" /\ RpcEnds(g, "answered")
    \/ get[g].at = "failed" /\ RpcEnds(g, "failed")

\* SendMessages puts its messages one by one, each with a goroutine of its own.
\* A message that cannot be made is passed over; one that cannot be put is
\* reported as the others are.
SendNext(s) ==
    LET n == req[s].pos + 1
        b == Msgs[s][n]
    IN
    /\ req[s].at = "sending"
    /\ s \notin over
    /\ n <= Len(Msgs[s])
    /\ \/ /\ PutMessages(b)
          /\ req' = [req EXCEPT ![s].pos = n, ![s].reported = @ \cup {n}]
       \/ /\ ~runned \/ (queues[Target[b]] # 0 /\ ObjectOf(Target[b]) \notin active)
          /\ req' = [req EXCEPT ![s].pos = n, ![s].reported = @ \cup {n}]
          /\ UNCHANGED vars
       \/ req' = [req EXCEPT ![s].pos = n] /\ UNCHANGED vars
    /\ UNCHANGED <<exec, given, closed, left, rpc, over, panicked>>

SendAnswers(s) ==
    /\ req[s].at = "sending"
    /\ req[s].pos = Len(Msgs[s]) \/ s \in over
    /\ req' = [req EXCEPT ![s].at = IF req[s].pos = Len(Msgs[s]) THEN "answered"
                                                                 ELSE "gaveup"]
    /\ UNCHANGED <<vars, exec, given, closed, left, rpc, over, panicked>>

Began(c) ==
    \/ c \in Execution /\ exec[c] \notin {"new", "failed", "closed"}
    \/ c \in RpcGet /\ rpc[c] = "called"
    \/ c \in Request /\ req[c].at = "sending"

\* The context of an execution or of a gRPC call ends, while it matters.
ContextEnds(c) ==
    /\ Began(c)
    /\ c \in Ending \ over
    /\ over' = over \cup {c}
    /\ UNCHANGED <<vars, exec, given, closed, left, rpc, req, panicked>>

-----------------------------------------------------------------------------
ExchangeInit ==
    /\ Init
    /\ exec = [e \in Execution |-> "new"]
    /\ given = [e \in Execution |-> 0]
    /\ closed = {}
    /\ left = {}
    /\ rpc = [g \in RpcGet |-> "new"]
    /\ req = [s \in Request |-> [at |-> "sending", pos |-> 0, reported |-> {}]]
    /\ over = {}
    /\ panicked = FALSE

Executes(e) ==
    \/ ExecLookAgain(e) \/ WaitForQueue(e) \/ WaitFinds(e) \/ WaitTimesOut(e)
    \/ ExecReads(e) \/ ExecRanges(e) \/ HandOffers(e) \/ HandGives(e) \/ HandCloses(e)

Answers(g) == RpcGetter(g) \/ RpcGivesUp(g) \/ RpcAnswers(g)
Sends(s) == SendNext(s) \/ SendAnswers(s)

ServerStep ==
    /\ \/ \E w \in Runner : RunCheck(w) \/ RunSet(w)
       \/ \E r \in Run : Cancel(r) \/ StopperFires(r)
       \/ \E b \in Batch : Putter(b)
       \/ \E o \in QueueObject : QueueStops(o)
    /\ UNCHANGED exchange

ExchangeNext ==
    /\ ~panicked
    /\ \/ ServerStep
       \/ \E e \in Execution : ExecLook(e) \/ Executes(e)
       \/ \E ch \in Channel : Leave(ch)
       \/ \E g \in RpcGet : RpcCall(g) \/ Answers(g)
       \/ \E s \in Request : Sends(s)
       \/ \E c \in Get \cup Request : ContextEnds(c)

ExchangeSpec == ExchangeInit /\ [][ExchangeNext]_xvars

\* The goroutines of executions and calls run, the server's as in FairSpec;
\* callers may leave, and no context has to end.
ExchangeFairSpec ==
    /\ ExchangeSpec
    /\ \A e \in Execution : WF_xvars(~panicked /\ Executes(e))
    /\ \A g \in RpcGet : WF_xvars(~panicked /\ Answers(g))
    /\ \A b \in Batch : WF_xvars(~panicked /\ Putter(b) /\ UNCHANGED exchange)

-----------------------------------------------------------------------------
(* Properties.                                                             *)

\* Each variable has its type.
ExchangeTypeOK ==
    /\ TypeOK
    /\ exec \in [Execution -> {"new", "again", "await", "poll", "read", "ranging",
                               "handing", "offering", "closed", "failed"}]
    /\ given \in [Execution -> Nat]
    /\ \A e \in Execution : given[e] <= Collected(e)
    /\ closed \cup left \subseteq Channel
    /\ rpc \in [RpcGet -> {"new", "called", "answered", "gaveup", "failed"}]
    /\ \A s \in Request :
          /\ req[s].at \in {"sending", "answered", "gaveup"}
          /\ req[s].pos \in 0..Len(Msgs[s])
          /\ req[s].reported \subseteq 1..req[s].pos
    /\ over \subseteq Get \cup Request
    /\ panicked \in BOOLEAN

\* A result channel is closed by one execution, and nothing is sent to it
\* afterwards: only a second execution of the same service makes it panic.
ClosedOnce ==
    panicked => \E e, f \in Execution :
        /\ e # f /\ Into[e] = Into[f]
        /\ exec[e] \in {"handing", "offering", "closed"}
        /\ exec[f] \in {"handing", "offering", "closed"}

\* The n-th message of the queue, read by g, is given to g's caller or will be.
ReachesCaller(g, n) ==
    \/ g \in Execution /\ exec[g] \in {"ranging", "handing", "offering"}
    \/ g \in Execution /\ n <= get[g].from + given[g]
    \/ g \in RpcGet /\ rpc[g] \in {"called", "answered"}

\* README of ms "only new messages would be returned": what one receiver is
\* given, by executions and gRPC calls together, leaves no gap behind, except
\* where a context has ended: of a queue that is served, all that lies behind
\* the receiver's cursor has been given to a caller or still is on its way.
NothingLost ==
    \A o \in QueueObject, c \in Receiver :
        \A n \in 1..cursor[o][c] : \E g \in Get :
            /\ HasRead(g) /\ Object(g) = o /\ Reader[g] = c /\ n \in Window(g)
            /\ \/ g \in over \/ get[g].ctx \in cancelled \/ panicked
               \/ get[g].at # "abandoned" /\ ReachesCaller(g, n)

\* An execution returns and a gRPC call answers.  When the message server is
\* stopped while it hands messages out, the channel stays open: the gRPC call
\* then ends with its context, and the execution not at all.
CallsEnd ==
    /\ \A e \in Execution :
          exec[e] = "again" ~>
              \/ exec[e] \in {"handing", "offering", "closed", "failed"}
              \/ get[e].at = "abandoned"
              \/ panicked
    /\ \A g \in RpcGet :
          rpc[g] = "called" ~>
              \/ rpc[g] \in {"answered", "gaveup", "failed"}
              \/ get[g].at = "abandoned" /\ g \notin over
              \/ panicked

\* Once an execution returned without an error its result channel is closed, if
\* its caller keeps receiving; the end of the context does not unblock it.
ResultsClose ==
    \A e \in Execution :
        exec[e] = "handing" ~> (Into[e] \in closed \cup left \/ panicked)

=============================================================================
