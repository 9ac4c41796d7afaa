-------------------------- MODULE Exchange_proof --------------------------
(***************************************************************************)
(* Proofs about Exchange, for every set of executions, gRPC calls and      *)
(* SendMessages calls and every instance of the message server they use:   *)
(* its steps are steps of the message server, and what is read reaches the *)
(* callers.                                                                *)
(***************************************************************************)
EXTENDS Exchange, MessageServer_proof

USE DEF server, exchange

-----------------------------------------------------------------------------
(* Exchange implements MessageServer.                                      *)

ReqState == [at : {"sending", "answered", "gaveup"}, pos : Nat, reported : SUBSET Nat]

\* What is known of a call of SendMessages.
ReqTyped ==
    /\ req \in [Request -> ReqState]
    /\ \A s \in Request : /\ req[s].pos \in 0..Len(Msgs[s])
                          /\ req[s].reported \subseteq 1..req[s].pos

LEMMA NextMessage ==
    ASSUME ExchangeAssumption, ReqTyped, NEW s \in Request, SendNext(s)
    PROVE  /\ req[s].pos \in Nat /\ req[s].reported \subseteq 1..req[s].pos
           /\ req[s].pos + 1 \in 1..Len(Msgs[s])
           /\ Msgs[s][req[s].pos + 1] \in Batch
<1>1. Msgs[s] \in Seq(Batch) /\ Len(Msgs[s]) \in Nat
  BY DEF ExchangeAssumption
<1>2. req[s].pos \in Nat /\ req[s].reported \subseteq 1..req[s].pos
  BY <1>1 DEF ReqTyped
<1>3. req[s].pos + 1 \in 1..Len(Msgs[s])
  BY <1>1, <1>2 DEF SendNext
<1> QED
  BY <1>1, <1>2, <1>3

LEMMA ReqTypedNext ==
    ASSUME ExchangeAssumption, ReqTyped, [ExchangeNext]_xvars PROVE ReqTyped'
<1>1. CASE UNCHANGED req
  BY <1>1 DEF ReqTyped
<1>2. ASSUME NEW s \in Request, SendNext(s) PROVE ReqTyped'
  <2> DEFINE n == req[s].pos + 1
  <2>1. /\ req \in [Request -> ReqState]
        /\ n \in Nat /\ n \in 0..Len(Msgs[s])
        /\ req[s].reported \subseteq 1..n /\ req[s].reported \cup {n} \subseteq 1..n
    BY <1>2, NextMessage DEF ReqTyped
  <2>2. \/ req' = [req EXCEPT ![s].pos = n, ![s].reported = @ \cup {n}]
        \/ req' = [req EXCEPT ![s].pos = n]
    BY <1>2 DEF SendNext
  <2> HIDE DEF n
  <2>3. \A t \in Request \ {s} : req'[t] = req[t]
    BY <2>1, <2>2
  <2>4. req[s] \in ReqState /\ req[s].reported \subseteq Nat
    BY <2>1 DEF ReqState
  <2>5. CASE req' = [req EXCEPT ![s].pos = n]
    BY <2>1, <2>3, <2>4, <2>5 DEF ReqTyped, ReqState
  <2>6. CASE req' = [req EXCEPT ![s].pos = n, ![s].reported = @ \cup {n}]
    <3>1. /\ req'[s].at = req[s].at /\ req'[s].pos = n
          /\ req'[s].reported = req[s].reported \cup {n}
      BY <2>1, <2>4, <2>6 DEF ReqState
    <3>2. req[s].reported \cup {n} \in SUBSET Nat
      BY <2>1, <2>4
    <3>3. req' \in [Request -> ReqState]
      BY <2>1, <2>4, <2>6, <3>2 DEF ReqState
    <3> QED
      BY <2>1, <2>3, <3>1, <3>3 DEF ReqTyped
  <2> QED
    BY <2>2, <2>5, <2>6
<1>3. ASSUME NEW s \in Request, SendAnswers(s) PROVE ReqTyped'
  BY <1>3 DEF SendAnswers, ReqTyped, ReqState
<1>4. CASE ServerStep
  BY <1>1, <1>4 DEF ServerStep
<1>5. ASSUME NEW e \in Execution, ExecLook(e) \/ Executes(e) PROVE UNCHANGED req
  BY <1>5 DEF ExecLook, Executes, ExecLookAgain, WaitForQueue, WaitFinds, WaitTimesOut,
              ExecReads, ExecRanges, HandOffers, HandGives, HandCloses
<1>6. ASSUME NEW ch \in Channel, Leave(ch) PROVE UNCHANGED req
  BY <1>6 DEF Leave
<1>7. ASSUME NEW g \in RpcGet, RpcCall(g) \/ Answers(g) PROVE UNCHANGED req
  BY <1>7 DEF RpcCall, Answers, RpcGetter, RpcGivesUp, RpcAnswers, RpcEnds
<1>8. ASSUME NEW c \in Get \cup Request, ContextEnds(c) PROVE UNCHANGED req
  BY <1>8 DEF ContextEnds
<1>9. CASE UNCHANGED xvars
  BY <1>1, <1>9 DEF xvars
<1> QED
  BY <1>1, <1>2, <1>3, <1>4, <1>5, <1>6, <1>7, <1>8, <1>9 DEF ExchangeNext, Sends

LEMMA ReqTypedInit == ASSUME ExchangeAssumption, ExchangeInit PROVE ReqTyped
<1>1. \A s \in Request : Len(Msgs[s]) \in Nat
  BY DEF ExchangeAssumption
<1>2. req = [s \in Request |-> [at |-> "sending", pos |-> 0, reported |-> {}]]
  BY DEF ExchangeInit
<1> QED
  BY <1>1, <1>2 DEF ReqTyped, ReqState

\* Whatever an execution or a call does to the server, the server does.
LEMMA ServerMoves ==
    ASSUME ExchangeAssumption, ReqTyped, [ExchangeNext]_xvars PROVE [Next]_vars
<1>1. CASE UNCHANGED vars
  BY <1>1
<1>2. CASE ServerStep
  BY <1>2 DEF ServerStep, Next
<1>3. ASSUME NEW e \in Execution, ExecReads(e) \/ ExecRanges(e) PROVE [Next]_vars
  <2>1. e \in Get
    BY DEF ExchangeAssumption
  <2> QED
    BY <1>3, <2>1 DEF ExecReads, ExecRanges, Next
<1>4. ASSUME NEW e \in Execution,
             \/ ExecLook(e) \/ ExecLookAgain(e) \/ WaitForQueue(e) \/ WaitFinds(e)
             \/ WaitTimesOut(e) \/ HandOffers(e) \/ HandGives(e) \/ HandCloses(e)
      PROVE  UNCHANGED vars
  BY <1>4 DEF ExecLook, ExecLookAgain, WaitForQueue, WaitFinds, WaitTimesOut, HandOffers,
              HandGives, HandCloses
<1>5. ASSUME NEW g \in RpcGet, RpcCall(g) \/ Answers(g) PROVE [Next]_vars
  <2>1. g \in Get
    BY DEF RpcGet
  <2>2. CASE RpcCall(g)
    BY <2>1, <2>2 DEF RpcCall, Next
  <2>3. CASE RpcGetter(g)
    BY <2>1, <2>3 DEF RpcGetter, Getter, Next
  <2>4. CASE RpcGivesUp(g) \/ RpcAnswers(g)
    BY <2>4 DEF RpcGivesUp, RpcAnswers, RpcEnds
  <2> QED
    BY <1>5, <2>2, <2>3, <2>4 DEF Answers
<1>6. ASSUME NEW s \in Request, SendNext(s) PROVE [Next]_vars
  <2>1. Msgs[s][req[s].pos + 1] \in Batch
    BY <1>6, NextMessage
  <2>2. PutMessages(Msgs[s][req[s].pos + 1]) \/ UNCHANGED vars
    BY <1>6 DEF SendNext
  <2> QED
    BY <2>1, <2>2 DEF Next
<1>7. ASSUME NEW s \in Request, SendAnswers(s) PROVE UNCHANGED vars
  BY <1>7 DEF SendAnswers
<1>8. ASSUME NEW ch \in Channel, Leave(ch) PROVE UNCHANGED vars
  BY <1>8 DEF Leave
<1>9. ASSUME NEW c \in Get \cup Request, ContextEnds(c) PROVE UNCHANGED vars
  BY <1>9 DEF ContextEnds
<1>10. CASE UNCHANGED xvars
  BY <1>10 DEF xvars
<1> QED
  BY <1>1, <1>2, <1>3, <1>4, <1>5, <1>6, <1>7, <1>8, <1>9, <1>10
  DEF ExchangeNext, Executes, Sends

\* Executions and gRPC calls use the message server as its own callers do: every
\* behaviour of Exchange is one of MessageServer.
THEOREM Implements ==
    ASSUME ServerAssumption, ExchangeAssumption PROVE ExchangeSpec => Spec
<1>1. ExchangeInit => Init /\ ReqTyped
  BY ReqTypedInit DEF ExchangeInit
<1>2. ReqTyped /\ [ExchangeNext]_xvars => ReqTyped'
  BY ReqTypedNext
<1>3. ReqTyped /\ [ExchangeNext]_xvars => [Next]_vars
  BY ServerMoves
<1> QED
  BY <1>1, <1>2, <1>3, PTL DEF ExchangeSpec, Spec

\* So the executions and calls of one receiver are never given one message twice.
THEOREM CallersReadOnce ==
    ASSUME ServerAssumption, ExchangeAssumption PROVE ExchangeSpec => []ReadOnce
BY Implements, EachIsReadOnce, PTL

\* And nothing in a queue is passed over by them.
THEOREM CallersSkipNothing ==
    ASSUME ServerAssumption, ExchangeAssumption PROVE ExchangeSpec => []NothingSkipped
BY Implements, NoneIsSkipped, PTL

-----------------------------------------------------------------------------
(* The reads of executions and calls.                                      *)

\* What is known of any read: it was closed when all had been received, and
\* abandoned only under a context that ended.
ReadFacts ==
    \A g \in Get :
        /\ get[g].from <= get[g].got
        /\ get[g].at = "closed" => get[g].got = get[g].to
        /\ get[g].at = "abandoned" => get[g].ctx \in cancelled

\* A step of one read: which it cannot be, and what it leaves.
LEMMA ReadSteps ==
    ASSUME ServerAssumption, TypeOK, ReadFacts, NEW g \in Get, GetCheck(g) \/ Getter(g)
    PROVE  /\ get[g].at \notin {"closed", "failed", "abandoned"}
           /\ get'[g].at # "new"
           /\ get'[g].from \in Nat /\ get'[g].got \in Nat
           /\ get'[g].from <= get'[g].got
           /\ get'[g].at = "closed" => get'[g].got = get'[g].to
           /\ get'[g].at = "abandoned" => get'[g].ctx \in cancelled
           /\ \A h \in Get \ {g} : get'[h] = get[h]
           /\ cancelled' = cancelled
<1>0. /\ get \in [Get -> GetState]
      /\ get[g].from \in Nat /\ get[g].got \in Nat /\ get[g].from <= get[g].got
  BY DEF TypeOK, GetState, ReadFacts
<1>1. CASE GetCheck(g)
  BY <1>0, <1>1 DEF GetCheck, GetState
<1>2. CASE GetLookup(g)
  BY <1>0, <1>2 DEF GetLookup, GetState
<1>3. CASE GetContext(g)
  BY <1>0, <1>3 DEF GetContext, GetState
<1>4. CASE GetActive(g)
  BY <1>0, <1>4 DEF GetActive, GetState
<1>5. CASE GetRead(g)
  <2>1. StartOf(g) \in Nat
    BY <1>5, ReadMovesCursor
  <2>2. /\ get[g].at = "reading"
        /\ get' = [get EXCEPT ![g].at = "sending", ![g].from = StartOf(g),
                              ![g].got = StartOf(g), ![g].to = Len(log[Object(g)])]
        /\ cancelled' = cancelled
    BY <1>5 DEF GetRead
  <2> QED
    BY <1>0, <2>1, <2>2 DEF GetState
<1>6. CASE GetSend(g)
  BY <1>0, <1>6 DEF GetSend, GetState
<1>7. CASE GetClose(g)
  BY <1>0, <1>7 DEF GetClose, GetState
<1>8. CASE GetQuit(g)
  BY <1>0, <1>8 DEF GetQuit, GetState
<1> QED
  BY <1>1, <1>2, <1>3, <1>4, <1>5, <1>6, <1>7, <1>8 DEF Getter

\* Other steps leave the reads alone.
LEMMA OthersKeepGets ==
    ASSUME [Next]_vars, \A g \in Get : ~GetCheck(g) /\ ~Getter(g)
    PROVE  get' = get /\ cancelled \subseteq cancelled'
BY DEF Next, vars, RunCheck, RunSet, Cancel, StopperFires, PutMessages, Putter, Register,
       PutterQuits, QueueStops

LEMMA ReadFactsNext ==
    ASSUME ServerAssumption, TypeOK, ReadFacts, [Next]_vars PROVE ReadFacts'
<1>1. ASSUME NEW g \in Get, GetCheck(g) \/ Getter(g) PROVE ReadFacts'
  BY <1>1, ReadSteps DEF ReadFacts
<1>2. CASE \A g \in Get : ~GetCheck(g) /\ ~Getter(g)
  BY <1>2, OthersKeepGets DEF ReadFacts
<1> QED
  BY <1>1, <1>2

-----------------------------------------------------------------------------
(* Executions, calls and the channels of results.                          *)

ExecStage == {"new", "again", "await", "poll", "read", "ranging", "handing", "offering",
              "closed", "failed"}
RpcStage == {"new", "called", "answered", "gaveup", "failed"}
Handing == {"handing", "offering", "closed"}

ExchangeTypes ==
    /\ exec \in [Execution -> ExecStage]
    /\ given \in [Execution -> Nat]
    /\ closed \cup left \subseteq Channel
    /\ rpc \in [RpcGet -> RpcStage]
    /\ over \subseteq Get \cup Request
    /\ panicked \in BOOLEAN

\* Where an execution is and where its read is go together, and it hands out no
\* more than it has received.
ExecOK(e) ==
    /\ given[e] <= Collected(e)
    /\ exec[e] \in {"new", "again", "await", "poll", "read"} => get[e].at = "new"
    /\ exec[e] \in Handing => get[e].at \in {"new", "closed"}
    /\ exec[e] = "failed" => get[e].at \in {"new", "failed"}
    /\ exec[e] \notin Handing => given[e] = 0
    /\ exec[e] = "offering" => given[e] < Collected(e)
    /\ exec[e] = "closed" => e \in over \/ given[e] = Collected(e)

RpcOK(g) ==
    /\ rpc[g] = "new" => get[g].at = "new"
    /\ rpc[g] = "failed" => get[g].at \in {"new", "failed"}
    /\ rpc[g] = "gaveup" => g \in over

\* A closed channel was closed by an execution, and the program died of nothing
\* else but a second one.
ClosedBy ==
    \A ch \in closed : \E e \in Execution : Into[e] = ch /\ exec[e] = "closed"

AllOK == (\A e \in Execution : ExecOK(e)) /\ (\A g \in RpcGet : RpcOK(g))

ExchangeInv == TypeOK /\ ReadFacts /\ ReqTyped /\ ExchangeTypes /\ AllOK

LEMMA CallersReads ==
    ASSUME ExchangeAssumption
    PROVE  Execution \subseteq Get /\ RpcGet \subseteq Get /\ Execution \cap RpcGet = {}
BY DEF ExchangeAssumption, RpcGet

LEMMA ExchangeTypesNext ==
    ASSUME ServerAssumption, ExchangeAssumption, ExchangeInv, [ExchangeNext]_xvars
    PROVE  ExchangeTypes'
<1> USE DEF ExchangeTypes, ExecStage, RpcStage
<1>0. ExchangeTypes
  BY DEF ExchangeInv
<1>1. CASE ServerStep
  BY <1>0, <1>1 DEF ServerStep
<1>2. ASSUME NEW e \in Execution,
             \/ ExecLook(e) \/ ExecLookAgain(e) \/ WaitForQueue(e) \/ WaitFinds(e)
             \/ WaitTimesOut(e)
      PROVE  ExchangeTypes'
  BY <1>0, <1>2 DEF ExecLook, ExecLookAgain, WaitForQueue, WaitFinds, WaitTimesOut, Enters
<1>3. ASSUME NEW e \in Execution, ExecReads(e) \/ ExecRanges(e) PROVE ExchangeTypes'
  BY <1>0, <1>3 DEF ExecReads, ExecRanges, Enters
<1>4. ASSUME NEW e \in Execution, HandOffers(e) \/ HandGives(e) PROVE ExchangeTypes'
  <2>1. CASE HandOffers(e)
    BY <1>0, <2>1 DEF HandOffers, Enters
  <2>2. CASE HandGives(e)
    <3>0. panicked' = panicked \/ panicked' = TRUE
      BY <2>2 DEF HandGives
    <3>1. UNCHANGED <<closed, left, rpc, over>> /\ panicked' \in BOOLEAN
      BY <1>0, <2>2, <3>0 DEF HandGives
    <3>2. \/ exec' = exec /\ given' = given
          \/ /\ exec' = [exec EXCEPT ![e] = "handing"]
             /\ given' = [given EXCEPT ![e] = given[e] + 1]
      BY <2>2 DEF HandGives, Enters
    <3>3. given' \in [Execution -> Nat]
      <4>1. given \in [Execution -> Nat] /\ given[e] + 1 \in Nat
        BY <1>0
      <4> QED
        BY <3>2, <4>1
    <3>4. exec' \in [Execution -> ExecStage]
      BY <1>0, <3>2
    <3>5. rpc' \in [RpcGet -> RpcStage] /\ over' \subseteq Get \cup Request
      BY <1>0, <3>1
    <3>6. closed' \cup left' \subseteq Channel
      BY <1>0, <3>1
    <3> QED
      BY <3>1, <3>3, <3>4, <3>5, <3>6
  <2> QED
    BY <1>4, <2>1, <2>2
<1>5. ASSUME NEW e \in Execution, HandCloses(e) PROVE ExchangeTypes'
  <2>1. Into[e] \in Channel
    BY DEF ExchangeAssumption
  <2> QED
    BY <1>0, <1>5, <2>1 DEF HandCloses, Enters
<1>6. ASSUME NEW ch \in Channel, Leave(ch) PROVE ExchangeTypes'
  BY <1>0, <1>6 DEF Leave
<1>7. ASSUME NEW g \in RpcGet, RpcCall(g) \/ RpcGetter(g) PROVE ExchangeTypes'
  BY <1>0, <1>7 DEF RpcCall, RpcGetter
<1>8. ASSUME NEW g \in RpcGet, RpcGivesUp(g) \/ RpcAnswers(g) PROVE ExchangeTypes'
  BY <1>0, <1>8 DEF RpcGivesUp, RpcAnswers, RpcEnds
<1>9. ASSUME NEW s \in Request, Sends(s) PROVE ExchangeTypes'
  BY <1>0, <1>9 DEF Sends, SendNext, SendAnswers
<1>10. ASSUME NEW c \in Get \cup Request, ContextEnds(c) PROVE ExchangeTypes'
  BY <1>0, <1>10 DEF ContextEnds
<1>11. CASE UNCHANGED xvars
  BY <1>0, <1>11 DEF xvars
<1> QED
  BY <1>1, <1>2, <1>3, <1>4, <1>5, <1>6, <1>7, <1>8, <1>9, <1>10, <1>11
  DEF ExchangeNext, Executes, Answers

\* A step of one execution or call disturbs no other.
LEMMA OneMoves ==
    ASSUME ExchangeInv, NEW g \in Get,
           \A h \in Get \ {g} : get'[h] = get[h],
           \A e \in Execution \ {g} : exec'[e] = exec[e] /\ given'[e] = given[e],
           \A h \in RpcGet \ {g} : rpc'[h] = rpc[h],
           over \subseteq over', ExchangeAssumption,
           g \in Execution => ExecOK(g)', g \in RpcGet => RpcOK(g)'
    PROVE  AllOK'
<1>1. ASSUME NEW e \in Execution PROVE ExecOK(e)'
  <2>1. CASE e # g
    BY <2>1, CallersReads DEF ExchangeInv, AllOK, ExecOK, Collected
  <2> QED
    BY <2>1
<1>2. ASSUME NEW h \in RpcGet PROVE RpcOK(h)'
  <2>1. CASE h # g
    BY <2>1, CallersReads DEF ExchangeInv, AllOK, RpcOK
  <2> QED
    BY <2>1
<1> QED
  BY <1>1, <1>2 DEF AllOK

\* Steps of the server, of requests, callers and contexts disturb nobody.
LEMMA NobodyMoves ==
    ASSUME ExchangeInv, UNCHANGED <<get, exec, given, rpc>>, over \subseteq over'
    PROVE  AllOK'
BY DEF ExchangeInv, AllOK, ExecOK, RpcOK, Collected

LEMMA ExecutionMoves ==
    ASSUME ServerAssumption, ExchangeAssumption, ExchangeInv,
           NEW e \in Execution, ExecLook(e) \/ Executes(e)
    PROVE  AllOK'
<1> USE DEF ExchangeTypes, ExecStage, Handing
<1>0. /\ ExchangeTypes /\ ExecOK(e) /\ TypeOK /\ ReadFacts
      /\ e \in Get /\ e \notin RpcGet
      /\ given[e] \in Nat /\ get[e].from \in Nat /\ get[e].got \in Nat
  BY CallersReads DEF ExchangeInv, AllOK, TypeOK, GetState
<1>1. ASSUME \A h \in Get \ {e} : get'[h] = get[h],
             \A f \in Execution \ {e} : exec'[f] = exec[f] /\ given'[f] = given[f],
             rpc' = rpc, over' = over, ExecOK(e)'
      PROVE  AllOK'
  BY <1>0, <1>1, OneMoves
<1>2. ASSUME get' = get, NEW where \in ExecStage, Enters(e, where), given' = given,
             rpc' = rpc, over' = over, ExecOK(e)'
      PROVE  AllOK'
  BY <1>0, <1>1, <1>2 DEF Enters
<1>3. CASE \/ ExecLook(e) \/ ExecLookAgain(e) \/ WaitForQueue(e) \/ WaitFinds(e)
           \/ WaitTimesOut(e)
  <2>1. /\ get' = get /\ given' = given /\ rpc' = rpc /\ over' = over
        /\ exec[e] \in {"new", "again", "await", "poll"}
        /\ \E where \in {"again", "await", "poll", "read", "failed"} : Enters(e, where)
    BY <1>3 DEF ExecLook, ExecLookAgain, WaitForQueue, WaitFinds, WaitTimesOut, vars
  <2>2. PICK where \in {"again", "await", "poll", "read", "failed"} : Enters(e, where)
    BY <2>1
  <2>3. exec'[e] = where
    BY <1>0, <2>2 DEF Enters
  <2>4. ExecOK(e)'
    BY <1>0, <2>1, <2>3 DEF ExecOK, Collected
  <2> QED
    BY <1>2, <2>1, <2>2, <2>4
<1>4. CASE ExecReads(e)
  <2>1. /\ given' = given /\ rpc' = rpc /\ over' = over /\ exec[e] = "read"
        /\ get[e].at = "new" /\ given[e] = 0
    BY <1>0, <1>4 DEF ExecReads, ExecOK
  <2>2. CASE get' = get /\ (Enters(e, "handing") \/ Enters(e, "failed"))
    <3>1. exec'[e] \in {"handing", "failed"}
      BY <1>0, <2>2 DEF Enters
    <3>2. ExecOK(e)'
      BY <1>0, <2>1, <2>2, <3>1 DEF ExecOK, Collected
    <3> QED
      BY <1>2, <2>1, <2>2, <3>2
  <2>3. CASE Enters(e, "ranging") /\ GetCheck(e)
    <3>1. /\ get'[e].from \in Nat /\ get'[e].got \in Nat /\ get'[e].from <= get'[e].got
          /\ \A h \in Get \ {e} : get'[h] = get[h]
      BY <1>0, <2>3, ReadSteps
    <3>2. /\ exec'[e] = "ranging"
          /\ \A f \in Execution \ {e} : exec'[f] = exec[f] /\ given'[f] = given[f]
      BY <1>0, <2>1, <2>3 DEF Enters
    <3>3. ExecOK(e)'
      BY <2>1, <3>1, <3>2 DEF ExecOK, Collected
    <3> QED
      BY <1>1, <2>1, <3>1, <3>2, <3>3
  <2> QED
    BY <1>4, <2>2, <2>3 DEF ExecReads, vars
<1>5. CASE ExecRanges(e)
  <2>1. /\ given' = given /\ rpc' = rpc /\ over' = over /\ exec[e] = "ranging"
        /\ given[e] = 0
    BY <1>0, <1>5 DEF ExecRanges, ExecOK
  <2>2. CASE Getter(e) /\ UNCHANGED exec
    <3>1. /\ get'[e].from \in Nat /\ get'[e].got \in Nat /\ get'[e].from <= get'[e].got
          /\ \A h \in Get \ {e} : get'[h] = get[h]
      BY <1>0, <2>2, ReadSteps
    <3>2. ExecOK(e)'
      BY <2>1, <2>2, <3>1 DEF ExecOK, Collected
    <3> QED
      BY <1>1, <2>1, <2>2, <3>1, <3>2
  <2>3. CASE /\ get[e].at \in {"closed", "failed"} /\ get' = get
             /\ Enters(e, IF get[e].at = "closed" THEN "handing" ELSE "failed")
    <3>1. exec'[e] = IF get[e].at = "closed" THEN "handing" ELSE "failed"
      BY <1>0, <2>3 DEF Enters
    <3>2. ExecOK(e)'
      BY <1>0, <2>1, <2>3, <3>1 DEF ExecOK, Collected
    <3> QED
      BY <1>2, <2>1, <2>3, <3>2
  <2> QED
    BY <1>5, <2>2, <2>3 DEF ExecRanges, vars
<1>6. CASE HandOffers(e)
  <2>1. /\ get' = get /\ given' = given /\ rpc' = rpc /\ over' = over
        /\ exec[e] = "handing" /\ given[e] < Collected(e) /\ Enters(e, "offering")
    BY <1>6 DEF HandOffers, vars
  <2>2. exec'[e] = "offering"
    BY <1>0, <2>1 DEF Enters
  <2>3. ExecOK(e)'
    BY <1>0, <2>1, <2>2 DEF ExecOK, Collected
  <2> QED
    BY <1>2, <2>1, <2>3
<1>7. CASE HandGives(e)
  <2>1. get' = get /\ rpc' = rpc /\ over' = over /\ exec[e] = "offering"
    BY <1>7 DEF HandGives, vars
  <2>2. CASE UNCHANGED <<exec, given>>
    BY <2>1, <2>2, NobodyMoves
  <2>3. CASE Enters(e, "handing") /\ given' = [given EXCEPT ![e] = @ + 1]
    <3>1. /\ exec'[e] = "handing" /\ given'[e] = given[e] + 1
          /\ \A f \in Execution \ {e} : exec'[f] = exec[f] /\ given'[f] = given[f]
      BY <1>0, <2>3 DEF Enters
    <3>2. ExecOK(e)'
      BY <1>0, <2>1, <3>1 DEF ExecOK, Collected
    <3> QED
      BY <1>1, <2>1, <3>1, <3>2
  <2> QED
    BY <1>7, <2>2, <2>3 DEF HandGives
<1>8. CASE HandCloses(e)
  <2>1. /\ get' = get /\ given' = given /\ rpc' = rpc /\ over' = over
        /\ exec[e] = "handing" /\ (given[e] = Collected(e) \/ e \in over)
        /\ Enters(e, "closed")
    BY <1>8 DEF HandCloses, vars
  <2>2. exec'[e] = "closed"
    BY <1>0, <2>1 DEF Enters
  <2>3. ExecOK(e)'
    BY <1>0, <2>1, <2>2 DEF ExecOK, Collected
  <2> QED
    BY <1>2, <2>1, <2>3
<1> QED
  BY <1>3, <1>4, <1>5, <1>6, <1>7, <1>8 DEF Executes

LEMMA CallMoves ==
    ASSUME ServerAssumption, ExchangeAssumption, ExchangeInv,
           NEW g \in RpcGet, RpcCall(g) \/ Answers(g)
    PROVE  AllOK'
<1> USE DEF ExchangeTypes, RpcStage
<1>0. /\ ExchangeTypes /\ RpcOK(g) /\ TypeOK /\ ReadFacts
      /\ g \in Get /\ g \notin Execution
  BY CallersReads DEF ExchangeInv, AllOK
<1>1. exec' = exec /\ given' = given /\ over' = over
  BY DEF RpcCall, Answers, RpcGetter, RpcGivesUp, RpcAnswers, RpcEnds
<1>2. ASSUME \A h \in Get \ {g} : get'[h] = get[h],
             \A h \in RpcGet \ {g} : rpc'[h] = rpc[h], RpcOK(g)'
      PROVE  AllOK'
  BY <1>0, <1>1, <1>2, OneMoves
<1>3. CASE RpcCall(g)
  <2>1. /\ rpc' = [rpc EXCEPT ![g] = IF runned THEN "called" ELSE "failed"]
        /\ rpc[g] = "new" /\ get[g].at = "new"
    BY <1>0, <1>3 DEF RpcCall, RpcOK
  <2>2. \A h \in RpcGet \ {g} : rpc'[h] = rpc[h]
    BY <1>0, <2>1
  <2>3. CASE runned
    <3>1. \A h \in Get \ {g} : get'[h] = get[h]
      BY <1>0, <1>3, <2>3, ReadSteps DEF RpcCall
    <3>2. rpc'[g] = "called"
      BY <1>0, <2>1, <2>3
    <3> QED
      BY <1>2, <2>2, <3>1, <3>2 DEF RpcOK
  <2>4. CASE ~runned
    <3>1. get' = get /\ rpc'[g] = "failed"
      BY <1>0, <1>3, <2>1, <2>4 DEF RpcCall, vars
    <3> QED
      BY <1>2, <2>1, <2>2, <3>1 DEF RpcOK
  <2> QED
    BY <2>3, <2>4
<1>4. CASE RpcGetter(g)
  <2>1. rpc' = rpc /\ rpc[g] \in {"called", "gaveup"} /\ Getter(g)
    BY <1>4 DEF RpcGetter, Getter
  <2>2. \A h \in Get \ {g} : get'[h] = get[h]
    BY <1>0, <2>1, ReadSteps
  <2>3. RpcOK(g)'
    BY <1>0, <1>1, <2>1 DEF RpcOK
  <2> QED
    BY <1>2, <2>1, <2>2, <2>3
<1>5. ASSUME NEW where \in RpcStage, RpcEnds(g, where),
             where = "gaveup" => g \in over, where = "failed" => get[g].at = "failed",
             where # "new"
      PROVE  AllOK'
  <2>1. get' = get /\ rpc' = [rpc EXCEPT ![g] = where]
    BY <1>5 DEF RpcEnds, vars
  <2>2. rpc'[g] = where /\ \A h \in RpcGet \ {g} : rpc'[h] = rpc[h]
    BY <1>0, <2>1
  <2>3. RpcOK(g)'
    BY <1>1, <1>5, <2>1, <2>2 DEF RpcOK
  <2> QED
    BY <1>2, <2>1, <2>2, <2>3
<1>6. CASE RpcGivesUp(g)
  BY <1>5, <1>6 DEF RpcGivesUp
<1>7. CASE RpcAnswers(g)
  BY <1>5, <1>7 DEF RpcAnswers
<1> QED
  BY <1>3, <1>4, <1>6, <1>7 DEF Answers

LEMMA AllOKNext ==
    ASSUME ServerAssumption, ExchangeAssumption, ExchangeInv, [ExchangeNext]_xvars
    PROVE  AllOK'
<1>1. CASE ServerStep
  <2>1. get' = get
    BY <1>1 DEF ServerStep, RunCheck, RunSet, Cancel, StopperFires, Putter, Register,
                PutterQuits, QueueStops
  <2> QED
    BY <1>1, <2>1, NobodyMoves DEF ServerStep
<1>2. ASSUME NEW e \in Execution, ExecLook(e) \/ Executes(e) PROVE AllOK'
  BY <1>2, ExecutionMoves
<1>3. ASSUME NEW g \in RpcGet, RpcCall(g) \/ Answers(g) PROVE AllOK'
  BY <1>3, CallMoves
<1>4. ASSUME NEW s \in Request, Sends(s) PROVE AllOK'
  <2>1. get' = get
    BY <1>4 DEF Sends, SendNext, SendAnswers, PutMessages, vars
  <2> QED
    BY <1>4, <2>1, NobodyMoves DEF Sends, SendNext, SendAnswers
<1>5. ASSUME NEW ch \in Channel, Leave(ch) PROVE AllOK'
  BY <1>5, NobodyMoves DEF Leave, vars
<1>6. ASSUME NEW c \in Get \cup Request, ContextEnds(c) PROVE AllOK'
  BY <1>6, NobodyMoves DEF ContextEnds, vars
<1>7. CASE UNCHANGED xvars
  BY <1>7, NobodyMoves DEF xvars, vars
<1> QED
  BY <1>1, <1>2, <1>3, <1>4, <1>5, <1>6, <1>7 DEF ExchangeNext

LEMMA ExchangeInvInit ==
    ASSUME ServerAssumption, ExchangeAssumption, ExchangeInit PROVE ExchangeInv
<1>1. TypeOK /\ ReqTyped
  BY TypeInit, ReqTypedInit DEF ExchangeInit
<1>2. \A g \in Get : get[g].at = "new" /\ get[g].from = 0 /\ get[g].got = 0
  BY DEF ExchangeInit, Init
<1>3. ReadFacts
  BY <1>2 DEF ReadFacts
<1>4. ExchangeTypes
  BY DEF ExchangeInit, ExchangeTypes, ExecStage, RpcStage
<1>5. \A e \in Execution : exec[e] = "new" /\ given[e] = 0
  BY DEF ExchangeInit
<1>6. \A g \in RpcGet : rpc[g] = "new"
  BY DEF ExchangeInit
<1>7. AllOK
  BY <1>2, <1>5, <1>6, CallersReads DEF AllOK, ExecOK, RpcOK, Collected, Handing
<1> QED
  BY <1>1, <1>3, <1>4, <1>7 DEF ExchangeInv

LEMMA ExchangeInvNext ==
    ASSUME ServerAssumption, ExchangeAssumption, ExchangeInv, [ExchangeNext]_xvars
    PROVE  ExchangeInv'
<1>1. [Next]_vars
  BY ServerMoves DEF ExchangeInv
<1>2. TypeOK' /\ ReadFacts'
  BY <1>1, TypeNext, ReadFactsNext DEF ExchangeInv
<1> QED
  BY <1>2, ReqTypedNext, ExchangeTypesNext, AllOKNext DEF ExchangeInv

\* What executions and gRPC calls know of their reads stays true while the reads'
\* goroutines, the callers and the ends of contexts go on in any order.
THEOREM Invariant ==
    ASSUME ServerAssumption, ExchangeAssumption PROVE ExchangeSpec => []ExchangeInv
<1>1. ExchangeInit => ExchangeInv
  BY ExchangeInvInit
<1>2. ExchangeInv /\ [ExchangeNext]_xvars => ExchangeInv'
  BY ExchangeInvNext
<1> QED
  BY <1>1, <1>2, PTL DEF ExchangeSpec

\* Each variable keeps its type, and nobody is given more than was read.
THEOREM ExchangeTyping ==
    ASSUME ServerAssumption, ExchangeAssumption PROVE ExchangeSpec => []ExchangeTypeOK
<1>1. ExchangeInv => ExchangeTypeOK
  <2> SUFFICES ASSUME ExchangeInv PROVE ExchangeTypeOK
    OBVIOUS
  <2>1. \A e \in Execution : given[e] <= Collected(e)
    BY DEF ExchangeInv, AllOK, ExecOK
  <2>2. \A s \in Request :
          /\ req[s].at \in {"sending", "answered", "gaveup"}
          /\ req[s].pos \in 0..Len(Msgs[s])
          /\ req[s].reported \subseteq 1..req[s].pos
    BY DEF ExchangeInv, ReqTyped, ReqState
  <2> QED
    BY <2>1, <2>2 DEF ExchangeInv, ExchangeTypes, ExchangeTypeOK, ExecStage, RpcStage
<1> QED
  BY <1>1, Invariant, PTL

-----------------------------------------------------------------------------
(* The channels of results.                                                *)

ChannelsOK == ClosedBy /\ ClosedOnce

\* Executions that have closed their channel stay where they are.
LEMMA ClosedStays ==
    ASSUME ChannelsOK, closed' = closed, panicked' = FALSE,
           \A e \in Execution : exec[e] = "closed" => exec'[e] = "closed"
    PROVE  ChannelsOK'
<1>1. ClosedBy'
  BY DEF ChannelsOK, ClosedBy
<1>2. ClosedOnce'
  BY DEF ClosedOnce
<1> QED
  BY <1>1, <1>2 DEF ChannelsOK

LEMMA ChannelsOKNext ==
    ASSUME ServerAssumption, ExchangeAssumption, ExchangeInv, ChannelsOK,
           [ExchangeNext]_xvars
    PROVE  ChannelsOK'
<1> USE DEF ExchangeTypes
<1>0. ExchangeTypes
  BY DEF ExchangeInv
<1>1. CASE UNCHANGED xvars
  BY <1>1 DEF xvars, ChannelsOK, ClosedBy, ClosedOnce
<1>2. SUFFICES ASSUME ExchangeNext PROVE ChannelsOK'
  BY <1>1
<1>3. panicked = FALSE
  BY <1>0, <1>2 DEF ExchangeNext
<1>4. ASSUME NEW e \in Execution, NEW where \in ExecStage, Enters(e, where),
             exec[e] # "closed"
      PROVE  \A f \in Execution : exec[f] = "closed" => exec'[f] = "closed"
  BY <1>0, <1>4 DEF Enters
<1>5. ASSUME NEW e \in Execution,
             \/ ExecLook(e) \/ ExecLookAgain(e) \/ WaitForQueue(e) \/ WaitFinds(e)
             \/ WaitTimesOut(e) \/ ExecReads(e) \/ ExecRanges(e) \/ HandOffers(e)
      PROVE  ChannelsOK'
  <2>1. /\ closed' = closed /\ panicked' = panicked /\ exec[e] # "closed"
        /\ UNCHANGED exec \/ \E where \in ExecStage : Enters(e, where)
    BY <1>5 DEF ExecLook, ExecLookAgain, WaitForQueue, WaitFinds, WaitTimesOut,
                ExecReads, ExecRanges, HandOffers, ExecStage
  <2>2. \A f \in Execution : exec[f] = "closed" => exec'[f] = "closed"
    BY <1>4, <2>1
  <2> QED
    BY <1>3, <2>1, <2>2, ClosedStays
<1>6. ASSUME NEW e \in Execution, HandGives(e) PROVE ChannelsOK'
  <2>1. CASE Into[e] \in closed
    <3>1. closed' = closed /\ exec' = exec /\ exec[e] = "offering"
      BY <1>6, <2>1 DEF HandGives
    <3>2. PICK f \in Execution : Into[f] = Into[e] /\ exec[f] = "closed"
      BY <2>1 DEF ChannelsOK, ClosedBy
    <3>3. ClosedBy'
      BY <3>1 DEF ChannelsOK, ClosedBy
    <3>4. ClosedOnce'
      BY <3>1, <3>2 DEF ClosedOnce
    <3> QED
      BY <3>3, <3>4 DEF ChannelsOK
  <2>2. CASE Into[e] \notin closed
    <3>1. /\ closed' = closed /\ panicked' = panicked /\ exec[e] = "offering"
          /\ Enters(e, "handing")
      BY <1>6, <2>2 DEF HandGives
    <3> QED
      BY <1>3, <1>4, <3>1, ClosedStays DEF ExecStage
  <2> QED
    BY <2>1, <2>2
<1>7. ASSUME NEW e \in Execution, HandCloses(e) PROVE ChannelsOK'
  <2>1. /\ exec[e] = "handing" /\ exec'[e] = "closed"
        /\ closed' = closed \cup {Into[e]} /\ panicked' = (Into[e] \in closed)
        /\ \A f \in Execution : exec[f] = "closed" => exec'[f] = "closed"
    BY <1>0, <1>7 DEF HandCloses, Enters
  <2>2. ClosedBy'
    BY <2>1 DEF ChannelsOK, ClosedBy
  <2>3. ClosedOnce'
    <3>1. CASE Into[e] \in closed
      <4>1. PICK f \in Execution : Into[f] = Into[e] /\ exec[f] = "closed"
        BY <3>1 DEF ChannelsOK, ClosedBy
      <4> QED
        BY <2>1, <4>1 DEF ClosedOnce
    <3>2. CASE Into[e] \notin closed
      BY <2>1, <3>2 DEF ClosedOnce
    <3> QED
      BY <3>1, <3>2
  <2> QED
    BY <2>2, <2>3 DEF ChannelsOK
<1>8. CASE UNCHANGED <<exec, closed, panicked>>
  BY <1>3, <1>8, ClosedStays
<1>9. CASE ServerStep
  BY <1>8, <1>9 DEF ServerStep
<1>10. ASSUME NEW ch \in Channel, Leave(ch) PROVE ChannelsOK'
  BY <1>8, <1>10 DEF Leave
<1>11. ASSUME NEW g \in RpcGet, RpcCall(g) \/ Answers(g) PROVE ChannelsOK'
  BY <1>8, <1>11 DEF RpcCall, Answers, RpcGetter, RpcGivesUp, RpcAnswers, RpcEnds
<1>12. ASSUME NEW s \in Request, Sends(s) PROVE ChannelsOK'
  BY <1>8, <1>12 DEF Sends, SendNext, SendAnswers
<1>13. ASSUME NEW c \in Get \cup Request, ContextEnds(c) PROVE ChannelsOK'
  BY <1>8, <1>13 DEF ContextEnds
<1> QED
  BY <1>2, <1>5, <1>6, <1>7, <1>9, <1>10, <1>11, <1>12, <1>13 DEF ExchangeNext, Executes

\* The program dies of a result channel only when two executions of a service
\* that share it have both come to handing out.
THEOREM ChannelsAreClosedOnce ==
    ASSUME ServerAssumption, ExchangeAssumption PROVE ExchangeSpec => []ClosedOnce
<1>1. ExchangeInit => ChannelsOK
  BY DEF ExchangeInit, ChannelsOK, ClosedBy, ClosedOnce
<1>2. ExchangeInv /\ ChannelsOK /\ [ExchangeNext]_xvars => ChannelsOK'
  BY ChannelsOKNext
<1>3. ChannelsOK => ClosedOnce
  BY DEF ChannelsOK
<1> QED
  BY <1>1, <1>2, <1>3, Invariant, PTL DEF ExchangeSpec

-----------------------------------------------------------------------------
(* What is read reaches the callers.                                       *)

LEMMA ReadsReachCallers ==
    ASSUME ServerAssumption, ExchangeAssumption, ExchangeInv,
           NEW g \in Get, HasRead(g), NEW n \in Window(g)
    PROVE  \/ g \in over \/ get[g].ctx \in cancelled
           \/ get[g].at # "abandoned" /\ ReachesCaller(g, n)
<1>1. /\ ExchangeTypes /\ ReadFacts
      /\ get[g].from \in Nat /\ get[g].to \in Nat /\ get[g].got \in Nat
      /\ get[g].at \in {"sending", "closed", "abandoned"}
      /\ n \in Nat /\ n <= get[g].to
  BY DEF ExchangeInv, TypeOK, GetState, HasRead, Window
<1>2. CASE get[g].at = "abandoned"
  BY <1>1, <1>2 DEF ReadFacts
<1>3. CASE g \in Execution /\ get[g].at # "abandoned"
  <2>1. /\ ExecOK(g) /\ exec[g] \in ExecStage /\ given[g] \in Nat
        /\ get[g].at = "closed" => get[g].got = get[g].to
    BY <1>1, <1>3 DEF ExchangeInv, AllOK, ExchangeTypes, ReadFacts
  <2>2. \/ exec[g] \in {"ranging", "handing", "offering"}
        \/ exec[g] = "closed" /\ get[g].at = "closed"
    BY <1>1, <2>1 DEF ExecOK, ExecStage, Handing
  <2>3. CASE exec[g] = "closed" /\ get[g].at = "closed"
    BY <1>1, <1>3, <2>1, <2>3 DEF ExecOK, Collected, ReachesCaller
  <2> QED
    BY <1>3, <2>2, <2>3 DEF ReachesCaller
<1>4. CASE g \in RpcGet /\ get[g].at # "abandoned"
  <2>1. RpcOK(g) /\ rpc[g] \in RpcStage
    BY <1>1, <1>4 DEF ExchangeInv, AllOK, ExchangeTypes
  <2> QED
    BY <1>1, <1>4, <2>1 DEF RpcOK, RpcStage, ReachesCaller
<1> QED
  BY <1>2, <1>3, <1>4 DEF RpcGet

\* What lies behind a receiver's cursor was given to one of its callers or is on
\* its way, unless a context ended or the program died.
THEOREM NothingIsLost ==
    ASSUME ServerAssumption, ExchangeAssumption PROVE ExchangeSpec => []NothingLost
<1>1. ExchangeInv /\ NothingSkipped => NothingLost
  <2> SUFFICES ASSUME ExchangeInv, NothingSkipped,
                      NEW o \in QueueObject, NEW c \in Receiver, NEW n \in 1..cursor[o][c]
               PROVE  \E g \in Get :
                        /\ HasRead(g) /\ Object(g) = o /\ Reader[g] = c /\ n \in Window(g)
                        /\ \/ g \in over \/ get[g].ctx \in cancelled \/ panicked
                           \/ get[g].at # "abandoned" /\ ReachesCaller(g, n)
    BY DEF NothingLost
  <2>1. Given(o, c, n)
    BY SkippedByPoint
  <2>2. PICK g \in Get : HasRead(g) /\ Object(g) = o /\ Reader[g] = c /\ n \in Window(g)
    BY <2>1 DEF Given
  <2> QED
    BY <2>2, ReadsReachCallers
<1> QED
  BY <1>1, Invariant, CallersSkipNothing, PTL

=============================================================================
