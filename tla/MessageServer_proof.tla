------------------------ MODULE MessageServer_proof ------------------------
(***************************************************************************)
(* Proofs about MessageServer, for every set of queues, batches, reads and *)
(* receivers, any number of runs and of goroutines that call Run.          *)
(***************************************************************************)
EXTENDS MessageServer, FiniteSetTheorems, TLAPS

USE DEF server, QueueObject, Run

-----------------------------------------------------------------------------
(* Typing.                                                                 *)

LEMMA TypeInit == ASSUME ServerAssumption, Init PROVE TypeOK
<1>1. MaxRuns \in Nat /\ 0 \in 0..MaxRuns /\ 0 \in 0..0
  BY DEF ServerAssumption
<1>2. /\ log \in [QueueObject -> Seq(Message)]
      /\ cursor \in [QueueObject -> [Receiver -> Nat]]
      /\ \A o \in QueueObject, c \in Receiver : cursor[o][c] <= Len(log[o])
  BY DEF Init
<1>3. put \in [Batch -> PutState] /\ \A b \in Batch : put[b].at = "new"
  BY <1>1 DEF Init, PutState
<1>4. get \in [Get -> GetState] /\ \A g \in Get : get[g].at = "new"
  BY <1>1 DEF Init, GetState
<1> QED
  BY <1>1, <1>2, <1>3, <1>4 DEF Init, TypeOK

\* A queue object that is served, or that a call has found, exists.
LEMMA Objects ==
    ASSUME ServerAssumption, TypeOK
    PROVE  /\ active \subseteq QueueObject
           /\ ctx \in Nat /\ 1..ctx \subseteq Run /\ 0..ctx \subseteq 0..MaxRuns
           /\ \A b \in Batch : put[b].at # "new" => Home(b) \in QueueObject
           /\ \A g \in Get : get[g].at \notin {"new", "checked", "failed"} =>
                                Object(g) \in QueueObject
<1>1. ctx \in Nat /\ MaxRuns \in Nat /\ ctx <= MaxRuns
  BY DEF TypeOK, ServerAssumption
<1>2. 1..ctx \subseteq Run /\ 0..ctx \subseteq 0..MaxRuns
  BY <1>1
<1> QED
  BY <1>1, <1>2 DEF TypeOK, ServerAssumption, Home, Object

\* A new run changes which runs have started, and nothing shrinks by that.
LEMMA TypeRun ==
    ASSUME ServerAssumption, TypeOK, NEW w \in Runner, RunSet(w)
    PROVE  TypeOK'
<1>1. /\ ctx \in Nat /\ MaxRuns \in Nat /\ ctx < MaxRuns /\ ctx' = ctx + 1
      /\ cancelled \subseteq 1..ctx /\ stoppers \subseteq 1..ctx
      /\ active \subseteq Queue \X (1..ctx)
  BY DEF RunSet, TypeOK, ServerAssumption
<1>2. /\ 1..ctx \subseteq 1..ctx' /\ ctx' \in 1..ctx' /\ ctx' \in 0..MaxRuns
      /\ 0 \in 0..ctx'
  BY <1>1
<1>3. /\ cancelled' \subseteq 1..ctx' /\ stoppers' \subseteq 1..ctx'
      /\ active' \subseteq Queue \X (1..ctx')
      /\ queues' \in [Queue -> 0..ctx']
  BY <1>1, <1>2 DEF RunSet
<1>4. /\ \A b \in Batch : put'[b].at # "new" => put'[b].run \in 1..ctx'
      /\ \A g \in Get : get'[g].at \notin {"new", "checked", "failed"} =>
                           get'[g].run \in 1..ctx'
  BY <1>2 DEF RunSet, TypeOK
<1> QED
  BY <1>2, <1>3, <1>4 DEF RunSet, TypeOK

LEMMA TypePut ==
    ASSUME ServerAssumption, TypeOK, NEW b \in Batch, PutMessages(b)
    PROVE  TypeOK'
<1> DEFINE q == Target[b]
           r == queues'[q]
<1>1. q \in Queue /\ queues \in [Queue -> 0..ctx] /\ ctx \in Nat
  BY DEF TypeOK, ServerAssumption
<1>2. queues' = [queues EXCEPT ![q] = IF @ = 0 THEN ctx ELSE @]
  BY DEF PutMessages
<1>3. r = IF queues[q] = 0 THEN ctx ELSE queues[q]
  BY <1>1, <1>2
<1>4. ctx \in 1..ctx
  BY <1>1 DEF PutMessages, TypeOK
<1>5. r \in 1..ctx
  BY <1>1, <1>3, <1>4
<1>6. queues' \in [Queue -> 0..ctx] /\ active' \subseteq Queue \X (1..ctx)
  BY <1>1, <1>2, <1>4, <1>5 DEF PutMessages, TypeOK
<1>7. put' = [put EXCEPT ![b] = [at |-> "sending", run |-> r, ctx |-> ctx, sent |-> 0]]
  BY DEF PutMessages
<1>8. [at |-> "sending", run |-> r, ctx |-> ctx, sent |-> 0] \in PutState
  BY <1>1, <1>4, <1>5, Objects DEF PutState
<1>9. /\ put' \in [Batch -> PutState]
      /\ \A d \in Batch : put'[d].at # "new" => put'[d].run \in 1..ctx
  BY <1>5, <1>7, <1>8 DEF TypeOK
<1> QED
  BY <1>6, <1>9 DEF PutMessages, TypeOK

\* A batch's record after its goroutine has moved.
LEMMA TypePutter ==
    ASSUME ServerAssumption, TypeOK, NEW b \in Batch, put[b].at = "sending",
           NEW at \in {"sending", "done", "dropped"}, NEW n \in Nat,
           put' = [put EXCEPT ![b].sent = n, ![b].at = at]
    PROVE  /\ put' \in [Batch -> PutState]
           /\ \A d \in Batch : put'[d].at # "new" => put'[d].run \in 1..ctx
<1>1. put \in [Batch -> PutState]
  BY DEF TypeOK
<1>2. /\ put'[b] = [put[b] EXCEPT !.sent = n, !.at = at]
      /\ \A d \in Batch \ {b} : put'[d] = put[d]
      /\ DOMAIN put' = Batch /\ put' = [d \in Batch |-> put'[d]]
  BY <1>1
<1>3. put'[b] \in PutState /\ put'[b].run = put[b].run
  BY <1>1, <1>2 DEF PutState
<1>4. put' \in [Batch -> PutState]
  BY <1>1, <1>2, <1>3
<1> QED
  BY <1>2, <1>3, <1>4 DEF TypeOK

\* The loop's registration appends: no cursor is beyond the longer queue.
LEMMA TypeLog ==
    ASSUME ServerAssumption, TypeOK, NEW o \in QueueObject, NEW m \in Message,
           log' = [log EXCEPT ![o] = Append(@, m)], cursor' = cursor
    PROVE  /\ log' \in [QueueObject -> Seq(Message)]
           /\ \A p \in QueueObject, c \in Receiver : cursor'[p][c] <= Len(log'[p])
<1>1. log \in [QueueObject -> Seq(Message)] /\ cursor \in [QueueObject -> [Receiver -> Nat]]
  BY DEF TypeOK
<1>2. log' \in [QueueObject -> Seq(Message)]
  BY <1>1
<1>3. \A p \in QueueObject : Len(log'[p]) >= Len(log[p]) /\ Len(log[p]) \in Nat
  BY <1>1
<1>4. ASSUME NEW p \in QueueObject, NEW c \in Receiver
      PROVE  cursor'[p][c] <= Len(log'[p])
  <2>1. cursor[p][c] \in Nat /\ cursor[p][c] <= Len(log[p])
    BY <1>1 DEF TypeOK
  <2>2. Len(log'[p]) \in Nat
    BY <1>2
  <2> QED
    BY <1>3, <2>1, <2>2
<1> QED
  BY <1>2, <1>4

LEMMA TypeRegister ==
    ASSUME ServerAssumption, TypeOK, NEW b \in Batch, Register(b)
    PROVE  TypeOK'
<1>1. put[b] \in PutState /\ Home(b) \in QueueObject
  BY Objects DEF Register, TypeOK
<1>2. put[b].sent + 1 \in Nat /\ <<b, put[b].sent + 1>> \in Message
  BY <1>1 DEF PutState, Message
<1>3. /\ log' \in [QueueObject -> Seq(Message)]
      /\ \A p \in QueueObject, c \in Receiver : cursor'[p][c] <= Len(log'[p])
  BY <1>1, <1>2, TypeLog DEF Register
<1>4. /\ put' \in [Batch -> PutState]
      /\ \A d \in Batch : put'[d].at # "new" => put'[d].run \in 1..ctx
  <2> DEFINE n == put[b].sent + 1
             at == IF n = Size[b] THEN "done" ELSE put[b].at
  <2>1. put[b].at = "sending" /\ at \in {"sending", "done", "dropped"}
    BY DEF Register
  <2>2. put' = [put EXCEPT ![b].sent = n, ![b].at = at]
    BY DEF Register, TypeOK
  <2> HIDE DEF at
  <2> QED
    BY <1>2, <2>1, <2>2, TypePutter
<1> QED
  BY <1>3, <1>4 DEF Register, TypeOK

LEMMA TypeQuit ==
    ASSUME ServerAssumption, TypeOK, NEW b \in Batch, PutterQuits(b)
    PROVE  TypeOK'
<1>1. put \in [Batch -> PutState]
  BY DEF TypeOK
<1>2. put[b].at = "sending" /\ put' = [put EXCEPT ![b].at = "dropped"]
  BY DEF PutterQuits
<1>3. put' \in [Batch -> PutState]
  BY <1>1, <1>2 DEF PutState
<1>4. \A d \in Batch : /\ put'[d].run = put[d].run
                      /\ put'[d].at # "new" => put[d].at # "new"
  BY <1>1, <1>2 DEF PutState
<1> QED
  BY <1>3, <1>4 DEF PutterQuits, TypeOK

GetTyped ==
    /\ get \in [Get -> GetState]
    /\ \A g \in Get :
          get[g].at \notin {"new", "checked", "failed"} => get[g].run \in 1..ctx

\* A step of one GetMessages call that leaves it with a typed record.
LEMMA TypeGet ==
    ASSUME TypeOK, NEW g \in Get, NEW r \in GetState,
           get' = [get EXCEPT ![g] = r], ctx' = ctx,
           r.at \notin {"new", "checked", "failed"} => r.run \in 1..ctx
    PROVE  GetTyped'
BY DEF TypeOK, GetTyped

LEMMA TypeGetter ==
    ASSUME ServerAssumption, TypeOK, NEW g \in Get, GetCheck(g) \/ Getter(g)
    PROVE  TypeOK'
<1> USE DEF GetState
<1>0. /\ get \in [Get -> GetState] /\ get[g] \in GetState
      /\ get = [h \in Get |-> get[h]]
      /\ ctx \in 0..MaxRuns /\ queues \in [Queue -> 0..ctx]
      /\ Source[g] \in Queue /\ Reader[g] \in Receiver
      /\ ctx \in Nat /\ 0..ctx \subseteq 0..MaxRuns
  BY Objects DEF TypeOK, ServerAssumption
<1>1. ASSUME GetTyped', UNCHANGED <<server, queues, active, log, cursor, put>>
      PROVE  TypeOK'
  BY <1>1 DEF TypeOK, GetTyped
<1>2. CASE GetCheck(g)
  <2>1. get' = [get EXCEPT ![g] = [get[g] EXCEPT !.at = "checked"]]
    BY <1>0, <1>2 DEF GetCheck
  <2>2. [get[g] EXCEPT !.at = "checked"] \in GetState
    BY <1>0
  <2> QED
    BY <1>1, <1>2, <2>1, <2>2, TypeGet DEF GetCheck
<1>3. CASE GetLookup(g)
  <2> DEFINE q == queues[Source[g]]
             r == [get[g] EXCEPT !.at = IF q = 0 THEN "failed" ELSE "found", !.run = q]
  <2>1. get' = [get EXCEPT ![g] = r]
    BY <1>0, <1>3 DEF GetLookup
  <2>2. q \in 0..ctx
    BY <1>0
  <2>3. r \in GetState /\ (r.at = "found" => r.run \in 1..ctx)
        /\ r.at \in {"failed", "found"}
    <3>1. CASE q = 0
      BY <1>0, <2>2, <3>1
    <3>2. CASE q # 0
      <4>1. q \in 1..ctx /\ q \in 0..MaxRuns
        BY <1>0, <2>2, <3>2
      <4> QED
        BY <1>0, <3>2, <4>1
    <3> QED BY <3>1, <3>2
  <2> HIDE DEF r
  <2> QED
    BY <1>1, <1>3, <2>1, <2>3, TypeGet DEF GetLookup
<1>4. CASE GetContext(g)
  <2> DEFINE r == [get[g] EXCEPT !.at = "bound", !.ctx = ctx]
  <2>1. get' = [get EXCEPT ![g] = r]
    BY <1>0, <1>4 DEF GetContext
  <2>2. r \in GetState /\ r.run \in 1..ctx
    BY <1>0, <1>4 DEF GetContext, TypeOK
  <2> HIDE DEF r
  <2> QED
    BY <1>1, <1>4, <2>1, <2>2, TypeGet DEF GetContext
<1>5. CASE GetActive(g)
  <2> DEFINE r == [get[g] EXCEPT !.at = IF Object(g) \in active THEN "reading" ELSE "failed"]
  <2>1. get' = [get EXCEPT ![g] = r]
    BY <1>0, <1>5 DEF GetActive
  <2>2. r \in GetState /\ r.run \in 1..ctx
    BY <1>0, <1>5 DEF GetActive, TypeOK
  <2> HIDE DEF r
  <2> QED
    BY <1>1, <1>5, <2>1, <2>2, TypeGet DEF GetActive
<1>6. CASE GetRead(g)
  <2> DEFINE end == Len(log[Object(g)])
             r == [get[g] EXCEPT !.at = "sending", !.from = StartOf(g),
                                 !.got = StartOf(g), !.to = end]
  <2>1. /\ Object(g) \in QueueObject /\ get[g].run \in 1..ctx
        /\ log \in [QueueObject -> Seq(Message)]
        /\ cursor \in [QueueObject -> [Receiver -> Nat]]
    BY <1>6, Objects DEF GetRead, TypeOK
  <2>2. end \in Nat /\ StartOf(g) \in Nat
    BY <1>0, <2>1 DEF StartOf
  <2>3. get' = [get EXCEPT ![g] = r]
    BY <1>0, <1>6 DEF GetRead
  <2>4. r \in GetState /\ r.run \in 1..ctx
    BY <1>0, <2>1, <2>2
  <2>5. GetTyped'
    <3> HIDE DEF r
    <3> QED BY <1>6, <2>3, <2>4, TypeGet DEF GetRead
  <2>6. cursor' = [cursor EXCEPT ![Object(g)][Reader[g]] = end]
    BY <1>6 DEF GetRead
  <2>7. /\ cursor' \in [QueueObject -> [Receiver -> Nat]]
        /\ \A o \in QueueObject, c \in Receiver : cursor'[o][c] <= Len(log[o])
    <3>1. cursor' \in [QueueObject -> [Receiver -> Nat]]
      BY <1>0, <2>1, <2>2, <2>6
    <3>2. ASSUME NEW o \in QueueObject, NEW c \in Receiver
          PROVE  cursor'[o][c] <= Len(log[o])
      <4>1. cursor'[o][c] = IF o = Object(g) /\ c = Reader[g] THEN end ELSE cursor[o][c]
        BY <1>0, <2>1, <2>6
      <4>2. cursor[o][c] <= Len(log[o])
        BY DEF TypeOK
      <4> QED
        BY <2>2, <4>1, <4>2
    <3> QED
      BY <3>1, <3>2
  <2> QED
    BY <1>6, <2>5, <2>7 DEF GetRead, TypeOK, GetTyped
<1>7. CASE GetSend(g)
  <2> DEFINE r == [get[g] EXCEPT !.got = get[g].got + 1]
  <2>1. get' = [get EXCEPT ![g] = r]
    BY <1>0, <1>7 DEF GetSend
  <2>2. get[g].run \in 1..ctx
    BY <1>7 DEF GetSend, TypeOK
  <2>3. r \in GetState /\ r.run = get[g].run
    BY <1>0
  <2> HIDE DEF r
  <2> QED
    BY <1>1, <1>7, <2>1, <2>2, <2>3, TypeGet DEF GetSend
<1>8. ASSUME NEW at \in {"closed", "abandoned"}, get[g].at = "sending",
             get' = [get EXCEPT ![g].at = at]
      PROVE  GetTyped' \/ ctx' # ctx
  <2> DEFINE r == [get[g] EXCEPT !.at = at]
  <2>1. get' = [get EXCEPT ![g] = r]
    BY <1>0, <1>8
  <2>2. r \in GetState /\ r.run \in 1..ctx
    BY <1>0, <1>8 DEF TypeOK
  <2> HIDE DEF r
  <2> QED
    BY <2>1, <2>2, TypeGet
<1>9. CASE GetClose(g) \/ GetQuit(g)
  BY <1>1, <1>8, <1>9 DEF GetClose, GetQuit
<1> QED
  BY <1>2, <1>3, <1>4, <1>5, <1>6, <1>7, <1>9 DEF Getter

LEMMA TypeNext == ASSUME ServerAssumption, TypeOK, [Next]_vars PROVE TypeOK'
<1>1. CASE UNCHANGED vars
  BY <1>1 DEF vars, TypeOK
<1>2. ASSUME NEW w \in Runner, RunCheck(w) PROVE TypeOK'
  BY <1>2 DEF RunCheck, TypeOK
<1>3. ASSUME NEW w \in Runner, RunSet(w) PROVE TypeOK'
  BY <1>3, TypeRun
<1>4. ASSUME NEW r \in Run, Cancel(r) \/ StopperFires(r) PROVE TypeOK'
  <2>1. CASE Cancel(r)
    BY <2>1 DEF Cancel, TypeOK
  <2>2. CASE StopperFires(r)
    BY <2>2 DEF StopperFires, TypeOK
  <2> QED
    BY <1>4, <2>1, <2>2
<1>5. ASSUME NEW b \in Batch, PutMessages(b) \/ Putter(b) PROVE TypeOK'
  BY <1>5, TypePut, TypeRegister, TypeQuit DEF Putter
<1>6. ASSUME NEW o \in QueueObject, QueueStops(o) PROVE TypeOK'
  BY <1>6 DEF QueueStops, TypeOK
<1>7. ASSUME NEW g \in Get, GetCheck(g) \/ Getter(g) PROVE TypeOK'
  BY <1>7, TypeGetter
<1> QED
  BY <1>1, <1>2, <1>3, <1>4, <1>5, <1>6, <1>7 DEF Next

\* Each variable keeps its type, calls and goroutines hold on to queues of runs
\* that have started, and no cursor passes the end of its queue, so that
\* getMessages never slices beyond it.
THEOREM Typing == ASSUME ServerAssumption PROVE Spec => []TypeOK
<1>1. Init => TypeOK
  BY TypeInit
<1>2. TypeOK /\ [Next]_vars => TypeOK'
  BY TypeNext
<1> QED
  BY <1>1, <1>2, PTL DEF Spec

-----------------------------------------------------------------------------
(* No queue of another run is served.                                      *)

LEMMA NoStaleQueueNext ==
    ASSUME ServerAssumption, TypeOK, NoStaleQueue, [Next]_vars
    PROVE  NoStaleQueue'
<1>1. ASSUME UNCHANGED <<queues, ctx, put>> PROVE NoStaleQueue'
  BY <1>1 DEF NoStaleQueue
<1>2. CASE UNCHANGED vars
  BY <1>1, <1>2 DEF vars
<1>3. ASSUME NEW w \in Runner, RunCheck(w) PROVE NoStaleQueue'
  BY <1>1, <1>3 DEF RunCheck
<1>4. ASSUME NEW w \in Runner, RunSet(w) PROVE NoStaleQueue'
  BY <1>4 DEF RunSet, NoStaleQueue
<1>5. ASSUME NEW r \in Run, Cancel(r) \/ StopperFires(r) PROVE NoStaleQueue'
  BY <1>1, <1>5 DEF Cancel, StopperFires
<1>6. ASSUME NEW b \in Batch, PutMessages(b) PROVE NoStaleQueue'
  <2>1. Target[b] \in Queue
    BY DEF ServerAssumption
  <2>2. /\ queues' = [queues EXCEPT ![Target[b]] = IF @ = 0 THEN ctx ELSE @]
        /\ ctx' = ctx
    BY <1>6 DEF PutMessages
  <2>3. queues'[Target[b]] = ctx /\ \A q \in Queue : queues'[q] \in {0, ctx'}
    BY <2>1, <2>2 DEF NoStaleQueue, TypeOK, PutMessages
  <2>4. \A d \in Batch : put'[d].run = put'[d].ctx
    BY <1>6, <2>3 DEF PutMessages, NoStaleQueue, TypeOK
  <2> QED
    BY <2>3, <2>4 DEF NoStaleQueue
<1>7. ASSUME NEW b \in Batch, Register(b) \/ PutterQuits(b) PROVE NoStaleQueue'
  <2>1. \A d \in Batch : put'[d].run = put[d].run /\ put'[d].ctx = put[d].ctx
    <3>1. put \in [Batch -> PutState]
      BY DEF TypeOK
    <3>2. CASE Register(b)
      BY <3>1, <3>2 DEF Register, PutState
    <3>3. CASE PutterQuits(b)
      BY <3>1, <3>3 DEF PutterQuits, PutState
    <3> QED
      BY <1>7, <3>2, <3>3
  <2> QED
    BY <1>7, <2>1 DEF Register, PutterQuits, NoStaleQueue
<1>8. ASSUME NEW o \in QueueObject, QueueStops(o) PROVE NoStaleQueue'
  BY <1>1, <1>8 DEF QueueStops
<1>9. ASSUME NEW g \in Get, GetCheck(g) \/ Getter(g) PROVE NoStaleQueue'
  BY <1>1, <1>9 DEF GetCheck, Getter, GetLookup, GetContext, GetActive, GetRead,
                    GetSend, GetClose, GetQuit
<1> QED
  BY <1>2, <1>3, <1>4, <1>5, <1>6, <1>7, <1>8, <1>9 DEF Next, Putter

\* However calls of Run overlap with each other and with PutMessages, the server
\* never accepts a batch into a queue that follows another run's context.
THEOREM NoQueueIsStale == ASSUME ServerAssumption PROVE Spec => []NoStaleQueue
<1>1. Init => NoStaleQueue
  BY DEF Init, NoStaleQueue
<1>2. TypeOK /\ NoStaleQueue /\ [Next]_vars => NoStaleQueue'
  BY NoStaleQueueNext
<1> QED
  BY <1>1, <1>2, Typing, PTL DEF Spec

-----------------------------------------------------------------------------
(* Reading.                                                                *)

\* Only a read moves a cursor.
LEMMA OthersKeepCursors ==
    ASSUME [Next]_vars, \A g \in Get : ~GetRead(g)
    PROVE  cursor' = cursor
BY DEF Next, vars, RunCheck, RunSet, Cancel, StopperFires, PutMessages, Putter,
       Register, PutterQuits, QueueStops, GetCheck, Getter, GetLookup, GetContext,
       GetActive, GetSend, GetClose, GetQuit

\* A read moves one cursor, to the end of the queue.
LEMMA ReadMovesCursor ==
    ASSUME ServerAssumption, TypeOK, NEW g \in Get, GetRead(g)
    PROVE  /\ Object(g) \in QueueObject /\ Reader[g] \in Receiver
           /\ StartOf(g) \in Nat /\ Len(log[Object(g)]) \in Nat
           /\ StartOf(g) <= cursor[Object(g)][Reader[g]]
           /\ cursor[Object(g)][Reader[g]] <= Len(log[Object(g)])
           /\ \A o \in QueueObject, c \in Receiver :
                 cursor'[o][c] = IF o = Object(g) /\ c = Reader[g]
                                 THEN Len(log[Object(g)]) ELSE cursor[o][c]
<1>1. Object(g) \in QueueObject /\ Reader[g] \in Receiver
  BY Objects DEF GetRead, ServerAssumption
<1>2. /\ log \in [QueueObject -> Seq(Message)]
      /\ cursor \in [QueueObject -> [Receiver -> Nat]]
      /\ cursor[Object(g)][Reader[g]] <= Len(log[Object(g)])
  BY <1>1 DEF TypeOK
<1>3. Len(log[Object(g)]) \in Nat /\ cursor[Object(g)][Reader[g]] \in Nat
  BY <1>1, <1>2
<1>4. cursor' = [cursor EXCEPT ![Object(g)][Reader[g]] = Len(log[Object(g)])]
  BY DEF GetRead
<1> QED
  BY <1>1, <1>2, <1>3, <1>4 DEF StartOf

LEMMA CursorsStep ==
    ASSUME ServerAssumption, TypeOK, [Next]_vars,
           NEW o \in QueueObject, NEW c \in Receiver
    PROVE  cursor'[o][c] >= cursor[o][c]
<1>1. cursor[o][c] \in Nat
  BY DEF TypeOK
<1>2. ASSUME NEW g \in Get, GetRead(g) PROVE cursor'[o][c] >= cursor[o][c]
  BY <1>1, <1>2, ReadMovesCursor
<1>3. CASE \A g \in Get : ~GetRead(g)
  BY <1>1, <1>3, OthersKeepCursors
<1> QED
  BY <1>2, <1>3

\* No read, from the beginning or not, puts a receiver's cursor back.
THEOREM CursorsOnlyGoForward == ASSUME ServerAssumption PROVE Spec => CursorsGoForward
<1>1. TypeOK /\ [Next]_vars =>
        [\A o \in QueueObject, c \in Receiver : cursor'[o][c] >= cursor[o][c]]_vars
  BY CursorsStep
<1> QED
  BY <1>1, Typing, PTL DEF Spec, CursorsGoForward

\* A step that is not its read leaves what a call has read as it was.
LEMMA OthersKeepReads ==
    ASSUME ServerAssumption, TypeOK, [Next]_vars, NEW g \in Get, ~GetRead(g)
    PROVE  /\ HasRead(g)' <=> HasRead(g)
           /\ HasRead(g) => /\ get'[g].run = get[g].run
                            /\ get'[g].from = get[g].from
                            /\ get'[g].to = get[g].to
<1> DEFINE Kept == /\ HasRead(g)' <=> HasRead(g)
                   /\ HasRead(g) => /\ get'[g].run = get[g].run
                                    /\ get'[g].from = get[g].from
                                    /\ get'[g].to = get[g].to
<1> USE DEF HasRead
<1>0. get \in [Get -> GetState]
  BY DEF TypeOK
<1>1. CASE UNCHANGED get
  BY <1>1
<1>2. ASSUME NEW h \in Get, GetCheck(h) \/ Getter(h) PROVE Kept
  <2>1. CASE h = g
    <3>1. CASE GetCheck(g) \/ GetLookup(g) \/ GetContext(g) \/ GetActive(g)
      BY <1>0, <3>1 DEF GetCheck, GetLookup, GetContext, GetActive, GetState
    <3>2. CASE GetSend(g) \/ GetClose(g) \/ GetQuit(g)
      BY <1>0, <3>2 DEF GetSend, GetClose, GetQuit, GetState
    <3> QED
      BY <1>2, <2>1, <3>1, <3>2 DEF Getter
  <2>2. CASE h # g
    <3>1. get'[g] = get[g]
      BY <1>0, <1>2, <2>2 DEF GetCheck, Getter, GetLookup, GetContext, GetActive,
                              GetRead, GetSend, GetClose, GetQuit
    <3> QED BY <3>1
  <2> QED BY <2>1, <2>2
<1>3. CASE UNCHANGED vars \/ \E w \in Runner : RunCheck(w) \/ RunSet(w)
  BY <1>1, <1>3 DEF vars, RunCheck, RunSet
<1>4. CASE \E r \in Run : Cancel(r) \/ StopperFires(r)
  BY <1>1, <1>4 DEF Cancel, StopperFires
<1>5. CASE \E b \in Batch : PutMessages(b) \/ Putter(b)
  BY <1>1, <1>5 DEF PutMessages, Putter, Register, PutterQuits
<1>6. CASE \E o \in QueueObject : QueueStops(o)
  BY <1>1, <1>6 DEF QueueStops
<1> QED
  BY <1>2, <1>3, <1>4, <1>5, <1>6 DEF Next

\* What a read leaves in its own call, and that it is nobody else's read.
LEMMA ReadResult ==
    ASSUME ServerAssumption, TypeOK, NEW g \in Get, GetRead(g)
    PROVE  /\ ~HasRead(g) /\ HasRead(g)'
           /\ get'[g].run = get[g].run
           /\ get'[g].from = StartOf(g)
           /\ get'[g].to = Len(log[Object(g)])
           /\ \A h \in Get : h # g => ~GetRead(h)
<1>1. get \in [Get -> GetState] /\ get[g].at = "reading"
  BY DEF TypeOK, GetRead
<1>2. /\ get'[g].at = "sending" /\ get'[g].run = get[g].run
      /\ get'[g].from = StartOf(g) /\ get'[g].to = Len(log[Object(g)])
  BY <1>1 DEF GetRead, GetState
<1>3. ASSUME NEW h \in Get, h # g PROVE ~GetRead(h)
  <2>1. get'[h] = get[h]
    BY <1>1, <1>3 DEF GetRead
  <2>2. GetRead(h) => get[h].at = "reading" /\ get'[h].at = "sending"
    BY <1>1 DEF GetRead, GetState
  <2> QED BY <2>1, <2>2
<1> QED
  BY <1>1, <1>2, <1>3 DEF HasRead

LEMMA ReadTypes ==
    ASSUME ServerAssumption, TypeOK, NEW g \in Get
    PROVE  /\ get[g].from \in Nat /\ get[g].to \in Nat
           /\ HasRead(g) => Object(g) \in QueueObject
           /\ Reader[g] \in Receiver
BY Objects DEF TypeOK, GetState, HasRead, ServerAssumption

\* Reads that took place lie behind their receiver's cursor.
ReadsBehind ==
    \A g \in Get : HasRead(g) => get[g].to <= cursor[Object(g)][Reader[g]]

LEMMA ReadsBehindNext ==
    ASSUME ServerAssumption, TypeOK, TypeOK', ReadsBehind, [Next]_vars
    PROVE  ReadsBehind'
<1> SUFFICES ASSUME NEW g \in Get, HasRead(g)'
             PROVE  get'[g].to <= cursor'[Object(g)'][Reader[g]]
  BY DEF ReadsBehind
<1>1. CASE GetRead(g)
  <2>1. get'[g].to = Len(log[Object(g)]) /\ Object(g)' = Object(g)
    BY <1>1, ReadResult DEF Object
  <2>2. cursor'[Object(g)][Reader[g]] = Len(log[Object(g)])
        /\ Len(log[Object(g)]) \in Nat
    BY <1>1, ReadMovesCursor
  <2> QED
    BY <2>1, <2>2
<1>2. CASE ~GetRead(g)
  <2>1. HasRead(g) /\ get'[g].to = get[g].to /\ Object(g)' = Object(g)
    BY <1>2, OthersKeepReads DEF Object
  <2>2. Object(g) \in QueueObject /\ Reader[g] \in Receiver /\ get[g].to \in Nat
    BY <2>1, ReadTypes
  <2>3. cursor'[Object(g)][Reader[g]] >= cursor[Object(g)][Reader[g]]
    BY <2>2, CursorsStep
  <2>4. /\ cursor[Object(g)][Reader[g]] \in Nat
        /\ cursor'[Object(g)][Reader[g]] \in Nat
    BY <2>2 DEF TypeOK
  <2> QED
    BY <2>1, <2>2, <2>3, <2>4 DEF ReadsBehind
<1> QED
  BY <1>1, <1>2

\* A plain read begins where every earlier read of its receiver ended.
LEMMA ReadIsFresh ==
    ASSUME ServerAssumption, TypeOK, ReadsBehind, [Next]_vars,
           NEW g \in Get \ FromBegin, NEW h \in Get, GetRead(g), h # g,
           HasRead(h)', Object(g)' = Object(h)', Reader[g] = Reader[h]
    PROVE  Window(g)' \cap Window(h)' = {}
<1>1. /\ HasRead(h) /\ get'[h].from = get[h].from /\ get'[h].to = get[h].to
      /\ Object(h)' = Object(h) /\ Object(g)' = Object(g)
  BY ReadResult, OthersKeepReads DEF Object
<1>2. get'[g].from = cursor[Object(g)][Reader[g]] /\ get'[g].from \in Nat
  BY ReadResult, ReadMovesCursor DEF StartOf
<1>3. get[h].to <= get'[g].from
  BY <1>1, <1>2 DEF ReadsBehind
<1>4. get[h].to \in Nat /\ get[h].from \in Nat /\ get'[g].to \in Nat
  BY ReadTypes, ReadResult, ReadMovesCursor
<1> QED
  BY <1>1, <1>2, <1>3, <1>4 DEF Window

LEMMA ReadOnceNext ==
    ASSUME ServerAssumption, TypeOK, ReadsBehind, ReadOnce, [Next]_vars
    PROVE  ReadOnce'
<1> SUFFICES ASSUME NEW g \in Get \ FromBegin, NEW h \in Get \ FromBegin, g # h,
                    HasRead(g)', HasRead(h)', Object(g)' = Object(h)',
                    Reader[g] = Reader[h]
             PROVE  Window(g)' \cap Window(h)' = {}
  BY DEF ReadOnce
<1>1. CASE GetRead(g)
  BY <1>1, ReadIsFresh
<1>2. CASE GetRead(h)
  BY <1>2, ReadIsFresh
<1>3. CASE ~GetRead(g) /\ ~GetRead(h)
  <2>1. HasRead(g) /\ Window(g)' = Window(g) /\ Object(g)' = Object(g)
    BY <1>3, OthersKeepReads DEF Window, Object
  <2>2. HasRead(h) /\ Window(h)' = Window(h) /\ Object(h)' = Object(h)
    BY <1>3, OthersKeepReads DEF Window, Object
  <2> QED
    BY <2>1, <2>2 DEF ReadOnce
<1> QED
  BY <1>1, <1>2, <1>3

\* However many plain reads of one receiver overlap, with registrations, stops
\* and new runs between their steps, no message is handed out by two of them.
THEOREM EachIsReadOnce == ASSUME ServerAssumption PROVE Spec => []ReadOnce
<1>1. Init => ReadsBehind /\ ReadOnce
  BY DEF Init, ReadsBehind, ReadOnce, HasRead
<1>2. TypeOK /\ TypeOK' /\ ReadsBehind /\ [Next]_vars => ReadsBehind'
  BY ReadsBehindNext
<1>3. TypeOK /\ ReadsBehind /\ ReadOnce /\ [Next]_vars => ReadOnce'
  BY ReadOnceNext
<1> QED
  BY <1>1, <1>2, <1>3, Typing, PTL DEF Spec

-----------------------------------------------------------------------------
(* Nothing is passed over.                                                 *)

\* The n-th message of a queue was put into a channel for a receiver.
Given(o, c, n) ==
    \E g \in Get : HasRead(g) /\ Object(g) = o /\ Reader[g] = c /\ n \in Window(g)

LEMMA SkippedByPoint ==
    NothingSkipped <=>
        \A o \in QueueObject, c \in Receiver : \A n :
            n \in 1..cursor[o][c] <=> Given(o, c, n)
BY DEF NothingSkipped, Given

\* What was given stays given, and only a read of c from o gives c more.
LEMMA GivenNext ==
    ASSUME ServerAssumption, TypeOK, [Next]_vars, NEW o, NEW c, NEW n,
           \A g \in Get : GetRead(g) => ~(Object(g) = o /\ Reader[g] = c)
    PROVE  Given(o, c, n)' <=> Given(o, c, n)
<1>1. ASSUME NEW g \in Get, GetRead(g)
      PROVE  ~HasRead(g) /\ ~(Object(g)' = o /\ Reader[g] = c)
  BY <1>1, ReadResult DEF Object
<1>2. ASSUME NEW g \in Get, ~GetRead(g)
      PROVE  /\ HasRead(g)' <=> HasRead(g)
             /\ HasRead(g) => Object(g)' = Object(g) /\ Window(g)' = Window(g)
  BY <1>2, OthersKeepReads DEF Object, Window
<1>3. ASSUME NEW g \in Get
      PROVE  (HasRead(g)' /\ Object(g)' = o /\ Reader[g] = c /\ n \in Window(g)')
             <=> (HasRead(g) /\ Object(g) = o /\ Reader[g] = c /\ n \in Window(g))
  BY <1>1, <1>2
<1> QED
  BY <1>3 DEF Given

\* A read gives its receiver all that lies between the two cursors.
LEMMA GivenRead ==
    ASSUME ServerAssumption, TypeOK, [Next]_vars, NEW g \in Get, GetRead(g), NEW n,
           n \in 1..cursor[Object(g)][Reader[g]] <=> Given(Object(g), Reader[g], n)
    PROVE  n \in 1..Len(log[Object(g)]) <=> Given(Object(g), Reader[g], n)'
<1> DEFINE o == Object(g)
           c == Reader[g]
<1>1. /\ ~HasRead(g) /\ HasRead(g)' /\ Object(g)' = o
      /\ Window(g)' = (StartOf(g) + 1)..Len(log[o])
  BY ReadResult DEF Object, Window
<1>2. /\ StartOf(g) \in Nat /\ Len(log[o]) \in Nat /\ cursor[o][c] \in Nat
      /\ StartOf(g) <= cursor[o][c] /\ cursor[o][c] <= Len(log[o])
  BY ReadMovesCursor DEF TypeOK
<1>3. ASSUME NEW h \in Get, h # g
      PROVE  (HasRead(h)' /\ Object(h)' = o /\ n \in Window(h)')
             <=> (HasRead(h) /\ Object(h) = o /\ n \in Window(h))
  <2>1. ~GetRead(h)
    BY <1>3, ReadResult
  <2>2. /\ HasRead(h)' <=> HasRead(h)
        /\ HasRead(h) => Object(h)' = Object(h) /\ Window(h)' = Window(h)
    BY <2>1, OthersKeepReads DEF Object, Window
  <2> QED BY <2>2
<1>4. Given(o, c, n)' <=> n \in Window(g)' \/ Given(o, c, n)
  <2>1. Given(o, c, n) <=>
          \E h \in Get \ {g} :
              HasRead(h) /\ Object(h) = o /\ Reader[h] = c /\ n \in Window(h)
    BY <1>1 DEF Given
  <2>2. Given(o, c, n)' <=>
          n \in Window(g)' \/ \E h \in Get \ {g} :
              HasRead(h)' /\ Object(h)' = o /\ Reader[h] = c /\ n \in Window(h)'
    BY <1>1 DEF Given
  <2> QED
    BY <1>3, <2>1, <2>2
<1> QED
  BY <1>1, <1>2, <1>4

LEMMA NothingSkippedNext ==
    ASSUME ServerAssumption, TypeOK, NothingSkipped, [Next]_vars
    PROVE  NothingSkipped'
<1> SUFFICES ASSUME NEW o \in QueueObject, NEW c \in Receiver, NEW n
             PROVE  n \in 1..cursor'[o][c] <=> Given(o, c, n)'
  BY DEF NothingSkipped, Given
<1>1. n \in 1..cursor[o][c] <=> Given(o, c, n)
  BY SkippedByPoint
<1>2. ASSUME NEW g \in Get, GetRead(g), Object(g) = o, Reader[g] = c
      PROVE  n \in 1..cursor'[o][c] <=> Given(o, c, n)'
  <2>1. cursor'[o][c] = Len(log[o]) /\ Object(g)' = o
    BY <1>2, ReadMovesCursor, ReadResult DEF Object
  <2> QED
    BY <1>1, <1>2, <2>1, GivenRead
<1>3. CASE \A g \in Get : GetRead(g) => ~(Object(g) = o /\ Reader[g] = c)
  <2>1. cursor'[o][c] = cursor[o][c]
    BY <1>3, ReadMovesCursor, OthersKeepCursors
  <2> QED
    BY <1>1, <1>3, <2>1, GivenNext
<1> QED
  BY <1>2, <1>3

\* All that lies behind a receiver's cursor was put into the channel of one of
\* that receiver's reads, whatever calls, stops and runs come between.
THEOREM NoneIsSkipped == ASSUME ServerAssumption PROVE Spec => []NothingSkipped
<1>1. Init => NothingSkipped
  BY SkippedByPoint DEF Init, Given, HasRead
<1>2. TypeOK /\ NothingSkipped /\ [Next]_vars => NothingSkipped'
  BY NothingSkippedNext
<1> QED
  BY <1>1, <1>2, Typing, PTL DEF Spec

-----------------------------------------------------------------------------
(* Batches are stored in order.                                            *)

\* A batch that has not been put has sent nothing.
NewSentNone == \A b \in Batch : put[b].at = "new" => put[b].sent = 0

\* Only the loop, taking a batch's next message, changes a queue or what has
\* been sent; and only PutMessages chooses the queue of a batch.
LEMMA OthersKeepLogs ==
    ASSUME ServerAssumption, TypeOK, NewSentNone, [Next]_vars,
           \A b \in Batch : ~Register(b)
    PROVE  /\ log' = log
           /\ \A b \in Batch : /\ put'[b].sent = put[b].sent
                               /\ put[b].at # "new" => /\ put'[b].run = put[b].run
                                                       /\ put'[b].at # "new"
                               /\ put'[b].at = "new" => put[b].at = "new"
<1> DEFINE Kept(d) ==
        /\ put'[d].sent = put[d].sent
        /\ put[d].at # "new" => put'[d].run = put[d].run /\ put'[d].at # "new"
        /\ put'[d].at = "new" => put[d].at = "new"
<1> SUFFICES log' = log /\ \A d \in Batch : Kept(d)
  OBVIOUS
<1>0. put \in [Batch -> PutState]
  BY DEF TypeOK
<1>1. CASE UNCHANGED <<log, put>>
  BY <1>1
<1>2. CASE UNCHANGED vars \/ \E w \in Runner : RunCheck(w) \/ RunSet(w)
  BY <1>1, <1>2 DEF vars, RunCheck, RunSet
<1>3. CASE \E r \in Run : Cancel(r) \/ StopperFires(r)
  BY <1>1, <1>3 DEF Cancel, StopperFires
<1>4. CASE \E o \in QueueObject : QueueStops(o)
  BY <1>1, <1>4 DEF QueueStops
<1>5. CASE \E g \in Get : GetCheck(g) \/ Getter(g)
  BY <1>1, <1>5 DEF GetCheck, Getter, GetLookup, GetContext, GetActive, GetRead,
                    GetSend, GetClose, GetQuit
<1>6. ASSUME NEW b \in Batch, PutMessages(b) \/ PutterQuits(b)
      PROVE  log' = log /\ \A d \in Batch : Kept(d)
  <2>1. CASE PutMessages(b)
    <3>1. put[b].sent = 0 /\ put[b].at = "new"
      BY <2>1 DEF PutMessages, NewSentNone
    <3>2. put'[b].sent = 0 /\ put'[b].at = "sending"
      BY <1>0, <2>1 DEF PutMessages
    <3>3. \A d \in Batch \ {b} : put'[d] = put[d]
      BY <1>0, <2>1 DEF PutMessages
    <3> QED
      BY <2>1, <3>1, <3>2, <3>3 DEF PutMessages
  <2>2. CASE PutterQuits(b)
    BY <1>0, <2>2 DEF PutterQuits, PutState
  <2> QED
    BY <1>6, <2>1, <2>2
<1> QED
  BY <1>2, <1>3, <1>4, <1>5, <1>6 DEF Next, Putter

\* A registration appends the batch's next message and counts it.
LEMMA RegisterResult ==
    ASSUME ServerAssumption, TypeOK, NEW b \in Batch, Register(b)
    PROVE  /\ Home(b) \in QueueObject /\ put[b].at # "new" /\ put'[b].at # "new"
           /\ put[b].sent \in Nat /\ put'[b].sent = put[b].sent + 1
           /\ log' = [log EXCEPT ![Home(b)] = Append(@, <<b, put[b].sent + 1>>)]
           /\ \A d \in Batch : put'[d].run = put[d].run
           /\ \A d \in Batch \ {b} : put'[d] = put[d]
<1>1. put \in [Batch -> PutState] /\ put[b].at = "sending" /\ put[b].sent \in Nat
  BY DEF TypeOK, PutState, Register
<1>2. Home(b) \in QueueObject
  BY <1>1, Objects
<1>3. /\ put'[b].sent = put[b].sent + 1 /\ put'[b].run = put[b].run
      /\ put'[b].at \in {"sending", "done"}
  BY <1>1 DEF Register, PutState
<1>4. \A d \in Batch \ {b} : put'[d] = put[d]
  BY <1>1 DEF Register
<1> QED
  BY <1>1, <1>2, <1>3, <1>4 DEF Register

\* A registration, seen from any queue.
LEMMA RegisterAppends ==
    ASSUME ServerAssumption, TypeOK, NEW b \in Batch, Register(b),
           NEW o \in QueueObject
    PROVE  \E m \in Message :
              /\ m[1] = b /\ m[2] = put[b].sent + 1
              /\ log'[o] = IF o = Home(b) THEN Append(log[o], m) ELSE log[o]
<1>1. put[b].sent \in Nat /\ log \in [QueueObject -> Seq(Message)]
  BY RegisterResult DEF TypeOK
<1>2. put[b].sent + 1 \in Nat \ {0}
  BY <1>1
<1>3. PICK m \in Message : m = <<b, put[b].sent + 1>>
  BY <1>2 DEF Message
<1>4. /\ Home(b) \in QueueObject
      /\ log' = [log EXCEPT ![Home(b)] = Append(log[Home(b)], m)]
  BY <1>3, RegisterResult
<1>5. log'[o] = IF o = Home(b) THEN Append(log[o], m) ELSE log[o]
  BY <1>1, <1>4
<1> QED
  BY <1>3, <1>5

LEMMA NewSentNoneNext ==
    ASSUME ServerAssumption, TypeOK, NewSentNone, [Next]_vars
    PROVE  NewSentNone'
<1>1. CASE \A d \in Batch : ~Register(d)
  BY <1>1, OthersKeepLogs DEF NewSentNone
<1>2. ASSUME NEW d \in Batch, Register(d) PROVE NewSentNone'
  BY <1>2, RegisterResult DEF NewSentNone
<1> QED BY <1>1, <1>2

\* The first i places of a sequence that hold a message of batch b.
Places(s, b, i) == {j \in 1..i : s[j][1] = b}

LEMMA PlacesAfterAppend ==
    ASSUME NEW s \in Seq(Message), NEW m \in Message, NEW b, NEW i \in 1..Len(s)
    PROVE  Places(Append(s, m), b, i) = Places(s, b, i)
<1>1. Len(s) \in Nat /\ \A j \in 1..i : Append(s, m)[j] = s[j]
  OBVIOUS
<1> QED
  BY <1>1 DEF Places

\* A message at the end of a queue adds to the count of its batch, and only
\* there.
LEMMA CountAfterAppend ==
    ASSUME NEW s \in Seq(Message), NEW m \in Message, NEW b
    PROVE  /\ Len(Append(s, m)) = Len(s) + 1 /\ Append(s, m)[Len(s) + 1] = m
           /\ \A i \in 1..Len(s) : Append(s, m)[i] = s[i]
           /\ Cardinality(Places(s, b, Len(s))) \in Nat
           /\ Cardinality(Places(Append(s, m), b, Len(s) + 1)) =
                 Cardinality(Places(s, b, Len(s))) + (IF m[1] = b THEN 1 ELSE 0)
<1> DEFINE L == Len(s)
           t == Append(s, m)
<1>1. /\ L \in Nat /\ Len(t) = L + 1 /\ t[L + 1] = m
      /\ \A i \in 1..L : t[i] = s[i]
  OBVIOUS
<1>3. IsFiniteSet(Places(s, b, L)) /\ Cardinality(Places(s, b, L)) \in Nat
  <2>1. IsFiniteSet(1..L)
    BY <1>1, FS_Interval
  <2>2. Places(s, b, L) \subseteq 1..L
    BY DEF Places
  <2> QED
    BY <2>1, <2>2, FS_Subset, FS_CardinalityType
<1>4. L + 1 \notin Places(s, b, L)
  BY <1>1 DEF Places
<1>5. Places(t, b, L + 1) = IF m[1] = b THEN Places(s, b, L) \cup {L + 1}
                                        ELSE Places(s, b, L)
  <2>1. 1..(L + 1) = (1..L) \cup {L + 1}
    BY <1>1
  <2> HIDE DEF L, t
  <2> QED
    BY <1>1, <2>1 DEF Places
<1>6. Cardinality(Places(s, b, L) \cup {L + 1}) = Cardinality(Places(s, b, L)) + 1
  BY <1>3, <1>4, FS_AddElement
<1>7. Cardinality(Places(t, b, L + 1)) =
        Cardinality(Places(s, b, L)) + (IF m[1] = b THEN 1 ELSE 0)
  BY <1>3, <1>5, <1>6
<1> QED
  BY <1>1, <1>3, <1>7

\* What a batch counts as sent is what its queue holds of it, and no other
\* queue holds anything of it.
Counted ==
    \A o \in QueueObject, b \in Batch :
        Cardinality(Places(log[o], b, Len(log[o]))) =
            IF put[b].at # "new" /\ o = Home(b) THEN put[b].sent ELSE 0

\* BatchFIFO with the batch's progress: queues hold messages of batches that
\* were put, in the queue they were put into, in their order.
InPlace(o, i) ==
    /\ put[log[o][i][1]].at # "new"
    /\ o = Home(log[o][i][1])
    /\ log[o][i][2] = Cardinality(Places(log[o], log[o][i][1], i))

Ordered == \A o \in QueueObject : \A i \in 1..Len(log[o]) : InPlace(o, i)

LEMMA OrderedIsFIFO == ASSUME TypeOK, Ordered PROVE BatchFIFO
<1>1. \A o \in QueueObject : log[o] \in Seq(Message)
  BY DEF TypeOK
<1>2. \A o \in QueueObject : DOMAIN log[o] = 1..Len(log[o])
  BY <1>1
<1> QED
  BY <1>2 DEF Ordered, InPlace, BatchFIFO, Places

LEMMA CountedNext ==
    ASSUME ServerAssumption, TypeOK, NewSentNone, Counted, [Next]_vars
    PROVE  Counted'
<1> SUFFICES ASSUME NEW o \in QueueObject, NEW b \in Batch
             PROVE  Cardinality(Places(log'[o], b, Len(log'[o]))) =
                      IF put'[b].at # "new" /\ o = Home(b)' THEN put'[b].sent ELSE 0
  BY DEF Counted, Places
<1>1. Cardinality(Places(log[o], b, Len(log[o]))) =
        IF put[b].at # "new" /\ o = Home(b) THEN put[b].sent ELSE 0
  BY DEF Counted
<1>2. CASE \A d \in Batch : ~Register(d)
  <2>1. log' = log /\ put'[b].sent = put[b].sent
    BY <1>2, OthersKeepLogs
  <2>2. CASE put[b].at = "new"
    BY <1>1, <2>1, <2>2 DEF NewSentNone
  <2>3. CASE put[b].at # "new"
    <3>1. put'[b].at # "new" /\ Home(b)' = Home(b)
      BY <1>2, <2>3, OthersKeepLogs DEF Home
    <3> QED
      BY <1>1, <2>1, <2>3, <3>1
  <2> QED BY <2>2, <2>3
<1>3. ASSUME NEW d \in Batch, Register(d)
      PROVE  Cardinality(Places(log'[o], b, Len(log'[o]))) =
               IF put'[b].at # "new" /\ o = Home(b)' THEN put'[b].sent ELSE 0
  <2>1. log[o] \in Seq(Message) /\ put[d].sent \in Nat /\ Home(b)' = Home(b)
    BY <1>3, RegisterResult DEF TypeOK, Home
  <2>2. PICK m \in Message :
          /\ m[1] = d
          /\ log'[o] = IF o = Home(d) THEN Append(log[o], m) ELSE log[o]
    BY <1>3, RegisterAppends
  <2>3. CASE o # Home(d)
    <3>1. log'[o] = log[o]
      BY <2>2, <2>3
    <3>2. b # d => put'[b] = put[b]
      BY <1>3, RegisterResult
    <3>3. b = d => o # Home(b)' /\ o # Home(b)
      BY <2>1, <2>3
    <3> QED
      BY <1>1, <2>1, <3>1, <3>2, <3>3
  <2>4. CASE o = Home(d)
    <3>0. log'[o] = Append(log[o], m)
      BY <2>2, <2>4
    <3>1. /\ Len(log'[o]) = Len(log[o]) + 1
          /\ Cardinality(Places(log'[o], b, Len(log'[o]))) =
               Cardinality(Places(log[o], b, Len(log[o]))) + (IF d = b THEN 1 ELSE 0)
          /\ Cardinality(Places(log[o], b, Len(log[o]))) \in Nat
      <4>1. /\ Len(Append(log[o], m)) = Len(log[o]) + 1
            /\ Cardinality(Places(Append(log[o], m), b, Len(log[o]) + 1)) =
                 Cardinality(Places(log[o], b, Len(log[o]))) + (IF m[1] = b THEN 1 ELSE 0)
            /\ Cardinality(Places(log[o], b, Len(log[o]))) \in Nat
        BY <2>1, CountAfterAppend
      <4> QED
        BY <2>2, <3>0, <4>1
    <3>2. CASE b = d
      <4>1. /\ put'[b].sent = put[b].sent + 1 /\ put[b].at # "new"
            /\ put'[b].at # "new"
        BY <1>3, <3>2, RegisterResult
      <4> QED
        BY <1>1, <2>1, <2>4, <3>1, <3>2, <4>1
    <3>3. CASE b # d
      <4>1. put'[b] = put[b]
        BY <1>3, <3>3, RegisterResult
      <4> QED
        BY <1>1, <2>1, <3>1, <3>3, <4>1
    <3> QED BY <3>2, <3>3
  <2> QED BY <2>3, <2>4
<1> QED
  BY <1>2, <1>3

LEMMA OrderedNext ==
    ASSUME ServerAssumption, TypeOK, NewSentNone, Counted, Ordered, [Next]_vars
    PROVE  Ordered'
<1> SUFFICES ASSUME NEW o \in QueueObject, NEW i \in 1..Len(log'[o])
             PROVE  InPlace(o, i)'
  BY DEF Ordered
<1>1. log[o] \in Seq(Message) /\ Len(log[o]) \in Nat
  BY DEF TypeOK
<1>2. ASSUME i \in 1..Len(log[o]), NEW b, b = log[o][i][1]
      PROVE  /\ put'[b].at # "new" /\ o = Home(b)'
             /\ log[o][i][2] = Cardinality(Places(log[o], b, i))
  <2>1. log[o][i] \in Message /\ InPlace(o, i)
    BY <1>1, <1>2 DEF Ordered
  <2>2. /\ b \in Batch /\ put[b].at # "new" /\ o = Home(b)
        /\ log[o][i][2] = Cardinality(Places(log[o], b, i))
    BY <1>2, <2>1 DEF Message, InPlace
  <2>3. put'[b].at # "new" /\ put'[b].run = put[b].run
    <3>1. CASE \A d \in Batch : ~Register(d)
      BY <2>2, <3>1, OthersKeepLogs
    <3>2. ASSUME NEW d \in Batch, Register(d)
          PROVE  put'[b].at # "new" /\ put'[b].run = put[b].run
      <4>1. b = d \/ put'[b] = put[b]
        BY <2>2, <3>2, RegisterResult
      <4> QED
        BY <2>2, <3>2, <4>1, RegisterResult
    <3> QED BY <3>1, <3>2
  <2> QED
    BY <2>2, <2>3 DEF Home
<1>3. ASSUME i \in 1..Len(log[o]), log'[o][i] = log[o][i],
             Places(log'[o], log[o][i][1], i) = Places(log[o], log[o][i][1], i)
      PROVE  InPlace(o, i)'
  <2> DEFINE b == log[o][i][1]
  <2>1. /\ put'[b].at # "new" /\ o = Home(b)'
        /\ log[o][i][2] = Cardinality(Places(log[o], b, i))
    BY <1>2, <1>3
  <2> QED
    BY <1>3, <2>1 DEF InPlace
<1>4. CASE \A d \in Batch : ~Register(d)
  BY <1>3, <1>4, OthersKeepLogs
<1>5. ASSUME NEW d \in Batch, Register(d) PROVE InPlace(o, i)'
  <2>1. PICK m \in Message :
          /\ m[1] = d /\ m[2] = put[d].sent + 1
          /\ log'[o] = IF o = Home(d) THEN Append(log[o], m) ELSE log[o]
    BY <1>5, RegisterAppends
  <2>2. CASE o # Home(d)
    BY <1>3, <2>1, <2>2
  <2>3. ASSUME o = Home(d), i \in 1..Len(log[o]) PROVE InPlace(o, i)'
    <3>1. log'[o] = Append(log[o], m)
      BY <2>1, <2>3
    <3>2. log'[o][i] = log[o][i]
      BY <1>1, <2>3, <3>1, CountAfterAppend
    <3>3. Places(log'[o], log[o][i][1], i) = Places(log[o], log[o][i][1], i)
      <4> DEFINE s == log[o]
                 b == log[o][i][1]
      <4>1. s \in Seq(Message) /\ i \in 1..Len(s) /\ m \in Message
        BY <1>1, <2>1, <2>3
      <4> HIDE DEF s, b
      <4>2. Places(Append(s, m), b, i) = Places(s, b, i)
        BY <4>1, PlacesAfterAppend
      <4> QED
        BY <3>1, <4>2 DEF s, b
    <3> QED
      BY <1>3, <2>3, <3>2, <3>3
  <2>4. ASSUME o = Home(d), i \notin 1..Len(log[o]) PROVE InPlace(o, i)'
    <3>1. log'[o] = Append(log[o], m)
      BY <2>1, <2>4
    <3>2. /\ Len(log'[o]) = Len(log[o]) + 1 /\ log'[o][Len(log[o]) + 1] = m
          /\ Cardinality(Places(log'[o], d, Len(log[o]) + 1)) =
               Cardinality(Places(log[o], d, Len(log[o]))) + 1
      BY <1>1, <2>1, <3>1, CountAfterAppend
    <3>3. i = Len(log[o]) + 1
      BY <1>1, <2>4, <3>2
    <3>4. /\ put[d].at # "new" /\ put'[d].at # "new" /\ Home(d)' = Home(d)
      BY <1>5, RegisterResult DEF Home
    <3>5. Cardinality(Places(log[o], d, Len(log[o]))) = put[d].sent
      BY <2>4, <3>4 DEF Counted
    <3>6. log'[o][i] = m
      BY <3>2, <3>3
    <3> QED
      BY <2>1, <2>4, <3>2, <3>3, <3>4, <3>5, <3>6 DEF InPlace
  <2> QED BY <2>2, <2>3, <2>4
<1> QED
  BY <1>4, <1>5

\* A batch is stored message by message in its order, each message once, in the
\* queue that PutMessages found, however batches and runs overlap.
THEOREM BatchesAreFIFO == ASSUME ServerAssumption PROVE Spec => []BatchFIFO
<1>1. Init => NewSentNone /\ Counted /\ Ordered
  <2>1. ASSUME Init PROVE NewSentNone /\ Counted /\ Ordered
    <3>1. \A o \in QueueObject : log[o] = <<>>
      BY <2>1 DEF Init
    <3>2. \A b : Places(<<>>, b, 0) = {}
      BY DEF Places
    <3>3. \A o \in QueueObject, b \in Batch :
              Cardinality(Places(log[o], b, Len(log[o]))) = 0
      BY <3>1, <3>2, FS_EmptySet
    <3> QED
      BY <2>1, <3>1, <3>3 DEF Init, NewSentNone, Counted, Ordered
  <2> QED BY <2>1
<1>2. TypeOK /\ NewSentNone /\ [Next]_vars => NewSentNone'
  BY NewSentNoneNext
<1>3. TypeOK /\ NewSentNone /\ Counted /\ [Next]_vars => Counted'
  BY CountedNext
<1>4. TypeOK /\ NewSentNone /\ Counted /\ Ordered /\ [Next]_vars => Ordered'
  BY OrderedNext
<1>5. TypeOK /\ Ordered => BatchFIFO
  BY OrderedIsFIFO
<1> QED
  BY <1>1, <1>2, <1>3, <1>4, <1>5, Typing, PTL DEF Spec
=============================================================================
