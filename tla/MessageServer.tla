--------------------------- MODULE MessageServer ---------------------------
(***************************************************************************)
(* The message server: ms/mserver.go and ms/mqueue.go.                     *)
(*                                                                         *)
(* Each successful Run gives the server a fresh context and an empty map   *)
(* of queues; run r stands for that context.  A queue made while run r is  *)
(* the current one lives in <<name, r>>: its loop, and the goroutines that *)
(* put messages into it, end with r.  Goroutines and callers of an earlier *)
(* run may still be on their way when a later run starts.                  *)
(*                                                                         *)
(* Events for the event server are left out; so are the argument checks,   *)
(* which return before any state is read.                                  *)
(***************************************************************************)
EXTENDS Integers, Sequences, FiniteSets

CONSTANTS
    Queue,      \* queue names
    Receiver,   \* receiver ids
    Runner,     \* goroutines that call Run
    Batch,      \* PutMessages calls
    Size,       \* batch -> the number of its messages
    Target,     \* batch -> the queue it is put into
    Get,        \* GetMessages calls
    Reader,     \* get -> its receiver
    Source,     \* get -> the queue it reads
    FromBegin,  \* the gets called with fromBegin
    MaxRuns     \* bound: successful Run calls

ASSUME ServerAssumption ==
    /\ Size \in [Batch -> Nat \ {0}]
    /\ Target \in [Batch -> Queue]
    /\ Reader \in [Get -> Receiver]
    /\ Source \in [Get -> Queue]
    /\ FromBegin \subseteq Get
    /\ MaxRuns \in Nat

Run == 1..MaxRuns
QueueObject == Queue \X Run
Message == Batch \X (Nat \ {0})

VARIABLES
    runned,     \* MessageServer.runned
    ctx,        \* MessageServer.ctx: the run last started, 0 before the first
    cancelled,  \* runs whose context is cancelled
    starting,   \* runners past Run's IsRunned check
    stoppers,   \* runs whose stopper goroutine has not fired
    queues,     \* MessageServer.queues: name -> run of its queue, 0 if absent
    active,     \* queue objects whose loop runs (mQueue.runned)
    log,        \* queue object -> mQueue.messages
    cursor,     \* queue object -> receiver -> mQueue.lastReaded
    put,        \* batch -> where its PutMessages is, and its sent messages
    get         \* get -> where its GetMessages is, and what it captured

server == <<runned, ctx, cancelled, starting, stoppers>>
vars == <<server, queues, active, log, cursor, put, get>>

-----------------------------------------------------------------------------
(* Running and stopping the server.                                        *)

\* Run reads the flag under the lock, and lets the lock go ...
RunCheck(w) ==
    /\ w \notin starting
    /\ ~runned
    /\ starting' = starting \cup {w}
    /\ UNCHANGED <<runned, ctx, cancelled, stoppers, queues, active, log,
                   cursor, put, get>>

\* Mutated form: the map of queues is kept.
RunSetKeepsQueues(w) ==
    /\ w \in starting
    /\ ctx < MaxRuns
    /\ starting' = starting \ {w}
    /\ runned' = TRUE
    /\ ctx' = ctx + 1
    /\ stoppers' = stoppers \cup {ctx + 1}
    /\ UNCHANGED <<cancelled, queues, active, log, cursor, put, get>>

\* ... then replaces the queues and the context, whatever happened between.
RunSet(w) ==
    /\ w \in starting
    /\ ctx < MaxRuns
    /\ starting' = starting \ {w}
    /\ runned' = TRUE
    /\ ctx' = ctx + 1
    /\ stoppers' = stoppers \cup {ctx + 1}
    /\ queues' = [q \in Queue |-> 0]
    /\ UNCHANGED <<cancelled, active, log, cursor, put, get>>

\* The owner of a run's context cancels it.
Cancel(r) ==
    /\ r \in 1..ctx
    /\ r \notin cancelled
    /\ cancelled' = cancelled \cup {r}
    /\ UNCHANGED <<runned, ctx, starting, stoppers, queues, active, log,
                   cursor, put, get>>

\* Mutated form: the stopper leaves the flag of the run alone.
StopperKeepsFlag(r) ==
    /\ r \in stoppers
    /\ r \in cancelled
    /\ stoppers' = stoppers \ {r}
    /\ UNCHANGED <<runned, ctx, cancelled, starting, queues, active, log, cursor,
                   put, get>>

\* The goroutine Run started clears the flag, of whichever run it is by now.
StopperFires(r) ==
    /\ r \in stoppers
    /\ r \in cancelled
    /\ stoppers' = stoppers \ {r}
    /\ runned' = FALSE
    /\ UNCHANGED <<ctx, cancelled, starting, queues, active, log, cursor,
                   put, get>>

-----------------------------------------------------------------------------
(* Putting messages.                                                       *)

ObjectOf(q) == <<q, queues[q]>>
Home(b) == <<Target[b], put[b].run>>

\* (put[b].run is the run of the queue object found, ctx the run whose context
\* the sending goroutine watches.)

\* All of it under the server's lock: the check, a new queue with its loop if
\* there is none, isActive, and the goroutine that sends the batch.
PutMessages(b) ==
    LET q == Target[b] IN
    /\ put[b].at = "new"
    /\ runned
    /\ queues[q] # 0 => ObjectOf(q) \in active
    /\ queues' = [queues EXCEPT ![q] = IF @ = 0 THEN ctx ELSE @]
    /\ active' = active \cup {<<q, queues'[q]>>}
    /\ put' = [put EXCEPT ![b] = [at |-> "sending", run |-> queues'[q],
                                ctx |-> ctx, sent |-> 0]]
    /\ UNCHANGED <<server, log, cursor, get>>

\* Mutated form: the loop puts the message in front.
RegisterInFront(b) ==
    LET n == put[b].sent + 1 IN
    /\ put[b].at = "sending"
    /\ Home(b) \in active
    /\ log' = [log EXCEPT ![Home(b)] = <<<<b, n>>>> \o @]
    /\ put' = [put EXCEPT ![b].sent = n,
                          ![b].at = IF n = Size[b] THEN "done" ELSE @]
    /\ UNCHANGED <<server, queues, active, cursor, get>>

\* Mutated form: the loop returns after one message.
RegisterOnce(b) ==
    LET n == put[b].sent + 1 IN
    /\ put[b].at = "sending"
    /\ Home(b) \in active
    /\ log' = [log EXCEPT ![Home(b)] = Append(@, <<b, n>>)]
    /\ active' = active \ {Home(b)}
    /\ put' = [put EXCEPT ![b].sent = n,
                          ![b].at = IF n = Size[b] THEN "done" ELSE @]
    /\ UNCHANGED <<server, queues, cursor, get>>

\* The queue's loop takes the batch's next message and appends it.
Register(b) ==
    LET n == put[b].sent + 1 IN
    /\ put[b].at = "sending"
    /\ Home(b) \in active
    /\ log' = [log EXCEPT ![Home(b)] = Append(@, <<b, n>>)]
    /\ put' = [put EXCEPT ![b].sent = n,
                          ![b].at = IF n = Size[b] THEN "done" ELSE @]
    /\ UNCHANGED <<server, queues, active, cursor, get>>

PutterQuits(b) ==
    /\ put[b].at = "sending"
    /\ put[b].ctx \in cancelled
    /\ put' = [put EXCEPT ![b].at = "dropped"]
    /\ UNCHANGED <<server, queues, active, log, cursor, get>>

QueueStops(o) ==
    /\ o \in active
    /\ o[2] \in cancelled
    /\ active' = active \ {o}
    /\ UNCHANGED <<server, queues, log, cursor, put, get>>

-----------------------------------------------------------------------------
(* Getting messages.  get[g].run is the run of the queue object found,     *)
(* ctx the run whose context the sending goroutine watches.                *)

Object(g) == <<Source[g], get[g].run>>

GetCheck(g) ==
    /\ get[g].at = "new"
    /\ runned
    /\ get' = [get EXCEPT ![g].at = "checked"]
    /\ UNCHANGED <<server, queues, active, log, cursor, put>>

GetLookup(g) ==
    /\ get[g].at = "checked"
    /\ get' = [get EXCEPT ![g].at = IF queues[Source[g]] = 0 THEN "failed"
                                                             ELSE "found",
                          ![g].run = queues[Source[g]]]
    /\ UNCHANGED <<server, queues, active, log, cursor, put>>

\* mSrv.ctx is read with no lock, after the lookup.
GetContext(g) ==
    /\ get[g].at = "found"
    /\ get' = [get EXCEPT ![g].at = "bound", ![g].ctx = ctx]
    /\ UNCHANGED <<server, queues, active, log, cursor, put>>

GetActive(g) ==
    /\ get[g].at = "bound"
    /\ get' = [get EXCEPT ![g].at = IF Object(g) \in active THEN "reading"
                                                            ELSE "failed"]
    /\ UNCHANGED <<server, queues, active, log, cursor, put>>

\* Mutated form: the read begins after the next message.
StartOfNext(g) ==
    IF g \in FromBegin THEN 0
    ELSE IF cursor[Object(g)][Reader[g]] < Len(log[Object(g)])
         THEN cursor[Object(g)][Reader[g]] + 1
         ELSE cursor[Object(g)][Reader[g]]

\* Where the read begins.
StartOf(g) ==
    IF g \in FromBegin THEN 0 ELSE cursor[Object(g)][Reader[g]]

\* Mutated form: lastReaded is the index of the last message read.
GetReadLastIndex(g) ==
    LET end == Len(log[Object(g)]) IN
    /\ get[g].at = "reading"
    /\ get' = [get EXCEPT ![g].at = "sending", ![g].from = StartOf(g),
                          ![g].got = StartOf(g), ![g].to = end]
    /\ cursor' = [cursor EXCEPT ![Object(g)][Reader[g]] = IF end = 0 THEN 0 ELSE end - 1]
    /\ UNCHANGED <<server, queues, active, log, put>>

\* Under the queue's lock: copy what is there, move the receiver's cursor.
GetRead(g) ==
    LET end == Len(log[Object(g)]) IN
    /\ get[g].at = "reading"
    /\ get' = [get EXCEPT ![g].at = "sending", ![g].from = StartOf(g),
                          ![g].got = StartOf(g), ![g].to = end]
    /\ cursor' = [cursor EXCEPT ![Object(g)][Reader[g]] = end]
    /\ UNCHANGED <<server, queues, active, log, put>>

\* The caller receives one message from the channel.
GetSend(g) ==
    /\ get[g].at = "sending"
    /\ get[g].got < get[g].to
    /\ get' = [get EXCEPT ![g].got = @ + 1]
    /\ UNCHANGED <<server, queues, active, log, cursor, put>>

\* Mutated form: the channel is closed only after a message was sent.
GetCloseIfAny(g) ==
    /\ get[g].at = "sending"
    /\ get[g].got = get[g].to
    /\ get[g].from < get[g].to
    /\ get' = [get EXCEPT ![g].at = "closed"]
    /\ UNCHANGED <<server, queues, active, log, cursor, put>>

GetClose(g) ==
    /\ get[g].at = "sending"
    /\ get[g].got = get[g].to
    /\ get' = [get EXCEPT ![g].at = "closed"]
    /\ UNCHANGED <<server, queues, active, log, cursor, put>>

\* On cancellation the goroutine returns and the channel stays open.
GetQuit(g) ==
    /\ get[g].at = "sending"
    /\ get[g].got < get[g].to
    /\ get[g].ctx \in cancelled
    /\ get' = [get EXCEPT ![g].at = "abandoned"]
    /\ UNCHANGED <<server, queues, active, log, cursor, put>>

-----------------------------------------------------------------------------
Init ==
    /\ runned = FALSE
    /\ ctx = 0
    /\ cancelled = {}
    /\ starting = {}
    /\ stoppers = {}
    /\ queues = [q \in Queue |-> 0]
    /\ active = {}
    /\ log = [o \in QueueObject |-> <<>>]
    /\ cursor = [o \in QueueObject |-> [c \in Receiver |-> 0]]
    /\ put = [b \in Batch |-> [at |-> "new", run |-> 0, ctx |-> 0, sent |-> 0]]
    /\ get = [g \in Get |->
                [at |-> "new", run |-> 0, ctx |-> 0, from |-> 0, got |-> 0, to |-> 0]]

Putter(b) == Register(b) \/ PutterQuits(b)

Getter(g) ==
    GetLookup(g) \/ GetContext(g) \/ GetActive(g) \/ GetRead(g)
    \/ GetSend(g) \/ GetClose(g) \/ GetQuit(g)

Next ==
    \/ \E w \in Runner : RunCheck(w) \/ RunSet(w)
    \/ \E r \in Run : Cancel(r) \/ StopperFires(r)
    \/ \E b \in Batch : PutMessages(b) \/ Putter(b)
    \/ \E o \in QueueObject : QueueStops(o)
    \/ \E g \in Get : GetCheck(g) \/ Getter(g)

Spec == Init /\ [][Next]_vars

\* Goroutines run; so does a GetMessages call that began, and its caller
\* keeps receiving.  Nobody has to call, run or cancel.
FairSpec ==
    /\ Spec
    /\ \A b \in Batch : WF_vars(Putter(b))
    /\ \A g \in Get : WF_vars(Getter(g))
    /\ \A r \in Run : WF_vars(StopperFires(r))
    /\ \A o \in QueueObject : WF_vars(QueueStops(o))

-----------------------------------------------------------------------------
(* Properties.                                                             *)

PutState == [at : {"new", "sending", "done", "dropped"}, run : 0..MaxRuns,
             ctx : 0..MaxRuns, sent : Nat]
GetState == [at : {"new", "checked", "found", "bound", "reading", "sending",
                   "closed", "abandoned", "failed"},
             run : 0..MaxRuns, ctx : 0..MaxRuns, from : Nat, got : Nat, to : Nat]

\* Each variable has its type, every captured run is one that started, and no
\* cursor is beyond the end of its queue (q.messages[from:] would panic).
TypeOK ==
    /\ runned \in BOOLEAN
    /\ ctx \in 0..MaxRuns
    /\ runned => ctx # 0
    /\ cancelled \subseteq 1..ctx
    /\ starting \subseteq Runner
    /\ stoppers \subseteq 1..ctx
    /\ queues \in [Queue -> 0..ctx]
    /\ active \subseteq Queue \X (1..ctx)
    /\ log \in [QueueObject -> Seq(Message)]
    /\ cursor \in [QueueObject -> [Receiver -> Nat]]
    /\ \A o \in QueueObject, c \in Receiver : cursor[o][c] <= Len(log[o])
    /\ put \in [Batch -> PutState]
    /\ \A b \in Batch : put[b].at # "new" => put[b].run \in 1..ctx
    /\ get \in [Get -> GetState]
    /\ \A g \in Get :
          get[g].at \notin {"new", "checked", "failed"} => get[g].run \in 1..ctx

\* ms/README "all of them are storing into the same queue in the FIFO order":
\* what has been registered of a batch is a prefix of it, each message once,
\* in order, in the queue PutMessages chose, and nowhere else, whatever other
\* batches, stops and runs come between.
BatchFIFO ==
    \A o \in QueueObject :
        \A i \in DOMAIN log[o] :
            LET b == log[o][i][1]
                n == log[o][i][2]
            IN /\ o = Home(b)
               /\ n = Cardinality({j \in 1..i : log[o][j][1] = b})

HasRead(g) == get[g].at \in {"sending", "closed", "abandoned"}
Window(g) == (get[g].from + 1)..get[g].to

\* ms/README "only new messages would be returned": two plain reads of one
\* queue for one receiver never hand out the same message, even when the calls
\* run concurrently.
ReadOnce ==
    \A g, h \in Get \ FromBegin :
        (g # h /\ HasRead(g) /\ HasRead(h) /\ Object(g) = Object(h)
           /\ Reader[g] = Reader[h]) => Window(g) \cap Window(h) = {}

\* Nothing is passed over: all that lies behind a receiver's cursor was put
\* into the channel of one of that receiver's reads.
NothingSkipped ==
    \A o \in QueueObject, c \in Receiver :
        1..cursor[o][c] = UNION {Window(g) : g \in
            {h \in Get : HasRead(h) /\ Object(h) = o /\ Reader[h] = c}}

\* A receiver's cursor in a queue never goes back, not even by fromBegin.
CursorsGoForward ==
    [][\A o \in QueueObject, c \in Receiver : cursor'[o][c] >= cursor[o][c]]_vars

\* The queues a running server serves all belong to its current run, so a
\* batch is never accepted into a queue whose loop follows another context.
NoStaleQueue ==
    /\ \A q \in Queue : queues[q] \in {0, ctx}
    /\ \A b \in Batch : put[b].run = put[b].ctx

\* ms/README "To stop the Message Server user should invoke cancel", "In case
\* the Server is stopped early, all the queues ... will be deleted": until its
\* context is cancelled a run keeps running and keeps its queues.
RunLastsUntilCancel ==
    /\ (ctx # 0 /\ ctx \notin cancelled) => runned
    /\ \A b \in Batch :
          (put[b].at # "new" /\ put[b].ctx \notin cancelled) =>
              queues[Target[b]] = put[b].run

\* An accepted batch is registered to its end, unless its run is cancelled.
AcceptedIsRegistered ==
    \A b \in Batch :
        put[b].at = "sending" ~> (put[b].at = "done" \/ put[b].ctx \in cancelled)

\* ms/README "Server stops processing of all the registered queues": when its
\* context is cancelled a run is over in the end and stays so, whichever calls
\* are let in before the stopper fires, a new queue made on the cancelled context
\* included: no loop, no batch on its way, no read that watches the context, and
\* no running flag unless another run has begun.
CancelEmpties ==
    \A r \in Run :
        r \in cancelled ~>
            [](/\ ctx = r => ~runned
               /\ \A q \in Queue : <<q, r>> \notin active
               /\ \A b \in Batch : put[b].ctx = r => put[b].at # "sending"
               /\ \A g \in Get : get[g].ctx = r =>
                     get[g].at \notin {"bound", "reading", "sending"})

\* A GetMessages call ends: with an error, or its channel is closed, unless
\* the context it watches is cancelled.
GetEnds ==
    \A g \in Get :
        get[g].at = "checked" ~>
            (get[g].at \in {"failed", "closed"} \/ get[g].ctx \in cancelled)

=============================================================================
