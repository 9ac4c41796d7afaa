--------------------------- MODULE ServiceServer ---------------------------
(***************************************************************************)
(* The service server: s2/s2.go without WaitForService and statistics.     *)
(*                                                                         *)
(* A request to run a service, by ExecService or by ResumeService, travels *)
(* through four goroutines: its caller, the one ExecService starts, the    *)
(* server's loop, and the one the loop starts to run the service's body.   *)
(* at[c] is how far request c has come.  The service's state is a variable *)
(* all of these goroutines, and StopService's, overwrite on their way.     *)
(*                                                                         *)
(* Run r stands for the context, the loop and the svcRunCh of the server's *)
(* r-th Run.  Calls of Run come one after another here.  sSrv.Lock is held *)
(* across a step boundary by ResumeService only, from its look at the      *)
(* state, which it takes without the service's own mutex, to the send.     *)
(* Events for the event server are left out.                               *)
(***************************************************************************)
EXTENDS Integers

CONSTANTS
    Service,    \* services
    Stoppable,  \* the services registered with a stopChannel
    Exec,       \* ExecService calls, those by AddService included
    Resume,     \* ResumeService calls
    StopCall,   \* StopService calls
    Of,         \* call -> its service
    MaxRuns     \* bound: successful Run calls

Request == Exec \cup Resume

ASSUME ServiceAssumption ==
    /\ Stoppable \subseteq Service
    /\ Exec \cap Resume = {}
    /\ Of \in [Request \cup StopCall -> Service]
    /\ MaxRuns \in Nat

VARIABLES
    runned,     \* ServiceServer.runned
    ctx,        \* the run whose context and channel the server has, 0 at first
    cancelled,  \* runs whose context is cancelled
    loop,       \* the loop of run ctx: "select", "stopping" or "ended"
    state,      \* service -> its state, "absent" before AddService
    at,         \* request -> its stage
    run,        \* request -> the run on whose channel it is offered
    stop,       \* stop call -> its stage
    stopRun     \* stop call -> the run whose context it watches

server == <<runned, ctx, cancelled, loop>>
vars == <<server, state, at, run, stop, stopRun>>

SvcState == {"absent", "Registered", "Ready", "Running", "Ended", "Failed"}

Stage ==
    {"new",
     "called",     \* ExecService found the server runned
     "accepted",   \* ExecService returned; its goroutine has not run
     "ready",      \* the goroutine set the service Ready
     "offering",   \* the goroutine sends the id to svcRunCh
     "checked",    \* ResumeService found the service not Running
     "resuming",   \* ResumeService set it Ready and sends the id
     "received",   \* the loop has the id and wants sSrv.Lock
     "spawned",    \* the loop found the service Ready and started a runner
     "running",    \* the body runs
     "stopped",    \* the body received from its stopChannel and winds up
     "ok", "err",  \* the body returned nil, an error
     "finished",   \* the runner set the final state
     "skipped",    \* the loop found the service not Ready
     "dropped"}    \* the goroutine left because its context was cancelled

StopStage ==
    {"new",
     "called",     \* StopService found the server runned ...
     "found",      \* ... and the service registered
     "accepted",   \* it found the service Running and returned
     "offering",   \* its goroutine sends to the stopChannel
     "sent",       \* a body received
     "done",       \* the goroutine set the service Ended
     "dropped"}    \* the goroutine left because its context was cancelled

\* sSrv.Lock
LockFree == \A c \in Request : at[c] \notin {"checked", "resuming"}
LoopIdle == loop = "select" /\ \A c \in Request : at[c] # "received"

Becomes(c, stage) == at' = [at EXCEPT ![c] = stage]
SetState(s, ns) == state' = [state EXCEPT ![s] = ns]

-----------------------------------------------------------------------------
(* The server.                                                             *)

RunServer ==
    /\ LockFree
    /\ ~runned
    /\ ctx < MaxRuns
    /\ runned' = TRUE
    /\ ctx' = ctx + 1
    /\ loop' = "select"
    /\ UNCHANGED <<cancelled, state, at, run, stop, stopRun>>

Cancel ==
    /\ ctx # 0
    /\ ctx \notin cancelled
    /\ cancelled' = cancelled \cup {ctx}
    /\ UNCHANGED <<runned, ctx, loop, state, at, run, stop, stopRun>>

\* The loop takes ctx.Done ...
LoopDone ==
    /\ LoopIdle
    /\ ctx \in cancelled
    /\ loop' = "stopping"
    /\ UNCHANGED <<runned, ctx, cancelled, state, at, run, stop, stopRun>>

\* Mutated form: the flag is not cleared.
LoopEndsKeepsFlag ==
    /\ loop = "stopping"
    /\ LockFree
    /\ loop' = "ended"
    /\ UNCHANGED <<runned, ctx, cancelled, state, at, run, stop, stopRun>>

\* ... and needs sSrv.Lock to clear the flag.
LoopEnds ==
    /\ loop = "stopping"
    /\ LockFree
    /\ loop' = "ended"
    /\ runned' = FALSE
    /\ UNCHANGED <<ctx, cancelled, state, at, run, stop, stopRun>>

\* The loop receives an id.  For ResumeService this is the end of the call:
\* it returns and sSrv.Lock is free again.
LoopReceives(c) ==
    /\ LoopIdle
    /\ at[c] \in {"offering", "resuming"}
    /\ run[c] = ctx
    /\ Becomes(c, "received")
    /\ UNCHANGED <<server, state, run, stop, stopRun>>

\* Mutated form: the loop returns on a service that is not Ready.
LoopTakesOrReturns(c) ==
    /\ at[c] = "received"
    /\ LockFree
    /\ Becomes(c, IF state[Of[c]] = "Ready" THEN "spawned" ELSE "skipped")
    /\ loop' = IF state[Of[c]] = "Ready" THEN loop ELSE "ended"
    /\ UNCHANGED <<runned, ctx, cancelled, state, run, stop, stopRun>>

\* The loop looks the service up under sSrv.Lock and checks its state.
LoopTakes(c) ==
    /\ at[c] = "received"
    /\ LockFree
    /\ Becomes(c, IF state[Of[c]] = "Ready" THEN "spawned" ELSE "skipped")
    /\ UNCHANGED <<server, state, run, stop, stopRun>>

\* The runner sets Running and calls the body.
RunnerStarts(c) ==
    /\ at[c] = "spawned"
    /\ Becomes(c, "running")
    /\ SetState(Of[c], "Running")
    /\ UNCHANGED <<server, run, stop, stopRun>>

\* The body returns: by itself, on its context, or because it was stopped.
BodyReturns(c, result) ==
    /\ at[c] \in {"running", "stopped"}
    /\ Becomes(c, result)
    /\ UNCHANGED <<server, state, run, stop, stopRun>>

\* Mutated form: the runner returns on an error before it sets the state.
RunnerEndsIfOk(c) ==
    /\ at[c] \in {"ok", "err"}
    /\ Becomes(c, "finished")
    /\ state' = IF at[c] = "ok" THEN [state EXCEPT ![Of[c]] = "Ended"] ELSE state
    /\ UNCHANGED <<server, run, stop, stopRun>>

RunnerEnds(c) ==
    /\ at[c] \in {"ok", "err"}
    /\ Becomes(c, "finished")
    /\ SetState(Of[c], IF at[c] = "ok" THEN "Ended" ELSE "Failed")
    /\ UNCHANGED <<server, run, stop, stopRun>>

-----------------------------------------------------------------------------
(* Callers.                                                                *)

AddService(s) ==
    /\ LockFree
    /\ state[s] = "absent"
    /\ SetState(s, "Registered")
    /\ UNCHANGED <<server, at, run, stop, stopRun>>

\* ExecService and StopService ask IsRunned first, in a section of its own:
\* what follows may happen after the loop ended.
ExecCalled(c) ==
    /\ LockFree
    /\ runned
    /\ at[c] = "new"
    /\ Becomes(c, "called")
    /\ UNCHANGED <<server, state, run, stop, stopRun>>

\* ExecService only checks the state; Ready is left to its goroutine.
ExecService(c) ==
    /\ LockFree
    /\ at[c] = "called"
    /\ state[Of[c]] = "Registered"
    /\ Becomes(c, "accepted")
    /\ UNCHANGED <<server, state, run, stop, stopRun>>

ExecReady(c) ==
    /\ at[c] = "accepted"
    /\ Becomes(c, "ready")
    /\ SetState(Of[c], "Ready")
    /\ UNCHANGED <<server, run, stop, stopRun>>

\* The goroutine enters its select: sSrv.ctx and svcRunCh are read now.
ExecOffers(c) ==
    /\ at[c] = "ready"
    /\ Becomes(c, "offering")
    /\ run' = [run EXCEPT ![c] = ctx]
    /\ UNCHANGED <<server, state, stop, stopRun>>

ExecQuits(c) ==
    /\ at[c] = "offering"
    /\ run[c] \in cancelled
    /\ Becomes(c, "dropped")
    /\ UNCHANGED <<server, state, run, stop, stopRun>>

\* ResumeService checks neither the running flag nor a context ...
ResumeChecks(c) ==
    /\ LockFree
    /\ at[c] = "new"
    /\ Of[c] \in Stoppable
    /\ state[Of[c]] \notin {"absent", "Running"}
    /\ Becomes(c, "checked")
    /\ UNCHANGED <<server, state, run, stop, stopRun>>

\* ... sets Ready over whatever the state is by then, and keeps sSrv.Lock until
\* the loop receives.  The channel is nil before the first Run.
ResumeService(c) ==
    /\ at[c] = "checked"
    /\ Becomes(c, "resuming")
    /\ SetState(Of[c], "Ready")
    /\ run' = [run EXCEPT ![c] = ctx]
    /\ UNCHANGED <<server, stop, stopRun>>

StopBecomes(p, stage) == stop' = [stop EXCEPT ![p] = stage]

StopCalled(p) ==
    /\ LockFree
    /\ runned
    /\ stop[p] = "new"
    /\ StopBecomes(p, "called")
    /\ UNCHANGED <<server, state, at, run, stopRun>>

StopFinds(p) ==
    /\ LockFree
    /\ stop[p] = "called"
    /\ state[Of[p]] # "absent"
    /\ StopBecomes(p, "found")
    /\ UNCHANGED <<server, state, at, run, stopRun>>

\* The state is read with the service's own mutex only.
StopService(p) ==
    /\ stop[p] = "found"
    /\ Of[p] \in Stoppable
    /\ state[Of[p]] = "Running"
    /\ StopBecomes(p, "accepted")
    /\ UNCHANGED <<server, state, at, run, stopRun>>

\* Mutated form: the state is set before the service is told to stop.
StopOffersMarked(p) ==
    /\ stop[p] = "accepted"
    /\ StopBecomes(p, "offering")
    /\ stopRun' = [stopRun EXCEPT ![p] = ctx]
    /\ SetState(Of[p], "Ended")
    /\ UNCHANGED <<server, at, run>>

\* Its goroutine enters its select.
StopOffers(p) ==
    /\ stop[p] = "accepted"
    /\ StopBecomes(p, "offering")
    /\ stopRun' = [stopRun EXCEPT ![p] = ctx]
    /\ UNCHANGED <<server, state, at, run>>

\* A body receives from the service's stopChannel: whichever runs now.
StopReceived(p, c) ==
    /\ stop[p] = "offering"
    /\ Of[c] = Of[p]
    /\ at[c] = "running"
    /\ StopBecomes(p, "sent")
    /\ Becomes(c, "stopped")
    /\ UNCHANGED <<server, state, run, stopRun>>

\* Then the stop goroutine sets Ended, be the body done or not.
StopMarks(p) ==
    /\ stop[p] = "sent"
    /\ StopBecomes(p, "done")
    /\ SetState(Of[p], "Ended")
    /\ UNCHANGED <<server, at, run, stopRun>>

StopQuits(p) ==
    /\ stop[p] = "offering"
    /\ stopRun[p] \in cancelled
    /\ StopBecomes(p, "dropped")
    /\ UNCHANGED <<server, state, at, run, stopRun>>

-----------------------------------------------------------------------------
Init ==
    /\ runned = FALSE
    /\ ctx = 0
    /\ cancelled = {}
    /\ loop = "ended"
    /\ state = [s \in Service |-> "absent"]
    /\ at = [c \in Request |-> "new"]
    /\ run = [c \in Request |-> 0]
    /\ stop = [p \in StopCall |-> "new"]
    /\ stopRun = [p \in StopCall |-> 0]

Loop == LoopDone \/ LoopEnds \/ \E c \in Request : LoopReceives(c) \/ LoopTakes(c)

Runner(c) ==
    RunnerStarts(c) \/ BodyReturns(c, "ok") \/ BodyReturns(c, "err") \/ RunnerEnds(c)

Executor(c) == ExecReady(c) \/ ExecOffers(c) \/ ExecQuits(c)

Stopper(p) ==
    StopOffers(p) \/ StopMarks(p) \/ StopQuits(p) \/ \E c \in Request : StopReceived(p, c)

Next ==
    \/ RunServer
    \/ Cancel
    \/ Loop
    \/ \E s \in Service : AddService(s)
    \/ \E c \in Exec : ExecCalled(c) \/ ExecService(c) \/ Executor(c)
    \/ \E c \in Resume : ResumeChecks(c) \/ ResumeService(c)
    \/ \E c \in Request : Runner(c)
    \/ \E p \in StopCall : StopCalled(p) \/ StopFinds(p) \/ StopService(p) \/ Stopper(p)

Spec == Init /\ [][Next]_vars

\* The server's own goroutines are scheduled; callers, and the bodies of the
\* services, promise nothing.
FairSpec ==
    /\ Spec
    /\ WF_vars(Loop)
    /\ \A c \in Exec : WF_vars(Executor(c))
    /\ \A c \in Request : WF_vars(RunnerStarts(c)) /\ WF_vars(RunnerEnds(c))
    /\ \A p \in StopCall : WF_vars(StopOffers(p) \/ StopMarks(p) \/ StopQuits(p))

-----------------------------------------------------------------------------
(* Properties.                                                             *)

\* Each variable has its type; a request waits on the channel of a run that
\* started, and a loop that is not ended is the loop of a running server.
TypeOK ==
    /\ runned \in BOOLEAN
    /\ ctx \in 0..MaxRuns
    /\ cancelled \subseteq 1..ctx
    /\ loop \in {"select", "stopping", "ended"}
    /\ runned = (loop # "ended")
    /\ state \in [Service -> SvcState]
    /\ at \in [Request -> Stage]
    /\ run \in [Request -> 0..ctx]
    /\ stop \in [StopCall -> StopStage]
    /\ stopRun \in [StopCall -> 0..ctx]

RequestsOf(s, stages) == {c \in Request : Of[c] = s /\ at[c] \in stages}

\* The requests that will still touch the state of a service that is Ready:
\* offered to the loop there is or to one that was cancelled, held by the loop
\* or a runner, or in the hands of a ResumeService that has sSrv.Lock.
Underway(s) ==
    {c \in RequestsOf(s, {"ready", "offering", "resuming", "received", "spawned"}) :
        at[c] = "offering" => run[c] \in cancelled \/ (run[c] = ctx /\ loop # "ended")}

\* Whatever writes of the state cross, a service is Running only while some
\* body or its runner is there to overwrite it.  It is Ready only while a
\* request for it is under way, to a loop that runs unless the request's own
\* context was cancelled, or after such a request was dropped with its context:
\* a loop that skips a request leaves no service Ready behind.  Not said is that
\* a ResumeService gets rid of its request (ResumeReturns), nor that one body
\* runs: a second request under way is as good as the first.
StateIsBacked ==
    \A s \in Service :
        /\ state[s] = "Running" =>
              RequestsOf(s, {"running", "stopped", "ok", "err"}) # {}
        /\ state[s] = "Ready" =>
              \/ Underway(s) # {}
              \/ \E c \in RequestsOf(s, {"dropped"}) : run[c] \in cancelled

\* The stages of a request that passed its checks.
Asked == Stage \ {"new", "called", "checked"}

\* While the state of a service is final its body is at work only if the
\* service was asked to run more than once: a stop that comes late never hides
\* the only body there is.  (One winding up after it was stopped is not at work.)
FinalMeansIdle ==
    \A s \in Service :
        state[s] \in {"Ended", "Failed"} =>
            \A c \in RequestsOf(s, {"spawned", "running"}) :
                \E d \in RequestsOf(s, Asked) : d # c

\* Whichever requests the loop skips, a service somebody was allowed to
\* execute has its body started, unless the server is stopped.
AcceptedStarts ==
    \A c \in Exec :
        at[c] = "accepted" ~>
            \/ RequestsOf(Of[c], {"running", "stopped", "ok", "err", "finished"}) # {}
            \/ cancelled # {}

\* When its context is cancelled the server stops, and the goroutines of
\* ExecService and StopService go.
CancelStops ==
    \A r \in 1..MaxRuns :
        r \in cancelled ~>
            /\ ctx = r => ~runned
            /\ \A c \in Exec : at[c] = "offering" => run[c] # r
            /\ \A p \in StopCall : stop[p] = "offering" => stopRun[p] # r

\* s2/s2.go:430 "Running services could not be resumed."
RunningNotResumed ==
    [][\A c \in Resume :
          (at[c] = "checked" /\ at'[c] = "resuming") =>
              RequestsOf(Of[c], {"running"}) = {}]_vars

\* s2/s2.go:427 "ResumeService continues previously stopped or ended service."
ResumeReturns ==
    \A c \in Resume :
        at[c] = "resuming" ~> (at[c] # "resuming" \/ cancelled # {})

=============================================================================
