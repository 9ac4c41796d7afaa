------------------------ MODULE ServiceServer_proof ------------------------
(***************************************************************************)
(* Proofs about ServiceServer, for every set of services and calls and any *)
(* number of runs of the server.                                           *)
(***************************************************************************)
EXTENDS ServiceServer, TLAPS

USE DEF server, StopBecomes

\* The steps of StopService itself.
StopChecks(p) == StopCalled(p) \/ StopFinds(p) \/ StopService(p)

-----------------------------------------------------------------------------
(* Typing.                                                                 *)

\* One step of every goroutine and caller keeps the types.
LEMMA TypeNext == ASSUME ServiceAssumption, TypeOK, [Next]_vars PROVE TypeOK'
<1>0. ctx \in 0..ctx
  BY DEF TypeOK, ServiceAssumption
<1>1. CASE UNCHANGED vars
  BY <1>1 DEF vars, TypeOK
<1>2. CASE RunServer
  <2>1. /\ ctx \in Nat /\ MaxRuns \in Nat /\ ctx < MaxRuns /\ ctx' = ctx + 1
        /\ cancelled \subseteq 1..ctx /\ cancelled' = cancelled
        /\ run \in [Request -> 0..ctx] /\ run' = run
        /\ stopRun \in [StopCall -> 0..ctx] /\ stopRun' = stopRun
    BY <1>2 DEF RunServer, TypeOK, ServiceAssumption
  <2>2. 0..ctx \subseteq 0..ctx' /\ 1..ctx \subseteq 1..ctx' /\ ctx' \in 0..MaxRuns
    BY <2>1
  <2>3. /\ cancelled' \subseteq 1..ctx'
        /\ run' \in [Request -> 0..ctx']
        /\ stopRun' \in [StopCall -> 0..ctx']
    BY <2>1, <2>2
  <2> QED
    BY <1>2, <2>2, <2>3 DEF RunServer, TypeOK
<1>3. CASE Cancel
  BY <1>3 DEF Cancel, TypeOK
<1>4. CASE LoopDone
  BY <1>4 DEF LoopDone, LoopIdle, TypeOK
<1>5. CASE LoopEnds
  BY <1>5 DEF LoopEnds, TypeOK
<1>6. ASSUME NEW c \in Request, LoopReceives(c) PROVE TypeOK'
  BY <1>6 DEF LoopReceives, TypeOK, Becomes, Stage
<1>7. ASSUME NEW c \in Request, LoopTakes(c) PROVE TypeOK'
  BY <1>7 DEF LoopTakes, TypeOK, Becomes, Stage
<1>8. ASSUME NEW s \in Service, AddService(s) PROVE TypeOK'
  BY <1>8 DEF AddService, TypeOK, SetState, SvcState
<1>9. ASSUME NEW c \in Exec, ExecCalled(c) \/ ExecService(c) PROVE TypeOK'
  BY <1>9 DEF ExecCalled, ExecService, TypeOK, Becomes, Stage
<1>10. ASSUME NEW c \in Exec, ExecReady(c) PROVE TypeOK'
  BY <1>10 DEF ExecReady, TypeOK, Becomes, SetState, Stage, SvcState
<1>11. ASSUME NEW c \in Exec, ExecOffers(c) PROVE TypeOK'
  BY <1>0, <1>11 DEF ExecOffers, TypeOK, Becomes, Stage
<1>12. ASSUME NEW c \in Exec, ExecQuits(c) PROVE TypeOK'
  BY <1>12 DEF ExecQuits, TypeOK, Becomes, Stage
<1>13. ASSUME NEW c \in Resume, ResumeService(c) PROVE TypeOK'
  BY <1>0, <1>13 DEF ResumeService, TypeOK, Becomes, SetState, Stage, SvcState
<1>20. ASSUME NEW c \in Resume, ResumeChecks(c) PROVE TypeOK'
  BY <1>20 DEF ResumeChecks, TypeOK, Becomes, Stage
<1>14. ASSUME NEW c \in Request, RunnerStarts(c) PROVE TypeOK'
  BY <1>14 DEF RunnerStarts, TypeOK, Becomes, SetState, Stage, SvcState
<1>15. ASSUME NEW c \in Request, NEW result \in {"ok", "err"}, BodyReturns(c, result)
       PROVE  TypeOK'
  BY <1>15 DEF BodyReturns, TypeOK, Becomes, Stage
<1>16. ASSUME NEW c \in Request, RunnerEnds(c) PROVE TypeOK'
  BY <1>16 DEF RunnerEnds, TypeOK, Becomes, SetState, Stage, SvcState
<1>17. ASSUME NEW p \in StopCall, StopChecks(p) \/ StopOffers(p) \/ StopQuits(p)
       PROVE  TypeOK'
  BY <1>0, <1>17 DEF StopChecks, StopCalled, StopFinds, StopService, StopOffers,
                     StopQuits, StopStage, TypeOK
<1>18. ASSUME NEW p \in StopCall, NEW c \in Request, StopReceived(p, c) PROVE TypeOK'
  BY <1>18 DEF StopReceived, TypeOK, Becomes, Stage, StopStage
<1>19. ASSUME NEW p \in StopCall, StopMarks(p) PROVE TypeOK'
  BY <1>19 DEF StopMarks, TypeOK, SetState, SvcState, StopStage
<1> QED
  BY <1>1, <1>2, <1>3, <1>4, <1>5, <1>6, <1>7, <1>8, <1>9, <1>10, <1>11, <1>12,
     <1>13, <1>14, <1>15, <1>16, <1>17, <1>18, <1>19, <1>20
  DEF Next, Loop, Executor, Runner, Stopper, StopChecks

\* Whatever the callers, the loop, the runners and the stop goroutines do in
\* which order, each variable keeps its type and the running flag agrees with
\* the loop.
THEOREM Typing == ASSUME ServiceAssumption PROVE Spec => []TypeOK
<1>1. Init => TypeOK
  <2> SUFFICES ASSUME Init PROVE TypeOK
    OBVIOUS
  <2>1. /\ state \in [Service -> SvcState]
        /\ at \in [Request -> Stage]
        /\ stop \in [StopCall -> StopStage]
    BY DEF Init, SvcState, Stage, StopStage
  <2>2. 0 \in 0..0 /\ 0 \in 0..MaxRuns
    BY DEF ServiceAssumption
  <2> QED
    BY <2>1, <2>2 DEF Init, TypeOK
<1>2. TypeOK /\ [Next]_vars => TypeOK'
  BY TypeNext
<1> QED
  BY <1>1, <1>2, PTL DEF Spec

-----------------------------------------------------------------------------
(* The state is backed.                                                    *)

Working == {"running", "stopped", "ok", "err"}
OnTheWay == {"ready", "offering", "resuming", "received", "spawned"}

Some(s, stages) == \E c \in Request : Of[c] = s /\ at[c] \in stages

Behind == OnTheWay \cup {"dropped"}

\* StateIsBacked with its sets written as existence of a request.
Backed ==
    \A s \in Service :
        /\ state[s] = "Running" => Some(s, Working)
        /\ state[s] = "Ready" => Some(s, Behind)

\* A loop that is not in its select was cancelled, and so was every run before
\* it: what is offered can be received or given up, and is given up only when
\* its context was cancelled.
Offered ==
    /\ loop # "select" /\ ctx # 0 => ctx \in cancelled
    /\ loop # "ended" => ctx # 0
    /\ \A c \in Exec : at[c] # "new" => ctx # 0
    /\ \A c \in Request :
          /\ at[c] = "offering" =>
                run[c] \in cancelled \/ (run[c] = ctx /\ loop # "ended")
          /\ at[c] = "dropped" => run[c] \in cancelled

LEMMA BackedSuffices == Backed /\ Offered => StateIsBacked
<1> SUFFICES ASSUME Backed, Offered, NEW s \in Service
             PROVE  /\ state[s] = "Running" => RequestsOf(s, Working) # {}
                    /\ state[s] = "Ready" =>
                          \/ Underway(s) # {}
                          \/ \E c \in RequestsOf(s, {"dropped"}) : run[c] \in cancelled
  BY DEF StateIsBacked, Working
<1>1. ASSUME state[s] = "Running" PROVE RequestsOf(s, Working) # {}
  BY <1>1 DEF Backed, Some, RequestsOf
<1>2. ASSUME state[s] = "Ready"
      PROVE  \/ Underway(s) # {}
             \/ \E c \in RequestsOf(s, {"dropped"}) : run[c] \in cancelled
  <2>1. PICK c \in Request : Of[c] = s /\ at[c] \in Behind
    BY <1>2 DEF Backed, Some
  <2>2. CASE at[c] = "dropped"
    BY <2>1, <2>2 DEF Offered, RequestsOf
  <2>3. CASE at[c] \in OnTheWay
    BY <2>1, <2>3 DEF Offered, Underway, RequestsOf, OnTheWay
  <2> QED
    BY <2>1, <2>2, <2>3 DEF Behind
<1> QED
  BY <1>1, <1>2

\* A step that changes no state and moves one request to a stage from which
\* it still backs what it backed before.
LEMMA BackedStays ==
    ASSUME TypeOK, Backed, NEW c \in Request, NEW stage,
           at' = [at EXCEPT ![c] = stage], state' = state,
           at[c] \in Working => stage \in Working,
           (at[c] \in Behind /\ state[Of[c]] = "Ready") => stage \in Behind
    PROVE  Backed'
<1>1. \A d \in Request : at'[d] = IF d = c THEN stage ELSE at[d]
  BY DEF TypeOK
<1> QED
  BY <1>1 DEF Backed, Some

\* A step that sets the state of one service, with a request to back it.
LEMMA BackedSet ==
    ASSUME TypeOK, Backed, NEW s \in Service, NEW ns,
           state' = [state EXCEPT ![s] = ns],
           \A c \in Request : Of[c] # s => at'[c] = at[c],
           ns = "Running" => Some(s, Working)',
           ns = "Ready" => Some(s, Behind)'
    PROVE  Backed'
<1> SUFFICES ASSUME NEW t \in Service
             PROVE  /\ state'[t] = "Running" => Some(t, Working)'
                    /\ state'[t] = "Ready" => Some(t, Behind)'
  BY DEF Backed
<1>1. CASE t = s
  BY <1>1 DEF TypeOK
<1>2. CASE t # s
  BY <1>2 DEF TypeOK, Backed, Some
<1> QED BY <1>1, <1>2

LEMMA BackedNext == ASSUME ServiceAssumption, TypeOK, Backed, [Next]_vars PROVE Backed'
<1> USE DEF Becomes, SetState
<1>0. /\ Exec \subseteq Request /\ Resume \subseteq Request
      /\ Of \in [Request \cup StopCall -> Service]
  BY DEF Request, ServiceAssumption
<1>1. ASSUME UNCHANGED <<state, at>> PROVE Backed'
  BY <1>1 DEF Backed, Some
<1>2. CASE RunServer \/ Cancel \/ LoopDone \/ LoopEnds \/ UNCHANGED vars
  BY <1>1, <1>2 DEF RunServer, Cancel, LoopDone, LoopEnds, vars
<1>3. ASSUME NEW c \in Request, LoopReceives(c) \/ LoopTakes(c) PROVE Backed'
  BY <1>3, BackedStays DEF LoopReceives, LoopTakes, Working, Behind, OnTheWay
<1>4. ASSUME NEW s \in Service, AddService(s) PROVE Backed'
  BY <1>4, BackedSet DEF AddService
<1>5. ASSUME NEW c \in Exec, ExecCalled(c) \/ ExecService(c) \/ ExecOffers(c)
      PROVE  Backed'
  BY <1>0, <1>5, BackedStays
  DEF ExecCalled, ExecService, ExecOffers, Working, Behind, OnTheWay
<1>15. ASSUME NEW c \in Resume, ResumeChecks(c) PROVE Backed'
  BY <1>0, <1>15, BackedStays DEF ResumeChecks, Working, Behind, OnTheWay
<1>6. ASSUME NEW c \in Exec, ExecReady(c) PROVE Backed'
  <2>1. /\ at' = [at EXCEPT ![c] = "ready"]
        /\ state' = [state EXCEPT ![Of[c]] = "Ready"]
    BY <1>6 DEF ExecReady
  <2>2. Some(Of[c], Behind)'
    BY <1>0, <2>1 DEF Some, Behind, OnTheWay, TypeOK
  <2> QED
    BY <1>0, <2>1, <2>2, BackedSet DEF TypeOK
<1>7. ASSUME NEW c \in Exec, ExecQuits(c) PROVE Backed'
  BY <1>0, <1>7, BackedStays DEF ExecQuits, Working, Behind, OnTheWay
<1>8. ASSUME NEW c \in Resume, ResumeService(c) PROVE Backed'
  <2>1. /\ at' = [at EXCEPT ![c] = "resuming"]
        /\ state' = [state EXCEPT ![Of[c]] = "Ready"]
    BY <1>8 DEF ResumeService
  <2>2. Some(Of[c], Behind)'
    BY <1>0, <2>1 DEF Some, Behind, OnTheWay, TypeOK
  <2> QED
    BY <1>0, <2>1, <2>2, BackedSet DEF TypeOK
<1>9. ASSUME NEW c \in Request, RunnerStarts(c) PROVE Backed'
  <2>1. /\ at' = [at EXCEPT ![c] = "running"]
        /\ state' = [state EXCEPT ![Of[c]] = "Running"]
    BY <1>9 DEF RunnerStarts
  <2>2. Some(Of[c], Working)'
    BY <2>1 DEF Some, Working, TypeOK
  <2> QED
    BY <1>0, <2>1, <2>2, BackedSet DEF TypeOK
<1>10. ASSUME NEW c \in Request, NEW result \in {"ok", "err"}, BodyReturns(c, result)
       PROVE  Backed'
  BY <1>10, BackedStays DEF BodyReturns, Working, Behind, OnTheWay
<1>11. ASSUME NEW c \in Request, RunnerEnds(c) PROVE Backed'
  <2>1. /\ at' = [at EXCEPT ![c] = "finished"]
        /\ \E ns \in {"Ended", "Failed"} : state' = [state EXCEPT ![Of[c]] = ns]
    BY <1>11 DEF RunnerEnds
  <2> QED
    BY <1>0, <2>1, BackedSet DEF TypeOK
<1>12. ASSUME NEW p \in StopCall, StopChecks(p) \/ StopOffers(p) \/ StopQuits(p)
       PROVE  Backed'
  BY <1>1, <1>12 DEF StopChecks, StopCalled, StopFinds, StopService,
      StopOffers, StopQuits
<1>13. ASSUME NEW p \in StopCall, NEW c \in Request, StopReceived(p, c) PROVE Backed'
  BY <1>13, BackedStays DEF StopReceived, Working, Behind, OnTheWay
<1>14. ASSUME NEW p \in StopCall, StopMarks(p) PROVE Backed'
  BY <1>0, <1>14, BackedSet DEF StopMarks
<1> QED
  BY <1>2, <1>3, <1>4, <1>5, <1>6, <1>7, <1>8, <1>9, <1>10, <1>11, <1>12, <1>13,
     <1>14, <1>15
  DEF Next, Loop, Executor, Runner, Stopper, StopChecks

\* No step leaves a request offered to a loop that is gone.
LEMMA OfferedNext == ASSUME ServiceAssumption, TypeOK, Offered, [Next]_vars PROVE Offered'
<1> USE DEF Becomes
<1>0. Exec \subseteq Request /\ Resume \subseteq Request /\ Exec \cap Resume = {}
  BY DEF Request, ServiceAssumption
<1>1. CASE UNCHANGED vars
  BY <1>1 DEF vars, Offered
<1>2. CASE RunServer
  <2>1. loop = "ended"
    BY <1>2 DEF RunServer, TypeOK
  <2>2. ctx \in Nat /\ ctx' = ctx + 1 /\ ctx' # 0
    BY <1>2 DEF RunServer, TypeOK, ServiceAssumption
  <2> QED
    BY <1>2, <2>1, <2>2 DEF RunServer, Offered
<1>3. CASE Cancel
  BY <1>3 DEF Cancel, Offered
<1>4. CASE LoopDone \/ LoopEnds
  BY <1>4 DEF LoopDone, LoopIdle, LoopEnds, Offered
<1>5. ASSUME UNCHANGED <<runned, ctx, cancelled, loop, run>>,
             NEW c \in Request, NEW stage \in Stage \ {"offering", "dropped"},
             at' = [at EXCEPT ![c] = stage], at[c] # "new" \/ c \notin Exec \/ ctx # 0
      PROVE  Offered'
  BY <1>5, <1>0 DEF Offered, TypeOK
<1>6. ASSUME UNCHANGED <<runned, ctx, cancelled, loop, run, at>> PROVE Offered'
  BY <1>6 DEF Offered
<1>7. ASSUME NEW c \in Request, LoopReceives(c) \/ LoopTakes(c) \/ Runner(c) PROVE Offered'
  BY <1>5, <1>7 DEF LoopReceives, LoopTakes, Runner, RunnerStarts, BodyReturns,
                    RunnerEnds, Stage
<1>8. ASSUME NEW s \in Service, AddService(s) PROVE Offered'
  BY <1>6, <1>8 DEF AddService
<1>9. ASSUME NEW c \in Exec, ExecCalled(c) PROVE Offered'
  <2>1. ctx # 0
    BY <1>9 DEF ExecCalled, Offered, TypeOK
  <2> QED
    BY <1>0, <1>5, <1>9, <2>1 DEF ExecCalled, Stage
<1>10. ASSUME NEW c \in Exec, ExecService(c) \/ ExecReady(c) PROVE Offered'
  BY <1>0, <1>5, <1>10 DEF ExecService, ExecReady, Stage
<1>11. ASSUME NEW c \in Exec, ExecOffers(c) PROVE Offered'
  <2>1. ctx # 0
    BY <1>11 DEF ExecOffers, Offered
  <2>2. ctx \in cancelled \/ loop # "ended"
    BY <2>1 DEF Offered
  <2> QED
    BY <1>0, <1>11, <2>1, <2>2 DEF ExecOffers, Offered, TypeOK
<1>12. ASSUME NEW c \in Exec, ExecQuits(c) PROVE Offered'
  BY <1>0, <1>12 DEF ExecQuits, Offered, TypeOK
<1>13. ASSUME NEW c \in Resume, ResumeChecks(c) PROVE Offered'
  BY <1>0, <1>5, <1>13 DEF ResumeChecks, Stage
<1>14. ASSUME NEW c \in Resume, ResumeService(c) PROVE Offered'
  BY <1>0, <1>14 DEF ResumeService, Offered, TypeOK
<1>15. ASSUME NEW p \in StopCall,
              StopChecks(p) \/ StopOffers(p) \/ StopQuits(p) \/ StopMarks(p)
       PROVE  Offered'
  BY <1>6, <1>15 DEF StopChecks, StopCalled, StopFinds, StopService, StopOffers,
                     StopQuits, StopMarks
<1>16. ASSUME NEW p \in StopCall, NEW c \in Request, StopReceived(p, c) PROVE Offered'
  BY <1>5, <1>16 DEF StopReceived, Stage
<1> QED
  BY <1>1, <1>2, <1>3, <1>4, <1>7, <1>8, <1>9, <1>10, <1>11, <1>12, <1>13, <1>14,
     <1>15, <1>16
  DEF Next, Loop, Executor, Stopper, StopChecks

\* However ExecService, ResumeService, StopService, the loop and the runners
\* overwrite each other's setState, a service is Running only while a body or
\* its runner is there, and Ready only while a request for it is under way, to
\* a loop that is there unless the request's own context was cancelled, or was
\* given up with its context.
THEOREM StatesAreBacked == ASSUME ServiceAssumption PROVE Spec => []StateIsBacked
<1>1. Init => Backed /\ Offered
  BY DEF Init, Backed, Offered, Request
<1>2. TypeOK /\ Backed /\ Offered /\ [Next]_vars => Backed' /\ Offered'
  BY BackedNext, OfferedNext
<1>3. Backed /\ Offered => StateIsBacked
  BY BackedSuffices
<1> QED
  BY <1>1, <1>2, <1>3, Typing, PTL DEF Spec

-----------------------------------------------------------------------------
(* A final state is earned.                                                *)

Over == {"stopped", "ok", "err", "finished"}

\* A final state, and a stop that is about to write one, come from a request
\* whose body was stopped or has returned; such a request does not work again.
Earned ==
    /\ \A s \in Service : state[s] \in {"Ended", "Failed"} => Some(s, Over)
    /\ \A p \in StopCall : stop[p] = "sent" => Some(Of[p], Over)

LEMMA EarnedSuffices == Earned => FinalMeansIdle
<1> SUFFICES ASSUME Earned, NEW s \in Service, state[s] \in {"Ended", "Failed"},
                    NEW c \in RequestsOf(s, {"spawned", "running"})
             PROVE  \E d \in RequestsOf(s, Asked) : d # c
  BY DEF FinalMeansIdle
<1>1. PICK d \in Request : Of[d] = s /\ at[d] \in Over
  BY DEF Earned, Some
<1> QED
  BY <1>1 DEF RequestsOf, Over, Asked, Stage

\* Once a body was stopped or returned its request stays so.
LEMMA OverStays ==
    ASSUME ServiceAssumption, TypeOK, [Next]_vars, NEW d \in Request, at[d] \in Over
    PROVE  at'[d] \in Over
<1> USE DEF Becomes, Over
<1>1. ASSUME UNCHANGED at PROVE at'[d] \in Over
  BY <1>1
<1>2. CASE RunServer \/ Cancel \/ LoopDone \/ LoopEnds \/ UNCHANGED vars
  BY <1>1, <1>2 DEF RunServer, Cancel, LoopDone, LoopEnds, vars
<1>3. ASSUME NEW c \in Request, LoopReceives(c) \/ LoopTakes(c) \/ RunnerStarts(c)
      PROVE  at'[d] \in Over
  BY <1>3 DEF LoopReceives, LoopTakes, RunnerStarts, TypeOK
<1>4. ASSUME NEW s \in Service, AddService(s) PROVE at'[d] \in Over
  BY <1>4 DEF AddService
<1>5. ASSUME NEW c \in Exec,
             ExecCalled(c) \/ ExecService(c) \/ Executor(c)
      PROVE  at'[d] \in Over
  BY <1>5 DEF ExecCalled, ExecService, Executor, ExecReady, ExecOffers, ExecQuits, TypeOK
<1>6. ASSUME NEW c \in Resume, ResumeChecks(c) \/ ResumeService(c)
      PROVE  at'[d] \in Over
  BY <1>6 DEF ResumeChecks, ResumeService, TypeOK
<1>7. ASSUME NEW c \in Request, NEW result \in {"ok", "err"}, BodyReturns(c, result)
      PROVE  at'[d] \in Over
  BY <1>7 DEF BodyReturns, TypeOK
<1>8. ASSUME NEW c \in Request, RunnerEnds(c) PROVE at'[d] \in Over
  BY <1>8 DEF RunnerEnds, TypeOK
<1>9. ASSUME NEW p \in StopCall,
             StopChecks(p) \/ StopOffers(p) \/ StopQuits(p) \/ StopMarks(p)
      PROVE  at'[d] \in Over
  BY <1>9 DEF StopChecks, StopCalled, StopFinds, StopService,
      StopOffers, StopQuits, StopMarks
<1>10. ASSUME NEW p \in StopCall, NEW c \in Request, StopReceived(p, c)
       PROVE  at'[d] \in Over
  BY <1>10 DEF StopReceived, TypeOK
<1> QED
  BY <1>2, <1>3, <1>4, <1>5, <1>6, <1>7, <1>8, <1>9, <1>10
  DEF Next, Loop, Runner, Stopper, StopChecks

\* The steps that write a final state are those of a runner and of StopService.
LEMMA FinalComesFrom ==
    ASSUME ServiceAssumption, TypeOK, [Next]_vars, NEW s \in Service,
           state'[s] \in {"Ended", "Failed"}, state'[s] # state[s]
    PROVE  \/ \E c \in Request : Of[c] = s /\ RunnerEnds(c)
           \/ \E p \in StopCall : Of[p] = s /\ StopMarks(p)
<1> USE DEF SetState
<1>0. /\ Exec \subseteq Request /\ Resume \subseteq Request
      /\ state \in [Service -> SvcState]
  BY DEF Request, TypeOK
<1>1. CASE UNCHANGED state
  BY <1>1
<1>2. CASE RunServer \/ Cancel \/ LoopDone \/ LoopEnds \/ UNCHANGED vars
  BY <1>1, <1>2 DEF RunServer, Cancel, LoopDone, LoopEnds, vars
<1>3. ASSUME NEW t \in Service, NEW ns \in {"Registered", "Ready", "Running"},
             state' = [state EXCEPT ![t] = ns]
      PROVE  FALSE
  BY <1>0, <1>3
<1>4. ASSUME NEW c \in Request, LoopReceives(c) \/ LoopTakes(c) PROVE FALSE
  BY <1>4 DEF LoopReceives, LoopTakes
<1>5. ASSUME NEW c \in Request, RunnerStarts(c) PROVE FALSE
  BY <1>3, <1>5 DEF RunnerStarts, ServiceAssumption
<1>6. ASSUME NEW t \in Service, AddService(t) PROVE FALSE
  BY <1>3, <1>6 DEF AddService
<1>7. ASSUME NEW c \in Exec,
             ExecCalled(c) \/ ExecService(c) \/ ExecOffers(c) \/ ExecQuits(c)
      PROVE  FALSE
  BY <1>7 DEF ExecCalled, ExecService, ExecOffers, ExecQuits
<1>8. ASSUME NEW c \in Exec, ExecReady(c) PROVE FALSE
  BY <1>0, <1>3, <1>8 DEF ExecReady, ServiceAssumption
<1>9. ASSUME NEW c \in Resume, ResumeService(c) PROVE FALSE
  BY <1>0, <1>3, <1>9 DEF ResumeService, ServiceAssumption
<1>15. ASSUME NEW c \in Resume, ResumeChecks(c) PROVE FALSE
  BY <1>15 DEF ResumeChecks
<1>10. ASSUME NEW c \in Request, NEW result \in {"ok", "err"}, BodyReturns(c, result)
       PROVE  FALSE
  BY <1>10 DEF BodyReturns
<1>11. ASSUME NEW c \in Request, RunnerEnds(c) PROVE Of[c] = s
  BY <1>0, <1>11 DEF RunnerEnds
<1>12. ASSUME NEW p \in StopCall, StopChecks(p) \/ StopOffers(p) \/ StopQuits(p)
       PROVE  FALSE
  BY <1>12 DEF StopChecks, StopCalled, StopFinds, StopService,
      StopOffers, StopQuits
<1>13. ASSUME NEW p \in StopCall, NEW c \in Request, StopReceived(p, c) PROVE FALSE
  BY <1>13 DEF StopReceived
<1>14. ASSUME NEW p \in StopCall, StopMarks(p) PROVE Of[p] = s
  BY <1>0, <1>14 DEF StopMarks
<1> QED
  BY <1>2, <1>4, <1>5, <1>6, <1>7, <1>8, <1>9, <1>10, <1>11, <1>12, <1>13, <1>14, <1>15
  DEF Next, Loop, Executor, Runner, Stopper, StopChecks

\* A stop is sent only when a body has received it.
LEMMA SentComesFrom ==
    ASSUME TypeOK, [Next]_vars, NEW p \in StopCall, stop'[p] = "sent", stop[p] # "sent"
    PROVE  \E c \in Request : StopReceived(p, c)
<1>1. CASE UNCHANGED stop
  BY <1>1
<1>2. ASSUME NEW q \in StopCall, NEW stage \in {"called", "found", "accepted", "offering", "done", "dropped"},
             stop' = [stop EXCEPT ![q] = stage]
      PROVE  FALSE
  BY <1>2 DEF TypeOK
<1>3. CASE RunServer \/ Cancel \/ LoopDone \/ LoopEnds \/ UNCHANGED vars
  BY <1>1, <1>3 DEF RunServer, Cancel, LoopDone, LoopEnds, vars
<1>4. ASSUME NEW c \in Request, LoopReceives(c) \/ LoopTakes(c) \/ Runner(c)
      PROVE  FALSE
  BY <1>1, <1>4 DEF LoopReceives, LoopTakes, Runner, RunnerStarts, BodyReturns,
                    RunnerEnds
<1>5. ASSUME NEW c \in Exec, ExecCalled(c) \/ ExecService(c) \/ Executor(c) PROVE FALSE
  BY <1>1, <1>5 DEF ExecCalled, ExecService, Executor, ExecReady, ExecOffers, ExecQuits
<1>6. ASSUME NEW c \in Resume, ResumeChecks(c) \/ ResumeService(c) PROVE FALSE
  BY <1>1, <1>6 DEF ResumeChecks, ResumeService
<1>7. ASSUME NEW s \in Service, AddService(s) PROVE FALSE
  BY <1>1, <1>7 DEF AddService
<1>8. ASSUME NEW q \in StopCall,
             StopChecks(q) \/ StopOffers(q) \/ StopQuits(q) \/ StopMarks(q)
      PROVE  FALSE
  BY <1>2, <1>8 DEF StopChecks, StopCalled, StopFinds, StopService,
      StopOffers, StopQuits, StopMarks
<1>9. ASSUME NEW q \in StopCall, NEW c \in Request, StopReceived(q, c)
      PROVE  StopReceived(p, c)
  <2>1. q = p
    BY <1>9 DEF StopReceived, TypeOK
  <2> QED
    BY <1>9, <2>1
<1> QED
  BY <1>3, <1>4, <1>5, <1>6, <1>7, <1>8, <1>9 DEF Next, Loop, Stopper, StopChecks

LEMMA EarnedNext == ASSUME ServiceAssumption, TypeOK, Earned, [Next]_vars PROVE Earned'
<1>1. \A s : Some(s, Over) => Some(s, Over)'
  BY OverStays DEF Some
<1>2. ASSUME NEW s \in Service, state'[s] \in {"Ended", "Failed"} PROVE Some(s, Over)'
  <2>1. CASE state'[s] = state[s]
    BY <1>1, <1>2, <2>1 DEF Earned
  <2>2. ASSUME NEW c \in Request, Of[c] = s, RunnerEnds(c) PROVE Some(s, Over)'
    BY <2>2 DEF RunnerEnds, Becomes, Some, Over, TypeOK
  <2>3. ASSUME NEW p \in StopCall, Of[p] = s, StopMarks(p) PROVE Some(s, Over)'
    BY <1>1, <2>3 DEF StopMarks, Earned
  <2> QED
    BY <1>2, <2>1, <2>2, <2>3, FinalComesFrom
<1>3. ASSUME NEW p \in StopCall, stop'[p] = "sent" PROVE Some(Of[p], Over)'
  <2>1. CASE stop[p] = "sent"
    BY <1>1, <2>1 DEF Earned
  <2>2. ASSUME NEW c \in Request, StopReceived(p, c) PROVE Some(Of[p], Over)'
    BY <2>2 DEF StopReceived, Becomes, Some, Over, TypeOK
  <2> QED
    BY <1>3, <2>1, <2>2, SentComesFrom
<1> QED
  BY <1>2, <1>3 DEF Earned

\* No late setState, be it a runner's or StopService's, shows a service as ended
\* or failed while the only body it was ever given is at work.
THEOREM FinalStatesAreIdle == ASSUME ServiceAssumption PROVE Spec => []FinalMeansIdle
<1>1. Init => Earned
  BY DEF Init, Earned
<1>2. TypeOK /\ Earned /\ [Next]_vars => Earned'
  BY EarnedNext
<1>3. Earned => FinalMeansIdle
  BY EarnedSuffices
<1> QED
  BY <1>1, <1>2, <1>3, Typing, PTL DEF Spec
=============================================================================
