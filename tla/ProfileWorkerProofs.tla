------------------------ MODULE ProfileWorkerProofs ------------------------
(***************************************************************************)
(* Proofs about ProfileWorker, for every number of workers, segments,      *)
(* attempts and parallel analyses, and for every bound.                    *)
(*                                                                         *)
(* The lemmas show that one step of Next preserves one part of the         *)
(* inductive invariant; each has a step per action.  What holds only when  *)
(* the calls of claim() and apply() end within their lease has ~ SlowCalls *)
(* among its assumptions.                                                  *)
(***************************************************************************)
EXTENDS ProfileWorker, TLAPS, FiniteSetTheorems

USE StoreAssumption, WorkerAssumption
USE DEF vars, storeVars, eventVars, workerVars
USE DEF Goto, Block, Fills, Turn, EndTurn, SpendFault, SpendRestart, SpendExpiry
USE DEF SetLockNX, WriteClaim, ReleaseLock, Complete, Relinquish, TryRelinquish,
        Abandon, ExpireLock
USE DEF TakeEventLock, DropEventLock, ExecEffect, FreedBy, ExpireEventLock

-----------------------------------------------------------------------------
(* The parts of the inductive invariant.                                    *)

\* TypeOK, by groups of variables.
SessionOK ==
    /\ mode \in [Workers -> {"up", "ending", "down"}]
    /\ stopFlag \in [Workers -> BOOLEAN]
    /\ turn \in [Workers -> {"none", "commit", "defer"}]
CountsOK ==
    /\ seen \in [Workers -> 0 .. MaxAttempts]
    /\ blocked \in [Workers -> 0 .. NSegs]
QueueOK ==
    /\ queue \in [Workers -> SUBSET Segs]
    /\ gaps \in [Workers -> SUBSET Segs]
    /\ batch \in [Workers -> SUBSET Segs]
PlanOK ==
    plan \in [Workers -> [on : BOOLEAN, done : SUBSET Segs,
                          work : SUBSET Segs]]
JobOK == job \in [Workers -> [Segs -> Stages]]
LeftOK ==
    left \in [fault : 0 .. MaxFaults, restart : 0 .. MaxRestarts,
              expiry : 0 .. MaxExpiries]

Calls == ClaimStages \cup CommitStages

\* The batch thread is in at most one call.
OneCall ==
    \A w \in Workers : \A s, t \in Segs :
        job[w][s] \in Calls /\ job[w][t] \in Calls => s = t

\* A popped segment has not begun to commit while it waits for its turn.
TurnOutsideCalls ==
    \A w \in Workers : turn[w] # "none" =>
        \A s \in Segs : job[w][s] \notin Calls

\* claim() goes on to write only when it read an attempt left.
ClaimHasBudget ==
    \A w \in Workers, s \in Segs : job[w][s] = "claim" => seen[w] < MaxAttempts

\* mark_success is reached only with the marker in Redis.
MarkHasMarker ==
    \A w \in Workers, s \in Segs : job[w][s] = "mark" => marker[s]

\* Between batches no segment has a job.
IdleHasNoJob ==
    \A w \in Workers : batch[w] = {} => \A s \in Segs : job[w][s] = "none"

\* The remaining parts rest on ~ SlowCalls.

\* claim() and apply() keep the locks they run under.
ClaimHoldsLock ==
    \A w \in Workers, s \in Segs : job[w][s] \in ClaimStages => Owns(w, s)
ApplyHoldsLock ==
    \A w \in Workers, s \in Segs :
        job[w][s] \in {"load", "exec"} => eventLock = w

\* A lock taken for work protects a record that is not final.
HeldIsOpen ==
    \A w \in Workers, s \in Segs :
        Owns(w, s) /\ job[w][s] \notin {"locked", "reject"} => ~ Settled(s)

\* A transaction about to run finds no marker, and the marker counts effects.
ExecIsFirst ==
    \A w \in Workers, s \in Segs : job[w][s] = "exec" => ~ marker[s]
MarkerCounts == \A s \in Segs : hits[s] = IF marker[s] THEN 1 ELSE 0

\* The batch is taken from the work of the plan.
LEMMA FirstOfIsWork ==
    ASSUME NEW work PROVE FirstOf(work) \subseteq work
BY DEF FirstOf

\* A plan only starts jobs, or leaves them alone.
LEMMA PlanActJobs ==
    ASSUME JobOK, NEW w \in Workers, PlanAct(w),
           NEW v \in Workers, NEW s \in Segs
    PROVE  job'[v][s] \in {job[v][s], "none", "todo"}
<1>1. CASE job' = job
  BY <1>1
<1>2. CASE job' = [job EXCEPT ![w] = [t \in Segs |->
                     IF t \in FirstOf(plan[w].work) THEN "todo" ELSE "none"]]
  BY <1>2 DEF JobOK
<1> QED BY <1>1, <1>2 DEF PlanAct

-----------------------------------------------------------------------------
(* One step preserves each part.                                            *)

\* The session variables keep their types.
LEMMA SessionStep ==
    ASSUME SessionOK, [Next]_vars
    PROVE  SessionOK'
<1> DEFINE Goal == SessionOK'
<1> USE SessionOK DEF SessionOK
<1>1. CASE UNCHANGED vars
  BY <1>1
<1>2. ASSUME NEW w \in Workers, Planner(w) PROVE Goal
  BY <1>2 DEF Planner, PlanRead, PlanAct
<1>3. ASSUME NEW w \in Workers, NEW s \in Segs, Claims(w, s) PROVE Goal
  BY <1>3 DEF Claims, SkipBlocked, ClaimBusy, ClaimLock, ClaimRead,
      ClaimReject, ClaimWrite
<1>4. ASSUME NEW w \in Workers, NEW s \in Segs, Analysis(w, s) PROVE Goal
  BY <1>4 DEF Analysis, AnalysisOk, AnalysisFail
<1>5. ASSUME NEW w \in Workers, Pop(w) PROVE Goal
  BY <1>5 DEF Pop
<1>6. ASSUME NEW w \in Workers, NEW s \in Segs, Commits(w, s) PROVE Goal
  BY <1>6 DEF Commits, Defer, CommitFailed, CommitBlocked, CommitStart,
      CommitTerminal, Probe, EventLock, Load, Exec, MarkSuccess, MarkRetryable
<1>7. ASSUME NEW w \in Workers, EndBatch(w) PROVE Goal
  BY <1>7 DEF EndBatch
<1>8. ASSUME NEW w \in Workers, Lifecycle(w) PROVE Goal
  BY <1>8 DEF Lifecycle, Ended, Restart
<1>9. ASSUME NEW w \in Workers, Stop(w) PROVE Goal
  BY <1>9 DEF Stop
<1>10. ASSUME NEW w \in Workers, Crash(w) PROVE Goal
  BY <1>10 DEF Crash
<1>11. ASSUME NEW w \in Workers, NEW s \in Segs, ExpireItem(w, s) PROVE Goal
  BY <1>11 DEF ExpireItem
<1>12. ASSUME NEW w \in Workers, NEW s \in Segs, ExpireOwned(w, s) PROVE Goal
  BY <1>12 DEF ExpireOwned
<1>13. ASSUME NEW w \in Workers, NEW s \in Segs, ClaimFault(w, s) PROVE Goal
  BY <1>13 DEF ClaimFault
<1>14. ASSUME NEW w \in Workers, NEW s \in Segs, ApplyFault(w, s) PROVE Goal
  BY <1>14 DEF ApplyFault
<1>15. ASSUME NEW s \in Segs, ExpireOrphan(s) PROVE Goal
  BY <1>15 DEF ExpireOrphan
<1>16. CASE ExpireEventOrphan
  BY <1>16 DEF ExpireEventOrphan
<1>17. CASE ExpireEventOwned
  BY <1>17 DEF ExpireEventOwned
<1> QED BY <1>1, <1>2, <1>3, <1>4, <1>5, <1>6, <1>7, <1>8, <1>9, <1>10, <1>11,
      <1>12, <1>13, <1>14, <1>15, <1>16, <1>17 DEF Next, BatchThread,
      Environment, Expiry

\* seen and blocked keep their types.
LEMMA CountsStep ==
    ASSUME CountsOK, JobOK, StoreTypeOK, [Next]_vars
    PROVE  CountsOK'
<1> DEFINE Goal == CountsOK'
<1> USE CountsOK, JobOK, StoreTypeOK DEF CountsOK, JobOK, StoreTypeOK, Segs
<1>1. CASE UNCHANGED vars
  BY <1>1
<1>2. ASSUME NEW w \in Workers, Planner(w) PROVE Goal
  BY <1>2 DEF Planner, PlanRead, PlanAct
<1>3. ASSUME NEW w \in Workers, NEW s \in Segs, Claims(w, s) PROVE Goal
  BY <1>3 DEF Claims, SkipBlocked, ClaimBusy, ClaimLock, ClaimRead,
      ClaimReject, ClaimWrite
<1>4. ASSUME NEW w \in Workers, NEW s \in Segs, Analysis(w, s) PROVE Goal
  BY <1>4 DEF Analysis, AnalysisOk, AnalysisFail
<1>5. ASSUME NEW w \in Workers, Pop(w) PROVE Goal
  BY <1>5 DEF Pop
<1>6. ASSUME NEW w \in Workers, NEW s \in Segs, Defer(w, s) PROVE Goal
  BY <1>6 DEF Defer
<1>7. ASSUME NEW w \in Workers, NEW s \in Segs, CommitFailed(w, s) PROVE Goal
  BY <1>7 DEF CommitFailed
<1>8. ASSUME NEW w \in Workers, NEW s \in Segs, CommitBlocked(w, s) PROVE Goal
  BY <1>8 DEF CommitBlocked
<1>9. ASSUME NEW w \in Workers, NEW s \in Segs, CommitStart(w, s) PROVE Goal
  BY <1>9 DEF CommitStart
<1>10. ASSUME NEW w \in Workers, NEW s \in Segs, CommitTerminal(w, s) PROVE Goal
  BY SMTT(30), <1>10 DEF CommitTerminal
<1>11. ASSUME NEW w \in Workers, NEW s \in Segs, Probe(w, s) PROVE Goal
  BY <1>11 DEF Probe
<1>12. ASSUME NEW w \in Workers, NEW s \in Segs, EventLock(w, s) PROVE Goal
  BY <1>12 DEF EventLock
<1>13. ASSUME NEW w \in Workers, NEW s \in Segs, Load(w, s) PROVE Goal
  BY <1>13 DEF Load
<1>14. ASSUME NEW w \in Workers, NEW s \in Segs, Exec(w, s) PROVE Goal
  BY <1>14 DEF Exec
<1>15. ASSUME NEW w \in Workers, NEW s \in Segs, MarkSuccess(w, s) PROVE Goal
  BY SMTT(30), <1>15 DEF MarkSuccess
<1>16. ASSUME NEW w \in Workers, NEW s \in Segs, MarkRetryable(w, s) PROVE Goal
  BY <1>16 DEF MarkRetryable
<1>17. ASSUME NEW w \in Workers, EndBatch(w) PROVE Goal
  BY <1>17 DEF EndBatch
<1>18. ASSUME NEW w \in Workers, Lifecycle(w) PROVE Goal
  BY <1>18 DEF Lifecycle, Ended, Restart
<1>19. ASSUME NEW w \in Workers, Stop(w) PROVE Goal
  BY <1>19 DEF Stop
<1>20. ASSUME NEW w \in Workers, Crash(w) PROVE Goal
  BY <1>20 DEF Crash
<1>21. ASSUME NEW w \in Workers, NEW s \in Segs, ExpireItem(w, s) PROVE Goal
  BY <1>21 DEF ExpireItem
<1>22. ASSUME NEW w \in Workers, NEW s \in Segs, ExpireOwned(w, s) PROVE Goal
  BY <1>22 DEF ExpireOwned
<1>23. ASSUME NEW w \in Workers, NEW s \in Segs, ClaimFault(w, s) PROVE Goal
  BY <1>23 DEF ClaimFault
<1>24. ASSUME NEW w \in Workers, NEW s \in Segs, ApplyFault(w, s) PROVE Goal
  BY <1>24 DEF ApplyFault
<1>25. ASSUME NEW s \in Segs, ExpireOrphan(s) PROVE Goal
  BY <1>25 DEF ExpireOrphan
<1>26. CASE ExpireEventOrphan
  BY <1>26 DEF ExpireEventOrphan
<1>27. CASE ExpireEventOwned
  BY <1>27 DEF ExpireEventOwned
<1> QED BY <1>1, <1>2, <1>3, <1>4, <1>5, <1>6, <1>7, <1>8, <1>9, <1>10, <1>11,
      <1>12, <1>13, <1>14, <1>15, <1>16, <1>17, <1>18, <1>19, <1>20, <1>21,
      <1>22, <1>23, <1>24, <1>25, <1>26, <1>27 DEF Next, BatchThread,
      Environment, Expiry, Commits

\* Queues, gaps and batches are sets of segments.
LEMMA QueueStep ==
    ASSUME QueueOK, PlanOK, [Next]_vars
    PROVE  QueueOK'
<1> DEFINE Goal == QueueOK'
<1> USE QueueOK, PlanOK DEF QueueOK, PlanOK
<1>1. CASE UNCHANGED vars
  BY <1>1
<1>2. ASSUME NEW w \in Workers, PlanRead(w) PROVE Goal
  BY <1>2 DEF PlanRead
<1>3. ASSUME NEW w \in Workers, PlanAct(w) PROVE Goal
  <2>1. plan[w].work \subseteq Segs
    BY DEF PlanOK
  <2>2. FirstOf(plan[w].work) \subseteq Segs
    BY <2>1, FirstOfIsWork
  <2> QED BY <1>3, <2>2 DEF PlanAct, QueueOK
<1>4. ASSUME NEW w \in Workers, NEW s \in Segs, Claims(w, s) PROVE Goal
  BY <1>4 DEF Claims, SkipBlocked, ClaimBusy, ClaimLock, ClaimRead,
      ClaimReject, ClaimWrite
<1>5. ASSUME NEW w \in Workers, NEW s \in Segs, Analysis(w, s) PROVE Goal
  BY <1>5 DEF Analysis, AnalysisOk, AnalysisFail
<1>6. ASSUME NEW w \in Workers, Pop(w) PROVE Goal
  BY <1>6 DEF Pop
<1>7. ASSUME NEW w \in Workers, NEW s \in Segs, Commits(w, s) PROVE Goal
  BY <1>7 DEF Commits, Defer, CommitFailed, CommitBlocked, CommitStart,
      CommitTerminal, Probe, EventLock, Load, Exec, MarkSuccess, MarkRetryable
<1>8. ASSUME NEW w \in Workers, EndBatch(w) PROVE Goal
  BY <1>8 DEF EndBatch
<1>9. ASSUME NEW w \in Workers, Lifecycle(w) PROVE Goal
  BY <1>9 DEF Lifecycle, Ended, Restart
<1>10. ASSUME NEW w \in Workers, Stop(w) PROVE Goal
  BY <1>10 DEF Stop
<1>11. ASSUME NEW w \in Workers, Crash(w) PROVE Goal
  BY <1>11 DEF Crash
<1>12. ASSUME NEW w \in Workers, NEW s \in Segs, ExpireItem(w, s) PROVE Goal
  BY <1>12 DEF ExpireItem
<1>13. ASSUME NEW w \in Workers, NEW s \in Segs, ExpireOwned(w, s) PROVE Goal
  BY <1>13 DEF ExpireOwned
<1>14. ASSUME NEW w \in Workers, NEW s \in Segs, ClaimFault(w, s) PROVE Goal
  BY <1>14 DEF ClaimFault
<1>15. ASSUME NEW w \in Workers, NEW s \in Segs, ApplyFault(w, s) PROVE Goal
  BY <1>15 DEF ApplyFault
<1>16. ASSUME NEW s \in Segs, ExpireOrphan(s) PROVE Goal
  BY <1>16 DEF ExpireOrphan
<1>17. CASE ExpireEventOrphan
  BY <1>17 DEF ExpireEventOrphan
<1>18. CASE ExpireEventOwned
  BY <1>18 DEF ExpireEventOwned
<1> QED BY <1>1, <1>2, <1>3, <1>4, <1>5, <1>6, <1>7, <1>8, <1>9, <1>10, <1>11,
      <1>12, <1>13, <1>14, <1>15, <1>16, <1>17, <1>18 DEF Next, BatchThread,
      Environment, Expiry, Planner

\* A plan speaks of segments.
LEMMA PlanStep ==
    ASSUME QueueOK, PlanOK, [Next]_vars
    PROVE  PlanOK'
<1> DEFINE Goal == PlanOK'
<1> USE QueueOK, PlanOK DEF PlanOK, QueueOK, NoPlan
<1>1. CASE UNCHANGED vars
  BY <1>1
<1>2. ASSUME NEW w \in Workers, PlanRead(w) PROVE Goal
  BY <1>2 DEF PlanRead
<1>3. ASSUME NEW w \in Workers, PlanAct(w) PROVE Goal
  BY <1>3 DEF PlanAct
<1>4. ASSUME NEW w \in Workers, NEW s \in Segs, Claims(w, s) PROVE Goal
  BY <1>4 DEF Claims, SkipBlocked, ClaimBusy, ClaimLock, ClaimRead,
      ClaimReject, ClaimWrite
<1>5. ASSUME NEW w \in Workers, NEW s \in Segs, Analysis(w, s) PROVE Goal
  BY <1>5 DEF Analysis, AnalysisOk, AnalysisFail
<1>6. ASSUME NEW w \in Workers, Pop(w) PROVE Goal
  BY <1>6 DEF Pop
<1>7. ASSUME NEW w \in Workers, NEW s \in Segs, Commits(w, s) PROVE Goal
  BY <1>7 DEF Commits, Defer, CommitFailed, CommitBlocked, CommitStart,
      CommitTerminal, Probe, EventLock, Load, Exec, MarkSuccess, MarkRetryable
<1>8. ASSUME NEW w \in Workers, EndBatch(w) PROVE Goal
  BY <1>8 DEF EndBatch
<1>9. ASSUME NEW w \in Workers, Ended(w) PROVE Goal
  BY <1>9 DEF Ended
<1>10. ASSUME NEW w \in Workers, Restart(w) PROVE Goal
  BY <1>10 DEF Restart
<1>11. ASSUME NEW w \in Workers, Stop(w) PROVE Goal
  BY <1>11 DEF Stop
<1>12. ASSUME NEW w \in Workers, Crash(w) PROVE Goal
  BY <1>12 DEF Crash
<1>13. ASSUME NEW w \in Workers, NEW s \in Segs, ExpireItem(w, s) PROVE Goal
  BY <1>13 DEF ExpireItem
<1>14. ASSUME NEW w \in Workers, NEW s \in Segs, ExpireOwned(w, s) PROVE Goal
  BY <1>14 DEF ExpireOwned
<1>15. ASSUME NEW w \in Workers, NEW s \in Segs, ClaimFault(w, s) PROVE Goal
  BY <1>15 DEF ClaimFault
<1>16. ASSUME NEW w \in Workers, NEW s \in Segs, ApplyFault(w, s) PROVE Goal
  BY <1>16 DEF ApplyFault
<1>17. ASSUME NEW s \in Segs, ExpireOrphan(s) PROVE Goal
  BY <1>17 DEF ExpireOrphan
<1>18. CASE ExpireEventOrphan
  BY <1>18 DEF ExpireEventOrphan
<1>19. CASE ExpireEventOwned
  BY <1>19 DEF ExpireEventOwned
<1> QED BY <1>1, <1>2, <1>3, <1>4, <1>5, <1>6, <1>7, <1>8, <1>9, <1>10, <1>11,
      <1>12, <1>13, <1>14, <1>15, <1>16, <1>17, <1>18, <1>19 DEF Next,
      BatchThread, Environment, Expiry, Lifecycle, Planner

\* Every segment of a batch is in some stage.
LEMMA JobStep ==
    ASSUME JobOK, QueueOK, PlanOK, [Next]_vars
    PROVE  JobOK'
<1> DEFINE Goal == JobOK'
<1> USE JobOK, QueueOK, PlanOK DEF JobOK, Stages, ClaimStages, CommitStages,
        PendStages
<1>1. CASE UNCHANGED vars
  BY <1>1
<1>2. ASSUME NEW w \in Workers, PlanRead(w) PROVE Goal
  BY <1>2 DEF PlanRead
<1>3. ASSUME NEW w \in Workers, PlanAct(w) PROVE Goal
  <2>1. plan[w].work \subseteq Segs
    BY DEF PlanOK
  <2>2. FirstOf(plan[w].work) \subseteq Segs
    BY <2>1, FirstOfIsWork
  <2> QED BY <1>3, <2>2 DEF PlanAct, JobOK, Stages
<1>4. ASSUME NEW w \in Workers, NEW s \in Segs, Claims(w, s) PROVE Goal
  BY <1>4 DEF Claims, SkipBlocked, ClaimBusy, ClaimLock, ClaimRead,
      ClaimReject, ClaimWrite
<1>5. ASSUME NEW w \in Workers, NEW s \in Segs, Analysis(w, s) PROVE Goal
  BY SMTT(30), <1>5 DEF Analysis, AnalysisOk, AnalysisFail
<1>6. ASSUME NEW w \in Workers, Pop(w) PROVE Goal
  BY <1>6 DEF Pop
<1>7. ASSUME NEW w \in Workers, NEW s \in Segs, Commits(w, s) PROVE Goal
  BY <1>7 DEF Commits, Defer, CommitFailed, CommitBlocked, CommitStart,
      CommitTerminal, Probe, EventLock, Load, Exec, MarkSuccess, MarkRetryable
<1>8. ASSUME NEW w \in Workers, EndBatch(w) PROVE Goal
  BY <1>8 DEF EndBatch
<1>9. ASSUME NEW w \in Workers, Lifecycle(w) PROVE Goal
  BY <1>9 DEF Lifecycle, Ended, Restart
<1>10. ASSUME NEW w \in Workers, Stop(w) PROVE Goal
  BY <1>10 DEF Stop
<1>11. ASSUME NEW w \in Workers, Crash(w) PROVE Goal
  BY <1>11 DEF Crash
<1>12. ASSUME NEW w \in Workers, NEW s \in Segs, ExpireItem(w, s) PROVE Goal
  BY <1>12 DEF ExpireItem
<1>13. ASSUME NEW w \in Workers, NEW s \in Segs, ExpireOwned(w, s) PROVE Goal
  BY <1>13 DEF ExpireOwned
<1>14. ASSUME NEW w \in Workers, NEW s \in Segs, ClaimFault(w, s) PROVE Goal
  BY <1>14 DEF ClaimFault
<1>15. ASSUME NEW w \in Workers, NEW s \in Segs, ApplyFault(w, s) PROVE Goal
  BY <1>15 DEF ApplyFault
<1>16. ASSUME NEW s \in Segs, ExpireOrphan(s) PROVE Goal
  BY <1>16 DEF ExpireOrphan
<1>17. CASE ExpireEventOrphan
  BY <1>17 DEF ExpireEventOrphan
<1>18. CASE ExpireEventOwned
  BY <1>18 DEF ExpireEventOwned
<1> QED BY <1>1, <1>2, <1>3, <1>4, <1>5, <1>6, <1>7, <1>8, <1>9, <1>10, <1>11,
      <1>12, <1>13, <1>14, <1>15, <1>16, <1>17, <1>18 DEF Next, BatchThread,
      Environment, Expiry, Planner

\* The bounds are only used up.
LEMMA LeftStep ==
    ASSUME LeftOK, [Next]_vars
    PROVE  LeftOK'
<1> DEFINE Goal == LeftOK'
<1> USE LeftOK DEF LeftOK
<1>1. CASE UNCHANGED vars
  BY <1>1
<1>2. ASSUME NEW w \in Workers, Planner(w) PROVE Goal
  BY <1>2 DEF Planner, PlanRead, PlanAct
<1>3. ASSUME NEW w \in Workers, NEW s \in Segs, Claims(w, s) PROVE Goal
  BY <1>3 DEF Claims, SkipBlocked, ClaimBusy, ClaimLock, ClaimRead,
      ClaimReject, ClaimWrite
<1>4. ASSUME NEW w \in Workers, NEW s \in Segs, Analysis(w, s) PROVE Goal
  BY <1>4 DEF Analysis, AnalysisOk, AnalysisFail
<1>5. ASSUME NEW w \in Workers, Pop(w) PROVE Goal
  BY <1>5 DEF Pop
<1>6. ASSUME NEW w \in Workers, NEW s \in Segs, Commits(w, s) PROVE Goal
  BY <1>6 DEF Commits, Defer, CommitFailed, CommitBlocked, CommitStart,
      CommitTerminal, Probe, EventLock, Load, Exec, MarkSuccess, MarkRetryable
<1>7. ASSUME NEW w \in Workers, EndBatch(w) PROVE Goal
  BY <1>7 DEF EndBatch
<1>8. ASSUME NEW w \in Workers, Lifecycle(w) PROVE Goal
  BY <1>8 DEF Lifecycle, Ended, Restart
<1>9. ASSUME NEW w \in Workers, Stop(w) PROVE Goal
  BY <1>9 DEF Stop
<1>10. ASSUME NEW w \in Workers, Crash(w) PROVE Goal
  BY <1>10 DEF Crash
<1>11. ASSUME NEW w \in Workers, NEW s \in Segs, ExpireItem(w, s) PROVE Goal
  BY <1>11 DEF ExpireItem
<1>12. ASSUME NEW w \in Workers, NEW s \in Segs, ExpireOwned(w, s) PROVE Goal
  BY <1>12 DEF ExpireOwned
<1>13. ASSUME NEW w \in Workers, NEW s \in Segs, ClaimFault(w, s) PROVE Goal
  BY <1>13 DEF ClaimFault
<1>14. ASSUME NEW w \in Workers, NEW s \in Segs, ApplyFault(w, s) PROVE Goal
  BY <1>14 DEF ApplyFault
<1>15. ASSUME NEW s \in Segs, ExpireOrphan(s) PROVE Goal
  BY <1>15 DEF ExpireOrphan
<1>16. CASE ExpireEventOrphan
  BY <1>16 DEF ExpireEventOrphan
<1>17. CASE ExpireEventOwned
  BY <1>17 DEF ExpireEventOwned
<1> QED BY <1>1, <1>2, <1>3, <1>4, <1>5, <1>6, <1>7, <1>8, <1>9, <1>10, <1>11,
      <1>12, <1>13, <1>14, <1>15, <1>16, <1>17 DEF Next, BatchThread,
      Environment, Expiry

\* The records keep their types; the attempts never pass MaxAttempts.
LEMMA StoreStep ==
    ASSUME StoreTypeOK, JobOK, CountsOK, ClaimHasBudget, [Next]_vars
    PROVE  StoreTypeOK'
<1> DEFINE Goal == StoreTypeOK'
<1> USE StoreTypeOK, JobOK, CountsOK, ClaimHasBudget DEF StoreTypeOK, Status,
        Owns, ClaimHasBudget, CountsOK
<1>1. CASE UNCHANGED vars
  BY <1>1
<1>2. ASSUME NEW w \in Workers, Planner(w) PROVE Goal
  BY <1>2 DEF Planner, PlanRead, PlanAct
<1>3. ASSUME NEW w \in Workers, NEW s \in Segs, Claims(w, s) PROVE Goal
  BY <1>3 DEF Claims, SkipBlocked, ClaimBusy, ClaimLock, ClaimRead,
      ClaimReject, ClaimWrite
<1>4. ASSUME NEW w \in Workers, NEW s \in Segs, Analysis(w, s) PROVE Goal
  BY <1>4 DEF Analysis, AnalysisOk, AnalysisFail
<1>5. ASSUME NEW w \in Workers, Pop(w) PROVE Goal
  BY <1>5 DEF Pop
<1>6. ASSUME NEW w \in Workers, NEW s \in Segs, Commits(w, s) PROVE Goal
  BY <1>6 DEF Commits, Defer, CommitFailed, CommitBlocked, CommitStart,
      CommitTerminal, Probe, EventLock, Load, Exec, MarkSuccess, MarkRetryable
<1>7. ASSUME NEW w \in Workers, EndBatch(w) PROVE Goal
  BY <1>7 DEF EndBatch
<1>8. ASSUME NEW w \in Workers, Lifecycle(w) PROVE Goal
  BY <1>8 DEF Lifecycle, Ended, Restart
<1>9. ASSUME NEW w \in Workers, Stop(w) PROVE Goal
  BY <1>9 DEF Stop
<1>10. ASSUME NEW w \in Workers, Crash(w) PROVE Goal
  BY <1>10 DEF Crash
<1>11. ASSUME NEW w \in Workers, NEW s \in Segs, ExpireItem(w, s) PROVE Goal
  BY <1>11 DEF ExpireItem
<1>12. ASSUME NEW w \in Workers, NEW s \in Segs, ExpireOwned(w, s) PROVE Goal
  BY <1>12 DEF ExpireOwned
<1>13. ASSUME NEW w \in Workers, NEW s \in Segs, ClaimFault(w, s) PROVE Goal
  BY <1>13 DEF ClaimFault
<1>14. ASSUME NEW w \in Workers, NEW s \in Segs, ApplyFault(w, s) PROVE Goal
  BY <1>14 DEF ApplyFault
<1>15. ASSUME NEW s \in Segs, ExpireOrphan(s) PROVE Goal
  BY <1>15 DEF ExpireOrphan
<1>16. CASE ExpireEventOrphan
  BY <1>16 DEF ExpireEventOrphan
<1>17. CASE ExpireEventOwned
  BY <1>17 DEF ExpireEventOwned
<1> QED BY <1>1, <1>2, <1>3, <1>4, <1>5, <1>6, <1>7, <1>8, <1>9, <1>10, <1>11,
      <1>12, <1>13, <1>14, <1>15, <1>16, <1>17 DEF Next, BatchThread,
      Environment, Expiry

\* The event store keeps its types.
LEMMA EventStep ==
    ASSUME EventTypeOK, JobOK, [Next]_vars
    PROVE  EventTypeOK'
<1> DEFINE Goal == EventTypeOK'
<1> USE EventTypeOK, JobOK DEF EventTypeOK
<1>1. CASE UNCHANGED vars
  BY <1>1
<1>2. ASSUME NEW w \in Workers, Planner(w) PROVE Goal
  BY <1>2 DEF Planner, PlanRead, PlanAct
<1>3. ASSUME NEW w \in Workers, NEW s \in Segs, Claims(w, s) PROVE Goal
  BY <1>3 DEF Claims, SkipBlocked, ClaimBusy, ClaimLock, ClaimRead,
      ClaimReject, ClaimWrite
<1>4. ASSUME NEW w \in Workers, NEW s \in Segs, Analysis(w, s) PROVE Goal
  BY <1>4 DEF Analysis, AnalysisOk, AnalysisFail
<1>5. ASSUME NEW w \in Workers, Pop(w) PROVE Goal
  BY <1>5 DEF Pop
<1>6. ASSUME NEW w \in Workers, NEW s \in Segs, Defer(w, s) PROVE Goal
  BY <1>6 DEF Defer
<1>7. ASSUME NEW w \in Workers, NEW s \in Segs, CommitFailed(w, s) PROVE Goal
  BY <1>7 DEF CommitFailed
<1>8. ASSUME NEW w \in Workers, NEW s \in Segs, CommitBlocked(w, s) PROVE Goal
  BY <1>8 DEF CommitBlocked
<1>9. ASSUME NEW w \in Workers, NEW s \in Segs, CommitStart(w, s) PROVE Goal
  BY <1>9 DEF CommitStart
<1>10. ASSUME NEW w \in Workers, NEW s \in Segs, CommitTerminal(w, s) PROVE Goal
  BY <1>10 DEF CommitTerminal
<1>11. ASSUME NEW w \in Workers, NEW s \in Segs, Probe(w, s) PROVE Goal
  BY <1>11 DEF Probe
<1>12. ASSUME NEW w \in Workers, NEW s \in Segs, EventLock(w, s) PROVE Goal
  BY <1>12 DEF EventLock
<1>13. ASSUME NEW w \in Workers, NEW s \in Segs, Load(w, s) PROVE Goal
  BY <1>13 DEF Load
<1>14. ASSUME NEW w \in Workers, NEW s \in Segs, Exec(w, s) PROVE Goal
  BY <1>14 DEF Exec
<1>15. ASSUME NEW w \in Workers, NEW s \in Segs, MarkSuccess(w, s) PROVE Goal
  BY <1>15 DEF MarkSuccess
<1>16. ASSUME NEW w \in Workers, NEW s \in Segs, MarkRetryable(w, s) PROVE Goal
  BY <1>16 DEF MarkRetryable
<1>17. ASSUME NEW w \in Workers, EndBatch(w) PROVE Goal
  BY <1>17 DEF EndBatch
<1>18. ASSUME NEW w \in Workers, Lifecycle(w) PROVE Goal
  BY <1>18 DEF Lifecycle, Ended, Restart
<1>19. ASSUME NEW w \in Workers, Stop(w) PROVE Goal
  BY <1>19 DEF Stop
<1>20. ASSUME NEW w \in Workers, Crash(w) PROVE Goal
  BY <1>20 DEF Crash
<1>21. ASSUME NEW w \in Workers, NEW s \in Segs, ExpireItem(w, s) PROVE Goal
  BY <1>21 DEF ExpireItem
<1>22. ASSUME NEW w \in Workers, NEW s \in Segs, ExpireOwned(w, s) PROVE Goal
  BY <1>22 DEF ExpireOwned
<1>23. ASSUME NEW w \in Workers, NEW s \in Segs, ClaimFault(w, s) PROVE Goal
  BY <1>23 DEF ClaimFault
<1>24. ASSUME NEW w \in Workers, NEW s \in Segs, ApplyFault(w, s) PROVE Goal
  <2>1. marker' \in [Segs -> BOOLEAN] /\ hits' \in [Segs -> Nat]
    <3>1. CASE UNCHANGED <<marker, hits>>
      BY <3>1 DEF EventTypeOK
    <3>2. CASE /\ marker' = [marker EXCEPT ![s] = TRUE]
               /\ hits' = [hits EXCEPT ![s] = @ + 1]
      BY <3>2 DEF EventTypeOK
    <3> QED BY <1>24, <3>1, <3>2 DEF ApplyFault
  <2>2. eventLock' \in Workers \cup {Free, Orphan}
    BY <1>24 DEF ApplyFault, EventTypeOK, FreedBy
  <2> QED BY <2>1, <2>2 DEF EventTypeOK
<1>25. ASSUME NEW s \in Segs, ExpireOrphan(s) PROVE Goal
  BY <1>25 DEF ExpireOrphan
<1>26. CASE ExpireEventOrphan
  BY <1>26 DEF ExpireEventOrphan
<1>27. CASE ExpireEventOwned
  BY <1>27 DEF ExpireEventOwned
<1> QED BY <1>1, <1>2, <1>3, <1>4, <1>5, <1>6, <1>7, <1>8, <1>9, <1>10, <1>11,
      <1>12, <1>13, <1>14, <1>15, <1>16, <1>17, <1>18, <1>19, <1>20, <1>21,
      <1>22, <1>23, <1>24, <1>25, <1>26, <1>27 DEF Next, BatchThread,
      Environment, Expiry, Commits

\* The batch thread is sequential.
LEMMA CallStep ==
    ASSUME JobOK, SessionOK, OneCall, TurnOutsideCalls, [Next]_vars
    PROVE  (OneCall /\ TurnOutsideCalls)'
<1> DEFINE Goal == (OneCall /\ TurnOutsideCalls)'
<1> USE JobOK, SessionOK, OneCall, TurnOutsideCalls DEF OneCall,
        TurnOutsideCalls, Calls, InCall, In, CanFill, Pending, Earliest,
        SessionOK, JobOK, Stages, ClaimStages, CommitStages, PendStages
<1>1. CASE UNCHANGED vars
  BY <1>1
<1>2. ASSUME NEW w \in Workers, PlanRead(w) PROVE Goal
  BY <1>2 DEF PlanRead
<1>3. ASSUME NEW w \in Workers, PlanAct(w) PROVE Goal
  <2>1. ASSUME NEW v \in Workers, NEW s \in Segs, job'[v][s] \in Calls
        PROVE  job[v][s] \in Calls
    BY <1>3, <2>1, PlanActJobs
  <2>2. turn' = turn
    BY <1>3 DEF PlanAct
  <2> QED BY <2>1, <2>2
<1>4. ASSUME NEW w \in Workers, NEW s \in Segs, SkipBlocked(w, s) PROVE Goal
  BY <1>4 DEF SkipBlocked
<1>5. ASSUME NEW w \in Workers, NEW s \in Segs, ClaimBusy(w, s) PROVE Goal
  BY <1>5 DEF ClaimBusy
<1>6. ASSUME NEW w \in Workers, NEW s \in Segs, ClaimLock(w, s) PROVE Goal
  BY <1>6 DEF ClaimLock
<1>7. ASSUME NEW w \in Workers, NEW s \in Segs, ClaimRead(w, s) PROVE Goal
  BY <1>7 DEF ClaimRead
<1>8. ASSUME NEW w \in Workers, NEW s \in Segs, ClaimReject(w, s) PROVE Goal
  BY <1>8 DEF ClaimReject
<1>9. ASSUME NEW w \in Workers, NEW s \in Segs, ClaimWrite(w, s) PROVE Goal
  BY <1>9 DEF ClaimWrite
<1>10. ASSUME NEW w \in Workers, NEW s \in Segs, AnalysisOk(w, s) PROVE Goal
  BY <1>10 DEF AnalysisOk
<1>11. ASSUME NEW w \in Workers, NEW s \in Segs, AnalysisFail(w, s) PROVE Goal
  BY <1>11 DEF AnalysisFail
<1>12. ASSUME NEW w \in Workers, Pop(w) PROVE Goal
  BY <1>12 DEF Pop
<1>13. ASSUME NEW w \in Workers, NEW s \in Segs, Defer(w, s) PROVE Goal
  BY <1>13 DEF Defer
<1>14. ASSUME NEW w \in Workers, NEW s \in Segs, CommitFailed(w, s) PROVE Goal
  BY <1>14 DEF CommitFailed
<1>15. ASSUME NEW w \in Workers, NEW s \in Segs, CommitBlocked(w, s) PROVE Goal
  BY <1>15 DEF CommitBlocked
<1>16. ASSUME NEW w \in Workers, NEW s \in Segs, CommitStart(w, s) PROVE Goal
  BY <1>16 DEF CommitStart
<1>17. ASSUME NEW w \in Workers, NEW s \in Segs, CommitTerminal(w, s) PROVE Goal
  BY <1>17 DEF CommitTerminal
<1>18. ASSUME NEW w \in Workers, NEW s \in Segs, Probe(w, s) PROVE Goal
  BY <1>18 DEF Probe
<1>19. ASSUME NEW w \in Workers, NEW s \in Segs, EventLock(w, s) PROVE Goal
  <2>1. PICK next \in {"load", "undo"} : job' = [job EXCEPT ![w][s] = next]
    BY <1>19 DEF EventLock
  <2>2. turn' = turn /\ job[w][s] = "evlock"
    BY <1>19 DEF EventLock
  <2> QED BY <2>1, <2>2
<1>20. ASSUME NEW w \in Workers, NEW s \in Segs, Load(w, s) PROVE Goal
  <2>1. PICK next \in {"mark", "exec"} : job' = [job EXCEPT ![w][s] = next]
    BY <1>20 DEF Load
  <2>2. turn' = turn /\ job[w][s] = "load"
    BY <1>20 DEF Load
  <2> QED BY <2>1, <2>2
<1>21. ASSUME NEW w \in Workers, NEW s \in Segs, Exec(w, s) PROVE Goal
  BY <1>21 DEF Exec
<1>22. ASSUME NEW w \in Workers, NEW s \in Segs, MarkSuccess(w, s) PROVE Goal
  BY <1>22 DEF MarkSuccess
<1>23. ASSUME NEW w \in Workers, NEW s \in Segs, MarkRetryable(w, s) PROVE Goal
  BY <1>23 DEF MarkRetryable
<1>24. ASSUME NEW w \in Workers, EndBatch(w) PROVE Goal
  BY <1>24 DEF EndBatch
<1>25. ASSUME NEW w \in Workers, Lifecycle(w) PROVE Goal
  BY <1>25 DEF Lifecycle, Ended, Restart
<1>26. ASSUME NEW w \in Workers, Stop(w) PROVE Goal
  BY <1>26 DEF Stop
<1>27. ASSUME NEW w \in Workers, Crash(w) PROVE Goal
  BY <1>27 DEF Crash
<1>28. ASSUME NEW w \in Workers, NEW s \in Segs, ExpireItem(w, s) PROVE Goal
  BY <1>28 DEF ExpireItem
<1>29. ASSUME NEW w \in Workers, NEW s \in Segs, ExpireOwned(w, s) PROVE Goal
  BY <1>29 DEF ExpireOwned
<1>30. ASSUME NEW w \in Workers, NEW s \in Segs, ClaimFault(w, s) PROVE Goal
  BY <1>30 DEF ClaimFault
<1>31. ASSUME NEW w \in Workers, NEW s \in Segs, ApplyFault(w, s) PROVE Goal
  BY <1>31 DEF ApplyFault
<1>32. ASSUME NEW s \in Segs, ExpireOrphan(s) PROVE Goal
  BY <1>32 DEF ExpireOrphan
<1>33. CASE ExpireEventOrphan
  BY <1>33 DEF ExpireEventOrphan
<1>34. CASE ExpireEventOwned
  BY <1>34 DEF ExpireEventOwned
<1> QED BY <1>1, <1>2, <1>3, <1>4, <1>5, <1>6, <1>7, <1>8, <1>9, <1>10, <1>11,
      <1>12, <1>13, <1>14, <1>15, <1>16, <1>17, <1>18, <1>19, <1>20, <1>21,
      <1>22, <1>23, <1>24, <1>25, <1>26, <1>27, <1>28, <1>29, <1>30, <1>31,
      <1>32, <1>33, <1>34 DEF Next, BatchThread, Environment, Expiry,
      Analysis, Claims, Commits, Planner

\* claim() writes only with an attempt left, which no other call changes.
LEMMA BudgetStep ==
    ASSUME StoreTypeOK, CountsOK, JobOK, OneCall, ClaimHasBudget, [Next]_vars
    PROVE  ClaimHasBudget'
<1> DEFINE Goal == ClaimHasBudget'
<1> USE StoreTypeOK, CountsOK, JobOK, OneCall, ClaimHasBudget DEF OneCall,
        ClaimHasBudget, Calls, InCall, In, Rejects, CountsOK, StoreTypeOK,
        JobOK, Stages, ClaimStages, CommitStages, PendStages
<1>1. CASE UNCHANGED vars
  BY <1>1
<1>2. ASSUME NEW w \in Workers, Planner(w) PROVE Goal
  BY <1>2 DEF Planner, PlanRead, PlanAct
<1>3. ASSUME NEW w \in Workers, NEW s \in Segs, Claims(w, s) PROVE Goal
  BY SMTT(30), <1>3 DEF Claims, SkipBlocked, ClaimBusy, ClaimLock, ClaimRead,
      ClaimReject, ClaimWrite
<1>4. ASSUME NEW w \in Workers, NEW s \in Segs, Analysis(w, s) PROVE Goal
  BY <1>4 DEF Analysis, AnalysisOk, AnalysisFail
<1>5. ASSUME NEW w \in Workers, Pop(w) PROVE Goal
  BY <1>5 DEF Pop
<1>6. ASSUME NEW w \in Workers, NEW s \in Segs, Defer(w, s) PROVE Goal
  BY <1>6 DEF Defer
<1>7. ASSUME NEW w \in Workers, NEW s \in Segs, CommitFailed(w, s) PROVE Goal
  BY <1>7 DEF CommitFailed
<1>8. ASSUME NEW w \in Workers, NEW s \in Segs, CommitBlocked(w, s) PROVE Goal
  BY <1>8 DEF CommitBlocked
<1>9. ASSUME NEW w \in Workers, NEW s \in Segs, CommitStart(w, s) PROVE Goal
  BY <1>9 DEF CommitStart
<1>10. ASSUME NEW w \in Workers, NEW s \in Segs, CommitTerminal(w, s) PROVE Goal
  BY <1>10 DEF CommitTerminal
<1>11. ASSUME NEW w \in Workers, NEW s \in Segs, Probe(w, s) PROVE Goal
  BY <1>11 DEF Probe
<1>12. ASSUME NEW w \in Workers, NEW s \in Segs, EventLock(w, s) PROVE Goal
  BY <1>12 DEF EventLock
<1>13. ASSUME NEW w \in Workers, NEW s \in Segs, Load(w, s) PROVE Goal
  BY <1>13 DEF Load
<1>14. ASSUME NEW w \in Workers, NEW s \in Segs, Exec(w, s) PROVE Goal
  BY <1>14 DEF Exec
<1>15. ASSUME NEW w \in Workers, NEW s \in Segs, MarkSuccess(w, s) PROVE Goal
  BY <1>15 DEF MarkSuccess
<1>16. ASSUME NEW w \in Workers, NEW s \in Segs, MarkRetryable(w, s) PROVE Goal
  BY <1>16 DEF MarkRetryable
<1>17. ASSUME NEW w \in Workers, EndBatch(w) PROVE Goal
  BY <1>17 DEF EndBatch
<1>18. ASSUME NEW w \in Workers, Lifecycle(w) PROVE Goal
  BY <1>18 DEF Lifecycle, Ended, Restart
<1>19. ASSUME NEW w \in Workers, Stop(w) PROVE Goal
  BY <1>19 DEF Stop
<1>20. ASSUME NEW w \in Workers, Crash(w) PROVE Goal
  BY <1>20 DEF Crash
<1>21. ASSUME NEW w \in Workers, NEW s \in Segs, ExpireItem(w, s) PROVE Goal
  BY <1>21 DEF ExpireItem
<1>22. ASSUME NEW w \in Workers, NEW s \in Segs, ExpireOwned(w, s) PROVE Goal
  BY <1>22 DEF ExpireOwned
<1>23. ASSUME NEW w \in Workers, NEW s \in Segs, ClaimFault(w, s) PROVE Goal
  BY <1>23 DEF ClaimFault
<1>24. ASSUME NEW w \in Workers, NEW s \in Segs, ApplyFault(w, s) PROVE Goal
  BY <1>24 DEF ApplyFault
<1>25. ASSUME NEW s \in Segs, ExpireOrphan(s) PROVE Goal
  BY <1>25 DEF ExpireOrphan
<1>26. CASE ExpireEventOrphan
  BY <1>26 DEF ExpireEventOrphan
<1>27. CASE ExpireEventOwned
  BY <1>27 DEF ExpireEventOwned
<1> QED BY <1>1, <1>2, <1>3, <1>4, <1>5, <1>6, <1>7, <1>8, <1>9, <1>10, <1>11,
      <1>12, <1>13, <1>14, <1>15, <1>16, <1>17, <1>18, <1>19, <1>20, <1>21,
      <1>22, <1>23, <1>24, <1>25, <1>26, <1>27 DEF Next, BatchThread,
      Environment, Expiry, Commits

\* commit() returns only when the marker exists, and markers stay.
LEMMA MarkStep ==
    ASSUME JobOK, EventTypeOK, QueueOK, MarkHasMarker, [Next]_vars
    PROVE  MarkHasMarker'
<1> DEFINE Goal == MarkHasMarker'
<1> USE JobOK, EventTypeOK, QueueOK, MarkHasMarker DEF MarkHasMarker,
        EventTypeOK, JobOK
<1>1. CASE UNCHANGED vars
  BY <1>1
<1>2. ASSUME NEW w \in Workers, PlanRead(w) PROVE Goal
  BY <1>2 DEF PlanRead
<1>3. ASSUME NEW w \in Workers, PlanAct(w) PROVE Goal
  <2>1. ASSUME NEW v \in Workers, NEW t \in Segs, job'[v][t] = "mark"
        PROVE  job[v][t] = "mark"
    BY <1>3, <2>1, PlanActJobs
  <2>2. marker' = marker
    BY <1>3 DEF PlanAct
  <2> QED BY <2>1, <2>2 DEF MarkHasMarker
<1>4. ASSUME NEW w \in Workers, NEW s \in Segs, SkipBlocked(w, s) PROVE Goal
  BY <1>4 DEF SkipBlocked
<1>5. ASSUME NEW w \in Workers, NEW s \in Segs, ClaimBusy(w, s) PROVE Goal
  BY <1>5 DEF ClaimBusy
<1>6. ASSUME NEW w \in Workers, NEW s \in Segs, ClaimLock(w, s) PROVE Goal
  BY <1>6 DEF ClaimLock
<1>7. ASSUME NEW w \in Workers, NEW s \in Segs, ClaimRead(w, s) PROVE Goal
  BY <1>7 DEF ClaimRead
<1>8. ASSUME NEW w \in Workers, NEW s \in Segs, ClaimReject(w, s) PROVE Goal
  BY <1>8 DEF ClaimReject
<1>9. ASSUME NEW w \in Workers, NEW s \in Segs, ClaimWrite(w, s) PROVE Goal
  BY <1>9 DEF ClaimWrite
<1>10. ASSUME NEW w \in Workers, NEW s \in Segs, Analysis(w, s) PROVE Goal
  BY <1>10 DEF Analysis, AnalysisOk, AnalysisFail
<1>11. ASSUME NEW w \in Workers, Pop(w) PROVE Goal
  BY <1>11 DEF Pop
<1>12. ASSUME NEW w \in Workers, NEW s \in Segs, Commits(w, s) PROVE Goal
  BY <1>12 DEF Commits, Defer, CommitFailed, CommitBlocked, CommitStart,
      CommitTerminal, Probe, EventLock, Load, Exec, MarkSuccess, MarkRetryable
<1>13. ASSUME NEW w \in Workers, EndBatch(w) PROVE Goal
  BY <1>13 DEF EndBatch
<1>14. ASSUME NEW w \in Workers, Lifecycle(w) PROVE Goal
  BY <1>14 DEF Lifecycle, Ended, Restart
<1>15. ASSUME NEW w \in Workers, Stop(w) PROVE Goal
  BY <1>15 DEF Stop
<1>16. ASSUME NEW w \in Workers, Crash(w) PROVE Goal
  BY <1>16 DEF Crash
<1>17. ASSUME NEW w \in Workers, NEW s \in Segs, ExpireItem(w, s) PROVE Goal
  BY <1>17 DEF ExpireItem
<1>18. ASSUME NEW w \in Workers, NEW s \in Segs, ExpireOwned(w, s) PROVE Goal
  BY <1>18 DEF ExpireOwned
<1>19. ASSUME NEW w \in Workers, NEW s \in Segs, ClaimFault(w, s) PROVE Goal
  BY <1>19 DEF ClaimFault
<1>20. ASSUME NEW w \in Workers, NEW s \in Segs, ApplyFault(w, s) PROVE Goal
  BY <1>20 DEF ApplyFault
<1>21. ASSUME NEW s \in Segs, ExpireOrphan(s) PROVE Goal
  BY <1>21 DEF ExpireOrphan
<1>22. CASE ExpireEventOrphan
  BY <1>22 DEF ExpireEventOrphan
<1>23. CASE ExpireEventOwned
  BY <1>23 DEF ExpireEventOwned
<1> QED BY <1>1, <1>2, <1>3, <1>4, <1>5, <1>6, <1>7, <1>8, <1>9, <1>10, <1>11,
      <1>12, <1>13, <1>14, <1>15, <1>16, <1>17, <1>18, <1>19, <1>20, <1>21,
      <1>22, <1>23 DEF Next, BatchThread, Environment, Expiry, Claims, Planner

\* SUCCESS is written only by mark_success.
LEMMA SuccessStep ==
    ASSUME JobOK, StoreTypeOK, EventTypeOK, MarkHasMarker, SuccessIsCommitted,
           [Next]_vars
    PROVE  SuccessIsCommitted'
<1> DEFINE Goal == SuccessIsCommitted'
<1> USE JobOK, StoreTypeOK, EventTypeOK, MarkHasMarker, SuccessIsCommitted DEF
        MarkHasMarker, SuccessIsCommitted, EventTypeOK, StoreTypeOK, Owns
<1>1. CASE UNCHANGED vars
  BY <1>1
<1>2. ASSUME NEW w \in Workers, Planner(w) PROVE Goal
  BY <1>2 DEF Planner, PlanRead, PlanAct
<1>3. ASSUME NEW w \in Workers, NEW s \in Segs, Claims(w, s) PROVE Goal
  BY <1>3 DEF Claims, SkipBlocked, ClaimBusy, ClaimLock, ClaimRead,
      ClaimReject, ClaimWrite
<1>4. ASSUME NEW w \in Workers, NEW s \in Segs, Analysis(w, s) PROVE Goal
  BY <1>4 DEF Analysis, AnalysisOk, AnalysisFail
<1>5. ASSUME NEW w \in Workers, Pop(w) PROVE Goal
  BY <1>5 DEF Pop
<1>6. ASSUME NEW w \in Workers, NEW s \in Segs, Commits(w, s) PROVE Goal
  BY <1>6 DEF Commits, Defer, CommitFailed, CommitBlocked, CommitStart,
      CommitTerminal, Probe, EventLock, Load, Exec, MarkSuccess, MarkRetryable
<1>7. ASSUME NEW w \in Workers, EndBatch(w) PROVE Goal
  BY <1>7 DEF EndBatch
<1>8. ASSUME NEW w \in Workers, Lifecycle(w) PROVE Goal
  BY <1>8 DEF Lifecycle, Ended, Restart
<1>9. ASSUME NEW w \in Workers, Stop(w) PROVE Goal
  BY <1>9 DEF Stop
<1>10. ASSUME NEW w \in Workers, Crash(w) PROVE Goal
  BY <1>10 DEF Crash
<1>11. ASSUME NEW w \in Workers, NEW s \in Segs, ExpireItem(w, s) PROVE Goal
  BY <1>11 DEF ExpireItem
<1>12. ASSUME NEW w \in Workers, NEW s \in Segs, ExpireOwned(w, s) PROVE Goal
  BY <1>12 DEF ExpireOwned
<1>13. ASSUME NEW w \in Workers, NEW s \in Segs, ClaimFault(w, s) PROVE Goal
  BY <1>13 DEF ClaimFault
<1>14. ASSUME NEW w \in Workers, NEW s \in Segs, ApplyFault(w, s) PROVE Goal
  BY <1>14 DEF ApplyFault
<1>15. ASSUME NEW s \in Segs, ExpireOrphan(s) PROVE Goal
  BY <1>15 DEF ExpireOrphan
<1>16. CASE ExpireEventOrphan
  BY <1>16 DEF ExpireEventOrphan
<1>17. CASE ExpireEventOwned
  BY <1>17 DEF ExpireEventOwned
<1> QED BY <1>1, <1>2, <1>3, <1>4, <1>5, <1>6, <1>7, <1>8, <1>9, <1>10, <1>11,
      <1>12, <1>13, <1>14, <1>15, <1>16, <1>17 DEF Next, BatchThread,
      Environment, Expiry

\* A batch ends only when nothing is pending or being called.
LEMMA IdleStep ==
    ASSUME JobOK, QueueOK, PlanOK, IdleHasNoJob, [Next]_vars
    PROVE  IdleHasNoJob'
<1> DEFINE Goal == IdleHasNoJob'
<1> USE JobOK, QueueOK, PlanOK, IdleHasNoJob DEF IdleHasNoJob, In, PendStages,
        Earliest, Pending, QueueOK, JobOK, Stages, ClaimStages, CommitStages,
        PendStages
<1>1. CASE UNCHANGED vars
  BY <1>1
<1>2. ASSUME NEW w \in Workers, PlanRead(w) PROVE Goal
  BY <1>2 DEF PlanRead
<1>3. ASSUME NEW w \in Workers, PlanAct(w) PROVE Goal
  BY <1>3 DEF PlanAct
<1>4. ASSUME NEW w \in Workers, NEW s \in Segs, SkipBlocked(w, s) PROVE Goal
  BY <1>4 DEF SkipBlocked
<1>5. ASSUME NEW w \in Workers, NEW s \in Segs, ClaimBusy(w, s) PROVE Goal
  BY <1>5 DEF ClaimBusy
<1>6. ASSUME NEW w \in Workers, NEW s \in Segs, ClaimLock(w, s) PROVE Goal
  BY <1>6 DEF ClaimLock
<1>7. ASSUME NEW w \in Workers, NEW s \in Segs, ClaimRead(w, s) PROVE Goal
  BY <1>7 DEF ClaimRead
<1>8. ASSUME NEW w \in Workers, NEW s \in Segs, ClaimReject(w, s) PROVE Goal
  BY <1>8 DEF ClaimReject
<1>9. ASSUME NEW w \in Workers, NEW s \in Segs, ClaimWrite(w, s) PROVE Goal
  BY <1>9 DEF ClaimWrite
<1>10. ASSUME NEW w \in Workers, NEW s \in Segs, Analysis(w, s) PROVE Goal
  BY <1>10 DEF Analysis, AnalysisOk, AnalysisFail
<1>11. ASSUME NEW w \in Workers, Pop(w) PROVE Goal
  BY <1>11 DEF Pop
<1>12. ASSUME NEW w \in Workers, NEW s \in Segs, Commits(w, s) PROVE Goal
  BY <1>12 DEF Commits, Defer, CommitFailed, CommitBlocked, CommitStart,
      CommitTerminal, Probe, EventLock, Load, Exec, MarkSuccess, MarkRetryable
<1>13. ASSUME NEW w \in Workers, EndBatch(w) PROVE Goal
  BY <1>13 DEF EndBatch
<1>14. ASSUME NEW w \in Workers, Lifecycle(w) PROVE Goal
  BY <1>14 DEF Lifecycle, Ended, Restart
<1>15. ASSUME NEW w \in Workers, Stop(w) PROVE Goal
  BY <1>15 DEF Stop
<1>16. ASSUME NEW w \in Workers, Crash(w) PROVE Goal
  BY <1>16 DEF Crash
<1>17. ASSUME NEW w \in Workers, NEW s \in Segs, ExpireItem(w, s) PROVE Goal
  BY <1>17 DEF ExpireItem
<1>18. ASSUME NEW w \in Workers, NEW s \in Segs, ExpireOwned(w, s) PROVE Goal
  BY <1>18 DEF ExpireOwned
<1>19. ASSUME NEW w \in Workers, NEW s \in Segs, ClaimFault(w, s) PROVE Goal
  BY <1>19 DEF ClaimFault
<1>20. ASSUME NEW w \in Workers, NEW s \in Segs, ApplyFault(w, s) PROVE Goal
  BY <1>20 DEF ApplyFault
<1>21. ASSUME NEW s \in Segs, ExpireOrphan(s) PROVE Goal
  BY <1>21 DEF ExpireOrphan
<1>22. CASE ExpireEventOrphan
  BY <1>22 DEF ExpireEventOrphan
<1>23. CASE ExpireEventOwned
  BY <1>23 DEF ExpireEventOwned
<1> QED BY <1>1, <1>2, <1>3, <1>4, <1>5, <1>6, <1>7, <1>8, <1>9, <1>10, <1>11,
      <1>12, <1>13, <1>14, <1>15, <1>16, <1>17, <1>18, <1>19, <1>20, <1>21,
      <1>22, <1>23 DEF Next, BatchThread, Environment, Expiry, Claims, Planner

\* Whatever ends a job also releases or abandons its lock.
LEMMA LocksStep ==
    ASSUME JobOK, StoreTypeOK, IdleHasNoJob, LocksHaveJobs, [Next]_vars
    PROVE  LocksHaveJobs'
<1> DEFINE Goal == LocksHaveJobs'
<1> USE JobOK, StoreTypeOK, IdleHasNoJob, LocksHaveJobs DEF LocksHaveJobs,
        Owns, StoreTypeOK, In, Pending, Earliest, IdleHasNoJob, InCall, JobOK,
        Stages, ClaimStages, CommitStages, PendStages
<1>1. CASE UNCHANGED vars
  BY <1>1
<1>2. ASSUME NEW w \in Workers, Planner(w) PROVE Goal
  BY <1>2 DEF Planner, PlanRead, PlanAct
<1>3. ASSUME NEW w \in Workers, NEW s \in Segs, Claims(w, s) PROVE Goal
  BY <1>3 DEF Claims, SkipBlocked, ClaimBusy, ClaimLock, ClaimRead,
      ClaimReject, ClaimWrite
<1>4. ASSUME NEW w \in Workers, NEW s \in Segs, Analysis(w, s) PROVE Goal
  BY <1>4 DEF Analysis, AnalysisOk, AnalysisFail
<1>5. ASSUME NEW w \in Workers, Pop(w) PROVE Goal
  BY <1>5 DEF Pop
<1>6. ASSUME NEW w \in Workers, NEW s \in Segs, Commits(w, s) PROVE Goal
  BY <1>6 DEF Commits, Defer, CommitFailed, CommitBlocked, CommitStart,
      CommitTerminal, Probe, EventLock, Load, Exec, MarkSuccess, MarkRetryable
<1>7. ASSUME NEW w \in Workers, EndBatch(w) PROVE Goal
  BY <1>7 DEF EndBatch
<1>8. ASSUME NEW w \in Workers, Lifecycle(w) PROVE Goal
  BY <1>8 DEF Lifecycle, Ended, Restart
<1>9. ASSUME NEW w \in Workers, Stop(w) PROVE Goal
  BY <1>9 DEF Stop
<1>10. ASSUME NEW w \in Workers, Crash(w) PROVE Goal
  BY <1>10 DEF Crash
<1>11. ASSUME NEW w \in Workers, NEW s \in Segs, ExpireItem(w, s) PROVE Goal
  BY <1>11 DEF ExpireItem
<1>12. ASSUME NEW w \in Workers, NEW s \in Segs, ExpireOwned(w, s) PROVE Goal
  BY <1>12 DEF ExpireOwned
<1>13. ASSUME NEW w \in Workers, NEW s \in Segs, ClaimFault(w, s) PROVE Goal
  BY <1>13 DEF ClaimFault
<1>14. ASSUME NEW w \in Workers, NEW s \in Segs, ApplyFault(w, s) PROVE Goal
  BY <1>14 DEF ApplyFault
<1>15. ASSUME NEW s \in Segs, ExpireOrphan(s) PROVE Goal
  BY <1>15 DEF ExpireOrphan
<1>16. CASE ExpireEventOrphan
  BY <1>16 DEF ExpireEventOrphan
<1>17. CASE ExpireEventOwned
  BY <1>17 DEF ExpireEventOwned
<1> QED BY <1>1, <1>2, <1>3, <1>4, <1>5, <1>6, <1>7, <1>8, <1>9, <1>10, <1>11,
      <1>12, <1>13, <1>14, <1>15, <1>16, <1>17 DEF Next, BatchThread,
      Environment, Expiry

-----------------------------------------------------------------------------
(* The parts that rest on calls ending within their lease.                  *)

\* No lease ends inside claim().
LEMMA ClaimLockStep ==
    ASSUME ~ SlowCalls, JobOK, StoreTypeOK, OneCall, IdleHasNoJob,
           ClaimHoldsLock, [Next]_vars
    PROVE  ClaimHoldsLock'
<1> DEFINE Goal == ClaimHoldsLock'
<1> USE ~ SlowCalls, JobOK, StoreTypeOK, OneCall, IdleHasNoJob, ClaimHoldsLock
        DEF ClaimHoldsLock, Owns, StoreTypeOK, IdleHasNoJob, In, InCall,
        Earliest, Pending, JobOK, ClaimStages
<1>1. CASE UNCHANGED vars
  BY <1>1
<1>2. ASSUME NEW w \in Workers, Planner(w) PROVE Goal
  BY <1>2 DEF Planner, PlanRead, PlanAct
<1>3. ASSUME NEW w \in Workers, NEW s \in Segs, Claims(w, s) PROVE Goal
  BY <1>3 DEF Claims, SkipBlocked, ClaimBusy, ClaimLock, ClaimRead,
      ClaimReject, ClaimWrite
<1>4. ASSUME NEW w \in Workers, NEW s \in Segs, Analysis(w, s) PROVE Goal
  BY <1>4 DEF Analysis, AnalysisOk, AnalysisFail
<1>5. ASSUME NEW w \in Workers, Pop(w) PROVE Goal
  BY <1>5 DEF Pop
<1>6. ASSUME NEW w \in Workers, NEW s \in Segs, Commits(w, s) PROVE Goal
  BY <1>6 DEF Commits, Defer, CommitFailed, CommitBlocked, CommitStart,
      CommitTerminal, Probe, EventLock, Load, Exec, MarkSuccess, MarkRetryable
<1>7. ASSUME NEW w \in Workers, EndBatch(w) PROVE Goal
  BY <1>7 DEF EndBatch
<1>8. ASSUME NEW w \in Workers, Lifecycle(w) PROVE Goal
  BY <1>8 DEF Lifecycle, Ended, Restart
<1>9. ASSUME NEW w \in Workers, Stop(w) PROVE Goal
  BY <1>9 DEF Stop
<1>10. ASSUME NEW w \in Workers, Crash(w) PROVE Goal
  BY <1>10 DEF Crash
<1>11. ASSUME NEW w \in Workers, NEW s \in Segs, ExpireItem(w, s) PROVE Goal
  BY <1>11 DEF ExpireItem
<1>12. ASSUME NEW w \in Workers, NEW s \in Segs, ExpireOwned(w, s) PROVE Goal
  BY <1>12 DEF ExpireOwned
<1>13. ASSUME NEW w \in Workers, NEW s \in Segs, ClaimFault(w, s) PROVE Goal
  BY <1>13 DEF ClaimFault
<1>14. ASSUME NEW w \in Workers, NEW s \in Segs, ApplyFault(w, s) PROVE Goal
  BY <1>14 DEF ApplyFault
<1>15. ASSUME NEW s \in Segs, ExpireOrphan(s) PROVE Goal
  BY <1>15 DEF ExpireOrphan
<1>16. CASE ExpireEventOrphan
  BY <1>16 DEF ExpireEventOrphan
<1>17. CASE ExpireEventOwned
  BY <1>17 DEF ExpireEventOwned
<1> QED BY <1>1, <1>2, <1>3, <1>4, <1>5, <1>6, <1>7, <1>8, <1>9, <1>10, <1>11,
      <1>12, <1>13, <1>14, <1>15, <1>16, <1>17 DEF Next, BatchThread,
      Environment, Expiry

\* No event lock ends inside apply().
LEMMA ApplyLockStep ==
    ASSUME ~ SlowCalls, JobOK, EventTypeOK, OneCall, IdleHasNoJob,
           ApplyHoldsLock, [Next]_vars
    PROVE  ApplyHoldsLock'
<1> DEFINE Goal == ApplyHoldsLock'
<1> USE ~ SlowCalls, JobOK, EventTypeOK, OneCall, IdleHasNoJob, ApplyHoldsLock
        DEF ApplyHoldsLock, EventTypeOK, IdleHasNoJob, OneCall, Calls, In,
        InCall, Earliest, JobOK, ClaimStages, CommitStages
<1>1. CASE UNCHANGED vars
  BY <1>1
<1>2. ASSUME NEW w \in Workers, Planner(w) PROVE Goal
  BY <1>2 DEF Planner, PlanRead, PlanAct
<1>3. ASSUME NEW w \in Workers, NEW s \in Segs, SkipBlocked(w, s) PROVE Goal
  BY <1>3 DEF SkipBlocked
<1>4. ASSUME NEW w \in Workers, NEW s \in Segs, ClaimBusy(w, s) PROVE Goal
  BY <1>4 DEF ClaimBusy
<1>5. ASSUME NEW w \in Workers, NEW s \in Segs, ClaimLock(w, s) PROVE Goal
  BY <1>5 DEF ClaimLock
<1>6. ASSUME NEW w \in Workers, NEW s \in Segs, ClaimRead(w, s) PROVE Goal
  BY <1>6 DEF ClaimRead
<1>7. ASSUME NEW w \in Workers, NEW s \in Segs, ClaimReject(w, s) PROVE Goal
  BY <1>7 DEF ClaimReject
<1>8. ASSUME NEW w \in Workers, NEW s \in Segs, ClaimWrite(w, s) PROVE Goal
  BY <1>8 DEF ClaimWrite
<1>9. ASSUME NEW w \in Workers, NEW s \in Segs, Analysis(w, s) PROVE Goal
  BY <1>9 DEF Analysis, AnalysisOk, AnalysisFail
<1>10. ASSUME NEW w \in Workers, Pop(w) PROVE Goal
  BY <1>10 DEF Pop
<1>11. ASSUME NEW w \in Workers, NEW s \in Segs, Defer(w, s) PROVE Goal
  BY <1>11 DEF Defer
<1>12. ASSUME NEW w \in Workers, NEW s \in Segs, CommitFailed(w, s) PROVE Goal
  BY <1>12 DEF CommitFailed
<1>13. ASSUME NEW w \in Workers, NEW s \in Segs, CommitBlocked(w, s) PROVE Goal
  BY <1>13 DEF CommitBlocked
<1>14. ASSUME NEW w \in Workers, NEW s \in Segs, CommitStart(w, s) PROVE Goal
  BY <1>14 DEF CommitStart
<1>15. ASSUME NEW w \in Workers, NEW s \in Segs, CommitTerminal(w, s) PROVE Goal
  BY <1>15 DEF CommitTerminal
<1>16. ASSUME NEW w \in Workers, NEW s \in Segs, Probe(w, s) PROVE Goal
  BY <1>16 DEF Probe
<1>17. ASSUME NEW w \in Workers, NEW s \in Segs, EventLock(w, s) PROVE Goal
  BY <1>17 DEF EventLock
<1>18. ASSUME NEW w \in Workers, NEW s \in Segs, Load(w, s) PROVE Goal
  BY <1>18 DEF Load
<1>19. ASSUME NEW w \in Workers, NEW s \in Segs, Exec(w, s) PROVE Goal
  BY <1>19 DEF Exec
<1>20. ASSUME NEW w \in Workers, NEW s \in Segs, MarkSuccess(w, s) PROVE Goal
  BY <1>20 DEF MarkSuccess
<1>21. ASSUME NEW w \in Workers, NEW s \in Segs, MarkRetryable(w, s) PROVE Goal
  BY <1>21 DEF MarkRetryable
<1>22. ASSUME NEW w \in Workers, EndBatch(w) PROVE Goal
  BY <1>22 DEF EndBatch
<1>23. ASSUME NEW w \in Workers, Lifecycle(w) PROVE Goal
  BY <1>23 DEF Lifecycle, Ended, Restart
<1>24. ASSUME NEW w \in Workers, Stop(w) PROVE Goal
  BY <1>24 DEF Stop
<1>25. ASSUME NEW w \in Workers, Crash(w) PROVE Goal
  BY <1>25 DEF Crash
<1>26. ASSUME NEW w \in Workers, NEW s \in Segs, ExpireItem(w, s) PROVE Goal
  BY <1>26 DEF ExpireItem
<1>27. ASSUME NEW w \in Workers, NEW s \in Segs, ExpireOwned(w, s) PROVE Goal
  BY <1>27 DEF ExpireOwned
<1>28. ASSUME NEW w \in Workers, NEW s \in Segs, ClaimFault(w, s) PROVE Goal
  BY <1>28 DEF ClaimFault
<1>29. ASSUME NEW w \in Workers, NEW s \in Segs, ApplyFault(w, s) PROVE Goal
  BY <1>29 DEF ApplyFault
<1>30. ASSUME NEW s \in Segs, ExpireOrphan(s) PROVE Goal
  BY <1>30 DEF ExpireOrphan
<1>31. CASE ExpireEventOrphan
  BY <1>31 DEF ExpireEventOrphan
<1>32. CASE ExpireEventOwned
  BY <1>32 DEF ExpireEventOwned
<1> QED BY <1>1, <1>2, <1>3, <1>4, <1>5, <1>6, <1>7, <1>8, <1>9, <1>10, <1>11,
      <1>12, <1>13, <1>14, <1>15, <1>16, <1>17, <1>18, <1>19, <1>20, <1>21,
      <1>22, <1>23, <1>24, <1>25, <1>26, <1>27, <1>28, <1>29, <1>30, <1>31,
      <1>32 DEF Next, BatchThread, Environment, Expiry, Claims, Commits

\* A record becomes final only by the script that deletes its lock.
LEMMA HeldStep ==
    ASSUME ~ SlowCalls, JobOK, StoreTypeOK, OneCall, IdleHasNoJob,
           ClaimHoldsLock, HeldIsOpen, LocksHaveJobs', [Next]_vars
    PROVE  HeldIsOpen'
<1> DEFINE Goal == HeldIsOpen'
<1> USE ~ SlowCalls, JobOK, StoreTypeOK, OneCall, IdleHasNoJob,
        ClaimHoldsLock, HeldIsOpen, LocksHaveJobs' DEF HeldIsOpen, Settled,
        Owns, StoreTypeOK, IdleHasNoJob, Rejects, ClaimHoldsLock, ClaimStages,
        LocksHaveJobs, JobOK, In
<1>1. CASE UNCHANGED vars
  BY <1>1
<1>2. ASSUME NEW w \in Workers, Planner(w) PROVE Goal
  BY <1>2 DEF Planner, PlanRead, PlanAct
<1>3. ASSUME NEW w \in Workers, NEW s \in Segs, Claims(w, s) PROVE Goal
  BY <1>3 DEF Claims, SkipBlocked, ClaimBusy, ClaimLock, ClaimRead,
      ClaimReject, ClaimWrite
<1>4. ASSUME NEW w \in Workers, NEW s \in Segs, Analysis(w, s) PROVE Goal
  BY <1>4 DEF Analysis, AnalysisOk, AnalysisFail
<1>5. ASSUME NEW w \in Workers, Pop(w) PROVE Goal
  BY <1>5 DEF Pop
<1>6. ASSUME NEW w \in Workers, NEW s \in Segs, Commits(w, s) PROVE Goal
  BY <1>6 DEF Commits, Defer, CommitFailed, CommitBlocked, CommitStart,
      CommitTerminal, Probe, EventLock, Load, Exec, MarkSuccess, MarkRetryable
<1>7. ASSUME NEW w \in Workers, EndBatch(w) PROVE Goal
  BY <1>7 DEF EndBatch
<1>8. ASSUME NEW w \in Workers, Lifecycle(w) PROVE Goal
  BY <1>8 DEF Lifecycle, Ended, Restart
<1>9. ASSUME NEW w \in Workers, Stop(w) PROVE Goal
  BY <1>9 DEF Stop
<1>10. ASSUME NEW w \in Workers, Crash(w) PROVE Goal
  BY <1>10 DEF Crash
<1>11. ASSUME NEW w \in Workers, NEW s \in Segs, ExpireItem(w, s) PROVE Goal
  BY <1>11 DEF ExpireItem
<1>12. ASSUME NEW w \in Workers, NEW s \in Segs, ExpireOwned(w, s) PROVE Goal
  BY <1>12 DEF ExpireOwned
<1>13. ASSUME NEW w \in Workers, NEW s \in Segs, ClaimFault(w, s) PROVE Goal
  BY <1>13 DEF ClaimFault
<1>14. ASSUME NEW w \in Workers, NEW s \in Segs, ApplyFault(w, s) PROVE Goal
  BY <1>14 DEF ApplyFault
<1>15. ASSUME NEW s \in Segs, ExpireOrphan(s) PROVE Goal
  BY <1>15 DEF ExpireOrphan
<1>16. CASE ExpireEventOrphan
  BY <1>16 DEF ExpireEventOrphan
<1>17. CASE ExpireEventOwned
  BY <1>17 DEF ExpireEventOwned
<1> QED BY <1>1, <1>2, <1>3, <1>4, <1>5, <1>6, <1>7, <1>8, <1>9, <1>10, <1>11,
      <1>12, <1>13, <1>14, <1>15, <1>16, <1>17 DEF Next, BatchThread,
      Environment, Expiry

\* Only one worker at a time is between the second look at the marker and
\* the transaction, so the marker it saw missing is still missing.
LEMMA ExecStep ==
    ASSUME ~ SlowCalls, JobOK, EventTypeOK, OneCall, ApplyHoldsLock,
           ExecIsFirst, MarkerCounts, [Next]_vars
    PROVE  (ExecIsFirst /\ MarkerCounts)'
<1> DEFINE Goal == (ExecIsFirst /\ MarkerCounts)'
<1> USE ~ SlowCalls, JobOK, EventTypeOK, OneCall, ApplyHoldsLock, ExecIsFirst,
        MarkerCounts DEF ExecIsFirst, MarkerCounts, EventTypeOK,
        ApplyHoldsLock, OneCall, Calls, CommitStages, JobOK, ClaimStages
<1>1. CASE UNCHANGED vars
  BY <1>1
<1>2. ASSUME NEW w \in Workers, PlanRead(w) PROVE Goal
  BY <1>2 DEF PlanRead
<1>3. ASSUME NEW w \in Workers, PlanAct(w) PROVE Goal
  BY SMTT(30), <1>3 DEF PlanAct
<1>4. ASSUME NEW w \in Workers, NEW s \in Segs, Claims(w, s) PROVE Goal
  BY <1>4 DEF Claims, SkipBlocked, ClaimBusy, ClaimLock, ClaimRead,
      ClaimReject, ClaimWrite
<1>5. ASSUME NEW w \in Workers, NEW s \in Segs, Analysis(w, s) PROVE Goal
  BY <1>5 DEF Analysis, AnalysisOk, AnalysisFail
<1>6. ASSUME NEW w \in Workers, Pop(w) PROVE Goal
  BY <1>6 DEF Pop
<1>7. ASSUME NEW w \in Workers, NEW s \in Segs, Commits(w, s) PROVE Goal
  BY <1>7 DEF Commits, Defer, CommitFailed, CommitBlocked, CommitStart,
      CommitTerminal, Probe, EventLock, Load, Exec, MarkSuccess, MarkRetryable
<1>8. ASSUME NEW w \in Workers, EndBatch(w) PROVE Goal
  BY <1>8 DEF EndBatch
<1>9. ASSUME NEW w \in Workers, Lifecycle(w) PROVE Goal
  BY <1>9 DEF Lifecycle, Ended, Restart
<1>10. ASSUME NEW w \in Workers, Stop(w) PROVE Goal
  BY <1>10 DEF Stop
<1>11. ASSUME NEW w \in Workers, Crash(w) PROVE Goal
  BY <1>11 DEF Crash
<1>12. ASSUME NEW w \in Workers, NEW s \in Segs, ExpireItem(w, s) PROVE Goal
  BY <1>12 DEF ExpireItem
<1>13. ASSUME NEW w \in Workers, NEW s \in Segs, ExpireOwned(w, s) PROVE Goal
  BY <1>13 DEF ExpireOwned
<1>14. ASSUME NEW w \in Workers, NEW s \in Segs, ClaimFault(w, s) PROVE Goal
  BY <1>14 DEF ClaimFault
<1>15. ASSUME NEW w \in Workers, NEW s \in Segs, ApplyFault(w, s) PROVE Goal
  BY <1>15 DEF ApplyFault
<1>16. ASSUME NEW s \in Segs, ExpireOrphan(s) PROVE Goal
  BY <1>16 DEF ExpireOrphan
<1>17. CASE ExpireEventOrphan
  BY <1>17 DEF ExpireEventOrphan
<1>18. CASE ExpireEventOwned
  BY <1>18 DEF ExpireEventOwned
<1> QED BY <1>1, <1>2, <1>3, <1>4, <1>5, <1>6, <1>7, <1>8, <1>9, <1>10, <1>11,
      <1>12, <1>13, <1>14, <1>15, <1>16, <1>17, <1>18 DEF Next, BatchThread,
      Environment, Expiry, Planner

\* No step changes a final record: every writer holds the lock of an open one.
LEMMA FinalStep ==
    ASSUME ~ SlowCalls, JobOK, StoreTypeOK, ClaimHoldsLock, HeldIsOpen,
           [Next]_vars
    PROVE  \A r \in Segs : Settled(r) => status'[r] = status[r]
<1> DEFINE Goal == \A r \in Segs : Settled(r) => status'[r] = status[r]
<1> USE ~ SlowCalls, JobOK, StoreTypeOK, ClaimHoldsLock, HeldIsOpen DEF
        Settled, Owns, StoreTypeOK, ClaimHoldsLock, HeldIsOpen, ClaimStages,
        JobOK
<1>1. CASE UNCHANGED vars
  BY <1>1
<1>2. ASSUME NEW w \in Workers, Planner(w) PROVE Goal
  BY <1>2 DEF Planner, PlanRead, PlanAct
<1>3. ASSUME NEW w \in Workers, NEW s \in Segs, Claims(w, s) PROVE Goal
  BY <1>3 DEF Claims, SkipBlocked, ClaimBusy, ClaimLock, ClaimRead,
      ClaimReject, ClaimWrite
<1>4. ASSUME NEW w \in Workers, NEW s \in Segs, Analysis(w, s) PROVE Goal
  BY <1>4 DEF Analysis, AnalysisOk, AnalysisFail
<1>5. ASSUME NEW w \in Workers, Pop(w) PROVE Goal
  BY <1>5 DEF Pop
<1>6. ASSUME NEW w \in Workers, NEW s \in Segs, Commits(w, s) PROVE Goal
  BY <1>6 DEF Commits, Defer, CommitFailed, CommitBlocked, CommitStart,
      CommitTerminal, Probe, EventLock, Load, Exec, MarkSuccess, MarkRetryable
<1>7. ASSUME NEW w \in Workers, EndBatch(w) PROVE Goal
  BY <1>7 DEF EndBatch
<1>8. ASSUME NEW w \in Workers, Lifecycle(w) PROVE Goal
  BY <1>8 DEF Lifecycle, Ended, Restart
<1>9. ASSUME NEW w \in Workers, Stop(w) PROVE Goal
  BY <1>9 DEF Stop
<1>10. ASSUME NEW w \in Workers, Crash(w) PROVE Goal
  BY <1>10 DEF Crash
<1>11. ASSUME NEW w \in Workers, NEW s \in Segs, ExpireItem(w, s) PROVE Goal
  BY <1>11 DEF ExpireItem
<1>12. ASSUME NEW w \in Workers, NEW s \in Segs, ExpireOwned(w, s) PROVE Goal
  BY <1>12 DEF ExpireOwned
<1>13. ASSUME NEW w \in Workers, NEW s \in Segs, ClaimFault(w, s) PROVE Goal
  BY <1>13 DEF ClaimFault
<1>14. ASSUME NEW w \in Workers, NEW s \in Segs, ApplyFault(w, s) PROVE Goal
  BY <1>14 DEF ApplyFault
<1>15. ASSUME NEW s \in Segs, ExpireOrphan(s) PROVE Goal
  BY <1>15 DEF ExpireOrphan
<1>16. CASE ExpireEventOrphan
  BY <1>16 DEF ExpireEventOrphan
<1>17. CASE ExpireEventOwned
  BY <1>17 DEF ExpireEventOwned
<1> QED BY <1>1, <1>2, <1>3, <1>4, <1>5, <1>6, <1>7, <1>8, <1>9, <1>10, <1>11,
      <1>12, <1>13, <1>14, <1>15, <1>16, <1>17 DEF Next, BatchThread,
      Environment, Expiry

-----------------------------------------------------------------------------
(* The inductive invariant and the safety theorems.                         *)

Core ==
    /\ StoreTypeOK /\ EventTypeOK
    /\ SessionOK /\ CountsOK /\ QueueOK /\ PlanOK /\ JobOK /\ LeftOK
    /\ OneCall /\ TurnOutsideCalls /\ ClaimHasBudget
    /\ MarkHasMarker /\ SuccessIsCommitted
    /\ IdleHasNoJob /\ LocksHaveJobs

Fenced ==
    /\ ClaimHoldsLock /\ ApplyHoldsLock /\ HeldIsOpen
    /\ ExecIsFirst /\ MarkerCounts

\* Initially no record, lock, marker or job exists.
LEMMA CoreInit == Init => Core
<1> SUFFICES ASSUME Init PROVE Core
  OBVIOUS
<1> USE DEF Init, StoreInit, EventInit
<1>1. StoreTypeOK /\ EventTypeOK
  BY DEF StoreTypeOK, EventTypeOK, Status
<1>2. SessionOK /\ CountsOK /\ QueueOK /\ JobOK
  BY DEF SessionOK, CountsOK, QueueOK, JobOK, Stages
<1>3. PlanOK /\ LeftOK
  BY DEF PlanOK, LeftOK, NoPlan
<1>4. OneCall /\ TurnOutsideCalls /\ ClaimHasBudget
  BY DEF OneCall, TurnOutsideCalls, ClaimHasBudget, Calls, ClaimStages,
         CommitStages
<1>5. MarkHasMarker /\ SuccessIsCommitted /\ IdleHasNoJob /\ LocksHaveJobs
  BY DEF MarkHasMarker, SuccessIsCommitted, IdleHasNoJob, LocksHaveJobs, Owns
<1> QED BY <1>1, <1>2, <1>3, <1>4, <1>5 DEF Core

\* Every step preserves the part that needs no assumption about leases.
LEMMA CoreStep == Core /\ [Next]_vars => Core'
<1> SUFFICES ASSUME Core, [Next]_vars PROVE Core'
  OBVIOUS
<1> USE DEF Core
<1>1. StoreTypeOK' /\ EventTypeOK'
  BY StoreStep, EventStep
<1>2. SessionOK' /\ CountsOK' /\ QueueOK' /\ PlanOK' /\ JobOK' /\ LeftOK'
  BY SessionStep, CountsStep, QueueStep, PlanStep, JobStep, LeftStep
<1>3. OneCall' /\ TurnOutsideCalls' /\ ClaimHasBudget'
  BY CallStep, BudgetStep
<1>4. MarkHasMarker' /\ SuccessIsCommitted'
  BY MarkStep, SuccessStep
<1>5. IdleHasNoJob' /\ LocksHaveJobs'
  BY IdleStep, LocksStep
<1> QED BY <1>1, <1>2, <1>3, <1>4, <1>5

\* The fenced part, with Core.
LEMMA FencedInit == Init => Fenced
BY DEF Init, StoreInit, EventInit, Fenced, ClaimHoldsLock, ApplyHoldsLock,
       HeldIsOpen, ExecIsFirst, MarkerCounts, Owns, ClaimStages

LEMMA FencedStep ==
    ASSUME ~ SlowCalls
    PROVE  Core /\ Fenced /\ [Next]_vars => Fenced'
<1> SUFFICES ASSUME Core, Fenced, [Next]_vars PROVE Fenced'
  OBVIOUS
<1>1. LocksHaveJobs'
  BY CoreStep DEF Core
<1>2. ClaimHoldsLock' /\ ApplyHoldsLock'
  BY ClaimLockStep, ApplyLockStep DEF Core, Fenced
<1>3. HeldIsOpen'
  BY <1>1, HeldStep DEF Core, Fenced
<1>4. ExecIsFirst' /\ MarkerCounts'
  BY ExecStep DEF Core, Fenced
<1> QED BY <1>2, <1>3, <1>4 DEF Fenced

\* Core is an invariant.
LEMMA CoreHolds == Spec => []Core
BY CoreInit, CoreStep, PTL DEF Spec

\* Fenced is an invariant when calls end within their lease.
LEMMA FencedHolds == ASSUME ~ SlowCalls PROVE Spec => []Fenced
<1>1. Core /\ Fenced /\ [Next]_vars => Fenced'
  BY FencedStep
<1> QED BY <1>1, FencedInit, CoreHolds, PTL DEF Spec

\* Type correctness of workers, records, locks and event store.
THEOREM TypeCorrect == Spec => []TypeOK
<1>1. Core => TypeOK
  BY DEF Core, TypeOK, SessionOK, CountsOK, QueueOK, PlanOK, JobOK, LeftOK
<1> QED BY <1>1, CoreHolds, PTL

\* A segment recorded SUCCESS has its effect in Redis, whatever crashes, lost
\* leases and failing calls the workers met, slow calls included.
THEOREM SuccessCommitted == Spec => []SuccessIsCommitted
<1>1. Core => SuccessIsCommitted
  BY DEF Core
<1> QED BY <1>1, CoreHolds, PTL

\* No lease is renewed for a segment nobody works on.
THEOREM NoLeakedLease == Spec => []LocksHaveJobs
<1>1. Core => LocksHaveJobs
  BY DEF Core
<1> QED BY <1>1, CoreHolds, PTL

\* Exactly-once effects: with calls that end within their lease, no effect is
\* written twice, by however many workers.
THEOREM EffectAtMostOnce == ASSUME ~ SlowCalls PROVE Spec => []EffectOnce
<1>1. Core /\ Fenced => EffectOnce
  BY DEF Core, Fenced, EffectOnce, MarkerCounts, EventTypeOK
<1> QED BY <1>1, CoreHolds, FencedHolds, PTL

\* A final record is never changed again.
THEOREM SettledStays == ASSUME ~ SlowCalls PROVE Spec => SettledIsFinal
<1>1. Core /\ Fenced /\ [Next]_vars
        => [\A s \in Segs : Settled(s) => status'[s] = status[s]]_vars
  BY FinalStep DEF Core, Fenced
<1> QED BY <1>1, CoreHolds, FencedHolds, PTL DEF Spec, SettledIsFinal

-----------------------------------------------------------------------------
(* The workers implement the contract of a segment.                         *)

\* What a step may do to verdicts and effects.
ContractMove ==
    \/ /\ hits' = hits
       /\ \A r \in Segs : ~ Settled(r) => status'[r] \notin {"success", "terminal"}
    \/ \E r \in Segs : /\ hits[r] = 0
                       /\ hits' = [hits EXCEPT ![r] = 1]
                       /\ status' = status
    \/ \E r \in Segs : /\ ~ Settled(r) /\ hits[r] = 1
                       /\ status' = [status EXCEPT ![r] = "success"]
                       /\ hits' = hits
    \/ \E r \in Segs : /\ ~ Settled(r)
                       /\ status' = [status EXCEPT ![r] = "terminal"]
                       /\ hits' = hits

\* Every step of the workers is one of these moves.
LEMMA MoveStep ==
    ASSUME ~ SlowCalls, JobOK, StoreTypeOK, EventTypeOK, MarkHasMarker,
           HeldIsOpen, ExecIsFirst, MarkerCounts, [Next]_vars
    PROVE  ContractMove
<1> DEFINE Goal == ContractMove
<1> USE ~ SlowCalls, JobOK, StoreTypeOK, EventTypeOK, MarkHasMarker,
        HeldIsOpen, ExecIsFirst, MarkerCounts DEF Settled, Owns, StoreTypeOK,
        EventTypeOK, MarkHasMarker, HeldIsOpen, ExecIsFirst, MarkerCounts,
        JobOK, ContractMove
<1>1. CASE UNCHANGED vars
  BY <1>1
<1>2. ASSUME NEW w \in Workers, Planner(w) PROVE Goal
  BY <1>2 DEF Planner, PlanRead, PlanAct
<1>3. ASSUME NEW w \in Workers, NEW s \in Segs, Claims(w, s) PROVE Goal
  BY <1>3 DEF Claims, SkipBlocked, ClaimBusy, ClaimLock, ClaimRead,
      ClaimReject, ClaimWrite
<1>4. ASSUME NEW w \in Workers, NEW s \in Segs, Analysis(w, s) PROVE Goal
  BY <1>4 DEF Analysis, AnalysisOk, AnalysisFail
<1>5. ASSUME NEW w \in Workers, Pop(w) PROVE Goal
  BY <1>5 DEF Pop
<1>6. ASSUME NEW w \in Workers, NEW s \in Segs, Commits(w, s) PROVE Goal
  BY <1>6 DEF Commits, Defer, CommitFailed, CommitBlocked, CommitStart,
      CommitTerminal, Probe, EventLock, Load, Exec, MarkSuccess, MarkRetryable
<1>7. ASSUME NEW w \in Workers, EndBatch(w) PROVE Goal
  BY <1>7 DEF EndBatch
<1>8. ASSUME NEW w \in Workers, Lifecycle(w) PROVE Goal
  BY <1>8 DEF Lifecycle, Ended, Restart
<1>9. ASSUME NEW w \in Workers, Stop(w) PROVE Goal
  BY <1>9 DEF Stop
<1>10. ASSUME NEW w \in Workers, Crash(w) PROVE Goal
  BY <1>10 DEF Crash
<1>11. ASSUME NEW w \in Workers, NEW s \in Segs, ExpireItem(w, s) PROVE Goal
  BY <1>11 DEF ExpireItem
<1>12. ASSUME NEW w \in Workers, NEW s \in Segs, ExpireOwned(w, s) PROVE Goal
  BY <1>12 DEF ExpireOwned
<1>13. ASSUME NEW w \in Workers, NEW s \in Segs, ClaimFault(w, s) PROVE Goal
  BY <1>13 DEF ClaimFault
<1>14. ASSUME NEW w \in Workers, NEW s \in Segs, ApplyFault(w, s) PROVE Goal
  BY <1>14 DEF ApplyFault
<1>15. ASSUME NEW s \in Segs, ExpireOrphan(s) PROVE Goal
  BY <1>15 DEF ExpireOrphan
<1>16. CASE ExpireEventOrphan
  BY <1>16 DEF ExpireEventOrphan
<1>17. CASE ExpireEventOwned
  BY <1>17 DEF ExpireEventOwned
<1> QED BY <1>1, <1>2, <1>3, <1>4, <1>5, <1>6, <1>7, <1>8, <1>9, <1>10, <1>11,
      <1>12, <1>13, <1>14, <1>15, <1>16, <1>17 DEF Next, BatchThread,
      Environment, Expiry

\* Every move is a step of the contract, or leaves its variables alone.
LEMMA MoveIsContractStep ==
    ASSUME StoreTypeOK, StoreTypeOK', EventTypeOK, ContractMove,
           \A r \in Segs : Settled(r) => status'[r] = status[r]
    PROVE  [Contract!Next]_(Contract!contractVars)
<1> USE DEF Contract!contractVars, Contract!Items, Segs
<1>1. CASE /\ hits' = hits
           /\ \A r \in Segs : ~ Settled(r) =>
                               status'[r] \notin {"success", "terminal"}
  <2>1. Verdict' = Verdict
    BY <1>1 DEF Verdict, Settled
  <2> QED BY <1>1, <2>1
<1>2. ASSUME NEW r \in Segs, hits[r] = 0,
             hits' = [hits EXCEPT ![r] = 1], status' = status
      PROVE  Contract!Next
  <2>1. Verdict' = Verdict
    BY <1>2 DEF Verdict
  <2> QED BY <1>2, <2>1 DEF Contract!Next, Contract!Deliver
<1>3. ASSUME NEW r \in Segs, ~ Settled(r), hits[r] = 1,
             status' = [status EXCEPT ![r] = "success"], hits' = hits
      PROVE  Contract!Next
  <2>1. Verdict' = [Verdict EXCEPT ![r] = "accepted"]
    BY <1>3 DEF Verdict, StoreTypeOK
  <2>2. Verdict[r] = "open"
    BY <1>3 DEF Verdict, Settled
  <2> QED BY <1>3, <2>1, <2>2 DEF Contract!Next, Contract!Accept
<1>4. ASSUME NEW r \in Segs, ~ Settled(r),
             status' = [status EXCEPT ![r] = "terminal"], hits' = hits
      PROVE  Contract!Next
  <2>1. Verdict' = [Verdict EXCEPT ![r] = "rejected"]
    BY <1>4 DEF Verdict, StoreTypeOK
  <2>2. Verdict[r] = "open"
    BY <1>4 DEF Verdict, Settled
  <2> QED BY <1>4, <2>1, <2>2 DEF Contract!Next, Contract!Reject
<1> QED BY <1>1, <1>2, <1>3, <1>4 DEF ContractMove

\* The workers, their leases and their retries implement SegmentContract: an
\* effect is delivered at most once, acceptance follows it, verdicts are final.
THEOREM WorkersImplementContract ==
    ASSUME ~ SlowCalls PROVE Spec => ImplementsContract
<1>1. Init => Contract!Init
  BY DEF Init, StoreInit, EventInit, Contract!Init, Contract!Items, Segs, Verdict
<1>2. Core /\ Core' /\ Fenced /\ [Next]_vars
        => [Contract!Next]_(Contract!contractVars)
  <2> SUFFICES ASSUME Core, Core', Fenced, [Next]_vars
               PROVE  [Contract!Next]_(Contract!contractVars)
    OBVIOUS
  <2>1. ContractMove
    BY MoveStep DEF Core, Fenced
  <2>2. \A r \in Segs : Settled(r) => status'[r] = status[r]
    BY FinalStep DEF Core, Fenced
  <2> QED BY <2>1, <2>2, MoveIsContractStep DEF Core
<1> QED BY <1>1, <1>2, CoreHolds, FencedHolds, PTL
        DEF Spec, ImplementsContract, Contract!Spec

-----------------------------------------------------------------------------
(***************************************************************************)
(* The order of effects.                                                   *)
(*                                                                         *)
(* The first part is about one batch, with any number of workers and       *)
(* parallel analyses.  The second is about the whole window and about work *)
(* that must not be lost; it holds of one worker with one analysis at a    *)
(* time whose claim() never fails, and no further (see SilentLoss.cfg).    *)
(***************************************************************************)
(* The order inside a batch.                                                *)

\* The stages of a granted claim: the record is the owner's to change.
Granted == Stages \ {"none", "todo", "locked", "reject"}

\* Only a stopping worker defers; a worker that is down has no work in hand.
SessionFits ==
    \A w \in Workers :
        /\ turn[w] = "defer" => stopFlag[w]
        /\ mode[w] = "down" =>
              batch[w] = {} /\ plan[w] = NoPlan /\ turn[w] = "none"

\* Whose turn it is waits in the deque.
TurnIsPending == \A w \in Workers : turn[w] # "none" => Pending(w) # {}

\* Jobs are the batch's.
JobsInBatch ==
    \A w \in Workers, s \in Segs : job[w][s] # "none" => s \in batch[w]

\* Segments are claimed in order, and a segment commits before later ones.
TakenInOrder ==
    \A w \in Workers : \A s, t \in Segs :
        /\ job[w][s] \notin {"none", "todo"} /\ job[w][t] = "todo" => s < t
        /\ job[w][s] \in CommitStages /\ job[w][t] \in PendStages => s < t

\* Nothing commits behind a segment that failed.
CommitIsUnblocked ==
    \A w \in Workers, s \in Segs : job[w][s] \in CommitStages => blocked[w] = 0

\* The batch commits nothing more: what is popped from here on is deferred.
CommitsNoMore(w) ==
    /\ stopFlag[w]
    /\ turn[w] # "commit"
    /\ \A s \in Segs : job[w][s] \notin CommitStages

\* A worker goes down with its batch done or lost, and stop_event stays set
\* for the rest of its session.
LEMMA SessionFitStep ==
    ASSUME SessionOK, QueueOK, PlanOK, IdleHasNoJob, TurnIsPending,
           SessionFits, [Next]_vars
    PROVE  SessionFits'
<1> DEFINE Goal == SessionFits'
<1> USE SessionOK, QueueOK, PlanOK, IdleHasNoJob, TurnIsPending, SessionFits
    DEF
        SessionFits, SessionOK, QueueOK, PlanOK
<1>1. CASE UNCHANGED vars
  BY <1>1
<1>2. ASSUME NEW w \in Workers, PlanRead(w) PROVE Goal
  BY <1>2 DEF PlanRead
<1>3. ASSUME NEW w \in Workers, PlanAct(w) PROVE Goal
  BY <1>3 DEF PlanAct
<1>4. ASSUME NEW w \in Workers, NEW s \in Segs, Claims(w, s) PROVE Goal
  BY <1>4 DEF Claims, SkipBlocked, ClaimBusy, ClaimLock, ClaimRead,
      ClaimReject, ClaimWrite
<1>5. ASSUME NEW w \in Workers, NEW s \in Segs, Analysis(w, s) PROVE Goal
  BY <1>5 DEF Analysis, AnalysisOk, AnalysisFail
<1>6. ASSUME NEW w \in Workers, Pop(w) PROVE Goal
  BY <1>6 DEF Pop, IdleHasNoJob, Pending, In, PendStages
<1>7. ASSUME NEW w \in Workers, NEW s \in Segs, Commits(w, s) PROVE Goal
  BY <1>7 DEF Commits, Defer, CommitFailed, CommitBlocked, CommitStart,
      CommitTerminal, Probe, EventLock, Load, Exec, MarkSuccess, MarkRetryable
<1>8. ASSUME NEW w \in Workers, EndBatch(w) PROVE Goal
  BY <1>8 DEF EndBatch
<1>9. ASSUME NEW w \in Workers, Ended(w) PROVE Goal
  BY <1>9 DEF Ended, IdleHasNoJob, TurnIsPending, Pending, In, PendStages
<1>10. ASSUME NEW w \in Workers, Restart(w) PROVE Goal
  BY <1>10 DEF Restart
<1>11. ASSUME NEW w \in Workers, Stop(w) PROVE Goal
  BY <1>11 DEF Stop
<1>12. ASSUME NEW w \in Workers, Crash(w) PROVE Goal
  BY <1>12 DEF Crash
<1>13. ASSUME NEW w \in Workers, NEW s \in Segs, ExpireItem(w, s) PROVE Goal
  BY <1>13 DEF ExpireItem
<1>14. ASSUME NEW w \in Workers, NEW s \in Segs, ExpireOwned(w, s) PROVE Goal
  BY <1>14 DEF ExpireOwned
<1>15. ASSUME NEW w \in Workers, NEW s \in Segs, ClaimFault(w, s) PROVE Goal
  BY <1>15 DEF ClaimFault
<1>16. ASSUME NEW w \in Workers, NEW s \in Segs, ApplyFault(w, s) PROVE Goal
  BY <1>16 DEF ApplyFault
<1>17. ASSUME NEW s \in Segs, ExpireOrphan(s) PROVE Goal
  BY <1>17 DEF ExpireOrphan
<1>18. CASE ExpireEventOrphan
  BY <1>18 DEF ExpireEventOrphan
<1>19. CASE ExpireEventOwned
  BY <1>19 DEF ExpireEventOwned
<1> QED BY <1>1, <1>2, <1>3, <1>4, <1>5, <1>6, <1>7, <1>8, <1>9, <1>10, <1>11,
      <1>12, <1>13, <1>14, <1>15, <1>16, <1>17, <1>18, <1>19 DEF
      Next, BatchThread, Environment, Expiry, Planner, Lifecycle

\* A turn begins with a pending segment and ends with it.
LEMMA TurnStep ==
    ASSUME SessionOK, JobOK, IdleHasNoJob, TurnIsPending, [Next]_vars
    PROVE  TurnIsPending'
<1> DEFINE Goal == TurnIsPending'
<1> USE SessionOK, JobOK, IdleHasNoJob, TurnIsPending DEF
        TurnIsPending, SessionOK, JobOK, IdleHasNoJob, Pending, In, CanFill,
        Stages, ClaimStages, CommitStages, PendStages
<1>1. CASE UNCHANGED vars
  BY <1>1
<1>2. ASSUME NEW w \in Workers, PlanRead(w) PROVE Goal
  BY <1>2 DEF PlanRead
<1>3. ASSUME NEW w \in Workers, PlanAct(w) PROVE Goal
  BY SMTT(30), <1>3 DEF PlanAct
<1>4. ASSUME NEW w \in Workers, NEW s \in Segs, SkipBlocked(w, s) PROVE Goal
  BY <1>4 DEF SkipBlocked
<1>5. ASSUME NEW w \in Workers, NEW s \in Segs, ClaimBusy(w, s) PROVE Goal
  BY <1>5 DEF ClaimBusy
<1>6. ASSUME NEW w \in Workers, NEW s \in Segs, ClaimLock(w, s) PROVE Goal
  BY <1>6 DEF ClaimLock
<1>7. ASSUME NEW w \in Workers, NEW s \in Segs, ClaimRead(w, s) PROVE Goal
  BY <1>7 DEF ClaimRead
<1>8. ASSUME NEW w \in Workers, NEW s \in Segs, ClaimReject(w, s) PROVE Goal
  BY <1>8 DEF ClaimReject
<1>9. ASSUME NEW w \in Workers, NEW s \in Segs, ClaimWrite(w, s) PROVE Goal
  BY <1>9 DEF ClaimWrite
<1>10. ASSUME NEW w \in Workers, NEW s \in Segs, AnalysisOk(w, s) PROVE Goal
  BY <1>10 DEF AnalysisOk
<1>11. ASSUME NEW w \in Workers, NEW s \in Segs, AnalysisFail(w, s) PROVE Goal
  BY <1>11 DEF AnalysisFail
<1>12. ASSUME NEW w \in Workers, Pop(w) PROVE Goal
  BY <1>12 DEF Pop
<1>13. ASSUME NEW w \in Workers, NEW s \in Segs, Defer(w, s) PROVE Goal
  BY <1>13 DEF Defer
<1>14. ASSUME NEW w \in Workers, NEW s \in Segs, CommitFailed(w, s) PROVE Goal
  BY <1>14 DEF CommitFailed
<1>15. ASSUME NEW w \in Workers, NEW s \in Segs, CommitBlocked(w, s) PROVE Goal
  BY <1>15 DEF CommitBlocked
<1>16. ASSUME NEW w \in Workers, NEW s \in Segs, CommitStart(w, s) PROVE Goal
  BY <1>16 DEF CommitStart
<1>17. ASSUME NEW w \in Workers, NEW s \in Segs, CommitTerminal(w, s)
       PROVE  Goal
  BY <1>17 DEF CommitTerminal
<1>18. ASSUME NEW w \in Workers, NEW s \in Segs, Probe(w, s) PROVE Goal
  BY <1>18 DEF Probe
<1>19. ASSUME NEW w \in Workers, NEW s \in Segs, EventLock(w, s) PROVE Goal
  BY <1>19 DEF EventLock
<1>20. ASSUME NEW w \in Workers, NEW s \in Segs, Load(w, s) PROVE Goal
  BY <1>20 DEF Load
<1>21. ASSUME NEW w \in Workers, NEW s \in Segs, Exec(w, s) PROVE Goal
  BY <1>21 DEF Exec
<1>22. ASSUME NEW w \in Workers, NEW s \in Segs, MarkSuccess(w, s) PROVE Goal
  BY <1>22 DEF MarkSuccess
<1>23. ASSUME NEW w \in Workers, NEW s \in Segs, MarkRetryable(w, s) PROVE Goal
  BY <1>23 DEF MarkRetryable
<1>24. ASSUME NEW w \in Workers, EndBatch(w) PROVE Goal
  BY <1>24 DEF EndBatch
<1>25. ASSUME NEW w \in Workers, Lifecycle(w) PROVE Goal
  BY <1>25 DEF Lifecycle, Ended, Restart
<1>26. ASSUME NEW w \in Workers, Stop(w) PROVE Goal
  BY <1>26 DEF Stop
<1>27. ASSUME NEW w \in Workers, Crash(w) PROVE Goal
  BY <1>27 DEF Crash
<1>28. ASSUME NEW w \in Workers, NEW s \in Segs, ExpireItem(w, s) PROVE Goal
  BY <1>28 DEF ExpireItem
<1>29. ASSUME NEW w \in Workers, NEW s \in Segs, ExpireOwned(w, s) PROVE Goal
  BY <1>29 DEF ExpireOwned
<1>30. ASSUME NEW w \in Workers, NEW s \in Segs, ClaimFault(w, s) PROVE Goal
  BY <1>30 DEF ClaimFault
<1>31. ASSUME NEW w \in Workers, NEW s \in Segs, ApplyFault(w, s) PROVE Goal
  BY <1>31 DEF ApplyFault
<1>32. ASSUME NEW s \in Segs, ExpireOrphan(s) PROVE Goal
  BY <1>32 DEF ExpireOrphan
<1>33. CASE ExpireEventOrphan
  BY <1>33 DEF ExpireEventOrphan
<1>34. CASE ExpireEventOwned
  BY <1>34 DEF ExpireEventOwned
<1> QED BY <1>1, <1>2, <1>3, <1>4, <1>5, <1>6, <1>7, <1>8, <1>9, <1>10, <1>11,
      <1>12, <1>13, <1>14, <1>15, <1>16, <1>17, <1>18, <1>19, <1>20, <1>21,
      <1>22, <1>23, <1>24, <1>25, <1>26, <1>27, <1>28, <1>29, <1>30, <1>31,
      <1>32, <1>33, <1>34 DEF
      Next, BatchThread, Environment, Expiry, Planner, Claims, Analysis,
      Commits

\* A batch and its jobs begin and end together.
LEMMA JobsStep ==
    ASSUME JobOK, QueueOK, PlanOK, JobsInBatch, [Next]_vars
    PROVE  JobsInBatch'
<1> DEFINE Goal == JobsInBatch'
<1> USE JobOK, QueueOK, PlanOK, JobsInBatch DEF
        JobsInBatch, JobOK, QueueOK, In, Earliest, Pending, PendStages
<1>1. CASE UNCHANGED vars
  BY <1>1
<1>2. ASSUME NEW w \in Workers, PlanRead(w) PROVE Goal
  BY <1>2 DEF PlanRead
<1>3. ASSUME NEW w \in Workers, PlanAct(w) PROVE Goal
  BY <1>3 DEF PlanAct
<1>4. ASSUME NEW w \in Workers, NEW s \in Segs, Claims(w, s) PROVE Goal
  BY <1>4 DEF Claims, SkipBlocked, ClaimBusy, ClaimLock, ClaimRead,
      ClaimReject, ClaimWrite
<1>5. ASSUME NEW w \in Workers, NEW s \in Segs, AnalysisOk(w, s) PROVE Goal
  BY <1>5 DEF AnalysisOk
<1>6. ASSUME NEW w \in Workers, NEW s \in Segs, AnalysisFail(w, s) PROVE Goal
  BY <1>6 DEF AnalysisFail
<1>7. ASSUME NEW w \in Workers, Pop(w) PROVE Goal
  BY <1>7 DEF Pop
<1>8. ASSUME NEW w \in Workers, NEW s \in Segs, Commits(w, s) PROVE Goal
  BY <1>8 DEF Commits, Defer, CommitFailed, CommitBlocked, CommitStart,
      CommitTerminal, Probe, EventLock, Load, Exec, MarkSuccess, MarkRetryable
<1>9. ASSUME NEW w \in Workers, EndBatch(w) PROVE Goal
  BY <1>9 DEF EndBatch
<1>10. ASSUME NEW w \in Workers, Lifecycle(w) PROVE Goal
  BY <1>10 DEF Lifecycle, Ended, Restart
<1>11. ASSUME NEW w \in Workers, Stop(w) PROVE Goal
  BY <1>11 DEF Stop
<1>12. ASSUME NEW w \in Workers, Crash(w) PROVE Goal
  BY <1>12 DEF Crash
<1>13. ASSUME NEW w \in Workers, NEW s \in Segs, ExpireItem(w, s) PROVE Goal
  BY <1>13 DEF ExpireItem
<1>14. ASSUME NEW w \in Workers, NEW s \in Segs, ExpireOwned(w, s) PROVE Goal
  BY <1>14 DEF ExpireOwned
<1>15. ASSUME NEW w \in Workers, NEW s \in Segs, ClaimFault(w, s) PROVE Goal
  BY <1>15 DEF ClaimFault
<1>16. ASSUME NEW w \in Workers, NEW s \in Segs, ApplyFault(w, s) PROVE Goal
  BY <1>16 DEF ApplyFault
<1>17. ASSUME NEW s \in Segs, ExpireOrphan(s) PROVE Goal
  BY <1>17 DEF ExpireOrphan
<1>18. CASE ExpireEventOrphan
  BY <1>18 DEF ExpireEventOrphan
<1>19. CASE ExpireEventOwned
  BY <1>19 DEF ExpireEventOwned
<1> QED BY <1>1, <1>2, <1>3, <1>4, <1>5, <1>6, <1>7, <1>8, <1>9, <1>10, <1>11,
      <1>12, <1>13, <1>14, <1>15, <1>16, <1>17, <1>18, <1>19 DEF
      Next, BatchThread, Environment, Expiry, Planner, Analysis

\* The earliest segment left is claimed, and the earliest pending one
\* commits, while no other is in a call.
LEMMA TakenStep ==
    ASSUME JobOK, QueueOK, OneCall, TakenInOrder, [Next]_vars
    PROVE  TakenInOrder'
<1> DEFINE Goal == TakenInOrder'
<1> USE JobOK, QueueOK, OneCall, TakenInOrder DEF
        TakenInOrder, JobOK, OneCall, Calls, In, InCall, Earliest, Pending,
        Segs, Stages, ClaimStages, CommitStages, PendStages
<1>1. CASE UNCHANGED vars
  BY <1>1
<1>2. ASSUME NEW w \in Workers, PlanRead(w) PROVE Goal
  BY <1>2 DEF PlanRead
<1>3. ASSUME NEW w \in Workers, PlanAct(w) PROVE Goal
  BY <1>3 DEF PlanAct
<1>4. ASSUME NEW w \in Workers, NEW s \in Segs, SkipBlocked(w, s) PROVE Goal
  BY <1>4 DEF SkipBlocked
<1>5. ASSUME NEW w \in Workers, NEW s \in Segs, ClaimBusy(w, s) PROVE Goal
  BY <1>5 DEF ClaimBusy
<1>6. ASSUME NEW w \in Workers, NEW s \in Segs, ClaimLock(w, s) PROVE Goal
  BY <1>6 DEF ClaimLock
<1>7. ASSUME NEW w \in Workers, NEW s \in Segs, ClaimRead(w, s) PROVE Goal
  BY <1>7 DEF ClaimRead
<1>8. ASSUME NEW w \in Workers, NEW s \in Segs, ClaimReject(w, s) PROVE Goal
  BY <1>8 DEF ClaimReject
<1>9. ASSUME NEW w \in Workers, NEW s \in Segs, ClaimWrite(w, s) PROVE Goal
  BY <1>9 DEF ClaimWrite
<1>10. ASSUME NEW w \in Workers, NEW s \in Segs, AnalysisOk(w, s) PROVE Goal
  BY <1>10 DEF AnalysisOk
<1>11. ASSUME NEW w \in Workers, NEW s \in Segs, AnalysisFail(w, s) PROVE Goal
  BY <1>11 DEF AnalysisFail
<1>12. ASSUME NEW w \in Workers, Pop(w) PROVE Goal
  BY <1>12 DEF Pop
<1>13. ASSUME NEW w \in Workers, NEW s \in Segs, Defer(w, s) PROVE Goal
  BY <1>13 DEF Defer
<1>14. ASSUME NEW w \in Workers, NEW s \in Segs, CommitFailed(w, s) PROVE Goal
  BY <1>14 DEF CommitFailed
<1>15. ASSUME NEW w \in Workers, NEW s \in Segs, CommitBlocked(w, s) PROVE Goal
  BY <1>15 DEF CommitBlocked
<1>16. ASSUME NEW w \in Workers, NEW s \in Segs, CommitStart(w, s) PROVE Goal
  BY <1>16 DEF CommitStart
<1>17. ASSUME NEW w \in Workers, NEW s \in Segs, CommitTerminal(w, s)
       PROVE  Goal
  BY <1>17 DEF CommitTerminal
<1>18. ASSUME NEW w \in Workers, NEW s \in Segs, Probe(w, s) PROVE Goal
  BY <1>18 DEF Probe
<1>19. ASSUME NEW w \in Workers, NEW s \in Segs, EventLock(w, s) PROVE Goal
  <2>1. CASE eventLock = Free
    BY <1>19, <2>1 DEF EventLock
  <2>2. CASE eventLock # Free
    BY <1>19, <2>2 DEF EventLock
  <2> QED BY <2>1, <2>2
<1>20. ASSUME NEW w \in Workers, NEW s \in Segs, Load(w, s) PROVE Goal
  BY <1>20 DEF Load
<1>21. ASSUME NEW w \in Workers, NEW s \in Segs, Exec(w, s) PROVE Goal
  BY <1>21 DEF Exec
<1>22. ASSUME NEW w \in Workers, NEW s \in Segs, MarkSuccess(w, s) PROVE Goal
  BY <1>22 DEF MarkSuccess
<1>23. ASSUME NEW w \in Workers, NEW s \in Segs, MarkRetryable(w, s) PROVE Goal
  BY <1>23 DEF MarkRetryable
<1>24. ASSUME NEW w \in Workers, EndBatch(w) PROVE Goal
  BY <1>24 DEF EndBatch
<1>25. ASSUME NEW w \in Workers, Lifecycle(w) PROVE Goal
  BY <1>25 DEF Lifecycle, Ended, Restart
<1>26. ASSUME NEW w \in Workers, Stop(w) PROVE Goal
  BY <1>26 DEF Stop
<1>27. ASSUME NEW w \in Workers, Crash(w) PROVE Goal
  BY <1>27 DEF Crash
<1>28. ASSUME NEW w \in Workers, NEW s \in Segs, ExpireItem(w, s) PROVE Goal
  BY <1>28 DEF ExpireItem
<1>29. ASSUME NEW w \in Workers, NEW s \in Segs, ExpireOwned(w, s) PROVE Goal
  BY <1>29 DEF ExpireOwned
<1>30. ASSUME NEW w \in Workers, NEW s \in Segs, ClaimFault(w, s) PROVE Goal
  BY <1>30 DEF ClaimFault
<1>31. ASSUME NEW w \in Workers, NEW s \in Segs, ApplyFault(w, s) PROVE Goal
  BY <1>31 DEF ApplyFault
<1>32. ASSUME NEW s \in Segs, ExpireOrphan(s) PROVE Goal
  BY <1>32 DEF ExpireOrphan
<1>33. CASE ExpireEventOrphan
  BY <1>33 DEF ExpireEventOrphan
<1>34. CASE ExpireEventOwned
  BY <1>34 DEF ExpireEventOwned
<1> QED BY <1>1, <1>2, <1>3, <1>4, <1>5, <1>6, <1>7, <1>8, <1>9, <1>10, <1>11,
      <1>12, <1>13, <1>14, <1>15, <1>16, <1>17, <1>18, <1>19, <1>20, <1>21,
      <1>22, <1>23, <1>24, <1>25, <1>26, <1>27, <1>28, <1>29, <1>30, <1>31,
      <1>32, <1>33, <1>34 DEF
      Next, BatchThread, Environment, Expiry, Planner, Claims, Analysis,
      Commits

\* What blocks the processor is the end of a commit or the answer BUSY, and
\* both find no other segment in a call.
LEMMA UnblockedStep ==
    ASSUME JobOK, CountsOK, OneCall, TurnOutsideCalls, CommitIsUnblocked,
           [Next]_vars
    PROVE  CommitIsUnblocked'
<1> DEFINE Goal == CommitIsUnblocked'
<1> USE JobOK, CountsOK, OneCall, TurnOutsideCalls, CommitIsUnblocked DEF
        CommitIsUnblocked, JobOK, CountsOK, OneCall, TurnOutsideCalls, Calls,
        In, InCall, Earliest, Pending, Segs, Stages, ClaimStages, CommitStages,
        PendStages
<1>1. CASE UNCHANGED vars
  BY <1>1
<1>2. ASSUME NEW w \in Workers, PlanRead(w) PROVE Goal
  BY <1>2 DEF PlanRead
<1>3. ASSUME NEW w \in Workers, PlanAct(w) PROVE Goal
  <2>1. \A v \in Workers, r \in Segs :
           job'[v][r] \in {job[v][r], "none", "todo"}
    BY <1>3, PlanActJobs
  <2> QED BY <1>3, <2>1 DEF PlanAct
<1>4. ASSUME NEW w \in Workers, NEW s \in Segs, SkipBlocked(w, s) PROVE Goal
  BY <1>4 DEF SkipBlocked
<1>5. ASSUME NEW w \in Workers, NEW s \in Segs, ClaimBusy(w, s) PROVE Goal
  <2>1. \A t \in Segs : job'[w][t] \notin CommitStages
    <3>1. \A t \in Segs : job[w][t] \notin CommitStages
      BY <1>5 DEF ClaimBusy
    <3>2. job' = [job EXCEPT ![w][s] = "none"]
      BY <1>5 DEF ClaimBusy
    <3> QED BY <3>1, <3>2
  <2>2. \A v \in Workers : v # w =>
           blocked'[v] = blocked[v] /\ job'[v] = job[v]
    BY <1>5 DEF ClaimBusy
  <2> QED BY <2>1, <2>2
<1>6. ASSUME NEW w \in Workers, NEW s \in Segs, ClaimLock(w, s) PROVE Goal
  BY <1>6 DEF ClaimLock
<1>7. ASSUME NEW w \in Workers, NEW s \in Segs, ClaimRead(w, s) PROVE Goal
  BY <1>7 DEF ClaimRead
<1>8. ASSUME NEW w \in Workers, NEW s \in Segs, ClaimReject(w, s) PROVE Goal
  BY <1>8 DEF ClaimReject
<1>9. ASSUME NEW w \in Workers, NEW s \in Segs, ClaimWrite(w, s) PROVE Goal
  BY <1>9 DEF ClaimWrite
<1>10. ASSUME NEW w \in Workers, NEW s \in Segs, AnalysisOk(w, s) PROVE Goal
  BY <1>10 DEF AnalysisOk
<1>11. ASSUME NEW w \in Workers, NEW s \in Segs, AnalysisFail(w, s) PROVE Goal
  BY <1>11 DEF AnalysisFail
<1>12. ASSUME NEW w \in Workers, Pop(w) PROVE Goal
  BY <1>12 DEF Pop
<1>13. ASSUME NEW w \in Workers, NEW s \in Segs, Defer(w, s) PROVE Goal
  BY <1>13 DEF Defer
<1>14. ASSUME NEW w \in Workers, NEW s \in Segs, CommitFailed(w, s) PROVE Goal
  BY <1>14 DEF CommitFailed
<1>15. ASSUME NEW w \in Workers, NEW s \in Segs, CommitBlocked(w, s) PROVE Goal
  BY <1>15 DEF CommitBlocked
<1>16. ASSUME NEW w \in Workers, NEW s \in Segs, CommitStart(w, s) PROVE Goal
  BY <1>16 DEF CommitStart
<1>17. ASSUME NEW w \in Workers, NEW s \in Segs, CommitTerminal(w, s)
       PROVE  Goal
  BY SMTT(30), <1>17 DEF CommitTerminal
<1>18. ASSUME NEW w \in Workers, NEW s \in Segs, Probe(w, s) PROVE Goal
  BY <1>18 DEF Probe
<1>19. ASSUME NEW w \in Workers, NEW s \in Segs, EventLock(w, s) PROVE Goal
  BY <1>19 DEF EventLock
<1>20. ASSUME NEW w \in Workers, NEW s \in Segs, Load(w, s) PROVE Goal
  BY <1>20 DEF Load
<1>21. ASSUME NEW w \in Workers, NEW s \in Segs, Exec(w, s) PROVE Goal
  BY <1>21 DEF Exec
<1>22. ASSUME NEW w \in Workers, NEW s \in Segs, MarkSuccess(w, s) PROVE Goal
  BY <1>22 DEF MarkSuccess
<1>23. ASSUME NEW w \in Workers, NEW s \in Segs, MarkRetryable(w, s) PROVE Goal
  BY <1>23 DEF MarkRetryable
<1>24. ASSUME NEW w \in Workers, EndBatch(w) PROVE Goal
  BY <1>24 DEF EndBatch
<1>25. ASSUME NEW w \in Workers, Lifecycle(w) PROVE Goal
  BY <1>25 DEF Lifecycle, Ended, Restart
<1>26. ASSUME NEW w \in Workers, Stop(w) PROVE Goal
  BY <1>26 DEF Stop
<1>27. ASSUME NEW w \in Workers, Crash(w) PROVE Goal
  BY <1>27 DEF Crash
<1>28. ASSUME NEW w \in Workers, NEW s \in Segs, ExpireItem(w, s) PROVE Goal
  BY <1>28 DEF ExpireItem
<1>29. ASSUME NEW w \in Workers, NEW s \in Segs, ExpireOwned(w, s) PROVE Goal
  BY <1>29 DEF ExpireOwned
<1>30. ASSUME NEW w \in Workers, NEW s \in Segs, ClaimFault(w, s) PROVE Goal
  BY <1>30 DEF ClaimFault
<1>31. ASSUME NEW w \in Workers, NEW s \in Segs, ApplyFault(w, s) PROVE Goal
  BY <1>31 DEF ApplyFault
<1>32. ASSUME NEW s \in Segs, ExpireOrphan(s) PROVE Goal
  BY <1>32 DEF ExpireOrphan
<1>33. CASE ExpireEventOrphan
  BY <1>33 DEF ExpireEventOrphan
<1>34. CASE ExpireEventOwned
  BY <1>34 DEF ExpireEventOwned
<1> QED BY <1>1, <1>2, <1>3, <1>4, <1>5, <1>6, <1>7, <1>8, <1>9, <1>10, <1>11,
      <1>12, <1>13, <1>14, <1>15, <1>16, <1>17, <1>18, <1>19, <1>20, <1>21,
      <1>22, <1>23, <1>24, <1>25, <1>26, <1>27, <1>28, <1>29, <1>30, <1>31,
      <1>32, <1>33, <1>34 DEF
      Next, BatchThread, Environment, Expiry, Planner, Claims, Analysis,
      Commits

-----------------------------------------------------------------------------
(* What is final for the batch.  This rests on ~ SlowCalls.                 *)

\* Nobody will work on the segment again, and nobody still does.
Final(t) ==
    /\ ~ NeedsProcessing(t)
    /\ \A v \in Workers : Owns(v, t) => job[v][t] \notin Granted

RejectIsFinal ==
    \A w \in Workers, s \in Segs : job[w][s] = "reject" => Final(s)

\* Behind an unblocked processor the batch has left nothing undone.
PassedIsFinal ==
    \A w \in Workers : blocked[w] = 0 =>
        \A t \in batch[w] : job[w][t] = "none" => Final(t) \/ CommitsNoMore(w)

\* Only the owner of a granted claim changes a record, and no claim is
\* granted on a record that needs no processing.
LEMMA FinalStays ==
    ASSUME ~ SlowCalls, StoreTypeOK, CountsOK, JobOK, ClaimHoldsLock,
           NEW t \in Segs, Final(t), [Next]_vars
    PROVE  Final(t)'
<1> DEFINE Goal == Final(t)'
<1> USE ~ SlowCalls, StoreTypeOK, CountsOK, JobOK, ClaimHoldsLock, Final(t) DEF
        Final, Granted, NeedsProcessing, Settled, Rejects, Owns, StoreTypeOK,
        ClaimHoldsLock, JobOK, In, InCall, Earliest, Pending, Stages,
        ClaimStages, CommitStages, PendStages, CountsOK
<1>1. CASE UNCHANGED vars
  BY <1>1
<1>2. ASSUME NEW w \in Workers, PlanRead(w) PROVE Goal
  BY <1>2 DEF PlanRead
<1>3. ASSUME NEW w \in Workers, PlanAct(w) PROVE Goal
  BY <1>3, PlanActJobs DEF PlanAct
<1>4. ASSUME NEW w \in Workers, NEW s \in Segs, SkipBlocked(w, s) PROVE Goal
  BY <1>4 DEF SkipBlocked
<1>5. ASSUME NEW w \in Workers, NEW s \in Segs, ClaimBusy(w, s) PROVE Goal
  BY <1>5 DEF ClaimBusy
<1>6. ASSUME NEW w \in Workers, NEW s \in Segs, ClaimLock(w, s) PROVE Goal
  BY <1>6 DEF ClaimLock
<1>7. ASSUME NEW w \in Workers, NEW s \in Segs, ClaimRead(w, s) PROVE Goal
  BY <1>7 DEF ClaimRead
<1>8. ASSUME NEW w \in Workers, NEW s \in Segs, ClaimReject(w, s) PROVE Goal
  BY <1>8 DEF ClaimReject
<1>9. ASSUME NEW w \in Workers, NEW s \in Segs, ClaimWrite(w, s) PROVE Goal
  BY <1>9 DEF ClaimWrite
<1>10. ASSUME NEW w \in Workers, NEW s \in Segs, AnalysisOk(w, s) PROVE Goal
  BY <1>10 DEF AnalysisOk
<1>11. ASSUME NEW w \in Workers, NEW s \in Segs, AnalysisFail(w, s) PROVE Goal
  BY <1>11 DEF AnalysisFail
<1>12. ASSUME NEW w \in Workers, Pop(w) PROVE Goal
  BY <1>12 DEF Pop
<1>13. ASSUME NEW w \in Workers, NEW s \in Segs, Defer(w, s) PROVE Goal
  BY <1>13 DEF Defer
<1>14. ASSUME NEW w \in Workers, NEW s \in Segs, CommitFailed(w, s) PROVE Goal
  BY <1>14 DEF CommitFailed
<1>15. ASSUME NEW w \in Workers, NEW s \in Segs, CommitBlocked(w, s) PROVE Goal
  BY <1>15 DEF CommitBlocked
<1>16. ASSUME NEW w \in Workers, NEW s \in Segs, CommitStart(w, s) PROVE Goal
  BY <1>16 DEF CommitStart
<1>17. ASSUME NEW w \in Workers, NEW s \in Segs, CommitTerminal(w, s)
       PROVE  Goal
  BY <1>17 DEF CommitTerminal
<1>18. ASSUME NEW w \in Workers, NEW s \in Segs, Probe(w, s) PROVE Goal
  BY <1>18 DEF Probe
<1>19. ASSUME NEW w \in Workers, NEW s \in Segs, EventLock(w, s) PROVE Goal
  BY <1>19 DEF EventLock
<1>20. ASSUME NEW w \in Workers, NEW s \in Segs, Load(w, s) PROVE Goal
  BY <1>20 DEF Load
<1>21. ASSUME NEW w \in Workers, NEW s \in Segs, Exec(w, s) PROVE Goal
  BY <1>21 DEF Exec
<1>22. ASSUME NEW w \in Workers, NEW s \in Segs, MarkSuccess(w, s) PROVE Goal
  BY <1>22 DEF MarkSuccess
<1>23. ASSUME NEW w \in Workers, NEW s \in Segs, MarkRetryable(w, s) PROVE Goal
  BY <1>23 DEF MarkRetryable
<1>24. ASSUME NEW w \in Workers, EndBatch(w) PROVE Goal
  BY <1>24 DEF EndBatch
<1>25. ASSUME NEW w \in Workers, Lifecycle(w) PROVE Goal
  BY <1>25 DEF Lifecycle, Ended, Restart
<1>26. ASSUME NEW w \in Workers, Stop(w) PROVE Goal
  BY <1>26 DEF Stop
<1>27. ASSUME NEW w \in Workers, Crash(w) PROVE Goal
  BY <1>27 DEF Crash
<1>28. ASSUME NEW w \in Workers, NEW s \in Segs, ExpireItem(w, s) PROVE Goal
  BY <1>28 DEF ExpireItem
<1>29. ASSUME NEW w \in Workers, NEW s \in Segs, ExpireOwned(w, s) PROVE Goal
  BY <1>29 DEF ExpireOwned
<1>30. ASSUME NEW w \in Workers, NEW s \in Segs, ClaimFault(w, s) PROVE Goal
  BY <1>30 DEF ClaimFault
<1>31. ASSUME NEW w \in Workers, NEW s \in Segs, ApplyFault(w, s) PROVE Goal
  BY <1>31 DEF ApplyFault
<1>32. ASSUME NEW s \in Segs, ExpireOrphan(s) PROVE Goal
  BY <1>32 DEF ExpireOrphan
<1>33. CASE ExpireEventOrphan
  BY <1>33 DEF ExpireEventOrphan
<1>34. CASE ExpireEventOwned
  BY <1>34 DEF ExpireEventOwned
<1> QED BY <1>1, <1>2, <1>3, <1>4, <1>5, <1>6, <1>7, <1>8, <1>9, <1>10, <1>11,
      <1>12, <1>13, <1>14, <1>15, <1>16, <1>17, <1>18, <1>19, <1>20, <1>21,
      <1>22, <1>23, <1>24, <1>25, <1>26, <1>27, <1>28, <1>29, <1>30, <1>31,
      <1>32, <1>33, <1>34 DEF
      Next, BatchThread, Environment, Expiry, Planner, Claims, Analysis,
      Commits

\* claim() gives up on a record it found final, and it is still final when
\* the lock is given back.
LEMMA RejectStep ==
    ASSUME ~ SlowCalls, StoreTypeOK, JobOK, ClaimHoldsLock, RejectIsFinal,
           \A t \in Segs : Final(t) => Final(t)', [Next]_vars
    PROVE  RejectIsFinal'
<1> DEFINE Goal == RejectIsFinal'
<1> USE ~ SlowCalls, StoreTypeOK, JobOK, ClaimHoldsLock, RejectIsFinal,
        \A t \in Segs : Final(t) => Final(t)' DEF
        RejectIsFinal, JobOK, In, Earliest, Pending, Stages, ClaimStages,
        CommitStages, PendStages
<1>1. CASE UNCHANGED vars
  BY <1>1
<1>2. ASSUME NEW w \in Workers, PlanRead(w) PROVE Goal
  BY <1>2 DEF PlanRead
<1>3. ASSUME NEW w \in Workers, PlanAct(w) PROVE Goal
  BY <1>3 DEF PlanAct
<1>4. ASSUME NEW w \in Workers, NEW s \in Segs, SkipBlocked(w, s) PROVE Goal
  BY <1>4 DEF SkipBlocked
<1>5. ASSUME NEW w \in Workers, NEW s \in Segs, ClaimBusy(w, s) PROVE Goal
  BY <1>5 DEF ClaimBusy
<1>6. ASSUME NEW w \in Workers, NEW s \in Segs, ClaimLock(w, s) PROVE Goal
  BY <1>6 DEF ClaimLock
<1>7. ASSUME NEW w \in Workers, NEW s \in Segs, ClaimRead(w, s) PROVE Goal
  <2>1. Rejects(s) => Final(s)'
    <3> SUFFICES ASSUME Rejects(s) PROVE Final(s)'
      OBVIOUS
    <3>1. Owns(w, s) /\ UNCHANGED <<lock, status, attempts>>
      BY <1>7 DEF ClaimRead, ClaimHoldsLock
    <3>2. ~ NeedsProcessing(s)'
      BY <3>1 DEF Rejects, NeedsProcessing, Settled, StoreTypeOK
    <3>3. job'[w][s] = "reject"
      BY <1>7 DEF ClaimRead
    <3> QED BY <3>1, <3>2, <3>3 DEF Final, Granted, Owns
  <2> QED BY <1>7, <2>1 DEF ClaimRead
<1>8. ASSUME NEW w \in Workers, NEW s \in Segs, ClaimReject(w, s) PROVE Goal
  BY <1>8 DEF ClaimReject
<1>9. ASSUME NEW w \in Workers, NEW s \in Segs, ClaimWrite(w, s) PROVE Goal
  BY <1>9 DEF ClaimWrite
<1>10. ASSUME NEW w \in Workers, NEW s \in Segs, Analysis(w, s) PROVE Goal
  BY <1>10 DEF Analysis, AnalysisOk, AnalysisFail
<1>11. ASSUME NEW w \in Workers, Pop(w) PROVE Goal
  BY <1>11 DEF Pop
<1>12. ASSUME NEW w \in Workers, NEW s \in Segs, Commits(w, s) PROVE Goal
  BY <1>12 DEF Commits, Defer, CommitFailed, CommitBlocked, CommitStart,
      CommitTerminal, Probe, EventLock, Load, Exec, MarkSuccess, MarkRetryable
<1>13. ASSUME NEW w \in Workers, EndBatch(w) PROVE Goal
  BY <1>13 DEF EndBatch
<1>14. ASSUME NEW w \in Workers, Lifecycle(w) PROVE Goal
  BY <1>14 DEF Lifecycle, Ended, Restart
<1>15. ASSUME NEW w \in Workers, Stop(w) PROVE Goal
  BY <1>15 DEF Stop
<1>16. ASSUME NEW w \in Workers, Crash(w) PROVE Goal
  BY <1>16 DEF Crash
<1>17. ASSUME NEW w \in Workers, NEW s \in Segs, ExpireItem(w, s) PROVE Goal
  BY <1>17 DEF ExpireItem
<1>18. ASSUME NEW w \in Workers, NEW s \in Segs, ExpireOwned(w, s) PROVE Goal
  BY <1>18 DEF ExpireOwned
<1>19. ASSUME NEW w \in Workers, NEW s \in Segs, ClaimFault(w, s) PROVE Goal
  BY <1>19 DEF ClaimFault
<1>20. ASSUME NEW w \in Workers, NEW s \in Segs, ApplyFault(w, s) PROVE Goal
  BY <1>20 DEF ApplyFault
<1>21. ASSUME NEW s \in Segs, ExpireOrphan(s) PROVE Goal
  BY <1>21 DEF ExpireOrphan
<1>22. CASE ExpireEventOrphan
  BY <1>22 DEF ExpireEventOrphan
<1>23. CASE ExpireEventOwned
  BY <1>23 DEF ExpireEventOwned
<1> QED BY <1>1, <1>2, <1>3, <1>4, <1>5, <1>6, <1>7, <1>8, <1>9, <1>10, <1>11,
      <1>12, <1>13, <1>14, <1>15, <1>16, <1>17, <1>18, <1>19, <1>20, <1>21,
      <1>22, <1>23 DEF
      Next, BatchThread, Environment, Expiry, Planner, Claims

\* A segment leaves the batch's hands settled, out of attempts, blocking the
\* processor, or because the worker stops.
LEMMA PassedStep ==
    ASSUME ~ SlowCalls, StoreTypeOK, CountsOK, QueueOK, PlanOK, SessionOK,
           JobOK, OneCall, TurnOutsideCalls, SessionFits, CommitIsUnblocked,
           RejectIsFinal, PassedIsFinal, \A t \in Segs : Final(t) => Final(t)',
           [Next]_vars
    PROVE  PassedIsFinal'
<1> DEFINE Goal == PassedIsFinal'
<1> USE ~ SlowCalls, StoreTypeOK, CountsOK, QueueOK, PlanOK, SessionOK, JobOK,
        OneCall, TurnOutsideCalls, SessionFits, CommitIsUnblocked,
        RejectIsFinal, PassedIsFinal, \A t \in Segs : Final(t) => Final(t)' DEF
        PassedIsFinal, SessionFits, JobOK, CountsOK, QueueOK, SessionOK,
        OneCall, TurnOutsideCalls, Calls, In, InCall, Earliest, Pending, Segs,
        CommitsNoMore, CanFill, Stages, ClaimStages, CommitStages, PendStages
<1>1. CASE UNCHANGED vars
  BY <1>1
<1>2. ASSUME NEW w \in Workers, PlanRead(w) PROVE Goal
  BY <1>2 DEF PlanRead
<1>3. ASSUME NEW w \in Workers, PlanAct(w) PROVE Goal
  <2>1. CASE job' = job /\ batch' = batch
    BY <1>3, <2>1 DEF PlanAct
  <2>2. CASE /\ batch' = [batch EXCEPT ![w] = FirstOf(plan[w].work)]
             /\ job' = [job EXCEPT ![w] = [t \in Segs |->
                  IF t \in FirstOf(plan[w].work) THEN "todo" ELSE "none"]]
    <3>1. FirstOf(plan[w].work) \subseteq Segs
      BY FirstOfIsWork DEF PlanOK
    <3>2. \A t \in batch'[w] : job'[w][t] = "todo"
      BY <2>2, <3>1
    <3>3. \A v \in Workers : v # w => batch'[v] = batch[v] /\ job'[v] = job[v]
      BY <2>2
    <3> QED BY <1>3, <3>2, <3>3 DEF PlanAct
  <2> QED BY <1>3, <2>1, <2>2 DEF PlanAct
<1>4. ASSUME NEW w \in Workers, NEW s \in Segs, SkipBlocked(w, s) PROVE Goal
  BY <1>4 DEF SkipBlocked
<1>5. ASSUME NEW w \in Workers, NEW s \in Segs, ClaimBusy(w, s) PROVE Goal
  BY <1>5 DEF ClaimBusy
<1>6. ASSUME NEW w \in Workers, NEW s \in Segs, ClaimLock(w, s) PROVE Goal
  BY <1>6 DEF ClaimLock
<1>7. ASSUME NEW w \in Workers, NEW s \in Segs, ClaimRead(w, s) PROVE Goal
  BY <1>7 DEF ClaimRead
<1>8. ASSUME NEW w \in Workers, NEW s \in Segs, ClaimReject(w, s) PROVE Goal
  <2>1. Final(s)'
    BY <1>8 DEF ClaimReject, RejectIsFinal
  <2> QED BY <1>8, <2>1 DEF ClaimReject
<1>9. ASSUME NEW w \in Workers, NEW s \in Segs, ClaimWrite(w, s) PROVE Goal
  BY <1>9 DEF ClaimWrite
<1>10. ASSUME NEW w \in Workers, NEW s \in Segs, AnalysisOk(w, s) PROVE Goal
  BY <1>10 DEF AnalysisOk
<1>11. ASSUME NEW w \in Workers, NEW s \in Segs, AnalysisFail(w, s) PROVE Goal
  BY <1>11 DEF AnalysisFail
<1>12. ASSUME NEW w \in Workers, Pop(w) PROVE Goal
  BY <1>12 DEF Pop
<1>13. ASSUME NEW w \in Workers, NEW s \in Segs, Defer(w, s) PROVE Goal
  BY SMTT(30), <1>13 DEF Defer
<1>14. ASSUME NEW w \in Workers, NEW s \in Segs, CommitFailed(w, s) PROVE Goal
  BY <1>14 DEF CommitFailed
<1>15. ASSUME NEW w \in Workers, NEW s \in Segs, CommitBlocked(w, s) PROVE Goal
  BY <1>15 DEF CommitBlocked
<1>16. ASSUME NEW w \in Workers, NEW s \in Segs, CommitStart(w, s) PROVE Goal
  BY <1>16 DEF CommitStart
<1>17. ASSUME NEW w \in Workers, NEW s \in Segs, CommitTerminal(w, s)
       PROVE  Goal
  <2>1. CASE blocked'[w] # 0
    <3>1. \A v \in Workers : v # w => /\ blocked'[v] = blocked[v]
                                      /\ job'[v] = job[v]
                                      /\ CommitsNoMore(v) => CommitsNoMore(v)'
      BY <1>17 DEF CommitTerminal
    <3> QED BY <1>17, <2>1, <3>1 DEF CommitTerminal
  <2>2. CASE blocked'[w] = 0
    <3>1. status'[s] = "terminal" /\ lock'[s] = Free
      BY <1>17, <2>2 DEF CommitTerminal, Owns, StoreTypeOK
    <3>2. Final(s)'
      BY <3>1 DEF Final, NeedsProcessing, Settled, Owns
    <3>3. blocked' = blocked /\ ~ CommitsNoMore(w)
      BY <1>17, <2>2 DEF CommitTerminal
    <3> QED BY <1>17, <3>2, <3>3 DEF CommitTerminal
  <2> QED BY <2>1, <2>2
<1>18. ASSUME NEW w \in Workers, NEW s \in Segs, Probe(w, s) PROVE Goal
  BY <1>18 DEF Probe
<1>19. ASSUME NEW w \in Workers, NEW s \in Segs, EventLock(w, s) PROVE Goal
  <2>1. \E x \in {"load", "undo"} : job' = [job EXCEPT ![w][s] = x]
    BY <1>19 DEF EventLock
  <2> QED BY <1>19, <2>1 DEF EventLock
<1>20. ASSUME NEW w \in Workers, NEW s \in Segs, Load(w, s) PROVE Goal
  <2>1. \E x \in {"mark", "exec"} : job' = [job EXCEPT ![w][s] = x]
    BY <1>20 DEF Load
  <2> QED BY <1>20, <2>1 DEF Load
<1>21. ASSUME NEW w \in Workers, NEW s \in Segs, Exec(w, s) PROVE Goal
  BY <1>21 DEF Exec
<1>22. ASSUME NEW w \in Workers, NEW s \in Segs, MarkSuccess(w, s) PROVE Goal
  <2>1. CASE blocked'[w] # 0
    <3>1. \A v \in Workers : v # w => /\ blocked'[v] = blocked[v]
                                      /\ job'[v] = job[v]
                                      /\ CommitsNoMore(v) => CommitsNoMore(v)'
      BY <1>22 DEF MarkSuccess
    <3> QED BY <1>22, <2>1, <3>1 DEF MarkSuccess
  <2>2. CASE blocked'[w] = 0
    <3>1. status'[s] = "success" /\ lock'[s] = Free
      BY <1>22, <2>2 DEF MarkSuccess, Owns, StoreTypeOK
    <3>2. Final(s)'
      BY <3>1 DEF Final, NeedsProcessing, Settled, Owns
    <3>3. blocked' = blocked /\ ~ CommitsNoMore(w)
      BY <1>22, <2>2 DEF MarkSuccess
    <3> QED BY SMTT(30), <1>22, <3>2, <3>3 DEF MarkSuccess
  <2> QED BY <2>1, <2>2
<1>23. ASSUME NEW w \in Workers, NEW s \in Segs, MarkRetryable(w, s) PROVE Goal
  BY <1>23 DEF MarkRetryable
<1>24. ASSUME NEW w \in Workers, EndBatch(w) PROVE Goal
  BY <1>24 DEF EndBatch
<1>25. ASSUME NEW w \in Workers, Ended(w) PROVE Goal
  BY <1>25 DEF Ended
<1>26. ASSUME NEW w \in Workers, Restart(w) PROVE Goal
  BY <1>26 DEF Restart
<1>27. ASSUME NEW w \in Workers, Stop(w) PROVE Goal
  BY <1>27 DEF Stop
<1>28. ASSUME NEW w \in Workers, Crash(w) PROVE Goal
  BY <1>28 DEF Crash
<1>29. ASSUME NEW w \in Workers, NEW s \in Segs, ExpireItem(w, s) PROVE Goal
  BY <1>29 DEF ExpireItem
<1>30. ASSUME NEW w \in Workers, NEW s \in Segs, ExpireOwned(w, s) PROVE Goal
  BY <1>30 DEF ExpireOwned
<1>31. ASSUME NEW w \in Workers, NEW s \in Segs, ClaimFault(w, s) PROVE Goal
  BY <1>31 DEF ClaimFault
<1>32. ASSUME NEW w \in Workers, NEW s \in Segs, ApplyFault(w, s) PROVE Goal
  BY <1>32 DEF ApplyFault
<1>33. ASSUME NEW s \in Segs, ExpireOrphan(s) PROVE Goal
  BY <1>33 DEF ExpireOrphan
<1>34. CASE ExpireEventOrphan
  BY <1>34 DEF ExpireEventOrphan
<1>35. CASE ExpireEventOwned
  BY <1>35 DEF ExpireEventOwned
<1> QED BY SMTT(30), <1>1, <1>2, <1>3, <1>4, <1>5, <1>6, <1>7, <1>8, <1>9, <1>10, <1>11,
      <1>12, <1>13, <1>14, <1>15, <1>16, <1>17, <1>18, <1>19, <1>20, <1>21,
      <1>22, <1>23, <1>24, <1>25, <1>26, <1>27, <1>28, <1>29, <1>30, <1>31,
      <1>32, <1>33, <1>34, <1>35 DEF
      Next, BatchThread, Environment, Expiry, Planner, Claims, Analysis,
      Commits, Lifecycle

-----------------------------------------------------------------------------
(* The theorem about a batch.                                               *)

Ordered ==
    /\ SessionFits /\ TurnIsPending /\ JobsInBatch
    /\ TakenInOrder /\ CommitIsUnblocked

\* Initially there is no batch.
LEMMA OrderedInit == Init => Ordered
BY DEF Init, Ordered, SessionFits, TurnIsPending, JobsInBatch, TakenInOrder,
       CommitIsUnblocked, CommitStages, PendStages

\* The order of claims and commits is an invariant without any assumption.
LEMMA OrderedHolds == Spec => []Ordered
<1>1. Core /\ Ordered /\ [Next]_vars => Ordered'
  BY SessionFitStep, TurnStep, JobsStep, TakenStep, UnblockedStep
     DEF Core, Ordered
<1> QED BY <1>1, OrderedInit, CoreHolds, PTL DEF Spec

\* With calls that end within their leases, what a batch has passed is final.
LEMMA PassedHolds ==
    ASSUME ~ SlowCalls PROVE Spec => [](RejectIsFinal /\ PassedIsFinal)
<1>1. Init => RejectIsFinal /\ PassedIsFinal
  BY DEF Init, RejectIsFinal, PassedIsFinal
<1>2. Core /\ Fenced /\ Ordered /\ RejectIsFinal /\ PassedIsFinal /\ [Next]_vars
        => (RejectIsFinal /\ PassedIsFinal)'
  <2> SUFFICES ASSUME Core, Fenced, Ordered, RejectIsFinal, PassedIsFinal,
                      [Next]_vars
               PROVE  (RejectIsFinal /\ PassedIsFinal)'
    OBVIOUS
  <2>1. \A t \in Segs : Final(t) => Final(t)'
    BY FinalStays DEF Core, Fenced
  <2> QED BY <2>1, RejectStep, PassedStep DEF Core, Fenced, Ordered
<1> QED BY <1>1, <1>2, CoreHolds, FencedHolds, OrderedHolds, PTL DEF Spec

\* When a segment writes its effect, the batch is through with earlier ones.
LEMMA EarlierIsPassed ==
    ASSUME JobOK, OneCall, TakenInOrder, NEW w \in Workers,
           NEW s \in Segs, NEW t \in Segs, job[w][s] = "exec", t < s
    PROVE  job[w][t] = "none"
<1>1. job[w][t] \notin Calls
  BY DEF OneCall, Calls, CommitStages, Segs
<1>2. job[w][t] \notin PendStages \cup {"todo"}
  BY DEF TakenInOrder, CommitStages, PendStages, Segs
<1> QED BY <1>1, <1>2 DEF JobOK, Stages, Calls

\* Effects are written in the order of the segments: no earlier segment of the
\* batch, analysed at the same time, failed or claimed by another worker, still
\* needs processing when a later one commits.
THEOREM EffectsInBatchOrder == ASSUME ~ SlowCalls PROVE Spec => BatchOrder
<1> DEFINE InOrder ==
       \A w \in Workers, s \in Segs :
          Writes(w, s) => \A t \in batch[w] : t < s => ~ NeedsProcessing(t)
<1>1. Core /\ Ordered /\ PassedIsFinal => InOrder
  <2> SUFFICES ASSUME Core, Ordered, PassedIsFinal,
                      NEW w \in Workers, NEW s \in Segs, job[w][s] = "exec",
                      NEW t \in batch[w], t < s
               PROVE  ~ NeedsProcessing(t)
    BY DEF Writes
  <2>1. t \in Segs
    BY DEF Core, QueueOK
  <2>2. job[w][t] = "none"
    BY <2>1, EarlierIsPassed DEF Core, Ordered
  <2>3. blocked[w] = 0 /\ ~ CommitsNoMore(w)
    BY DEF Ordered, CommitIsUnblocked, CommitsNoMore, CommitStages
  <2> QED BY <2>2, <2>3 DEF PassedIsFinal, Final
<1>2. Core /\ Ordered /\ PassedIsFinal /\ [Next]_vars => [InOrder]_vars
  BY <1>1
<1> QED BY <1>2, CoreHolds, OrderedHolds, PassedHolds, PTL DEF Spec, BatchOrder

-----------------------------------------------------------------------------
(* One worker, one analysis at a time, and a claim() that does not fail.    *)

Solo ==
    /\ \A v, w \in Workers : v = w
    /\ Parallel = 1
    /\ "claim" \notin FaultSites

\* Nothing but stop() sets stop_event, and it ends the session.
StopEndsSession == \A w \in Workers : stopFlag[w] => mode[w] # "up"

\* At most one segment is claimed, and none behind a failure.
OneActive ==
    \A w \in Workers : \A s, t \in Segs :
        job[w][s] \notin {"none", "todo"} /\ job[w][t] \notin {"none", "todo"}
            => s = t
BlockedIsIdle ==
    \A w \in Workers : blocked[w] # 0 =>
        \A s \in Segs : job[w][s] \in {"none", "todo"}

\* What claim() has read is still what the record says.
GrantIsOpen ==
    \A w \in Workers, s \in Segs :
        /\ job[w][s] \in Granted => ~ Settled(s)
        /\ job[w][s] = "claim" => attempts[s] = seen[w]
        /\ job[w][s] = "reject" => ~ NeedsProcessing(s)

\* A session's plan gives up only what needs no more processing.
PlanIsTrue ==
    \A w \in Workers : mode[w] = "up" =>
        \A s \in plan[w].done : ~ NeedsProcessing(s)

\* Done, or known to be missing.
Covered(w, t) == ~ NeedsProcessing(t) \/ t \in gaps[w]

\* Neither a plan nor a batch leaves out a segment that comes earlier.
WorkIsClosed ==
    \A w \in Workers : mode[w] = "up" =>
        \A s \in plan[w].work, t \in Segs :
            t < s => t \in plan[w].work \/ Covered(w, t)
BatchIsClosed ==
    \A w \in Workers : \A s \in batch[w], t \in Segs :
        t < s => t \in batch[w] \/ Covered(w, t) \/ CommitsNoMore(w)

\* Behind an unblocked processor the batch has left nothing undone.
PassedIsDone ==
    \A w \in Workers : blocked[w] = 0 =>
        \A t \in batch[w] :
            job[w][t] = "none" => ~ NeedsProcessing(t) \/ CommitsNoMore(w)

\* What needs no processing needs none later, but for a claim that is given
\* back by a worker that stops.
DoneStays ==
    \A w \in Workers, t \in Segs :
        ~ NeedsProcessing(t) => (~ NeedsProcessing(t))' \/ CommitsNoMore(w)

\* A worker that commits no more stays so until its next session.
StoppedStays ==
    \A w \in Workers : CommitsNoMore(w) =>
        CommitsNoMore(w)' \/ (batch[w] = {} /\ batch'[w] = {})

\* A step in which plan, batch and session go on, and no gap is forgotten.
Quiet ==
    /\ plan' = plan /\ batch' = batch
    /\ \A w \in Workers : /\ mode'[w] = "up" => mode[w] = "up"
                          /\ gaps[w] \subseteq gaps'[w]

\* The batch thread fills only when it has no segment in hand.
LEMMA FillsWhenIdle ==
    ASSUME Solo, JobOK, NEW w \in Workers, NEW s \in Segs, Fills(w, s)
    PROVE  \A t \in Segs : job[w][t] \in {"none", "todo"}
<1>1. Pending(w) = {}
  <2>1. IsFiniteSet(Segs)
    BY FS_Interval DEF Segs, StoreAssumption
  <2>2. IsFiniteSet(Pending(w))
    BY <2>1, FS_Subset DEF Pending, In
  <2>3. Cardinality(Pending(w)) \in Nat /\ Cardinality(Pending(w)) < 1
    BY <2>2, FS_CardinalityType DEF Fills, CanFill, Solo
  <2>4. Cardinality(Pending(w)) = 0
    BY <2>3
  <2> QED BY <2>2, <2>4, FS_EmptySet
<1> QED BY <1>1 DEF Fills, InCall, Pending, In, JobOK, Stages

\* The first segments of a plan leave out none of those before them.
LEMMA FirstOfIsFirst ==
    ASSUME NEW work, work \subseteq Segs, NEW s \in FirstOf(work),
           NEW t \in work, t < s
    PROVE  t \in FirstOf(work)
<1> DEFINE Before(r) == {u \in work : u < r}
<1>1. s \in Segs /\ t \in Segs
  BY FirstOfIsWork
<1>2. Before(t) \subseteq Before(s)
  <2>1. s \in Int /\ t \in Int /\ \A u \in work : u \in Int
    BY <1>1 DEF Segs
  <2>2. ASSUME NEW u \in work, u < t PROVE u < s
    BY <2>1, <2>2
  <2> QED BY <2>2
<1>3. IsFiniteSet(Before(s))
  <2>1. IsFiniteSet(Segs)
    BY FS_Interval DEF Segs, StoreAssumption
  <2> QED BY <2>1, FS_Subset
<1>4. Cardinality(Before(t)) <= Cardinality(Before(s))
  BY <1>2, <1>3, FS_Subset
<1>5. Cardinality(Before(t)) \in Nat /\ Cardinality(Before(s)) \in Nat
  BY <1>2, <1>3, FS_Subset, FS_CardinalityType
<1>6. Cardinality(Before(s)) < BatchLimit
  BY DEF FirstOf
<1> QED BY <1>4, <1>5, <1>6 DEF FirstOf

\* stop() sets mode and stop_event together, and only the next session clears
\* them.
LEMMA StopStep ==
    ASSUME Solo, SessionOK, StopEndsSession, [Next]_vars
    PROVE  StopEndsSession'
<1> DEFINE Goal == StopEndsSession'
<1> USE Solo, SessionOK, StopEndsSession DEF
        StopEndsSession, SessionOK, Solo
<1>1. CASE UNCHANGED vars
  BY <1>1
<1>2. ASSUME NEW w \in Workers, Planner(w) PROVE Goal
  BY <1>2 DEF Planner, PlanRead, PlanAct
<1>3. ASSUME NEW w \in Workers, NEW s \in Segs, Claims(w, s) PROVE Goal
  BY <1>3 DEF Claims, SkipBlocked, ClaimBusy, ClaimLock, ClaimRead,
      ClaimReject, ClaimWrite
<1>4. ASSUME NEW w \in Workers, NEW s \in Segs, Analysis(w, s) PROVE Goal
  BY <1>4 DEF Analysis, AnalysisOk, AnalysisFail
<1>5. ASSUME NEW w \in Workers, Pop(w) PROVE Goal
  BY <1>5 DEF Pop
<1>6. ASSUME NEW w \in Workers, NEW s \in Segs, Commits(w, s) PROVE Goal
  BY <1>6 DEF Commits, Defer, CommitFailed, CommitBlocked, CommitStart,
      CommitTerminal, Probe, EventLock, Load, Exec, MarkSuccess, MarkRetryable
<1>7. ASSUME NEW w \in Workers, EndBatch(w) PROVE Goal
  BY <1>7 DEF EndBatch
<1>8. ASSUME NEW w \in Workers, Ended(w) PROVE Goal
  BY <1>8 DEF Ended
<1>9. ASSUME NEW w \in Workers, Restart(w) PROVE Goal
  BY <1>9 DEF Restart
<1>10. ASSUME NEW w \in Workers, Stop(w) PROVE Goal
  BY <1>10 DEF Stop
<1>11. ASSUME NEW w \in Workers, Crash(w) PROVE Goal
  BY <1>11 DEF Crash
<1>12. ASSUME NEW w \in Workers, NEW s \in Segs, ExpireItem(w, s) PROVE Goal
  BY <1>12 DEF ExpireItem
<1>13. ASSUME NEW w \in Workers, NEW s \in Segs, ExpireOwned(w, s) PROVE Goal
  BY <1>13 DEF ExpireOwned
<1>14. ASSUME NEW w \in Workers, NEW s \in Segs, ClaimFault(w, s) PROVE Goal
  BY <1>14 DEF ClaimFault
<1>15. ASSUME NEW w \in Workers, NEW s \in Segs, ApplyFault(w, s) PROVE Goal
  BY <1>15 DEF ApplyFault
<1>16. ASSUME NEW s \in Segs, ExpireOrphan(s) PROVE Goal
  BY <1>16 DEF ExpireOrphan
<1>17. CASE ExpireEventOrphan
  BY <1>17 DEF ExpireEventOrphan
<1>18. CASE ExpireEventOwned
  BY <1>18 DEF ExpireEventOwned
<1> QED BY <1>1, <1>2, <1>3, <1>4, <1>5, <1>6, <1>7, <1>8, <1>9, <1>10, <1>11,
      <1>12, <1>13, <1>14, <1>15, <1>16, <1>17, <1>18 DEF
      Next, BatchThread, Environment, Expiry, Lifecycle

\* A segment is claimed when no other is in hand, and blocks when it is out
\* of hand itself.
LEMMA AloneStep ==
    ASSUME Solo, JobOK, CountsOK, OneActive, BlockedIsIdle, [Next]_vars
    PROVE  (OneActive /\ BlockedIsIdle)'
<1> DEFINE Goal == (OneActive /\ BlockedIsIdle)'
<1> USE Solo, JobOK, CountsOK, OneActive, BlockedIsIdle DEF
        OneActive, BlockedIsIdle, JobOK, CountsOK, Solo, In, Earliest, Pending,
        Stages, ClaimStages, CommitStages, PendStages
<1>1. CASE UNCHANGED vars
  BY <1>1
<1>2. ASSUME NEW w \in Workers, PlanRead(w) PROVE Goal
  BY <1>2 DEF PlanRead
<1>3. ASSUME NEW w \in Workers, PlanAct(w) PROVE Goal
  BY <1>3 DEF PlanAct
<1>4. ASSUME NEW w \in Workers, NEW s \in Segs, SkipBlocked(w, s) PROVE Goal
  BY <1>4, FillsWhenIdle DEF SkipBlocked
<1>5. ASSUME NEW w \in Workers, NEW s \in Segs, ClaimBusy(w, s) PROVE Goal
  BY <1>5, FillsWhenIdle DEF ClaimBusy
<1>6. ASSUME NEW w \in Workers, NEW s \in Segs, ClaimLock(w, s) PROVE Goal
  BY <1>6, FillsWhenIdle DEF ClaimLock
<1>7. ASSUME NEW w \in Workers, NEW s \in Segs, ClaimRead(w, s) PROVE Goal
  BY <1>7 DEF ClaimRead
<1>8. ASSUME NEW w \in Workers, NEW s \in Segs, ClaimReject(w, s) PROVE Goal
  BY <1>8 DEF ClaimReject
<1>9. ASSUME NEW w \in Workers, NEW s \in Segs, ClaimWrite(w, s) PROVE Goal
  BY <1>9 DEF ClaimWrite
<1>10. ASSUME NEW w \in Workers, NEW s \in Segs, AnalysisOk(w, s) PROVE Goal
  BY <1>10 DEF AnalysisOk
<1>11. ASSUME NEW w \in Workers, NEW s \in Segs, AnalysisFail(w, s) PROVE Goal
  BY <1>11 DEF AnalysisFail
<1>12. ASSUME NEW w \in Workers, Pop(w) PROVE Goal
  BY <1>12 DEF Pop
<1>13. ASSUME NEW w \in Workers, NEW s \in Segs, Defer(w, s) PROVE Goal
  BY <1>13 DEF Defer
<1>14. ASSUME NEW w \in Workers, NEW s \in Segs, CommitFailed(w, s) PROVE Goal
  BY <1>14 DEF CommitFailed
<1>15. ASSUME NEW w \in Workers, NEW s \in Segs, CommitBlocked(w, s) PROVE Goal
  BY <1>15 DEF CommitBlocked
<1>16. ASSUME NEW w \in Workers, NEW s \in Segs, CommitStart(w, s) PROVE Goal
  BY <1>16 DEF CommitStart
<1>17. ASSUME NEW w \in Workers, NEW s \in Segs, CommitTerminal(w, s)
       PROVE  Goal
  BY <1>17 DEF CommitTerminal
<1>18. ASSUME NEW w \in Workers, NEW s \in Segs, Probe(w, s) PROVE Goal
  BY <1>18 DEF Probe
<1>19. ASSUME NEW w \in Workers, NEW s \in Segs, EventLock(w, s) PROVE Goal
  BY <1>19 DEF EventLock
<1>20. ASSUME NEW w \in Workers, NEW s \in Segs, Load(w, s) PROVE Goal
  BY <1>20 DEF Load
<1>21. ASSUME NEW w \in Workers, NEW s \in Segs, Exec(w, s) PROVE Goal
  BY <1>21 DEF Exec
<1>22. ASSUME NEW w \in Workers, NEW s \in Segs, MarkSuccess(w, s) PROVE Goal
  BY <1>22 DEF MarkSuccess
<1>23. ASSUME NEW w \in Workers, NEW s \in Segs, MarkRetryable(w, s) PROVE Goal
  BY <1>23 DEF MarkRetryable
<1>24. ASSUME NEW w \in Workers, EndBatch(w) PROVE Goal
  BY <1>24 DEF EndBatch
<1>25. ASSUME NEW w \in Workers, Lifecycle(w) PROVE Goal
  BY <1>25 DEF Lifecycle, Ended, Restart
<1>26. ASSUME NEW w \in Workers, Stop(w) PROVE Goal
  BY <1>26 DEF Stop
<1>27. ASSUME NEW w \in Workers, Crash(w) PROVE Goal
  BY <1>27 DEF Crash
<1>28. ASSUME NEW w \in Workers, NEW s \in Segs, ExpireItem(w, s) PROVE Goal
  BY <1>28 DEF ExpireItem
<1>29. ASSUME NEW w \in Workers, NEW s \in Segs, ExpireOwned(w, s) PROVE Goal
  BY <1>29 DEF ExpireOwned
<1>30. ASSUME NEW w \in Workers, NEW s \in Segs, ClaimFault(w, s) PROVE Goal
  BY <1>30 DEF ClaimFault
<1>31. ASSUME NEW w \in Workers, NEW s \in Segs, ApplyFault(w, s) PROVE Goal
  BY <1>31 DEF ApplyFault
<1>32. ASSUME NEW s \in Segs, ExpireOrphan(s) PROVE Goal
  BY <1>32 DEF ExpireOrphan
<1>33. CASE ExpireEventOrphan
  BY <1>33 DEF ExpireEventOrphan
<1>34. CASE ExpireEventOwned
  BY <1>34 DEF ExpireEventOwned
<1> QED BY <1>1, <1>2, <1>3, <1>4, <1>5, <1>6, <1>7, <1>8, <1>9, <1>10, <1>11,
      <1>12, <1>13, <1>14, <1>15, <1>16, <1>17, <1>18, <1>19, <1>20, <1>21,
      <1>22, <1>23, <1>24, <1>25, <1>26, <1>27, <1>28, <1>29, <1>30, <1>31,
      <1>32, <1>33, <1>34 DEF
      Next, BatchThread, Environment, Expiry, Planner, Claims, Analysis,
      Commits

\* Only the worker itself changes records, and only that of the segment in
\* hand.
LEMMA OpenStep ==
    ASSUME Solo, StoreTypeOK, CountsOK, JobOK, OneCall, OneActive, GrantIsOpen,
           [Next]_vars
    PROVE  GrantIsOpen'
<1> DEFINE Goal == GrantIsOpen'
<1> USE Solo, StoreTypeOK, CountsOK, JobOK, OneCall, OneActive, GrantIsOpen DEF
        GrantIsOpen, StoreTypeOK, CountsOK, JobOK, OneCall, Calls, OneActive,
        Solo, Granted, NeedsProcessing, Settled, Owns, Rejects, In, Earliest,
        Pending, Stages, ClaimStages, CommitStages, PendStages
<1>1. CASE UNCHANGED vars
  BY <1>1
<1>2. ASSUME NEW w \in Workers, PlanRead(w) PROVE Goal
  BY <1>2 DEF PlanRead
<1>3. ASSUME NEW w \in Workers, PlanAct(w) PROVE Goal
  <2>1. \A v \in Workers, r \in Segs :
           job'[v][r] \in {job[v][r], "none", "todo"}
    BY <1>3, PlanActJobs
  <2> QED BY <1>3, <2>1 DEF PlanAct
<1>4. ASSUME NEW w \in Workers, NEW s \in Segs, SkipBlocked(w, s) PROVE Goal
  BY <1>4, FillsWhenIdle DEF SkipBlocked
<1>5. ASSUME NEW w \in Workers, NEW s \in Segs, ClaimBusy(w, s) PROVE Goal
  BY <1>5, FillsWhenIdle DEF ClaimBusy
<1>6. ASSUME NEW w \in Workers, NEW s \in Segs, ClaimLock(w, s) PROVE Goal
  BY <1>6, FillsWhenIdle DEF ClaimLock
<1>7. ASSUME NEW w \in Workers, NEW s \in Segs, ClaimRead(w, s) PROVE Goal
  BY <1>7 DEF ClaimRead
<1>8. ASSUME NEW w \in Workers, NEW s \in Segs, ClaimReject(w, s) PROVE Goal
  BY <1>8 DEF ClaimReject
<1>9. ASSUME NEW w \in Workers, NEW s \in Segs, ClaimWrite(w, s) PROVE Goal
  BY <1>9 DEF ClaimWrite
<1>10. ASSUME NEW w \in Workers, NEW s \in Segs, AnalysisOk(w, s) PROVE Goal
  BY <1>10 DEF AnalysisOk
<1>11. ASSUME NEW w \in Workers, NEW s \in Segs, AnalysisFail(w, s) PROVE Goal
  BY <1>11 DEF AnalysisFail
<1>12. ASSUME NEW w \in Workers, Pop(w) PROVE Goal
  BY <1>12 DEF Pop
<1>13. ASSUME NEW w \in Workers, NEW s \in Segs, Defer(w, s) PROVE Goal
  BY <1>13 DEF Defer
<1>14. ASSUME NEW w \in Workers, NEW s \in Segs, CommitFailed(w, s) PROVE Goal
  BY <1>14 DEF CommitFailed
<1>15. ASSUME NEW w \in Workers, NEW s \in Segs, CommitBlocked(w, s) PROVE Goal
  BY <1>15 DEF CommitBlocked
<1>16. ASSUME NEW w \in Workers, NEW s \in Segs, CommitStart(w, s) PROVE Goal
  BY <1>16 DEF CommitStart
<1>17. ASSUME NEW w \in Workers, NEW s \in Segs, CommitTerminal(w, s)
       PROVE  Goal
  BY <1>17 DEF CommitTerminal
<1>18. ASSUME NEW w \in Workers, NEW s \in Segs, Probe(w, s) PROVE Goal
  BY <1>18 DEF Probe
<1>19. ASSUME NEW w \in Workers, NEW s \in Segs, EventLock(w, s) PROVE Goal
  BY <1>19 DEF EventLock
<1>20. ASSUME NEW w \in Workers, NEW s \in Segs, Load(w, s) PROVE Goal
  BY <1>20 DEF Load
<1>21. ASSUME NEW w \in Workers, NEW s \in Segs, Exec(w, s) PROVE Goal
  BY <1>21 DEF Exec
<1>22. ASSUME NEW w \in Workers, NEW s \in Segs, MarkSuccess(w, s) PROVE Goal
  BY <1>22 DEF MarkSuccess
<1>23. ASSUME NEW w \in Workers, NEW s \in Segs, MarkRetryable(w, s) PROVE Goal
  BY <1>23 DEF MarkRetryable
<1>24. ASSUME NEW w \in Workers, EndBatch(w) PROVE Goal
  BY <1>24 DEF EndBatch
<1>25. ASSUME NEW w \in Workers, Lifecycle(w) PROVE Goal
  BY <1>25 DEF Lifecycle, Ended, Restart
<1>26. ASSUME NEW w \in Workers, Stop(w) PROVE Goal
  BY <1>26 DEF Stop
<1>27. ASSUME NEW w \in Workers, Crash(w) PROVE Goal
  BY <1>27 DEF Crash
<1>28. ASSUME NEW w \in Workers, NEW s \in Segs, ExpireItem(w, s) PROVE Goal
  BY <1>28 DEF ExpireItem
<1>29. ASSUME NEW w \in Workers, NEW s \in Segs, ExpireOwned(w, s) PROVE Goal
  BY <1>29 DEF ExpireOwned
<1>30. ASSUME NEW w \in Workers, NEW s \in Segs, ClaimFault(w, s) PROVE Goal
  BY <1>30 DEF ClaimFault
<1>31. ASSUME NEW w \in Workers, NEW s \in Segs, ApplyFault(w, s) PROVE Goal
  BY <1>31 DEF ApplyFault
<1>32. ASSUME NEW s \in Segs, ExpireOrphan(s) PROVE Goal
  BY <1>32 DEF ExpireOrphan
<1>33. CASE ExpireEventOrphan
  BY <1>33 DEF ExpireEventOrphan
<1>34. CASE ExpireEventOwned
  BY <1>34 DEF ExpireEventOwned
<1> QED BY <1>1, <1>2, <1>3, <1>4, <1>5, <1>6, <1>7, <1>8, <1>9, <1>10, <1>11,
      <1>12, <1>13, <1>14, <1>15, <1>16, <1>17, <1>18, <1>19, <1>20, <1>21,
      <1>22, <1>23, <1>24, <1>25, <1>26, <1>27, <1>28, <1>29, <1>30, <1>31,
      <1>32, <1>33, <1>34 DEF
      Next, BatchThread, Environment, Expiry, Planner, Claims, Analysis,
      Commits

\* An attempt is refunded by a worker that stops, and by no other: behind a
\* failure there is nothing analysed.
LEMMA DoneStep ==
    ASSUME Solo, StoreTypeOK, CountsOK, JobOK, TurnOutsideCalls,
           ClaimHasBudget, SessionFits, BlockedIsIdle, GrantIsOpen, [Next]_vars
    PROVE  DoneStays
<1> DEFINE Goal == DoneStays
<1> USE Solo, StoreTypeOK, CountsOK, JobOK, TurnOutsideCalls, ClaimHasBudget,
        SessionFits, BlockedIsIdle, GrantIsOpen DEF
        DoneStays, StoreTypeOK, CountsOK, JobOK, TurnOutsideCalls,
        ClaimHasBudget, SessionFits, BlockedIsIdle, GrantIsOpen, CommitsNoMore,
        Solo, Granted, NeedsProcessing, Settled, Owns, Calls, In, Earliest,
        Pending, Stages, ClaimStages, CommitStages, PendStages
<1>1. CASE UNCHANGED vars
  BY <1>1
<1>2. ASSUME NEW w \in Workers, PlanRead(w) PROVE Goal
  BY <1>2 DEF PlanRead
<1>3. ASSUME NEW w \in Workers, PlanAct(w) PROVE Goal
  BY <1>3 DEF PlanAct
<1>4. ASSUME NEW w \in Workers, NEW s \in Segs, SkipBlocked(w, s) PROVE Goal
  BY <1>4 DEF SkipBlocked
<1>5. ASSUME NEW w \in Workers, NEW s \in Segs, ClaimBusy(w, s) PROVE Goal
  BY <1>5 DEF ClaimBusy
<1>6. ASSUME NEW w \in Workers, NEW s \in Segs, ClaimLock(w, s) PROVE Goal
  BY <1>6 DEF ClaimLock
<1>7. ASSUME NEW w \in Workers, NEW s \in Segs, ClaimRead(w, s) PROVE Goal
  BY <1>7 DEF ClaimRead
<1>8. ASSUME NEW w \in Workers, NEW s \in Segs, ClaimReject(w, s) PROVE Goal
  BY <1>8 DEF ClaimReject
<1>9. ASSUME NEW w \in Workers, NEW s \in Segs, ClaimWrite(w, s) PROVE Goal
  BY <1>9 DEF ClaimWrite
<1>10. ASSUME NEW w \in Workers, NEW s \in Segs, AnalysisOk(w, s) PROVE Goal
  BY <1>10 DEF AnalysisOk
<1>11. ASSUME NEW w \in Workers, NEW s \in Segs, AnalysisFail(w, s) PROVE Goal
  BY <1>11 DEF AnalysisFail
<1>12. ASSUME NEW w \in Workers, Pop(w) PROVE Goal
  BY <1>12 DEF Pop
<1>13. ASSUME NEW w \in Workers, NEW s \in Segs, Defer(w, s) PROVE Goal
  BY <1>13 DEF Defer
<1>14. ASSUME NEW w \in Workers, NEW s \in Segs, CommitFailed(w, s) PROVE Goal
  BY <1>14 DEF CommitFailed
<1>15. ASSUME NEW w \in Workers, NEW s \in Segs, CommitBlocked(w, s) PROVE Goal
  BY <1>15 DEF CommitBlocked
<1>16. ASSUME NEW w \in Workers, NEW s \in Segs, CommitStart(w, s) PROVE Goal
  BY <1>16 DEF CommitStart
<1>17. ASSUME NEW w \in Workers, NEW s \in Segs, CommitTerminal(w, s)
       PROVE  Goal
  BY <1>17 DEF CommitTerminal
<1>18. ASSUME NEW w \in Workers, NEW s \in Segs, Probe(w, s) PROVE Goal
  BY <1>18 DEF Probe
<1>19. ASSUME NEW w \in Workers, NEW s \in Segs, EventLock(w, s) PROVE Goal
  BY <1>19 DEF EventLock
<1>20. ASSUME NEW w \in Workers, NEW s \in Segs, Load(w, s) PROVE Goal
  BY <1>20 DEF Load
<1>21. ASSUME NEW w \in Workers, NEW s \in Segs, Exec(w, s) PROVE Goal
  BY <1>21 DEF Exec
<1>22. ASSUME NEW w \in Workers, NEW s \in Segs, MarkSuccess(w, s) PROVE Goal
  BY <1>22 DEF MarkSuccess
<1>23. ASSUME NEW w \in Workers, NEW s \in Segs, MarkRetryable(w, s) PROVE Goal
  BY <1>23 DEF MarkRetryable
<1>24. ASSUME NEW w \in Workers, EndBatch(w) PROVE Goal
  BY <1>24 DEF EndBatch
<1>25. ASSUME NEW w \in Workers, Lifecycle(w) PROVE Goal
  BY <1>25 DEF Lifecycle, Ended, Restart
<1>26. ASSUME NEW w \in Workers, Stop(w) PROVE Goal
  BY <1>26 DEF Stop
<1>27. ASSUME NEW w \in Workers, Crash(w) PROVE Goal
  BY <1>27 DEF Crash
<1>28. ASSUME NEW w \in Workers, NEW s \in Segs, ExpireItem(w, s) PROVE Goal
  BY <1>28 DEF ExpireItem
<1>29. ASSUME NEW w \in Workers, NEW s \in Segs, ExpireOwned(w, s) PROVE Goal
  BY <1>29 DEF ExpireOwned
<1>30. ASSUME NEW w \in Workers, NEW s \in Segs, ClaimFault(w, s) PROVE Goal
  BY <1>30 DEF ClaimFault
<1>31. ASSUME NEW w \in Workers, NEW s \in Segs, ApplyFault(w, s) PROVE Goal
  BY <1>31 DEF ApplyFault
<1>32. ASSUME NEW s \in Segs, ExpireOrphan(s) PROVE Goal
  BY <1>32 DEF ExpireOrphan
<1>33. CASE ExpireEventOrphan
  BY <1>33 DEF ExpireEventOrphan
<1>34. CASE ExpireEventOwned
  BY <1>34 DEF ExpireEventOwned
<1> QED BY <1>1, <1>2, <1>3, <1>4, <1>5, <1>6, <1>7, <1>8, <1>9, <1>10, <1>11,
      <1>12, <1>13, <1>14, <1>15, <1>16, <1>17, <1>18, <1>19, <1>20, <1>21,
      <1>22, <1>23, <1>24, <1>25, <1>26, <1>27, <1>28, <1>29, <1>30, <1>31,
      <1>32, <1>33, <1>34 DEF
      Next, BatchThread, Environment, Expiry, Planner, Claims, Analysis,
      Commits

\* Work leaves the queue when its record says that it is done, as a reported
\* gap, or with the session.
LEMMA KeepStep ==
    ASSUME Solo, StoreTypeOK, SessionOK, QueueOK, PlanOK, SessionFits,
           StopEndsSession, DoneStays, PlanIsTrue, NothingLostSilently,
           [Next]_vars
    PROVE  (PlanIsTrue /\ NothingLostSilently)'
<1> DEFINE Goal == (PlanIsTrue /\ NothingLostSilently)'
<1> USE Solo, StoreTypeOK, SessionOK, QueueOK, PlanOK, SessionFits,
        StopEndsSession, DoneStays, PlanIsTrue, NothingLostSilently DEF
        PlanIsTrue, NothingLostSilently, StoreTypeOK, SessionOK, QueueOK,
        PlanOK, SessionFits, StopEndsSession, DoneStays, CommitsNoMore, Solo,
        NoPlan
<1>1. CASE UNCHANGED vars
  BY <1>1
<1>2. ASSUME NEW w \in Workers, PlanRead(w) PROVE Goal
  BY <1>2 DEF PlanRead
<1>3. ASSUME NEW w \in Workers, PlanAct(w) PROVE Goal
  BY <1>3 DEF PlanAct
<1>4. ASSUME NEW w \in Workers, NEW s \in Segs, SkipBlocked(w, s) PROVE Goal
  BY <1>4 DEF SkipBlocked
<1>5. ASSUME NEW w \in Workers, NEW s \in Segs, ClaimBusy(w, s) PROVE Goal
  BY <1>5 DEF ClaimBusy
<1>6. ASSUME NEW w \in Workers, NEW s \in Segs, ClaimLock(w, s) PROVE Goal
  BY <1>6 DEF ClaimLock
<1>7. ASSUME NEW w \in Workers, NEW s \in Segs, ClaimRead(w, s) PROVE Goal
  BY <1>7 DEF ClaimRead
<1>8. ASSUME NEW w \in Workers, NEW s \in Segs, ClaimReject(w, s) PROVE Goal
  BY <1>8 DEF ClaimReject
<1>9. ASSUME NEW w \in Workers, NEW s \in Segs, ClaimWrite(w, s) PROVE Goal
  BY <1>9 DEF ClaimWrite
<1>10. ASSUME NEW w \in Workers, NEW s \in Segs, AnalysisOk(w, s) PROVE Goal
  BY <1>10 DEF AnalysisOk
<1>11. ASSUME NEW w \in Workers, NEW s \in Segs, AnalysisFail(w, s) PROVE Goal
  BY <1>11 DEF AnalysisFail
<1>12. ASSUME NEW w \in Workers, Pop(w) PROVE Goal
  BY <1>12 DEF Pop
<1>13. ASSUME NEW w \in Workers, NEW s \in Segs, Defer(w, s) PROVE Goal
  BY <1>13 DEF Defer
<1>14. ASSUME NEW w \in Workers, NEW s \in Segs, CommitFailed(w, s) PROVE Goal
  BY <1>14 DEF CommitFailed
<1>15. ASSUME NEW w \in Workers, NEW s \in Segs, CommitBlocked(w, s) PROVE Goal
  BY <1>15 DEF CommitBlocked
<1>16. ASSUME NEW w \in Workers, NEW s \in Segs, CommitStart(w, s) PROVE Goal
  BY <1>16 DEF CommitStart
<1>17. ASSUME NEW w \in Workers, NEW s \in Segs, CommitTerminal(w, s)
       PROVE  Goal
  BY <1>17 DEF CommitTerminal, NeedsProcessing, Settled, Owns
<1>18. ASSUME NEW w \in Workers, NEW s \in Segs, Probe(w, s) PROVE Goal
  BY <1>18 DEF Probe
<1>19. ASSUME NEW w \in Workers, NEW s \in Segs, EventLock(w, s) PROVE Goal
  BY <1>19 DEF EventLock
<1>20. ASSUME NEW w \in Workers, NEW s \in Segs, Load(w, s) PROVE Goal
  BY <1>20 DEF Load
<1>21. ASSUME NEW w \in Workers, NEW s \in Segs, Exec(w, s) PROVE Goal
  BY <1>21 DEF Exec
<1>22. ASSUME NEW w \in Workers, NEW s \in Segs, MarkSuccess(w, s) PROVE Goal
  BY <1>22 DEF MarkSuccess, NeedsProcessing, Settled, Owns
<1>23. ASSUME NEW w \in Workers, NEW s \in Segs, MarkRetryable(w, s) PROVE Goal
  BY <1>23 DEF MarkRetryable
<1>24. ASSUME NEW w \in Workers, EndBatch(w) PROVE Goal
  BY <1>24 DEF EndBatch
<1>25. ASSUME NEW w \in Workers, Ended(w) PROVE Goal
  BY <1>25 DEF Ended
<1>26. ASSUME NEW w \in Workers, Restart(w) PROVE Goal
  BY <1>26 DEF Restart
<1>27. ASSUME NEW w \in Workers, Stop(w) PROVE Goal
  BY <1>27 DEF Stop
<1>28. ASSUME NEW w \in Workers, Crash(w) PROVE Goal
  BY <1>28 DEF Crash
<1>29. ASSUME NEW w \in Workers, NEW s \in Segs, ExpireItem(w, s) PROVE Goal
  BY <1>29 DEF ExpireItem
<1>30. ASSUME NEW w \in Workers, NEW s \in Segs, ExpireOwned(w, s) PROVE Goal
  BY <1>30 DEF ExpireOwned
<1>31. ASSUME NEW w \in Workers, NEW s \in Segs, ClaimFault(w, s) PROVE Goal
  BY <1>31 DEF ClaimFault
<1>32. ASSUME NEW w \in Workers, NEW s \in Segs, ApplyFault(w, s) PROVE Goal
  BY <1>32 DEF ApplyFault
<1>33. ASSUME NEW s \in Segs, ExpireOrphan(s) PROVE Goal
  BY <1>33 DEF ExpireOrphan
<1>34. CASE ExpireEventOrphan
  BY <1>34 DEF ExpireEventOrphan
<1>35. CASE ExpireEventOwned
  BY <1>35 DEF ExpireEventOwned
<1> QED BY <1>1, <1>2, <1>3, <1>4, <1>5, <1>6, <1>7, <1>8, <1>9, <1>10, <1>11,
      <1>12, <1>13, <1>14, <1>15, <1>16, <1>17, <1>18, <1>19, <1>20, <1>21,
      <1>22, <1>23, <1>24, <1>25, <1>26, <1>27, <1>28, <1>29, <1>30, <1>31,
      <1>32, <1>33, <1>34, <1>35 DEF
      Next, BatchThread, Environment, Expiry, Planner, Claims, Analysis,
      Commits, Lifecycle

\* A worker that commits no more does not begin again before its next
\* session.
LEMMA StoppedStep ==
    ASSUME SessionOK, JobOK, SessionFits, [Next]_vars
    PROVE  StoppedStays
<1> DEFINE Goal == StoppedStays
<1> USE SessionOK, JobOK, SessionFits DEF
        StoppedStays, CommitsNoMore, SessionOK, JobOK, SessionFits, Stages,
        ClaimStages, CommitStages, PendStages
<1>1. CASE UNCHANGED vars
  BY <1>1
<1>2. ASSUME NEW w \in Workers, PlanRead(w) PROVE Goal
  BY <1>2 DEF PlanRead
<1>3. ASSUME NEW w \in Workers, PlanAct(w) PROVE Goal
  <2>1. \A v \in Workers, r \in Segs :
           job'[v][r] \in {job[v][r], "none", "todo"}
    BY <1>3, PlanActJobs
  <2> QED BY <1>3, <2>1 DEF PlanAct
<1>4. ASSUME NEW w \in Workers, NEW s \in Segs, SkipBlocked(w, s) PROVE Goal
  BY <1>4 DEF SkipBlocked
<1>5. ASSUME NEW w \in Workers, NEW s \in Segs, ClaimBusy(w, s) PROVE Goal
  BY <1>5 DEF ClaimBusy
<1>6. ASSUME NEW w \in Workers, NEW s \in Segs, ClaimLock(w, s) PROVE Goal
  BY <1>6 DEF ClaimLock
<1>7. ASSUME NEW w \in Workers, NEW s \in Segs, ClaimRead(w, s) PROVE Goal
  BY <1>7 DEF ClaimRead
<1>8. ASSUME NEW w \in Workers, NEW s \in Segs, ClaimReject(w, s) PROVE Goal
  BY <1>8 DEF ClaimReject
<1>9. ASSUME NEW w \in Workers, NEW s \in Segs, ClaimWrite(w, s) PROVE Goal
  BY <1>9 DEF ClaimWrite
<1>10. ASSUME NEW w \in Workers, NEW s \in Segs, AnalysisOk(w, s) PROVE Goal
  BY <1>10 DEF AnalysisOk
<1>11. ASSUME NEW w \in Workers, NEW s \in Segs, AnalysisFail(w, s) PROVE Goal
  BY <1>11 DEF AnalysisFail
<1>12. ASSUME NEW w \in Workers, Pop(w) PROVE Goal
  BY <1>12 DEF Pop
<1>13. ASSUME NEW w \in Workers, NEW s \in Segs, Defer(w, s) PROVE Goal
  BY <1>13 DEF Defer
<1>14. ASSUME NEW w \in Workers, NEW s \in Segs, CommitFailed(w, s) PROVE Goal
  BY <1>14 DEF CommitFailed
<1>15. ASSUME NEW w \in Workers, NEW s \in Segs, CommitBlocked(w, s) PROVE Goal
  BY <1>15 DEF CommitBlocked
<1>16. ASSUME NEW w \in Workers, NEW s \in Segs, CommitStart(w, s) PROVE Goal
  BY <1>16 DEF CommitStart
<1>17. ASSUME NEW w \in Workers, NEW s \in Segs, CommitTerminal(w, s)
       PROVE  Goal
  BY <1>17 DEF CommitTerminal
<1>18. ASSUME NEW w \in Workers, NEW s \in Segs, Probe(w, s) PROVE Goal
  BY <1>18 DEF Probe
<1>19. ASSUME NEW w \in Workers, NEW s \in Segs, EventLock(w, s) PROVE Goal
  <2>1. \E x \in {"load", "undo"} : job' = [job EXCEPT ![w][s] = x]
    BY <1>19 DEF EventLock
  <2> QED BY <1>19, <2>1 DEF EventLock
<1>20. ASSUME NEW w \in Workers, NEW s \in Segs, Load(w, s) PROVE Goal
  <2>1. \E x \in {"mark", "exec"} : job' = [job EXCEPT ![w][s] = x]
    BY <1>20 DEF Load
  <2> QED BY <1>20, <2>1 DEF Load
<1>21. ASSUME NEW w \in Workers, NEW s \in Segs, Exec(w, s) PROVE Goal
  BY <1>21 DEF Exec
<1>22. ASSUME NEW w \in Workers, NEW s \in Segs, MarkSuccess(w, s) PROVE Goal
  BY <1>22 DEF MarkSuccess
<1>23. ASSUME NEW w \in Workers, NEW s \in Segs, MarkRetryable(w, s) PROVE Goal
  BY <1>23 DEF MarkRetryable
<1>24. ASSUME NEW w \in Workers, EndBatch(w) PROVE Goal
  BY <1>24 DEF EndBatch
<1>25. ASSUME NEW w \in Workers, Ended(w) PROVE Goal
  BY <1>25 DEF Ended
<1>26. ASSUME NEW w \in Workers, Restart(w) PROVE Goal
  BY <1>26 DEF Restart
<1>27. ASSUME NEW w \in Workers, Stop(w) PROVE Goal
  BY <1>27 DEF Stop
<1>28. ASSUME NEW w \in Workers, Crash(w) PROVE Goal
  BY <1>28 DEF Crash
<1>29. ASSUME NEW w \in Workers, NEW s \in Segs, ExpireItem(w, s) PROVE Goal
  BY <1>29 DEF ExpireItem
<1>30. ASSUME NEW w \in Workers, NEW s \in Segs, ExpireOwned(w, s) PROVE Goal
  BY <1>30 DEF ExpireOwned
<1>31. ASSUME NEW w \in Workers, NEW s \in Segs, ClaimFault(w, s) PROVE Goal
  BY <1>31 DEF ClaimFault
<1>32. ASSUME NEW w \in Workers, NEW s \in Segs, ApplyFault(w, s) PROVE Goal
  BY <1>32 DEF ApplyFault
<1>33. ASSUME NEW s \in Segs, ExpireOrphan(s) PROVE Goal
  BY <1>33 DEF ExpireOrphan
<1>34. CASE ExpireEventOrphan
  BY <1>34 DEF ExpireEventOrphan
<1>35. CASE ExpireEventOwned
  BY <1>35 DEF ExpireEventOwned
<1> QED BY <1>1, <1>2, <1>3, <1>4, <1>5, <1>6, <1>7, <1>8, <1>9, <1>10, <1>11,
      <1>12, <1>13, <1>14, <1>15, <1>16, <1>17, <1>18, <1>19, <1>20, <1>21,
      <1>22, <1>23, <1>24, <1>25, <1>26, <1>27, <1>28, <1>29, <1>30, <1>31,
      <1>32, <1>33, <1>34, <1>35 DEF
      Next, BatchThread, Environment, Expiry, Planner, Claims, Analysis,
      Commits, Lifecycle

\* Plans, batches, sessions and gaps are changed by few actions only.
LEMMA QuietStep ==
    ASSUME SessionOK, QueueOK, [Next]_vars
    PROVE  \/ Quiet
           \/ \E w \in Workers : PlanRead(w) \/ PlanAct(w) \/ EndBatch(w)
                                 \/ Ended(w) \/ Restart(w) \/ Crash(w)
<1> DEFINE Goal ==
       \/ Quiet
       \/ \E w \in Workers : PlanRead(w) \/ PlanAct(w) \/ EndBatch(w)
                             \/ Ended(w) \/ Restart(w) \/ Crash(w)
<1> USE SessionOK, QueueOK DEF
        Quiet, SessionOK, QueueOK
<1>1. CASE UNCHANGED vars
  BY <1>1
<1>2. ASSUME NEW w \in Workers, PlanRead(w) PROVE Goal
  BY <1>2
<1>3. ASSUME NEW w \in Workers, PlanAct(w) PROVE Goal
  BY <1>3
<1>4. ASSUME NEW w \in Workers, NEW s \in Segs, Claims(w, s) PROVE Goal
  BY <1>4 DEF Claims, SkipBlocked, ClaimBusy, ClaimLock, ClaimRead,
      ClaimReject, ClaimWrite
<1>5. ASSUME NEW w \in Workers, NEW s \in Segs, Analysis(w, s) PROVE Goal
  BY <1>5 DEF Analysis, AnalysisOk, AnalysisFail
<1>6. ASSUME NEW w \in Workers, Pop(w) PROVE Goal
  BY <1>6 DEF Pop
<1>7. ASSUME NEW w \in Workers, NEW s \in Segs, Commits(w, s) PROVE Goal
  BY <1>7 DEF Commits, Defer, CommitFailed, CommitBlocked, CommitStart,
      CommitTerminal, Probe, EventLock, Load, Exec, MarkSuccess, MarkRetryable
<1>8. ASSUME NEW w \in Workers, EndBatch(w) PROVE Goal
  BY <1>8
<1>9. ASSUME NEW w \in Workers, Ended(w) PROVE Goal
  BY <1>9
<1>10. ASSUME NEW w \in Workers, Restart(w) PROVE Goal
  BY <1>10
<1>11. ASSUME NEW w \in Workers, Stop(w) PROVE Goal
  BY <1>11 DEF Stop
<1>12. ASSUME NEW w \in Workers, Crash(w) PROVE Goal
  BY <1>12
<1>13. ASSUME NEW w \in Workers, NEW s \in Segs, ExpireItem(w, s) PROVE Goal
  BY <1>13 DEF ExpireItem
<1>14. ASSUME NEW w \in Workers, NEW s \in Segs, ExpireOwned(w, s) PROVE Goal
  BY <1>14 DEF ExpireOwned
<1>15. ASSUME NEW w \in Workers, NEW s \in Segs, ClaimFault(w, s) PROVE Goal
  BY <1>15 DEF ClaimFault
<1>16. ASSUME NEW w \in Workers, NEW s \in Segs, ApplyFault(w, s) PROVE Goal
  BY <1>16 DEF ApplyFault
<1>17. ASSUME NEW s \in Segs, ExpireOrphan(s) PROVE Goal
  BY <1>17 DEF ExpireOrphan
<1>18. CASE ExpireEventOrphan
  BY <1>18 DEF ExpireEventOrphan
<1>19. CASE ExpireEventOwned
  BY <1>19 DEF ExpireEventOwned
<1> QED BY <1>1, <1>2, <1>3, <1>4, <1>5, <1>6, <1>7, <1>8, <1>9, <1>10, <1>11,
      <1>12, <1>13, <1>14, <1>15, <1>16, <1>17, <1>18, <1>19 DEF
      Next, BatchThread, Environment, Expiry, Planner, Lifecycle

\* Work that is covered stays covered while nobody drops gaps.
LEMMA QuietClosed ==
    ASSUME DoneStays, StoppedStays, StopEndsSession, WorkIsClosed,
           BatchIsClosed, Quiet
    PROVE  (WorkIsClosed /\ BatchIsClosed)'
<1>1. ASSUME NEW w \in Workers, NEW t \in Segs, Covered(w, t),
             ~ CommitsNoMore(w)
      PROVE  Covered(w, t)'
  BY <1>1 DEF Covered, DoneStays, Quiet
<1>2. ASSUME NEW w \in Workers, mode'[w] = "up"
      PROVE  mode[w] = "up" /\ ~ CommitsNoMore(w)
  BY <1>2 DEF Quiet, StopEndsSession, CommitsNoMore
<1>3. WorkIsClosed'
  BY <1>1, <1>2 DEF WorkIsClosed, Quiet
<1>4. BatchIsClosed'
  <2> SUFFICES ASSUME NEW w \in Workers, NEW s \in batch[w], NEW t \in Segs,
                      t < s, t \notin batch[w]
               PROVE  Covered(w, t)' \/ CommitsNoMore(w)'
    BY DEF BatchIsClosed, Quiet
  <2>1. Covered(w, t) \/ CommitsNoMore(w)
    BY DEF BatchIsClosed
  <2>2. CommitsNoMore(w) => CommitsNoMore(w)'
    BY DEF StoppedStays
  <2> QED BY <1>1, <2>1, <2>2
<1> QED BY <1>3, <1>4

\* A plan is made of everything that is not covered, a batch of the first
\* segments of a plan.
LEMMA ClosedStep ==
    ASSUME Solo, JobOK, SessionOK, QueueOK, PlanOK, SessionFits,
           StopEndsSession, DoneStays, StoppedStays, NothingLostSilently,
           WorkIsClosed, BatchIsClosed, [Next]_vars
    PROVE  (WorkIsClosed /\ BatchIsClosed)'
<1> DEFINE Goal == (WorkIsClosed /\ BatchIsClosed)'
<1>1. CASE Quiet
  BY <1>1, QuietClosed
<1>2. ASSUME NEW w \in Workers, PlanRead(w) PROVE Goal
  <2>1. BatchIsClosed'
    BY <1>2 DEF PlanRead, BatchIsClosed, Covered, CommitsNoMore,
                NeedsProcessing, Settled
  <2>2. WorkIsClosed'
    <3> SUFFICES ASSUME NEW s \in plan'[w].work, NEW t \in Segs, t < s,
                        t \notin plan'[w].work
                 PROVE  Covered(w, t)'
      BY <1>2 DEF PlanRead, Solo, WorkIsClosed
    <3>1. plan'[w].work = {r \in queue[w] : NeedsProcessing(r)}
      BY <1>2 DEF PlanRead, PlanOK
    <3>2. Covered(w, t)
      BY <1>2, <3>1 DEF PlanRead, NothingLostSilently, Covered
    <3> QED BY <1>2, <3>2 DEF PlanRead, Covered, NeedsProcessing, Settled
  <2> QED BY <2>1, <2>2
<1>3. ASSUME NEW w \in Workers, PlanAct(w) PROVE Goal
  <2>1. \A t \in Segs : Covered(w, t) => Covered(w, t)'
    BY <1>3 DEF PlanAct, Covered, NeedsProcessing, Settled
  <2>2. WorkIsClosed'
    <3>1. plan'[w].work = {}
      BY <1>3 DEF PlanAct, PlanOK, NoPlan
    <3> QED BY <3>1 DEF WorkIsClosed, Solo
  <2>3. CASE batch' = batch
    <3>1. CommitsNoMore(w) => CommitsNoMore(w)' \/ batch[w] = {}
      BY DEF StoppedStays
    <3> QED BY <2>1, <2>2, <2>3, <3>1 DEF BatchIsClosed, Solo
  <2>4. CASE batch' = [batch EXCEPT ![w] = FirstOf(plan[w].work)]
    <3>1. batch'[w] = FirstOf(plan[w].work) /\ plan[w].work \subseteq Segs
      BY <2>4 DEF QueueOK, PlanOK
    <3> SUFFICES ASSUME NEW s \in FirstOf(plan[w].work), NEW t \in Segs,
                        t < s, t \notin FirstOf(plan[w].work)
                 PROVE  Covered(w, t)'
      BY <2>2, <3>1 DEF BatchIsClosed, Solo
    <3>2. s \in plan[w].work
      BY FirstOfIsWork
    <3>3. t \notin plan[w].work
      BY <3>1, FirstOfIsFirst
    <3>4. Covered(w, t)
      BY <1>3, <3>2, <3>3 DEF PlanAct, WorkIsClosed
    <3> QED BY <2>1, <3>4
  <2> QED BY <1>3, <2>3, <2>4 DEF PlanAct
<1>4. ASSUME NEW w \in Workers, EndBatch(w) PROVE Goal
  BY <1>4 DEF EndBatch, WorkIsClosed, BatchIsClosed, QueueOK, Covered,
              NeedsProcessing, Settled, Solo
<1>5. ASSUME NEW w \in Workers, Ended(w) PROVE Goal
  BY <1>5 DEF Ended, WorkIsClosed, BatchIsClosed, SessionOK, Solo
<1>6. ASSUME NEW w \in Workers, Restart(w) PROVE Goal
  BY <1>6 DEF Restart, WorkIsClosed, BatchIsClosed, SessionFits, NoPlan, Solo
<1>7. ASSUME NEW w \in Workers, Crash(w) PROVE Goal
  BY <1>7 DEF Crash, WorkIsClosed, BatchIsClosed, SessionOK, QueueOK, Solo
<1> QED BY <1>1, <1>2, <1>3, <1>4, <1>5, <1>6, <1>7, QuietStep

\* A segment leaves the batch's hands done, blocking the processor, or
\* because the worker stops.
LEMMA PassedDoneStep ==
    ASSUME Solo, StoreTypeOK, CountsOK, QueueOK, PlanOK, SessionOK, JobOK,
           OneCall, TurnOutsideCalls, SessionFits, CommitIsUnblocked,
           GrantIsOpen, DoneStays, PassedIsDone, [Next]_vars
    PROVE  PassedIsDone'
<1> DEFINE Goal == PassedIsDone'
<1> USE Solo, StoreTypeOK, CountsOK, QueueOK, PlanOK, SessionOK, JobOK,
        OneCall, TurnOutsideCalls, SessionFits, CommitIsUnblocked, GrantIsOpen,
        DoneStays, PassedIsDone DEF
        PassedIsDone, SessionFits, JobOK, CountsOK, QueueOK, SessionOK,
        OneCall, TurnOutsideCalls, DoneStays, Solo, Calls, In, InCall,
        Earliest, Pending, Segs, CommitsNoMore, CanFill, Stages, ClaimStages,
        CommitStages, PendStages
<1>1. CASE UNCHANGED vars
  BY <1>1
<1>2. ASSUME NEW w \in Workers, PlanRead(w) PROVE Goal
  BY <1>2 DEF PlanRead
<1>3. ASSUME NEW w \in Workers, PlanAct(w) PROVE Goal
  <2>1. CASE job' = job /\ batch' = batch
    BY <1>3, <2>1 DEF PlanAct
  <2>2. CASE /\ batch' = [batch EXCEPT ![w] = FirstOf(plan[w].work)]
             /\ job' = [job EXCEPT ![w] = [t \in Segs |->
                  IF t \in FirstOf(plan[w].work) THEN "todo" ELSE "none"]]
    <3>1. FirstOf(plan[w].work) \subseteq Segs
      BY FirstOfIsWork DEF PlanOK
    <3>2. \A t \in batch'[w] : job'[w][t] = "todo"
      BY <2>2, <3>1
    <3> QED BY <3>2 DEF Solo
  <2> QED BY <1>3, <2>1, <2>2 DEF PlanAct
<1>4. ASSUME NEW w \in Workers, NEW s \in Segs, SkipBlocked(w, s) PROVE Goal
  BY <1>4 DEF SkipBlocked
<1>5. ASSUME NEW w \in Workers, NEW s \in Segs, ClaimBusy(w, s) PROVE Goal
  BY <1>5 DEF ClaimBusy
<1>6. ASSUME NEW w \in Workers, NEW s \in Segs, ClaimLock(w, s) PROVE Goal
  BY <1>6 DEF ClaimLock
<1>7. ASSUME NEW w \in Workers, NEW s \in Segs, ClaimRead(w, s) PROVE Goal
  BY <1>7 DEF ClaimRead
<1>8. ASSUME NEW w \in Workers, NEW s \in Segs, ClaimReject(w, s) PROVE Goal
  <2>1. (~ NeedsProcessing(s))'
    BY <1>8 DEF ClaimReject, GrantIsOpen, NeedsProcessing, Settled
  <2> QED BY <1>8, <2>1 DEF ClaimReject
<1>9. ASSUME NEW w \in Workers, NEW s \in Segs, ClaimWrite(w, s) PROVE Goal
  BY <1>9 DEF ClaimWrite
<1>10. ASSUME NEW w \in Workers, NEW s \in Segs, AnalysisOk(w, s) PROVE Goal
  BY <1>10 DEF AnalysisOk
<1>11. ASSUME NEW w \in Workers, NEW s \in Segs, AnalysisFail(w, s) PROVE Goal
  BY <1>11 DEF AnalysisFail
<1>12. ASSUME NEW w \in Workers, Pop(w) PROVE Goal
  BY <1>12 DEF Pop
<1>13. ASSUME NEW w \in Workers, NEW s \in Segs, Defer(w, s) PROVE Goal
  BY SMTT(30), <1>13 DEF Defer
<1>14. ASSUME NEW w \in Workers, NEW s \in Segs, CommitFailed(w, s) PROVE Goal
  BY <1>14 DEF CommitFailed
<1>15. ASSUME NEW w \in Workers, NEW s \in Segs, CommitBlocked(w, s) PROVE Goal
  BY <1>15 DEF CommitBlocked
<1>16. ASSUME NEW w \in Workers, NEW s \in Segs, CommitStart(w, s) PROVE Goal
  BY <1>16 DEF CommitStart
<1>17. ASSUME NEW w \in Workers, NEW s \in Segs, CommitTerminal(w, s)
       PROVE  Goal
  <2>1. CASE blocked'[w] # 0
    BY <2>1 DEF Solo
  <2>2. CASE blocked'[w] = 0
    <3>1. status'[s] = "terminal"
      BY <1>17, <2>2 DEF CommitTerminal, Owns, StoreTypeOK
    <3>2. (~ NeedsProcessing(s))'
      BY <3>1 DEF NeedsProcessing, Settled
    <3>3. blocked' = blocked /\ ~ CommitsNoMore(w)
      BY <1>17, <2>2 DEF CommitTerminal
    <3> QED BY <1>17, <3>2, <3>3 DEF CommitTerminal
  <2> QED BY <2>1, <2>2
<1>18. ASSUME NEW w \in Workers, NEW s \in Segs, Probe(w, s) PROVE Goal
  BY <1>18 DEF Probe
<1>19. ASSUME NEW w \in Workers, NEW s \in Segs, EventLock(w, s) PROVE Goal
  BY <1>19 DEF EventLock
<1>20. ASSUME NEW w \in Workers, NEW s \in Segs, Load(w, s) PROVE Goal
  BY <1>20 DEF Load
<1>21. ASSUME NEW w \in Workers, NEW s \in Segs, Exec(w, s) PROVE Goal
  BY <1>21 DEF Exec
<1>22. ASSUME NEW w \in Workers, NEW s \in Segs, MarkSuccess(w, s) PROVE Goal
  <2>1. CASE blocked'[w] # 0
    BY <2>1 DEF Solo
  <2>2. CASE blocked'[w] = 0
    <3>1. status'[s] = "success"
      BY <1>22, <2>2 DEF MarkSuccess, Owns, StoreTypeOK
    <3>2. (~ NeedsProcessing(s))'
      BY <3>1 DEF NeedsProcessing, Settled
    <3>3. blocked' = blocked /\ ~ CommitsNoMore(w)
      BY <1>22, <2>2 DEF MarkSuccess
    <3> QED BY <1>22, <3>2, <3>3 DEF MarkSuccess
  <2> QED BY <2>1, <2>2
<1>23. ASSUME NEW w \in Workers, NEW s \in Segs, MarkRetryable(w, s) PROVE Goal
  BY <1>23 DEF MarkRetryable
<1>24. ASSUME NEW w \in Workers, EndBatch(w) PROVE Goal
  BY <1>24 DEF EndBatch
<1>25. ASSUME NEW w \in Workers, Ended(w) PROVE Goal
  BY <1>25 DEF Ended
<1>26. ASSUME NEW w \in Workers, Restart(w) PROVE Goal
  BY <1>26 DEF Restart
<1>27. ASSUME NEW w \in Workers, Stop(w) PROVE Goal
  BY <1>27 DEF Stop
<1>28. ASSUME NEW w \in Workers, Crash(w) PROVE Goal
  BY <1>28 DEF Crash
<1>29. ASSUME NEW w \in Workers, NEW s \in Segs, ExpireItem(w, s) PROVE Goal
  BY <1>29 DEF ExpireItem
<1>30. ASSUME NEW w \in Workers, NEW s \in Segs, ExpireOwned(w, s) PROVE Goal
  BY <1>30 DEF ExpireOwned
<1>31. ASSUME NEW w \in Workers, NEW s \in Segs, ClaimFault(w, s) PROVE Goal
  BY <1>31 DEF ClaimFault
<1>32. ASSUME NEW w \in Workers, NEW s \in Segs, ApplyFault(w, s) PROVE Goal
  BY <1>32 DEF ApplyFault
<1>33. ASSUME NEW s \in Segs, ExpireOrphan(s) PROVE Goal
  BY <1>33 DEF ExpireOrphan
<1>34. CASE ExpireEventOrphan
  BY <1>34 DEF ExpireEventOrphan
<1>35. CASE ExpireEventOwned
  BY <1>35 DEF ExpireEventOwned
<1> QED BY SMTT(30), <1>1, <1>2, <1>3, <1>4, <1>5, <1>6, <1>7, <1>8, <1>9, <1>10, <1>11,
      <1>12, <1>13, <1>14, <1>15, <1>16, <1>17, <1>18, <1>19, <1>20, <1>21,
      <1>22, <1>23, <1>24, <1>25, <1>26, <1>27, <1>28, <1>29, <1>30, <1>31,
      <1>32, <1>33, <1>34, <1>35 DEF
      Next, BatchThread, Environment, Expiry, Planner, Claims, Analysis,
      Commits, Lifecycle

-----------------------------------------------------------------------------
(* The theorems about one worker.                                           *)

Kept ==
    /\ StopEndsSession /\ OneActive /\ BlockedIsIdle /\ GrantIsOpen
    /\ PlanIsTrue /\ NothingLostSilently
    /\ WorkIsClosed /\ BatchIsClosed /\ PassedIsDone

\* Initially the session holds the window and has planned nothing.
LEMMA KeptInit == Init => Kept
BY DEF Init, StoreInit, Kept, StopEndsSession, OneActive, BlockedIsIdle,
       GrantIsOpen, PlanIsTrue, NothingLostSilently, WorkIsClosed,
       BatchIsClosed, PassedIsDone, NoPlan, Granted

\* Every step of the one worker keeps the invariant.
LEMMA KeptStep ==
    ASSUME Solo, Core, Ordered, Kept, [Next]_vars
    PROVE  Kept'
<1>1. DoneStays
  BY DoneStep DEF Core, Ordered, Kept
<1>2. StoppedStays
  BY StoppedStep DEF Core, Ordered
<1>3. StopEndsSession' /\ (OneActive /\ BlockedIsIdle)' /\ GrantIsOpen'
  BY StopStep, AloneStep, OpenStep DEF Core, Kept
<1>4. (PlanIsTrue /\ NothingLostSilently)'
  BY <1>1, KeepStep DEF Core, Ordered, Kept
<1>5. (WorkIsClosed /\ BatchIsClosed)'
  BY <1>1, <1>2, ClosedStep DEF Core, Ordered, Kept
<1>6. PassedIsDone'
  BY <1>1, PassedDoneStep DEF Core, Ordered, Kept
<1> QED BY <1>3, <1>4, <1>5, <1>6 DEF Kept

\* The worker keeps the window in order and its work in hand.
LEMMA KeptHolds == ASSUME Solo PROVE Spec => []Kept
<1>1. Core /\ Ordered /\ Kept /\ [Next]_vars => Kept'
  BY KeptStep
<1> QED BY <1>1, KeptInit, CoreHolds, OrderedHolds, PTL DEF Spec

\* Work leaves a running worker's queue only when it needs no more processing
\* or was reported as a gap, whatever leases end and whatever calls but those
\* of claim() fail.
THEOREM WorkIsKept == ASSUME Solo PROVE Spec => []NothingLostSilently
<1>1. Kept => NothingLostSilently
  BY DEF Kept
<1> QED BY <1>1, KeptHolds, PTL

\* Over the whole window, batch after batch and session after session, an
\* effect is written only when every earlier segment is done or a known gap.
THEOREM EffectsInWindowOrder == ASSUME Solo PROVE Spec => WindowOrder
<1> DEFINE InOrder ==
       \A w \in Workers, s \in Segs :
          Writes(w, s) =>
             \A t \in Segs : t < s => ~ NeedsProcessing(t) \/ t \in gaps[w]
<1>1. Core /\ Ordered /\ Kept => InOrder
  <2> SUFFICES ASSUME Core, Ordered, Kept,
                      NEW w \in Workers, NEW s \in Segs, job[w][s] = "exec",
                      NEW t \in Segs, t < s
               PROVE  ~ NeedsProcessing(t) \/ t \in gaps[w]
    BY DEF Writes
  <2>1. s \in batch[w]
    BY DEF Ordered, JobsInBatch
  <2>2. job[w][t] = "none"
    BY EarlierIsPassed DEF Core, Ordered
  <2>3. blocked[w] = 0 /\ ~ CommitsNoMore(w)
    BY DEF Ordered, CommitIsUnblocked, CommitsNoMore, CommitStages
  <2>4. t \in batch[w] \/ Covered(w, t)
    BY <2>1, <2>3 DEF Kept, BatchIsClosed
  <2> QED BY <2>2, <2>3, <2>4 DEF Kept, PassedIsDone, Covered
<1>2. Core /\ Ordered /\ Kept /\ [Next]_vars => [InOrder]_vars
  BY <1>1
<1> QED BY <1>2, CoreHolds, OrderedHolds, KeptHolds, PTL DEF Spec, WindowOrder
=============================================================================
