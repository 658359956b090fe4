---------------------------- MODULE ProfileWorker ----------------------------
(***************************************************************************)
(* One analysis profile of one variant, followed by the Workers: each has  *)
(* an admission queue, a planner (ProfileScheduler._plan_group on the poll *)
(* thread) and a batch thread (ProfileWorkerCoordinator.process_batch)     *)
(* whose analyses run in parallel and commit in order.  The workers share  *)
(* only Redis: SegmentStore and EventStore.  Sources:                      *)
(* src/src/core/profile_scheduler.py, profile_worker.py, live_runtime.py.  *)
(*                                                                         *)
(* The profile has one processor.  The playlist window is 1 .. NSegs, and  *)
(* a (re)started session admits all of it.                                 *)
(***************************************************************************)
EXTENDS EventStore

CONSTANTS
    Parallel,       \* parallel analyses per batch: 1 for video, 2 for audio
    BatchLimit,     \* segments per batch
    Overload,       \* BOOLEAN: queued work may expire
    SlowCalls,      \* BOOLEAN: the Redis calls of one claim() or apply() may
                    \* take longer than the lease they run under
    FaultSites,     \* calls that may raise: subset of {"claim","mark","apply"}
    MaxFaults,      \* bound: failing calls in a behaviour
    MaxRestarts,    \* bound: crashes and stops in a behaviour
    MaxExpiries     \* bound: leases that end while their owner is alive

ASSUME WorkerAssumption ==
    /\ Parallel \in Nat \ {0}
    /\ BatchLimit \in Nat \ {0}
    /\ Overload \in BOOLEAN /\ SlowCalls \in BOOLEAN
    /\ FaultSites \subseteq {"claim", "mark", "apply"}
    /\ MaxFaults \in Nat /\ MaxRestarts \in Nat /\ MaxExpiries \in Nat

VARIABLES
    mode,           \* worker -> its session: up, ending (stop asked), down
    stopFlag,       \* worker -> ProfileWorkerCoordinator.stop_event
    queue,          \* worker -> segments its admission queue holds
    gaps,           \* worker -> segments it reported as coverage gaps
    plan,           \* worker -> records read, not yet acted on
    batch,          \* worker -> segments of the running batch, {} if none
    job,            \* worker -> segment -> where the batch is with it
    seen,           \* worker -> attempts read by the claim in progress
    blocked,        \* worker -> 0, or the segment that blocked the processor
    turn,           \* worker -> what to do with the popped head of the deque
    left            \* what the bounds still allow

workerVars == <<mode, stopFlag, queue, gaps, plan, batch, job, seen, blocked,
                turn, left>>
vars == <<storeVars, eventVars, workerVars>>

NoPlan == [on |-> FALSE, done |-> {}, work |-> {}]

\* The stages of a segment in a batch.  run, ok and bad are the pending
\* deque (analysing, analysed, analysis raised); the others but none and todo
\* are calls of the batch thread, of which there is at most one.
ClaimStages  == {"locked", "reject", "claim"}
CommitStages == {"probe", "evlock", "load", "exec", "mark", "undo"}
PendStages   == {"run", "ok", "bad"}
Stages == {"none", "todo"} \cup ClaimStages \cup CommitStages \cup PendStages

TypeOK ==
    /\ StoreTypeOK
    /\ EventTypeOK
    /\ mode \in [Workers -> {"up", "ending", "down"}]
    /\ stopFlag \in [Workers -> BOOLEAN]
    /\ queue \in [Workers -> SUBSET Segs]
    /\ gaps \in [Workers -> SUBSET Segs]
    /\ plan \in [Workers -> [on : BOOLEAN, done : SUBSET Segs,
                             work : SUBSET Segs]]
    /\ batch \in [Workers -> SUBSET Segs]
    /\ job \in [Workers -> [Segs -> Stages]]
    /\ seen \in [Workers -> 0 .. MaxAttempts]
    /\ blocked \in [Workers -> 0 .. NSegs]
    /\ turn \in [Workers -> {"none", "commit", "defer"}]
    /\ left \in [fault : 0 .. MaxFaults, restart : 0 .. MaxRestarts,
                 expiry : 0 .. MaxExpiries]

Init ==
    /\ StoreInit
    /\ EventInit
    /\ mode = [w \in Workers |-> "up"]
    /\ stopFlag = [w \in Workers |-> FALSE]
    /\ queue = [w \in Workers |-> Segs]
    /\ gaps = [w \in Workers |-> {}]
    /\ plan = [w \in Workers |-> NoPlan]
    /\ batch = [w \in Workers |-> {}]
    /\ job = [w \in Workers |-> [s \in Segs |-> "none"]]
    /\ seen = [w \in Workers |-> 0]
    /\ blocked = [w \in Workers |-> 0]
    /\ turn = [w \in Workers |-> "none"]
    /\ left = [fault |-> MaxFaults, restart |-> MaxRestarts,
               expiry |-> MaxExpiries]

In(w, stages) == {s \in Segs : job[w][s] \in stages}
InCall(w) == In(w, ClaimStages \cup CommitStages) # {}
Pending(w) == In(w, PendStages)
Earliest(s, S) == s \in S /\ \A t \in S : s <= t

\* Mutant of Block: a failure does not block the later segments.
BlockNothing(w, s) == UNCHANGED blocked

Goto(w, s, stage) == job' = [job EXCEPT ![w][s] = stage]
Block(w, s) == blocked' = [blocked EXCEPT ![w] = IF @ = 0 THEN s ELSE @]
SpendFault(site) ==
    /\ site \in FaultSites
    /\ left.fault > 0
    /\ left' = [left EXCEPT !.fault = @ - 1]

-----------------------------------------------------------------------------
(* The planner: dispatch_pending and _plan_group, on the poll thread.       *)

\* admission_queue.snapshot() and state_store.get_records().
PlanRead(w) ==
    /\ mode[w] = "up"
    /\ ~ plan[w].on
    /\ queue[w] # {}
    /\ plan' = [plan EXCEPT ![w] =
                  [on   |-> TRUE,
                   done |-> {s \in queue[w] : ~ NeedsProcessing(s)},
                   work |-> {s \in queue[w] : NeedsProcessing(s)}]]
    /\ UNCHANGED <<storeVars, eventVars, mode, stopFlag, queue, gaps, batch,
                   job, seen, blocked, turn, left>>

\* The first BatchLimit segments of the plan's work.
FirstOf(work) ==
    {s \in work : Cardinality({t \in work : t < s}) < BatchLimit}

\* Mutant of PlanAct: submitted work is acknowledged before it is processed.
PlanActAcksWork(w) ==
    /\ mode[w] = "up"
    /\ plan[w].on
    /\ queue' = [queue EXCEPT ![w] = @ \ (plan[w].done \cup plan[w].work)]
    /\ IF batch[w] = {} /\ plan[w].work # {}
       THEN /\ batch' = [batch EXCEPT ![w] = FirstOf(plan[w].work)]
            /\ job' = [job EXCEPT ![w] = [s \in Segs |->
                         IF s \in FirstOf(plan[w].work) THEN "todo" ELSE "none"]]
       ELSE UNCHANGED <<batch, job>>
    /\ plan' = [plan EXCEPT ![w] = NoPlan]
    /\ UNCHANGED <<storeVars, eventVars, mode, stopFlag, gaps, seen, blocked,
                   turn, left>>

\* acknowledge(completed); then reserve, protect and submit one batch, unless
\* one is already active for the profile and variant.
PlanAct(w) ==
    /\ mode[w] = "up"
    /\ plan[w].on
    /\ queue' = [queue EXCEPT ![w] = @ \ plan[w].done]
    /\ IF batch[w] = {} /\ plan[w].work # {}
       THEN LET b == FirstOf(plan[w].work)
            IN /\ batch' = [batch EXCEPT ![w] = b]
               /\ job' = [job EXCEPT ![w] =
                            [s \in Segs |-> IF s \in b THEN "todo" ELSE "none"]]
       ELSE UNCHANGED <<batch, job>>
    /\ plan' = [plan EXCEPT ![w] = NoPlan]
    /\ UNCHANGED <<storeVars, eventVars, mode, stopFlag, gaps, seen, blocked,
                   turn, left>>

\* SegmentAdmissionQueue.expire: old unprotected work leaves as a gap.
ExpireItem(w, s) ==
    /\ Overload
    /\ mode[w] = "up"
    /\ s \in queue[w] \ batch[w]
    /\ queue' = [queue EXCEPT ![w] = @ \ {s}]
    /\ gaps' = [gaps EXCEPT ![w] = @ \cup {s}]
    /\ UNCHANGED <<storeVars, eventVars, mode, stopFlag, plan, batch, job,
                   seen, blocked, turn, left>>

-----------------------------------------------------------------------------
(* The batch thread fills: _submit_analysis and _claim_processors.          *)

CanFill(w) ==
    /\ ~ stopFlag[w]
    /\ turn[w] = "none"
    /\ In(w, {"todo"}) # {}
    /\ Cardinality(Pending(w)) < Parallel

Fills(w, s) ==
    /\ ~ InCall(w)
    /\ CanFill(w)
    /\ Earliest(s, In(w, {"todo"}))

\* The processor is blocked: the item is skipped without a claim.
SkipBlocked(w, s) ==
    /\ Fills(w, s)
    /\ blocked[w] # 0
    /\ Goto(w, s, "none")
    /\ UNCHANGED <<storeVars, eventVars, mode, stopFlag, queue, gaps, plan,
                   batch, seen, blocked, turn, left>>

\* The lock is taken by somebody's token: BUSY blocks the processor.
ClaimBusy(w, s) ==
    /\ Fills(w, s)
    /\ blocked[w] = 0
    /\ lock[s] # Free
    /\ Goto(w, s, "none")
    /\ Block(w, s)
    /\ UNCHANGED <<storeVars, eventVars, mode, stopFlag, queue, gaps, plan,
                   batch, seen, turn, left>>

ClaimLock(w, s) ==
    /\ Fills(w, s)
    /\ blocked[w] = 0
    /\ SetLockNX(w, s)
    /\ Goto(w, s, "locked")
    /\ UNCHANGED <<eventVars, mode, stopFlag, queue, gaps, plan, batch, seen,
                   blocked, turn, left>>

\* HGETALL, and the decision taken from what it returned.
ClaimRead(w, s) ==
    /\ job[w][s] = "locked"
    /\ seen' = [seen EXCEPT ![w] = attempts[s]]
    /\ Goto(w, s, IF Rejects(s) THEN "reject" ELSE "claim")
    /\ UNCHANGED <<storeVars, eventVars, mode, stopFlag, queue, gaps, plan,
                   batch, blocked, turn, left>>

\* ALREADY_SUCCESSFUL, TERMINAL_FAILURE or RETRY_EXHAUSTED: skip the item.
ClaimReject(w, s) ==
    /\ job[w][s] = "reject"
    /\ ReleaseLock(w, s)
    /\ seen' = [seen EXCEPT ![w] = 0]
    /\ Goto(w, s, "none")
    /\ UNCHANGED <<eventVars, mode, stopFlag, queue, gaps, plan, batch,
                   blocked, turn, left>>

ClaimWrite(w, s) ==
    /\ job[w][s] = "claim"
    /\ WriteClaim(s, seen[w])
    /\ seen' = [seen EXCEPT ![w] = 0]
    /\ Goto(w, s, "run")
    /\ UNCHANGED <<eventVars, mode, stopFlag, queue, gaps, plan, batch,
                   blocked, turn, left>>

\* RedisUnavailableError inside claim(): _submit_analysis calls
\* request_stop() and drops the item; a lock already taken is left to expire.
\* The failed call itself may or may not have reached Redis.
ClaimFault(w, s) ==
    /\ \/ job[w][s] \in ClaimStages /\ Abandon(w, s)
       \/ job[w][s] = "reject" /\ ReleaseLock(w, s)
       \/ /\ job[w][s] = "claim"
          /\ status' = [status EXCEPT ![s] = "processing"]
          /\ attempts' = [attempts EXCEPT ![s] = seen[w] + 1]
          /\ lock' = [lock EXCEPT ![s] = IF Owns(w, s) THEN Orphan ELSE @]
       \/ Fills(w, s) /\ blocked[w] = 0 /\ UNCHANGED storeVars
       \/ /\ Fills(w, s) /\ blocked[w] = 0 /\ lock[s] = Free
          /\ lock' = [lock EXCEPT ![s] = Orphan]
          /\ UNCHANGED <<status, attempts>>
    /\ SpendFault("claim")
    /\ stopFlag' = [stopFlag EXCEPT ![w] = TRUE]
    /\ seen' = [seen EXCEPT ![w] = 0]
    /\ Goto(w, s, "none")
    /\ UNCHANGED <<eventVars, mode, queue, gaps, plan, batch, blocked, turn>>

-----------------------------------------------------------------------------
(* An analysis thread: _run_analysis and _analyze.                          *)

AnalysisOk(w, s) ==
    /\ job[w][s] = "run"
    /\ Goto(w, s, "ok")
    /\ UNCHANGED <<storeVars, eventVars, mode, stopFlag, queue, gaps, plan,
                   batch, seen, blocked, turn, left>>

\* profile.analyze raised: the claim is marked retryable at once, before its
\* turn to commit; an unavailable Redis or a lost lease is ignored.
AnalysisFail(w, s) ==
    /\ job[w][s] = "run"
    /\ \/ Complete(w, s, "retryable") /\ UNCHANGED left
       \/ SpendFault("mark") /\ UNCHANGED storeVars
    /\ Goto(w, s, "bad")
    /\ UNCHANGED <<eventVars, mode, stopFlag, queue, gaps, plan, batch, seen,
                   blocked, turn>>

-----------------------------------------------------------------------------
(* The batch thread pops the earliest pending analysis: process_batch,      *)
(* _commit_analysis_result, _process_claimed_segment.                       *)

\* popleft(), then the test of stop_event; future.result() may wait after it.
Pop(w) ==
    /\ ~ InCall(w)
    /\ ~ CanFill(w)
    /\ Pending(w) # {}
    /\ turn[w] = "none"
    /\ turn' = [turn EXCEPT ![w] = IF stopFlag[w] THEN "defer" ELSE "commit"]
    /\ UNCHANGED <<storeVars, eventVars, mode, stopFlag, queue, gaps, plan,
                   batch, job, seen, blocked, left>>

Turn(w, s, what) == turn[w] = what /\ Earliest(s, Pending(w))
EndTurn(w) == turn' = [turn EXCEPT ![w] = "none"]

\* relinquish(); a lost lease is ignored, and so is an unavailable Redis.
TryRelinquish(w, s) ==
    \/ Relinquish(w, s) /\ UNCHANGED left
    \/ Abandon(w, s) /\ SpendFault("mark")

\* _defer_pending_analysis: the stopping worker gives the claim back.
Defer(w, s) ==
    /\ Turn(w, s, "defer")
    /\ job[w][s] \in {"ok", "bad"}
    /\ TryRelinquish(w, s)
    /\ Goto(w, s, "none")
    /\ EndTurn(w)
    /\ UNCHANGED <<eventVars, mode, stopFlag, queue, gaps, plan, batch, seen,
                   blocked>>

\* The analysis raised: later segments of the batch are blocked.
CommitFailed(w, s) ==
    /\ Turn(w, s, "commit")
    /\ job[w][s] = "bad"
    /\ Block(w, s)
    /\ Abandon(w, s)
    /\ Goto(w, s, "none")
    /\ EndTurn(w)
    /\ UNCHANGED <<eventVars, mode, stopFlag, queue, gaps, plan, batch, seen,
                   left>>

\* "ordered commit blocked by an earlier segment".
CommitBlocked(w, s) ==
    /\ Turn(w, s, "commit")
    /\ job[w][s] = "ok"
    /\ blocked[w] # 0
    /\ TryRelinquish(w, s)
    /\ Goto(w, s, "none")
    /\ EndTurn(w)
    /\ UNCHANGED <<eventVars, mode, stopFlag, queue, gaps, plan, batch, seen,
                   blocked>>

\* processor.process: a result to commit, a retryable or a terminal failure.
CommitStart(w, s) ==
    /\ Turn(w, s, "commit")
    /\ job[w][s] = "ok"
    /\ blocked[w] = 0
    /\ \E next \in {"probe", "undo"} : Goto(w, s, next)
    /\ EndTurn(w)
    /\ UNCHANGED <<storeVars, eventVars, mode, stopFlag, queue, gaps, plan,
                   batch, seen, blocked, left>>

\* mark_terminal_failure ends the item; a lost lease blocks instead.
CommitTerminal(w, s) ==
    /\ Turn(w, s, "commit")
    /\ job[w][s] = "ok"
    /\ blocked[w] = 0
    /\ \/ /\ Owns(w, s)
          /\ Complete(w, s, "terminal")
          /\ queue' = [queue EXCEPT ![w] = @ \ {s}]
          /\ UNCHANGED <<blocked, left>>
       \/ /\ ~ Owns(w, s)
          /\ Block(w, s)
          /\ UNCHANGED <<storeVars, queue, left>>
       \/ /\ SpendFault("mark")
          /\ Abandon(w, s) \/ (Owns(w, s) /\ Complete(w, s, "terminal"))
          /\ Block(w, s)
          /\ UNCHANGED queue
    /\ Goto(w, s, "none")
    /\ EndTurn(w)
    /\ UNCHANGED <<eventVars, mode, stopFlag, gaps, plan, batch, seen>>

\* apply(): EXISTS marker.
Probe(w, s) ==
    /\ job[w][s] = "probe"
    /\ Goto(w, s, IF marker[s] THEN "mark" ELSE "evlock")
    /\ UNCHANGED <<storeVars, eventVars, mode, stopFlag, queue, gaps, plan,
                   batch, seen, blocked, turn, left>>

\* apply(): SET NX of the event lock; BlackEventStateBusyError if it is taken.
EventLock(w, s) ==
    /\ job[w][s] = "evlock"
    /\ IF eventLock = Free
       THEN TakeEventLock(w) /\ Goto(w, s, "load")
       ELSE UNCHANGED eventVars /\ Goto(w, s, "undo")
    /\ UNCHANGED <<storeVars, mode, stopFlag, queue, gaps, plan, batch, seen,
                   blocked, turn, left>>

\* Mutant of Load: the marker is not read again under the lock.
LoadWithoutRecheck(w, s) ==
    /\ job[w][s] = "load"
    /\ Goto(w, s, "exec")
    /\ UNCHANGED <<storeVars, eventVars, mode, stopFlag, queue, gaps, plan,
                   batch, seen, blocked, turn, left>>

\* apply(): EXISTS marker again under the lock, then the reads of the event.
Load(w, s) ==
    /\ job[w][s] = "load"
    /\ IF marker[s]
       THEN DropEventLock(w) /\ Goto(w, s, "mark")
       ELSE UNCHANGED eventVars /\ Goto(w, s, "exec")
    /\ UNCHANGED <<storeVars, mode, stopFlag, queue, gaps, plan, batch, seen,
                   blocked, turn, left>>

\* apply(): the transaction; the reducer sees nothing newer than Load.
Exec(w, s) ==
    /\ job[w][s] = "exec"
    /\ ExecEffect(w, s)
    /\ Goto(w, s, "mark")
    /\ UNCHANGED <<storeVars, mode, stopFlag, queue, gaps, plan, batch, seen,
                   blocked, turn, left>>

\* Mutant of ApplyFault: the exception of commit() is swallowed.
ApplyFaultSwallowed(w, s) ==
    /\ job[w][s] \in {"probe", "evlock", "load", "exec"}
    /\ SpendFault("apply")
    /\ Goto(w, s, "mark")
    /\ eventLock' = FreedBy(w)
    /\ UNCHANGED <<storeVars, marker, hits, mode, stopFlag, queue, gaps, plan,
                   batch, seen, blocked, turn>>

\* A call of apply() raises.  What it asked Redis for may have happened, the
\* transaction included; the event lock is released, or left to expire.
ApplyFault(w, s) ==
    /\ job[w][s] \in {"probe", "evlock", "load", "exec"}
    /\ SpendFault("apply")
    /\ Goto(w, s, "undo")
    /\ \/ /\ job[w][s] = "exec"
          /\ marker' = [marker EXCEPT ![s] = TRUE]
          /\ hits' = [hits EXCEPT ![s] = @ + 1]
       \/ UNCHANGED <<marker, hits>>
    /\ \/ eventLock' = FreedBy(w)
       \/ eventLock = w /\ eventLock' = Orphan
       \/ job[w][s] = "evlock" /\ eventLock = Free /\ eventLock' = Orphan
    /\ UNCHANGED <<storeVars, mode, stopFlag, queue, gaps, plan, batch, seen,
                   blocked, turn>>

\* mark_success, then acknowledge; a lost lease or a failing call blocks.
MarkSuccess(w, s) ==
    /\ job[w][s] = "mark"
    /\ \/ /\ Owns(w, s)
          /\ Complete(w, s, "success")
          /\ queue' = [queue EXCEPT ![w] = @ \ {s}]
          /\ UNCHANGED <<blocked, left>>
       \/ /\ ~ Owns(w, s)
          /\ Block(w, s)
          /\ UNCHANGED <<storeVars, queue, left>>
       \/ /\ SpendFault("mark")
          /\ Abandon(w, s) \/ (Owns(w, s) /\ Complete(w, s, "success"))
          /\ Block(w, s)
          /\ UNCHANGED queue
    /\ Goto(w, s, "none")
    /\ UNCHANGED <<eventVars, mode, stopFlag, gaps, plan, batch, seen, turn>>

\* Mutant of MarkRetryable: the batch goes on past the failed segment.
MarkRetryableGoesOn(w, s) ==
    /\ job[w][s] = "undo"
    /\ Complete(w, s, "retryable")
    /\ Goto(w, s, "none")
    /\ UNCHANGED <<eventVars, mode, stopFlag, queue, gaps, plan, batch, seen,
                   blocked, turn, left>>

\* mark_retryable_failure after a failed process() or commit().
MarkRetryable(w, s) ==
    /\ job[w][s] = "undo"
    /\ \/ Complete(w, s, "retryable") /\ UNCHANGED left
       \/ Abandon(w, s) /\ SpendFault("mark")
    /\ Block(w, s)
    /\ Goto(w, s, "none")
    /\ UNCHANGED <<eventVars, mode, stopFlag, queue, gaps, plan, batch, seen,
                   turn>>

\* Mutant of EndBatch: the batch is never released.
EndBatchKeepsKey(w) ==
    /\ batch[w] # {}
    /\ ~ InCall(w)
    /\ Pending(w) = {}
    /\ ~ CanFill(w)
    /\ blocked' = [blocked EXCEPT ![w] = 0]
    /\ UNCHANGED <<storeVars, eventVars, mode, stopFlag, queue, gaps, plan,
                   batch, job, seen, turn, left>>

\* process_batch returns; _process_batch releases the items and the batch.
EndBatch(w) ==
    /\ batch[w] # {}
    /\ ~ InCall(w)
    /\ Pending(w) = {}
    /\ ~ CanFill(w)
    /\ batch' = [batch EXCEPT ![w] = {}]
    /\ job' = [job EXCEPT ![w] = [s \in Segs |-> "none"]]
    /\ blocked' = [blocked EXCEPT ![w] = 0]
    /\ UNCHANGED <<storeVars, eventVars, mode, stopFlag, queue, gaps, plan,
                   seen, turn, left>>

-----------------------------------------------------------------------------
(* Sessions and leases.                                                     *)

SpendRestart ==
    /\ left.restart > 0
    /\ left' = [left EXCEPT !.restart = @ - 1]

\* LiveMonitoringRuntime.stop(): both stop events.
Stop(w) ==
    /\ mode[w] = "up"
    /\ SpendRestart
    /\ mode' = [mode EXCEPT ![w] = "ending"]
    /\ stopFlag' = [stopFlag EXCEPT ![w] = TRUE]
    /\ UNCHANGED <<storeVars, eventVars, queue, gaps, plan, batch, job, seen,
                   blocked, turn>>

\* run_forever leaves its loop and shutdown(wait=True) has drained the batch.
Ended(w) ==
    /\ mode[w] = "ending"
    /\ batch[w] = {}
    /\ mode' = [mode EXCEPT ![w] = "down"]
    /\ plan' = [plan EXCEPT ![w] = NoPlan]
    /\ queue' = [queue EXCEPT ![w] = {}]
    /\ gaps' = [gaps EXCEPT ![w] = {}]
    /\ UNCHANGED <<storeVars, eventVars, stopFlag, batch, job, seen, blocked,
                   turn, left>>

\* The process dies: its memory is gone, its locks are left to expire.
Crash(w) ==
    /\ mode[w] # "down"
    /\ SpendRestart
    /\ mode' = [mode EXCEPT ![w] = "down"]
    /\ lock' = [s \in Segs |-> IF lock[s] = w THEN Orphan ELSE lock[s]]
    /\ eventLock' = IF eventLock = w THEN Orphan ELSE eventLock
    /\ plan' = [plan EXCEPT ![w] = NoPlan]
    /\ queue' = [queue EXCEPT ![w] = {}]
    /\ gaps' = [gaps EXCEPT ![w] = {}]
    /\ batch' = [batch EXCEPT ![w] = {}]
    /\ job' = [job EXCEPT ![w] = [s \in Segs |-> "none"]]
    /\ seen' = [seen EXCEPT ![w] = 0]
    /\ blocked' = [blocked EXCEPT ![w] = 0]
    /\ turn' = [turn EXCEPT ![w] = "none"]
    /\ UNCHANGED <<status, attempts, marker, hits, stopFlag>>

\* A new session: new queue, new coordinator, the whole window admitted.
Restart(w) ==
    /\ mode[w] = "down"
    /\ mode' = [mode EXCEPT ![w] = "up"]
    /\ stopFlag' = [stopFlag EXCEPT ![w] = FALSE]
    /\ queue' = [queue EXCEPT ![w] = Segs]
    /\ UNCHANGED <<storeVars, eventVars, gaps, plan, batch, job, seen, blocked,
                   turn, left>>

SpendExpiry ==
    /\ left.expiry > 0
    /\ left' = [left EXCEPT !.expiry = @ - 1]

\* A lease nobody renews ends.
ExpireOrphan(s) ==
    /\ lock[s] = Orphan
    /\ ExpireLock(s)
    /\ UNCHANGED <<eventVars, workerVars>>

\* A lease ends under a live owner: its heartbeat failed once (and then never
\* renews again) or the process was suspended.  Unless SlowCalls, the few
\* calls of claim() itself finish within the lease they just took.
ExpireOwned(w, s) ==
    /\ Owns(w, s)
    /\ SlowCalls \/ job[w][s] \notin ClaimStages
    /\ ExpireLock(s)
    /\ SpendExpiry
    /\ UNCHANGED <<eventVars, mode, stopFlag, queue, gaps, plan, batch, job,
                   seen, blocked, turn>>

ExpireEventOrphan ==
    /\ eventLock = Orphan
    /\ ExpireEventLock
    /\ UNCHANGED <<storeVars, workerVars>>

\* apply() outlives event_lock_ms.
ExpireEventOwned ==
    /\ SlowCalls
    /\ eventLock \in Workers
    /\ ExpireEventLock
    /\ SpendExpiry
    /\ UNCHANGED <<storeVars, mode, stopFlag, queue, gaps, plan, batch, job,
                   seen, blocked, turn>>

-----------------------------------------------------------------------------

Planner(w) == PlanRead(w) \/ PlanAct(w)

Claims(w, s) ==
    SkipBlocked(w, s) \/ ClaimBusy(w, s) \/ ClaimLock(w, s)
    \/ ClaimRead(w, s) \/ ClaimReject(w, s) \/ ClaimWrite(w, s)

Analysis(w, s) == AnalysisOk(w, s) \/ AnalysisFail(w, s)

Commits(w, s) ==
    \/ Defer(w, s) \/ CommitFailed(w, s) \/ CommitBlocked(w, s)
    \/ CommitStart(w, s) \/ CommitTerminal(w, s)
    \/ Probe(w, s) \/ EventLock(w, s) \/ Load(w, s) \/ Exec(w, s)
    \/ MarkSuccess(w, s) \/ MarkRetryable(w, s)

BatchThread(w) ==
    Pop(w) \/ EndBatch(w) \/ \E s \in Segs : Claims(w, s) \/ Commits(w, s)

Environment(w) ==
    \/ Stop(w) \/ Crash(w)
    \/ \E s \in Segs : \/ ExpireItem(w, s) \/ ExpireOwned(w, s)
                       \/ ClaimFault(w, s) \/ ApplyFault(w, s)

Lifecycle(w) == Ended(w) \/ Restart(w)

Expiry == ExpireEventOrphan \/ \E s \in Segs : ExpireOrphan(s)

Next ==
    \/ \E w \in Workers :
          \/ Planner(w) \/ BatchThread(w) \/ Lifecycle(w) \/ Environment(w)
          \/ \E s \in Segs : Analysis(w, s)
    \/ Expiry
    \/ ExpireEventOwned

Spec == Init /\ [][Next]_vars

\* Threads are scheduled, an analysis ends (FFmpeg has a timeout), Redis
\* expires keys, and a stopped or crashed worker is started again.
Fairness ==
    /\ \A w \in Workers :
          /\ WF_vars(Planner(w)) /\ WF_vars(BatchThread(w))
          /\ WF_vars(Lifecycle(w))
          /\ \A s \in Segs : WF_vars(Analysis(w, s))
    /\ WF_vars(ExpireEventOrphan)
    /\ \A s \in Segs : WF_vars(ExpireOrphan(s))

FairSpec == Spec /\ Fairness

-----------------------------------------------------------------------------
(* What the workers promise.                                                *)

\* A segment recorded SUCCESS has its effect in Redis: mark_success is only
\* reached after commit() returned, whatever crashed or timed out before.
SuccessIsCommitted == \A s \in Segs : status[s] = "success" => marker[s]

\* No effect is written twice, although a claim can be lost and taken again
\* while its first owner is still on its way to commit (the marker and the
\* event lock; tests/checks: exactly once, two workers).
EffectOnce == \A s \in Segs : hits[s] <= 1

\* The effect of s is written by w in this step.
Writes(w, s) ==
    /\ job[w][s] = "exec" /\ job'[w][s] # "exec"
    /\ hits'[s] # hits[s]

\* Ordered commit inside a batch: when a worker writes the effect of a
\* segment, no earlier segment of its batch still needs processing, although
\* both were analysed at the same time.
BatchOrder ==
    [][\A w \in Workers, s \in Segs :
          Writes(w, s) => \A t \in batch[w] : t < s => ~ NeedsProcessing(t)]_vars

\* A record that is SUCCESS or FAILED_TERMINAL is never changed again, by a
\* late owner or by another worker's claim.
SettledIsFinal ==
    [][\A s \in Segs : Settled(s) => status'[s] = status[s]]_vars

\* Work leaves a running worker's queue only when it needs no more
\* processing or is reported as a coverage gap.
NothingLostSilently ==
    \A w \in Workers, s \in Segs :
        mode[w] = "up" /\ NeedsProcessing(s) => s \in queue[w] \cup gaps[w]

\* Order over the whole window: an effect is written only when every earlier
\* segment needs no more processing or was reported as a gap.
WindowOrder ==
    [][\A w \in Workers, s \in Segs :
          Writes(w, s) =>
              \A t \in Segs : t < s => ~ NeedsProcessing(t) \/ t \in gaps[w]]_vars

\* Every segment of the window is in the end settled, out of attempts or
\* reported as a gap: locks of crashed workers, blocked batches, failed calls
\* and restarts do not wedge it.
EventuallyDone ==
    \A s \in Segs :
        <>[](~ NeedsProcessing(s) \/ \E w \in Workers : s \in gaps[w])

\* No lease outlives its job: whatever failed, a lock still being renewed is
\* that of a segment its owner's batch is working on.  (A leaked heartbeat
\* would keep the segment BUSY for everybody until the process ends.)
LocksHaveJobs ==
    \A w \in Workers, s \in Segs : Owns(w, s) => job[w][s] \notin {"none", "todo"}

-----------------------------------------------------------------------------

Verdict == [s \in Segs |-> CASE status[s] = "success"  -> "accepted"
                             [] status[s] = "terminal" -> "rejected"
                             [] OTHER                  -> "open"]

Contract == INSTANCE SegmentContract WITH verdict <- Verdict, delivered <- hits

\* The workers together implement the contract of a segment.
ImplementsContract == Contract!Spec
=============================================================================
