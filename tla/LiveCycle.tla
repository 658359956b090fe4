------------------------------ MODULE LiveCycle ------------------------------
(***************************************************************************)
(* The polling loop of one stream session and the work between it and the  *)
(* analysis threads: LiveMonitoringRuntime.run_cycle, the scheduler's      *)
(* dispatch and pressure control, the bounded SegmentAdmissionQueue and    *)
(* the AdaptiveAdmissionController, for the one (profile, variant) key     *)
(* whose batches exclude each other.  What a batch does to its segments is *)
(* ProfileWorker's subject; here an item is settled or it is not.          *)
(*                                                                         *)
(* Sources: src/src/core/live_runtime.py, profile_scheduler.py,            *)
(* segment_admission.py.  Ages and limits are in one unit; a Tick is the   *)
(* time that passes at once, while the runtime thread waits or downloads.  *)
(***************************************************************************)
EXTENDS Integers, SequencesExt, Subsequence

CONSTANTS
    Work,               \* 1 .. n: segments in the order the playlist brings them
    Generation,         \* segment -> its timeline generation
    MaxItems,           \* max_admitted_work
    MaxAge,             \* max_work_age_seconds
    BatchLimit,         \* segments of one batch
    Retained,           \* live_edge_retention_segments
    TransitionCycles,   \* transition_cycles
    RecoveryLag,        \* the three lag limits for the target duration
    SoftLag,
    HardLag,
    Tick,               \* time that passes at once
    Listed,             \* segments of the playlist that may be offered again
    MaxSetbacks         \* bound: batches that leave an item unsettled, because
                        \* its attempt failed or never began, segments that
                        \* another process settles, and segments
                        \* offered a second time

ASSUME CycleAssumption ==
    /\ {MaxItems, MaxAge, BatchLimit, Retained, TransitionCycles, Tick} \subseteq Nat \ {0}
    /\ {Listed, MaxSetbacks} \subseteq Nat
    /\ IsFiniteSet(Work) /\ Work = 1 .. Cardinality(Work)
    /\ Generation \in [Work -> Nat]
    /\ RecoveryLag < SoftLag /\ SoftLag < HardLag

VARIABLES
    queue,          \* _items: sequence of [id, age], oldest admission first
    protected,      \* _protected
    suppressed,     \* _suppressed_until: id -> what is left of it, 0 if none
    mode,           \* the controller's mode
    evidence,       \* its four counters
    runtime,        \* the runtime thread: pc, the dispatch of the cycle, and
                    \* the plan it holds
    batch,          \* the batch of the key: what is left to do and to
                    \* acknowledge, and whether the key is reserved
    settled,        \* ids whose records are terminal
    offered,        \* newest segment the playlist has brought
    setbacks,       \* left of MaxSetbacks
    dropped,        \* history: ids dropped and not admitted again since
    lags            \* history: lags observed since the evidence was last reset

cycleVars == <<queue, protected, suppressed, mode, evidence, runtime, batch,
               settled, offered, setbacks, dropped, lags>>

queueVars == <<queue, protected, suppressed, dropped>>
controlVars == <<mode, evidence, lags>>
batchVars == <<batch, settled>>
offerVars == <<offered, setbacks>>

Queued == {item.id : item \in ToSet(queue)}

-----------------------------------------------------------------------------
(* SegmentAdmissionQueue, each operation under its lock.                   *)

\* The items of q that are none of ids.
Rest(q, ids) == Pick(q, {i \in DOMAIN q : q[i].id \notin ids})

Without(ids) == Rest(queue, ids)

\* _suppress.  A segment that has left the playlist is never looked up again,
\* so the model forgets its entry.
Suppress(ids) ==
    [id \in Work |-> IF id \in ids /\ id > offered - Listed THEN MaxAge
                     ELSE suppressed[id]]

\* Remove dropped items from items, and remember them.
Drop(ids) ==
    /\ queue' = Without(ids)
    /\ suppressed' = Suppress(ids)
    /\ dropped' = dropped \cup ids

\* Mutant: items that a batch holds expire too.
ExpiredAlsoInFlight == {item.id : item \in {i \in ToSet(queue) : i.age >= MaxAge}}

\* _expire: what a batch holds does not expire.
Expired ==
    {item.id : item \in {i \in ToSet(queue) :
                            i.id \notin protected /\ i.age >= MaxAge}}

\* acknowledge.
Acknowledge(ids) ==
    /\ queue' = Without(ids)
    /\ suppressed' = Suppress(ids \cap Queued)
    /\ protected' = protected \ ids
    /\ UNCHANGED dropped

\* Mutant: the queue is trimmed only after it has exceeded its limit.
OverCapacityByOne(items) ==
    LET free == Rest(items, protected)
        excess == Len(items) - MaxItems - 1
    IN  {free[i].id : i \in {j \in DOMAIN free : j <= excess}}

\* _enforce_capacity on items: the oldest that no batch holds go first.
OverCapacity(items) ==
    LET free == Rest(items, protected)
        excess == Len(items) - MaxItems
    IN  {free[i].id : i \in {j \in DOMAIN free : j <= excess}}

\* protect_live_edge: all but the newest of each generation.
BehindLiveEdge ==
    LET pending == Queued \ protected
        Newer(id) == {other \in pending :
                         Generation[other] = Generation[id] /\ other > id}
    IN  {id \in pending : Cardinality(Newer(id)) >= Retained}

\* oldest_pending_age_seconds.
QueueLag ==
    Max({0} \cup {item.age : item \in {i \in ToSet(queue) : i.id \notin protected}})

-----------------------------------------------------------------------------
(* AdaptiveAdmissionController.                                            *)

NoEvidence == [overSoft |-> 0, underRecovery |-> 0, overHard |-> 0,
               underProtection |-> 0]

\* Mutant: a quiet observation does not interrupt the count of late ones.
CountNotReset(holds, n) == IF holds THEN n + 1 ELSE n

\* A counter of observations in a row.
Count(holds, n) == IF holds THEN n + 1 ELSE 0

\* The evidence after an observation of lag in the current mode.
Weigh(lag) ==
    CASE mode = "coverage" ->
           [evidence EXCEPT !.underRecovery = 0,
                            !.overSoft = Count(lag > SoftLag, @)]
      [] mode = "catch_up" ->
           [overSoft |-> 0, underProtection |-> 0,
            overHard |-> Count(lag > HardLag, evidence.overHard),
            underRecovery |-> Count(lag < RecoveryLag, evidence.underRecovery)]
      [] mode = "protection" ->
           [evidence EXCEPT !.underRecovery = 0,
                            !.underProtection = Count(lag < SoftLag, @)]

\* The mode that evidence e asks for.
NextMode(e) ==
    CASE mode = "coverage" /\ e.overSoft >= TransitionCycles -> "catch_up"
      [] mode = "catch_up" /\ e.overHard >= TransitionCycles -> "protection"
      [] mode = "catch_up" /\ e.overHard < TransitionCycles
         /\ e.underRecovery >= TransitionCycles -> "coverage"
      [] mode = "protection" /\ e.underProtection >= TransitionCycles -> "catch_up"
      [] OTHER -> mode

\* What the history keeps: all that the next decision can rest on but the last.
Latest(s) == SubSeq(s, Max({1, Len(s) - TransitionCycles + 2}), Len(s))

\* observe: the lag, or nothing if the playlist names no target duration.
ObserveLag(lag) ==
    LET next == NextMode(Weigh(lag))
    IN  /\ mode' = next
        /\ evidence' = IF next = mode THEN Weigh(lag) ELSE NoEvidence
        /\ lags' = IF next = mode THEN Latest(Append(lags, lag)) ELSE <<>>

ForgetLag ==
    /\ evidence' = NoEvidence
    /\ lags' = <<>>
    /\ UNCHANGED mode

-----------------------------------------------------------------------------
(* The runtime thread: run_cycle, twice a dispatch and between them a poll.*)

RuntimeAt(pc) == runtime.pc = pc

\* Mutant: items expire only when the playlist could be polled.
DispatchWithoutExpiry ==
    /\ RuntimeAt("wait") \/ RuntimeAt("pressed")
    /\ runtime' = [pc |-> "plan", round |-> IF RuntimeAt("wait") THEN 1 ELSE 2,
                   plan |-> Queued]
    /\ UNCHANGED <<queueVars, controlVars, batchVars, offerVars>>

\* dispatch_pending begins: expire, then the snapshot the plan is made of.
\* A cycle dispatches first, and again once the queue's pressure is known.
Dispatch ==
    /\ RuntimeAt("wait") \/ RuntimeAt("pressed")
    /\ Drop(Expired)
    /\ runtime' = [pc |-> "plan", round |-> IF RuntimeAt("wait") THEN 1 ELSE 2,
                   plan |-> Queued \ Expired]
    /\ UNCHANGED <<protected, controlVars, batchVars, offerVars>>

After(round) == IF round = 1 THEN "poll" ELSE "wait"

\* The first of them in the order of the work.
Oldest(ids, n) == {id \in ids : Cardinality({e \in ids : e < id}) < n}

\* _plan_group: read the records, acknowledge what is settled, and keep the
\* first BatchLimit of the rest for submission.
Plan ==
    /\ RuntimeAt("plan")
    /\ LET work == Oldest(runtime.plan \ settled, BatchLimit)
       IN  runtime' = [runtime EXCEPT
               !.pc = IF work = {} THEN After(runtime.round) ELSE "submit",
               !.plan = work]
    /\ Acknowledge(runtime.plan \cap settled)
    /\ UNCHANGED <<controlVars, batchVars, offerVars>>

\* Abandon the cycle: run_forever catches RedisUnavailableError and
\* PlaylistLoadError and polls again after error_retry_interval.
Abandon == runtime' = [pc |-> "wait", round |-> 1, plan |-> {}]

PlanFails ==
    /\ RuntimeAt("plan")
    /\ runtime.plan # {}
    /\ Abandon
    /\ UNCHANGED <<queueVars, controlVars, batchVars, offerVars>>

\* _submit_batch: one batch of the key at a time; a full executor refuses, and
\* what was reserved and protected for the batch is given back.
Submit ==
    /\ RuntimeAt("submit")
    /\ \/ /\ ~batch.reserved
          /\ batch' = [reserved |-> TRUE, todo |-> runtime.plan, acks |-> {},
                       ids |-> runtime.plan]
          /\ protected' = protected \cup (runtime.plan \cap Queued)
       \/ UNCHANGED <<batch, protected>>
    /\ runtime' = [runtime EXCEPT !.pc = After(runtime.round), !.plan = {}]
    /\ UNCHANGED <<queue, suppressed, dropped, controlVars, settled, offerVars>>

\* The playlist cannot be loaded, or Redis fails while it is observed.
PollFails ==
    /\ RuntimeAt("poll")
    /\ Abandon
    /\ UNCHANGED <<queueVars, controlVars, batchVars, offerVars>>

\* poll, observe and admit_segments: the playlist brings up to two new segments,
\* and may bring one of those it lists a second time.
Poll ==
    /\ RuntimeAt("poll")
    /\ \E new \in 0 .. 2,
          again \in {<<>>} \cup {<<id>> : id \in {i \in Work : offered - Listed < i
                                                               /\ i <= offered}} :
          /\ offered + new \in Work \cup {0}
          /\ Len(again) <= setbacks
          /\ offered' = offered + new
          /\ setbacks' = setbacks - Len(again)
          /\ LET listed == again \o [i \in 1 .. new |-> offered + i]
                 offer == [i \in DOMAIN listed |-> [id |-> listed[i], age |-> 0]]
                 stale == Expired
                 accepted == Rest(offer, Queued \cup {id \in Work : suppressed[id] # 0})
                 items == Without(stale) \o accepted
                 excess == OverCapacity(items)
             IN  /\ queue' = Rest(items, excess)
                 /\ dropped' = ((dropped \cup stale)
                                \ {item.id : item \in ToSet(accepted)}) \cup excess
                 /\ suppressed' = [id \in Work |->
                       IF id <= offered + new - Listed THEN 0
                       ELSE IF id \in stale \cup excess THEN MaxAge
                       ELSE suppressed[id]]
    /\ runtime' = [runtime EXCEPT !.pc = "press"]
    /\ UNCHANGED <<protected, controlVars, batchVars>>

\* observe_queue_pressure: in live-edge protection every cycle drops all but
\* the live edge, the cycle that enters it included.
Press ==
    /\ RuntimeAt("press")
    /\ ObserveLag(QueueLag) \/ ForgetLag
    /\ IF mode' = "protection" THEN Drop(BehindLiveEdge)
       ELSE UNCHANGED <<queue, suppressed, dropped>>
    /\ runtime' = [runtime EXCEPT !.pc = "pressed"]
    /\ UNCHANGED <<protected, batchVars, offerVars>>

-----------------------------------------------------------------------------
(* The batch thread, another process and time.                             *)

\* The record of an item becomes terminal ...
Settle(id) ==
    /\ id \in batch.todo
    /\ settled' = settled \cup {id}
    /\ batch' = [batch EXCEPT !.todo = @ \ {id}, !.acks = @ \cup {id}]
    /\ UNCHANGED <<queueVars, controlVars, runtime, offerVars>>

\* ... and on_item_completed takes it out of the queue.
Ack(id) ==
    /\ id \in batch.acks
    /\ Acknowledge({id})
    /\ batch' = [batch EXCEPT !.acks = @ \ {id}]
    /\ UNCHANGED <<controlVars, runtime, settled, offerVars>>

\* An item is left as it is: its attempt failed, it is held elsewhere, or the
\* batch stopped before it.
Miss(id) ==
    /\ id \in batch.todo
    /\ setbacks > 0
    /\ setbacks' = setbacks - 1
    /\ batch' = [batch EXCEPT !.todo = @ \ {id}]
    /\ UNCHANGED <<queueVars, controlVars, runtime, settled, offered>>

\* _process_batch's finally: what was not acknowledged is pending again.
BatchEnds ==
    /\ batch.reserved
    /\ batch.todo = {} /\ batch.acks = {}
    /\ protected' = protected \ batch.ids
    /\ batch' = [reserved |-> FALSE, todo |-> {}, acks |-> {}, ids |-> {}]
    /\ UNCHANGED <<queue, suppressed, dropped, controlVars, runtime, settled,
                   offerVars>>

\* Another process of the stream settles a segment this one has queued.
SettledElsewhere(id) ==
    /\ id \in Queued \ (settled \cup batch.ids)
    /\ setbacks > 0
    /\ setbacks' = setbacks - 1
    /\ settled' = settled \cup {id}
    /\ UNCHANGED <<queueVars, controlVars, runtime, batch, offered>>

Lower(a, b) == IF a < b THEN a ELSE b

TimePasses ==
    /\ RuntimeAt("wait") \/ RuntimeAt("poll")
    /\ queue' = [i \in DOMAIN queue |->
                    [queue[i] EXCEPT !.age = Lower(@ + Tick, MaxAge)]]
    /\ suppressed' = [id \in Work |-> IF suppressed[id] < Tick THEN 0
                                      ELSE suppressed[id] - Tick]
    /\ <<queue, suppressed>>' # <<queue, suppressed>>
    /\ UNCHANGED <<protected, dropped, controlVars, runtime, batchVars, offerVars>>

-----------------------------------------------------------------------------
CycleInit ==
    /\ queue = <<>>
    /\ protected = {}
    /\ suppressed = [id \in Work |-> 0]
    /\ mode = "coverage"
    /\ evidence = NoEvidence
    /\ runtime = [pc |-> "wait", round |-> 1, plan |-> {}]
    /\ batch = [reserved |-> FALSE, todo |-> {}, acks |-> {}, ids |-> {}]
    /\ settled = {}
    /\ offered = 0
    /\ setbacks = MaxSetbacks
    /\ dropped = {}
    /\ lags = <<>>

RuntimeStep ==
    \/ Dispatch \/ Plan \/ PlanFails \/ Submit
    \/ PollFails \/ Poll \/ Press

BatchStep ==
    \/ \E id \in Work : Settle(id) \/ Ack(id) \/ Miss(id)
    \/ BatchEnds

CycleNext ==
    \/ RuntimeStep \/ BatchStep \/ TimePasses
    \/ \E id \in Work : SettledElsewhere(id)

\* Both threads run on, and a wait or a download takes time.
CycleFairness ==
    /\ WF_cycleVars(RuntimeStep)
    /\ WF_cycleVars(BatchStep)
    /\ SF_cycleVars(TimePasses)

CycleSpec == CycleInit /\ [][CycleNext]_cycleVars /\ CycleFairness

-----------------------------------------------------------------------------
(* Properties.                                                             *)

\* What was admitted is waiting, settled, or reported as dropped, and never
\* dropped while an analysis thread has it: the plan, the expiry, the capacity
\* and the live-edge protection of one thread against the acknowledgements of
\* the other.  The queue never holds more than max_items, also while batches hold
\* items that capacity may not evict, and holds none twice.
WorkAccounted ==
    /\ Len(queue) <= MaxItems /\ Cardinality(Queued) = Len(queue)
    /\ protected \subseteq Queued
    /\ 1 .. offered \subseteq Queued \cup settled \cup dropped
    /\ batch.todo \cap dropped \subseteq settled
    /\ batch.todo \subseteq protected \cup settled

\* The mode changes only to a neighbour, and only after transition_cycles
\* observations in a row on the far side of the limit that parts the two: one
\* late observation, or late ones with a quiet one between, change nothing.
ModeJustified ==
    [][mode' # mode =>
        LET lag == Append(lags, QueueLag)
            recent == {lag[i] : i \in (Len(lag) - TransitionCycles + 1) .. Len(lag)}
        IN  /\ Len(lag) >= TransitionCycles
            /\ CASE <<mode, mode'>> = <<"coverage", "catch_up">> ->
                      \A l \in recent : l > SoftLag
                 [] <<mode, mode'>> = <<"catch_up", "protection">> ->
                      \A l \in recent : l > HardLag
                 [] <<mode, mode'>> = <<"catch_up", "coverage">> ->
                      \A l \in recent : l < RecoveryLag
                 [] <<mode, mode'>> = <<"protection", "catch_up">> ->
                      \A l \in recent : l < SoftLag
                 [] OTHER -> FALSE]_cycleVars

\* Nothing stays in the queue for ever: once the playlist brings nothing more the
\* queue empties, also when the playlist cannot be loaded, Redis never answers
\* the planner, or the executor takes no batch.
Drains == <>[](queue = <<>>)
=============================================================================
