# A verification project for Live-monitoring

Live-monitoring follows HLS streams, analyses every segment with FFmpeg profiles,
joins the evidence of successive segments into events and publishes alerts. Worker
processes share nothing but Redis. This directory holds TLA+ models of the parts
whose behaviour depends on the order in which threads, processes and Redis calls
meet, the TLC instances that check them, and proofs that hold for instances of any size.

Paths below are relative to the repository (`src/core/...` is `src/src/core/...`
from the directory above this one).

## 1. The system

| Component | State | Operations | Meets |
| --- | --- | --- | --- |
| Segment record and lease (`core/segment_state.py`, `core/redis_scripts.py`) | per segment, processor and revision: status, attempts, lease lock | claim, renew, mark_success / retryable / terminal, relinquish, release | all workers, their heartbeats, Redis expiry |
| Event stores (`checks/*/live_state.py`) | commit marker per segment, event lock per variant, open events, alerts | apply | the workers that lost and took over a claim |
| Profile scheduler and coordinator (`core/profile_scheduler.py`, `core/profile_worker.py`, `core/bounded_executor.py`) | active batches, pending analyses, blocked processors, stop event | dispatch_pending, process_batch, request_stop | poll thread, batch thread, analysis threads, heartbeats |
| Admission queue and controller (`core/segment_admission.py`) | items, protected set, suppression, mode | admit, expire, protect_live_edge, acknowledge, protect, release, observe | poll thread and batch threads |
| Playlist observation (`core/live_polling.py`, `core/playlist_delta.py`) | previous snapshot, timeline generation | observe | other workers through the generation in Redis |
| Live runtime (`core/live_runtime.py`) | stop event | run_forever, run_cycle, stop | session |
| Stream session (`core/stream_session.py`) | status, target status, thread, closed | start, stop, run, close | supervisor's callers |
| Stream supervisor (`core/stream_supervisor.py`) | slot: session, config, desired_running, idle status | add, remove, pause, resume, update, stop_all | command thread and main thread, with the lock dropped around create, start and join |
| Lifecycle control (`app/supervisor_monitoring_control.py`) | a lock per stream | start, pause, resume, stop, update_config | supervisor |
| Command consumer (`app/redis_monitoring_command_consumer.py`) | deferred entries; in Redis the group's pending list, markers, results, dead letters | poll_once, process, finalize | clients, Redis failures, earlier incarnations |
| Desired-state registry and reconciler (`app/persistent_monitoring_command_handler.py`, `app/redis_desired_state_repository.py`, `app/supervisor_desired_state_reconciler.py`) | lifecycle and config of each stream | save, reconcile | consumer, restart |
| Worker runner (`app/monitoring_worker_runner.py`, `live_main.py`) | stop events, threads, shutdown report | run, shutdown (called twice) | everything above |
| Alert lifecycles (`checks/*/event_reducer.py`, `live_state.py`, `repeated_*`, `policies/`) | open event, pending recovery, repeated incident, alerts | reduce, apply | the order of evidence, gaps and timelines |
| Media process gates (`core/media_process_budget.py`) | active count and wait set of each gate | acquire, release, through stream and service gate | analysis threads of all streams |
| Worker heartbeat (`app/worker_heartbeat_service.py`) | stopping latch, one key with a TTL | publish, request_stopping | heartbeat thread, main thread, consumer's readiness |
| Status projection and health (`app/runtime_status_projection_service.py`, `app/redis_runtime_status_projector.py`, `core/runtime_health.py`) | known streams; hash and feed of updates, health key | project_once, remove, publish | supervisor, shutdown, other workers |
| Variant selection (`playlist/master_parser.py`, `core/variant_selector.py`, `core/context.py`) | context of the cycle, registry of active variants | parse, select, load, refresh | origin, every cycle |
| Command submission (`presentation/api/`) | idempotency key, submitted marker | submit, get_command_result | clients, the worker through Redis |
| Alert feed (`presentation/api/adapters/redis_alert_source.py`, `static/js/alert-client.js`) | cursor, seen ids, session token | recent, subscribe, start, stop | the outbox of all stores, lost connections |
| Media playlists' text, media access, profiles, detectors, console, scripts | | | not modelled |

What is hard here:

- a lease can end under a live owner, who finds out only when a script refuses its
  token; between the calls of `claim()` and of `apply()` there is no fence at all;
- the planner, the batch thread and the analysis threads look at the same record and
  queue at different times, and commits must keep the order analyses do not have;
- any Redis call can fail, also after Redis has executed it;
- the supervisor's lock is released while sessions are created, started and joined,
  and joins time out;
- a playlist, the generation it belongs to and the work admitted from it are read at
  three different times, while the origin restarts and the queue drops what is old;
- what the outside sees (status, health, heartbeat, alerts) is written by periodic
  threads and read through two channels that are not one snapshot;
- a command can be delivered again after a failure, a crash or a change of the
  consumer's name, and its effect, its record and its result are three writes.

`PROJECT.json` lists each hazard with the line where it bites and the property that
watches it.

## 2. The modules

```
SegmentStore  <-- EventStore <-- ProfileWorker <-- MCProfileWorker
                                      |       <-- ProfileWorkerProofs
                                      +-- refines SegmentContract
StreamControl   <-- MCStreamControl,   StreamControlProofs
CommandConsumer <-- MCCommandConsumer, CommandConsumerProofs

LiveEvent <-- AlertStore <-- BlackScreen   <--+
                         <-- VideoFreeze   <--+-- AlertLifecycle <-- MCAlertLifecycle
                         <-- AudioLoss     <--+   (one instance of each)
                         <-- Macroblocking <--+
AlertLifecycle, SubsequenceProofs            <-- AlertProofs

PlaylistDelta <-- Timeline <-- MCTimeline, TimelineProofs

LiveCycle, MediaGates, WorkerHeartbeat, StatusProjection,
VariantCycle, CommandRequest, AlertFeed <-- MCComponents

Subsequence <-- LiveCycle, AlertFeed, VariantCycle
            <-- SubsequenceProofs
LiveCycle, MediaGates, SubsequenceProofs     <-- RuntimeProofs
WorkerHeartbeat, StatusProjection, CommandRequest,
AlertFeed, VariantCycle, SubsequenceProofs   <-- EdgeProofs
```

**SegmentStore** is the record in Redis and the effect of each call on it. `lock[s]`
holds the worker whose current claim owns the stored token, `Orphan` for a token
nobody holds any more, or `Free`: tokens are fresh uuids, so no other case exists.
The TTL of a record is left out; it is much longer than the playlist window.

**EventStore** is the commit protocol the four stores share: marker test, event lock,
marker test again, one transaction. What a reducer writes is counted in `hits`.

**ProfileWorker** puts several workers on top: the planner (`PlanRead`, `PlanAct`: two
steps, because the batch thread runs between reading the records and acknowledging),
the filling loop (`SkipBlocked`, `ClaimBusy`, `ClaimLock`, `ClaimRead`, `ClaimReject`,
`ClaimWrite`: a claim is three Redis calls), the analyses, and the commit side (`Pop`
up to `MarkRetryable`). `ClaimFault`, `ApplyFault` and the second disjuncts of the
other calls are failing calls, with and without their effect. A worker stops, crashes
and restarts; a restarted session admits the window again. `SlowCalls` says whether
the few Redis calls of one claim or one apply may outlive their own lease.
Abstractions: one processor per profile, a fixed window, the records of one plan read
at once (the code uses one pipeline), and an executor that has room.

**SegmentContract** is what remains without workers, leases or retries: an effect is
delivered at most once, acceptance follows delivery, a verdict is final.

**StreamControl** is one stream: slot, session objects and threads, the command thread
inside an operation (`cmd.pc` is where the supervisor's lock is dropped), and the main
thread inside `shutdown()`, which `run` and `live_main` both call. `JoinTimedOut` and
`SweepWait` are joins that end before the thread. Heartbeat and projection threads
drain in time. A session object nobody refers to is used again; three exist at most.

**CommandConsumer** is one stream's commands: the Redis stream with the group's pending
list, markers, results, dead letters and the registry, and the command thread
(`stage`). The lifecycle operation is one step with the outcomes the control gives;
StreamControl opens it up (timed-out pauses and updates are only there). One process at
a time; after a crash it comes back under any of the consumer names.

**LiveEvent** is what the four reducers share: a segment, the intervals a detector
found in it, the open event that joins intervals across segments, and the loop that
extends, interrupts and ends events. Time is in ticks longer than the boundary
tolerance; durations are cut off at the alert threshold, the only thing they are
compared with.

**AlertStore** is what a store keeps for one variant: the open event, the canonical
events somebody refers to, the alert that waits for recovery, and per timeline
generation the short events and the repeated incident. A transaction (`Begin`,
`Execute`) collects writes and alerts; reads inside it see Redis as it was.
`RecordShortEvent` is the repeated reducer of black screen and freeze.

**BlackScreen**, **VideoFreeze**, **AudioLoss** and **Macroblocking** are the reducer
and the store of each check: `Reduce` gives the transitions of a segment, `Apply` runs
them through one transaction. **AlertLifecycle** feeds one of them with segments:
the next one (`Observe`), one lost (`Lose`) and perhaps committed late by another worker
(`CommitLate`), one replaced under its number (`Replace`), a discontinuity, a new
generation (`Reset`). `live` is what a reader of the alert stream sees open. That a
commit is atomic and happens once is what EventStore and ProfileWorker show.
Abstractions: segments of one length; no key expires; the program time of an event is
known. The processors keep an unchecked result of black screen and freeze from the
store; the stores accept one, as their tests do, and so does the model.

**PlaylistDelta** is `compare()` and what it rests on: equivalence of two segments
within tolerances, media revisions, missed sequences, the detection of a reset.
**Timeline** is one variant watched by several workers: `Fetch`, `Read` of the
generation in Redis, then `Advance`, `Follow` or their failures are separate steps,
between which the origin slides, restarts or edits its window. A session's memory is
its tracker and ends with it.

**LiveCycle** is the polling thread of one stream in the order of `run_cycle`, the
queue with protection, suppression, capacity and live edge, the mode controller, and
the batch thread. Time passes in ticks while the polling thread waits.

**Subsequence** is the loop of both LiveCycle and AlertFeed that keeps some entries of a
list in their order: what is left in the queue, the alerts of one stream.

**MediaGates** is where batches wait: the executor of each stream with its permits and
its shutdown, and the two gates with their wait sets; `Release` wakes one sleeper, and a
thread that has not slept may take the slot first.

**WorkerHeartbeat** separates what a thread decides from what it publishes; the main
thread publishes STOPPING beside it. **StatusProjection** is the projection thread step
by step (`BeginCycle`, `Read`, `Write`, `Retract`, `EndCycle`), the hash and the feed it
writes, the health key and its alerts; a process dies and comes back under any name.

**VariantCycle** reads a master playlist into variants and renditions with their ids,
selects, loads and registers. Identities are compared, never hashed. Ids are texts put
together as the parser does, sequences of pieces, so that two renditions may get one id;
the media playlists of a cycle arrive in any order, and the context keeps one for each id.
`loaded` is a history of all that arrived.

**CommandRequest** is what lies before CommandConsumer: posts, the submission script,
lost answers, markers that expire, and a result looked up with two reads. Its
`FinishCommand` is all it needs of the worker. **AlertFeed** is what lies behind
AlertStore: the outbox, the history and the subscription of the API, and the browser's
client with its token.

These seven share no state, so **MCComponents** is their sum: `part` says which one a
behaviour is of, the others stay as they begin, and a violation in the sum is one in a
part. That saves runs, not states.

## 3. The runs

| Run | Instance | Properties |
| --- | --- | --- |
| TakeOver | 2 workers, 1 segment, 2 attempts; one failing call, one crash or stop, one lost lease | `TypeOK`, `EffectOnce`, `LocksHaveJobs`, `SettledIsFinal`, `ImplementsContract` |
| OneWorker | 1 worker, 2 segments, serial analysis; expiry of queued work, one failing call, one restart, one lost lease, also of a slow call; with fairness | `SuccessIsCommitted`, `NothingLostSilently`, `WindowOrder`, `EventuallyDone` |
| Contention | 2 workers, 2 segments, 2 parallel analyses | `BatchOrder` |
| Control | 3 configurations (one disabled), 3 session objects; with fairness | `OneLiveSession`, `RunningIsOwned`, `RunsReportedConfig`, `AppliedStopIsQuiet`, `ClosedThenQuiet` |
| Commands | 3 entries, 2 ids, 2 consumer names, batches of 2; one failing call, one crash, one failing start; with fairness | `OneResult`, `AckedIsAnswered`, `ReportedIsRecorded`, `NoOvertaking`, `AllAcked` |
| Alerts | each of 4 checks, 6 segments of 3 ticks with 5 pictures, 2 upsets (loss, late commit, replacement, discontinuity, generation); alerts from 5 ticks, repeated alerts from 2 short events in 9 ticks, recovery after 2 healthy segments | `AlertsHeld`, `RecoveryEnds`, `LongEventReported`, `IncidentHeld`, `NeverRaises`, `NoFalseRecovery` |
| Observation | 2 workers, a window of 2 over sequences 0 to 3, 1 restart, 3 kinds of edit, 1 trouble | `SequenceAccounted`, `ResetSeparates`, `NamesFollow` |
| Components | the seven modules of MCComponents; with fairness for LiveCycle | `WorkAccounted`, `ModeJustified`, `Drains`; `SlotsServed`; `LastWordStopping`; `StatusTold`; `MonitoredAsPromised`, `IdentityKept`; `OneCommandPerKey`, `AnswersAdvance`; `AlertsShown` |
| SilentLoss, SilentResume, OrphanedFreeze, LostAlert | | the findings of section 5 |

Why the bounds are enough. A takeover needs two owners and one segment, and a second
attempt so that a retry and an exhausted budget both occur. Order needs two segments.
One fault, one crash and one lost lease, each at any step, meet each other in every
combination. Replacing a session needs two objects, and a discarded one beside them the
third. A batch, its deferral and one later entry need three entries; two ids give a
repeat and a reuse. An outage takes two segments to be long and one to end; a short one
beside it two more; two healthy ones end a recovery: six segments reach every pair of
these, and two upsets every pair of disturbances. The longest chain, an outage, a gap
and the healthy segments that must end it (`RecoveryEnds` allows two more than the
policy asks for: one ends the event, one follows the gap), needs all six. The pictures
are the ways an interval meets the ends of a segment and another interval. Symmetry is
used in safety runs only.

In Observation a window of two has a part that stays and a part that moves, and one
restart with two workers lets each of them see it first, second or never. In Components
each part has what its hazards need: a queue of two for three segments, with ages that
cross all three lag limits, so that the mode goes up to protection and back, and one
setback (`MaxSetbacks`: an item the batch leaves, a segment offered again, or a record
settled by another process); three threads of one stream and one of another before gates
of two, so that threads sleep at either; two crossings of readiness and one death; one
stream whose status two worker names may write, from any state a process starts with,
with one change, one failing call and one crash; a ladder of four renditions with
repeated heights and three groups of sound, its tokens rotated, its order changed and
parts of it withdrawn, and once sound whose name is another one with a number; three
requests of which two share a key for different things, and two posts; an entry nobody
can read and an alert behind it, two sessions and two connections. The parts were also
run larger: LiveCycle with a playlist that lists two segments (429 thousand states),
MediaGates with three threads of one stream and two of the other (118 thousand),
StatusProjection with two changes and two payloads that are not healthy (232 thousand),
CommandRequest with three posts of two requests (724 thousand).

Deadlock is not checked: windows, command streams and the segments of a playlist are
finite, and a process that shut down stays down.

Fairness. Threads are scheduled, so planner, batch thread, analyses, command thread
and shutdown each get weak fairness; an analysis ends because FFmpeg runs with a
timeout, a join because it has one, and Redis expires keys. A session asked to stop
ends, however late. A stopped or crashed worker is started again by whoever runs it.
Nothing is assumed of failures, commands, signals, or expiry of leases still held.
In LiveCycle the polling thread and the batch thread go on (weak fairness), and time
passes while the former waits or downloads again and again (strong fairness, since it is
not always waiting); nothing is assumed of the playlist, of Redis or of the executor.

Every property of a passing run has a mutant, an operator defined beside the one it
replaces (`LoadWithoutRecheck`, `CompleteUnfenced`, `AcceptDropsSession`, ...), and TLC
finds that property violated with it.

## 4. What is proved

Every theorem below is about the specification itself, for every value of the
constants the named assumptions of its module allow (`WorkerAssumption`,
`ControlAssumption`, `ConsumerAssumption`, `GatesAssumption`, ...: counts are natural
numbers, sets that are counted are finite). Faults, crashes and restarts are bounded by
constants in the models, and the theorems hold for every bound. Each proof module has an
inductive invariant in named parts, one lemma for each action or part, and theorems that
draw the properties of the runs from it. Every invariant was checked with TLC on the
run's instance before it was proved.

| Module | Theorem | Property | Assumes |
| --- | --- | --- | --- |
| ProfileWorkerProofs | `TypeCorrect`, `SuccessCommitted`, `NoLeakedLease` | `TypeOK`, `SuccessIsCommitted`, `LocksHaveJobs` | |
| | `EffectAtMostOnce`, `SettledStays`, `WorkersImplementContract` | `EffectOnce`, `SettledIsFinal`, `ImplementsContract` | `~ SlowCalls` |
| | `EffectsInBatchOrder` | `BatchOrder` | `~ SlowCalls` |
| | `WorkIsKept`, `EffectsInWindowOrder` | `NothingLostSilently`, `WindowOrder` | `Solo` |
| StreamControlProofs | `OneSessionLives`, `RunningSessionsAreOwned`, `SlotReportsTheConfig`, `AppliedStopsAreQuiet` | `OneLiveSession`, `RunningIsOwned`, `RunsReportedConfig`, `AppliedStopIsQuiet` | |
| | `ClosedWithNobodyUnasked` | the safety part of `ClosedThenQuiet` | |
| CommandConsumerProofs | `ResultsAreUnique`, `AckedEntriesAreAnswered`, `ReportsAreRecorded`, `NobodyOvertakes` | `OneResult`, `AckedIsAnswered`, `ReportedIsRecorded`, `NoOvertaking` | |
| AlertProofs | `AlertsAreHeld`, `RecoveriesEnd`, `LongEventsAreReported`, `IncidentsAreHeld`, `NoCommitRaises`, `NoRecoveryIsFalse` | `AlertsHeld`, `RecoveryEnds`, `LongEventReported`, `IncidentHeld`, `NeverRaises`, `NoFalseRecovery` | |
| RuntimeProofs | `ModeChangesAreJustified`, `AdmittedWorkIsAccounted` | `ModeJustified`, `WorkAccounted` | |
| | `SlotsAreServed` | `SlotsServed` | |
| TimelineProofs | `SequencesAreAccounted`, `ResetsSeparate`, `NamesDoFollow` | `SequenceAccounted`, `ResetSeparates`, `NamesFollow` | |
| EdgeProofs | `TheLastWordIsStopping`, `ClosedWorkersLookStopped` | `LastWordStopping`, and what it means at the end | |
| | `TheFeedTellsTheStatus` | `StatusTold` | |
| | `AKeyIsOneCommand`, `TheAnswersAdvance` | `OneCommandPerKey`, `AnswersAdvance` | |
| | `AlertsAreShown` | `AlertsShown` | |
| | `MonitoringIsAsPromised`, `WhatIsLoadedIsListed` | `MonitoredAsPromised`, its part `LoadedIsListed` | |
| | `IdentityIsKept` | `IdentityKept` | `NoTies` |

**The record and the effect** (ProfileWorkerProofs). The argument has two layers. `Core`
is inductive without assumptions: types, one call of the batch thread at a time, no job
outside a batch, a claim that writes has read an attempt left (without it `attempts`
could pass `MaxAttempts`), and `mark` is reached only with the marker. `Fenced` adds what
timely calls give: a worker inside `claim()` holds the segment's lock, a worker past
`EventLock` holds the event lock, a held lock protects a record that is not final, and a
transaction about to run finds no marker. The last fact makes an effect single: markers
are written only under the event lock, whose holder tested the marker after taking it.
The two layers are apart because the code needs them apart. Neither `claim()`'s HSET nor
`apply()`'s transaction compares a token, so a process suspended between two of those
calls for longer than the lease (90 seconds for a segment, 30 for an event lock) can
overwrite a settled record, or write an effect twice: TLC shows both when `SlowCalls` is
TRUE. What survives is `SuccessIsCommitted`, which run OneWorker checks with slow calls
and `SuccessCommitted` proves for any number of workers.

**The order of effects** (ProfileWorkerProofs, second part). Inside a batch (`Ordered`) claims are made
and commits are taken in the order of the segments, whatever order the analyses end in.
That a later effect is never *behind* an earlier one still needs the fenced layer: a
segment the batch passed by must be final (`PassedIsFinal`), and a final record must
stay so (`FinalStays`). Across batches more is needed, and `Solo` names it: one worker,
one analysis at a time, and no fault inside `claim()`. None of the three can be left
out: TLC finds `NothingLostSilently` and `WindowOrder` violated with two workers and with
`Parallel = 2` (SilentLoss.cfg is the latter), and a failing `claim()` sets the stop event
of a session that goes on, which `StopEndsSession` excludes. The invariant `Kept` says
that what the planner may acknowledge is closed for good, also when it is read before
the batch thread runs and acted on after (`PlanIsTrue`).

**The supervisor** (StreamControlProofs). The lock is dropped around every create, start,
stop and join, so what the command thread relies on meanwhile has to survive every step
of shutdown. `Owned` is the centre: a live thread is the slot's session, in the hands of
the command thread, or has been asked to stop by a startup that lost against shutdown.
`Clear`, `Starting` and `Stopping` say what the command thread finds when it takes the
lock again, `Closing` what the main thread has seen. `ClosedWithNobodyUnasked` is what is
left of "nobody uses Redis when it is closed" with the gap of `ClosedWithoutUsers`
(section 5): every session still alive has been asked to stop.

**Commands** (CommandConsumerProofs). The group reads new entries only when nothing is
pending; so all that is pending is the rest of one batch under one consumer name
(`OneBatch`), and what the thread holds or has deferred is its end (`Hands`, `Covers`).
Only the first entry in hand may have been finalized without the process knowing. The
registry may be ahead of the last result, but then the command that wrote it is the next
one to be executed (`RecordedFirst`).

**Alerts** (AlertProofs). What a commit writes is the outcome of three loops: the
intervals of the segment are joined into events, each event becomes transitions, and the
transitions run one after the other through one transaction that reads Redis as it was
before. `AlertInv` speaks only of the state between commits: the fields of the store agree
(`StoreHeld`), so do the store and the alerts a reader has seen (`KnownHeld`), and the
recovery has counted the healthy segments it should have (`Health`). The parts that make
it inductive are not in the properties: an event that was reported has the full length
and no recovery beside it (`OpenHeld`); an event of the black-screen and the freeze store
that begins during a recovery is of its timeline (`Together`), or closing it would
resolve an alert of another one; an alert that waits has its event saved, since resolving
it reads the event and raises when it is gone. Inside a commit the same holds of a
transaction and of the alerts it has published so far (`Settled`), with what a read of
Redis must still find there (`Resolvable`). For each store there is a lemma per
transition, an induction along the transitions (`Midway`), and the three outcomes:
intervals, a healthy segment (`Well`, `HealedStore`), an unchecked one. `RecoveriesEnd`
follows because every healthy segment in a row but the first, which may follow a gap, is
counted, except for the one that closes an event; `NoRecoveryIsFalse` because the
black-screen recovery never counts more than there were. `KnownHeld` is an equality for
three of the checks and an inclusion for the freeze check, whose reader may know an alert
the store has forgotten (OrphanedFreeze).

**Admission** (RuntimeProofs). `EvidenceIsTrue` ties the four counters of the controller
to the end of the list of observed lags; a change of mode is justified from there.
`WorkIsHeld` says of the queue that every segment offered is queued, settled or dropped,
and of the two threads that what one has planned and the other still has to do is queued
or settled, so neither acts on a segment that was forgotten between its reading and its
acting. What a batch protects stays queued whatever expires or is over the limit.

**The gates** (RuntimeProofs). A release wakes one thread, which may find the slot
taken. That no slot stays free in front of sleepers is therefore not a fact about slots
alone: while somebody sleeps, at least as many threads are awake and asking as there are
free slots (`AwakeForFree`). Counts are cardinalities of sets of threads, and each step
moves one thread between two of them.

**Observations** (TimelineProofs). A poll has the playlist, the generation it read and its
own memory from three moments, and the origin and the other workers move between them.
`HeldBy` says what survives that: the session's generation is that of its last
observation, the newest it has used, and never ahead of the persisted one; its last
playlist is numbered without a gap, and so are the numbers it accounts for. From that,
and from what `compare()` says of two windows (`CompareIs`) and what is kept of a segment
(`EnrichedIs`), `ObserveHolds` derives what an observation leaves, once for the two
actions that end in one: `Follow` takes the newer of two generations, and after `Advance`
the generation is beyond the session's own, because the script either found the expected
one and went past it, or found another, which can only be newer.

**The edges** (EdgeProofs). The heartbeat: once the latch is set, what is decided is
STOPPING, and only a beat decided before is under way beside it. The status: what the
process remembers, what the hash holds and what the feed told are three accounts of one
thing, which the projection thread brings together in steps that may each fail; the
invariant says which of them may be ahead of which at each stage. Submission: ids are
used once, a live key holds its receipt, a receipt has its command. The dashboard: from
where the cursor began, what was sent was seen or is under way (`SentOrSeen`), what came
before the connection opened is in the history asked for then (`HistoryCovers`), and an
answer knows which session asked (`FetchesKnowSession`).

**The variants** (EdgeProofs). Most of it is about lists. A repeated base name is
numbered, and the number grows with every place; ids are distinct if no base name is
another one with a number (`NumberedApart`). Names of videos never are
(`VideoVariantsAre`), so every video that was loaded keeps its snapshot and is listed;
names of audio renditions may be, and `LoadedIsListed` excepts them (`PlainNames`). That
no rendition is selected twice rests for audio on the stable ids, which the parser keeps
distinct (`UsedMediaAre`). `sorted()` is a permutation: the rank of a place is a
bijection onto `0 .. n - 1` (`RankedSorts`), and every list that is not empty has a
`max()` (`HighestIs`). `_evenly_spaced` keeps as many as asked for although it builds a
set of rounded indexes: `round()` is at most half away (`RoundNear`), the quotients are
more than one apart, so no two are rounded to one index, and the ends stay ends
(`SpacedApart`, `SpacedEnds`). That a video with its sound in another playlist gets that
sound rests on the parser: only a group that the variant names and that has a playlist
makes its hint "external", and removing duplicates keeps one rendition of every group
(`AudioRenditionsAre`). `IdentityIsKept` compares two selections: sorted without ties,
two lists with the same renditions climb through each other in step (`RankedAlike`), so
the same positions hold the same renditions. `NoTies` says that no two variants of a
master playlist have the same size, bandwidth and path; it is needed, because `sorted()`
and `max()` leave those that tie in the order of the playlist.

**Lists** (SubsequenceProofs). `Pick(q, P)` of Subsequence is what the models use for a
loop that keeps some entries of a list: what remains in the queue, the history of one
stream, the alerts not seen yet. `PickIsTaken` says what it returns: the entries at those
places, each once and in order. It is a recursive function, and what it computes is
proved by induction over the natural numbers in the form `Induct`, for a *set* of
numbers, which follows from the library's fact that `<` is well founded (`NatHasMin`);
the library's own induction theorems take an operator, which no installed prover
instantiates.

Only model-checked. Liveness is out of the proof system's reach: `EventuallyDone`,
`ClosedThenQuiet` (its safety part is proved), `AllAcked`, `Drains`. Every invariant and
every action property of a passing run has a theorem.

## 5. Findings

Each is a run that ends in a counterexample to something the repository says.

- **SilentLoss** (`core/profile_scheduler.py:356`). The planner acknowledges items whose
  record has no attempts left, also one whose last claim is being processed. If that
  claim is given back, `relinquish` refunds the attempt, but the item is in no queue and
  no coverage gap is recorded. It takes parallel analyses, as in the audio profile.
- **SilentResume** (`core/stream_supervisor.py:119`). A pause that timed out leaves the
  ended session in its slot; RESUME and START then report success and start nothing.
- **OrphanedFreeze** (`checks/video_freeze/live_state.py:280`). A short freeze that closes
  while a continuous alert waits for recovery can open a repeated alert, whose recovery
  replaces the pending one; the continuous alert is never resolved. Black screen has a
  guard for it, and `AlertsHeld` holds of the other three checks.
- **LostAlert** (`presentation/api/adapters/redis_alert_source.py:200`). The browser asks
  for the history when its socket opens, the server chooses its cursor when Redis first
  answers; an alert between the two is shown by neither. `AlertsShown` holds with that gap
  left out.

Other predicates the repository's words suggest and the code does not satisfy are
stated in the modules. No run checks them; to see a counterexample put one of them as
the INVARIANT or PROPERTY of the cfg named, with the constant changed where one is:

- `ClosedWithoutUsers` of StreamControl (Control.cfg; `core/stream_supervisor.py:284`): a
  start that loses against shutdown discards its session without looking whether it
  drained; the second shutdown sees no user and closes Redis under its thread.
- `LifeIsDesired` of CommandConsumer (Commands.cfg with `Ids <- ThreeIds`;
  `core/stream_supervisor.py:132`): PAUSE of a stream whose start failed is recorded but
  leaves `desired_running`; the next UPDATE_CONFIG starts the stream.
- `OneAdvancePerReset` of Timeline (Observation.cfg; `core/live_polling.py:145`): a worker
  that polled before a restart reads the generation another one has already advanced;
  its compare-and-set succeeds, and one restart advances the generation twice. Names stay
  apart (`ResetSeparates`), but work may be done again under the newer one.
- `EventuallyDone` of ProfileWorker (OneWorker.cfg with `"claim"` in `FaultSites`;
  `core/profile_worker.py:158`): one failing `claim()` sets the coordinator's stop event
  for good, and the session stays up and processes nothing more.

Observations without a predicate of their own:

- `app/worker_heartbeat_service.py:89` says no later heartbeat can return to READY; one
  decided before the latch may still be written after STOPPING. `LastWordStopping`
  states what holds.
- After a crash the statuses of streams that are not taken up again stay in the hash
  (it has no TTL), and a worker under another name does not retract them; after an
  orderly shutdown the last statuses stay too, by design of the last cycle. A stream
  that degrades, is paused past the TTL of its health, or fails to publish it for
  so long, and comes back healthy is never reported RECOVERED (`lapsed` in StatusProjection).
- Two health alerts of equal payload have equal ids, and the dashboard takes the second
  for a repetition.
- Explicit variant ids may be positions (`variant_0`, `720p_2`), which change with the
  order of the master playlist; `IdentityKept` leaves such policies out. Two variants
  that differ in nothing but their audio group have one stable id and tie in
  `_quality_key`: when the origin swaps them, another audio rendition is selected (a
  master playlist with two such entries makes TLC find `IdentityKept` violated; the
  instance has none, and `NoTies` excludes them from the theorem). A selection
  that fails ends the session for good (`run_forever` catches no `ValueError`).
- The number that makes a repeated name unique may make it another rendition's name: three
  audio renditions `en`, `en` and `en_2` of one group get the ids `audio:g:en`,
  `audio:g:en_2` and `audio:g:en_2` (`playlist/master_parser.py:322-327`, where only base
  names are counted). `core/context.py:127` keeps one snapshot for each id, so one of the
  two is neither listed nor processed, and which one depends on which playlist arrives
  last. Without its exception for such names TLC finds `MonitoredAsPromised` violated in the
  master playlist of MCComponents that has them.
- Once its submission has expired, a lookup says 404 for a command that still waits in
  the stream.

## 6. Plan

1. A second consumer in CommandConsumer: claims of entries whose handler is still busy.
2. ProfileWorker's queue as an abstraction of LiveCycle's, by refinement.

`NoFalseRecovery` is stated for black
screen only: closing a freeze keeps the count of healthy segments, and a macroblocking
event that opens and closes within a segment does not touch it, so with
`recovery_healthy_segments` above its default of 1 they resolve after healthy segments
that are not in a row.

## 7. Not modelled

FFmpeg profiles, detectors and media access (signal processing behind one analysis
step), the text of media playlists, codecs and payloads (layout inside one transaction;
where damage is handled, an entry is readable or not), a media playlist without segments
(`core/playlist_delta.py:484`; the modelled origin always serves a window), the expiry
of event keys, metrics and telemetry numbers, the parsing of configurations, reading a
status and rendering it, the fake adapters of the API, console and scripts.

## 8. Running

    tlc -workers 2 -config TakeOver.cfg MCProfileWorker
    tlc -workers 2 -config Control.cfg MCStreamControl
    tlc -workers 2 -config Commands.cfg MCCommandConsumer
    tlc -workers 2 -config Alerts.cfg MCAlertLifecycle
    tlc -workers 2 -config Observation.cfg MCTimeline
    tlc -workers 2 -config Components.cfg MCComponents
    tlapm M.tla      for each proof module M: ProfileWorkerProofs, StreamControlProofs,
                     CommandConsumerProofs, AlertProofs, RuntimeProofs,
                     TimelineProofs, EdgeProofs, SubsequenceProofs
