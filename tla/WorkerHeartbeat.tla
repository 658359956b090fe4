--------------------------- MODULE WorkerHeartbeat ---------------------------
(***************************************************************************)
(* The heartbeat of a worker process: one key with a TTL, published by the *)
(* heartbeat thread and, once the process shuts down, by the main thread   *)
(* too, while the command consumer gains and loses Redis, publications     *)
(* fail, and the process dies and is started again.                        *)
(*                                                                         *)
(* Sources: src/src/app/worker_heartbeat_service.py,                       *)
(* redis_worker_heartbeat_publisher.py and monitoring_worker_runner.py.    *)
(***************************************************************************)
EXTENDS Integers

CONSTANTS
    NoBeat,             \* there is no heartbeat
    MaxSilences,        \* bound: failing publications
    MaxFlaps,           \* bound: times the consumer loses Redis
    MaxDeaths           \* bound: crashes of the process

ASSUME HeartbeatAssumption == {MaxSilences, MaxFlaps, MaxDeaths} \subseteq Nat

VARIABLES
    main,       \* how far the main thread is with the shutdown; "down" after a crash
    ready,      \* command_consumer.is_ready
    beat,       \* heartbeat thread: pc, the state it is about to publish,
                \* _has_published_ready, and (history) whether the stop was
                \* latched when it decided
    latch,      \* _stopping_event
    key,        \* the heartbeat in Redis, NoBeat if there is none
    silent,     \* the last publication failed
    troubles, flaps, deaths

heartbeatVars == <<main, ready, beat, latch, key, silent, troubles, flaps, deaths>>

NewBeat == [pc |-> "start", state |-> NoBeat, everReady |-> FALSE, latched |-> FALSE]

Stopped == main \in {"stopped", "closed"}       \* _heartbeat_stop_event

-----------------------------------------------------------------------------
\* Mutant: a latched stop is noticed only while the consumer is not ready.
EvaluateReadyFirst ==
    IF ready THEN "READY"
    ELSE IF latch THEN "STOPPING"
    ELSE IF beat.everReady THEN "DEGRADED" ELSE "STARTING"

\* _evaluate_state of a command worker.
Evaluate ==
    IF latch THEN "STOPPING"
    ELSE IF ready THEN "READY"
    ELSE IF beat.everReady THEN "DEGRADED" ELSE "STARTING"

\* publish: a pipeline that fails as a whole, or only loses its answer.
Publish(state) ==
    \/ key' = state /\ silent' = FALSE /\ UNCHANGED troubles
    \/ /\ troubles > 0
       /\ troubles' = troubles - 1
       /\ silent' = TRUE
       /\ key' \in {key, state}

\* run decides what to publish: first STARTING, or STOPPING if that is latched
\* already; then what it finds after each interval; STOPPING in the end.
Decide ==
    \/ /\ beat.pc = "start" /\ main # "down"
       /\ beat' = [beat EXCEPT !.pc = "publish", !.latched = latch,
                               !.state = IF latch THEN "STOPPING" ELSE "STARTING"]
       /\ UNCHANGED <<main, ready, latch, key, silent, troubles, flaps, deaths>>
    \/ /\ beat.pc = "wait" /\ ~Stopped
       /\ beat' = [beat EXCEPT !.pc = "publish", !.latched = latch, !.state = Evaluate]
       /\ UNCHANGED <<main, ready, latch, key, silent, troubles, flaps, deaths>>
    \/ /\ beat.pc = "wait" /\ Stopped
       /\ beat' = [beat EXCEPT !.pc = "last", !.latched = TRUE, !.state = "STOPPING"]
       /\ latch' = TRUE
       /\ UNCHANGED <<main, ready, key, silent, troubles, flaps, deaths>>

\* publish_heartbeat of the thread.
Beat ==
    /\ beat.pc \in {"publish", "last"}
    /\ Publish(beat.state)
    /\ beat' = [beat EXCEPT !.pc = IF beat.pc = "last" THEN "done" ELSE "wait",
                            !.state = NoBeat,
                            !.everReady = @ \/ (beat.state = "READY" /\ ~silent')]
    /\ UNCHANGED <<main, ready, latch, flaps, deaths>>

\* The consumer finds its group, or loses Redis.
Readiness ==
    /\ main \in {"run", "latched", "told"}
    /\ ready' = ~ready
    /\ ready => flaps > 0
    /\ flaps' = IF ready THEN flaps - 1 ELSE flaps
    /\ UNCHANGED <<main, beat, latch, key, silent, troubles, deaths>>

\* The TTL covers several intervals, so a heartbeat expires only when nobody
\* publishes, or in vain.
BeatExpires ==
    /\ key # NoBeat
    /\ silent \/ main = "down" \/ beat.pc = "done"
    /\ key' = NoBeat
    /\ UNCHANGED <<main, ready, beat, latch, silent, troubles, flaps, deaths>>

-----------------------------------------------------------------------------
\* _shutdown_locked, step 1: latch the stop ...
Latch ==
    /\ main = "run"
    /\ main' = "latched" /\ latch' = TRUE
    /\ UNCHANGED <<ready, beat, key, silent, troubles, flaps, deaths>>

\* ... and publish it.
TellStopping ==
    /\ main = "latched"
    /\ main' = "told"
    /\ Publish("STOPPING")
    /\ UNCHANGED <<ready, beat, latch, flaps, deaths>>

\* Steps 2 to 5: the consumer, the streams and the projection end, or their time
\* is up, and the thread is told to stop.
StopBeat ==
    /\ main = "told"
    /\ main' = "stopped" /\ ready' = FALSE
    /\ UNCHANGED <<beat, latch, key, silent, troubles, flaps, deaths>>

\* Step 6: the client is closed when the thread has ended.
Close ==
    /\ main = "stopped" /\ beat.pc = "done"
    /\ main' = "closed"
    /\ UNCHANGED <<ready, beat, latch, key, silent, troubles, flaps, deaths>>

\* The process dies, and what it knew with it ...
ProcessDies ==
    /\ main \notin {"down", "closed"} /\ deaths > 0
    /\ main' = "down" /\ deaths' = deaths - 1
    /\ ready' = FALSE /\ latch' = FALSE /\ beat' = NewBeat
    /\ UNCHANGED <<key, silent, troubles, flaps>>

\* ... and is started again under its name.
ProcessStarts ==
    /\ main = "down"
    /\ main' = "run"
    /\ UNCHANGED <<ready, beat, latch, key, silent, troubles, flaps, deaths>>

-----------------------------------------------------------------------------
HeartbeatInit ==
    /\ main = "run" /\ ready = FALSE /\ latch = FALSE
    /\ beat = NewBeat
    /\ key = NoBeat /\ silent = FALSE
    /\ troubles = MaxSilences /\ flaps = MaxFlaps /\ deaths = MaxDeaths

HeartbeatNext ==
    \/ Decide \/ Beat \/ Readiness \/ BeatExpires
    \/ Latch \/ TellStopping \/ StopBeat \/ Close
    \/ ProcessDies \/ ProcessStarts

HeartbeatSpec == HeartbeatInit /\ [][HeartbeatNext]_heartbeatVars

\* Two threads publish the heartbeat of one worker: a READY decided before the
\* stop was latched may still land after the main thread's STOPPING, but whatever
\* is decided later says STOPPING, and so does the last word.
LastWordStopping ==
    (beat.latched /\ beat.pc \in {"wait", "done"} /\ ~silent) =>
        key \in {"STOPPING", NoBeat}
=============================================================================
