-------------------------- MODULE StatusProjection --------------------------
(***************************************************************************)
(* What the outside reads of the streams of a worker: the status of each   *)
(* stream, which the projection thread keeps in a Redis hash and announces *)
(* in a feed of updates, and the health alerts of the monitoring cycles,   *)
(* while the streams change, Redis fails, and the process is shut down or  *)
(* dies.  How the streams change is StreamControl's subject.               *)
(*                                                                         *)
(* Sources: src/src/app/runtime_status_projection_service.py,              *)
(* redis_runtime_status_projector.py, supervisor_runtime_status.py,        *)
(* monitoring_worker_runner.py, src/src/core/runtime_health.py and its     *)
(* script in redis_scripts.py.                                             *)
(***************************************************************************)
EXTENDS Integers, FiniteSets

CONSTANTS
    StreamIds,
    WorkerIds,          \* names a process may be started under
    None,
    MaxChanges,         \* bound: changes of the streams' states
    MaxTrouble,         \* bound: failing Redis calls
    MaxCrashes          \* bound: crashes of the process

ASSUME ProjectionAssumption ==
    /\ WorkerIds # {} /\ None \notin WorkerIds
    /\ None \notin {"RUNNING", "PAUSED", "FAILED", "STOPPING", "STOPPED",
                    "HEALTHY", "DEGRADED"}
    /\ {MaxChanges, MaxTrouble, MaxCrashes} \subseteq Nat

VARIABLES
    me,             \* name of the running process, None after a crash
    stage,          \* how far the main thread is with the shutdown
    slots,          \* stream -> state of its session in the supervisor, None if
                    \* there is no slot
    projection,     \* projection thread: pc, whether it is in its last cycle, the
                    \* streams of the cycle, those still to do, the status read,
                    \* and the removals that failed
    known,          \* _known_stream_ids
    hash,           \* Redis: stream -> its current status
    told,           \* history: what the feed of updates adds up to
    mine,           \* history: streams whose status this process has written
    clean,          \* history: no projection of this cycle failed
    health,         \* Redis: stream -> payload of its health
    alert,          \* history: stream -> state of its last health alert
    lapsed,         \* history: streams whose health expired while degraded
    changes, trouble, crashes

projectionVars == <<projection, known, hash, told, mine, clean>>
healthVars == <<health, alert, lapsed>>
statusVars == <<me, stage, slots, projectionVars, healthVars,
                changes, trouble, crashes>>

LifeStates == {"RUNNING", "PAUSED", "FAILED"}

\* The sessions a process starts with, by the registry of desired states.
Adopted == [StreamIds -> {"RUNNING", "PAUSED", None}]
\* A change among payloads that are not healthy announces DEGRADED once more, and
\* leaves all else as it is: one of them stands for all.
Payloads == {"HEALTHY", "DEGRADED"}
Up == me # None
Fails == /\ trouble > 0
         /\ trouble' = trouble - 1

-----------------------------------------------------------------------------
(* The streams and their health.                                           *)

\* A stream is registered, changes its state, or is removed.
Change(s) ==
    /\ Up /\ changes > 0 /\ stage = "run"
    /\ changes' = changes - 1
    /\ \E state \in (LifeStates \cup {None}) \ {slots[s]} :
          slots' = [slots EXCEPT ![s] = state]
    /\ UNCHANGED <<me, stage, projectionVars, healthVars, trouble, crashes>>

\* PUBLISH_RUNTIME_HEALTH: the first healthy payload says nothing.
HealthAlert(s, payload) ==
    IF payload # "HEALTHY" THEN "DEGRADED"
    ELSE IF health[s] # None THEN "RECOVERED" ELSE alert[s]

\* publish and publish_failure: an equal payload only renews the key.
PublishHealth(s, payload) ==
    /\ Up /\ slots[s] = "RUNNING"
    /\ payload # health[s]
    /\ health' = [health EXCEPT ![s] = payload]
    /\ alert' = [alert EXCEPT ![s] = HealthAlert(s, payload)]
    /\ lapsed' = IF payload # "HEALTHY" \/ health[s] # None THEN lapsed \ {s} ELSE lapsed
    /\ UNCHANGED <<me, stage, slots, projectionVars, changes, trouble, crashes>>

\* health_ttl_seconds without a publication: no session runs, or its calls fail.
HealthExpires(s) ==
    /\ health[s] # None
    /\ health' = [health EXCEPT ![s] = None]
    /\ lapsed' = IF health[s] # "HEALTHY" THEN lapsed \cup {s} ELSE lapsed
    /\ UNCHANGED <<me, stage, slots, projectionVars, alert,
                   changes, trouble, crashes>>

\* SupervisorRuntimeStatusReader.get: telemetry counts for a running session
\* only, and only if Redis answers.
Reads(s) ==
    IF slots[s] # "RUNNING"
    THEN {[life |-> slots[s], worker |-> me,
           health |-> IF slots[s] = "FAILED" THEN "UNHEALTHY" ELSE "UNKNOWN"]}
    ELSE {[life |-> "RUNNING", worker |-> me, health |-> h] : h \in
             {IF health[s] = None THEN "UNKNOWN"
              ELSE IF health[s] = "HEALTHY" THEN "HEALTHY" ELSE "DEGRADED"}
             \cup IF trouble > 0 THEN {"UNKNOWN"} ELSE {}}

-----------------------------------------------------------------------------
(* The projection thread.                                                  *)

ProjectionAt(pc) == Up /\ projection.pc = pc

\* project_once begins: the streams of this cycle.
BeginCycle ==
    /\ ProjectionAt("cycle")
    /\ projection' = [projection EXCEPT
          !.pc = "read", !.ids = {s \in StreamIds : slots[s] # None},
          !.todo = {s \in StreamIds : slots[s] # None}, !.failed = {}]
    /\ clean' = TRUE
    /\ UNCHANGED <<me, stage, slots, known, hash, told, mine, healthVars,
                   changes, trouble, crashes>>

\* reader.get: a stream removed meanwhile is passed over.
Read(s) ==
    /\ ProjectionAt("read") /\ s \in projection.todo
    /\ IF slots[s] = None
       THEN projection' = [projection EXCEPT !.todo = @ \ {s}]
       ELSE \E status \in Reads(s) :
               projection' = [projection EXCEPT !.todo = @ \ {s}, !.pc = "write",
                                                !.stream = s, !.status = status]
    /\ UNCHANGED <<me, stage, slots, known, hash, told, mine, clean, healthVars,
                   changes, trouble, crashes>>

\* Mutant: a status that differs only in the worker is not announced.
AnnouncesOtherWorker(s, status) ==
    hash[s] = None \/ (hash[s].life # status.life \/ hash[s].health # status.health)

\* An update is announced if anything but the time of observation differs.
Announces(s, status) == hash[s] # status

\* RedisRuntimeStatusProjector.project: the hash and the feed in one
\* transaction, or the hash alone.
Write ==
    /\ ProjectionAt("write")
    /\ LET s == projection.stream IN
          \/ /\ hash' = [hash EXCEPT ![s] = projection.status]
             /\ told' = IF Announces(s, projection.status)
                        THEN [told EXCEPT ![s] = projection.status]
                        ELSE told
             /\ mine' = mine \cup {s}
             /\ \/ UNCHANGED <<trouble, clean>>
                \/ Fails /\ clean' = FALSE      \* only the answer is lost
          \/ /\ Fails /\ clean' = FALSE
             /\ UNCHANGED <<hash, told, mine>>
    /\ projection' = [projection EXCEPT !.pc = "read", !.stream = None, !.status = None]
    /\ UNCHANGED <<me, stage, slots, known, healthVars, changes, crashes>>

Removed == (known \ projection.ids) \ projection.gone

\* remove: the feed and the hash in one transaction, if the status in the hash
\* is this worker's.
Retract(s) ==
    /\ ProjectionAt("read") /\ projection.todo = {} /\ s \in Removed
    /\ \/ /\ IF hash[s] # None /\ hash[s].worker = me
             THEN /\ hash' = [hash EXCEPT ![s] = None]
                  /\ told' = [told EXCEPT ![s] = None]
             ELSE UNCHANGED <<hash, told>>
          /\ mine' = mine \ {s}
          /\ \/ projection' = [projection EXCEPT !.gone = @ \cup {s}] /\ UNCHANGED trouble
             \/ Fails /\ projection' = [projection EXCEPT !.gone = @ \cup {s},
                                                          !.failed = @ \cup {s}]
       \/ /\ Fails
          /\ projection' = [projection EXCEPT !.gone = @ \cup {s},
                                              !.failed = @ \cup {s}]
          /\ UNCHANGED <<hash, told, mine>>
    /\ UNCHANGED <<me, stage, slots, known, clean, healthVars, changes, crashes>>

\* Mutant: a removal that failed is not tried again.
KnownForgetsFailed == projection.ids

\* The streams to look for in the next cycle.
KnownNext == projection.ids \cup projection.failed

EndCycle ==
    /\ ProjectionAt("read") /\ projection.todo = {} /\ Removed = {}
    /\ known' = KnownNext
    /\ projection' = [projection EXCEPT !.pc = IF projection.last THEN "done" ELSE "wait",
                                        !.gone = {}, !.failed = {}, !.ids = {}]
    /\ UNCHANGED <<me, stage, slots, hash, told, mine, clean, healthVars,
                   changes, trouble, crashes>>

\* run: the interval passes or somebody wakes the thread; once stopped, one more
\* cycle captures the last states.
WaitEnds ==
    /\ ProjectionAt("wait")
    /\ projection' = [projection EXCEPT !.pc = "cycle",
                         !.last = stage \in {"projectionStopped", "closed"}]
    /\ UNCHANGED <<me, stage, slots, known, hash, told, mine, clean, healthVars,
                   changes, trouble, crashes>>

-----------------------------------------------------------------------------
(* The main thread and the process.                                        *)

\* _shutdown_locked, steps 2 and 3: commands and streams end; a session may not
\* drain in time.
StopStreams ==
    /\ Up /\ stage = "run"
    /\ stage' = "streamsStopped"
    /\ \E late \in SUBSET {s \in StreamIds : slots[s] = "RUNNING"} :
          slots' = [s \in StreamIds |-> IF s \in late THEN "STOPPING"
                                      ELSE IF slots[s] \in {"RUNNING", "FAILED"}
                                      THEN "STOPPED" ELSE slots[s]]
    /\ UNCHANGED <<me, projectionVars, healthVars, changes, trouble, crashes>>

\* A session ends after the time for it was up.
DrainLate(s) ==
    /\ Up /\ slots[s] = "STOPPING"
    /\ slots' = [slots EXCEPT ![s] = "STOPPED"]
    /\ UNCHANGED <<me, stage, projectionVars, healthVars, changes, trouble, crashes>>

\* Step 4: the thread is woken and told to stop.
StopProjection ==
    /\ Up /\ stage = "streamsStopped"
    /\ stage' = "projectionStopped"
    /\ UNCHANGED <<me, slots, projectionVars, healthVars, changes, trouble, crashes>>

\* Step 6: Redis is closed when nobody uses it any more.
CloseClient ==
    /\ Up /\ stage = "projectionStopped"
    /\ projection.pc = "done" /\ \A s \in StreamIds : slots[s] # "STOPPING"
    /\ stage' = "closed"
    /\ UNCHANGED <<me, slots, projectionVars, healthVars, changes, trouble, crashes>>

Idle == [pc |-> "cycle", last |-> FALSE, ids |-> {}, todo |-> {}, gone |-> {},
         failed |-> {}, stream |-> None, status |-> None]

\* The process dies, and what it knew with it ...
Crash ==
    /\ Up /\ crashes > 0
    /\ crashes' = crashes - 1
    /\ me' = None /\ stage' = "run"
    /\ slots' = [s \in StreamIds |-> None]
    /\ projection' = Idle
    /\ known' = {} /\ mine' = {}
    /\ UNCHANGED <<hash, told, clean, healthVars, changes, trouble>>

\* ... and another is started, under the same name or another, with the streams
\* its registry holds.
Restart ==
    /\ ~Up
    /\ me' \in WorkerIds /\ slots' \in Adopted
    /\ UNCHANGED <<stage, projectionVars, healthVars, changes, trouble, crashes>>

-----------------------------------------------------------------------------
StatusInit ==
    /\ me \in WorkerIds
    /\ stage = "run"
    /\ slots \in Adopted
    /\ projection = Idle
    /\ known = {}
    /\ hash = [s \in StreamIds |-> None] /\ told = [s \in StreamIds |-> None]
    /\ mine = {} /\ clean = TRUE
    /\ health = [s \in StreamIds |-> None] /\ alert = [s \in StreamIds |-> None]
    /\ lapsed = {}
    /\ changes = MaxChanges /\ trouble = MaxTrouble /\ crashes = MaxCrashes

StatusNext ==
    \/ \E s \in StreamIds :
          \/ Change(s) \/ DrainLate(s) \/ HealthExpires(s) \/ Read(s) \/ Retract(s)
          \/ \E payload \in Payloads : PublishHealth(s, payload)
    \/ BeginCycle \/ Write \/ EndCycle \/ WaitEnds
    \/ StopStreams \/ StopProjection \/ CloseClient \/ Crash \/ Restart

StatusSpec == StatusInit /\ [][StatusNext]_statusVars

-----------------------------------------------------------------------------
(* Properties.                                                             *)

\* A stream that is healthy has no open health alert, unless its health expired
\* in the meantime: then the first healthy payload finds nothing to recover from.
HealthAlertsEnd ==
    \A s \in StreamIds : (health[s] = "HEALTHY" /\ alert[s] = "DEGRADED") => s \in lapsed

\* Whoever follows the feed of updates knows what the hash holds, the worker
\* included; a status this process has written stays until the stream goes, and
\* is then retracted, however often that fails; and once the last cycle has gone
\* well the hash holds the last states.
StatusTold ==
    /\ told = hash
    /\ Up => mine \subseteq known \cup projection.ids
    /\ (Up /\ projection.pc = "done" /\ clean) =>
          \A s \in StreamIds : slots[s] # None =>
              \/ hash[s].life = slots[s]
              \/ hash[s].life = "STOPPING" /\ slots[s] = "STOPPED"
    /\ HealthAlertsEnd
=============================================================================
