------------------------------ MODULE EdgeProofs ------------------------------
(***************************************************************************)
(* Proofs about the edges of the system, each for every value of its       *)
(* constants: what a worker process tells the outside, its heartbeat       *)
(* (WorkerHeartbeat) and the status of its streams (StatusProjection),     *)
(* what the API promises its clients (CommandRequest), what a dashboard    *)
(* shows of the alerts (AlertFeed), and which variants of a stream are     *)
(* monitored (VariantCycle).                                               *)
(***************************************************************************)
EXTENDS WorkerHeartbeat, StatusProjection, CommandRequest, AlertFeed,
        VariantCycle, SubsequenceProofs

-----------------------------------------------------------------------------
(* The heartbeat.                                                          *)

BeatStates == {NoBeat, "STARTING", "READY", "DEGRADED", "STOPPING"}

Beats == [pc : {"start", "publish", "wait", "last", "done"},
          state : BeatStates, everReady : BOOLEAN, latched : BOOLEAN]

HeartbeatTypes ==
    /\ main \in {"run", "latched", "told", "stopped", "closed", "down"}
    /\ beat \in Beats
    /\ ready \in BOOLEAN /\ latch \in BOOLEAN /\ silent \in BOOLEAN
    /\ key \in BeatStates
    /\ troubles \in Nat /\ flaps \in Nat /\ deaths \in Nat

\* What was decided after the stop was latched is STOPPING, and so is the last
\* word; the latch outlives the decision, and the client the last word.
DecidedStopping ==
    /\ beat.latched => latch
    /\ beat.pc \in {"last", "done"} => beat.latched
    /\ (beat.latched /\ beat.pc \in {"publish", "last"}) => beat.state = "STOPPING"
    /\ main = "closed" => beat.pc = "done"

HeartbeatInv == DecidedStopping /\ LastWordStopping

\* The heartbeat begins with nothing published and nothing latched.
LEMMA HeartbeatBegins == HeartbeatInit => HeartbeatTypes /\ HeartbeatInv
<1>1. NewBeat \in Beats /\ NewBeat.pc = "start" /\ ~ NewBeat.latched
  BY DEF NewBeat, BeatStates, Beats
<1>2. MaxSilences \in Nat /\ MaxFlaps \in Nat /\ MaxDeaths \in Nat
  BY HeartbeatAssumption
<1> QED BY <1>1, <1>2 DEF HeartbeatInit, BeatStates, HeartbeatTypes, HeartbeatInv,
           DecidedStopping, LastWordStopping

\* A publication that is answered leaves its state in Redis, one that is not
\* leaves it silent.
LEMMA PublishKeeps ==
    ASSUME HeartbeatTypes, NEW STATE state, state \in BeatStates, Publish(state)
    PROVE  /\ key' \in BeatStates /\ silent' \in BOOLEAN /\ troubles' \in Nat
           /\ ~ silent' => key' = state
<1>1. CASE key' = state /\ silent' = FALSE /\ UNCHANGED troubles
  BY <1>1 DEF HeartbeatTypes
<1>2. CASE /\ troubles > 0
           /\ troubles' = troubles - 1
           /\ silent' = TRUE
           /\ key' \in {key, state}
  BY <1>2 DEF HeartbeatTypes
<1> QED BY <1>1, <1>2 DEF Publish

\* Each step of either thread keeps the types and the invariant.
LEMMA HeartbeatStep ==
    ASSUME HeartbeatTypes, HeartbeatInv, [HeartbeatNext]_heartbeatVars
    PROVE  HeartbeatTypes' /\ HeartbeatInv'
<1> USE DEF Beats, HeartbeatInv, HeartbeatTypes, DecidedStopping, LastWordStopping
<1>1. CASE Decide
  <2>0. Evaluate \in BeatStates /\ (latch => Evaluate = "STOPPING")
    BY DEF Evaluate, BeatStates
  <2>1. CASE beat.pc = "start" /\ beat' = [beat EXCEPT !.pc = "publish", !.latched = latch,
                               !.state = IF latch THEN "STOPPING" ELSE "STARTING"]
             /\ UNCHANGED latch
    BY <1>1, <2>1 DEF Decide, BeatStates
  <2>2. CASE beat.pc = "wait" /\ ~Stopped
             /\ beat' = [beat EXCEPT !.pc = "publish", !.latched = latch, !.state = Evaluate]
             /\ UNCHANGED latch
    BY <1>1, <2>0, <2>2 DEF Decide, Stopped
  <2>3. CASE beat.pc = "wait" /\ Stopped
             /\ beat' = [beat EXCEPT !.pc = "last", !.latched = TRUE, !.state = "STOPPING"]
             /\ latch' = TRUE
    BY <1>1, <2>3 DEF Decide, BeatStates
  <2> QED BY <1>1, <2>1, <2>2, <2>3 DEF Decide
<1>2. CASE Beat
  <2>1. /\ key' \in BeatStates /\ silent' \in BOOLEAN /\ troubles' \in Nat
        /\ ~ silent' => key' = beat.state
    BY <1>2, PublishKeeps DEF Beat
  <2> QED BY <1>2, <2>1 DEF Beat, BeatStates
<1>3. CASE Readiness
  BY <1>3 DEF Readiness
<1>4. CASE BeatExpires
  BY <1>4 DEF BeatExpires, BeatStates
<1>5. CASE Latch
  BY <1>5 DEF Latch
<1>6. CASE TellStopping
  <2>1. /\ key' \in BeatStates /\ silent' \in BOOLEAN /\ troubles' \in Nat
        /\ ~ silent' => key' = "STOPPING"
    BY <1>6, PublishKeeps DEF TellStopping, BeatStates
  <2> QED BY <1>6, <2>1 DEF TellStopping
<1>7. CASE StopBeat \/ Close
  BY <1>7 DEF StopBeat, Close
<1>8. CASE ProcessDies \/ ProcessStarts
  <2>1. NewBeat \in Beats /\ NewBeat.pc = "start" /\ ~ NewBeat.latched
    BY DEF NewBeat, BeatStates, Beats
  <2>2. CASE ProcessDies
    <3>1. deaths' \in Nat
      BY <2>2 DEF ProcessDies
    <3>2. beat' = NewBeat /\ main' = "down" /\ latch' = FALSE /\ ready' = FALSE
          /\ UNCHANGED <<key, silent, troubles, flaps>>
      BY <2>2 DEF ProcessDies
    <3>3. HeartbeatTypes'
      BY <2>1, <3>1, <3>2
    <3> QED BY <2>1, <3>2, <3>3
  <2>3. CASE ProcessStarts
    BY <2>3 DEF ProcessStarts
  <2> QED BY <1>8, <2>2, <2>3
<1>9. CASE UNCHANGED heartbeatVars
  BY <1>9 DEF heartbeatVars
<1> QED BY <1>1, <1>2, <1>3, <1>4, <1>5, <1>6, <1>7, <1>8, <1>9 DEF HeartbeatNext

\* The types and the invariant hold from the start on.
THEOREM HeartbeatHolds == HeartbeatSpec => [](HeartbeatTypes /\ HeartbeatInv)
BY HeartbeatBegins, HeartbeatStep, PTL DEF HeartbeatSpec

\* Two threads publish the heartbeat of one worker: after a stop was latched,
\* nothing but STOPPING is decided, and it is the last word.
THEOREM TheLastWordIsStopping == HeartbeatSpec => []LastWordStopping
BY HeartbeatHolds, PTL DEF HeartbeatInv

\* When the client has been closed, a worker is known to be stopping or not known
\* at all, unless its last publication failed.
THEOREM ClosedWorkersLookStopped ==
    HeartbeatSpec => [](main = "closed" /\ ~silent => key \in {"STOPPING", NoBeat})
<1>1. HeartbeatInv => (main = "closed" /\ ~silent => key \in {"STOPPING", NoBeat})
  BY DEF HeartbeatInv, DecidedStopping, LastWordStopping
<1> QED BY <1>1, HeartbeatHolds, PTL

-----------------------------------------------------------------------------
(* The status of the streams.                                              *)

SlotStates == {"RUNNING", "PAUSED", "FAILED", "STOPPING", "STOPPED", None}
Statuses == [life : SlotStates, worker : WorkerIds \cup {None},
             health : {"UNKNOWN", "HEALTHY", "DEGRADED", "UNHEALTHY"}]
Projections ==
    [pc : {"cycle", "read", "write", "wait", "done"}, last : BOOLEAN,
     ids : SUBSET StreamIds, todo : SUBSET StreamIds, gone : SUBSET StreamIds,
     failed : SUBSET StreamIds, stream : StreamIds \cup {None},
     status : Statuses \cup {None}]

ProjectionTypes ==
    /\ me \in WorkerIds \cup {None}
    /\ stage \in {"run", "streamsStopped", "projectionStopped", "closed"}
    /\ slots \in [StreamIds -> SlotStates]
    /\ projection \in Projections
    /\ hash \in [StreamIds -> Statuses \cup {None}]
    /\ told = hash
    /\ known \subseteq StreamIds /\ mine \subseteq StreamIds /\ clean \in BOOLEAN

HealthTypes ==
    /\ health \in [StreamIds -> Payloads \cup {None}]
    /\ alert \in [StreamIds -> {"DEGRADED", "RECOVERED", None}]
    /\ lapsed \subseteq StreamIds

\* A process that is down has left nothing in memory.
DownIsEmpty == ~ Up => projection = Idle /\ known = {} /\ mine = {} /\ stage = "run"

\* What a cycle has found belongs to that cycle alone.
CycleIsOwn ==
    /\ projection.pc \in {"cycle", "wait", "done"} =>
          projection.ids = {} /\ projection.gone = {} /\ projection.failed = {}
    /\ projection.todo \subseteq projection.ids
    /\ projection.gone \cap projection.ids = {}
    /\ projection.pc = "write" => /\ projection.stream \in projection.ids
                                  /\ projection.status \in Statuses

\* A status this process wrote is looked for until its removal has succeeded.
MineIsWatched ==
    /\ mine \subseteq known \cup projection.ids
    /\ mine \cap projection.gone \subseteq projection.failed

\* life is what the session was last known for.
Matches(life, s) == life = slots[s] \/ (life = "STOPPING" /\ slots[s] = "STOPPED")

\* The last cycle comes when no stream can appear, change or go any more but by
\* ending, covers all, and what it has done well so far is right.
LastCycle ==
    projection.last =>
        /\ stage \in {"projectionStopped", "closed"}
        /\ projection.pc \in {"read", "write"} =>
              \A s \in StreamIds : slots[s] # None => s \in projection.ids
        /\ projection.pc = "write" =>
              Matches(projection.status.life, projection.stream)
        /\ (clean /\ projection.pc \in {"read", "write", "done"}) =>
              \A s \in StreamIds :
                  \/ slots[s] = None \/ s \in projection.todo
                  \/ projection.pc = "write" /\ s = projection.stream
                  \/ Matches(hash[s].life, s)

LastCycleEnds == projection.pc = "done" => projection.last /\ projection.todo = {}

\* A health alert that stands for no degraded health is one that lapsed.
OpenAlertsLapsed ==
    \A s \in StreamIds : (alert[s] = "DEGRADED" /\ health[s] # "DEGRADED") => s \in lapsed

ProjectionInv ==
    /\ DownIsEmpty /\ CycleIsOwn /\ MineIsWatched
    /\ LastCycle /\ LastCycleEnds
StatusInv == ProjectionTypes /\ ProjectionInv /\ HealthTypes /\ OpenAlertsLapsed

\* None is a state of a slot, a status and a health of its own.
LEMMA NoneIsNothing ==
    /\ None \notin WorkerIds
    /\ None \notin {"RUNNING", "PAUSED", "FAILED", "STOPPING", "STOPPED"}
    /\ None \notin Payloads
BY ProjectionAssumption DEF Payloads

\* The projection thread begins with nothing found.
LEMMA IdleIsProjection ==
    /\ Idle \in Projections
    /\ Idle.pc = "cycle" /\ Idle.last = FALSE
    /\ Idle.ids = {} /\ Idle.todo = {} /\ Idle.gone = {} /\ Idle.failed = {}
BY DEF Idle, Projections

\* A process begins with sessions that run or are paused, and nothing known.
LEMMA StatusBegins == StatusInit => StatusInv
<1> SUFFICES ASSUME StatusInit PROVE StatusInv
  OBVIOUS
<1>1. ProjectionTypes
  BY IdleIsProjection DEF StatusInit, ProjectionTypes, Adopted, SlotStates
<1>2. ProjectionInv
  BY NoneIsNothing, IdleIsProjection DEF StatusInit, ProjectionInv, DownIsEmpty, CycleIsOwn,
     MineIsWatched, LastCycle, LastCycleEnds, Up
<1>3. HealthTypes /\ OpenAlertsLapsed
  BY NoneIsNothing, ProjectionAssumption DEF StatusInit, HealthTypes, OpenAlertsLapsed, Payloads
<1> QED BY <1>1, <1>2, <1>3 DEF StatusInv

\* The health of a stream and its alerts go together.
LEMMA HealthStep ==
    ASSUME HealthTypes, OpenAlertsLapsed, [StatusNext]_statusVars
    PROVE  HealthTypes' /\ OpenAlertsLapsed'
<1> USE DEF HealthTypes, OpenAlertsLapsed
<1>1. ASSUME NEW s \in StreamIds, NEW payload \in Payloads, PublishHealth(s, payload)
      PROVE  HealthTypes' /\ OpenAlertsLapsed'
  <2>1. payload \in {"HEALTHY", "DEGRADED"}
    BY DEF Payloads
  <2>2. /\ health' = [health EXCEPT ![s] = payload]
        /\ alert' = [alert EXCEPT ![s] = HealthAlert(s, payload)]
        /\ lapsed' = IF payload # "HEALTHY" \/ health[s] # None THEN lapsed \ {s}
                     ELSE lapsed
    BY <1>1 DEF PublishHealth
  <2>3. HealthAlert(s, payload) \in {"DEGRADED", "RECOVERED", None}
    BY DEF HealthAlert
  <2>4. \A r \in StreamIds : r # s =>
           health'[r] = health[r] /\ alert'[r] = alert[r] /\ (r \in lapsed => r \in lapsed')
    BY <2>2
  <2>5. health'[s] = payload /\ alert'[s] = HealthAlert(s, payload)
    BY <2>2
  <2>6. (alert'[s] = "DEGRADED" /\ health'[s] # "DEGRADED") => s \in lapsed'
    <3>1. CASE payload = "DEGRADED"
      BY <2>5, <3>1
    <3>2. CASE payload = "HEALTHY" /\ health[s] # None
      BY <2>5, <3>2 DEF HealthAlert
    <3>3. CASE payload = "HEALTHY" /\ health[s] = None
      <4>1. alert'[s] = alert[s] /\ lapsed' = lapsed
        BY <2>2, <2>5, <3>3 DEF HealthAlert
      <4> QED BY <3>3, <4>1, NoneIsNothing DEF Payloads
    <3> QED BY <2>1, <3>1, <3>2, <3>3
  <2>7. OpenAlertsLapsed'
    BY <2>4, <2>6
  <2> QED BY <2>2, <2>3, <2>7
<1>2. ASSUME NEW s \in StreamIds, HealthExpires(s)
      PROVE  HealthTypes' /\ OpenAlertsLapsed'
  <2>1. /\ health' = [health EXCEPT ![s] = None] /\ alert' = alert
        /\ lapsed' = IF health[s] # "HEALTHY" THEN lapsed \cup {s} ELSE lapsed
    BY <1>2 DEF HealthExpires, healthVars
  <2>2. (alert'[s] = "DEGRADED" /\ health'[s] # "DEGRADED") => s \in lapsed'
    BY <2>1
  <2> QED BY <2>1, <2>2
<1>3. CASE UNCHANGED healthVars
  BY <1>3 DEF healthVars
<1>4. ASSUME NEW s \in StreamIds, Change(s) \/ DrainLate(s) \/ Read(s) \/ Retract(s)
      PROVE  UNCHANGED healthVars
  BY <1>4 DEF Change, DrainLate, Read, Retract, healthVars
<1>5. ASSUME BeginCycle \/ Write \/ EndCycle \/ WaitEnds \/ StopStreams
             \/ StopProjection \/ CloseClient \/ Crash \/ Restart
      PROVE  UNCHANGED healthVars
  BY <1>5 DEF BeginCycle, Write, EndCycle, WaitEnds, StopStreams, StopProjection,
     CloseClient, Crash, Restart, healthVars
<1> QED BY <1>1, <1>2, <1>3, <1>4, <1>5 DEF StatusNext, statusVars

\* What a reader finds of a stream that is there matches its session.
LEMMA ReadsMatch ==
    ASSUME ProjectionTypes, HealthTypes, Up, NEW s \in StreamIds, NEW status \in Reads(s)
    PROVE  status \in Statuses /\ status.life = slots[s]
<1>1. slots[s] \in SlotStates /\ me \in WorkerIds \cup {None}
  BY DEF ProjectionTypes
<1>2. CASE slots[s] # "RUNNING"
  BY <1>1, <1>2 DEF Reads, Statuses
<1>3. CASE slots[s] = "RUNNING"
  <2>1. PICK h \in {IF health[s] = None THEN "UNKNOWN"
                    ELSE IF health[s] = "HEALTHY" THEN "HEALTHY" ELSE "DEGRADED"}
                   \cup IF trouble > 0 THEN {"UNKNOWN"} ELSE {} :
             status = [life |-> "RUNNING", worker |-> me, health |-> h]
    BY <1>3 DEF Reads
  <2>2. h \in {"UNKNOWN", "HEALTHY", "DEGRADED", "UNHEALTHY"}
    BY <2>1
  <2> QED BY <1>1, <1>3, <2>1, <2>2 DEF Statuses
<1> QED BY <1>2, <1>3

\* The streams change: not in the last cycle, and not after it.
LEMMA StreamsChange ==
    ASSUME ProjectionTypes, ProjectionInv, UNCHANGED <<me, projectionVars>>, Up,
           slots' \in [StreamIds -> SlotStates],
           \/ stage = "run" /\ stage' \in {"run", "streamsStopped"}
           \/ UNCHANGED <<stage, slots>>
    PROVE  ProjectionTypes' /\ ProjectionInv'
<1> USE DEF projectionVars
<1>1. ProjectionTypes'
  BY DEF ProjectionTypes
<1>2. DownIsEmpty' /\ CycleIsOwn' /\ MineIsWatched' /\ LastCycleEnds'
  BY DEF ProjectionInv, DownIsEmpty, CycleIsOwn, MineIsWatched, LastCycleEnds, Up
<1>3. LastCycle'
  BY DEF ProjectionInv, LastCycle, Matches
<1> QED BY <1>1, <1>2, <1>3 DEF ProjectionInv

\* A session that ends late is still covered by the last cycle.
LEMMA DrainLateKeeps ==
    ASSUME ProjectionTypes, ProjectionInv, NEW s \in StreamIds, DrainLate(s)
    PROVE  ProjectionTypes' /\ ProjectionInv'
<1> USE DEF projectionVars, healthVars
<1>0. /\ Up /\ slots[s] = "STOPPING" /\ slots' = [slots EXCEPT ![s] = "STOPPED"]
      /\ UNCHANGED <<me, stage, projection, known, hash, told, mine, clean>>
  BY DEF DrainLate
<1>1. ProjectionTypes'
  BY <1>0 DEF ProjectionTypes, SlotStates
<1>2. DownIsEmpty' /\ CycleIsOwn' /\ MineIsWatched' /\ LastCycleEnds'
  BY <1>0 DEF ProjectionInv, DownIsEmpty, CycleIsOwn, MineIsWatched, LastCycleEnds, Up
<1>3. LastCycle'
  <2>1. \A r \in StreamIds : slots[r] = None <=> slots'[r] = None
    BY <1>0, NoneIsNothing DEF ProjectionTypes
  <2>2. \A r \in StreamIds : Matches(hash[r].life, r) => Matches(hash[r].life, r)'
    BY <1>0 DEF ProjectionTypes, Matches
  <2>3. projection.pc = "write" => projection.stream \in StreamIds
    BY DEF ProjectionInv, CycleIsOwn, ProjectionTypes, Projections
  <2>4. projection.pc = "write" =>
           (Matches(projection.status.life, projection.stream)
              => Matches(projection.status.life, projection.stream)')
    BY <1>0, <2>3 DEF ProjectionTypes, Matches
  <2> QED BY <1>0, <2>1, <2>2, <2>4 DEF ProjectionInv, LastCycle
<1> QED BY <1>1, <1>2, <1>3 DEF ProjectionInv

\* The projection thread: the beginning of a cycle ...
LEMMA BeginCycleKeeps ==
    ASSUME ProjectionTypes, ProjectionInv, BeginCycle
    PROVE  ProjectionTypes' /\ ProjectionInv'
<1> DEFINE There == {s \in StreamIds : slots[s] # None}
<1>0. /\ Up /\ projection.pc = "cycle"
      /\ projection' = [projection EXCEPT !.pc = "read", !.ids = There, !.todo = There,
                                          !.failed = {}]
      /\ UNCHANGED <<me, stage, slots, known, hash, told, mine>> /\ clean' = TRUE
  BY DEF BeginCycle, ProjectionAt
<1>1. ProjectionTypes'
  BY <1>0 DEF ProjectionTypes, Projections
<1>2. /\ projection'.pc = "read" /\ projection'.ids = There /\ projection'.todo = There
      /\ projection'.failed = {} /\ projection'.gone = {}
      /\ projection'.last = projection.last
  BY <1>0 DEF ProjectionTypes, Projections, ProjectionInv, CycleIsOwn
<1>3. DownIsEmpty' /\ CycleIsOwn' /\ MineIsWatched' /\ LastCycleEnds'
  BY <1>0, <1>2 DEF ProjectionInv, DownIsEmpty, CycleIsOwn, MineIsWatched, LastCycleEnds, Up
<1>4. LastCycle'
  BY <1>0, <1>2 DEF ProjectionInv, LastCycle
<1> QED BY <1>1, <1>3, <1>4 DEF ProjectionInv

\* ... the status of a stream read ...
LEMMA ReadKeeps ==
    ASSUME ProjectionTypes, HealthTypes, ProjectionInv, NEW s \in StreamIds, Read(s)
    PROVE  ProjectionTypes' /\ ProjectionInv'
<1>0. /\ Up /\ projection.pc = "read" /\ s \in projection.todo
      /\ UNCHANGED <<me, stage, slots, known, hash, told, mine, clean>>
  BY DEF Read, ProjectionAt
<1>1. CASE slots[s] = None
  <2>1. projection' = [projection EXCEPT !.todo = @ \ {s}]
    BY <1>1 DEF Read
  <2>2. ProjectionTypes'
    BY <1>0, <2>1 DEF ProjectionTypes, Projections
  <2>3. DownIsEmpty' /\ CycleIsOwn' /\ MineIsWatched' /\ LastCycleEnds'
    BY <1>0, <2>1 DEF ProjectionTypes, Projections, ProjectionInv, DownIsEmpty, CycleIsOwn,
       MineIsWatched, LastCycleEnds, Up
  <2>4. LastCycle'
    BY <1>0, <1>1, <2>1 DEF ProjectionTypes, Projections, ProjectionInv, LastCycle, Matches
  <2> QED BY <2>2, <2>3, <2>4 DEF ProjectionInv
<1>2. CASE slots[s] # None
  <2>1. PICK status \in Reads(s) :
           projection' = [projection EXCEPT !.todo = @ \ {s}, !.pc = "write",
                                            !.stream = s, !.status = status]
    BY <1>2 DEF Read
  <2>2. status \in Statuses /\ status.life = slots[s]
    BY <1>0, ReadsMatch
  <2>3. ProjectionTypes'
    BY <1>0, <2>1, <2>2 DEF ProjectionTypes, Projections
  <2>4. /\ projection'.pc = "write" /\ projection'.stream = s
        /\ projection'.status = status /\ projection'.todo = projection.todo \ {s}
        /\ projection'.ids = projection.ids /\ projection'.gone = projection.gone
        /\ projection'.failed = projection.failed /\ projection'.last = projection.last
    BY <2>1 DEF ProjectionTypes, Projections
  <2>5. DownIsEmpty' /\ CycleIsOwn' /\ MineIsWatched' /\ LastCycleEnds'
    BY <1>0, <2>2, <2>4 DEF ProjectionInv, DownIsEmpty, CycleIsOwn, MineIsWatched,
       LastCycleEnds, Up
  <2>6. LastCycle'
    BY <1>0, <2>2, <2>4 DEF ProjectionInv, LastCycle, Matches
  <2> QED BY <2>3, <2>5, <2>6 DEF ProjectionInv
<1> QED BY <1>1, <1>2

\* ... its write, in one transaction with the update if there is one, and clean
\* only if it was answered ...
LEMMA WriteKeeps ==
    ASSUME ProjectionTypes, ProjectionInv, Write
    PROVE  ProjectionTypes' /\ ProjectionInv'
<1> DEFINE s == projection.stream
<1>0. /\ Up /\ projection.pc = "write"
      /\ projection' = [projection EXCEPT !.pc = "read", !.stream = None, !.status = None]
      /\ UNCHANGED <<me, stage, slots, known>>
  BY DEF Write, ProjectionAt
<1>1. /\ s \in StreamIds /\ s \in projection.ids /\ projection.status \in Statuses
      /\ projection.ids \subseteq StreamIds
  BY <1>0 DEF ProjectionTypes, Projections, ProjectionInv, CycleIsOwn
<1>2. \/ /\ hash' = [hash EXCEPT ![s] = projection.status] /\ mine' = mine \cup {s}
         /\ clean' = clean \/ clean' = FALSE
      \/ UNCHANGED <<hash, mine>> /\ clean' = FALSE
  BY DEF Write
<1>3. told' = hash'
  <2>1. CASE /\ hash' = [hash EXCEPT ![s] = projection.status]
             /\ told' = IF Announces(s, projection.status)
                        THEN [told EXCEPT ![s] = projection.status] ELSE told
    <3>1. hash[s] = projection.status => hash' = hash
      BY <1>1, <2>1 DEF ProjectionTypes
    <3> QED BY <2>1, <3>1 DEF ProjectionTypes, Announces
  <2>2. CASE UNCHANGED <<hash, told>>
    BY <2>2 DEF ProjectionTypes
  <2> QED BY <2>1, <2>2 DEF Write
<1>4. ProjectionTypes'
  <2>1. projection' \in Projections
    BY <1>0 DEF ProjectionTypes, Projections
  <2>2. hash' \in [StreamIds -> Statuses \cup {None}]
    BY <1>1, <1>2 DEF ProjectionTypes
  <2> QED BY <1>0, <1>1, <1>2, <1>3, <2>1, <2>2 DEF ProjectionTypes
<1>5. /\ projection'.pc = "read" /\ projection'.todo = projection.todo
      /\ projection'.ids = projection.ids /\ projection'.gone = projection.gone
      /\ projection'.failed = projection.failed /\ projection'.last = projection.last
  BY <1>0 DEF ProjectionTypes, Projections
<1>6. DownIsEmpty' /\ CycleIsOwn' /\ MineIsWatched' /\ LastCycleEnds'
  BY <1>0, <1>1, <1>2, <1>5 DEF ProjectionInv, DownIsEmpty, CycleIsOwn, MineIsWatched,
     LastCycleEnds, Up
<1>7. LastCycle'
  <2>1. CASE projection.last /\ clean'
    <3>1. /\ clean /\ hash'[s] = projection.status
          /\ \A r \in StreamIds : r # s => hash'[r] = hash[r]
      BY <1>1, <1>2, <2>1 DEF ProjectionTypes
    <3>2. Matches(projection.status.life, s)
      BY <1>0, <2>1 DEF ProjectionInv, LastCycle
    <3>3. \A r \in StreamIds : Matches(hash'[r].life, r)
             \/ slots[r] = None \/ r \in projection.todo
      BY <1>0, <2>1, <3>1, <3>2 DEF ProjectionInv, LastCycle
    <3> QED BY <1>0, <1>5, <2>1, <3>3 DEF ProjectionInv, LastCycle, Matches
  <2>2. CASE ~ projection.last \/ ~ clean'
    BY <1>0, <1>5, <2>2 DEF ProjectionInv, LastCycle
  <2> QED BY <2>1, <2>2
<1> QED BY <1>4, <1>6, <1>7 DEF ProjectionInv

\* ... the removal of a stream that is gone, failed or not ...
LEMMA RetractKeeps ==
    ASSUME ProjectionTypes, ProjectionInv, NEW s \in StreamIds, Retract(s)
    PROVE  ProjectionTypes' /\ ProjectionInv'
<1>0. /\ Up /\ projection.pc = "read" /\ projection.todo = {}
      /\ s \in known /\ s \notin projection.ids
      /\ UNCHANGED <<me, stage, slots, known, clean>>
  BY DEF Retract, ProjectionAt, Removed
<1>1. /\ hash' \in {hash, [hash EXCEPT ![s] = None]} /\ told' = hash'
      /\ mine' \in {mine, mine \ {s}}
  BY DEF Retract, ProjectionTypes
<1>2. \/ /\ mine' = mine \ {s}
         /\ projection' = [projection EXCEPT !.gone = @ \cup {s}]
      \/ projection' = [projection EXCEPT !.gone = @ \cup {s}, !.failed = @ \cup {s}]
  BY DEF Retract
<1>3. /\ projection' \in Projections
      /\ projection'.pc = "read" /\ projection'.todo = {}
      /\ projection'.ids = projection.ids /\ projection'.gone = projection.gone \cup {s}
      /\ projection'.last = projection.last
      /\ projection.failed \subseteq projection'.failed
      /\ s \in projection'.failed \/ s \notin mine'
  <2> USE DEF ProjectionTypes, Projections
  <2>0. /\ projection.gone \cup {s} \in SUBSET StreamIds
        /\ projection.failed \cup {s} \in SUBSET StreamIds
    OBVIOUS
  <2>1. CASE /\ mine' = mine \ {s}
             /\ projection' = [projection EXCEPT !.gone = @ \cup {s}]
    BY <1>0, <2>0, <2>1
  <2>2. CASE projection' = [projection EXCEPT !.gone = @ \cup {s}, !.failed = @ \cup {s}]
    <3>1. projection' \in Projections
      BY <2>0, <2>2
    <3> QED BY <1>0, <2>2, <3>1
  <2> QED BY <1>2, <2>1, <2>2
<1>4. ProjectionTypes'
  <2>1. hash' \in [StreamIds -> Statuses \cup {None}]
    BY <1>1 DEF ProjectionTypes
  <2> QED BY <1>0, <1>1, <1>3, <2>1 DEF ProjectionTypes
<1>5. DownIsEmpty' /\ CycleIsOwn' /\ MineIsWatched' /\ LastCycleEnds'
  BY <1>0, <1>1, <1>3 DEF ProjectionInv, DownIsEmpty, CycleIsOwn, MineIsWatched,
     LastCycleEnds, Up
<1>6. LastCycle'
  <2>1. CASE projection.last
    <3>1. slots[s] = None
      BY <1>0, <2>1 DEF ProjectionInv, LastCycle
    <3>2. \A r \in StreamIds : r # s => hash'[r] = hash[r]
      BY <1>1 DEF ProjectionTypes
    <3> QED BY <1>0, <1>3, <2>1, <3>1, <3>2 DEF ProjectionInv, LastCycle, Matches
  <2>2. CASE ~ projection.last
    BY <1>3, <2>2 DEF LastCycle
  <2> QED BY <2>1, <2>2
<1> QED BY <1>4, <1>5, <1>6 DEF ProjectionInv

\* ... and its end, which keeps what could not be removed.
LEMMA EndCycleKeeps ==
    ASSUME ProjectionTypes, ProjectionInv, EndCycle
    PROVE  ProjectionTypes' /\ ProjectionInv'
<1>0. /\ Up /\ projection.pc = "read" /\ projection.todo = {}
      /\ (known \ projection.ids) \ projection.gone = {}
      /\ known' = projection.ids \cup projection.failed
      /\ projection' = [projection EXCEPT !.pc = IF projection.last THEN "done" ELSE "wait",
                                          !.gone = {}, !.failed = {}, !.ids = {}]
      /\ UNCHANGED <<me, stage, slots, hash, told, mine, clean>>
  BY DEF EndCycle, ProjectionAt, Removed, KnownNext
<1>1. ProjectionTypes'
  BY <1>0 DEF ProjectionTypes, Projections
<1>2. /\ projection'.pc = IF projection.last THEN "done" ELSE "wait"
      /\ projection'.todo = {} /\ projection'.ids = {} /\ projection'.gone = {}
      /\ projection'.failed = {} /\ projection'.last = projection.last
      /\ projection.last \in BOOLEAN
  BY <1>0 DEF ProjectionTypes, Projections
<1>3. DownIsEmpty' /\ CycleIsOwn' /\ MineIsWatched' /\ LastCycleEnds'
  BY <1>0, <1>2 DEF ProjectionInv, DownIsEmpty, CycleIsOwn, MineIsWatched,
     LastCycleEnds, Up
<1>4. LastCycle'
  BY <1>0, <1>2 DEF ProjectionInv, LastCycle, Matches
<1> QED BY <1>1, <1>3, <1>4 DEF ProjectionInv

\* The thread waits, the main thread ends it, the process dies or is started.
LEMMA ProcessKeeps ==
    ASSUME ProjectionTypes, ProjectionInv,
           WaitEnds \/ StopProjection \/ CloseClient \/ Crash \/ Restart
    PROVE  ProjectionTypes' /\ ProjectionInv'
<1> USE DEF ProjectionInv, DownIsEmpty, CycleIsOwn, MineIsWatched, LastCycleEnds, Up
<1>1. CASE WaitEnds
  <2>1. /\ projection.pc = "wait" /\ Up
        /\ projection' = [projection EXCEPT !.pc = "cycle",
                             !.last = stage \in {"projectionStopped", "closed"}]
        /\ UNCHANGED <<me, stage, slots, known, hash, told, mine, clean>>
    BY <1>1 DEF WaitEnds, ProjectionAt
  <2>2. ProjectionTypes'
    <3>1. (stage \in {"projectionStopped", "closed"}) \in BOOLEAN
      OBVIOUS
    <3>2. projection' \in Projections
      BY <2>1, <3>1 DEF ProjectionTypes, Projections
    <3> QED BY <2>1, <3>2 DEF ProjectionTypes
  <2>3. /\ projection'.pc = "cycle" /\ projection'.todo = projection.todo
        /\ projection'.ids = projection.ids /\ projection'.gone = projection.gone
        /\ projection'.failed = projection.failed
        /\ projection'.last = (stage \in {"projectionStopped", "closed"})
    BY <2>1 DEF ProjectionTypes, Projections
  <2> QED BY <2>1, <2>2, <2>3 DEF LastCycle
<1>2. CASE StopProjection
  <2>1. /\ stage = "streamsStopped" /\ stage' = "projectionStopped" /\ Up
        /\ UNCHANGED <<me, slots, projection, known, hash, told, mine, clean>>
    BY <1>2 DEF StopProjection, projectionVars
  <2>2. ProjectionTypes'
    BY <2>1 DEF ProjectionTypes
  <2> QED BY <2>1, <2>2 DEF LastCycle, Matches
<1>3. CASE CloseClient
  <2>1. /\ stage = "projectionStopped" /\ stage' = "closed" /\ Up
        /\ UNCHANGED <<me, slots, projection, known, hash, told, mine, clean>>
    BY <1>3 DEF CloseClient, projectionVars
  <2>2. ProjectionTypes'
    BY <2>1 DEF ProjectionTypes
  <2> QED BY <2>1, <2>2 DEF LastCycle, Matches
<1>4. CASE Crash
  <2>1. /\ me' = None /\ stage' = "run" /\ slots' = [s \in StreamIds |-> None]
        /\ projection' = Idle /\ known' = {} /\ mine' = {}
        /\ UNCHANGED <<hash, told, clean>>
    BY <1>4 DEF Crash
  <2>2. ProjectionTypes'
    BY <2>1, IdleIsProjection DEF ProjectionTypes, SlotStates
  <2> QED BY <2>1, <2>2, IdleIsProjection DEF LastCycle
<1>5. CASE Restart
  <2>1. /\ me' \in WorkerIds /\ slots' \in Adopted /\ stage = "run" /\ projection = Idle
        /\ UNCHANGED <<stage, projection, known, hash, told, mine, clean>>
    BY <1>5 DEF Restart, projectionVars
  <2>2. ProjectionTypes'
    BY <2>1 DEF ProjectionTypes, SlotStates, Adopted
  <2> QED BY <2>1, <2>2, IdleIsProjection, NoneIsNothing DEF LastCycle
<1> QED BY <1>1, <1>2, <1>3, <1>4, <1>5

\* Every step keeps the types and the invariant.
LEMMA StatusStep ==
    ASSUME StatusInv, [StatusNext]_statusVars
    PROVE  StatusInv'
<1>0. ProjectionTypes /\ ProjectionInv /\ HealthTypes /\ OpenAlertsLapsed
  BY DEF StatusInv
<1>1. HealthTypes' /\ OpenAlertsLapsed'
  BY <1>0, HealthStep
<1>2. ASSUME NEW s \in StreamIds, Change(s) PROVE ProjectionTypes' /\ ProjectionInv'
  <2>1. /\ Up /\ stage = "run" /\ UNCHANGED <<me, stage, projectionVars>>
        /\ slots' \in [StreamIds -> SlotStates]
    BY <1>0, <1>2 DEF Change, LifeStates, ProjectionTypes, SlotStates
  <2> QED BY <1>0, <2>1, StreamsChange
<1>3. ASSUME StopStreams
      PROVE  ProjectionTypes' /\ ProjectionInv'
  <2>1. /\ Up /\ stage = "run" /\ stage' = "streamsStopped" /\ UNCHANGED <<me, projectionVars>>
    BY <1>3 DEF StopStreams
  <2>2. PICK late \in SUBSET {s \in StreamIds : slots[s] = "RUNNING"} :
           slots' = [s \in StreamIds |-> IF s \in late THEN "STOPPING"
                                       ELSE IF slots[s] \in {"RUNNING", "FAILED"}
                                       THEN "STOPPED" ELSE slots[s]]
    BY <1>3 DEF StopStreams
  <2>3. slots' \in [StreamIds -> SlotStates]
    BY <1>0, <2>2 DEF ProjectionTypes, SlotStates
  <2> QED BY <1>0, <2>1, <2>3, StreamsChange
<1>4. ASSUME UNCHANGED <<me, stage, slots, projectionVars>>
      PROVE  ProjectionTypes' /\ ProjectionInv'
  BY <1>0, <1>4 DEF projectionVars, ProjectionTypes, ProjectionInv, DownIsEmpty, CycleIsOwn,
     MineIsWatched, LastCycle, LastCycleEnds, Matches, Up
<1>5. ASSUME NEW s \in StreamIds,
             HealthExpires(s) \/ \E payload \in Payloads : PublishHealth(s, payload)
      PROVE  UNCHANGED <<me, stage, slots, projectionVars>>
  BY <1>5 DEF HealthExpires, PublishHealth
<1>6. ASSUME NEW s \in StreamIds, DrainLate(s) \/ Read(s) \/ Retract(s)
      PROVE  ProjectionTypes' /\ ProjectionInv'
  BY <1>0, <1>6, DrainLateKeeps, ReadKeeps, RetractKeeps
<1>7. ASSUME BeginCycle \/ Write \/ EndCycle
      PROVE  ProjectionTypes' /\ ProjectionInv'
  BY <1>0, <1>7, BeginCycleKeeps, WriteKeeps, EndCycleKeeps
<1>8. ASSUME WaitEnds \/ StopProjection \/ CloseClient \/ Crash \/ Restart
      PROVE  ProjectionTypes' /\ ProjectionInv'
  BY <1>0, <1>8, ProcessKeeps
<1>9. ASSUME UNCHANGED statusVars
      PROVE  ProjectionTypes' /\ ProjectionInv'
  BY <1>4, <1>9 DEF statusVars
<1>10. ProjectionTypes' /\ ProjectionInv'
  BY <1>2, <1>3, <1>4, <1>5, <1>6, <1>7, <1>8, <1>9 DEF StatusNext
<1> QED BY <1>1, <1>10 DEF StatusInv

\* The types and the invariant hold from the start on.
THEOREM StatusHolds == StatusSpec => []StatusInv
BY StatusBegins, StatusStep, PTL DEF StatusSpec

\* Whoever follows the feed knows what the hash holds, what a process wrote is
\* retracted or still looked for, the last cycle told the last states, and an
\* alert that stands for no degraded health is one that lapsed.
THEOREM TheFeedTellsTheStatus == StatusSpec => []StatusTold
<1>1. StatusInv => StatusTold
  <2> SUFFICES ASSUME StatusInv PROVE StatusTold
    OBVIOUS
  <2>1. told = hash /\ (Up => mine \subseteq known \cup projection.ids)
    BY DEF StatusInv, ProjectionTypes, ProjectionInv, MineIsWatched
  <2>2. ASSUME Up, projection.pc = "done", clean, NEW s \in StreamIds, slots[s] # None
        PROVE  \/ hash[s].life = slots[s]
               \/ hash[s].life = "STOPPING" /\ slots[s] = "STOPPED"
    BY <2>2 DEF StatusInv, ProjectionInv, LastCycle, LastCycleEnds, Matches
  <2>3. HealthAlertsEnd
    BY DEF StatusInv, OpenAlertsLapsed, HealthAlertsEnd
  <2> QED BY <2>1, <2>2, <2>3 DEF StatusTold
<1> QED BY <1>1, StatusHolds, PTL

-----------------------------------------------------------------------------
(* The submission of a command.  What makes a key stand for one command is *)
(* a correspondence between three places: as long as a command's           *)
(* submission is remembered, the key it was posted under holds its         *)
(* receipt, and a receipt held by a key is that of a command with this key *)
(* (KeyHoldsReceipt, ReceiptHasCommand).                                   *)

Prints == {PrintOf[r] : r \in Requests}
Keys == {KeyOf[r] : r \in Requests}
Posted == [id : CommandIds, request : Requests, answer : Int]
Entries == [id : CommandIds, key : Keys, print : Prints]
Receipts == [id : CommandIds, print : Prints]

RequestTypes ==
    /\ posts \in 0 .. MaxPosts
    /\ calls \subseteq Posted
    /\ keyed \in [IdempotencyKeys -> Receipts \cup {NoReceipt}]
    /\ submitted \subseteq CommandIds
    /\ commands \in Seq(Entries)
    /\ processed \in [CommandIds -> {"no", "kept", "expired"}]
    /\ receipts \in [Requests -> SUBSET CommandIds]
    /\ lookup \in [id : 0 .. MaxPosts, reading : BOOLEAN,
                   answer : {"none", "FINAL", "PENDING", "MISSING"}]

\* A command with this id asks for this.
Asks(id, print) ==
    \E i \in DOMAIN commands : commands[i].id = id /\ commands[i].print = print

\* Each post has an id of its own, and so has each command; a post under way has
\* not made a command yet.
IdsAreOwn ==
    /\ \A c \in calls : c.id <= posts
    /\ \A i \in DOMAIN commands : commands[i].id <= posts
    /\ \A c, d \in calls : c.id = d.id => c = d
    /\ \A i, j \in DOMAIN commands : commands[i].id = commands[j].id => i = j
    /\ \A c \in calls : c.answer = NoAnswer =>
          \A i \in DOMAIN commands : commands[i].id # c.id

\* The key of a command whose submission is remembered holds its receipt ...
KeyHoldsReceipt ==
    \A i \in DOMAIN commands :
        (commands[i].key \in IdempotencyKeys /\ commands[i].id \in submitted) =>
            /\ keyed[commands[i].key] # NoReceipt
            /\ keyed[commands[i].key].id = commands[i].id

\* ... and a receipt that a key holds is that of such a command.
ReceiptHasCommand ==
    \A k \in IdempotencyKeys : keyed[k] # NoReceipt =>
        Asks(keyed[k].id, keyed[k].print)

\* An answer is a receipt for what was asked for, and so is what a client has.
AnswersAreAsked ==
    /\ \A c \in calls : c.answer \notin {NoAnswer, Conflict} =>
          c.answer \in CommandIds /\ Asks(c.answer, PrintOf[c.request])
    /\ \A r \in Requests : \A id \in receipts[r] : Asks(id, PrintOf[r])

\* A result outlives the submission of its command, and the client that was told
\* it asks again in vain only when both are gone.
ResultsOutlive ==
    /\ \A id \in CommandIds : processed[id] # "no" =>
          \E i \in DOMAIN commands : commands[i].id = id
    /\ \A id \in CommandIds : processed[id] = "expired" => id \notin submitted
    /\ lookup.reading => lookup.id \in CommandIds
    /\ lookup.answer = "FINAL" =>
          /\ lookup.id \in CommandIds /\ processed[lookup.id] # "no"
          /\ lookup.reading => processed[lookup.id] = "expired"

RequestInv ==
    /\ IdsAreOwn /\ KeyHoldsReceipt /\ ReceiptHasCommand
    /\ AnswersAreAsked /\ ResultsOutlive

-----------------------------------------------------------------------------
(* Lemmas.                                                                 *)

\* A request has a key, or NoKey, and a print; no receipt is NoReceipt.
LEMMA RequestKeys ==
    /\ MaxPosts \in Nat
    /\ \A r \in Requests : /\ KeyOf[r] \in Keys /\ PrintOf[r] \in Prints
                           /\ (KeyOf[r] # NoKey) <=> (KeyOf[r] \in IdempotencyKeys)
    /\ NoReceipt \notin Receipts
BY RequestAssumption DEF Keys, Prints, IdempotencyKeys, Receipts, CommandIds

\* A command that is added comes last and disturbs no other.
LEMMA CommandAdded ==
    ASSUME RequestTypes, NEW e \in Entries, commands' = Append(commands, e)
    PROVE  /\ commands' \in Seq(Entries)
           /\ DOMAIN commands' = DOMAIN commands \cup {Len(commands) + 1}
           /\ Len(commands) + 1 \notin DOMAIN commands
           /\ \A i \in DOMAIN commands : commands'[i] = commands[i]
           /\ commands'[Len(commands) + 1] = e
<1>1. commands \in Seq(Entries) /\ Len(commands) \in Nat
      /\ DOMAIN commands = 1 .. Len(commands)
  BY DEF RequestTypes
<1> QED BY <1>1

\* What a command asks for, it asks for as long as commands are only added.
LEMMA AsksStays ==
    ASSUME \A i \in DOMAIN commands : i \in DOMAIN commands' /\ commands'[i] = commands[i],
           NEW id, NEW print, Asks(id, print)
    PROVE  \E i \in DOMAIN commands' : commands'[i].id = id /\ commands'[i].print = print
BY DEF Asks

\* The script's three outcomes: a new command, the receipt there is, a conflict.
LEMMA SubmitOutcomes ==
    ASSUME RequestTypes, NEW c \in calls, SubmitCommand(c)
    PROVE  LET k == KeyOf[c.request]
               p == PrintOf[c.request]
           IN  /\ c.answer = NoAnswer
               /\ UNCHANGED <<posts, processed, receipts, lookup>>
               /\ \/ /\ k = NoKey \/ (k \in IdempotencyKeys /\ keyed[k] = NoReceipt)
                     /\ keyed' = IF k # NoKey
                                 THEN [keyed EXCEPT ![k] = [id |-> c.id, print |-> p]]
                                 ELSE keyed
                     /\ submitted' = submitted \cup {c.id}
                     /\ commands' = Append(commands, [id |-> c.id, key |-> k, print |-> p])
                     /\ calls' \in {Answered(c, c.id), calls \ {c}}
                  \/ /\ UNCHANGED <<keyed, submitted, commands>>
                     /\ \/ calls' \in {Answered(c, Conflict), calls \ {c}}
                        \/ /\ k \in IdempotencyKeys /\ keyed[k] # NoReceipt
                           /\ keyed[k].print = p
                           /\ calls' = Answered(c, keyed[k].id)
<1> DEFINE k == KeyOf[c.request]
           p == PrintOf[c.request]
<1>1. c.request \in Requests /\ ((k # NoKey) <=> (k \in IdempotencyKeys))
  <2>1. c.request \in Requests
    BY DEF RequestTypes, Posted
  <2> QED BY <2>1, RequestKeys
<1>2. CASE ~ Replays(c) /\ ~ Conflicts(c)
  <2>1. k \in IdempotencyKeys => keyed[k] = NoReceipt
    BY <1>2 DEF Replays, Conflicts
  <2> QED BY <1>1, <1>2, <2>1 DEF SubmitCommand
<1>3. CASE Conflicts(c)
  BY <1>3 DEF SubmitCommand
<1>4. CASE Replays(c)
  <2>1. k \in IdempotencyKeys /\ keyed[k] # NoReceipt /\ keyed[k].print = p
    BY <1>4 DEF Replays
  <2>2. ~ Conflicts(c)
    BY <1>4 DEF Conflicts
  <2> QED BY <1>4, <2>1, <2>2 DEF SubmitCommand
<1> QED BY <1>2, <1>3, <1>4

-----------------------------------------------------------------------------
(* The steps.                                                              *)

\* At first nothing is posted.
LEMMA RequestBegins == RequestInit => RequestTypes /\ RequestInv
<1> SUFFICES ASSUME RequestInit PROVE RequestTypes /\ RequestInv
  OBVIOUS
<1>1. RequestTypes
  BY RequestKeys DEF RequestInit, RequestTypes, CommandIds
<1>2. RequestInv
  BY DEF RequestInit, RequestInv, IdsAreOwn, KeyHoldsReceipt, ReceiptHasCommand,
     AnswersAreAsked, ResultsOutlive
<1> QED BY <1>1, <1>2

\* A post gets the next id.
LEMMA PostKeeps ==
    ASSUME RequestTypes, RequestInv, NEW r \in Requests, Post(r)
    PROVE  RequestTypes' /\ RequestInv'
<1> DEFINE c == [id |-> posts + 1, request |-> r, answer |-> NoAnswer]
<1>1. /\ posts < MaxPosts /\ posts' = posts + 1 /\ calls' = calls \cup {c}
      /\ UNCHANGED <<keyed, submitted, commands, processed, receipts, lookup>>
  BY DEF Post
<1>2. /\ posts \in Nat /\ posts + 1 \in CommandIds /\ posts + 1 \in 0 .. MaxPosts
      /\ \A n \in Int : n <= posts => n <= posts + 1 /\ n # posts + 1
  BY <1>1, RequestKeys DEF RequestTypes, CommandIds
<1>3. c \in Posted /\ c.id = posts + 1 /\ c.answer = NoAnswer /\ c.request = r
  BY <1>2 DEF Posted, NoAnswer
<1> HIDE DEF c
<1>4. RequestTypes'
  BY <1>1, <1>2, <1>3 DEF RequestTypes
<1>5. /\ \A d \in calls : d.id \in Int /\ d.id <= posts
      /\ \A i \in DOMAIN commands : commands[i].id \in Int /\ commands[i].id <= posts
  <2>1. \A d \in calls : d.id \in Int
    BY DEF RequestTypes, Posted, CommandIds
  <2>2. \A i \in DOMAIN commands : commands[i] \in Entries
    BY DEF RequestTypes
  <2>3. \A i \in DOMAIN commands : commands[i].id \in Int
    BY <2>2 DEF Entries, CommandIds
  <2> QED BY <2>1, <2>3 DEF RequestInv, IdsAreOwn
<1>6. IdsAreOwn'
  BY <1>1, <1>2, <1>3, <1>5 DEF RequestInv, IdsAreOwn
<1>7. KeyHoldsReceipt' /\ ReceiptHasCommand' /\ ResultsOutlive'
  BY <1>1 DEF RequestInv, KeyHoldsReceipt, ReceiptHasCommand, ResultsOutlive, Asks
<1>8. AnswersAreAsked'
  BY <1>1, <1>3 DEF RequestInv, AnswersAreAsked, Asks
<1> QED BY <1>4, <1>6, <1>7, <1>8 DEF RequestInv

\* The calls that a submission leaves: those of others, and the one's answer.
LEMMA CallsLeft ==
    ASSUME RequestTypes, IdsAreOwn, NEW c \in calls, NEW a \in Int,
           calls' \in {Answered(c, a), calls \ {c}}
    PROVE  /\ calls' \subseteq Posted
           /\ \A d \in calls' : \/ d \in calls /\ d # c /\ d.id # c.id
                                \/ d.answer = a /\ d.id = c.id /\ d.request = c.request
           /\ \A d, e \in calls' : d.id = e.id => d = e
<1> DEFINE x == [c EXCEPT !.answer = a]
<1>1. x \in Posted /\ x.answer = a /\ x.id = c.id /\ x.request = c.request
  BY DEF RequestTypes, Posted
<1>2. calls' \in {(calls \ {c}) \cup {x}, calls \ {c}}
  BY DEF Answered
<1> HIDE DEF x
<1>3. \A d \in calls \ {c} : d.id # c.id
  BY DEF IdsAreOwn
<1>4. calls' \subseteq Posted
  BY <1>1, <1>2 DEF RequestTypes
<1>5. \A d \in calls' : (d \in calls /\ d # c /\ d.id # c.id) \/ d = x
  BY <1>2, <1>3
<1> QED BY <1>1, <1>4, <1>5 DEF IdsAreOwn

\* The script adds a command ...
LEMMA FreshKeeps ==
    ASSUME RequestTypes, RequestInv, NEW c \in calls, c.answer = NoAnswer,
           NEW k, k = KeyOf[c.request], NEW p, p = PrintOf[c.request],
           k = NoKey \/ (k \in IdempotencyKeys /\ keyed[k] = NoReceipt),
           keyed' = IF k # NoKey THEN [keyed EXCEPT ![k] = [id |-> c.id, print |-> p]]
                    ELSE keyed,
           submitted' = submitted \cup {c.id},
           commands' = Append(commands, [id |-> c.id, key |-> k, print |-> p]),
           calls' \in {Answered(c, c.id), calls \ {c}},
           UNCHANGED <<posts, processed, receipts, lookup>>
    PROVE  RequestTypes' /\ RequestInv'
<1> DEFINE e == [id |-> c.id, key |-> k, print |-> p]
           r == [id |-> c.id, print |-> p]
           n == Len(commands) + 1
<1>0. c \in Posted /\ c.request \in Requests /\ c.id \in CommandIds /\ c.id \in Int
  BY DEF RequestTypes, Posted, CommandIds
<1>1. k \in Keys /\ p \in Prints /\ ((k # NoKey) <=> (k \in IdempotencyKeys))
  BY <1>0, RequestKeys
<1>2. /\ e \in Entries /\ e.id = c.id /\ e.key = k /\ e.print = p
      /\ r \in Receipts /\ r.id = c.id /\ r.print = p /\ r # NoReceipt
  BY <1>0, <1>1, RequestKeys DEF Entries, Receipts
<1>3. commands' = Append(commands, e)
      /\ keyed' = IF k # NoKey THEN [keyed EXCEPT ![k] = r] ELSE keyed
  OBVIOUS
<1> HIDE DEF e, r
<1>4. /\ commands' \in Seq(Entries)
      /\ DOMAIN commands' = DOMAIN commands \cup {n}
      /\ n \notin DOMAIN commands
      /\ \A i \in DOMAIN commands : commands'[i] = commands[i]
      /\ commands'[n] = e
  BY <1>2, <1>3, CommandAdded
<1> HIDE DEF n
<1>5. /\ keyed' \in [IdempotencyKeys -> Receipts \cup {NoReceipt}]
      /\ k \in IdempotencyKeys => keyed'[k] = r
      /\ \A q \in IdempotencyKeys : q # k => keyed'[q] = keyed[q]
  BY <1>1, <1>2, <1>3 DEF RequestTypes
<1>6. /\ calls' \subseteq Posted
      /\ \A d \in calls' : \/ d \in calls /\ d # c /\ d.id # c.id
                           \/ d.answer = c.id /\ d.id = c.id /\ d.request = c.request
      /\ \A d, f \in calls' : d.id = f.id => d = f
  BY <1>0, CallsLeft DEF RequestInv
<1>7. RequestTypes'
  BY <1>0, <1>4, <1>5, <1>6 DEF RequestTypes
<1>8. \A i \in DOMAIN commands : commands[i].id # c.id
  BY DEF RequestInv, IdsAreOwn
<1>9. c.id # NoAnswer /\ c.id # Conflict
  BY <1>0 DEF CommandIds, NoAnswer, Conflict
<1>10. IdsAreOwn'
  <2>1. /\ \A d \in calls' : d.id <= posts
        /\ \A i \in DOMAIN commands' : commands'[i].id <= posts
    BY <1>2, <1>4, <1>6 DEF RequestInv, IdsAreOwn
  <2>2. \A i, j \in DOMAIN commands' : commands'[i].id = commands'[j].id => i = j
    BY <1>2, <1>4, <1>8 DEF RequestInv, IdsAreOwn
  <2>3. \A d \in calls' : d.answer = NoAnswer =>
           \A i \in DOMAIN commands' : commands'[i].id # d.id
    BY <1>2, <1>4, <1>6, <1>9 DEF RequestInv, IdsAreOwn
  <2> QED BY <1>6, <2>1, <2>2, <2>3 DEF IdsAreOwn
<1>11. KeyHoldsReceipt'
  <2>1. ASSUME NEW i \in DOMAIN commands, commands[i].key \in IdempotencyKeys,
               commands[i].id \in submitted
        PROVE  keyed'[commands[i].key] = keyed[commands[i].key]
    BY <1>5, <2>1 DEF RequestInv, KeyHoldsReceipt
  <2> QED BY <1>2, <1>4, <1>5, <1>8, <2>1 DEF RequestInv, KeyHoldsReceipt
<1>a. ASSUME NEW id, NEW q, Asks(id, q) \/ (id = c.id /\ q = p)
      PROVE  \E i \in DOMAIN commands' : commands'[i].id = id /\ commands'[i].print = q
  BY <1>2, <1>4, <1>a DEF Asks
<1>12. ReceiptHasCommand'
  <2>1. ASSUME NEW q \in IdempotencyKeys, keyed'[q] # NoReceipt
        PROVE  \/ Asks(keyed'[q].id, keyed'[q].print)
               \/ keyed'[q].id = c.id /\ keyed'[q].print = p
    BY <1>2, <1>5, <2>1 DEF RequestInv, ReceiptHasCommand
  <2> QED BY <1>a, <2>1 DEF ReceiptHasCommand, Asks
<1>13. AnswersAreAsked'
  <2>1. ASSUME NEW d \in calls', d.answer \notin {NoAnswer, Conflict}
        PROVE  /\ d.answer \in CommandIds
               /\ \/ Asks(d.answer, PrintOf[d.request])
                  \/ d.answer = c.id /\ PrintOf[d.request] = p
    BY <1>0, <1>6, <2>1 DEF RequestInv, AnswersAreAsked
  <2>2. \A q \in Requests : \A id \in receipts'[q] : Asks(id, PrintOf[q])
    BY DEF RequestInv, AnswersAreAsked
  <2> QED BY <1>a, <2>1, <2>2 DEF AnswersAreAsked, Asks
<1>14. ResultsOutlive'
  <2>1. processed[c.id] = "no"
    BY <1>0, <1>8 DEF RequestInv, ResultsOutlive, RequestTypes
  <2> QED BY <1>4, <2>1 DEF RequestInv, ResultsOutlive
<1> QED BY <1>7, <1>10, <1>11, <1>12, <1>13, <1>14 DEF RequestInv

\* ... or answers with a conflict, or with the receipt that the key holds.
LEMMA AnswerKeeps ==
    ASSUME RequestTypes, RequestInv, NEW c \in calls, NEW a \in Int,
           calls' \in {Answered(c, a), calls \ {c}},
           a = Conflict \/ (a \in CommandIds /\ Asks(a, PrintOf[c.request])),
           UNCHANGED <<posts, keyed, submitted, commands, processed, receipts, lookup>>
    PROVE  RequestTypes' /\ RequestInv'
<1>1. /\ calls' \subseteq Posted
      /\ \A d \in calls' : \/ d \in calls /\ d # c /\ d.id # c.id
                           \/ d.answer = a /\ d.id = c.id /\ d.request = c.request
      /\ \A d, e \in calls' : d.id = e.id => d = e
  BY CallsLeft DEF RequestInv
<1>2. a # NoAnswer
  BY DEF CommandIds, NoAnswer, Conflict
<1>3. RequestTypes'
  BY <1>1 DEF RequestTypes
<1>4. IdsAreOwn'
  BY <1>1, <1>2 DEF RequestInv, IdsAreOwn
<1>5. KeyHoldsReceipt' /\ ReceiptHasCommand' /\ ResultsOutlive'
  BY DEF RequestInv, KeyHoldsReceipt, ReceiptHasCommand, ResultsOutlive, Asks
<1>6. AnswersAreAsked'
  BY <1>1 DEF RequestInv, AnswersAreAsked, Asks
<1> QED BY <1>3, <1>4, <1>5, <1>6 DEF RequestInv

\* The script as a whole.
LEMMA SubmitKeeps ==
    ASSUME RequestTypes, RequestInv, NEW c \in calls, SubmitCommand(c)
    PROVE  RequestTypes' /\ RequestInv'
<1> DEFINE k == KeyOf[c.request]
           p == PrintOf[c.request]
<1>1. c.answer = NoAnswer /\ UNCHANGED <<posts, processed, receipts, lookup>>
  BY SubmitOutcomes
<1>2. CASE /\ k = NoKey \/ (k \in IdempotencyKeys /\ keyed[k] = NoReceipt)
           /\ keyed' = IF k # NoKey
                       THEN [keyed EXCEPT ![k] = [id |-> c.id, print |-> p]]
                       ELSE keyed
           /\ submitted' = submitted \cup {c.id}
           /\ commands' = Append(commands, [id |-> c.id, key |-> k, print |-> p])
           /\ calls' \in {Answered(c, c.id), calls \ {c}}
  BY <1>1, <1>2, FreshKeeps
<1>3. CASE /\ UNCHANGED <<keyed, submitted, commands>>
           /\ calls' \in {Answered(c, Conflict), calls \ {c}}
  BY <1>1, <1>3, AnswerKeeps DEF Conflict
<1>4. CASE /\ UNCHANGED <<keyed, submitted, commands>>
           /\ k \in IdempotencyKeys /\ keyed[k] # NoReceipt /\ keyed[k].print = p
           /\ calls' = Answered(c, keyed[k].id)
  <2>1. keyed[k] \in Receipts
    BY <1>4 DEF RequestTypes
  <2>2. keyed[k].id \in CommandIds /\ keyed[k].id \in Int
    BY <2>1 DEF Receipts, CommandIds
  <2>3. Asks(keyed[k].id, p)
    BY <1>4 DEF RequestInv, ReceiptHasCommand
  <2> QED BY <1>1, <1>4, <2>2, <2>3, AnswerKeeps
<1> QED BY <1>2, <1>3, <1>4, SubmitOutcomes

\* The answer fails, or comes: the client keeps a receipt.
LEMMA ReturnKeeps ==
    ASSUME RequestTypes, RequestInv, NEW c \in calls, SubmitFails(c) \/ PostReturns(c)
    PROVE  RequestTypes' /\ RequestInv'
<1>1. /\ calls' = calls \ {c}
      /\ UNCHANGED <<posts, keyed, submitted, commands, processed, lookup>>
  BY DEF SubmitFails, PostReturns
<1>2. \/ UNCHANGED receipts
      \/ /\ c.answer \notin {NoAnswer, Conflict}
         /\ receipts' = [receipts EXCEPT ![c.request] = @ \cup {c.answer}]
  BY DEF SubmitFails, PostReturns
<1>3. c.request \in Requests
  BY DEF RequestTypes, Posted
<1>4. c.answer \notin {NoAnswer, Conflict} =>
         c.answer \in CommandIds /\ Asks(c.answer, PrintOf[c.request])
  BY DEF RequestInv, AnswersAreAsked
<1>5. \A r \in Requests : \A id \in receipts'[r] :
         id \in CommandIds /\ Asks(id, PrintOf[r])
  <2>1. \A r \in Requests : \A id \in receipts[r] :
           id \in CommandIds /\ Asks(id, PrintOf[r])
    BY DEF RequestTypes, RequestInv, AnswersAreAsked
  <2>2. CASE UNCHANGED receipts
    BY <2>1, <2>2
  <2>3. CASE /\ c.answer \notin {NoAnswer, Conflict}
             /\ receipts' = [receipts EXCEPT ![c.request] = @ \cup {c.answer}]
    BY <1>3, <1>4, <2>1, <2>3 DEF RequestTypes
  <2> QED BY <1>2, <2>2, <2>3
<1>6. RequestTypes'
  <2>1. receipts' \in [Requests -> SUBSET CommandIds]
    <3>1. receipts' = [r \in Requests |-> receipts'[r]]
      BY <1>2 DEF RequestTypes
    <3> QED BY <1>5, <3>1
  <2> QED BY <1>1, <2>1 DEF RequestTypes
<1>7. IdsAreOwn' /\ KeyHoldsReceipt' /\ ReceiptHasCommand' /\ ResultsOutlive'
  BY <1>1 DEF RequestInv, IdsAreOwn, KeyHoldsReceipt, ReceiptHasCommand, ResultsOutlive, Asks
<1>8. AnswersAreAsked'
  BY <1>1, <1>5 DEF RequestInv, AnswersAreAsked, Asks
<1> QED BY <1>6, <1>7, <1>8 DEF RequestInv

\* Both keys of a submission expire at once.
LEMMA SubmissionExpiresKeeps ==
    ASSUME RequestTypes, RequestInv, NEW id \in CommandIds, SubmissionExpires(id)
    PROVE  RequestTypes' /\ RequestInv'
<1>1. /\ submitted' = submitted \ {id}
      /\ keyed' = [k \in IdempotencyKeys |->
                    IF keyed[k] # NoReceipt /\ keyed[k].id = id THEN NoReceipt ELSE keyed[k]]
      /\ UNCHANGED <<posts, calls, commands, processed, receipts, lookup>>
  BY DEF SubmissionExpires
<1>2. RequestTypes'
  BY <1>1 DEF RequestTypes
<1>3. IdsAreOwn' /\ KeyHoldsReceipt' /\ ReceiptHasCommand' /\ AnswersAreAsked'
      /\ ResultsOutlive'
  BY <1>1 DEF RequestInv, IdsAreOwn, KeyHoldsReceipt, ReceiptHasCommand, AnswersAreAsked,
     ResultsOutlive, Asks
<1> QED BY <1>2, <1>3 DEF RequestInv

\* The result comes and expires.
LEMMA ResultKeeps ==
    ASSUME RequestTypes, RequestInv, NEW id \in CommandIds,
           FinishCommand(id) \/ ResultExpires(id)
    PROVE  RequestTypes' /\ RequestInv'
<1>1. UNCHANGED <<posts, calls, keyed, submitted, commands, receipts, lookup>>
  BY DEF FinishCommand, ResultExpires
<1>2. \/ /\ processed[id] = "no" /\ processed' = [processed EXCEPT ![id] = "kept"]
         /\ \E i \in DOMAIN commands : commands[i].id = id
      \/ /\ processed[id] = "kept" /\ processed' = [processed EXCEPT ![id] = "expired"]
         /\ id \notin submitted
  BY DEF FinishCommand, ResultExpires
<1>3. RequestTypes'
  BY <1>1, <1>2 DEF RequestTypes
<1>4. IdsAreOwn' /\ KeyHoldsReceipt' /\ ReceiptHasCommand' /\ AnswersAreAsked'
  BY <1>1 DEF RequestInv, IdsAreOwn, KeyHoldsReceipt, ReceiptHasCommand, AnswersAreAsked,
     Asks
<1>5. ResultsOutlive'
  BY <1>1, <1>2 DEF RequestInv, ResultsOutlive, RequestTypes
<1> QED BY <1>3, <1>4, <1>5 DEF RequestInv

\* The client asks for the result, in two reads.
LEMMA LookupKeeps ==
    ASSUME RequestTypes, RequestInv,
           \/ \E id \in CommandIds : LookupProcessed(id)
           \/ LookupSubmitted \/ LookupFails
    PROVE  RequestTypes' /\ RequestInv'
<1>1. UNCHANGED <<posts, calls, keyed, submitted, commands, processed, receipts>>
  BY DEF LookupProcessed, LookupSubmitted, LookupFails
<1>2. CommandIds \subseteq 0 .. MaxPosts /\ 0 \notin CommandIds
  BY RequestKeys DEF CommandIds
<1>3. lookup' \in [id : 0 .. MaxPosts, reading : BOOLEAN,
                   answer : {"none", "FINAL", "PENDING", "MISSING"}]
  <2> USE DEF RequestTypes
  <2>1. ASSUME NEW id \in CommandIds, LookupProcessed(id)
        PROVE  lookup' \in [id : 0 .. MaxPosts, reading : BOOLEAN,
                            answer : {"none", "FINAL", "PENDING", "MISSING"}]
    <3>1. \/ lookup' = [id |-> id, reading |-> FALSE, answer |-> "FINAL"]
          \/ lookup' = [lookup EXCEPT !.id = id, !.reading = TRUE]
      BY <2>1 DEF LookupProcessed
    <3> DEFINE Places == 0 .. MaxPosts
    <3>2. id \in Places
      BY <1>2
    <3>3. lookup \in [id : Places, reading : BOOLEAN,
                     answer : {"none", "FINAL", "PENDING", "MISSING"}]
      OBVIOUS
    <3> HIDE DEF Places
    <3>4. lookup' \in [id : Places, reading : BOOLEAN,
                      answer : {"none", "FINAL", "PENDING", "MISSING"}]
      <4>1. CASE lookup' = [id |-> id, reading |-> FALSE, answer |-> "FINAL"]
        BY <3>2, <4>1
      <4>2. CASE lookup' = [lookup EXCEPT !.id = id, !.reading = TRUE]
        BY <3>2, <3>3, <4>2
      <4> QED BY <3>1, <4>1, <4>2
    <3> QED BY <3>4 DEF Places
  <2>2. CASE LookupSubmitted
    BY <2>2 DEF LookupSubmitted
  <2>3. CASE LookupFails
    BY <2>3 DEF LookupFails
  <2> QED BY <2>1, <2>2, <2>3
<1>4. RequestTypes'
  BY <1>1, <1>3 DEF RequestTypes
<1>5. IdsAreOwn' /\ KeyHoldsReceipt' /\ ReceiptHasCommand' /\ AnswersAreAsked'
  BY <1>1 DEF RequestInv, IdsAreOwn, KeyHoldsReceipt, ReceiptHasCommand, AnswersAreAsked,
     Asks
<1>6. ResultsOutlive'
  <2> USE DEF RequestInv, ResultsOutlive
  <2>0. /\ lookup \in [id : 0 .. MaxPosts, reading : BOOLEAN,
                       answer : {"none", "FINAL", "PENDING", "MISSING"}]
        /\ \A id \in CommandIds : processed[id] \in {"no", "kept", "expired"}
    BY DEF RequestTypes
  <2>1. ASSUME NEW id \in CommandIds, LookupProcessed(id) PROVE ResultsOutlive'
    <3>1. lookup.id \in {0, id}
      BY <2>1 DEF LookupProcessed
    <3>2. lookup.answer = "FINAL" => lookup.id = id
      BY <1>2, <3>1
    <3>3. CASE processed[id] = "kept"
      <4>1. lookup' = [id |-> id, reading |-> FALSE, answer |-> "FINAL"]
        BY <2>1, <3>3 DEF LookupProcessed
      <4> QED BY <1>1, <3>3, <4>1
    <3>4. CASE processed[id] # "kept"
      <4>1. lookup' = [lookup EXCEPT !.id = id, !.reading = TRUE]
        BY <2>1, <3>4 DEF LookupProcessed
      <4>2. lookup'.id = id /\ lookup'.answer = lookup.answer
        BY <2>0, <4>1
      <4>3. lookup'.answer = "FINAL" => processed[id] = "expired"
        BY <2>0, <3>2, <3>4, <4>2
      <4> QED BY <1>1, <4>2, <4>3
    <3> QED BY <3>3, <3>4
  <2>2. CASE LookupSubmitted
    BY <1>1, <2>0, <2>2 DEF LookupSubmitted
  <2>3. CASE LookupFails
    BY <1>1, <2>0, <2>3 DEF LookupFails
  <2> QED BY <2>1, <2>2, <2>3
<1> QED BY <1>4, <1>5, <1>6 DEF RequestInv

\* Every step keeps the types and the invariant.
LEMMA RequestStep ==
    ASSUME RequestTypes, RequestInv, [RequestNext]_requestVars
    PROVE  RequestTypes' /\ RequestInv'
<1>1. CASE UNCHANGED requestVars
  BY <1>1 DEF requestVars, RequestTypes, RequestInv, IdsAreOwn, KeyHoldsReceipt,
     ReceiptHasCommand, AnswersAreAsked, ResultsOutlive, Asks
<1> QED BY <1>1, PostKeeps, SubmitKeeps, ReturnKeeps, SubmissionExpiresKeeps, ResultKeeps,
           LookupKeeps DEF RequestNext

-----------------------------------------------------------------------------
(* The theorems.                                                           *)

\* The types and the invariant hold from the start on.
THEOREM RequestHolds == RequestSpec => [](RequestTypes /\ RequestInv)
BY RequestBegins, RequestStep, PTL DEF RequestSpec

\* However often a request is posted under one key, it is one command while its
\* receipt lives, and whoever has a receipt gets what was asked for.
THEOREM AKeyIsOneCommand == RequestSpec => []OneCommandPerKey
<1>1. ASSUME RequestTypes, RequestInv PROVE OneCommandPerKey
  <2>1. ASSUME NEW k \in IdempotencyKeys
        PROVE  Cardinality({i \in DOMAIN commands :
                        commands[i].key = k /\ commands[i].id \in submitted}) <= 1
    <3> DEFINE C == {i \in DOMAIN commands :
                        commands[i].key = k /\ commands[i].id \in submitted}
    <3>1. \A i, j \in C : i = j
      BY <1>1 DEF RequestInv, IdsAreOwn, KeyHoldsReceipt
    <3>2. CASE C = {}
      BY <3>2, FS_EmptySet
    <3>3. ASSUME NEW i \in C PROVE Cardinality(C) <= 1
      <4>1. C = {i}
        BY <3>1
      <4> QED BY <4>1, FS_Singleton
    <3> QED BY <3>2, <3>3
  <2>2. \A r \in Requests : \A id \in receipts[r] : Asks(id, PrintOf[r])
    BY <1>1 DEF RequestInv, AnswersAreAsked
  <2>3. \A r \in Requests : \A id \in receipts[r] :
           \E i \in DOMAIN commands :
              commands[i].id = id /\ commands[i].print = PrintOf[r]
    BY <2>2 DEF Asks
  <2> QED BY <2>1, <2>3, Zenon DEF OneCommandPerKey
<1> QED BY <1>1, RequestHolds, PTL

\* Who was told a result is never told that the command is still pending, and
\* no command is denied while its receipt lives.
THEOREM TheAnswersAdvance == RequestSpec => AnswersAdvance
<1> DEFINE Advances ==
        lookup'.answer # lookup.answer =>
          /\ lookup.answer = "FINAL" => lookup'.answer = "MISSING"
          /\ lookup'.answer = "MISSING" => lookup.id \notin submitted
<1>1. ASSUME RequestTypes, RequestInv, RequestNext PROVE Advances
  <2> USE <1>1 DEF RequestTypes, RequestInv, ResultsOutlive
  <2>1. ASSUME NEW id \in CommandIds, LookupProcessed(id) PROVE Advances
    BY <2>1 DEF LookupProcessed
  <2>2. CASE LookupSubmitted
    BY <2>2 DEF LookupSubmitted
  <2>3. CASE LookupFails
    BY <2>3 DEF LookupFails
  <2>4. CASE UNCHANGED lookup
    BY <2>4
  <2>5. ASSUME NEW c \in calls, SubmitCommand(c) \/ SubmitFails(c) \/ PostReturns(c)
        PROVE  UNCHANGED lookup
    BY <2>5 DEF SubmitCommand, SubmitFails, PostReturns
  <2>6. ASSUME NEW id \in CommandIds,
               SubmissionExpires(id) \/ FinishCommand(id) \/ ResultExpires(id)
        PROVE  UNCHANGED lookup
    BY <2>6 DEF SubmissionExpires, FinishCommand, ResultExpires
  <2>7. ASSUME NEW r \in Requests, Post(r) PROVE UNCHANGED lookup
    BY <2>7 DEF Post
  <2> QED BY <2>1, <2>2, <2>3, <2>4, <2>5, <2>6, <2>7 DEF RequestNext
<1>2. RequestTypes /\ RequestInv /\ [RequestNext]_requestVars => [Advances]_requestVars
  BY <1>1
<1> QED BY <1>2, RequestHolds, PTL DEF RequestSpec, AnswersAdvance

-----------------------------------------------------------------------------
(* The way of an alert to the dashboard.  A reader's cursor and the answer *)
(* to a request are each right about a part of the outbox; that nothing is *)
(* missing is a matter of what is sent, asked for and seen together        *)
(* (SentOrSeen, HistoryCovers).                                            *)

Places(q) == 1 .. Len(q)
Values(q) == {q[i] : i \in Places(q)}

FetchRecords ==
    [token : Nat, stream : FeedStreams \cup {NoStream},
     read : Seq(AlertIds) \cup {Unread}, ofSocket : BOOLEAN]
SocketRecords ==
    [state : {"none", "connecting", "accepted", "open"},
     cursor : Nat \cup {Unresolved}, wire : Seq(AlertIds), from : Nat, openedAt : Nat,
     history : {"none", "asked", "read"}]

FeedTypes ==
    /\ outbox \in Seq(AlertIds \cup {Poison})
    /\ page \in [stream : FeedStreams \cup {NoStream}, token : Nat,
                 live : BOOLEAN, timer : BOOLEAN]
    /\ socket \in SocketRecords
    /\ fetches \subseteq FetchRecords
    /\ seen \subseteq AlertIds
    /\ shown \in Seq(AlertIds)

\* All of q are alerts of stream s.
AllOf(q, s) == \A i \in Places(q) : StreamOfAlert[q[i]] = s

\* A request knows its session: an answer for the current one is of its stream.
FetchesKnowSession ==
    \A f \in fetches :
       /\ f.token <= page.token
       /\ f.token = page.token => f.stream = page.stream
       /\ f.read # Unread => AllOf(f.read, f.stream)
       /\ f.token = page.token /\ f.ofSocket => socket.state = "open"

\* What is shown is what was seen, each once, and of the stream.
ShownIsSeen ==
    /\ \A i, j \in Places(shown) : shown[i] = shown[j] => i = j
    /\ Values(shown) = seen
    /\ AllOf(shown, page.stream) /\ AllOf(socket.wire, page.stream)

\* From where the cursor began, alerts of the stream were seen or are under way.
SentOrSeen ==
    /\ page.timer => socket.state = "none"
    /\ socket.openedAt <= Len(outbox)
    /\ socket.cursor # Unresolved =>
         /\ socket.from <= socket.cursor /\ socket.cursor <= Len(outbox)
         /\ \A i \in (socket.from + 1) .. socket.cursor :
               IsOf(outbox[i], page.stream) =>
                  outbox[i] \in seen \cup Values(socket.wire)

\* Alerts of the stream up to place n of the outbox are in S.
Covers(S, n) == \A i \in 1 .. n : IsOf(outbox[i], page.stream) => outbox[i] \in S

\* The history asked for when the socket opened holds what came before, and
\* once it was taken that has been seen.
HistoryCovers ==
    /\ \A f \in fetches : f.token = page.token /\ f.ofSocket /\ f.read # Unread =>
          Covers(Values(f.read), socket.openedAt)
    /\ socket.history = "read" => Covers(seen, socket.openedAt)

FeedInv == FetchesKnowSession /\ ShownIsSeen /\ SentOrSeen /\ HistoryCovers

\* What an answer or a message shows: the first of each alert not seen before.
Fresh(q) == {i \in DOMAIN q :
                q[i] \notin seen /\ \A j \in 1 .. i - 1 : q[j] # q[i]}

LEMMA FreshIs ==
    ASSUME NEW q, q \in Seq(AlertIds), NEW p, p = Pick(q, Fresh(q))
    PROVE  /\ p \in Seq(AlertIds)
           /\ \A i, j \in Places(p) : p[i] = p[j] => i = j
           /\ Values(p) = Values(q) \ seen
<1> DEFINE P == Fresh(q)
<1>1. Len(q) \in Nat /\ DOMAIN q = 1 .. Len(q)
  OBVIOUS
<1>2. \A i : i \in P <=> /\ i \in 1 .. Len(q) /\ q[i] \notin seen
                         /\ \A j \in 1 .. i - 1 : q[j] # q[i]
  BY <1>1 DEF Fresh
<1> HIDE DEF P
<1>3. p \in Seq(AlertIds) /\ \E at : TakenFrom(at, p, q, P, Len(q))
  BY PickIsTaken DEF P
<1>4. PICK at : TakenFrom(at, p, q, P, Len(q))
  BY <1>3
<1>5. /\ at \in [1 .. Len(p) -> {i \in 1 .. Len(q) : i \in P}]
      /\ \A k \in 1 .. Len(p) : p[k] = q[at[k]]
      /\ \A j, k \in 1 .. Len(p) : j < k => at[j] < at[k]
      /\ \A i \in 1 .. Len(q) : i \in P => \E k \in 1 .. Len(p) : at[k] = i
  BY <1>4, Zenon DEF TakenFrom
<1>6. \A k \in 1 .. Len(p) : at[k] \in 1 .. Len(q) /\ at[k] \in P
  BY <1>5
<1>7. Len(p) \in Nat
  BY <1>3
<1>8. \A i, j \in 1 .. Len(p) : i < j => p[i] # p[j]
  <2> SUFFICES ASSUME NEW i \in 1 .. Len(p), NEW j \in 1 .. Len(p), i < j
               PROVE  p[i] # p[j]
    OBVIOUS
  <2>1. at[i] < at[j] /\ at[i] \in 1 .. Len(q) /\ at[j] \in 1 .. Len(q)
        /\ at[j] \in P
    BY <1>5, <1>6
  <2>2. at[i] \in 1 .. at[j] - 1
    BY <1>1, <2>1
  <2>3. q[at[i]] # q[at[j]]
    BY <1>2, <2>1, <2>2
  <2> QED BY <1>5, <2>3
<1>9. \A i, j \in Places(p) : p[i] = p[j] => i = j
  <2> SUFFICES ASSUME NEW i \in 1 .. Len(p), NEW j \in 1 .. Len(p), p[i] = p[j]
               PROVE  i = j
    BY DEF Places
  <2>1. ~ (i < j) /\ ~ (j < i)
    BY <1>8
  <2> QED BY <1>7, <2>1
<1>10. ASSUME NEW v \in Values(p) PROVE v \in Values(q) /\ v \notin seen
  <2>1. PICK k \in 1 .. Len(p) : v = p[k]
    BY <1>10 DEF Values, Places
  <2>2. v = q[at[k]] /\ at[k] \in 1 .. Len(q) /\ at[k] \in P
    BY <1>5, <1>6, <2>1
  <2> QED BY <1>2, <2>2 DEF Values, Places
<1>11. ASSUME NEW v \in Values(q), v \notin seen PROVE v \in Values(p)
  <2> DEFINE T == {i \in 1 .. Len(q) : q[i] = v}
  <2>1. T \subseteq Nat /\ T # {}
    BY <1>1, <1>11 DEF Values, Places
  <2>2. PICK i \in T : \A j \in T : i <= j
    BY <2>1, NatHasMin
  <2>3. \A j \in 1 .. i - 1 : q[j] # q[i]
    BY <1>1, <2>2
  <2>4. i \in P /\ q[i] = v /\ i \in 1 .. Len(q)
    BY <1>2, <1>11, <2>2, <2>3
  <2>5. PICK k \in 1 .. Len(p) : at[k] = i
    BY <1>5, <2>4
  <2>6. p[k] = v
    BY <1>5, <2>4, <2>5
  <2> QED BY <2>6 DEF Values, Places
<1> QED BY <1>3, <1>9, <1>10, <1>11

\* What the client makes of a sequence of alerts of its stream.
LEMMA ProcessIs ==
    ASSUME FeedTypes, ShownIsSeen, NEW q, q \in Seq(AlertIds), ProcessAll(q),
           AllOf(q, page.stream), UNCHANGED page
    PROVE  /\ shown' \in Seq(AlertIds) /\ seen' \subseteq AlertIds
           /\ \A i, j \in Places(shown)' : shown'[i] = shown'[j] => i = j
           /\ Values(shown)' = seen'
           /\ seen' = seen \cup Values(q)
           /\ AllOf(shown, page.stream)'
<1>1. PICK p : p = Pick(q, Fresh(q))
  OBVIOUS
<1>2. PICK now : now = shown'
  OBVIOUS
<1>3. now = shown \o p
  BY <1>1, <1>2 DEF ProcessAll, Fresh
<1>4. /\ p \in Seq(AlertIds) /\ shown \in Seq(AlertIds)
      /\ \A i, j \in Places(p) : p[i] = p[j] => i = j
      /\ Values(p) = Values(q) \ seen
  BY <1>1, FreshIs DEF FeedTypes
<1> DEFINE m == Len(shown)
           n == Len(p)
<1>5. /\ now \in Seq(AlertIds) /\ Len(now) = m + n /\ m \in Nat /\ n \in Nat
      /\ \A i \in 1 .. m : i \in 1 .. m + n /\ now[i] = shown[i]
      /\ \A i \in 1 .. n : m + i \in 1 .. m + n /\ now[m + i] = p[i]
  <2>1. /\ now \in Seq(AlertIds) /\ Len(now) = Len(shown) + Len(p)
        /\ \A i \in 1 .. Len(shown) : /\ i \in 1 .. Len(shown) + Len(p)
                                      /\ now[i] = shown[i]
        /\ \A i \in 1 .. Len(p) : /\ Len(shown) + i \in 1 .. Len(shown) + Len(p)
                                  /\ now[Len(shown) + i] = p[i]
    BY <1>3, <1>4, ConcatAt
  <2>2. m \in Nat /\ n \in Nat
    BY <1>4
  <2> QED BY <2>1, <2>2
<1>6. \A i \in 1 .. m + n : \/ i \in 1 .. m
                            \/ i - m \in 1 .. n /\ m + (i - m) = i
  BY <1>5
<1>7. \A i \in 1 .. m + n : \/ i \in 1 .. m /\ now[i] = shown[i]
                            \/ i - m \in 1 .. n /\ now[i] = p[i - m]
  BY <1>5, <1>6
<1>8. /\ \A i \in 1 .. m : shown[i] \in seen
      /\ \A i, j \in 1 .. m : shown[i] = shown[j] => i = j
      /\ \A t \in seen : \E i \in 1 .. m : shown[i] = t
      /\ \A i \in 1 .. n : p[i] \notin seen /\ p[i] \in Values(q)
      /\ \A i, j \in 1 .. n : p[i] = p[j] => i = j
      /\ \A t \in Values(q) \ seen : \E i \in 1 .. n : p[i] = t
      /\ \A i \in 1 .. m : StreamOfAlert[shown[i]] = page.stream
      /\ \A t \in Values(q) : StreamOfAlert[t] = page.stream
      /\ Values(q) \subseteq AlertIds
  <2>1. \A i \in 1 .. m : shown[i] \in seen
    BY DEF ShownIsSeen, Values, Places
  <2>2. \A t \in seen : \E i \in 1 .. m : shown[i] = t
    BY DEF ShownIsSeen, Values, Places
  <2>3. \A i \in 1 .. n : p[i] \in Values(p)
    BY DEF Values, Places
  <2>4. \A t \in Values(p) : \E i \in 1 .. n : p[i] = t
    BY DEF Values, Places
  <2>5. Values(q) \subseteq AlertIds
    BY DEF Values, Places
  <2>6. \A t \in Values(q) : StreamOfAlert[t] = page.stream
    BY DEF Values, AllOf
  <2>7. \A i, j \in 1 .. m : shown[i] = shown[j] => i = j
    BY DEF ShownIsSeen, Places
  <2>8. \A i, j \in 1 .. n : p[i] = p[j] => i = j
    BY <1>4 DEF Places
  <2>9. \A i \in 1 .. m : StreamOfAlert[shown[i]] = page.stream
    BY DEF ShownIsSeen, AllOf, Places
  <2> HIDE DEF m, n
  <2> QED BY <1>4, <2>1, <2>2, <2>3, <2>4, <2>5, <2>6, <2>7, <2>8, <2>9
<1>9. seen' = seen \cup Values(q)
  <2>1. DOMAIN q = 1 .. Len(q)
    OBVIOUS
  <2>2. ToSet(q) = {q[i] : i \in DOMAIN q}
    BY DEF ToSet
  <2>3. ToSet(q) = Values(q)
    BY <2>1, <2>2, Zenon DEF Values, Places
  <2>4. seen' = seen \cup ToSet(q)
    BY Zenon DEF ProcessAll
  <2> QED BY <2>3, <2>4
<1> HIDE DEF m, n
<1>10. \A i, j \in 1 .. m + n : now[i] = now[j] => i = j
  <2> SUFFICES ASSUME NEW i \in 1 .. m + n, NEW j \in 1 .. m + n, now[i] = now[j]
               PROVE  i = j
    OBVIOUS
  <2>1. CASE i \in 1 .. m /\ j \in 1 .. m
    BY <1>5, <1>8, <2>1
  <2>2. CASE i - m \in 1 .. n /\ j - m \in 1 .. n
    <3>1. now[i] = p[i - m] /\ now[j] = p[j - m]
      BY <1>5, <1>6, <2>2
    <3>2. i - m = j - m
      BY ZenonT(40), <1>8, <2>2, <3>1
    <3> QED BY <1>5, <3>2
  <2>3. CASE i \in 1 .. m /\ j - m \in 1 .. n
    <3>1. now[i] = shown[i] /\ now[j] = p[j - m]
      BY <1>5, <1>6, <2>3
    <3> QED BY <1>8, <2>3, <3>1
  <2>4. CASE i - m \in 1 .. n /\ j \in 1 .. m
    <3>1. now[i] = p[i - m]
      BY <1>5, <1>6, <2>4
    <3>2. now[j] = shown[j]
      BY <1>5, <1>6, <2>4
    <3>3. p[i - m] \notin seen /\ shown[j] \in seen
      BY <1>8, <2>4
    <3> QED BY <3>1, <3>2, <3>3
  <2> QED BY <1>6, <2>1, <2>2, <2>3, <2>4
<1>11. \A i \in 1 .. m + n : now[i] \in seen \cup Values(q)
  BY <1>7, <1>8
<1>12. \A t \in seen \cup Values(q) : \E i \in 1 .. m + n : now[i] = t
  <2> SUFFICES ASSUME NEW t \in seen \cup Values(q)
               PROVE  \E i \in 1 .. m + n : now[i] = t
    OBVIOUS
  <2>1. CASE t \in seen
    BY <1>5, <1>8, <2>1
  <2>2. CASE t \in Values(q) \ seen
    <3>1. PICK i \in 1 .. n : p[i] = t
      BY <1>8, <2>2
    <3>2. m + i \in 1 .. m + n /\ now[m + i] = t
      BY <1>5, <3>1
    <3> QED BY <3>2
  <2> QED BY <2>1, <2>2
<1>13. /\ \A i, j \in Places(now) : now[i] = now[j] => i = j
       /\ Values(now) = seen \cup Values(q)
       /\ \A i \in Places(now) : StreamOfAlert[now[i]] = page.stream
  <2>1. Places(now) = 1 .. m + n
    BY <1>5 DEF Places
  <2>2. \A i \in 1 .. m + n : StreamOfAlert[now[i]] = page.stream
    BY <1>7, <1>8
  <2>3. Values(now) = {now[i] : i \in 1 .. m + n}
    BY <2>1 DEF Values
  <2>4. Values(now) = seen \cup Values(q)
    BY <1>11, <1>12, <2>3
  <2> QED BY <1>10, <2>1, <2>2, <2>4
<1>14. /\ Places(shown)' = Places(now) /\ Values(shown)' = Values(now)
       /\ shown' = now
  BY <1>2 DEF Places, Values
<1>15. seen' \subseteq AlertIds
  BY <1>8, <1>9 DEF FeedTypes
<1>16. AllOf(shown, page.stream)'
  BY <1>13, <1>14 DEF AllOf
<1> QED BY <1>5, <1>9, <1>13, <1>14, <1>15, <1>16

-----------------------------------------------------------------------------
(* One lemma for each action of the browser and of the API.                *)

LEMMA FeedBegins == FeedInit => FeedTypes /\ FeedInv
<1> SUFFICES ASSUME FeedInit PROVE FeedTypes /\ FeedInv
  OBVIOUS
<1>1. socket = [state |-> "none", cursor |-> Unresolved, wire |-> <<>>,
                from |-> 0, openedAt |-> 0, history |-> "none"]
  BY DEF FeedInit, NoSocket
<1>2. FeedTypes
  <2>1. outbox \in Seq(AlertIds \cup {Poison}) /\ shown \in Seq(AlertIds)
    BY DEF FeedInit
  <2>2. socket \in SocketRecords
    BY <1>1 DEF SocketRecords
  <2>3. page \in [stream : FeedStreams \cup {NoStream}, token : Nat,
                  live : BOOLEAN, timer : BOOLEAN]
    BY DEF FeedInit
  <2> QED BY <2>1, <2>2, <2>3 DEF FeedInit, FeedTypes
<1>3. FetchesKnowSession /\ HistoryCovers
  BY <1>1 DEF FeedInit, FetchesKnowSession, HistoryCovers
<1>4. ShownIsSeen
  BY <1>1 DEF FeedInit, ShownIsSeen, AllOf, Values, Places
<1>5. SentOrSeen
  BY <1>1 DEF FeedInit, SentOrSeen
<1> QED BY <1>2, <1>3, <1>4, <1>5 DEF FeedInv

\* What the proofs below use of the types.
LEMMA FeedParts ==
    ASSUME FeedTypes
    PROVE  /\ Len(outbox) \in Nat /\ page.token \in Nat
           /\ socket.from \in Nat /\ socket.openedAt \in Nat
           /\ socket.cursor \in Nat \cup {Unresolved}
           /\ socket.wire \in Seq(AlertIds)
           /\ page.stream \in FeedStreams \cup {NoStream}
           /\ socket.state \in {"none", "connecting", "accepted", "open"}
           /\ socket.history \in {"none", "asked", "read"}
           /\ \A f \in fetches : /\ f.token \in Nat /\ f.ofSocket \in BOOLEAN
                                 /\ f.read \in Seq(AlertIds) \cup {Unread}
                                 /\ f.stream \in FeedStreams \cup {NoStream}
BY DEF FeedTypes, SocketRecords, FetchRecords

LEMMA StartKeeps ==
    ASSUME FeedTypes, FeedInv, NEW s \in FeedStreams, StartSession(s)
    PROVE  FeedTypes' /\ FeedInv'
<1> USE DEF FeedInv
<1> DEFINE f0 == [token |-> page.token + 2, stream |-> s, read |-> Unread,
                  ofSocket |-> FALSE]
<1>1. /\ page' = [stream |-> s, token |-> page.token + 2, live |-> TRUE,
                  timer |-> FALSE]
      /\ socket' = [state |-> "connecting", cursor |-> Unresolved,
                    wire |-> <<>>, from |-> 0, openedAt |-> 0,
                    history |-> "none"]
      /\ fetches' = fetches \cup {f0}
      /\ seen' = {} /\ shown' = <<>> /\ outbox' = outbox
  BY DEF StartSession, NoSocket, NewFetch
<1>2. /\ page.token \in Nat /\ Len(outbox) \in Nat
      /\ \A f \in fetches : f.token \in Nat
  BY FeedParts
<1>3. \A f \in fetches : f.token <= page.token + 2 /\ f.token # page.token + 2
  BY <1>2 DEF FetchesKnowSession
<1>4. FeedTypes'
  <2>1. f0 \in FetchRecords
    BY <1>2 DEF FetchRecords
  <2>2. socket' \in SocketRecords
    BY <1>1 DEF SocketRecords
  <2>3. page' \in [stream : FeedStreams \cup {NoStream}, token : Nat,
                   live : BOOLEAN, timer : BOOLEAN]
    BY <1>1, <1>2
  <2>4. shown' \in Seq(AlertIds)
    BY <1>1
  <2> HIDE DEF f0
  <2> QED BY <1>1, <2>1, <2>2, <2>3, <2>4 DEF FeedTypes
<1>5. FetchesKnowSession'
  BY <1>1, <1>2, <1>3 DEF FetchesKnowSession, AllOf, Places
<1>6. ShownIsSeen'
  BY <1>1 DEF ShownIsSeen, AllOf, Values, Places
<1>7. SentOrSeen'
  BY <1>1, <1>2 DEF SentOrSeen
<1>8. HistoryCovers'
  BY <1>1, <1>3 DEF HistoryCovers
<1> QED BY <1>4, <1>5, <1>6, <1>7, <1>8

LEMMA StopKeeps ==
    ASSUME FeedTypes, FeedInv, StopSession
    PROVE  FeedTypes' /\ FeedInv'
<1> USE DEF FeedInv
<1>1. /\ page' = [stream |-> page.stream, token |-> page.token + 1,
                  live |-> FALSE, timer |-> FALSE]
      /\ socket' = [state |-> "none", cursor |-> Unresolved,
                    wire |-> <<>>, from |-> 0, openedAt |-> 0,
                    history |-> "none"]
      /\ UNCHANGED <<outbox, fetches, seen, shown>>
  BY DEF StopSession, NoSocket, FeedTypes
<1>2. /\ page.token \in Nat /\ Len(outbox) \in Nat
      /\ \A f \in fetches : f.token \in Nat
      /\ page.stream \in FeedStreams \cup {NoStream}
  BY FeedParts
<1>3. \A f \in fetches : f.token <= page.token + 1 /\ f.token # page.token + 1
  BY <1>2 DEF FetchesKnowSession
<1>4. FeedTypes'
  <2>1. socket' \in SocketRecords
    BY <1>1 DEF SocketRecords
  <2>2. page' \in [stream : FeedStreams \cup {NoStream}, token : Nat,
                   live : BOOLEAN, timer : BOOLEAN]
    BY <1>1, <1>2
  <2> QED BY <1>1, <2>1, <2>2 DEF FeedTypes
<1>5. FetchesKnowSession'
  BY <1>1, <1>2, <1>3 DEF FetchesKnowSession, AllOf, Places
<1>6. ShownIsSeen'
  BY <1>1 DEF ShownIsSeen, AllOf, Values, Places
<1>7. SentOrSeen'
  BY <1>1, <1>2 DEF SentOrSeen
<1>8. HistoryCovers'
  BY <1>1, <1>3 DEF HistoryCovers
<1> QED BY <1>4, <1>5, <1>6, <1>7, <1>8

LEMMA OpensKeeps ==
    ASSUME FeedTypes, FeedInv, SocketOpens
    PROVE  FeedTypes' /\ FeedInv'
<1> USE DEF FeedInv
<1> DEFINE f0 == [token |-> page.token, stream |-> page.stream,
                  read |-> Unread, ofSocket |-> TRUE]
<1>1. /\ socket.state = "accepted"
      /\ socket' = [state |-> "open", cursor |-> socket.cursor,
                    wire |-> socket.wire, from |-> socket.from,
                    openedAt |-> Len(outbox), history |-> "asked"]
      /\ fetches' = fetches \cup {f0}
      /\ UNCHANGED <<outbox, page, seen, shown>>
  BY DEF SocketOpens, NewFetch, FeedTypes, SocketRecords
<1>2. FeedTypes'
  <2>1. f0 \in FetchRecords
    BY FeedParts DEF FetchRecords
  <2>2. socket' \in SocketRecords
    BY <1>1, FeedParts DEF SocketRecords
  <2> HIDE DEF f0
  <2> QED BY <1>1, <2>1, <2>2 DEF FeedTypes
<1>3. FetchesKnowSession'
  BY <1>1, FeedParts DEF FetchesKnowSession, AllOf, Places
<1>4. ShownIsSeen'
  BY <1>1 DEF ShownIsSeen, AllOf, Values, Places
<1>5. SentOrSeen'
  <2>1. page.timer = FALSE
    BY <1>1 DEF SentOrSeen, FeedTypes
  <2> QED BY <1>1, <2>1, FeedParts DEF SentOrSeen, Values, Places
<1>6. HistoryCovers'
  BY <1>1 DEF HistoryCovers, FetchesKnowSession
<1> QED BY <1>2, <1>3, <1>4, <1>5, <1>6

LEMMA ReceiveKeeps ==
    ASSUME FeedTypes, FeedInv, ReceiveMessage
    PROVE  FeedTypes' /\ FeedInv'
<1> USE DEF FeedInv
<1> DEFINE head == Head(socket.wire)
           rest == Tail(socket.wire)
<1>1. /\ ProcessAll(<<head>>) /\ socket.wire # <<>>
      /\ socket' = [state |-> socket.state, cursor |-> socket.cursor,
                    wire |-> rest, from |-> socket.from,
                    openedAt |-> socket.openedAt, history |-> socket.history]
      /\ UNCHANGED <<outbox, page, fetches>>
  BY DEF ReceiveMessage, FeedTypes, SocketRecords
<1>2. /\ head \in AlertIds /\ rest \in Seq(AlertIds)
      /\ Values(socket.wire) = {head} \cup Values(rest)
      /\ StreamOfAlert[head] = page.stream /\ AllOf(rest, page.stream)
  <2>1. PICK w : w = socket.wire
    OBVIOUS
  <2>2. /\ w \in Seq(AlertIds) /\ w # <<>> /\ Len(w) \in Nat /\ Len(w) > 0
        /\ rest \in Seq(AlertIds) /\ Len(rest) = Len(w) - 1 /\ head = w[1]
        /\ \A i \in 1 .. Len(w) - 1 : rest[i] = w[i + 1]
    BY <1>1, <2>1, FeedParts
  <2> HIDE DEF head, rest
  <2>3. \A i \in 1 .. Len(w) - 1 : i + 1 \in 1 .. Len(w)
    BY <2>2
  <2>4. \A i \in 1 .. Len(w) : \/ i = 1
                               \/ i - 1 \in 1 .. Len(w) - 1 /\ w[i] = rest[i - 1]
    <3> SUFFICES ASSUME NEW i \in 1 .. Len(w), i # 1
                 PROVE  i - 1 \in 1 .. Len(w) - 1 /\ w[i] = rest[i - 1]
      OBVIOUS
    <3>1. i - 1 \in 1 .. Len(w) - 1 /\ (i - 1) + 1 = i
      BY <2>2
    <3> QED BY <2>2, <3>1
  <2>5. Values(w) = {head} \cup Values(rest)
    <3>1. ASSUME NEW v \in Values(w) PROVE v \in {head} \cup Values(rest)
      <4>1. PICK i \in 1 .. Len(w) : v = w[i]
        BY <3>1 DEF Values, Places
      <4>2. CASE i = 1
        BY <2>2, <4>1, <4>2
      <4>3. CASE i - 1 \in 1 .. Len(w) - 1 /\ w[i] = rest[i - 1]
        BY <2>2, <4>1, <4>3 DEF Values, Places
      <4> QED BY <2>4, <4>2, <4>3
    <3>2. head \in Values(w)
      <4>1. 1 \in 1 .. Len(w)
        BY <2>2
      <4> QED BY <2>2, <4>1 DEF Values, Places
    <3>3. Values(rest) \subseteq Values(w)
      BY <2>2, <2>3 DEF Values, Places
    <3> QED BY <3>1, <3>2, <3>3
  <2>6. \A i \in 1 .. Len(w) : StreamOfAlert[w[i]] = page.stream /\ w[i] \in AlertIds
    BY <2>1, <2>2 DEF ShownIsSeen, AllOf, Places
  <2>7. 1 \in 1 .. Len(w)
    BY <2>2
  <2>8. AllOf(rest, page.stream)
    BY <2>2, <2>3, <2>6 DEF AllOf, Places
  <2> QED BY <2>1, <2>2, <2>5, <2>6, <2>7, <2>8
<1> HIDE DEF head, rest
<1>3. PICK q : q = <<head>>
  OBVIOUS
<1>4. q \in Seq(AlertIds) /\ AllOf(q, page.stream) /\ Values(q) = {head}
  BY <1>2, <1>3 DEF AllOf, Values, Places
<1>5. ProcessAll(q) /\ UNCHANGED page
  BY <1>1, <1>3
<1>6. /\ shown' \in Seq(AlertIds) /\ seen' \subseteq AlertIds
      /\ \A i, j \in Places(shown)' : shown'[i] = shown'[j] => i = j
      /\ Values(shown)' = seen'
      /\ seen' = seen \cup Values(q)
      /\ AllOf(shown, page.stream)'
  BY <1>4, <1>5, ProcessIs
<1>7. FeedTypes'
  <2>1. socket' \in SocketRecords
    BY <1>1, <1>2, FeedParts DEF SocketRecords
  <2> QED BY <1>1, <1>6, <2>1 DEF FeedTypes
<1>8. FetchesKnowSession'
  BY <1>1 DEF FetchesKnowSession, AllOf, Places
<1>9. ShownIsSeen'
  <2>1. AllOf(socket.wire, page.stream)'
    BY <1>1, <1>2 DEF AllOf, Places
  <2> QED BY <1>6, <2>1 DEF ShownIsSeen
<1>10. SentOrSeen'
  <2>1. Values(socket.wire)' = Values(rest)
    BY <1>1 DEF Values, Places
  <2>2. seen' \cup Values(socket.wire)' = seen \cup Values(socket.wire)
    BY <1>2, <1>4, <1>6, <2>1
  <2> QED BY <1>1, <2>2 DEF SentOrSeen
<1>11. HistoryCovers'
  BY <1>1, <1>6 DEF HistoryCovers, Covers, Values, Places
<1> QED BY <1>7, <1>8, <1>9, <1>10, <1>11

LEMMA LoseKeeps ==
    ASSUME FeedTypes, FeedInv, LoseSocket
    PROVE  FeedTypes' /\ FeedInv'
<1> USE DEF FeedInv
<1>1. /\ page' = [stream |-> page.stream, token |-> page.token,
                  live |-> page.live, timer |-> TRUE]
      /\ socket' = [state |-> "none", cursor |-> Unresolved,
                    wire |-> <<>>, from |-> 0, openedAt |-> 0,
                    history |-> "none"]
      /\ UNCHANGED <<outbox, seen, shown>>
  BY DEF LoseSocket, NoSocket, FeedTypes
<1>2. fetches' = {[f EXCEPT !.ofSocket = FALSE] : f \in fetches}
  BY DEF LoseSocket
<1>3. ASSUME NEW g \in fetches'
      PROVE  \E f \in fetches :
                g = [token |-> f.token, stream |-> f.stream, read |-> f.read,
                     ofSocket |-> FALSE]
  <2>1. PICK f \in fetches : g = [f EXCEPT !.ofSocket = FALSE]
    BY <1>2
  <2> QED BY <2>1 DEF FeedTypes, FetchRecords
<1>4. FeedTypes'
  <2>1. socket' \in SocketRecords
    BY <1>1 DEF SocketRecords
  <2>2. page' \in [stream : FeedStreams \cup {NoStream}, token : Nat,
                   live : BOOLEAN, timer : BOOLEAN]
    BY <1>1 DEF FeedTypes
  <2>3. ASSUME NEW g \in fetches' PROVE g \in FetchRecords
    <3>1. PICK f \in fetches :
             g = [token |-> f.token, stream |-> f.stream, read |-> f.read,
                  ofSocket |-> FALSE]
      BY <1>3
    <3>2. PICK t, s, r : t = f.token /\ s = f.stream /\ r = f.read
      OBVIOUS
    <3>3. /\ t \in Nat /\ s \in FeedStreams \cup {NoStream}
          /\ r \in Seq(AlertIds) \cup {Unread}
      BY <3>2, FeedParts
    <3>4. g = [token |-> t, stream |-> s, read |-> r, ofSocket |-> FALSE]
      BY <3>1, <3>2
    <3> QED BY <3>3, <3>4 DEF FetchRecords
  <2> QED BY <1>1, <2>1, <2>2, <2>3 DEF FeedTypes
<1>5. FetchesKnowSession'
  BY <1>1, <1>3 DEF FetchesKnowSession, AllOf, Places
<1>6. ShownIsSeen'
  BY <1>1 DEF ShownIsSeen, AllOf, Values, Places
<1>7. SentOrSeen'
  BY <1>1, FeedParts DEF SentOrSeen
<1>8. HistoryCovers'
  BY <1>1, <1>3 DEF HistoryCovers
<1> QED BY <1>4, <1>5, <1>6, <1>7, <1>8

LEMMA ReconnectKeeps ==
    ASSUME FeedTypes, FeedInv, Reconnect
    PROVE  FeedTypes' /\ FeedInv'
<1> USE DEF FeedInv
<1>1. /\ page.timer
      /\ page' = [stream |-> page.stream, token |-> page.token,
                  live |-> page.live, timer |-> FALSE]
      /\ socket' = [state |-> "connecting", cursor |-> Unresolved,
                    wire |-> <<>>, from |-> 0, openedAt |-> 0,
                    history |-> "none"]
      /\ UNCHANGED <<outbox, fetches, seen, shown>>
  BY DEF Reconnect, NoSocket, FeedTypes
<1>2. socket.state = "none"
  BY <1>1 DEF SentOrSeen
<1>3. FeedTypes'
  <2>1. socket' \in SocketRecords
    BY <1>1 DEF SocketRecords
  <2>2. page' \in [stream : FeedStreams \cup {NoStream}, token : Nat,
                   live : BOOLEAN, timer : BOOLEAN]
    BY <1>1 DEF FeedTypes
  <2> QED BY <1>1, <2>1, <2>2 DEF FeedTypes
<1>4. FetchesKnowSession'
  BY <1>1, <1>2 DEF FetchesKnowSession, AllOf, Places
<1>5. ShownIsSeen'
  BY <1>1 DEF ShownIsSeen, AllOf, Values, Places
<1>6. SentOrSeen'
  BY <1>1, FeedParts DEF SentOrSeen
<1>7. HistoryCovers'
  BY <1>1, <1>2 DEF HistoryCovers, FetchesKnowSession
<1> QED BY <1>3, <1>4, <1>5, <1>6, <1>7

LEMMA AcceptKeeps ==
    ASSUME FeedTypes, FeedInv, AcceptSocket
    PROVE  FeedTypes' /\ FeedInv'
<1> USE DEF FeedInv
<1>1. /\ socket.state = "connecting"
      /\ socket' = [state |-> "accepted", cursor |-> socket.cursor,
                    wire |-> socket.wire, from |-> socket.from,
                    openedAt |-> socket.openedAt, history |-> socket.history]
      /\ UNCHANGED <<outbox, page, fetches, seen, shown>>
  BY DEF AcceptSocket, FeedTypes, SocketRecords
<1>2. FeedTypes'
  <2>1. socket' \in SocketRecords
    BY <1>1, FeedParts DEF SocketRecords
  <2> QED BY <1>1, <2>1 DEF FeedTypes
<1>3. FetchesKnowSession'
  BY <1>1 DEF FetchesKnowSession, AllOf, Places
<1>4. ShownIsSeen'
  BY <1>1 DEF ShownIsSeen, AllOf, Values, Places
<1>5. SentOrSeen'
  <2>1. page.timer = FALSE
    BY <1>1 DEF SentOrSeen, FeedTypes
  <2> QED BY <1>1, <2>1 DEF SentOrSeen, Values, Places
<1>6. HistoryCovers'
  BY <1>1 DEF HistoryCovers, Covers, Values, Places
<1> QED BY <1>2, <1>3, <1>4, <1>5, <1>6

LEMMA ResolveKeeps ==
    ASSUME FeedTypes, FeedInv, ResolveCursor
    PROVE  FeedTypes' /\ FeedInv'
<1> USE DEF FeedInv
<1>1. /\ socket.state \in {"accepted", "open"}
      /\ socket' = [state |-> socket.state, cursor |-> Len(outbox),
                    wire |-> socket.wire, from |-> Len(outbox),
                    openedAt |-> socket.openedAt, history |-> socket.history]
      /\ UNCHANGED <<outbox, page, fetches, seen, shown>>
  BY DEF ResolveCursor, FeedTypes, SocketRecords
<1>2. FeedTypes'
  <2>1. socket' \in SocketRecords
    BY <1>1, FeedParts DEF SocketRecords
  <2> QED BY <1>1, <2>1 DEF FeedTypes
<1>3. FetchesKnowSession'
  BY <1>1 DEF FetchesKnowSession, AllOf, Places
<1>4. ShownIsSeen'
  BY <1>1 DEF ShownIsSeen, AllOf, Values, Places
<1>5. SentOrSeen'
  <2>1. page.timer = FALSE
    BY <1>1 DEF SentOrSeen, FeedTypes
  <2>2. Len(outbox) \in Nat /\ (Len(outbox) + 1) .. Len(outbox) = {}
    BY FeedParts
  <2> QED BY <1>1, <2>1, <2>2 DEF SentOrSeen
<1>6. HistoryCovers'
  BY <1>1 DEF HistoryCovers, Covers, Values, Places
<1> QED BY <1>2, <1>3, <1>4, <1>5, <1>6

LEMMA FollowKeeps ==
    ASSUME FeedTypes, FeedInv, Follow
    PROVE  FeedTypes' /\ FeedInv'
<1> USE DEF FeedInv
<1> DEFINE n == socket.cursor + 1
           sent == IsOf(outbox[n], page.stream)
           w == IF sent THEN Append(socket.wire, outbox[n]) ELSE socket.wire
<1>1. /\ socket.cursor # Unresolved /\ socket.cursor < Len(outbox)
      /\ socket' = [state |-> socket.state, cursor |-> n, wire |-> w,
                    from |-> socket.from, openedAt |-> socket.openedAt,
                    history |-> socket.history]
      /\ UNCHANGED <<outbox, page, fetches, seen, shown>>
  BY DEF Follow, FeedTypes, SocketRecords
<1>2. /\ n \in Nat /\ n \in 1 .. Len(outbox) /\ Len(outbox) \in Nat
      /\ socket.cursor \in Nat /\ n = socket.cursor + 1
      /\ socket.from \in Nat /\ socket.openedAt \in Nat
      /\ outbox[n] \in AlertIds \cup {Poison}
  BY <1>1, FeedParts DEF FeedTypes
<1>3. /\ w \in Seq(AlertIds) /\ AllOf(w, page.stream)
      /\ Values(socket.wire) \subseteq Values(w)
      /\ sent => outbox[n] \in Values(w)
  <2>1. PICK v : v = socket.wire
    OBVIOUS
  <2>2. v \in Seq(AlertIds) /\ AllOf(v, page.stream)
    BY <2>1, FeedParts DEF ShownIsSeen
  <2>3. CASE sent
    <3>1. PICK e : e = outbox[n]
      OBVIOUS
    <3>2. e \in AlertIds /\ StreamOfAlert[e] = page.stream
      BY <1>2, <2>3, <3>1 DEF IsOf
    <3>3. w = Append(v, e)
      BY <2>1, <2>3, <3>1
    <3> HIDE DEF w, n, sent
    <3>4. /\ w \in Seq(AlertIds) /\ Len(w) = Len(v) + 1 /\ Len(v) \in Nat
          /\ \A i \in 1 .. Len(v) : w[i] = v[i] /\ i \in 1 .. Len(v) + 1
          /\ w[Len(v) + 1] = e /\ Len(v) + 1 \in 1 .. Len(v) + 1
          /\ \A i \in 1 .. Len(v) + 1 : i \in 1 .. Len(v) \/ i = Len(v) + 1
      BY <2>2, <3>2, <3>3
    <3>5. AllOf(w, page.stream)
      BY <2>2, <3>2, <3>4 DEF AllOf, Places
    <3>6. Values(v) \subseteq Values(w) /\ e \in Values(w)
      BY <3>4 DEF Values, Places
    <3> QED BY <2>1, <3>1, <3>4, <3>5, <3>6
  <2>4. CASE ~ sent
    BY <2>1, <2>2, <2>4
  <2> QED BY <2>3, <2>4
<1> HIDE DEF w, sent
<1>4. FeedTypes'
  <2>1. socket' \in SocketRecords
    <3> HIDE DEF n
    <3> QED BY <1>1, <1>2, <1>3, FeedParts DEF SocketRecords
  <2> QED BY <1>1, <2>1 DEF FeedTypes
<1>5. FetchesKnowSession'
  BY <1>1 DEF FetchesKnowSession, AllOf, Places
<1>6. ShownIsSeen'
  <2>1. AllOf(socket.wire, page.stream)'
    BY <1>1, <1>3 DEF AllOf, Places
  <2> QED BY <1>1, <2>1 DEF ShownIsSeen, AllOf, Values, Places
<1>7. SentOrSeen'
  <2>1. /\ socket.from <= socket.cursor /\ socket.openedAt <= Len(outbox)
        /\ \A i \in (socket.from + 1) .. socket.cursor :
              IsOf(outbox[i], page.stream) =>
                 outbox[i] \in seen \cup Values(socket.wire)
        /\ page.timer => socket.state = "none"
    BY <1>1 DEF SentOrSeen
  <2>2. \A i \in (socket.from + 1) .. n :
           i \in (socket.from + 1) .. socket.cursor \/ i = n
    BY <1>2
  <2>3. \A i \in (socket.from + 1) .. n :
           IsOf(outbox[i], page.stream) => outbox[i] \in seen \cup Values(w)
    BY <1>3, <2>1, <2>2 DEF sent
  <2>4. socket.from <= n /\ n <= Len(outbox)
    BY <1>2, <2>1
  <2>5. Values(socket.wire)' = Values(w)
    BY <1>1 DEF Values, Places
  <2> HIDE DEF n
  <2> QED BY <1>1, <2>1, <2>3, <2>4, <2>5 DEF SentOrSeen
<1>8. HistoryCovers'
  BY <1>1 DEF HistoryCovers, Covers, Values, Places
<1> QED BY <1>4, <1>5, <1>6, <1>7, <1>8

LEMMA AlertKeeps ==
    ASSUME FeedTypes, FeedInv, PublishAlert
    PROVE  FeedTypes' /\ FeedInv'
<1> USE DEF FeedInv
<1>1. PICK e : /\ e \in Published[Len(outbox) + 1]
               /\ Len(outbox) < Len(Published)
               /\ outbox' = Append(outbox, e)
               /\ UNCHANGED <<page, socket, fetches, seen, shown>>
  BY DEF PublishAlert
<1>2. e \in AlertIds \cup {Poison}
  <2>1. Len(outbox) + 1 \in 1 .. Len(Published)
    BY <1>1, FeedAssumption, FeedParts
  <2>2. Published[Len(outbox) + 1] \in SUBSET (AlertIds \cup {Poison})
    BY <2>1, FeedAssumption
  <2> QED BY <1>1, <2>2
<1>3. /\ outbox' \in Seq(AlertIds \cup {Poison})
      /\ Len(outbox') = Len(outbox) + 1 /\ Len(outbox) \in Nat
      /\ \A i \in 1 .. Len(outbox) : outbox'[i] = outbox[i]
  BY <1>1, <1>2 DEF FeedTypes
<1>4. FeedTypes'
  BY <1>1, <1>3 DEF FeedTypes
<1>5. FetchesKnowSession'
  BY <1>1 DEF FetchesKnowSession, AllOf, Places
<1>6. ShownIsSeen'
  BY <1>1 DEF ShownIsSeen, AllOf, Values, Places
<1>7. SentOrSeen'
  <2>1. socket.openedAt \in Nat /\ socket.openedAt <= Len(outbox)
    BY FeedParts DEF SentOrSeen
  <2>2. CASE socket.cursor = Unresolved
    BY <1>1, <1>3, <2>1, <2>2 DEF SentOrSeen
  <2>3. CASE socket.cursor # Unresolved
    <3>1. /\ socket.cursor \in Nat /\ socket.from \in Nat
          /\ socket.from <= socket.cursor /\ socket.cursor <= Len(outbox)
      BY <2>3, FeedParts DEF SentOrSeen
    <3>2. \A i \in (socket.from + 1) .. socket.cursor : outbox'[i] = outbox[i]
      BY <1>3, <3>1
    <3>3. \A i \in (socket.from + 1) .. socket.cursor :
             IsOf(outbox'[i], page.stream) =>
                outbox'[i] \in seen \cup Values(socket.wire)
      BY <2>3, <3>2 DEF SentOrSeen
    <3>4. socket.cursor <= Len(outbox') /\ socket.openedAt <= Len(outbox')
      BY <1>3, <2>1, <3>1
    <3> QED BY <1>1, <3>1, <3>3, <3>4 DEF SentOrSeen, Values, Places
  <2> QED BY <2>2, <2>3
<1>8. HistoryCovers'
  <2>1. socket.openedAt \in Nat /\ socket.openedAt <= Len(outbox)
    BY FeedParts DEF SentOrSeen
  <2>2. \A i \in 1 .. socket.openedAt : outbox'[i] = outbox[i]
    BY <1>3, <2>1
  <2> QED BY <1>1, <2>2 DEF HistoryCovers, Covers, Values, Places
<1> QED BY <1>4, <1>5, <1>6, <1>7, <1>8

\* The history of a stream is all its alerts in the outbox, and they only.
LEMMA RecentIs ==
    ASSUME FeedTypes, NEW s, NEW r, r = Recent(s)
    PROVE  /\ r \in Seq(AlertIds) /\ AllOf(r, s)
           /\ \A i \in 1 .. Len(outbox) : IsOf(outbox[i], s) => outbox[i] \in Values(r)
<1> DEFINE P == {i \in DOMAIN outbox : IsOf(outbox[i], s)}
           R == AlertIds \cup {Poison}
<1>1. outbox \in Seq(R) /\ Len(outbox) \in Nat
      /\ \A i \in 1 .. Len(outbox) : outbox[i] \in R
  BY DEF FeedTypes
<1>2. \A i : i \in P <=> i \in 1 .. Len(outbox) /\ IsOf(outbox[i], s)
  BY <1>1
<1>3. \A e \in R : IsOf(e, s) => e \in AlertIds /\ StreamOfAlert[e] = s
  BY DEF IsOf
<1>4. r = Pick(outbox, P)
  BY DEF Recent
<1> HIDE DEF P, R
<1>5. r \in Seq(R) /\ \E at : TakenFrom(at, r, outbox, P, Len(outbox))
  BY <1>1, <1>4, PickIsTaken
<1>6. PICK at : TakenFrom(at, r, outbox, P, Len(outbox))
  BY <1>5
<1>7. /\ at \in [1 .. Len(r) -> {i \in 1 .. Len(outbox) : i \in P}]
      /\ \A k \in 1 .. Len(r) : r[k] = outbox[at[k]]
      /\ \A i \in 1 .. Len(outbox) : i \in P => \E k \in 1 .. Len(r) : at[k] = i
  BY <1>6, Zenon DEF TakenFrom
<1>8. \A k \in 1 .. Len(r) : at[k] \in 1 .. Len(outbox) /\ at[k] \in P
  BY <1>7
<1>9. \A k \in 1 .. Len(r) : r[k] \in AlertIds /\ StreamOfAlert[r[k]] = s
  BY <1>1, <1>2, <1>3, <1>7, <1>8
<1>10. r \in Seq(AlertIds)
  BY <1>5, <1>9
<1>11. ASSUME NEW i \in 1 .. Len(outbox), IsOf(outbox[i], s)
       PROVE  outbox[i] \in Values(r)
  <2>1. i \in P
    BY <1>2, <1>11
  <2>2. PICK k \in 1 .. Len(r) : at[k] = i
    BY <1>7, <2>1
  <2>3. r[k] = outbox[i]
    BY <1>7, <2>2
  <2> QED BY <2>3 DEF Values, Places
<1> QED BY <1>9, <1>10, <1>11 DEF AllOf, Places

LEMMA RecentKeeps ==
    ASSUME FeedTypes, FeedInv, NEW f \in fetches, ReadHistory(f)
    PROVE  FeedTypes' /\ FeedInv'
<1> USE DEF FeedInv
<1>1. PICK r : r = Recent(f.stream)
  OBVIOUS
<1> DEFINE g == [token |-> f.token, stream |-> f.stream, read |-> r,
                 ofSocket |-> f.ofSocket]
<1>2. /\ fetches' = (fetches \ {f}) \cup {g}
      /\ UNCHANGED <<outbox, page, socket, seen, shown>>
  <2>1. [f EXCEPT !.read = r] = g
    BY DEF FeedTypes, FetchRecords
  <2> QED BY <1>1, <2>1 DEF ReadHistory
<1>3. /\ r \in Seq(AlertIds) /\ AllOf(r, f.stream)
      /\ \A i \in 1 .. Len(outbox) :
            IsOf(outbox[i], f.stream) => outbox[i] \in Values(r)
  BY <1>1, RecentIs
<1>4. /\ g.token = f.token /\ g.stream = f.stream /\ g.read = r
      /\ g.ofSocket = f.ofSocket
  OBVIOUS
<1>5. g \in FetchRecords
  BY <1>3, FeedParts DEF FetchRecords
<1> HIDE DEF g
<1>6. FeedTypes'
  BY <1>2, <1>5 DEF FeedTypes
<1>7. FetchesKnowSession'
  <2>1. /\ g.token <= page.token
        /\ g.token = page.token => g.stream = page.stream
        /\ AllOf(g.read, g.stream)
        /\ g.token = page.token /\ g.ofSocket => socket.state = "open"
    BY <1>3, <1>4 DEF FetchesKnowSession
  <2> QED BY <1>2, <2>1 DEF FetchesKnowSession, AllOf, Places
<1>8. ShownIsSeen'
  BY <1>2 DEF ShownIsSeen, AllOf, Values, Places
<1>9. SentOrSeen'
  BY <1>2 DEF SentOrSeen, Values, Places
<1>10. HistoryCovers'
  <2>1. g.token = page.token => Covers(Values(g.read), socket.openedAt)
    <3>1. socket.openedAt \in Nat /\ socket.openedAt <= Len(outbox)
          /\ Len(outbox) \in Nat
      BY FeedParts DEF SentOrSeen
    <3>2. \A i \in 1 .. socket.openedAt : i \in 1 .. Len(outbox)
      BY <3>1
    <3> QED BY <1>3, <1>4, <3>2 DEF Covers, FetchesKnowSession
  <2> QED BY <1>2, <2>1 DEF HistoryCovers, Covers, Values, Places
<1> QED BY <1>6, <1>7, <1>8, <1>9, <1>10

LEMMA FailsKeeps ==
    ASSUME FeedTypes, FeedInv, NEW f \in fetches, HistoryFails(f)
    PROVE  FeedTypes' /\ FeedInv'
<1> USE DEF FeedInv
<1>1. /\ fetches' \subseteq fetches
      /\ UNCHANGED <<outbox, page, socket, seen, shown>>
  BY DEF HistoryFails
<1>2. FeedTypes'
  BY <1>1 DEF FeedTypes
<1>3. FetchesKnowSession'
  BY <1>1 DEF FetchesKnowSession, AllOf, Places
<1>4. ShownIsSeen' /\ SentOrSeen'
  BY <1>1 DEF ShownIsSeen, SentOrSeen, AllOf, Values, Places
<1>5. HistoryCovers'
  BY <1>1 DEF HistoryCovers, Covers, Values, Places
<1> QED BY <1>2, <1>3, <1>4, <1>5

LEMMA AnswersKeeps ==
    ASSUME FeedTypes, FeedInv, NEW f \in fetches, HistoryAnswers(f)
    PROVE  FeedTypes' /\ FeedInv'
<1> USE DEF FeedInv
<1>1. fetches' \subseteq fetches /\ f.read # Unread /\ UNCHANGED <<outbox, page>>
  BY DEF HistoryAnswers
<1>2. socket'.state = socket.state => FetchesKnowSession'
  BY <1>1 DEF FetchesKnowSession, AllOf, Places
<1>3. CASE f.token # page.token
  <2>1. UNCHANGED <<socket, seen, shown>>
    BY <1>3 DEF HistoryAnswers
  <2>2. FeedTypes'
    BY <1>1, <2>1 DEF FeedTypes
  <2>3. ShownIsSeen' /\ SentOrSeen'
    BY <1>1, <2>1 DEF ShownIsSeen, SentOrSeen, AllOf, Values, Places
  <2>4. HistoryCovers'
    BY <1>1, <2>1 DEF HistoryCovers, Covers, Values, Places
  <2> QED BY <1>2, <2>1, <2>2, <2>3, <2>4
<1>4. CASE f.token = page.token
  <2>1. PICK q : q = f.read
    OBVIOUS
  <2>2. q \in Seq(AlertIds) /\ AllOf(q, page.stream) /\ ProcessAll(q)
    BY <1>1, <1>4, <2>1, FeedParts DEF HistoryAnswers, FetchesKnowSession
  <2>3. /\ shown' \in Seq(AlertIds) /\ seen' \subseteq AlertIds
        /\ \A i, j \in Places(shown)' : shown'[i] = shown'[j] => i = j
        /\ Values(shown)' = seen'
        /\ seen' = seen \cup Values(q)
        /\ AllOf(shown, page.stream)'
    BY <1>1, <2>2, ProcessIs
  <2>4. PICK h : /\ h = IF f.ofSocket THEN "read" ELSE socket.history
                 /\ h \in {"none", "asked", "read"}
    BY FeedParts
  <2>5. socket' = [state |-> socket.state, cursor |-> socket.cursor,
                   wire |-> socket.wire, from |-> socket.from,
                   openedAt |-> socket.openedAt, history |-> h]
    BY <1>4, <2>4 DEF HistoryAnswers, FeedTypes, SocketRecords
  <2>6. FeedTypes'
    <3>1. socket' \in SocketRecords
      BY <2>4, <2>5, FeedParts DEF SocketRecords
    <3> QED BY <1>1, <2>3, <3>1 DEF FeedTypes
  <2>7. ShownIsSeen'
    <3>1. AllOf(socket.wire, page.stream)'
      BY <1>1, <2>5 DEF ShownIsSeen, AllOf, Places
    <3> QED BY <2>3, <3>1 DEF ShownIsSeen
  <2>8. SentOrSeen'
    BY <1>1, <2>3, <2>5 DEF SentOrSeen, Values, Places
  <2>9. HistoryCovers'
    <3>1. h = "read" => Covers(seen', socket.openedAt)
      <4>1. CASE f.ofSocket
        <5>1. Covers(Values(q), socket.openedAt)
          BY <1>1, <1>4, <2>1, <4>1 DEF HistoryCovers
        <5> QED BY <2>3, <5>1 DEF Covers
      <4>2. CASE ~ f.ofSocket
        BY <2>3, <2>4, <4>2 DEF HistoryCovers, Covers
      <4> QED BY <4>1, <4>2
    <3> QED BY <1>1, <2>5, <3>1 DEF HistoryCovers, Covers, Values, Places
  <2> QED BY <1>2, <2>5, <2>6, <2>7, <2>8, <2>9
<1> QED BY <1>3, <1>4

LEMMA FeedStep == FeedTypes /\ FeedInv /\ [FeedNext]_feedVars => (FeedTypes /\ FeedInv)'
<1> SUFFICES ASSUME FeedTypes, FeedInv, [FeedNext]_feedVars
             PROVE  FeedTypes' /\ FeedInv'
  OBVIOUS
<1>1. ASSUME NEW s \in FeedStreams, StartSession(s) PROVE FeedTypes' /\ FeedInv'
  BY <1>1, StartKeeps
<1>2. CASE StopSession \/ SocketOpens \/ ReceiveMessage \/ LoseSocket \/ Reconnect
  BY <1>2, StopKeeps, OpensKeeps, ReceiveKeeps, LoseKeeps, ReconnectKeeps
<1>3. ASSUME NEW f \in fetches, ReadHistory(f) \/ HistoryAnswers(f) \/ HistoryFails(f)
      PROVE  FeedTypes' /\ FeedInv'
  BY <1>3, RecentKeeps, AnswersKeeps, FailsKeeps
<1>4. CASE PublishAlert \/ AcceptSocket \/ ResolveCursor \/ Follow
  BY <1>4, AlertKeeps, AcceptKeeps, ResolveKeeps, FollowKeeps
<1>5. CASE UNCHANGED feedVars
  <2>1. UNCHANGED <<outbox, page, socket, fetches, seen, shown>>
    BY <1>5 DEF feedVars
  <2>2. FeedTypes'
    BY <2>1 DEF FeedTypes
  <2>3. FetchesKnowSession' /\ ShownIsSeen' /\ SentOrSeen' /\ HistoryCovers'
    BY <2>1 DEF FeedInv, FetchesKnowSession, ShownIsSeen, SentOrSeen,
       HistoryCovers, Covers, AllOf, Values, Places
  <2> QED BY <2>2, <2>3 DEF FeedInv
<1> QED BY <1>1, <1>2, <1>3, <1>4, <1>5, Zenon DEF FeedNext

\* What the browser, its requests and its connection hold between them, in
\* every state.
THEOREM FeedHolds == FeedSpec => [](FeedTypes /\ FeedInv)
BY FeedBegins, FeedStep, PTL DEF FeedSpec

\* An alert is shown once, in the session of its stream only, and after the
\* history was taken and the connection has delivered all there is, none is
\* missing but what came between the opening and the cursor.
THEOREM AlertsAreShown == FeedSpec => []AlertsShown
<1>1. FeedTypes /\ FeedInv => AlertsShown
  <2> SUFFICES ASSUME FeedTypes, FeedInv PROVE AlertsShown
    OBVIOUS
  <2> USE DEF FeedInv
  <2>1. DOMAIN shown = Places(shown) /\ ToSet(shown) = Values(shown)
    <3>1. DOMAIN shown = 1 .. Len(shown)
      BY DEF FeedTypes
    <3>2. ToSet(shown) = {shown[i] : i \in DOMAIN shown}
      BY DEF ToSet
    <3> QED BY <3>1, <3>2, Zenon DEF Values, Places
  <2>2. ASSUME CaughtUp,
               NEW i \in (1 .. socket.openedAt) \cup (socket.from + 1 .. Len(outbox)),
               IsOf(outbox[i], page.stream)
        PROVE  outbox[i] \in seen
    <3>1. CASE i \in 1 .. socket.openedAt
      BY <2>2, <3>1 DEF CaughtUp, HistoryCovers, Covers
    <3>2. CASE i \in socket.from + 1 .. Len(outbox)
      <4>1. Len(outbox) \in Nat /\ socket.cursor = Len(outbox)
            /\ socket.wire = <<>>
        BY <2>2, FeedParts DEF CaughtUp
      <4>2. socket.cursor # Unresolved /\ Values(socket.wire) = {}
        BY <4>1 DEF Unresolved, Values, Places
      <4> QED BY <2>2, <3>2, <4>1, <4>2 DEF SentOrSeen
    <3> QED BY <2>2, <3>1, <3>2
  <2>3. CaughtUp =>
           ShownOf((1 .. socket.openedAt) \cup (socket.from + 1 .. Len(outbox)))
    BY <2>1, <2>2 DEF ShownOf, ShownIsSeen
  <2> QED BY <2>1, <2>3 DEF AlertsShown, ShownIsSeen, AllOf
<1> QED BY <1>1, FeedHolds, PTL

-----------------------------------------------------------------------------
(* The variants.                                                           *)

\* A list of anything.
IsList(q) == q \in Seq(ToSet(q))

\* What has places 1 .. n is a list.
LEMMA ListIs ==
    ASSUME NEW q, NEW n \in Nat, DOMAIN q = 1 .. n, q = [i \in 1 .. n |-> q[i]]
    PROVE  IsList(q) /\ Len(q) = n
<1>1. q \in [1 .. n -> ToSet(q)]
  BY DEF ToSet
<1> QED BY <1>1 DEF IsList

\* A list is a function of its places.
LEMMA ListFacts ==
    ASSUME NEW q, IsList(q)
    PROVE  /\ Len(q) \in Nat /\ DOMAIN q = 1 .. Len(q)
           /\ q = [i \in 1 .. Len(q) |-> q[i]]
           /\ \A v \in ToSet(q) : \E i \in 1 .. Len(q) : q[i] = v
           /\ \A i \in 1 .. Len(q) : q[i] \in ToSet(q)
BY DEF IsList, ToSet

\* A sequence is a list of its entries.
LEMMA SeqIsList ==
    ASSUME NEW R, NEW q \in Seq(R)
    PROVE  IsList(q)
<1>1. Len(q) \in Nat /\ DOMAIN q = 1 .. Len(q) /\ q = [i \in 1 .. Len(q) |-> q[i]]
  OBVIOUS
<1> QED BY <1>1, ListIs

\* What Pick keeps, and how much.
LEMMA PickKeeps ==
    ASSUME NEW q, IsList(q), NEW P, P \subseteq DOMAIN q
    PROVE  LET s == Pick(q, P)
           IN  /\ IsList(s) /\ Len(s) = Cardinality(P)
               /\ IsFiniteSet(P)
               /\ ToSet(s) = {q[i] : i \in P}
               /\ \E at : TakenFrom(at, s, q, P, Len(q))
<1> DEFINE s == Pick(q, P)
<1>1. Len(q) \in Nat /\ DOMAIN q = 1 .. Len(q)
  BY ListFacts
<1>2. s \in Seq(ToSet(q)) /\ \E at : TakenFrom(at, s, q, P, Len(q))
  BY PickIsTaken DEF IsList
<1> HIDE DEF s
<1>3. IsList(s)
  BY <1>2, SeqIsList
<1>4. PICK at : TakenFrom(at, s, q, P, Len(q))
  BY <1>2
<1>5. Len(s) \in Nat /\ DOMAIN s = 1 .. Len(s)
  BY <1>3, ListFacts
<1>6. {i \in 1 .. Len(q) : i \in P} = P
  BY <1>1
<1>7. /\ at \in [1 .. Len(s) -> P]
      /\ \A k \in 1 .. Len(s) : s[k] = q[at[k]]
      /\ \A j, k \in 1 .. Len(s) : at[j] = at[k] => j = k
      /\ \A i \in P : \E k \in 1 .. Len(s) : at[k] = i
  <2>1. \A j, k \in 1 .. Len(s) : j < k => at[j] < at[k]
    BY <1>4 DEF TakenFrom
  <2>2. at \in [1 .. Len(s) -> P]
    BY <1>4, <1>6 DEF TakenFrom
  <2>3. \A k \in 1 .. Len(s) : at[k] \in Nat
    BY <1>1, <2>2
  <2>4. \A j, k \in 1 .. Len(s) : at[j] = at[k] => j = k
    BY <1>5, <2>1, <2>3
  <2> QED BY <1>1, <1>4, <2>2, <2>4 DEF TakenFrom
<1>8. IsFiniteSet(P) /\ Cardinality(P) = Len(s)
  <2> DEFINE n == Len(s)
  <2>1. n \in Nat
    BY <1>5
  <2>2. at \in [1 .. n -> P]
    BY <1>7
  <2>3. \A i, j \in 1 .. n : at[i] = at[j] => i = j
    BY <1>7
  <2>4. \A t \in P : \E i \in 1 .. n : at[i] = t
    BY <1>7
  <2> HIDE DEF n
  <2>5. IsFiniteSet(P) /\ Cardinality(P) = n
    BY ONLY <2>1, <2>2, <2>3, <2>4, ListedOnce
  <2> QED BY <2>5 DEF n
<1>9. ToSet(s) = {q[i] : i \in P}
  BY <1>5, <1>7 DEF ToSet
<1> QED BY <1>2, <1>3, <1>8, <1>9 DEF s

\* No two entries of a list are one rendition.
Distinct(q) == \A i, j \in DOMAIN q : Mark(q[i]) = Mark(q[j]) => i = j

\* What Pick keeps of a list without repetition has none.
LEMMA PickDistinct ==
    ASSUME NEW q, IsList(q), Distinct(q), NEW P, P \subseteq DOMAIN q
    PROVE  Distinct(Pick(q, P))
<1> DEFINE s == Pick(q, P)
<1>1. PICK at : TakenFrom(at, s, q, P, Len(q))
  BY PickKeeps
<1>2. IsList(s)
  BY PickKeeps
<1> HIDE DEF s
<1>3. DOMAIN s = 1 .. Len(s) /\ Len(s) \in Nat /\ DOMAIN q = 1 .. Len(q)
      /\ Len(q) \in Nat
  BY <1>2, ListFacts
<1>4. \A k \in 1 .. Len(s) : at[k] \in 1 .. Len(q) /\ s[k] = q[at[k]]
  BY <1>1 DEF TakenFrom
<1>5. \A j, k \in 1 .. Len(s) : j < k => at[j] < at[k]
  BY <1>1 DEF TakenFrom
<1>6. Distinct(s)
  <2> SUFFICES ASSUME NEW j \in 1 .. Len(s), NEW k \in 1 .. Len(s),
                      Mark(s[j]) = Mark(s[k])
               PROVE  j = k
    BY <1>3 DEF Distinct
  <2>1. at[j] = at[k]
    BY <1>3, <1>4 DEF Distinct
  <2> QED BY <1>3, <1>4, <1>5, <2>1
<1> QED BY <1>6 DEF s

\* What two lists in a row hold.
LEMMA ConcatHolds ==
    ASSUME NEW q, IsList(q), NEW r, IsList(r)
    PROVE  /\ IsList(q \o r) /\ Len(q \o r) = Len(q) + Len(r)
           /\ ToSet(q \o r) = ToSet(q) \cup ToSet(r)
           /\ \A i \in 1 .. Len(q) : (q \o r)[i] = q[i]
           /\ \A i \in 1 .. Len(r) : (q \o r)[Len(q) + i] = r[i]
<1> DEFINE S == ToSet(q) \cup ToSet(r)
           s == q \o r
<1>1. q \in Seq(S) /\ r \in Seq(S)
  <2>1. \A R, T : \A x \in Seq(R) : R \subseteq T => x \in Seq(T)
    BY ONLY TRUE
  <2> QED BY <2>1 DEF IsList
<1>2. Len(q) \in Nat /\ Len(r) \in Nat /\ DOMAIN q = 1 .. Len(q)
      /\ DOMAIN r = 1 .. Len(r)
  BY ListFacts
<1> HIDE DEF S
<1>3. /\ s \in Seq(S) /\ Len(s) = Len(q) + Len(r)
      /\ \A i \in 1 .. Len(q) : s[i] = q[i]
      /\ \A i \in 1 .. Len(r) : s[Len(q) + i] = r[i]
  BY <1>1, ConcatAt
<1> HIDE DEF s
<1>4. IsList(s) /\ DOMAIN s = 1 .. Len(q) + Len(r)
  BY <1>3, SeqIsList
<1>5. ToSet(s) = ToSet(q) \cup ToSet(r)
  <2>1. ASSUME NEW i \in DOMAIN s PROVE s[i] \in ToSet(q) \cup ToSet(r)
    <3>1. CASE i <= Len(q)
      BY <1>2, <1>3, <1>4, <3>1 DEF ToSet
    <3>2. CASE i > Len(q)
      <4>1. i - Len(q) \in 1 .. Len(r) /\ Len(q) + (i - Len(q)) = i
        BY <1>2, <1>4, <3>2
      <4> QED BY <1>2, <1>3, <4>1 DEF ToSet
    <3> QED BY <1>2, <1>4, <3>1, <3>2
  <2>2. ASSUME NEW i \in DOMAIN q PROVE q[i] \in ToSet(s)
    BY <1>2, <1>3, <1>4 DEF ToSet
  <2>3. ASSUME NEW i \in DOMAIN r PROVE r[i] \in ToSet(s)
    <3>1. Len(q) + i \in DOMAIN s
      BY <1>2, <1>4
    <3> QED BY <1>2, <1>3, <3>1 DEF ToSet
  <2> QED BY <2>1, <2>2, <2>3 DEF ToSet
<1> QED BY <1>3, <1>4, <1>5 DEF s

\* Two lists that share no rendition are distinct in a row.
LEMMA ConcatDistinct ==
    ASSUME NEW q, IsList(q), Distinct(q), NEW r, IsList(r), Distinct(r),
           \A v \in ToSet(q) : \A w \in ToSet(r) : Mark(v) # Mark(w)
    PROVE  Distinct(q \o r)
<1> DEFINE s == q \o r
<1>1. /\ IsList(s) /\ Len(s) = Len(q) + Len(r)
      /\ \A i \in 1 .. Len(q) : s[i] = q[i]
      /\ \A i \in 1 .. Len(r) : s[Len(q) + i] = r[i]
  BY ConcatHolds
<1> HIDE DEF s
<1>2. Len(q) \in Nat /\ Len(r) \in Nat /\ DOMAIN s = 1 .. Len(q) + Len(r)
      /\ DOMAIN q = 1 .. Len(q) /\ DOMAIN r = 1 .. Len(r)
  BY <1>1, ListFacts
<1>3. \A i \in 1 .. Len(q) + Len(r) : i <= Len(q) \/ i - Len(q) \in 1 .. Len(r)
  BY <1>2
<1>4. \A i \in 1 .. Len(q) + Len(r) :
         IF i <= Len(q) THEN s[i] = q[i] /\ q[i] \in ToSet(q) /\ i \in 1 .. Len(q)
         ELSE /\ i - Len(q) \in 1 .. Len(r) /\ s[i] = r[i - Len(q)]
              /\ r[i - Len(q)] \in ToSet(r)
  <2> TAKE i \in 1 .. Len(q) + Len(r)
  <2>1. CASE i <= Len(q)
    BY <1>1, <1>2, <2>1 DEF ToSet
  <2>2. CASE ~ (i <= Len(q))
    <3>1. i - Len(q) \in 1 .. Len(r) /\ Len(q) + (i - Len(q)) = i
      BY <1>2, <2>2
    <3> QED BY <1>1, <1>2, <2>2, <3>1 DEF ToSet
  <2> QED BY <2>1, <2>2
<1>5. Distinct(s)
  <2> SUFFICES ASSUME NEW i \in 1 .. Len(q) + Len(r), NEW j \in 1 .. Len(q) + Len(r),
                      Mark(s[i]) = Mark(s[j])
               PROVE  i = j
    BY <1>2 DEF Distinct
  <2>1. CASE i <= Len(q) /\ j <= Len(q)
    BY <1>2, <1>4, <2>1 DEF Distinct
  <2>2. CASE ~ (i <= Len(q)) /\ ~ (j <= Len(q))
    <3>1. /\ i - Len(q) \in DOMAIN r /\ s[i] = r[i - Len(q)]
          /\ j - Len(q) \in DOMAIN r /\ s[j] = r[j - Len(q)]
      BY <1>2, <1>4, <2>2
    <3>2. Mark(r[i - Len(q)]) = Mark(r[j - Len(q)])
      BY <3>1
    <3>3. i - Len(q) = j - Len(q)
      BY <3>1, <3>2 DEF Distinct
    <3> QED BY <1>2, <3>3
  <2>3. CASE i <= Len(q) /\ ~ (j <= Len(q))
    BY <1>4, <2>3
  <2>4. CASE ~ (i <= Len(q)) /\ j <= Len(q)
    BY <1>4, <2>4
  <2> QED BY <2>1, <2>2, <2>3, <2>4
<1> QED BY <1>5 DEF s

\* In a list without repetition the mark tells the entry.
LEMMA SameMark ==
    ASSUME NEW q, Distinct(q), NEW v \in ToSet(q), NEW w \in ToSet(q), Mark(v) = Mark(w)
    PROVE  v = w
BY DEF Distinct, ToSet

-----------------------------------------------------------------------------
\* A rendition that _quality_key rates.
Rated(v) == Pixels(v) \in Nat /\ v.bandwidth \in Nat /\ v.stable[2][1] \in Nat

AllRated(q) == IsList(q) /\ \A v \in ToSet(q) : Rated(v)

\* _quality_key orders the renditions, with ties.
LEMMA WorseOrder ==
    ASSUME NEW a, Rated(a), NEW b, Rated(b), NEW c, Rated(c)
    PROVE  /\ ~ WorseThan(a, a)
           /\ WorseThan(a, b) => ~ WorseThan(b, a)
           /\ (WorseThan(a, b) /\ WorseThan(b, c)) => WorseThan(a, c)
           /\ (~ WorseThan(a, b) /\ ~ WorseThan(b, c)) => ~ WorseThan(a, c)
BY DEF Rated, WorseThan

\* sorted() puts place j of q before place i.
Ahead(q, j, i) ==
    WorseThan(q[j], q[i]) \/ (~ WorseThan(q[i], q[j]) /\ j < i)

RankIn(q, i) == Cardinality({j \in DOMAIN q : Ahead(q, j, i)})

\* sorted(), with the rank of a place spelt out.
LEMMA RankedIs ==
    ASSUME NEW q
    PROVE  Ranked(q) = [k \in DOMAIN q |->
                          q[CHOOSE i \in DOMAIN q : RankIn(q, i) = k - 1]]
BY Zenon DEF Ranked, RankIn, Ahead

\* The places of a list are strictly and totally ordered.
LEMMA AheadOrder ==
    ASSUME NEW q, AllRated(q), NEW i \in DOMAIN q, NEW j \in DOMAIN q, NEW k \in DOMAIN q
    PROVE  /\ ~ Ahead(q, i, i)
           /\ Ahead(q, i, j) => ~ Ahead(q, j, i)
           /\ i # j => Ahead(q, i, j) \/ Ahead(q, j, i)
           /\ (Ahead(q, i, j) /\ Ahead(q, j, k)) => Ahead(q, i, k)
<1>1. DOMAIN q = 1 .. Len(q) /\ Len(q) \in Nat
  BY ListFacts DEF AllRated
<1>2. Rated(q[i]) /\ Rated(q[j]) /\ Rated(q[k])
  BY <1>1, ListFacts DEF AllRated
<1> DEFINE a == q[i]
           b == q[j]
           c == q[k]
<1>3. Rated(a) /\ Rated(b) /\ Rated(c)
  BY <1>2
<1> HIDE DEF a, b, c
<1>4. /\ ~ WorseThan(a, a)
      /\ WorseThan(a, b) => ~ WorseThan(b, a)
      /\ (WorseThan(a, b) /\ WorseThan(b, c)) => WorseThan(a, c)
      /\ (~ WorseThan(a, b) /\ ~ WorseThan(b, c)) => ~ WorseThan(a, c)
  BY <1>3, WorseOrder
<1>5. /\ (~ WorseThan(c, b) /\ ~ WorseThan(b, a)) => ~ WorseThan(c, a)
      /\ (WorseThan(c, a) /\ ~ WorseThan(b, a)) => WorseThan(c, b)
      /\ (~ WorseThan(c, b) /\ WorseThan(c, a)) => WorseThan(b, a)
      /\ (~ WorseThan(b, a) /\ ~ WorseThan(a, c)) => ~ WorseThan(b, c)
      /\ (~ WorseThan(a, c) /\ ~ WorseThan(c, b)) => ~ WorseThan(a, b)
      /\ WorseThan(b, c) => ~ WorseThan(c, b)
  BY <1>3, WorseOrder
<1>6. i \in Nat /\ j \in Nat /\ k \in Nat
  BY <1>1
<1> QED BY <1>4, <1>5, <1>6 DEF a, b, c, Ahead

\* There are n numbers up to n.
LEMMA CountTo ==
    ASSUME NEW n \in Nat
    PROVE  /\ IsFiniteSet(1 .. n) /\ Cardinality(1 .. n) = n
           /\ IsFiniteSet(0 .. n - 1) /\ Cardinality(0 .. n - 1) = n
<1>1. IsFiniteSet(1 .. n) /\ Cardinality(1 .. n) = n
  BY FS_Interval
<1> DEFINE m == n - 1
<1>2. m \in Int /\ 0 \in Int
  OBVIOUS
<1>3. IsFiniteSet(0 .. m) /\ Cardinality(0 .. m) = IF 0 > m THEN 0 ELSE m - 0 + 1
  <2> HIDE DEF m
  <2> QED BY <1>2, FS_Interval
<1> QED BY <1>1, <1>3

\* A place has a later rank than those that sorted() puts before it.
LEMMA RankGrows ==
    ASSUME NEW q, AllRated(q), NEW i \in DOMAIN q, NEW j \in DOMAIN q
    PROVE  /\ RankIn(q, i) \in 0 .. Len(q) - 1
           /\ Ahead(q, i, j) => RankIn(q, i) < RankIn(q, j)
<1>1. DOMAIN q = 1 .. Len(q) /\ Len(q) \in Nat
  BY ListFacts DEF AllRated
<1> DEFINE D == DOMAIN q
           A == {k \in D : Ahead(q, k, i)}
           B == {k \in D : Ahead(q, k, j)}
<1>2. IsFiniteSet(D) /\ Cardinality(D) = Len(q)
  BY <1>1, CountTo
<1>3. A \subseteq D /\ B \subseteq D /\ i \in D /\ i \notin A
  BY AheadOrder
<1>4. Ahead(q, i, j) => A \cup {i} \subseteq B
  BY AheadOrder
<1>5. RankIn(q, i) = Cardinality(A) /\ RankIn(q, j) = Cardinality(B)
  BY DEF RankIn
<1> HIDE DEF D, A, B
<1>6. IsFiniteSet(A) /\ IsFiniteSet(B)
  BY <1>2, <1>3, FS_Subset
<1>7. Cardinality(A) \in Nat /\ Cardinality(B) \in Nat
  BY <1>6, FS_CardinalityType
<1>8. Cardinality(A \cup {i}) = Cardinality(A) + 1
  BY <1>3, <1>6, FS_AddElement
<1>9. Cardinality(A \cup {i}) <= Cardinality(D)
  BY <1>2, <1>3, FS_Subset
<1>10. Ahead(q, i, j) => Cardinality(A \cup {i}) <= Cardinality(B)
  BY <1>4, <1>6, FS_Subset
<1> QED BY <1>1, <1>2, <1>5, <1>7, <1>8, <1>9, <1>10

\* at says from where each place of the sorted list is taken.
Sorts(at, r, q) ==
    /\ at \in [1 .. Len(q) -> 1 .. Len(q)]
    /\ r = [k \in 1 .. Len(q) |-> q[at[k]]]
    /\ \A i \in 1 .. Len(q) : \E k \in 1 .. Len(q) : at[k] = i
    /\ \A j, k \in 1 .. Len(q) : j < k => Ahead(q, at[j], at[k]) /\ at[j] # at[k]

\* sorted() returns the list, ordered.
LEMMA RankedSorts ==
    ASSUME NEW q, AllRated(q)
    PROVE  \E at : Sorts(at, Ranked(q), q)
<1> DEFINE n == Len(q)
           D == 1 .. n
           E == 0 .. n - 1
           rank == [i \in D |-> RankIn(q, i)]
           at == [k \in D |-> CHOOSE i \in D : RankIn(q, i) = k - 1]
<1>1. DOMAIN q = D /\ n \in Nat
  BY ListFacts DEF AllRated
<1>2. IsFiniteSet(D) /\ Cardinality(D) = n /\ IsFiniteSet(E) /\ Cardinality(E) = n
  BY <1>1, CountTo
<1>3. \A i, j \in D : Ahead(q, i, j) => RankIn(q, i) < RankIn(q, j)
  BY <1>1, RankGrows
<1>4. \A i \in D : RankIn(q, i) \in E
  BY <1>1, RankGrows
<1>5. \A i, j \in D : i # j => Ahead(q, i, j) \/ Ahead(q, j, i)
  BY <1>1, AheadOrder
<1>6. \A i, j \in D : RankIn(q, i) = RankIn(q, j) => i = j
  <2>1. \A i \in D : RankIn(q, i) \in Int
    BY <1>1, <1>4
  <2> QED BY <1>3, <1>5, <2>1
<1> HIDE DEF D, E
<1>7. rank \in Injection(D, E)
  BY <1>4, <1>6 DEF Injection, IsInjective
<1>8. rank \in Surjection(D, E)
  <2> HIDE DEF rank
  <2> QED BY <1>2, <1>7, FS_Injection
<1>9. \A e \in E : \E i \in D : RankIn(q, i) = e
  BY <1>8 DEF Surjection
<1>10. \A k \in D : k - 1 \in E
  BY <1>1 DEF D, E
<1>11. \A k \in D : at[k] \in D /\ RankIn(q, at[k]) = k - 1
  BY <1>9, <1>10
<1>12. \A i \in D : \E k \in D : at[k] = i
  <2> TAKE i \in D
  <2>1. RankIn(q, i) + 1 \in D /\ (RankIn(q, i) + 1) - 1 = RankIn(q, i)
    BY <1>1, <1>4 DEF D, E
  <2>2. at[RankIn(q, i) + 1] = i
    <3> DEFINE k == RankIn(q, i) + 1
    <3>1. k \in D /\ k - 1 = RankIn(q, i)
      BY <2>1
    <3> HIDE DEF k, at
    <3>2. at[k] \in D /\ RankIn(q, at[k]) = RankIn(q, i)
      BY <1>11, <3>1
    <3>3. at[k] = i
      BY <1>6, <3>2
    <3> QED BY <3>3 DEF k
  <2> QED BY <2>1, <2>2
<1>13. \A j, k \in D : j < k => Ahead(q, at[j], at[k]) /\ at[j] # at[k]
  <2> HIDE DEF at
  <2> TAKE j, k \in D
  <2> HAVE j < k
  <2>1. at[j] \in D /\ at[k] \in D /\ RankIn(q, at[j]) = j - 1 /\ RankIn(q, at[k]) = k - 1
    BY <1>11
  <2>2. j \in Nat /\ k \in Nat
    BY <1>1 DEF D
  <2>3. ~ (RankIn(q, at[k]) < RankIn(q, at[j])) /\ RankIn(q, at[k]) # RankIn(q, at[j])
    BY <2>1, <2>2
  <2>4. at[j] # at[k] /\ ~ Ahead(q, at[k], at[j])
    BY <1>3, <2>1, <2>3
  <2> QED BY <1>5, <2>1, <2>4
<1>14. Ranked(q) = [k \in D |-> q[at[k]]]
  <2>1. Ranked(q) = [k \in D |-> q[CHOOSE i \in D : RankIn(q, i) = k - 1]]
    BY <1>1, RankedIs
  <2> QED BY <2>1
<1>15. at \in [D -> D]
  BY <1>11
<1> HIDE DEF at
<1>16. Sorts(at, Ranked(q), q)
  BY <1>11, <1>12, <1>13, <1>14, <1>15 DEF Sorts, D
<1> QED BY <1>16

\* What sorted() keeps.
LEMMA RankedKeeps ==
    ASSUME NEW q, AllRated(q)
    PROVE  LET r == Ranked(q)
           IN  /\ IsList(r) /\ Len(r) = Len(q) /\ ToSet(r) = ToSet(q)
               /\ Distinct(q) => Distinct(r)
               /\ \A j, k \in 1 .. Len(q) : j <= k => ~ WorseThan(r[k], r[j])
<1> DEFINE r == Ranked(q)
<1>1. PICK at : Sorts(at, r, q)
  BY RankedSorts
<1> HIDE DEF r
<1>2. DOMAIN q = 1 .. Len(q) /\ Len(q) \in Nat
  BY ListFacts DEF AllRated
<1>3. /\ at \in [1 .. Len(q) -> 1 .. Len(q)]
      /\ r = [k \in 1 .. Len(q) |-> q[at[k]]]
      /\ \A i \in 1 .. Len(q) : \E k \in 1 .. Len(q) : at[k] = i
      /\ \A j, k \in 1 .. Len(q) : j < k => Ahead(q, at[j], at[k]) /\ at[j] # at[k]
  BY <1>1 DEF Sorts
<1>4. DOMAIN r = 1 .. Len(q) /\ \A k \in 1 .. Len(q) : r[k] = q[at[k]]
  BY <1>3
<1>5. IsList(r) /\ Len(r) = Len(q)
  <2>1. r = [i \in 1 .. Len(q) |-> r[i]]
    BY <1>3, <1>4
  <2> QED BY <1>2, <1>4, <2>1, ListIs
<1>6. ToSet(r) = ToSet(q)
  <2>1. \A k \in 1 .. Len(q) : r[k] \in ToSet(q)
    BY <1>2, <1>3, <1>4 DEF ToSet
  <2>2. \A i \in 1 .. Len(q) : q[i] \in ToSet(r)
    <3> TAKE i \in 1 .. Len(q)
    <3>1. PICK k \in 1 .. Len(q) : at[k] = i
      BY <1>3
    <3>2. q[i] = r[k]
      BY <1>4, <3>1
    <3> QED BY <1>4, <3>2 DEF ToSet
  <2> QED BY <1>2, <1>4, <2>1, <2>2 DEF ToSet
<1>7. Distinct(q) => Distinct(r)
  <2> SUFFICES ASSUME Distinct(q), NEW j \in 1 .. Len(q), NEW k \in 1 .. Len(q),
                      Mark(r[j]) = Mark(r[k])
               PROVE  j = k
    BY <1>4 DEF Distinct
  <2>1. at[j] \in 1 .. Len(q) /\ at[k] \in 1 .. Len(q)
    BY <1>3
  <2>2. Mark(q[at[j]]) = Mark(q[at[k]])
    <3>1. r[j] = q[at[j]] /\ r[k] = q[at[k]]
      BY <1>4
    <3> QED BY <3>1
  <2>3. at[j] = at[k]
    BY <1>2, <2>1, <2>2 DEF Distinct
  <2> QED BY <1>2, <1>3, <2>3
<1>8. ASSUME NEW j \in 1 .. Len(q), NEW k \in 1 .. Len(q), j <= k
      PROVE  ~ WorseThan(r[k], r[j])
  <2>1. at[j] \in 1 .. Len(q) /\ at[k] \in 1 .. Len(q) /\ r[j] = q[at[j]] /\ r[k] = q[at[k]]
    BY <1>3, <1>4
  <2>2. Rated(q[at[j]]) /\ Rated(q[at[k]])
    BY <2>1, ListFacts DEF AllRated
  <2>3. j = k \/ Ahead(q, at[j], at[k])
    BY <1>2, <1>3, <1>8
  <2>4. WorseThan(q[at[j]], q[at[k]]) => ~ WorseThan(q[at[k]], q[at[j]])
    BY <2>2, WorseOrder
  <2>5. ~ WorseThan(q[at[j]], q[at[j]])
    BY <2>2, WorseOrder
  <2> QED BY <2>1, <2>3, <2>4, <2>5 DEF Ahead
<1> QED BY <1>5, <1>6, <1>7, <1>8 DEF r

\* max() returns one that none exceeds.
LEMMA HighestIs ==
    ASSUME NEW q, AllRated(q), q # <<>>
    PROVE  /\ Highest(q) \in ToSet(q)
           /\ \A v \in ToSet(q) : ~ WorseThan(Highest(q), v)
<1>1. DOMAIN q = 1 .. Len(q) /\ Len(q) \in Nat
  BY ListFacts DEF AllRated
<1>2. Len(q) # 0
  <2> SUFFICES ASSUME Len(q) = 0 PROVE FALSE
    OBVIOUS
  <2>1. q \in Seq(ToSet(q))
    BY DEF AllRated, IsList
  <2> DEFINE S == ToSet(q)
  <2> HIDE DEF S
  <2>2. q \in Seq(S)
    BY <2>1 DEF S
  <2> QED BY <2>2
<1> DEFINE n == Len(q)
           T == {i \in 1 .. n : \A j \in 1 .. n : ~ WorseThan(q[i], q[j])}
<1>3. \A i \in 1 .. n : Rated(q[i]) /\ q[i] \in ToSet(q)
  BY ListFacts DEF AllRated
<1>4. T # {}
  <2>1. PICK at : Sorts(at, Ranked(q), q)
    BY RankedSorts
  <2>2. n \in 1 .. n /\ at[n] \in 1 .. n
    BY SMTT(30), <1>1, <1>2, <2>1 DEF Sorts
  <2>3. ASSUME NEW j \in 1 .. n PROVE ~ WorseThan(q[at[n]], q[j])
    <3>1. PICK k \in 1 .. n : at[k] = j
      BY <2>1 DEF Sorts
    <3>2. k = n \/ Ahead(q, j, at[n])
      <4>1. k < n => Ahead(q, at[k], at[n])
        BY <2>1, <2>2 DEF Sorts
      <4>2. k < n \/ k = n
        <5>1. n \in Nat
          BY <1>1
        <5> HIDE DEF n, T
        <5> QED BY ONLY <5>1, k \in 1 .. n
      <4> QED BY <3>1, <4>1, <4>2
    <3>3. WorseThan(q[j], q[at[n]]) => ~ WorseThan(q[at[n]], q[j])
      BY <1>3, <2>2, WorseOrder
    <3>4. ~ WorseThan(q[j], q[j])
      BY <1>3, WorseOrder
    <3> QED BY <3>1, <3>2, <3>3, <3>4 DEF Ahead
  <2> QED BY <2>2, <2>3
<1>5. T \subseteq Nat
  BY <1>1
<1>6. PICK i \in T : \A j \in T : i <= j
  <2> HIDE DEF T
  <2> QED BY <1>4, <1>5, NatHasMin
<1>7. ASSUME NEW j \in 1 .. n, j < i PROVE WorseThan(q[j], q[i])
  <2>1. j \notin T
    <3> HIDE DEF T
    <3>1. i \in Nat /\ j \in Nat
      BY <1>1, <1>5
    <3> QED BY <1>6, <1>7, <3>1
  <2>2. PICK k \in 1 .. n : WorseThan(q[j], q[k])
    BY <2>1
  <2>3. ~ WorseThan(q[i], q[k]) /\ i \in 1 .. n
    BY <1>6
  <2>4. Rated(q[i]) /\ Rated(q[j]) /\ Rated(q[k])
    BY <1>3, <2>3
  <2> DEFINE a == q[i]
             b == q[j]
             c == q[k]
  <2>5. Rated(a) /\ Rated(b) /\ Rated(c) /\ ~ WorseThan(a, c) /\ WorseThan(b, c)
    BY <2>2, <2>3, <2>4
  <2> HIDE DEF a, b, c
  <2>6. WorseThan(b, a)
    BY <2>5, WorseOrder
  <2> QED BY <2>6 DEF a, b
<1> DEFINE best == CHOOSE k \in DOMAIN q : \A j \in DOMAIN q :
                      ~ WorseThan(q[k], q[j]) /\ (j < k => WorseThan(q[j], q[k]))
<1>8. /\ best \in DOMAIN q
      /\ \A j \in DOMAIN q : ~ WorseThan(q[best], q[j])
  <2>1. i \in DOMAIN q /\ \A j \in DOMAIN q :
           ~ WorseThan(q[i], q[j]) /\ (j < i => WorseThan(q[j], q[i]))
    BY <1>1, <1>6, <1>7
  <2> QED BY <2>1
<1>9. Highest(q) = q[best]
  BY DEF Highest
<1> HIDE DEF best
<1> QED BY <1>1, <1>3, <1>8, <1>9 DEF ToSet

-----------------------------------------------------------------------------
\* Multiplication is monotonic.
LEMMA Times ==
    ASSUME NEW c \in Nat, NEW x \in Int, NEW y \in Int, x < y
    PROVE  c * x + c <= c * y /\ c * x \in Int /\ c * y \in Int
<1>1. PICK d \in Nat : y = x + 1 + d
  <2>1. y - x - 1 \in Nat /\ y = x + 1 + (y - x - 1)
    OBVIOUS
  <2> QED BY <2>1
<1>2. c * y = c * x + c + c * d
  BY <1>1
<1>3. c * d >= 0 /\ c * x \in Int /\ c * d \in Int
  OBVIOUS
<1> QED BY <1>2, <1>3

\* Division with rest.
LEMMA Division ==
    ASSUME NEW a \in Nat, NEW b \in Nat, b # 0
    PROVE  /\ a \div b \in Nat /\ a % b \in 0 .. b - 1
           /\ a = b * (a \div b) + (a % b)
BY SMT

\* round() is at most half away.
LEMMA RoundNear ==
    ASSUME NEW a \in Nat, NEW b \in Nat, b # 0
    PROVE  LET r == RoundedQuotient(a, b)
           IN  /\ r \in Nat
               /\ 2 * (b * r) <= 2 * a + b
               /\ 2 * a <= 2 * (b * r) + b
<1> DEFINE q == a \div b
           m == a % b
           r == RoundedQuotient(a, b)
<1>1. q \in Nat /\ m \in 0 .. b - 1 /\ a = b * q + m
  BY Division
<1>2. r = IF 2 * m > b \/ (2 * m = b /\ q % 2 = 1) THEN q + 1 ELSE q
  BY DEF RoundedQuotient
<1> HIDE DEF q, m, r
<1>3. b * (q + 1) = b * q + b /\ b * q \in Nat
  BY <1>1
<1>4. CASE r = q /\ ~ (2 * m > b)
  BY <1>1, <1>3, <1>4 DEF r
<1>5. CASE r = q + 1 /\ 2 * m >= b
  <2> DEFINE p == b * q
             s == b * r
  <2>1. s = p + b /\ p \in Nat
    BY <1>3, <1>5
  <2>2. a = p + m
    BY <1>1
  <2> HIDE DEF p, s
  <2>3. 2 * s <= 2 * a + b /\ 2 * a <= 2 * s + b /\ r \in Nat
    BY <1>1, <1>5, <2>1, <2>2
  <2> QED BY <2>3 DEF s, r
<1> QED BY <1>1, <1>2, <1>4, <1>5

\* The indexes, from the first to the last, are apart.
LEMMA SpacedApart ==
    ASSUME NEW N \in Nat, NEW c \in Nat, c # 0, c < N,
           NEW i \in 0 .. c, NEW j \in 0 .. c
    PROVE  /\ RoundedQuotient(i * N, c) \in Nat
           /\ i < j => RoundedQuotient(i * N, c) < RoundedQuotient(j * N, c)
<1> DEFINE a == i * N
           b == j * N
           f == RoundedQuotient(a, c)
           g == RoundedQuotient(b, c)
<1>1. a \in Nat /\ b \in Nat
  OBVIOUS
<1>2. ASSUME i < j PROVE a + N <= b
  <2>1. N * i + N <= N * j
    BY <1>2, Times
  <2> QED BY <2>1
<1> HIDE DEF a, b
<1>3. f \in Nat /\ 2 * (c * f) <= 2 * a + c
  BY <1>1, RoundNear
<1>4. g \in Nat /\ 2 * b <= 2 * (c * g) + c
  BY <1>1, RoundNear
<1> HIDE DEF f, g
<1>5. ASSUME i < j PROVE f < g
  <2> SUFFICES ASSUME ~ (f < g) PROVE FALSE
    OBVIOUS
  <2>1. c * g <= c * f /\ c * g \in Int /\ c * f \in Int
    <3>1. CASE g < f
      BY <1>3, <1>4, <3>1, Times
    <3>2. CASE g = f
      BY <1>3, <3>2
    <3> QED BY <1>3, <1>4, <3>1, <3>2
  <2> DEFINE x == c * f
             y == c * g
  <2>2. /\ x \in Int /\ y \in Int /\ y <= x
        /\ 2 * x <= 2 * a + c /\ 2 * b <= 2 * y + c /\ a + N <= b
    BY <1>2, <1>3, <1>4, <1>5, <2>1
  <2> HIDE DEF x, y
  <2> QED BY <1>1, <2>2
<1> QED BY <1>3, <1>5 DEF a, b, f, g

\* The first and the last index are the ends.
LEMMA SpacedEnds ==
    ASSUME NEW N \in Nat, NEW c \in Nat, c # 0
    PROVE  RoundedQuotient(0 * N, c) = 0 /\ RoundedQuotient(c * N, c) = N
<1> DEFINE f == RoundedQuotient(0, c)
           a == c * N
           g == RoundedQuotient(a, c)
<1>1. a \in Nat /\ 0 * N = 0
  OBVIOUS
<1>2. f \in Nat /\ 2 * (c * f) <= 2 * 0 + c
  BY RoundNear
<1>3. g \in Nat /\ 2 * (c * g) <= 2 * a + c /\ 2 * a <= 2 * (c * g) + c
  <2> HIDE DEF a
  <2> QED BY <1>1, RoundNear
<1> HIDE DEF f, g
<1>4. f = 0
  <2> SUFFICES ASSUME 0 < f PROVE FALSE
    BY <1>2
  <2>1. c * 0 + c <= c * f /\ c * 0 = 0
    BY <1>2, Times
  <2> QED BY <1>2, <2>1
<1>5. g = N
  <2>1. ~ (N < g)
    <3> SUFFICES ASSUME N < g PROVE FALSE
      OBVIOUS
    <3>1. a + c <= c * g /\ c * g \in Int
      BY <1>3, Times
    <3> QED BY <1>1, <1>3, <3>1
  <2>2. ~ (g < N)
    <3> SUFFICES ASSUME g < N PROVE FALSE
      OBVIOUS
    <3>1. c * g + c <= a /\ c * g \in Int
      BY <1>3, Times
    <3> QED BY <1>1, <1>3, <3>1
  <2> QED BY <1>3, <2>1, <2>2
<1> QED BY <1>1, <1>4, <1>5 DEF f, g

\* As many indexes as asked for, among them, unless there is one, both ends.
LEMMA SpacedIndexesAre ==
    ASSUME NEW n \in Nat, NEW count \in Nat, 0 < count, count < n
    PROVE  LET T == SpacedIndexes(n, count)
           IN  /\ T \subseteq 0 .. n - 1 /\ Cardinality(T) = count
               /\ count > 1 => 0 \in T /\ n - 1 \in T
<1> DEFINE T == SpacedIndexes(n, count)
<1>1. CASE count = 1
  <2>1. T = {n \div 2}
    BY <1>1 DEF SpacedIndexes
  <2>2. n \div 2 \in 0 .. n - 1
    BY <1>1
  <2> HIDE DEF T
  <2>3. Cardinality(T) = 1
    BY <2>1, FS_Singleton
  <2> QED BY <1>1, <2>1, <2>2, <2>3 DEF T
<1>2. CASE count # 1
  <2> DEFINE N == n - 1
             c == count - 1
             f == [k \in 1 .. count |-> RoundedQuotient((k - 1) * N, c)]
  <2>1. N \in Nat /\ c \in Nat /\ c # 0 /\ c < N /\ 0 .. count - 1 = 0 .. c
    BY <1>2
  <2>2. T = {RoundedQuotient(i * N, c) : i \in 0 .. c}
    BY <1>2 DEF SpacedIndexes
  <2> HIDE DEF N, T
  <2>3. \A k \in 1 .. count : k - 1 \in 0 .. c
    OBVIOUS
  <2>4. \A i \in 0 .. c : i + 1 \in 1 .. count /\ (i + 1) - 1 = i
    OBVIOUS
  <2> HIDE DEF c
  <2>5. \A i, j \in 0 .. c : /\ RoundedQuotient(i * N, c) \in Nat
                             /\ i < j => RoundedQuotient(i * N, c) < RoundedQuotient(j * N, c)
    BY <2>1, SpacedApart
  <2>6. RoundedQuotient(0 * N, c) = 0 /\ RoundedQuotient(c * N, c) = N
    BY <2>1, SpacedEnds
  <2>7. 0 \in 0 .. c /\ c \in 0 .. c
    BY <2>1
  <2>8. 0 \in T /\ N \in T
    BY <2>2, <2>6, <2>7
  <2>9. T \subseteq 0 .. N
    <3> SUFFICES ASSUME NEW i \in 0 .. c PROVE RoundedQuotient(i * N, c) \in 0 .. N
      BY <2>2
    <3>1. i < c \/ i = c
      BY <2>1
    <3>2. RoundedQuotient(i * N, c) \in Nat
      BY <2>5
    <3>3. RoundedQuotient(i * N, c) <= N
      BY <2>1, <2>5, <2>6, <2>7, <3>1, <3>2
    <3> QED BY <2>1, <3>2, <3>3
  <2>10. f \in [1 .. count -> T]
    BY <2>2, <2>3
  <2>11. \A i, j \in 1 .. count : f[i] = f[j] => i = j
    <3> SUFFICES ASSUME NEW i \in 1 .. count, NEW j \in 1 .. count, f[i] = f[j], i < j
                 PROVE  FALSE
      OBVIOUS
    <3>1. RoundedQuotient((i - 1) * N, c) = RoundedQuotient((j - 1) * N, c)
      OBVIOUS
    <3>2. i - 1 \in 0 .. c /\ j - 1 \in 0 .. c /\ i - 1 < j - 1
      BY <2>3
    <3>3. RoundedQuotient((i - 1) * N, c) < RoundedQuotient((j - 1) * N, c)
          /\ RoundedQuotient((i - 1) * N, c) \in Nat
      BY <2>5, <3>2
    <3> QED BY <3>1, <3>3
  <2>12. \A t \in T : \E k \in 1 .. count : f[k] = t
    <3> TAKE t \in T
    <3>1. PICK i \in 0 .. c : t = RoundedQuotient(i * N, c)
      BY <2>2
    <3>2. i + 1 \in 1 .. count /\ f[i + 1] = t
      BY <2>4, <3>1
    <3> QED BY <3>2
  <2> HIDE DEF f
  <2>13. Cardinality(T) = count
    BY <2>10, <2>11, <2>12, ListedOnce
  <2> QED BY <2>8, <2>9, <2>13 DEF N, T
<1> QED BY <1>1, <1>2

\* The lesser of two numbers.
LEMMA MinIs ==
    ASSUME NEW a \in Nat, NEW b \in Nat
    PROVE  Min({a, b}) = IF a <= b THEN a ELSE b
<1> DEFINE c == IF a <= b THEN a ELSE b
<1>1. c \in {a, b} /\ \A y \in {a, b} : c <= y
  OBVIOUS
<1>2. \A x \in {a, b} : (\A y \in {a, b} : x <= y) => x = c
  OBVIOUS
<1> HIDE DEF c
<1>3. Min({a, b}) = c
  BY <1>1, <1>2 DEF Min
<1> QED BY <1>3 DEF c

\* _evenly_spaced: as many as asked for if there are, the ends among them.
LEMMA EvenlySpacedKeeps ==
    ASSUME NEW q, IsList(q), NEW count \in Nat, 0 < count
    PROVE  LET s == EvenlySpaced(q, count)
           IN  /\ IsList(s) /\ Len(s) = Min({Len(q), count})
               /\ ToSet(s) \subseteq ToSet(q)
               /\ Distinct(q) => Distinct(s)
               /\ (count > 1 /\ Len(q) # 0) => /\ q[1] \in ToSet(s)
                                               /\ q[Len(q)] \in ToSet(s)
<1> DEFINE s == EvenlySpaced(q, count)
           n == Len(q)
<1>1. n \in Nat /\ DOMAIN q = 1 .. n
  BY ListFacts
<1> HIDE DEF n
<1>2. CASE n <= count
  <2>1. s = q
    BY <1>2 DEF EvenlySpaced, n
  <2> HIDE DEF s
  <2>2. Min({n, count}) = n
    BY <1>1, <1>2, MinIs
  <2>3. n # 0 => q[1] \in ToSet(q) /\ q[n] \in ToSet(q)
    BY <1>1 DEF ToSet
  <2> QED BY <2>1, <2>2, <2>3 DEF s, n
<1>3. CASE ~ (n <= count)
  <2> DEFINE T == SpacedIndexes(n, count)
             P == {k + 1 : k \in T}
  <2>1. s = Pick(q, P)
    BY <1>3 DEF EvenlySpaced, n
  <2>2. /\ T \subseteq 0 .. n - 1 /\ Cardinality(T) = count
        /\ count > 1 => 0 \in T /\ n - 1 \in T
    BY <1>1, <1>3, SpacedIndexesAre
  <2> HIDE DEF T
  <2>3. P \subseteq 1 .. n /\ (count > 1 => 1 \in P /\ n \in P)
    BY <1>1, <2>2
  <2>4. Cardinality(P) = count
    <3>1. IsFiniteSet(T)
      <4>1. IsFiniteSet(0 .. n - 1)
        BY <1>1, CountTo
      <4> QED BY <2>2, <4>1, FS_Subset
    <3>2. [k \in T |-> k + 1] \in Bijection(T, P)
      BY <2>2 DEF Bijection, Injection, Surjection, IsInjective
    <3>3. ExistsBijection(T, P)
      BY <3>2 DEF ExistsBijection
    <3> HIDE DEF P
    <3> QED BY <2>2, <3>1, <3>3, FS_Bijection
  <2> HIDE DEF P, s
  <2>5. P \subseteq DOMAIN q
    BY <1>1, <2>3
  <2>6. IsList(s) /\ Len(s) = Cardinality(P) /\ ToSet(s) = {q[i] : i \in P}
    BY <2>1, <2>5, PickKeeps
  <2>7. Distinct(q) => Distinct(s)
    BY <2>1, <2>5, PickDistinct
  <2>8. Min({n, count}) = count
    BY <1>1, <1>3, MinIs
  <2>9. ToSet(s) \subseteq ToSet(q)
    BY <2>5, <2>6 DEF ToSet
  <2> QED BY <2>3, <2>4, <2>6, <2>7, <2>8, <2>9 DEF s, n
<1> QED BY <1>2, <1>3

-----------------------------------------------------------------------------
\* Names.

\* One entry is a list.
LEMMA OneIsList ==
    ASSUME NEW x
    PROVE  IsList(<<x>>) /\ Len(<<x>>) = 1 /\ ToSet(<<x>>) = {x} /\ Distinct(<<x>>)
<1>1. <<x>> \in Seq({x}) /\ Len(<<x>>) = 1 /\ DOMAIN <<x>> = {1} /\ <<x>>[1] = x
  OBVIOUS
<1>2. IsList(<<x>>)
  BY <1>1, SeqIsList
<1> QED BY <1>1, <1>2 DEF ToSet, Distinct

\* A pair is a list.
LEMMA PairIsList ==
    ASSUME NEW a, NEW b
    PROVE  IsList(<<a, b>>) /\ Len(<<a, b>>) = 2
<1>1. <<a, b>> \in Seq({a, b})
  OBVIOUS
<1> QED BY <1>1, SeqIsList

\* A triple is a list.
LEMMA TripleIsList ==
    ASSUME NEW a, NEW b, NEW c
    PROVE  IsList(<<a, b, c>>) /\ Len(<<a, b, c>>) = 3
<1>1. <<a, b, c>> \in Seq({a, b, c})
  OBVIOUS
<1> QED BY <1>1, SeqIsList

\* A text put together of two.
Joined(s, q, r) ==
    /\ IsList(s) /\ Len(s) = Len(q) + Len(r)
    /\ \A i \in 1 .. Len(q) : s[i] = q[i]
    /\ \A i \in 1 .. Len(r) : s[Len(q) + i] = r[i]

\* What it holds.
LEMMA JoinIs ==
    ASSUME NEW q, IsList(q), NEW r, IsList(r)
    PROVE  Joined(q \o r, q, r)
BY ConcatHolds DEF Joined

\* A name with a number: what it begins with, and how long it is.
Suffixed(t, s, x) ==
    /\ IsList(t) /\ Len(t) = Len(s) + 2
    /\ t[Len(s) + 2] = x
    /\ \A i \in 1 .. Len(s) : t[i] = s[i]

\* What it is.
LEMMA SuffixLonger ==
    ASSUME NEW s, IsList(s), NEW x
    PROVE  Suffixed(s \o <<"_", x>>, s, x)
<1> DEFINE r == <<"_", x>>
           t == s \o r
<1>1. IsList(r) /\ Len(r) = 2 /\ r[2] = x
  BY PairIsList
<1>5. t = s \o r
  OBVIOUS
<1> HIDE DEF r, t
<1>6. Joined(t, s, r)
  <2>1. Joined(s \o r, s, r)
    BY <1>1, JoinIs
  <2> QED BY <1>5, <2>1
<1>2. /\ IsList(t) /\ Len(t) = Len(s) + Len(r)
      /\ \A i \in 1 .. Len(s) : t[i] = s[i]
      /\ \A i \in 1 .. Len(r) : t[Len(s) + i] = r[i]
  BY <1>6 DEF Joined
<1>3. 2 \in 1 .. Len(r)
  BY <1>1
<1>4. t[Len(s) + 2] = x
  BY <1>1, <1>2, <1>3
<1>7. Suffixed(t, s, x)
  BY <1>1, <1>2, <1>4 DEF Suffixed
<1> QED BY <1>7 DEF t, r

\* Which name got which number can be told.
LEMMA SuffixSame ==
    ASSUME NEW s, IsList(s), NEW t, IsList(t), NEW x, NEW y,
           s \o <<"_", x>> = t \o <<"_", y>>
    PROVE  s = t /\ x = y
<1> DEFINE p == s \o <<"_", x>>
           q == t \o <<"_", y>>
<1>8. Suffixed(p, s, x) /\ Suffixed(q, t, y)
  BY SuffixLonger
<1>3. p = q
  OBVIOUS
<1> HIDE DEF p, q
<1>1. /\ Len(p) = Len(s) + 2 /\ p[Len(s) + 2] = x
      /\ \A i \in 1 .. Len(s) : p[i] = s[i]
  BY <1>8 DEF Suffixed
<1>2. /\ Len(q) = Len(t) + 2 /\ q[Len(t) + 2] = y
      /\ \A i \in 1 .. Len(t) : q[i] = t[i]
  BY <1>8 DEF Suffixed
<1>4. /\ Len(s) \in Nat /\ s = [i \in 1 .. Len(s) |-> s[i]]
      /\ Len(t) \in Nat /\ t = [i \in 1 .. Len(t) |-> t[i]]
  BY ListFacts
<1>5. Len(s) = Len(t)
  <2>1. Len(p) = Len(s) + 2 /\ Len(q) = Len(t) + 2
    BY <1>1, <1>2
  <2>2. Len(s) \in Nat /\ Len(t) \in Nat
    BY <1>4
  <2>3. Len(p) = Len(q)
    BY <1>3
  <2> QED BY ONLY <2>1, <2>2, <2>3
<1>6. x = y /\ \A i \in 1 .. Len(s) : s[i] = t[i]
  BY <1>1, <1>2, <1>3, <1>5
<1>7. s = t
  <2>1. [i \in 1 .. Len(s) |-> s[i]] = [i \in 1 .. Len(t) |-> t[i]]
    BY <1>5, <1>6
  <2>2. s = [i \in 1 .. Len(s) |-> s[i]]
    BY <1>4
  <2>3. t = [i \in 1 .. Len(t) |-> t[i]]
    BY <1>4
  <2> QED BY ONLY <2>1, <2>2, <2>3
<1> QED BY <1>6, <1>7

\* Base names.
Bases(b, n) ==
    /\ n \in Nat /\ DOMAIN b = 1 .. n
    /\ \A i \in 1 .. n : IsList(b[i]) /\ Len(b[i]) > 0

\* None is another one with a number.
Plain(b, n) == \A i, j \in 1 .. n : \A k \in 2 .. n : b[i] # b[j] \o <<"_", k>>

\* A base name has occurred more often at each further place.
LEMMA OccurrenceGrows ==
    ASSUME NEW b, NEW n \in Nat, DOMAIN b = 1 .. n, NEW i \in 1 .. n, NEW j \in 1 .. n
    PROVE  /\ Occurrence(b, i) \in Nat /\ Occurrence(b, i) < n
           /\ (i < j /\ b[i] = b[j]) => Occurrence(b, i) < Occurrence(b, j)
<1> DEFINE A == {k \in 1 .. i - 1 : b[k] = b[i]}
           B == {k \in 1 .. j - 1 : b[k] = b[j]}
<1>1. Occurrence(b, i) = Cardinality(A) /\ Occurrence(b, j) = Cardinality(B)
  BY DEF Occurrence
<1>2. IsFiniteSet(1 .. n)
  BY CountTo
<1>3. A \subseteq 1 .. n /\ B \subseteq 1 .. n /\ i \notin A
  OBVIOUS
<1>4. (i < j /\ b[i] = b[j]) => A \cup {i} \subseteq B
  OBVIOUS
<1> HIDE DEF A, B
<1>5. IsFiniteSet(A) /\ IsFiniteSet(B)
  BY <1>2, <1>3, FS_Subset
<1>6. Cardinality(A) \in Nat /\ Cardinality(B) \in Nat
  BY <1>5, FS_CardinalityType
<1>7. Cardinality(A \cup {i}) = Cardinality(A) + 1
  BY <1>3, <1>5, FS_AddElement
<1>8. (i < j /\ b[i] = b[j]) => Cardinality(A \cup {i}) <= Cardinality(B)
  BY <1>4, <1>5, FS_Subset
<1>9. Cardinality(A \cup {i}) <= n
  <2>1. A \cup {i} \subseteq 1 .. n
    BY <1>3
  <2>2. Cardinality(A \cup {i}) <= Cardinality(1 .. n)
    BY <1>2, <2>1, FS_Subset
  <2> QED BY <2>2, CountTo
<1> QED BY <1>1, <1>6, <1>7, <1>8, <1>9

\* Every name begins with its base, and is unique if none is another one with a
\* number.
LEMMA NumberedApart ==
    ASSUME NEW b, NEW n, Bases(b, n), NEW i \in 1 .. n, NEW j \in 1 .. n
    PROVE  /\ Numbered(b[i], Occurrence(b, i))[1] = b[i][1]
           /\ (Plain(b, n) /\ Numbered(b[i], Occurrence(b, i)) = Numbered(b[j], Occurrence(b, j)))
                 => i = j
<1>1. /\ n \in Nat /\ DOMAIN b = 1 .. n
      /\ IsList(b[i]) /\ Len(b[i]) > 0 /\ IsList(b[j]) /\ Len(b[j]) > 0
  BY DEF Bases
<1> DEFINE o == Occurrence(b, i)
           u == Occurrence(b, j)
           x == b[i]
           y == b[j]
<1>2. o \in Nat /\ u \in Nat /\ o < n /\ u < n
  BY <1>1, OccurrenceGrows
<1>3. (o = u /\ x = y) => i = j
  <2>1. (i < j /\ x = y) => o < u
    BY <1>1, OccurrenceGrows
  <2>2. (j < i /\ x = y) => u < o
    BY <1>1, OccurrenceGrows
  <2>3. i < j \/ j < i \/ i = j
    BY <1>1
  <2> QED BY <1>2, <2>1, <2>2, <2>3
<1>4. IsList(x) /\ Len(x) > 0 /\ IsList(y) /\ Len(y) > 0
  BY <1>1
<1>5. Plain(b, n) => \A k \in 2 .. n : x # y \o <<"_", k>> /\ y # x \o <<"_", k>>
  BY DEF Plain
<1> HIDE DEF o, u, x, y
<1>6. o # 0 => o + 1 \in 2 .. n
  BY <1>1, <1>2
<1>7. u # 0 => u + 1 \in 2 .. n
  BY <1>1, <1>2
<1>8. Numbered(x, o)[1] = x[1]
  <2>1. Len(x) \in Nat
    BY <1>4, ListFacts
  <2>2. 1 \in 1 .. Len(x)
    BY <1>4, <2>1
  <2>3. \A z : (x \o <<"_", z>>)[1] = x[1]
    <3> TAKE z
    <3> DEFINE t == x \o <<"_", z>>
    <3>1. Suffixed(t, x, z)
      BY <1>4, SuffixLonger
    <3> HIDE DEF t
    <3>2. t[1] = x[1]
      BY <2>2, <3>1 DEF Suffixed
    <3> QED BY <3>2 DEF t
  <2> QED BY <2>3 DEF Numbered
<1>9. ASSUME Plain(b, n), Numbered(x, o) = Numbered(y, u) PROVE x = y /\ o = u
  <2>1. CASE o = 0 /\ u = 0
    BY <1>9, <2>1 DEF Numbered
  <2>2. CASE o # 0 /\ u # 0
    <3>1. x \o <<"_", o + 1>> = y \o <<"_", u + 1>>
      BY <1>9, <2>2 DEF Numbered
    <3>3. ASSUME NEW v, NEW w, x \o <<"_", v>> = y \o <<"_", w>> PROVE x = y /\ v = w
      BY <1>4, <3>3, SuffixSame
    <3>2. x = y /\ o + 1 = u + 1
      BY <3>1, <3>3
    <3> QED BY <1>2, <3>2
  <2>3. CASE o = 0 /\ u # 0
    <3>1. x = y \o <<"_", u + 1>>
      BY <1>9, <2>3 DEF Numbered
    <3> QED BY <1>5, <1>7, <1>9, <2>3, <3>1
  <2>4. CASE o # 0 /\ u = 0
    <3>1. x \o <<"_", o + 1>> = y
      BY <1>9, <2>4 DEF Numbered
    <3> QED BY <1>5, <1>6, <1>9, <2>4, <3>1
  <2> QED BY <2>1, <2>2, <2>3, <2>4
<1> QED BY <1>3, <1>8, <1>9 DEF o, u, x, y

-----------------------------------------------------------------------------
\* What parse_master_playlist returns.

\* What VariantAssumption says of a master playlist.
LEMMA MasterIs ==
    ASSUME NEW m \in Masters
    PROVE  /\ IsList(m.playlists) /\ IsList(m.media)
           /\ \A e \in ToSet(m.playlists) :
                 /\ e.path \in Nat /\ e.bandwidth \in Nat
                 /\ e.height \in Nat \cup {Nothing}
BY VariantAssumption DEF IsList

IsVideo(v) == v.kind = "variant" /\ v.hasVideo

VariantBases(m) == [i \in DOMAIN m.playlists |-> VariantBase(m.playlists, i)]

\* The variants: one for each entry, each with a name of its own.
LEMMA VideoVariantsAre ==
    ASSUME NEW m \in Masters
    PROVE  LET V == VideoVariants(m)
           IN  /\ IsList(V) /\ Len(V) = Len(m.playlists) /\ Distinct(V)
               /\ \A i \in DOMAIN m.playlists :
                     /\ V[i].kind = "variant" /\ Rated(V[i])
                     /\ V[i].id[1] # "audio"
                     /\ V[i].group = m.playlists[i].group
                     /\ V[i].hint = InferAudioHint(m.playlists[i], m.media)
                     /\ V[i].stable = StableVariantId(m.playlists[i])
                     /\ V[i].height = m.playlists[i].height
                     /\ V[i].bandwidth = m.playlists[i].bandwidth
                     /\ IsVideo(V[i]) <=> InferHasVideo(m.playlists[i])
<1> DEFINE V == VideoVariants(m)
           es == m.playlists
           bs == VariantBases(m)
           n == Len(es)
<1>1. IsList(es) /\ n \in Nat /\ DOMAIN es = 1 .. n
  BY MasterIs, ListFacts
<1>2. V = [i \in DOMAIN es |->
            [id |-> Numbered(bs[i], Occurrence(bs, i)),
             stable |-> StableVariantId(es[i]),
             kind |-> "variant", hasVideo |-> InferHasVideo(es[i]),
             hint |-> InferAudioHint(es[i], m.media),
             height |-> es[i].height, bandwidth |-> es[i].bandwidth,
             group |-> es[i].group, preferred |-> "no"]]
  BY DEF VideoVariants, VariantBases
<1>3. /\ DOMAIN bs = 1 .. n
      /\ \A i \in 1 .. n : bs[i] = VariantBase(es, i)
  BY <1>1 DEF VariantBases
<1>4. \A i \in DOMAIN es : es[i] \in ToSet(es)
  BY DEF ToSet
<1>5. \A i \in DOMAIN es : /\ es[i].path \in Nat /\ es[i].bandwidth \in Nat
                           /\ es[i].height \in Nat \cup {Nothing}
  BY <1>4, MasterIs
<1> HIDE DEF V, es, bs, n
<1>6. \A i \in 1 .. n : /\ IsList(bs[i]) /\ Len(bs[i]) \in {2, 3}
                        /\ bs[i][1] # "audio"
  <2> TAKE i \in 1 .. n
  <2>1. CASE es[i].height # Nothing
    <3>1. bs[i] = <<"height", es[i].height>>
      BY <1>3, <2>1 DEF VariantBase
    <3>2. ASSUME NEW p, NEW q PROVE IsList(<<p, q>>) /\ Len(<<p, q>>) = 2
      BY PairIsList
    <3>3. ~ ("height" = "audio")
      OBVIOUS
    <3> QED BY <3>1, <3>2, <3>3
  <2>2. CASE ~ (es[i].height # Nothing)
    <3>1. bs[i] = <<"variant", "_", i - 1>>
      BY <1>3, <2>2 DEF VariantBase
    <3> DEFINE t == <<"variant", "_", i - 1>>
    <3>2. IsList(t) /\ Len(t) = 3
      BY TripleIsList
    <3>3. t[1] = "variant" /\ "variant" # "audio"
      OBVIOUS
    <3> HIDE DEF t
    <3>4. bs[i] = t
      BY <3>1 DEF t
    <3> QED BY <3>2, <3>3, <3>4
  <2> QED BY <2>1, <2>2
<1>7. Bases(bs, n) /\ Plain(bs, n)
  <2>1. \A i \in 1 .. n : Len(bs[i]) \in Nat /\ Len(bs[i]) > 0
    BY <1>6
  <2>2. ASSUME NEW i \in 1 .. n, NEW j \in 1 .. n, NEW k \in 2 .. n
        PROVE  bs[i] # bs[j] \o <<"_", k>>
    <3> DEFINE t == bs[j] \o <<"_", k>>
    <3>1. IsList(bs[j])
      BY <1>6
    <3>2. Suffixed(t, bs[j], k)
      BY <3>1, SuffixLonger
    <3> HIDE DEF t
    <3>3. Len(t) = Len(bs[j]) + 2
      BY <3>2 DEF Suffixed
    <3>4. Len(bs[i]) \in {2, 3} /\ Len(bs[j]) \in {2, 3}
      BY <1>6
    <3>5. Len(t) = 4 \/ Len(t) = 5
      <4>1. CASE Len(bs[j]) = 2
        BY <3>3, <4>1
      <4>2. CASE Len(bs[j]) = 3
        BY <3>3, <4>2
      <4> QED BY <3>4, <4>1, <4>2
    <3>6. Len(bs[i]) # Len(t)
      <4>1. CASE Len(bs[i]) = 2
        BY <3>5, <4>1
      <4>2. CASE Len(bs[i]) = 3
        BY <3>5, <4>2
      <4> QED BY <3>4, <4>1, <4>2
    <3>7. bs[i] # t
      BY <3>6
    <3> QED BY <3>7 DEF t
  <2> QED BY <1>1, <1>3, <1>6, <2>1, <2>2 DEF Bases, Plain
<1>8. \A i, j \in 1 .. n :
         /\ Numbered(bs[i], Occurrence(bs, i))[1] = bs[i][1]
         /\ Numbered(bs[i], Occurrence(bs, i)) = Numbered(bs[j], Occurrence(bs, j)) => i = j
  BY <1>7, NumberedApart
<1>9. DOMAIN V = 1 .. n /\ V = [i \in 1 .. n |-> V[i]]
  BY <1>1, <1>2
<1>10. \A i \in 1 .. n : /\ V[i].id = Numbered(bs[i], Occurrence(bs, i))
                         /\ V[i].kind = "variant" /\ V[i].group = es[i].group
                         /\ V[i].hint = InferAudioHint(es[i], m.media)
                         /\ V[i].stable = StableVariantId(es[i])
                         /\ V[i].height = es[i].height
                         /\ V[i].bandwidth = es[i].bandwidth
  BY <1>1, <1>2
<1>11. Distinct(V)
  <2>1. \A i \in 1 .. n : Mark(V[i]) = V[i].id
    BY <1>10 DEF Mark
  <2> QED BY <1>8, <1>9, <1>10, <2>1 DEF Distinct
<1>12. IsList(V) /\ Len(V) = n
  BY <1>1, <1>9, ListIs
<1>13. \A i \in 1 .. n : Rated(V[i])
  <2> TAKE i \in 1 .. n
  <2>1. V[i].stable[2][1] = es[i].path
    BY <1>10 DEF StableVariantId
  <2> QED BY <1>1, <1>5, <1>10, <2>1 DEF Rated, Pixels
<1>14. \A i \in 1 .. n : V[i].id[1] # "audio"
  BY <1>6, <1>8, <1>10
<1>15. \A i \in 1 .. n : IsVideo(V[i]) <=> InferHasVideo(es[i])
  <2> TAKE i \in 1 .. n
  <2>1. V[i].hasVideo = InferHasVideo(es[i])
    BY <1>1, <1>2
  <2> QED BY <1>10, <2>1 DEF IsVideo
<1> QED BY <1>1, <1>10, <1>11, <1>12, <1>13, <1>14, <1>15 DEF V, es, n

\* The stable id of an audio rendition tells its group.
LEMMA StableAudioGroup ==
    ASSUME NEW x, NEW y, StableAudioId(x) = StableAudioId(y)
    PROVE  x.group = y.group
<1>1. StableAudioId(x)[2] = IF x.stableName # Nothing THEN "stable" ELSE "uri"
  BY DEF StableAudioId
<1>2. StableAudioId(y)[2] = IF y.stableName # Nothing THEN "stable" ELSE "uri"
  BY DEF StableAudioId
<1>3. CASE x.stableName # Nothing /\ y.stableName # Nothing
  <2>1. StableAudioId(x)[3] = x.group /\ StableAudioId(y)[3] = y.group
    BY <1>3 DEF StableAudioId
  <2> QED BY <2>1
<1>4. CASE x.stableName = Nothing /\ y.stableName = Nothing
  <2>1. StableAudioId(x)[4] = x.group /\ StableAudioId(y)[4] = y.group
    BY <1>4 DEF StableAudioId
  <2> QED BY <2>1
<1> QED BY <1>1, <1>2, <1>3, <1>4

\* The groups that some variant names.
Referenced(m) == {e.group : e \in ToSet(m.playlists)} \ {Nothing}

\* The media that become renditions: of groups that are named, no identity twice,
\* and of every group that has a playlist one.
LEMMA UsedMediaAre ==
    ASSUME NEW m \in Masters
    PROVE  LET kept == UsedMedia(m)
           IN  /\ IsList(kept)
               /\ \A e \in ToSet(kept) : e \in ToSet(m.media) /\ e.group # Nothing
               /\ \A i, j \in DOMAIN kept : StableAudioId(kept[i]) = StableAudioId(kept[j]) => i = j
               /\ \A g \in ExternalGroups(m.media) \cap Referenced(m) :
                     \E e \in ToSet(kept) : e.group = g
<1> DEFINE ms == m.media
           usable == {i \in DOMAIN ms : ms[i].group \in Referenced(m) /\ ms[i].path # Nothing}
           P == {i \in usable : \A j \in usable : j < i =>
                    StableAudioId(ms[j]) # StableAudioId(ms[i])}
           kept == Pick(ms, P)
<1>1. UsedMedia(m) = kept
  BY Zenon DEF UsedMedia, Referenced
<1>2. IsList(ms) /\ P \subseteq DOMAIN ms /\ Len(ms) \in Nat /\ DOMAIN ms = 1 .. Len(ms)
  BY MasterIs, ListFacts
<1>3. IsList(kept) /\ ToSet(kept) = {ms[i] : i \in P}
      /\ \E at : TakenFrom(at, kept, ms, P, Len(ms))
  <2> HIDE DEF P, ms
  <2> QED BY <1>2, PickKeeps
<1>4. \A g \in ExternalGroups(ms) \cap Referenced(m) : \E e \in ToSet(kept) : e.group = g
  <2> TAKE g \in ExternalGroups(ms) \cap Referenced(m)
  <2>1. PICK i \in DOMAIN ms : ms[i].path # Nothing /\ ms[i].group = g
    BY DEF ExternalGroups, ToSet
  <2> DEFINE T == {j \in usable : StableAudioId(ms[j]) = StableAudioId(ms[i])}
  <2>2. T # {} /\ T \subseteq Nat
    BY <1>2, <2>1
  <2>3. PICK j \in T : \A k \in T : j <= k
    <3> HIDE DEF T
    <3> QED BY <2>2, NatHasMin
  <2>4. j \in P
    <3> SUFFICES ASSUME NEW k \in usable, k < j, StableAudioId(ms[k]) = StableAudioId(ms[j])
                 PROVE  FALSE
      BY <2>3
    <3>1. k \in T
      BY <2>3
    <3>2. j \in Nat /\ k \in Nat /\ j <= k
      BY <2>2, <2>3, <3>1
    <3> QED BY <3>2
  <2>5. ms[j].group = g
    BY <2>1, <2>3, StableAudioGroup
  <2> HIDE DEF P, kept
  <2> QED BY <1>3, <2>4, <2>5
<1>5. \A i \in P : ms[i] \in ToSet(ms) /\ ms[i].group # Nothing
  BY DEF ToSet, Referenced
<1>6. \A i, j \in P : StableAudioId(ms[i]) = StableAudioId(ms[j]) => i = j
  <2> TAKE i, j \in P
  <2>1. i \in Nat /\ j \in Nat
    BY <1>2
  <2>2. ~ (j < i /\ StableAudioId(ms[j]) = StableAudioId(ms[i]))
        /\ ~ (i < j /\ StableAudioId(ms[i]) = StableAudioId(ms[j]))
    OBVIOUS
  <2> HIDE DEF P
  <2> QED BY <2>1, <2>2
<1> HIDE DEF P, kept
<1>7. \A e \in ToSet(kept) : e \in ToSet(ms) /\ e.group # Nothing
  BY <1>3, <1>5
<1>8. \A i, j \in DOMAIN kept : StableAudioId(kept[i]) = StableAudioId(kept[j]) => i = j
  <2>1. PICK at : TakenFrom(at, kept, ms, P, Len(ms))
    BY <1>3
  <2>2. DOMAIN kept = 1 .. Len(kept) /\ Len(kept) \in Nat
    BY <1>3, ListFacts
  <2>3. /\ \A k \in 1 .. Len(kept) : at[k] \in P /\ kept[k] = ms[at[k]]
        /\ \A j, k \in 1 .. Len(kept) : j < k => at[j] < at[k]
    BY <2>1 DEF TakenFrom
  <2>4. \A k \in 1 .. Len(kept) : at[k] \in Nat
    BY <1>2, <2>3
  <2> SUFFICES ASSUME NEW i \in 1 .. Len(kept), NEW j \in 1 .. Len(kept),
                      StableAudioId(kept[i]) = StableAudioId(kept[j])
               PROVE  i = j
    BY <2>2
  <2>5. at[i] = at[j]
    BY <1>6, <2>3
  <2> QED BY <2>2, <2>3, <2>4, <2>5
<1> QED BY <1>1, <1>3, <1>4, <1>7, <1>8 DEF ms

\* The base name of a rendition begins with "audio".
LEMMA AudioBaseIs ==
    ASSUME NEW m \in Masters, NEW e \in ToSet(m.media), e.group # Nothing
    PROVE  IsList(AudioBase(e)) /\ Len(AudioBase(e)) > 0 /\ AudioBase(e)[1] = "audio"
<1>1. \A text \in {e.group, e.name} :
         Len(text) \in Nat /\ text = [i \in 1 .. Len(text) |-> text[i]]
  BY VariantAssumption
<1> DEFINE a == <<"audio", ":">>
           b == e.group
           c == <<":">>
           d == e.name
           x == a \o b
           y == x \o c
<1>2. IsList(a) /\ Len(a) = 2 /\ a[1] = "audio" /\ IsList(c)
  BY PairIsList, OneIsList
<1>3. IsList(b)
  <2>1. Len(b) \in Nat /\ b = [i \in 1 .. Len(b) |-> b[i]]
    BY <1>1
  <2> HIDE DEF b
  <2>2. DOMAIN b = 1 .. Len(b)
    BY <2>1
  <2> QED BY <2>1, <2>2, ListIs
<1>4. IsList(d)
  <2>1. Len(d) \in Nat /\ d = [i \in 1 .. Len(d) |-> d[i]]
    BY <1>1
  <2> HIDE DEF d
  <2>2. DOMAIN d = 1 .. Len(d)
    BY <2>1
  <2> QED BY <2>1, <2>2, ListIs
<1>5. AudioBase(e) = y \o d
  BY DEF AudioBase
<1> HIDE DEF a, b, c, d
<1>11. x = a \o b /\ y = x \o c
  OBVIOUS
<1> HIDE DEF x, y
<1>6. IsList(x) /\ Len(x) = Len(a) + Len(b) /\ \A i \in 1 .. Len(a) : x[i] = a[i]
  <2>1. Joined(a \o b, a, b)
    BY <1>2, <1>3, JoinIs
  <2>2. Joined(x, a, b)
    BY <1>11, <2>1
  <2> QED BY <2>2 DEF Joined
<1>7. IsList(y) /\ Len(y) = Len(x) + Len(c) /\ \A i \in 1 .. Len(x) : y[i] = x[i]
  <2>1. Joined(x \o c, x, c)
    BY <1>2, <1>6, JoinIs
  <2>2. Joined(y, x, c)
    BY <1>11, <2>1
  <2> QED BY <2>2 DEF Joined
<1>8. Joined(y \o d, y, d)
  BY <1>4, <1>7, JoinIs
<1>9. Len(b) \in Nat /\ Len(c) \in Nat /\ Len(d) \in Nat
  BY <1>2, <1>3, <1>4, ListFacts
<1> DEFINE z == y \o d
<1>10. IsList(z) /\ Len(z) > 0 /\ z[1] = "audio"
  <2> HIDE DEF z
  <2>1. IsList(z) /\ Len(z) = Len(y) + Len(d) /\ \A i \in 1 .. Len(y) : z[i] = y[i]
    <3>1. Joined(z, y, d)
      BY <1>8 DEF z
    <3> QED BY <3>1 DEF Joined
  <2>2. 1 \in 1 .. Len(a) /\ 1 \in 1 .. Len(x) /\ 1 \in 1 .. Len(y) /\ Len(z) > 0
    BY <1>2, <1>6, <1>7, <1>9, <2>1
  <2> QED BY <1>2, <1>6, <1>7, <2>1, <2>2
<1> QED BY <1>5, <1>10

\* The audio renditions: no identity twice, if the names are plain no id twice,
\* and of every group that a variant names and that has a playlist one.
LEMMA AudioRenditionsAre ==
    ASSUME NEW m \in Masters
    PROVE  LET A == AudioRenditions(m)
           IN  /\ IsList(A) /\ Distinct(A)
               /\ \A a \in ToSet(A) : a.kind = "audio" /\ a.id[1] = "audio" /\ Mark(a)[1] = "audio"
               /\ PlainNames(m) => \A a, c \in ToSet(A) : a.id = c.id => a = c
               /\ \A g \in ExternalGroups(m.media) \cap Referenced(m) :
                     \E a \in ToSet(A) : a.group = g
<1> DEFINE A == AudioRenditions(m)
           kept == UsedMedia(m)
           bs == [i \in DOMAIN kept |-> AudioBase(kept[i])]
           n == Len(kept)
<1>1. A = [i \in DOMAIN kept |->
            [id |-> Numbered(bs[i], Occurrence(bs, i)),
             stable |-> StableAudioId(kept[i]),
             kind |-> "audio", hasVideo |-> FALSE, hint |-> "muxed",
             height |-> Nothing, bandwidth |-> 0,
             group |-> kept[i].group, preferred |-> kept[i].preferred]]
  BY DEF AudioRenditions
<1>2. /\ IsList(kept)
      /\ \A e \in ToSet(kept) : e \in ToSet(m.media) /\ e.group # Nothing
      /\ \A i, j \in DOMAIN kept : StableAudioId(kept[i]) = StableAudioId(kept[j]) => i = j
      /\ \A g \in ExternalGroups(m.media) \cap Referenced(m) :
            \E e \in ToSet(kept) : e.group = g
  BY UsedMediaAre
<1>3. PlainNames(m) => \A a, b \in ToSet(kept) : \A k \in 2 .. n :
                          AudioBase(a) # AudioBase(b) \o <<"_", k>>
  BY DEF PlainNames
<1> HIDE DEF A, kept
<1>4. /\ n \in Nat /\ DOMAIN kept = 1 .. n
      /\ \A e \in ToSet(kept) : \E i \in 1 .. n : kept[i] = e
      /\ \A i \in 1 .. n : kept[i] \in ToSet(kept)
  BY <1>2, ListFacts
<1> HIDE DEF n
<1>5. DOMAIN bs = 1 .. n /\ \A i \in 1 .. n : bs[i] = AudioBase(kept[i])
  BY <1>4
<1> HIDE DEF bs
<1>6. \A i \in 1 .. n : IsList(bs[i]) /\ Len(bs[i]) > 0 /\ bs[i][1] = "audio"
  BY <1>2, <1>4, <1>5, AudioBaseIs
<1>7. Bases(bs, n)
  BY <1>4, <1>5, <1>6 DEF Bases
<1>8. PlainNames(m) => Plain(bs, n)
  <2> SUFFICES ASSUME PlainNames(m), NEW i \in 1 .. n, NEW j \in 1 .. n, NEW k \in 2 .. n
               PROVE  bs[i] # bs[j] \o <<"_", k>>
    BY DEF Plain
  <2>1. kept[i] \in ToSet(kept) /\ kept[j] \in ToSet(kept)
    BY <1>4
  <2>2. AudioBase(kept[i]) # AudioBase(kept[j]) \o <<"_", k>>
    BY <1>3, <2>1
  <2>3. bs[i] = AudioBase(kept[i]) /\ bs[j] = AudioBase(kept[j])
    BY <1>5
  <2> QED BY <2>2, <2>3
<1>9. \A i, j \in 1 .. n :
         /\ Numbered(bs[i], Occurrence(bs, i))[1] = bs[i][1]
         /\ (Plain(bs, n) /\ Numbered(bs[i], Occurrence(bs, i)) = Numbered(bs[j], Occurrence(bs, j)))
               => i = j
  BY <1>7, NumberedApart
<1>10. DOMAIN A = 1 .. n /\ A = [i \in 1 .. n |-> A[i]]
  BY <1>1, <1>4
<1>11. \A i \in 1 .. n : /\ A[i].id = Numbered(bs[i], Occurrence(bs, i))
                         /\ A[i].kind = "audio" /\ A[i].group = kept[i].group
                         /\ A[i].stable = StableAudioId(kept[i])
  BY <1>1, <1>4
<1>12. \A i \in 1 .. n : Mark(A[i]) = StableAudioId(kept[i])
  BY <1>11 DEF Mark
<1>13. Distinct(A)
  BY <1>2, <1>4, <1>10, <1>12 DEF Distinct
<1>14. IsList(A) /\ Len(A) = n
  BY <1>4, <1>10, ListIs
<1>15. \A x : StableAudioId(x)[1] = "audio"
  BY DEF StableAudioId
<1>16. \A i \in 1 .. n : A[i].id[1] = "audio"
  BY <1>6, <1>9, <1>11
<1>17. \A a \in ToSet(A) : a.kind = "audio" /\ a.id[1] = "audio" /\ Mark(a)[1] = "audio"
  BY <1>10, <1>11, <1>12, <1>15, <1>16 DEF ToSet
<1>18. PlainNames(m) => \A a, c \in ToSet(A) : a.id = c.id => a = c
  BY <1>8, <1>9, <1>10, <1>11 DEF ToSet
<1>19. \A g \in ExternalGroups(m.media) \cap Referenced(m) : \E a \in ToSet(A) : a.group = g
  <2> TAKE g \in ExternalGroups(m.media) \cap Referenced(m)
  <2>1. PICK e \in ToSet(kept) : e.group = g
    BY <1>2
  <2>2. PICK i \in 1 .. n : kept[i] = e
    BY <1>4
  <2>3. A[i] \in ToSet(A) /\ A[i].group = g
    BY <1>10, <1>11, <2>1, <2>2 DEF ToSet
  <2> QED BY <2>3
<1> QED BY <1>13, <1>14, <1>17, <1>18, <1>19 DEF A

\* The variants and audio renditions of a master playlist.
WellParsed(vs) ==
    /\ IsList(vs) /\ Distinct(vs)
    /\ \A v \in ToSet(vs) :
          /\ v.kind \in {"variant", "audio"}
          /\ v.kind = "variant" => Rated(v)
          /\ (v.kind = "variant" /\ v.hint = "external") =>
                /\ v.group # Nothing
                /\ \E a \in ToSet(vs) : a.kind = "audio" /\ a.group = v.group

\* parse_master_playlist returns such a list.
LEMMA ParsedWell ==
    ASSUME NEW m \in Masters
    PROVE  WellParsed(ParseMaster(m))
<1> DEFINE V == VideoVariants(m)
           A == AudioRenditions(m)
           es == m.playlists
<1>1. /\ IsList(V) /\ Len(V) = Len(es) /\ Distinct(V)
      /\ \A i \in DOMAIN es :
            /\ V[i].kind = "variant" /\ Rated(V[i])
            /\ V[i].id[1] # "audio"
            /\ V[i].group = es[i].group
            /\ V[i].hint = InferAudioHint(es[i], m.media)
  BY VideoVariantsAre
<1>2. /\ IsList(A) /\ Distinct(A)
      /\ \A a \in ToSet(A) : a.kind = "audio" /\ Mark(a)[1] = "audio"
      /\ \A g \in ExternalGroups(m.media) \cap Referenced(m) :
            \E a \in ToSet(A) : a.group = g
  BY AudioRenditionsAre
<1>3. ParseMaster(m) = V \o A
  BY DEF ParseMaster
<1>4. DOMAIN es = 1 .. Len(es) /\ \A i \in DOMAIN es : es[i] \in ToSet(es)
  BY MasterIs, ListFacts
<1> HIDE DEF V, A, es
<1>5. DOMAIN V = DOMAIN es
  BY <1>1, <1>4, ListFacts
<1>6. \A v \in ToSet(V) :
         /\ v.kind = "variant" /\ Rated(v) /\ v.id[1] # "audio"
         /\ \E i \in DOMAIN es : v.group = es[i].group /\ v.hint = InferAudioHint(es[i], m.media)
  BY <1>1, <1>5 DEF ToSet
<1>7. Distinct(V \o A)
  <2>1. \A v \in ToSet(V) : Mark(v)[1] # "audio"
    BY <1>6 DEF Mark
  <2>2. \A v \in ToSet(V) : \A w \in ToSet(A) : Mark(v) # Mark(w)
    BY <1>2, <2>1
  <2> QED BY <1>1, <1>2, <2>2, ConcatDistinct
<1>8. IsList(V \o A) /\ ToSet(V \o A) = ToSet(V) \cup ToSet(A)
  BY <1>1, <1>2, ConcatHolds
<1>9. \A v \in ToSet(V) : v.hint = "external" =>
         v.group # Nothing /\ \E a \in ToSet(A) : a.group = v.group
  <2> TAKE v \in ToSet(V)
  <2> HAVE v.hint = "external"
  <2>1. PICK i \in DOMAIN es : v.group = es[i].group /\ v.hint = InferAudioHint(es[i], m.media)
    BY <1>6
  <2>2. es[i].group \in ExternalGroups(m.media) \ {Nothing}
    BY <2>1 DEF InferAudioHint
  <2>3. es[i].group \in Referenced(m)
    BY <1>4, <2>2 DEF Referenced, es
  <2> QED BY <1>2, <2>1, <2>2, <2>3
<1>10. \A v \in ToSet(A) : v.kind # "variant"
  BY <1>2
<1>11. WellParsed(V \o A)
  BY <1>2, <1>6, <1>7, <1>8, <1>9, <1>10 DEF WellParsed
<1> QED BY <1>3, <1>11

\* Two entries of one id are audio renditions, and their names are not plain.
LEMMA ParsedIds ==
    ASSUME NEW m \in Masters, NEW v \in ToSet(ParseMaster(m)), NEW w \in ToSet(ParseMaster(m)),
           v.id = w.id, v # w
    PROVE  v.kind = "audio" /\ ~ PlainNames(m)
<1> DEFINE V == VideoVariants(m)
           A == AudioRenditions(m)
<1>1. /\ IsList(V) /\ Distinct(V) /\ DOMAIN V = DOMAIN m.playlists
      /\ \A i \in DOMAIN m.playlists : V[i].kind = "variant" /\ V[i].id[1] # "audio"
  BY VideoVariantsAre, MasterIs, ListFacts
<1>2. /\ IsList(A)
      /\ \A a \in ToSet(A) : a.kind = "audio" /\ a.id[1] = "audio"
      /\ PlainNames(m) => \A a, c \in ToSet(A) : a.id = c.id => a = c
  BY AudioRenditionsAre
<1>3. ParseMaster(m) = V \o A
  BY DEF ParseMaster
<1> HIDE DEF V, A
<1>4. ToSet(ParseMaster(m)) = ToSet(V) \cup ToSet(A)
  BY <1>1, <1>2, <1>3, ConcatHolds
<1>5. \A x \in ToSet(V) : x.kind = "variant" /\ x.id[1] # "audio" /\ Mark(x) = x.id
  BY <1>1 DEF ToSet, Mark
<1>6. ~ (v \in ToSet(V) /\ w \in ToSet(V))
  BY <1>1, <1>5, SameMark
<1>7. v \in ToSet(A) /\ w \in ToSet(A)
  BY <1>2, <1>4, <1>5, <1>6
<1> QED BY <1>2, <1>7

-----------------------------------------------------------------------------
\* What select_variants returns.

\* What Pick keeps is of the list.
LEMMA PickSome ==
    ASSUME NEW q, IsList(q), NEW P, P \subseteq DOMAIN q
    PROVE  /\ IsList(Pick(q, P)) /\ ToSet(Pick(q, P)) \subseteq ToSet(q)
           /\ Distinct(q) => Distinct(Pick(q, P))
<1> DEFINE s == Pick(q, P)
<1>1. IsList(s) /\ ToSet(s) = {q[i] : i \in P}
  BY PickKeeps
<1>2. Distinct(q) => Distinct(s)
  BY PickDistinct
<1> HIDE DEF s
<1>3. ToSet(s) \subseteq ToSet(q)
  BY <1>1 DEF ToSet
<1> QED BY <1>1, <1>2, <1>3 DEF s

\* video, in select_variants.
LEMMA VideosAre ==
    ASSUME NEW q, IsList(q)
    PROVE  LET s == Videos(q)
           IN  /\ IsList(s) /\ ToSet(s) = {v \in ToSet(q) : IsVideo(v)}
               /\ Distinct(q) => Distinct(s)
<1> DEFINE P == {i \in DOMAIN q : IsVideo(q[i])}
           s == Pick(q, P)
<1>1. Videos(q) = s
  BY DEF Videos, IsVideo
<1>2. P \subseteq DOMAIN q
  OBVIOUS
<1> HIDE DEF P
<1>3. IsList(s) /\ ToSet(s) = {q[i] : i \in P}
  BY <1>2, PickKeeps
<1>4. Distinct(q) => Distinct(s)
  BY <1>2, PickDistinct
<1> HIDE DEF s
<1>5. ToSet(s) = {v \in ToSet(q) : IsVideo(v)}
  BY <1>3 DEF ToSet, P
<1> QED BY <1>1, <1>3, <1>4, <1>5

\* audio, in select_variants.
LEMMA AudiosAre ==
    ASSUME NEW q, IsList(q)
    PROVE  LET s == Audios(q)
           IN  /\ IsList(s) /\ ToSet(s) = {v \in ToSet(q) : v.kind = "audio"}
               /\ Distinct(q) => Distinct(s)
<1> DEFINE P == {i \in DOMAIN q : q[i].kind = "audio"}
           s == Pick(q, P)
<1>1. Audios(q) = s
  BY DEF Audios
<1>2. P \subseteq DOMAIN q
  OBVIOUS
<1> HIDE DEF P
<1>3. IsList(s) /\ ToSet(s) = {q[i] : i \in P}
  BY <1>2, PickKeeps
<1>4. Distinct(q) => Distinct(s)
  BY <1>2, PickDistinct
<1> HIDE DEF s
<1>5. ToSet(s) = {v \in ToSet(q) : v.kind = "audio"}
  BY <1>3 DEF ToSet, P
<1> QED BY <1>1, <1>3, <1>4, <1>5

\* Videos before what is none.
LEMMA VideosFirst ==
    ASSUME NEW q, IsList(q), NEW r, IsList(r),
           \A v \in ToSet(q) : IsVideo(v),
           \A v \in ToSet(r) : ~ IsVideo(v)
    PROVE  LET s == Videos(q \o r)
           IN  IsList(s) /\ Len(s) = Len(q) /\ ToSet(s) = ToSet(q)
<1> DEFINE t == q \o r
           P == {i \in DOMAIN t : IsVideo(t[i])}
           s == Pick(t, P)
<1>1. /\ IsList(t) /\ Len(t) = Len(q) + Len(r)
      /\ \A i \in 1 .. Len(q) : t[i] = q[i]
      /\ \A i \in 1 .. Len(r) : t[Len(q) + i] = r[i]
  BY ConcatHolds
<1>2. Videos(t) = s
  BY DEF Videos, IsVideo
<1>3. P \subseteq DOMAIN t
  OBVIOUS
<1> HIDE DEF t
<1>4. /\ Len(q) \in Nat /\ Len(r) \in Nat /\ DOMAIN t = 1 .. Len(q) + Len(r)
      /\ DOMAIN q = 1 .. Len(q) /\ DOMAIN r = 1 .. Len(r)
  BY <1>1, ListFacts
<1>5. \A i \in 1 .. Len(q) : IsVideo(t[i])
  BY <1>1, <1>4 DEF ToSet
<1>6. \A i \in 1 .. Len(q) + Len(r) : i > Len(q) => ~ IsVideo(t[i])
  <2> TAKE i \in 1 .. Len(q) + Len(r)
  <2> HAVE i > Len(q)
  <2>1. i - Len(q) \in 1 .. Len(r) /\ Len(q) + (i - Len(q)) = i
    BY <1>4
  <2>2. t[i] = r[i - Len(q)] /\ r[i - Len(q)] \in ToSet(r)
    BY <1>1, <1>4, <2>1 DEF ToSet
  <2> QED BY <2>2
<1>7. P = 1 .. Len(q)
  BY <1>4, <1>5, <1>6
<1> HIDE DEF P
<1>8. IsList(s) /\ Len(s) = Cardinality(P) /\ ToSet(s) = {t[i] : i \in P}
  BY <1>1, <1>3, PickKeeps
<1>9. Cardinality(P) = Len(q)
  BY <1>4, <1>7, CountTo
<1> HIDE DEF s
<1>10. ToSet(s) = ToSet(q)
  <2>1. ToSet(s) = {t[i] : i \in 1 .. Len(q)}
    BY <1>7, <1>8
  <2>2. ToSet(q) = {q[i] : i \in 1 .. Len(q)}
    BY <1>4 DEF ToSet
  <2> QED BY <1>1, <2>1, <2>2
<1> QED BY <1>2, <1>8, <1>9, <1>10 DEF t

\* One of the group, if there is any.
LEMMA PreferredAudioIs ==
    ASSUME NEW q, IsList(q), NEW g
    PROVE  LET s == PreferredAudio(q, g)
           IN  /\ IsList(s) /\ ToSet(s) \subseteq ToSet(q)
               /\ Distinct(q) => Distinct(s)
               /\ (\E a \in ToSet(q) : a.group = g) => \E a \in ToSet(s) : a.group = g
<1> DEFINE C == {i \in DOMAIN q : q[i].group = g}
           D == {i \in C : q[i].preferred = "default"}
           E == {i \in C : q[i].preferred = "autoselect"}
           B == IF D # {} THEN D ELSE IF E # {} THEN E ELSE C
           P == {i \in B : \A j \in B : i <= j}
           s == Pick(q, P)
<1>1. PreferredAudio(q, g) = s
  BY DEF PreferredAudio
<1>2. B \subseteq C /\ (C # {} => B # {})
  OBVIOUS
<1>3. C \subseteq Nat /\ C \subseteq DOMAIN q
  BY ListFacts
<1> HIDE DEF B
<1>4. P \subseteq DOMAIN q /\ P \subseteq C
  BY <1>2, <1>3
<1>5. C # {} => P # {}
  <2> HAVE C # {}
  <2>1. B # {} /\ B \subseteq Nat
    BY <1>2, <1>3
  <2> HIDE DEF C
  <2> QED BY <2>1, NatHasMin
<1> HIDE DEF P
<1>6. IsList(s) /\ ToSet(s) = {q[i] : i \in P} /\ (Distinct(q) => Distinct(s))
  BY <1>4, PickKeeps, PickDistinct
<1> HIDE DEF s
<1>7. ToSet(s) \subseteq ToSet(q)
  BY <1>4, <1>6 DEF ToSet
<1>8. (\E a \in ToSet(q) : a.group = g) => \E a \in ToSet(s) : a.group = g
  <2> HAVE \E a \in ToSet(q) : a.group = g
  <2>1. C # {}
    BY DEF ToSet
  <2>2. PICK i \in P : TRUE
    BY <1>5, <2>1
  <2> QED BY <1>4, <1>6, <2>2
<1> QED BY <1>1, <1>6, <1>7, <1>8

\* What the policy p promises of what is selected among vs.
Promise(vs, sel, p) ==
    LET videos == Videos(vs)
        chosen == Videos(sel)
        Better(v, others) == \E w \in ToSet(others) : WorseThan(v, w)
        Worse(v, others) == \E w \in ToSet(others) : WorseThan(w, v)
    IN  /\ p.mode = "highest" =>
              Len(chosen) = 1 /\ ~Better(chosen[1], videos)
        /\ p.mode = "representative" =>
              /\ Len(chosen) = Min({Len(videos), p.count})
              /\ (p.count > 1 /\ videos # <<>>) =>
                    /\ \E v \in ToSet(chosen) : ~Better(v, videos)
                    /\ \E v \in ToSet(chosen) : ~Worse(v, videos)
        /\ ToSet(sel) \subseteq ToSet(vs)
        /\ Cardinality({Mark(v) : v \in ToSet(sel)}) = Len(sel)
        /\ p.mode \in {"highest", "representative"} =>
              \A v \in ToSet(chosen) : v.hint = "external" =>
                 \E a \in ToSet(Audios(sel)) : a.group = v.group

\* A list without repetition has as many marks as entries.
LEMMA DistinctCount ==
    ASSUME NEW q, IsList(q), Distinct(q)
    PROVE  Cardinality({Mark(v) : v \in ToSet(q)}) = Len(q)
<1> DEFINE T == {Mark(v) : v \in ToSet(q)}
           n == Len(q)
           f == [i \in 1 .. n |-> Mark(q[i])]
<1>1. n \in Nat /\ DOMAIN q = 1 .. n /\ ToSet(q) = {q[i] : i \in 1 .. n}
  BY ListFacts DEF ToSet
<1> HIDE DEF n
<1>2. f \in [1 .. n -> T]
  BY <1>1
<1>3. \A i, j \in 1 .. n : f[i] = f[j] => i = j
  BY <1>1 DEF Distinct
<1>4. \A t \in T : \E i \in 1 .. n : f[i] = t
  BY <1>1
<1> HIDE DEF f, T
<1>5. Cardinality(T) = n
  BY <1>1, <1>2, <1>3, <1>4, ListedOnce
<1> QED BY <1>5 DEF T, n

\* mode = highest_only.
LEMMA HighestPromised ==
    ASSUME NEW vs, WellParsed(vs), NEW p, p.mode = "highest", Videos(vs) # <<>>
    PROVE  Promise(vs, SelectVariants(vs, p), p)
<1> DEFINE videos == Videos(vs)
           audios == Audios(vs)
           best == Highest(videos)
           one == <<best>>
           pref == PreferredAudio(audios, best.group)
           sel == one \o pref
           chosen == Videos(sel)
<1>1. SelectVariants(vs, p) = sel
  BY DEF SelectVariants
<1>2. IsList(vs) /\ Distinct(vs)
  BY DEF WellParsed
<1>3. IsList(videos) /\ ToSet(videos) = {v \in ToSet(vs) : IsVideo(v)}
  BY <1>2, VideosAre
<1>4. IsList(audios) /\ Distinct(audios) /\ ToSet(audios) = {v \in ToSet(vs) : v.kind = "audio"}
  BY <1>2, AudiosAre
<1>5. AllRated(videos) /\ videos # <<>>
  <2> HIDE DEF videos
  <2>1. \A v \in ToSet(videos) : Rated(v)
    BY <1>3 DEF WellParsed, IsVideo
  <2> QED BY <1>3, <2>1 DEF AllRated, videos
<1> HIDE DEF videos, audios
<1>6. best \in ToSet(videos) /\ \A v \in ToSet(videos) : ~ WorseThan(best, v)
  BY <1>5, HighestIs
<1> HIDE DEF best
<1>7. IsList(one) /\ Len(one) = 1 /\ ToSet(one) = {best} /\ Distinct(one)
  BY OneIsList
<1>8. /\ IsList(pref) /\ ToSet(pref) \subseteq ToSet(audios) /\ Distinct(pref)
      /\ (\E a \in ToSet(audios) : a.group = best.group) =>
             \E a \in ToSet(pref) : a.group = best.group
  BY <1>4, PreferredAudioIs
<1> HIDE DEF one, pref
<1>9. IsVideo(best) /\ best \in ToSet(vs)
  BY <1>3, <1>6
<1>10. \A v \in ToSet(pref) : ~ IsVideo(v) /\ v.kind = "audio" /\ v \in ToSet(vs)
  BY <1>4, <1>8 DEF IsVideo
<1>11. IsList(sel) /\ ToSet(sel) = ToSet(one) \cup ToSet(pref)
  BY <1>7, <1>8, ConcatHolds
<1>12. Distinct(sel)
  <2>1. \A v \in ToSet(one) : \A w \in ToSet(pref) : Mark(v) # Mark(w)
    <3> SUFFICES ASSUME NEW w \in ToSet(pref), Mark(best) = Mark(w) PROVE FALSE
      BY <1>7
    <3>1. best = w
      BY <1>2, <1>9, <1>10, SameMark
    <3> QED BY <1>9, <1>10, <3>1
  <2> QED BY <1>7, <1>8, <2>1, ConcatDistinct
<1>13. IsList(chosen) /\ Len(chosen) = 1 /\ ToSet(chosen) = {best}
  <2>1. \A v \in ToSet(one) : IsVideo(v)
    BY <1>7, <1>9
  <2>2. \A v \in ToSet(pref) : ~ IsVideo(v)
    BY <1>10
  <2>3. IsList(chosen) /\ Len(chosen) = Len(one) /\ ToSet(chosen) = ToSet(one)
    BY <1>7, <1>8, <2>1, <2>2, VideosFirst
  <2> QED BY <1>7, <2>3
<1> HIDE DEF sel
<1>14. Cardinality({Mark(v) : v \in ToSet(sel)}) = Len(sel)
  BY <1>11, <1>12, DistinctCount
<1>15. ToSet(Audios(sel)) = {v \in ToSet(sel) : v.kind = "audio"}
  BY <1>11, AudiosAre
<1> HIDE DEF chosen
<1>16. chosen[1] = best
  BY <1>13, ListFacts
<1>17. best.hint = "external" => \E a \in ToSet(Audios(sel)) : a.group = best.group
  <2> HAVE best.hint = "external"
  <2>1. PICK a \in ToSet(vs) : a.kind = "audio" /\ a.group = best.group
    BY <1>9 DEF WellParsed, IsVideo
  <2>2. PICK b \in ToSet(pref) : b.group = best.group
    BY <1>4, <1>8, <2>1
  <2> QED BY <1>10, <1>11, <1>15, <2>2
<1>18. ToSet(sel) \subseteq ToSet(vs)
  BY <1>7, <1>9, <1>10, <1>11
<1>19. Promise(vs, sel, p)
  BY <1>6, <1>13, <1>14, <1>16, <1>17, <1>18 DEF Promise, chosen, videos
<1> QED BY <1>1, <1>19

\* mode = representative.
LEMMA RepresentativePromised ==
    ASSUME NEW vs, WellParsed(vs), NEW p, p.mode = "representative",
           p.count \in Nat, 0 < p.count
    PROVE  Promise(vs, SelectVariants(vs, p), p)
<1> DEFINE videos == Videos(vs)
           audios == Audios(vs)
           ranked == Ranked(videos)
           count == p.count
           spaced == EvenlySpaced(ranked, count)
           groups == {v.group : v \in ToSet(spaced)} \ {Nothing}
           P == {i \in DOMAIN audios : audios[i].group \in groups}
           rest == Pick(audios, P)
           sel == spaced \o rest
           chosen == Videos(sel)
<1>1. SelectVariants(vs, p) = sel
  BY DEF SelectVariants
<1>2. IsList(vs) /\ Distinct(vs)
  BY DEF WellParsed
<1>3. /\ IsList(videos) /\ ToSet(videos) = {v \in ToSet(vs) : IsVideo(v)}
      /\ Distinct(videos)
  BY <1>2, VideosAre
<1>4. IsList(audios) /\ Distinct(audios) /\ ToSet(audios) = {v \in ToSet(vs) : v.kind = "audio"}
  BY <1>2, AudiosAre
<1> DEFINE n == Len(videos)
<1>5. AllRated(videos)
  <2> HIDE DEF videos
  <2>1. \A v \in ToSet(videos) : Rated(v)
    BY <1>3 DEF WellParsed, IsVideo
  <2> QED BY <1>3, <2>1 DEF AllRated
<1>6. n \in Nat /\ (videos # <<>> => n # 0)
  <2>1. \A S : \A x \in Seq(S) : Len(x) \in Nat /\ (x # <<>> => Len(x) # 0)
    BY ONLY TRUE
  <2> HIDE DEF videos
  <2> QED BY <1>3, <2>1 DEF IsList
<1>7. count \in Nat /\ 0 < count
  OBVIOUS
<1> HIDE DEF videos, audios, count
<1>8. /\ IsList(ranked) /\ Len(ranked) = n /\ ToSet(ranked) = ToSet(videos)
      /\ Distinct(ranked)
      /\ \A j, k \in 1 .. n : j <= k => ~ WorseThan(ranked[k], ranked[j])
  BY <1>3, <1>5, RankedKeeps
<1> HIDE DEF ranked, n
<1>9. /\ IsList(spaced) /\ Len(spaced) = Min({n, count})
      /\ ToSet(spaced) \subseteq ToSet(ranked) /\ Distinct(spaced)
      /\ (count > 1 /\ n # 0) => ranked[1] \in ToSet(spaced) /\ ranked[n] \in ToSet(spaced)
  BY <1>7, <1>8, EvenlySpacedKeeps
<1> HIDE DEF spaced
<1>10. P \subseteq DOMAIN audios
  OBVIOUS
<1>11. /\ IsList(rest) /\ Distinct(rest) /\ ToSet(rest) = {audios[i] : i \in P}
       /\ ToSet(rest) \subseteq ToSet(audios)
  <2> HIDE DEF P
  <2> QED BY <1>4, <1>10, PickKeeps, PickDistinct, PickSome
<1>12. \A a \in ToSet(audios) : a.group \in groups => a \in ToSet(rest)
  <2> HIDE DEF groups, rest
  <2> QED BY <1>11 DEF ToSet
<1> HIDE DEF P, rest
<1>13. \A v \in ToSet(spaced) : IsVideo(v) /\ v \in ToSet(vs)
  BY <1>3, <1>8, <1>9
<1>14. \A v \in ToSet(rest) : ~ IsVideo(v) /\ v.kind = "audio" /\ v \in ToSet(vs)
  BY <1>4, <1>11 DEF IsVideo
<1>15. IsList(sel) /\ ToSet(sel) = ToSet(spaced) \cup ToSet(rest)
  BY <1>9, <1>11, ConcatHolds
<1>16. Distinct(sel)
  <2>1. \A v \in ToSet(spaced) : \A w \in ToSet(rest) : Mark(v) # Mark(w)
    <3> SUFFICES ASSUME NEW v \in ToSet(spaced), NEW w \in ToSet(rest), Mark(v) = Mark(w)
                 PROVE  FALSE
      OBVIOUS
    <3>1. v = w
      BY <1>2, <1>13, <1>14, SameMark
    <3> QED BY <1>13, <1>14, <3>1
  <2> QED BY <1>9, <1>11, <2>1, ConcatDistinct
<1>17. IsList(chosen) /\ Len(chosen) = Len(spaced) /\ ToSet(chosen) = ToSet(spaced)
  <2>1. \A v \in ToSet(spaced) : IsVideo(v)
    BY <1>13
  <2>2. \A v \in ToSet(rest) : ~ IsVideo(v)
    BY <1>14
  <2> QED BY <1>9, <1>11, <2>1, <2>2, VideosFirst
<1> HIDE DEF sel
<1>18. Cardinality({Mark(v) : v \in ToSet(sel)}) = Len(sel)
  BY <1>15, <1>16, DistinctCount
<1>19. ToSet(Audios(sel)) = {v \in ToSet(sel) : v.kind = "audio"}
  BY <1>15, AudiosAre
<1> HIDE DEF chosen
<1>20. ASSUME count > 1, videos # <<>>
       PROVE  /\ \E v \in ToSet(chosen) : \A w \in ToSet(videos) : ~ WorseThan(v, w)
              /\ \E v \in ToSet(chosen) : \A w \in ToSet(videos) : ~ WorseThan(w, v)
  <2>1. n \in 1 .. n /\ 1 \in 1 .. n
    BY <1>6, <1>20
  <2>2. ranked[1] \in ToSet(chosen) /\ ranked[n] \in ToSet(chosen)
    BY <1>6, <1>9, <1>17, <1>20
  <2>3. \A w \in ToSet(videos) : \E k \in 1 .. n : ranked[k] = w
    BY <1>8, ListFacts
  <2>4. \A k \in 1 .. n : /\ ~ WorseThan(ranked[n], ranked[k])
                          /\ ~ WorseThan(ranked[k], ranked[1])
    BY <1>6, <1>8, <2>1
  <2> QED BY <2>2, <2>3, <2>4
<1>21. \A v \in ToSet(chosen) : v.hint = "external" =>
           \E a \in ToSet(Audios(sel)) : a.group = v.group
  <2> TAKE v \in ToSet(chosen)
  <2> HAVE v.hint = "external"
  <2>1. v \in ToSet(spaced) /\ IsVideo(v) /\ v \in ToSet(vs)
    BY <1>13, <1>17
  <2>2. v.group # Nothing /\ \E a \in ToSet(vs) : a.kind = "audio" /\ a.group = v.group
    BY <2>1 DEF WellParsed, IsVideo
  <2>3. PICK a \in ToSet(vs) : a.kind = "audio" /\ a.group = v.group
    BY <2>2
  <2>4. a \in ToSet(rest)
    BY <1>4, <1>12, <2>1, <2>2, <2>3
  <2> QED BY <1>14, <1>15, <1>19, <2>3, <2>4
<1>22. ToSet(sel) \subseteq ToSet(vs)
  BY <1>13, <1>14, <1>15
<1>23. Promise(vs, sel, p)
  BY <1>9, <1>17, <1>18, <1>20, <1>21, <1>22 DEF Promise, chosen, videos, count, n
<1> QED BY <1>1, <1>23

\* mode = all, and an explicit choice: none twice.
LEMMA OthersPromised ==
    ASSUME NEW vs, WellParsed(vs), NEW p, p.mode \in {"all", "explicit"}
    PROVE  Promise(vs, SelectVariants(vs, p), p)
<1> DEFINE sel == SelectVariants(vs, p)
           P == {i \in DOMAIN vs : {vs[i].id, vs[i].stable} \cap p.wanted # {}}
<1>1. sel = IF p.mode = "all" THEN vs ELSE Pick(vs, P)
  BY DEF SelectVariants
<1>2. IsList(vs) /\ Distinct(vs)
  BY DEF WellParsed
<1>3. P \subseteq DOMAIN vs
  OBVIOUS
<1> HIDE DEF P, sel
<1>4. IsList(sel) /\ Distinct(sel) /\ ToSet(sel) \subseteq ToSet(vs)
  BY <1>1, <1>2, <1>3, PickSome
<1>5. Cardinality({Mark(v) : v \in ToSet(sel)}) = Len(sel)
  BY <1>4, DistinctCount
<1>6. Promise(vs, sel, p)
  BY <1>4, <1>5 DEF Promise
<1> QED BY <1>6 DEF sel

-----------------------------------------------------------------------------
\* What the cycle keeps: the selection is that of the master playlist it was
\* made of, what was loaded is of the selection, and Redis lists what was kept of
\* it, unless a refresh has failed.
ContextInv ==
    context.of # Nothing =>
       /\ context.of \in Masters
       /\ ~ CannotSelect(ParseMaster(context.of), policy)
       /\ context.selected = SelectVariants(ParseMaster(context.of), policy)

LoadedInv ==
    /\ context.loaded \subseteq ToSet(context.selected)
    /\ context.snapshots \in LastOfEach(context.loaded, "id")
    /\ context.of = Nothing => context.loaded = {}

RegistryInv ==
    (session # "refresh" /\ registry # <<>> /\ refusals = MaxRefusals) => registry \in Active

VariantInv ==
    /\ master \in Masters \cup {Nothing}
    /\ policy \in Policies
    /\ session \in {"poll", "refresh", "failed"}
    /\ refusals \in 0 .. MaxRefusals
    /\ ContextInv
    /\ LoadedInv
    /\ session = "poll" => RegistryInv

\* VariantInv is inductive.
LEMMA VariantInductive ==
    /\ VariantInit => VariantInv
    /\ VariantInv /\ [VariantNext]_variantVars => VariantInv'
<1>1. MaxRefusals \in Nat
  BY VariantAssumption
<1>2. VariantInit => VariantInv
  <2> SUFFICES ASSUME VariantInit PROVE VariantInv
    OBVIOUS
  <2>1. LoadedInv
    BY DEF VariantInit, LoadedInv, EmptyContext, LastOfEach
  <2> QED BY <1>1, <2>1 DEF VariantInit, VariantInv, ContextInv, RegistryInv, EmptyContext
<1>3. ASSUME VariantInv, [VariantNext]_variantVars PROVE VariantInv'
  <2>1. CASE ServeMaster
    BY <1>3, <2>1 DEF ServeMaster, VariantInv, ContextInv, LoadedInv, RegistryInv, Active
  <2>2. CASE LoadContext
    <3>1. LoadedInv'
      <4>1. PICK selected, loaded, snapshots :
               /\ loaded \subseteq ToSet(selected)
               /\ snapshots \in LastOfEach(loaded, "id")
               /\ context' = [of |-> master, selected |-> selected,
                              loaded |-> loaded, snapshots |-> snapshots]
        BY <2>2 DEF LoadContext
      <4>2. master # Nothing
        BY <2>2 DEF LoadContext
      <4> QED BY <4>1, <4>2 DEF LoadedInv
    <3>2. ContextInv'
      BY <1>3, <2>2 DEF LoadContext, VariantInv, ContextInv
    <3> QED BY <1>3, <2>2, <3>1, <3>2 DEF LoadContext, VariantInv, RegistryInv
  <2>3. CASE SelectionFails
    BY <1>3, <2>3 DEF SelectionFails, VariantInv, ContextInv, LoadedInv, RegistryInv
  <2>4. CASE RefreshRegistry
    <3>1. Active' = Active
      BY <2>4 DEF RefreshRegistry, Active
    <3>2. ContextInv' /\ LoadedInv'
      BY <1>3, <2>4 DEF RefreshRegistry, VariantInv, ContextInv, LoadedInv
    <3>3. \/ registry' \in Active /\ refusals' = refusals
          \/ refusals > 0 /\ refusals' = refusals - 1
      BY <2>4 DEF RefreshRegistry
    <3>4. refusals' \in 0 .. MaxRefusals /\ RegistryInv'
      BY <1>1, <1>3, <2>4, <3>1, <3>3 DEF RefreshRegistry, VariantInv, RegistryInv
    <3> QED BY <1>3, <2>4, <3>2, <3>4 DEF RefreshRegistry, VariantInv
  <2>5. CASE RegistryExpires
    BY <1>3, <2>5 DEF RegistryExpires, VariantInv, ContextInv, LoadedInv, RegistryInv
  <2>6. CASE UNCHANGED variantVars
    BY <1>3, <2>6 DEF variantVars, VariantInv, ContextInv, LoadedInv, RegistryInv, Active
  <2> QED BY <1>3, <2>1, <2>2, <2>3, <2>4, <2>5, <2>6 DEF VariantNext
<1> QED BY <1>2, <1>3

\* What is selected of the master playlist is what the policy promises.
LEMMA InvPromises ==
    ASSUME VariantInv, context.of # Nothing
    PROVE  Promise(ParseMaster(context.of), context.selected, policy)
<1> DEFINE vs == ParseMaster(context.of)
<1>1. /\ context.of \in Masters /\ ~ CannotSelect(vs, policy)
      /\ context.selected = SelectVariants(vs, policy)
  BY DEF VariantInv, ContextInv
<1>2. WellParsed(vs)
  BY <1>1, ParsedWell
<1> HIDE DEF vs
<1>3. policy.mode \in {"highest", "all", "representative", "explicit"}
      /\ policy.count \in Nat /\ 0 < policy.count
  BY VariantAssumption DEF VariantInv
<1>4. CASE policy.mode = "highest"
  <2>1. Videos(vs) # <<>>
    BY <1>1, <1>4 DEF CannotSelect
  <2> QED BY <1>1, <1>2, <1>4, <2>1, HighestPromised DEF vs
<1>5. CASE policy.mode = "representative"
  BY <1>1, <1>2, <1>3, <1>5, RepresentativePromised DEF vs
<1>6. CASE policy.mode \in {"all", "explicit"}
  BY <1>1, <1>2, <1>6, OthersPromised DEF vs
<1> QED BY <1>3, <1>4, <1>5, <1>6

\* What is selected is what the policy promises.
LEMMA InvSelects ==
    VariantInv => SelectedAsPromised
BY InvPromises DEF SelectedAsPromised, Promise

\* What is missing in the registry was replaced by a rendition of the same id.
LEMMA InvLists ==
    VariantInv => LoadedIsListed
<1> SUFFICES ASSUME VariantInv, session = "poll", registry # <<>>, refusals = MaxRefusals
             PROVE  /\ \A s \in DOMAIN registry :
                          \E v \in context.loaded : v.stable = s /\ v.id = registry[s]
                    /\ \A v \in context.loaded :
                          \/ v.stable \in DOMAIN registry
                          \/ v.kind = "audio" /\ ~PlainNames(context.of)
  BY DEF LoadedIsListed
<1>1. /\ LoadedInv /\ ContextInv /\ registry \in Active
  BY DEF VariantInv, RegistryInv
<1>2. PICK kept \in LastOfEach(context.snapshots, "stable") :
         registry = [s \in {v.stable : v \in kept} |-> (CHOOSE v \in kept : v.stable = s).id]
  BY <1>1 DEF Active
<1>3. /\ kept \subseteq context.snapshots
      /\ \A v \in context.snapshots : \E w \in kept : w.stable = v.stable
  BY <1>2 DEF LastOfEach
<1>4. /\ context.snapshots \subseteq context.loaded
      /\ \A v \in context.loaded : \E w \in context.snapshots : w.id = v.id
  BY <1>1 DEF LoadedInv, LastOfEach
<1>5. DOMAIN registry = {v.stable : v \in kept}
  BY <1>2
<1>6. ASSUME NEW s \in DOMAIN registry
      PROVE  \E v \in context.loaded : v.stable = s /\ v.id = registry[s]
  <2> DEFINE v == CHOOSE v \in kept : v.stable = s
  <2>1. v \in kept /\ v.stable = s
    BY <1>5, <1>6
  <2>2. registry[s] = v.id
    BY <1>2, <1>5
  <2> QED BY <1>3, <1>4, <2>1, <2>2
<1>7. ASSUME NEW v \in context.loaded, v.stable \notin DOMAIN registry
      PROVE  v.kind = "audio" /\ ~PlainNames(context.of)
  <2>1. PICK w \in context.snapshots : w.id = v.id
    BY <1>4
  <2>2. w.stable \in DOMAIN registry
    BY <1>3, <1>5
  <2>3. v # w /\ w \in context.loaded
    BY <1>4, <1>7, <2>2
  <2>4. context.of # Nothing
    BY <1>1, <1>7 DEF LoadedInv
  <2>5. context.of \in Masters
    BY <1>1, <2>4 DEF ContextInv
  <2>6. ToSet(context.selected) \subseteq ToSet(ParseMaster(context.of))
    BY <2>4, InvPromises DEF Promise
  <2>7. v \in ToSet(ParseMaster(context.of)) /\ w \in ToSet(ParseMaster(context.of))
    BY <1>1, <2>3, <2>6 DEF LoadedInv
  <2> QED BY <2>1, <2>3, <2>5, <2>7, ParsedIds
<1> QED BY <1>6, <1>7

\* For any master playlists, whatever fails to load and in whatever order the
\* rest arrives: every video that was loaded is listed in Redis, and every audio
\* rendition, unless its master playlist has a name that is another one with a
\* number.
THEOREM WhatIsLoadedIsListed ==
    VariantSpec => []LoadedIsListed
BY VariantInductive, InvLists, PTL DEF VariantSpec

\* For any master playlists and policies: what is selected is what the policy
\* promises, no rendition twice, and what of it was loaded is listed.
THEOREM MonitoringIsAsPromised ==
    VariantSpec => []MonitoredAsPromised
<1>1. VariantInv => MonitoredAsPromised
  BY InvSelects, InvLists DEF MonitoredAsPromised
<1> QED BY <1>1, VariantInductive, PTL DEF VariantSpec

-----------------------------------------------------------------------------
\* The same renditions under the same identities.

\* f leads upwards from 1 .. n into 1 .. p.
Climbs(f, n, p) ==
    /\ n \in Nat /\ p \in Nat /\ f \in [1 .. n -> 1 .. p]
    /\ \A j, k \in 1 .. n : j < k => f[j] < f[k]

\* Who climbs is at least as high as he has steps, and leaves room for the rest.
LEMMA ClimbsAbove ==
    ASSUME NEW f, NEW n, NEW p, Climbs(f, n, p)
    PROVE  \A k \in 1 .. n : k <= f[k] /\ f[k] <= p - (n - k)
<1>1. /\ n \in Nat /\ p \in Nat /\ \A k \in 1 .. n : f[k] \in 1 .. p
      /\ \A j, k \in 1 .. n : j < k => f[j] < f[k]
  BY DEF Climbs
<1> DEFINE S == {k \in Nat : k \in 1 .. n => k <= f[k]}
<1>2. \A k \in Nat : k \in S
  <2>1. 0 \in S
    OBVIOUS
  <2>2. ASSUME NEW k \in Nat, k \in S PROVE k + 1 \in S
    <3> SUFFICES ASSUME k + 1 \in 1 .. n PROVE k + 1 <= f[k + 1]
      OBVIOUS
    <3>1. CASE k = 0
      BY <1>1, <3>1
    <3>2. CASE k # 0
      <4>1. k \in 1 .. n /\ k < k + 1
        BY <1>1, <3>2
      <4>2. k <= f[k] /\ f[k] < f[k + 1]
        BY <1>1, <2>2, <4>1
      <4> QED BY <1>1, <4>1, <4>2
    <3> QED BY <3>1, <3>2
  <2> HIDE DEF S
  <2> QED BY <2>1, <2>2, Induct
<1> DEFINE T == {k \in Nat : n - k \in 1 .. n => f[n - k] <= p - k}
<1>3. \A k \in Nat : k \in T
  <2>1. 0 \in T
    BY <1>1
  <2>2. ASSUME NEW k \in Nat, k \in T PROVE k + 1 \in T
    <3> SUFFICES ASSUME n - (k + 1) \in 1 .. n PROVE f[n - (k + 1)] <= p - (k + 1)
      OBVIOUS
    <3> DEFINE i == n - (k + 1)
               j == n - k
    <3>1. i \in 1 .. n /\ j \in 1 .. n /\ i < j
      BY <1>1
    <3>2. f[j] <= p - k
      BY <2>2, <3>1
    <3> HIDE DEF i, j
    <3>3. f[i] < f[j] /\ f[i] \in Int /\ f[j] \in Int
      BY <1>1, <3>1
    <3>4. f[i] <= p - (k + 1)
      BY <1>1, <3>2, <3>3
    <3> QED BY <3>4 DEF i
  <2> HIDE DEF T
  <2> QED BY <2>1, <2>2, Induct
<1> TAKE k \in 1 .. n
<1>4. k <= f[k]
  BY <1>2
<1>5. n - k \in Nat /\ n - (n - k) = k
  BY <1>1
<1>6. f[n - (n - k)] <= p - (n - k)
  BY <1>1, <1>3, <1>5
<1> QED BY <1>4, <1>5, <1>6

\* What comes after what is no audio.
LEMMA AudiosLast ==
    ASSUME NEW q, IsList(q), NEW r, IsList(r),
           \A v \in ToSet(q) : v.kind # "audio",
           \A v \in ToSet(r) : v.kind = "audio"
    PROVE  Audios(q \o r) = r
<1> DEFINE t == q \o r
           P == {i \in DOMAIN t : t[i].kind = "audio"}
           s == Pick(t, P)
           a == Len(q)
           n == Len(r)
<1>1. /\ IsList(t) /\ Len(t) = a + n
      /\ \A i \in 1 .. a : t[i] = q[i]
      /\ \A i \in 1 .. n : t[a + i] = r[i]
  BY ConcatHolds
<1>2. Audios(t) = s
  BY DEF Audios
<1>3. P \subseteq DOMAIN t
  OBVIOUS
<1> HIDE DEF t
<1>4. /\ a \in Nat /\ n \in Nat /\ DOMAIN t = 1 .. a + n
      /\ DOMAIN q = 1 .. a /\ DOMAIN r = 1 .. n
      /\ r = [i \in 1 .. n |-> r[i]]
  BY <1>1, ListFacts
<1>5. \A i \in 1 .. a : i \notin P
  <2>1. \A i \in 1 .. a : q[i].kind # "audio"
    BY <1>4 DEF ToSet
  <2> QED BY <1>1, <2>1
<1>6. \A i \in 1 .. n : a + i \in P
  <2>1. \A i \in 1 .. n : r[i].kind = "audio"
    BY <1>4 DEF ToSet
  <2>2. \A i \in 1 .. n : a + i \in 1 .. a + n
    BY <1>4
  <2> QED BY <1>1, <1>4, <2>1, <2>2
<1> HIDE DEF a, n
<1>7. \A i \in P : i - a \in 1 .. n
  BY <1>3, <1>4, <1>5
<1> HIDE DEF P
<1>8. /\ IsList(s) /\ Len(s) = Cardinality(P)
      /\ \E at : TakenFrom(at, s, t, P, Len(t))
  BY <1>1, <1>3, PickKeeps
<1>9. Cardinality(P) = n
  <2> DEFINE f == [i \in 1 .. n |-> a + i]
  <2>1. f \in [1 .. n -> P]
    BY <1>6
  <2>2. \A i, j \in 1 .. n : f[i] = f[j] => i = j
    BY <1>4
  <2>3. \A i \in P : \E k \in 1 .. n : f[k] = i
    <3> TAKE i \in P
    <3>1. i - a \in 1 .. n /\ i \in 1 .. a + n
      BY <1>3, <1>4, <1>7
    <3>2. f[i - a] = i
      BY <1>4, <3>1
    <3> QED BY <3>1, <3>2
  <2>4. n \in Nat
    BY <1>4
  <2> HIDE DEF f
  <2> QED BY ONLY <2>1, <2>2, <2>3, <2>4, ListedOnce
<1> HIDE DEF s
<1>10. PICK at : TakenFrom(at, s, t, P, Len(t))
  BY <1>8
<1>11. DOMAIN s = 1 .. n /\ s = [i \in 1 .. n |-> s[i]]
  BY <1>8, <1>9, ListFacts
<1>12. /\ \A k \in 1 .. n : at[k] \in P /\ s[k] = t[at[k]]
       /\ \A j, k \in 1 .. n : j < k => at[j] < at[k]
  BY <1>8, <1>9, <1>10 DEF TakenFrom
<1> DEFINE g == [k \in 1 .. n |-> at[k] - a]
<1>13. \A k \in 1 .. n : at[k] \in Int
  BY <1>3, <1>4, <1>12
<1>14. Climbs(g, n, n)
  <2>1. \A k \in 1 .. n : g[k] \in 1 .. n
    BY <1>7, <1>12
  <2>2. \A j, k \in 1 .. n : j < k => g[j] < g[k]
    BY <1>4, <1>12, <1>13
  <2> QED BY <1>4, <2>1, <2>2 DEF Climbs
<1>15. \A k \in 1 .. n : at[k] - a = k
  <2> TAKE k \in 1 .. n
  <2>1. k <= g[k] /\ g[k] <= n - (n - k)
    BY <1>14, ClimbsAbove
  <2> QED BY SMTT(30), <1>4, <1>13, <2>1
<1>16. \A k \in 1 .. n : s[k] = r[k]
  <2> TAKE k \in 1 .. n
  <2>1. at[k] = a + k
    BY <1>4, <1>13, <1>15
  <2> QED BY <1>1, <1>12, <2>1 DEF a, n
<1>17. s = r
  BY <1>4, <1>11, <1>16
<1> QED BY <1>2, <1>17 DEF t

\* The same rendition, by whatever name.
Alike(v, w) ==
    /\ v.stable = w.stable /\ v.height = w.height /\ v.bandwidth = w.bandwidth
    /\ v.group = w.group /\ (IsVideo(v) <=> IsVideo(w))

\* Whatever is in q has its like in r.
Mirrors(q, r) == \A v \in ToSet(q) : \E w \in ToSet(r) : Alike(v, w)

\* No two are rated the same.
Untied(q) == \A v, w \in ToSet(q) : v = w \/ WorseThan(v, w) \/ WorseThan(w, v)

\* _quality_key does not tell apart what is alike.
LEMMA WorseAlike ==
    ASSUME NEW v, NEW w, Alike(v, w), NEW x, NEW y, Alike(x, y)
    PROVE  WorseThan(v, x) <=> WorseThan(w, y)
BY DEF Alike, WorseThan, Pixels

\* One order of q and the same in r.
LEMMA RankedMirrors ==
    ASSUME NEW q, AllRated(q), Distinct(q), Untied(q),
           NEW r, AllRated(r), Distinct(r), Untied(r), Mirrors(q, r)
    PROVE  \E f : /\ Climbs(f, Len(q), Len(r))
                  /\ \A k \in 1 .. Len(q) : Alike(Ranked(q)[k], Ranked(r)[f[k]])
<1> DEFINE s == Ranked(q)
           t == Ranked(r)
           n == Len(q)
           p == Len(r)
<1>1. /\ IsList(s) /\ Len(s) = n /\ ToSet(s) = ToSet(q) /\ Distinct(s)
      /\ \A j, k \in 1 .. n : j <= k => ~ WorseThan(s[k], s[j])
  BY RankedKeeps
<1>2. /\ IsList(t) /\ Len(t) = p /\ ToSet(t) = ToSet(r)
      /\ \A j, k \in 1 .. p : j <= k => ~ WorseThan(t[k], t[j])
  BY RankedKeeps
<1> HIDE DEF s, t
<1>3. /\ n \in Nat /\ DOMAIN s = 1 .. n
      /\ \A k \in 1 .. n : s[k] \in ToSet(q)
  BY <1>1, ListFacts
<1>4. /\ p \in Nat /\ DOMAIN t = 1 .. p
      /\ \A w \in ToSet(r) : \E k \in 1 .. p : t[k] = w
  BY <1>2, ListFacts
<1> HIDE DEF n, p
<1> DEFINE f == [k \in 1 .. n |-> CHOOSE i \in 1 .. p : Alike(s[k], t[i])]
<1>5. \A k \in 1 .. n : f[k] \in 1 .. p /\ Alike(s[k], t[f[k]])
  <2> TAKE k \in 1 .. n
  <2>1. PICK w \in ToSet(r) : Alike(s[k], w)
    BY <1>3 DEF Mirrors
  <2>2. \E i \in 1 .. p : Alike(s[k], t[i])
    BY <1>4, <2>1
  <2> QED BY <2>2
<1>6. f \in [1 .. n -> 1 .. p]
  BY <1>5
<1> HIDE DEF f
<1>7. \A j, k \in 1 .. n : j < k => f[j] < f[k]
  <2> TAKE j, k \in 1 .. n
  <2> HAVE j < k
  <2>1. s[j] # s[k]
    BY <1>1, <1>3 DEF Distinct
  <2>2. ~ WorseThan(s[k], s[j])
    BY <1>1, <1>3
  <2>3. WorseThan(s[j], s[k])
    BY <1>3, <2>1, <2>2 DEF Untied
  <2>4. WorseThan(t[f[j]], t[f[k]])
    BY <1>5, <2>3, WorseAlike
  <2>5. ~ (f[k] <= f[j])
    BY <1>2, <1>5, <2>4
  <2> QED BY <1>4, <1>5, <2>5
<1>8. Climbs(f, n, p)
  BY <1>3, <1>4, <1>6, <1>7 DEF Climbs
<1>9. Climbs(f, Len(q), Len(r)) /\ \A k \in 1 .. Len(q) : Alike(Ranked(q)[k], Ranked(r)[f[k]])
  BY <1>5, <1>8 DEF s, t, n, p
<1> QED BY <1>9

\* Lists that mirror each other are sorted alike.
LEMMA RankedAlike ==
    ASSUME NEW q, AllRated(q), Distinct(q), Untied(q),
           NEW r, AllRated(r), Distinct(r), Untied(r), Mirrors(q, r), Mirrors(r, q)
    PROVE  /\ Len(q) = Len(r)
           /\ \A k \in 1 .. Len(q) : Alike(Ranked(q)[k], Ranked(r)[k])
<1>1. PICK f : /\ Climbs(f, Len(q), Len(r))
               /\ \A k \in 1 .. Len(q) : Alike(Ranked(q)[k], Ranked(r)[f[k]])
  BY RankedMirrors
<1>2. PICK g : Climbs(g, Len(r), Len(q))
  BY RankedMirrors
<1> DEFINE n == Len(q)
           p == Len(r)
<1>3. n \in Nat /\ p \in Nat
  BY <1>1 DEF Climbs
<1>4. \A k \in 1 .. n : k <= f[k] /\ f[k] <= p - (n - k) /\ f[k] \in 1 .. p
  BY <1>1, ClimbsAbove DEF Climbs
<1>5. \A k \in 1 .. p : k <= g[k] /\ g[k] <= n - (p - k) /\ g[k] \in 1 .. n
  BY <1>2, ClimbsAbove DEF Climbs
<1> HIDE DEF n, p
<1>6. n <= p
  <2>1. CASE n = 0
    BY <1>3, <2>1
  <2>2. CASE n # 0
    <3>1. n \in 1 .. n
      BY <1>3, <2>2
    <3> QED BY <1>3, <1>4, <3>1
  <2> QED BY <2>1, <2>2
<1>7. p <= n
  <2>1. CASE p = 0
    BY <1>3, <2>1
  <2>2. CASE p # 0
    <3>1. p \in 1 .. p
      BY <1>3, <2>2
    <3> QED BY <1>3, <1>5, <3>1
  <2> QED BY <2>1, <2>2
<1>8. n = p
  BY <1>3, <1>6, <1>7
<1>9. \A k \in 1 .. n : f[k] = k
  <2> TAKE k \in 1 .. n
  <2>1. k <= f[k] /\ f[k] <= p - (n - k) /\ f[k] \in 1 .. p
    BY <1>4
  <2> QED BY <1>3, <1>8, <2>1
<1> QED BY <1>1, <1>8, <1>9 DEF n, p

\* As many of both, and the same.
LEMMA SpacedAlike ==
    ASSUME NEW q, IsList(q), NEW r, IsList(r), Len(q) = Len(r),
           \A k \in 1 .. Len(q) : Alike(q[k], r[k]),
           NEW count \in Nat, 0 < count
    PROVE  Mirrors(EvenlySpaced(q, count), EvenlySpaced(r, count))
<1> DEFINE n == Len(q)
<1>1. n \in Nat /\ n = Len(r) /\ DOMAIN q = 1 .. n /\ DOMAIN r = 1 .. n
  BY ListFacts
<1>2. \A k \in 1 .. n : Alike(q[k], r[k])
  OBVIOUS
<1> HIDE DEF n
<1>3. CASE n <= count
  <2>1. EvenlySpaced(q, count) = q /\ EvenlySpaced(r, count) = r
    BY <1>1, <1>3 DEF EvenlySpaced, n
  <2>2. Mirrors(q, r)
    BY <1>1, <1>2 DEF Mirrors, ToSet
  <2> QED BY <2>1, <2>2
<1>4. CASE ~ (n <= count)
  <2> DEFINE T == SpacedIndexes(n, count)
             P == {k + 1 : k \in T}
             s == Pick(q, P)
             t == Pick(r, P)
  <2>1. EvenlySpaced(q, count) = s /\ EvenlySpaced(r, count) = t
    BY <1>1, <1>4 DEF EvenlySpaced, n
  <2>2. T \subseteq 0 .. n - 1
    BY <1>1, <1>4, SpacedIndexesAre
  <2> HIDE DEF T
  <2>3. P \subseteq 1 .. n
    BY <1>1, <2>2
  <2> HIDE DEF P
  <2>4. ToSet(s) = {q[i] : i \in P} /\ ToSet(t) = {r[i] : i \in P}
    BY <1>1, <2>3, PickKeeps
  <2> HIDE DEF s, t
  <2>5. Mirrors(s, t)
    BY <1>2, <2>3, <2>4 DEF Mirrors
  <2> QED BY <2>1, <2>5
<1> QED BY <1>3, <1>4

Stables(q) == {v.stable : v \in ToSet(q)}

\* The parts of a master playlist.
LEMMA ParsedParts ==
    ASSUME NEW m \in Masters
    PROVE  LET vs == ParseMaster(m)
               V == VideoVariants(m)
           IN  /\ IsList(vs) /\ ToSet(vs) = ToSet(V) \cup ToSet(AudioRenditions(m))
               /\ Audios(vs) = AudioRenditions(m)
               /\ ToSet(Videos(vs)) = {v \in ToSet(V) : IsVideo(v)}
               /\ AllRated(Videos(vs)) /\ Distinct(Videos(vs))
<1> DEFINE V == VideoVariants(m)
           A == AudioRenditions(m)
           vs == V \o A
           videos == Videos(vs)
<1>1. IsList(V) /\ DOMAIN V = DOMAIN m.playlists
  BY VideoVariantsAre, MasterIs, ListFacts
<1>2. \A v \in ToSet(V) : v.kind = "variant" /\ Rated(v)
  BY <1>1, VideoVariantsAre DEF ToSet
<1>3. IsList(A) /\ \A a \in ToSet(A) : a.kind = "audio"
  BY AudioRenditionsAre
<1>4. ParseMaster(m) = vs
  BY DEF ParseMaster
<1>5. Distinct(vs)
  BY <1>4, ParsedWell DEF WellParsed
<1> HIDE DEF V, A
<1>6. IsList(vs) /\ ToSet(vs) = ToSet(V) \cup ToSet(A)
  BY <1>1, <1>3, ConcatHolds
<1>7. Audios(vs) = A
  <2>1. \A v \in ToSet(V) : v.kind # "audio"
    BY <1>2
  <2> QED BY <1>1, <1>3, <2>1, AudiosLast
<1> HIDE DEF vs
<1>8. IsList(videos) /\ ToSet(videos) = {v \in ToSet(vs) : IsVideo(v)} /\ Distinct(videos)
  BY <1>5, <1>6, VideosAre
<1> HIDE DEF videos
<1>9. ToSet(videos) = {v \in ToSet(V) : IsVideo(v)}
  BY <1>3, <1>6, <1>8 DEF IsVideo
<1>10. AllRated(videos)
  BY <1>2, <1>8, <1>9 DEF AllRated
<1> QED BY <1>4, <1>6, <1>7, <1>8, <1>9, <1>10 DEF V, A, videos

\* The same renditions, in any order and with any tokens.
SameRenditions(m, n) == Renditions(m) = Renditions(n) /\ m.media = n.media

\* The same renditions have the same variants and the same sound.
LEMMA VariantsMirror ==
    ASSUME NEW m \in Masters, NEW n \in Masters, SameRenditions(m, n)
    PROVE  /\ Mirrors(VideoVariants(m), VideoVariants(n))
           /\ AudioRenditions(m) = AudioRenditions(n)
<1> DEFINE V == VideoVariants(m)
           W == VideoVariants(n)
<1>1. \A e \in ToSet(m.playlists) : \E d \in ToSet(n.playlists) :
         /\ e.path = d.path /\ e.bandwidth = d.bandwidth /\ e.height = d.height
         /\ e.codecs = d.codecs /\ e.group = d.group
  <2> TAKE e \in ToSet(m.playlists)
  <2>1. <<e.path, e.bandwidth, e.height, e.codecs, e.group>> \in Renditions(n)
    BY DEF SameRenditions, Renditions
  <2> QED BY <2>1 DEF Renditions
<1>2. /\ IsList(V) /\ DOMAIN V = DOMAIN m.playlists
      /\ IsList(W) /\ DOMAIN W = DOMAIN n.playlists
  BY VideoVariantsAre, MasterIs, ListFacts
<1>3. \A i \in DOMAIN m.playlists :
         /\ V[i].group = m.playlists[i].group
         /\ V[i].stable = StableVariantId(m.playlists[i])
         /\ V[i].height = m.playlists[i].height
         /\ V[i].bandwidth = m.playlists[i].bandwidth
         /\ IsVideo(V[i]) <=> InferHasVideo(m.playlists[i])
  BY VideoVariantsAre
<1>4. \A i \in DOMAIN n.playlists :
         /\ W[i].group = n.playlists[i].group
         /\ W[i].stable = StableVariantId(n.playlists[i])
         /\ W[i].height = n.playlists[i].height
         /\ W[i].bandwidth = n.playlists[i].bandwidth
         /\ IsVideo(W[i]) <=> InferHasVideo(n.playlists[i])
  BY VideoVariantsAre
<1> HIDE DEF V, W
<1>5. Mirrors(V, W)
  <2> SUFFICES ASSUME NEW i \in DOMAIN m.playlists
               PROVE  \E w \in ToSet(W) : Alike(V[i], w)
    BY <1>2 DEF Mirrors, ToSet
  <2> DEFINE e == m.playlists[i]
  <2>1. e \in ToSet(m.playlists)
    BY DEF ToSet
  <2>2. PICK d \in ToSet(n.playlists) :
           /\ e.path = d.path /\ e.bandwidth = d.bandwidth /\ e.height = d.height
           /\ e.codecs = d.codecs /\ e.group = d.group
    BY <1>1, <2>1
  <2>3. PICK j \in DOMAIN n.playlists : n.playlists[j] = d
    BY DEF ToSet
  <2>4. StableVariantId(e) = StableVariantId(d)
    BY <2>2 DEF StableVariantId
  <2>5. InferHasVideo(e) <=> InferHasVideo(d)
    BY <2>2 DEF InferHasVideo
  <2>6. Alike(V[i], W[j])
    BY <1>3, <1>4, <2>2, <2>3, <2>4, <2>5 DEF Alike
  <2> QED BY <1>2, <2>3, <2>6 DEF ToSet
<1>6. {e.group : e \in ToSet(m.playlists)} = {e.group : e \in ToSet(n.playlists)}
  <2>1. \A e \in ToSet(n.playlists) : \E d \in ToSet(m.playlists) : e.group = d.group
    <3> TAKE e \in ToSet(n.playlists)
    <3>1. <<e.path, e.bandwidth, e.height, e.codecs, e.group>> \in Renditions(m)
      BY DEF SameRenditions, Renditions
    <3> QED BY <3>1 DEF Renditions
  <2> QED BY <1>1, <2>1
<1>7. AudioRenditions(m) = AudioRenditions(n)
  <2>1. UsedMedia(m) = UsedMedia(n)
    BY <1>6 DEF UsedMedia, SameRenditions
  <2> QED BY <2>1 DEF AudioRenditions
<1> QED BY <1>5, <1>7 DEF V, W

\* The same renditions have the same videos.
LEMMA VideosMirror ==
    ASSUME NEW m \in Masters, NEW n \in Masters, SameRenditions(m, n)
    PROVE  Mirrors(Videos(ParseMaster(m)), Videos(ParseMaster(n)))
<1> DEFINE V == VideoVariants(m)
           W == VideoVariants(n)
           q == Videos(ParseMaster(m))
           r == Videos(ParseMaster(n))
<1>1. Mirrors(V, W)
  BY VariantsMirror
<1>2. ToSet(q) = {v \in ToSet(V) : IsVideo(v)} /\ ToSet(r) = {v \in ToSet(W) : IsVideo(v)}
  BY ParsedParts
<1> HIDE DEF V, W, q, r
<1>3. Mirrors(q, r)
  BY <1>1, <1>2 DEF Mirrors, Alike
<1> QED BY <1>3 DEF q, r

\* What is selected of one is selected of the other.
LEMMA SelectsWithin ==
    ASSUME NEW m \in Masters, NEW n \in Masters, SameRenditions(m, n),
           Untied(VideoVariants(m)), Untied(VideoVariants(n)), NEW p \in Policies,
           ~ CannotSelect(ParseMaster(m), p), ~ CannotSelect(ParseMaster(n), p),
           \A v \in ToSet(ParseMaster(m)) : v.id \notin p.wanted
    PROVE  Stables(SelectVariants(ParseMaster(m), p))
              \subseteq Stables(SelectVariants(ParseMaster(n), p))
<1> DEFINE V == VideoVariants(m)
           W == VideoVariants(n)
           A == AudioRenditions(m)
           vs == ParseMaster(m)
           ws == ParseMaster(n)
           q == Videos(vs)
           r == Videos(ws)
           count == p.count
<1>1. Mirrors(V, W) /\ AudioRenditions(n) = A
  BY VariantsMirror
<1>2. Mirrors(q, r) /\ Mirrors(r, q)
  <2>1. SameRenditions(n, m)
    BY DEF SameRenditions
  <2> QED BY <2>1, VideosMirror
<1>3. /\ IsList(vs) /\ ToSet(vs) = ToSet(V) \cup ToSet(A)
      /\ Audios(vs) = A
      /\ ToSet(q) = {v \in ToSet(V) : IsVideo(v)}
      /\ AllRated(q) /\ Distinct(q)
  BY ParsedParts
<1>4. /\ IsList(ws) /\ ToSet(ws) = ToSet(W) \cup ToSet(A)
      /\ Audios(ws) = A
      /\ ToSet(r) = {v \in ToSet(W) : IsVideo(v)}
      /\ AllRated(r) /\ Distinct(r)
  BY <1>1, ParsedParts
<1>5. IsList(A)
  BY AudioRenditionsAre
<1>6. Untied(q) /\ Untied(r)
  BY <1>3, <1>4 DEF Untied
<1>7. \A v \in ToSet(vs) : \E w \in ToSet(ws) : v.stable = w.stable
  BY <1>1, <1>3, <1>4 DEF Mirrors, Alike
<1>8. p.mode \in {"highest", "all", "representative", "explicit"}
      /\ count \in Nat /\ 0 < count
  BY VariantAssumption
<1>9. /\ p.mode = "highest" => q # <<>> /\ r # <<>>
  BY DEF CannotSelect
<1>10. \A v \in ToSet(vs) : v.id \notin p.wanted
  OBVIOUS
<1> HIDE DEF V, W, A, vs, ws, q, r, count
<1>11. CASE p.mode = "all"
  <2>1. SelectVariants(vs, p) = vs /\ SelectVariants(ws, p) = ws
    BY <1>11 DEF SelectVariants
  <2>2. Stables(vs) \subseteq Stables(ws)
    BY <1>7 DEF Stables
  <2> QED BY <2>1, <2>2 DEF vs, ws
<1>12. CASE p.mode = "explicit"
  <2> DEFINE P == {i \in DOMAIN vs : {vs[i].id, vs[i].stable} \cap p.wanted # {}}
             R == {i \in DOMAIN ws : {ws[i].id, ws[i].stable} \cap p.wanted # {}}
  <2>1. SelectVariants(vs, p) = Pick(vs, P) /\ SelectVariants(ws, p) = Pick(ws, R)
    BY <1>12 DEF SelectVariants
  <2>2. P \subseteq DOMAIN vs /\ R \subseteq DOMAIN ws
    OBVIOUS
  <2>3. \A i \in P : \E j \in R : vs[i].stable = ws[j].stable
    <3> TAKE i \in P
    <3>1. vs[i] \in ToSet(vs) /\ vs[i].stable \in p.wanted
      BY <1>10 DEF ToSet
    <3>2. PICK j \in DOMAIN ws : vs[i].stable = ws[j].stable
      BY <1>7, <3>1 DEF ToSet
    <3> QED BY <3>1, <3>2
  <2> HIDE DEF P, R
  <2>4. ToSet(Pick(vs, P)) = {vs[i] : i \in P} /\ ToSet(Pick(ws, R)) = {ws[i] : i \in R}
    BY <1>3, <1>4, <2>2, PickKeeps
  <2>5. Stables(Pick(vs, P)) \subseteq Stables(Pick(ws, R))
    BY <2>3, <2>4 DEF Stables
  <2> QED BY <2>1, <2>5 DEF vs, ws
<1>13. CASE p.mode = "highest"
  <2> DEFINE x == Highest(q)
             y == Highest(r)
  <2>1. x \in ToSet(q) /\ \A v \in ToSet(q) : ~ WorseThan(x, v)
    BY <1>3, <1>9, <1>13, HighestIs
  <2>2. y \in ToSet(r) /\ \A v \in ToSet(r) : ~ WorseThan(y, v)
    BY <1>4, <1>9, <1>13, HighestIs
  <2> DEFINE one == <<x>>
             two == <<y>>
             pref == PreferredAudio(A, x.group)
             pref2 == PreferredAudio(A, y.group)
  <2>3. SelectVariants(vs, p) = one \o pref /\ SelectVariants(ws, p) = two \o pref2
    BY <1>3, <1>4, <1>13 DEF SelectVariants, q, r
  <2> HIDE DEF x, y
  <2>4. Alike(x, y)
    <3>1. PICK w \in ToSet(r) : Alike(x, w)
      BY <1>2, <2>1 DEF Mirrors
    <3>2. PICK u \in ToSet(q) : Alike(y, u)
      BY <1>2, <2>2 DEF Mirrors
    <3>3. ~ WorseThan(y, w) /\ ~ WorseThan(x, u)
      BY <2>1, <2>2, <3>1, <3>2
    <3>4. Alike(u, y)
      BY <3>2 DEF Alike
    <3>5. ~ WorseThan(w, y)
      BY <3>1, <3>3, <3>4, WorseAlike
    <3>6. w = y
      BY <1>6, <2>2, <3>1, <3>3, <3>5 DEF Untied
    <3> QED BY <3>1, <3>6
  <2>5. ToSet(one) = {x} /\ IsList(one) /\ ToSet(two) = {y} /\ IsList(two)
    BY OneIsList
  <2>6. IsList(pref) /\ pref2 = pref
    BY <1>5, <2>4, PreferredAudioIs DEF Alike
  <2> HIDE DEF one, two, pref, pref2
  <2>7. ToSet(one \o pref) = ToSet(one) \cup ToSet(pref)
        /\ ToSet(two \o pref2) = ToSet(two) \cup ToSet(pref)
    BY <2>5, <2>6, ConcatHolds
  <2>8. Stables(one \o pref) \subseteq Stables(two \o pref2)
    BY <2>4, <2>5, <2>7 DEF Stables, Alike
  <2> QED BY <2>3, <2>8 DEF vs, ws
<1>14. CASE p.mode = "representative"
  <2> DEFINE s == EvenlySpaced(Ranked(q), count)
             t == EvenlySpaced(Ranked(r), count)
             G == {v.group : v \in ToSet(s)} \ {Nothing}
             H == {v.group : v \in ToSet(t)} \ {Nothing}
             P == {i \in DOMAIN A : A[i].group \in G}
             R == {i \in DOMAIN A : A[i].group \in H}
             rest == Pick(A, P)
             rest2 == Pick(A, R)
  <2>1. SelectVariants(vs, p) = s \o rest /\ SelectVariants(ws, p) = t \o rest2
    BY <1>3, <1>4, <1>14 DEF SelectVariants, q, r, count
  <2>2. /\ IsList(Ranked(q)) /\ Len(Ranked(q)) = Len(q)
        /\ IsList(Ranked(r)) /\ Len(Ranked(r)) = Len(r)
    BY <1>3, <1>4, RankedKeeps
  <2>3. Len(q) = Len(r) /\ \A k \in 1 .. Len(q) : Alike(Ranked(q)[k], Ranked(r)[k])
    BY <1>2, <1>3, <1>4, <1>6, RankedAlike
  <2>4. \A k \in 1 .. Len(r) : Alike(Ranked(r)[k], Ranked(q)[k])
    BY <2>3 DEF Alike
  <2> DEFINE a == Ranked(q)
             b == Ranked(r)
  <2>5. /\ IsList(a) /\ IsList(b) /\ Len(a) = Len(b)
        /\ \A k \in 1 .. Len(a) : Alike(a[k], b[k])
        /\ \A k \in 1 .. Len(b) : Alike(b[k], a[k])
    BY <2>2, <2>3, <2>4
  <2>6. s = EvenlySpaced(a, count) /\ t = EvenlySpaced(b, count)
    OBVIOUS
  <2> HIDE DEF a, b, s, t
  <2>7. Mirrors(s, t) /\ Mirrors(t, s)
    BY <1>8, <2>5, <2>6, SpacedAlike
  <2>8. IsList(s) /\ IsList(t)
    BY <1>8, <2>5, <2>6, EvenlySpacedKeeps
  <2>9. G = H
    BY <2>7 DEF Mirrors, Alike
  <2>10. rest2 = rest
    <3> HIDE DEF G, H
    <3> QED BY <2>9
  <2>11. IsList(rest)
    <3>1. P \subseteq DOMAIN A
      OBVIOUS
    <3> HIDE DEF P
    <3> QED BY <1>5, <3>1, PickKeeps
  <2> HIDE DEF rest, rest2, G, H, P, R
  <2>12. ToSet(s \o rest) = ToSet(s) \cup ToSet(rest)
         /\ ToSet(t \o rest2) = ToSet(t) \cup ToSet(rest)
    BY <2>8, <2>10, <2>11, ConcatHolds
  <2>13. Stables(s \o rest) \subseteq Stables(t \o rest2)
    BY <2>7, <2>12 DEF Stables, Mirrors, Alike
  <2> QED BY <2>1, <2>13 DEF vs, ws
<1> QED BY <1>8, <1>11, <1>12, <1>13, <1>14

\* No two variants of a master playlist tie in _quality_key: they differ in
\* their size, their bandwidth or their path.
NoTies == \A m \in Masters : Untied(VideoVariants(m))

\* While the origin only rotates its tokens and reorders its variants, the same
\* renditions stay monitored, if no two variants tie: sorted() and max() leave
\* those that do in the order of the playlist.
THEOREM IdentityIsKept ==
    ASSUME NoTies
    PROVE  VariantSpec => IdentityKept
<1>1. VariantInv /\ [VariantNext]_variantVars => [SameIdentities]_variantVars
  <2> SUFFICES ASSUME VariantInv, [VariantNext]_variantVars PROVE SameIdentities
    OBVIOUS
  <2>1. CASE LoadContext
    <3> SUFFICES ASSUME context.of # Nothing, SameRenditions(context.of, context'.of),
                        policy.wanted \cap {v.id : v \in ToSet(ParseMaster(context.of))
                                         \cup ToSet(ParseMaster(context'.of))} = {}
                 PROVE  Stables(context.selected) = Stables(context'.selected)
      BY DEF Stables, SameRenditions, SameIdentities
    <3> DEFINE m == context.of
               n == context'.of
    <3>1. /\ m \in Masters /\ ~ CannotSelect(ParseMaster(m), policy)
          /\ context.selected = SelectVariants(ParseMaster(m), policy)
          /\ policy \in Policies
      BY DEF VariantInv, ContextInv
    <3>2. /\ n \in Masters /\ ~ CannotSelect(ParseMaster(n), policy)
          /\ context'.selected = SelectVariants(ParseMaster(n), policy)
      BY <2>1 DEF LoadContext, VariantInv
    <3>3. SameRenditions(m, n) /\ SameRenditions(n, m)
      BY DEF SameRenditions
    <3>4. /\ \A v \in ToSet(ParseMaster(m)) : v.id \notin policy.wanted
          /\ \A v \in ToSet(ParseMaster(n)) : v.id \notin policy.wanted
      OBVIOUS
    <3>5. Untied(VideoVariants(m)) /\ Untied(VideoVariants(n))
      BY <3>1, <3>2 DEF NoTies
    <3> HIDE DEF m, n
    <3>6. Stables(SelectVariants(ParseMaster(m), policy))
             \subseteq Stables(SelectVariants(ParseMaster(n), policy))
      BY <3>1, <3>2, <3>3, <3>4, <3>5, SelectsWithin
    <3>7. Stables(SelectVariants(ParseMaster(n), policy))
             \subseteq Stables(SelectVariants(ParseMaster(m), policy))
      BY <3>1, <3>2, <3>3, <3>4, <3>5, SelectsWithin
    <3>8. Stables(SelectVariants(ParseMaster(m), policy))
             = Stables(SelectVariants(ParseMaster(n), policy))
      BY <3>6, <3>7
    <3> QED BY <3>1, <3>2, <3>8
  <2>2. CASE ~ LoadContext
    <3>1. context' = context
      BY <2>2 DEF VariantNext, ServeMaster, SelectionFails, RefreshRegistry,
                        RegistryExpires, variantVars
    <3> QED BY <3>1 DEF SameIdentities
  <2> QED BY <2>1, <2>2
<1> QED BY <1>1, VariantInductive, PTL DEF VariantSpec, IdentityKept
=============================================================================
