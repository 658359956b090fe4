--------------------------- MODULE CommandConsumer ---------------------------
(***************************************************************************)
(* The way of a lifecycle command of one stream from the Redis stream of   *)
(* commands to its result: RedisMonitoringCommandConsumer (consumer group, *)
(* pending entries, deferral, marker and result in one MULTI),             *)
(* PersistentMonitoringCommandHandler (the desired-state registry) and     *)
(* SupervisorDesiredStateReconciler (recovery after a restart).            *)
(*                                                                         *)
(* Sources: src/src/app/redis_monitoring_command_consumer.py,              *)
(* persistent_monitoring_command_handler.py,                               *)
(* redis_desired_state_repository.py,                                      *)
(* supervisor_desired_state_reconciler.py, monitoring_worker.py.           *)
(*                                                                         *)
(* There is one process; after a crash it may come back under another      *)
(* consumer name.  The lifecycle operation itself is one step here, with   *)
(* the outcomes SupervisorMonitoringControl gives; StreamControl opens it  *)
(* up.  All configurations are enabled; no marker expires.                 *)
(***************************************************************************)
EXTENDS Naturals, Sequences, FiniteSets, SequencesExt

CONSTANTS
    Ids,            \* command_id values clients use
    Payloads,       \* [kind, config] records a command may carry
    Names,          \* consumer names the process may start under
    BatchSize,      \* entries per read
    MaxEntries,     \* bound: entries added to the command stream
    MaxFaults,      \* bound: Redis calls that fail
    MaxCrashes,     \* bound: crashes
    MaxFailures     \* bound: starts that fail and sessions that die

None == "none"
Kinds == {"start", "pause", "resume", "stop", "update"}
Configs == {p.config : p \in Payloads}

ASSUME ConsumerAssumption ==
    /\ BatchSize \in Nat \ {0}
    /\ MaxEntries \in Nat /\ MaxFaults \in Nat
    /\ MaxCrashes \in Nat /\ MaxFailures \in Nat
    /\ Payloads \subseteq [kind : Kinds \cup {"invalid"}, config : Configs]
    /\ None \notin Names

VARIABLES
    stream,         \* the command stream: sequence of [id, kind, config]
    owner,          \* entry -> consumer name in the pending list, or None
    delivered,      \* entries delivered to the group so far
    marker,         \* command id -> {payload} of its processed marker, or {}
    results,        \* the result stream: sequence of [id, kind, status]
    dead,           \* entries in the dead-letter stream
    registry,       \* lifecycle in the desired-state record, config
    actual,         \* the supervisor's slot: lifecycle, config, desired_running
    name,           \* consumer name of the running process
    stage,          \* where the command thread is
    todo,           \* entries of the current poll not yet processed
    retrying,       \* the poll processes _deferred_entries
    deferred,       \* _deferred_entries
    outcome,        \* status of the handled, not yet finalized command
    left            \* what the bounds still allow

redisVars == <<stream, owner, delivered, marker, results, dead, registry>>
workVars == <<name, todo, retrying, deferred>>
vars == <<redisVars, actual, workVars, stage, outcome, left>>

Entries == 1 .. MaxEntries
Stages == {"down", "recover", "idle", "look", "save", "finalize"}
Statuses == {"applied", "noop", "rejected", "failed"}

Pending == {e \in Entries : owner[e] # None}
Acked == {e \in 1 .. delivered : owner[e] = None}
Command(e) == [kind |-> stream[e].kind, config |-> stream[e].config]

TypeOK ==
    /\ \A e \in DOMAIN stream : stream[e].id \in Ids /\ Command(e) \in Payloads
    /\ owner \in [Entries -> Names \cup {None}]
    /\ delivered \in 0 .. Len(stream)
    /\ marker \in [Ids -> SUBSET Payloads]
    /\ \A i \in DOMAIN results :
          results[i] \in [id : Ids, kind : Kinds, status : Statuses]
    /\ dead \subseteq 1 .. delivered
    /\ registry \in [life : {None, "running", "paused", "stopped"},
                     config : Configs \cup {None}]
    /\ actual \in [life : {"absent", "running", "paused", "failed"},
                   config : Configs \cup {None}, wants : BOOLEAN]
    /\ name \in Names
    /\ stage \in Stages
    /\ todo \in Seq(1 .. delivered) /\ deferred \in Seq(1 .. delivered)
    /\ (stage \in {"look", "save", "finalize"}) <=> (todo # <<>>)
    /\ \A i \in DOMAIN todo : stage = "look" \/ owner[todo[i]] = name
    /\ retrying \in BOOLEAN
    /\ outcome \in Statuses \cup {None}
    /\ left \in [faults : 0 .. MaxFaults, crashes : 0 .. MaxCrashes,
                 failures : 0 .. MaxFailures]

Absent == [life |-> "absent", config |-> None, wants |-> FALSE]

Init ==
    /\ stream = <<>>
    /\ owner = [e \in Entries |-> None]
    /\ delivered = 0
    /\ marker = [i \in Ids |-> {}]
    /\ results = <<>>
    /\ dead = {}
    /\ registry = [life |-> None, config |-> None]
    /\ actual = Absent
    /\ name \in Names
    /\ stage = "recover"
    /\ todo = <<>> /\ deferred = <<>>
    /\ retrying = FALSE
    /\ outcome = None
    /\ left = [faults |-> MaxFaults, crashes |-> MaxCrashes,
               failures |-> MaxFailures]

Spend(what) == left[what] > 0 /\ left' = [left EXCEPT ![what] = @ - 1]

\* A client adds a command; it may repeat one, or reuse an id by mistake.
Submit(i, p) ==
    /\ Len(stream) < MaxEntries
    /\ stream' = Append(stream, [id |-> i, kind |-> p.kind,
                                 config |-> p.config])
    /\ UNCHANGED <<owner, delivered, marker, results, dead, registry, actual,
                   workVars, stage, outcome, left>>

-----------------------------------------------------------------------------
(* poll_once: which entries to work on.                                     *)

Work(entries, again) ==
    /\ todo' = entries
    /\ retrying' = again
    /\ stage' = "look"

PollDeferred ==
    /\ stage = "idle"
    /\ deferred # <<>>
    /\ Work(deferred, TRUE)
    /\ UNCHANGED <<redisVars, actual, name, deferred, outcome, left>>

\* At most n entries of a set, in stream order.
Earliest(n, S) ==
    LET size == IF Cardinality(S) < n THEN Cardinality(S) ELSE n
    IN [i \in 1 .. size |->
          CHOOSE e \in S : Cardinality({f \in S : f <= e}) = i]

Own == {e \in Pending : owner[e] = name}

\* XREADGROUP 0: what was delivered to this name and never acknowledged.
PollOwn ==
    /\ stage = "idle"
    /\ deferred = <<>>
    /\ Own # {}
    /\ Work(Earliest(BatchSize, Own), FALSE)
    /\ UNCHANGED <<redisVars, actual, name, deferred, outcome, left>>

\* Mutant of PollClaim: nothing is ever claimed from another name.
PollClaimNever == FALSE /\ UNCHANGED vars

\* XAUTOCLAIM, once the entries of another name have been idle long enough.
\* They were delivered by one call and grow idle together.
PollClaim ==
    /\ stage = "idle"
    /\ deferred = <<>>
    /\ Own = {}
    /\ Pending # {}
    /\ LET claimed == Earliest(BatchSize, Pending)
       IN /\ owner' = [e \in Entries |-> IF e \in ToSet(claimed) THEN name
                                                                 ELSE owner[e]]
          /\ Work(claimed, FALSE)
    /\ UNCHANGED <<stream, delivered, marker, results, dead, registry, actual,
                   name, deferred, outcome, left>>

\* Mutant of PollNew: entries another name still has pending do not count.
PollNewIgnoresOthers ==
    /\ stage = "idle"
    /\ deferred = <<>>
    /\ Own = {}
    /\ delivered < Len(stream)
    /\ LET new == Earliest(BatchSize, delivered + 1 .. Len(stream))
       IN /\ owner' = [e \in Entries |-> IF e \in ToSet(new) THEN name
                                                             ELSE owner[e]]
          /\ delivered' = delivered + Len(new)
          /\ Work(new, FALSE)
    /\ UNCHANGED <<stream, marker, results, dead, registry, actual, name,
                   deferred, outcome, left>>

\* XREADGROUP >, only when the whole group has nothing pending.
PollNew ==
    /\ stage = "idle"
    /\ deferred = <<>>
    /\ Pending = {}
    /\ delivered < Len(stream)
    /\ LET new == Earliest(BatchSize, delivered + 1 .. Len(stream))
       IN /\ owner' = [e \in Entries |-> IF e \in ToSet(new) THEN name
                                                             ELSE owner[e]]
          /\ delivered' = delivered + Len(new)
          /\ Work(new, FALSE)
    /\ UNCHANGED <<stream, marker, results, dead, registry, actual, name,
                   deferred, outcome, left>>

-----------------------------------------------------------------------------
(* _process: one entry.                                                     *)

Current == Head(todo)

\* The entry is done: the next one, with what is left of the deferral.
NextEntry ==
    /\ todo' = Tail(todo)
    /\ deferred' = IF retrying /\ deferred # <<>> THEN Tail(deferred)
                                                  ELSE deferred
    /\ stage' = IF Len(todo) = 1 THEN "idle" ELSE "look"
    /\ outcome' = None
    /\ UNCHANGED <<name, retrying>>

\* The poll ends early; a failed Redis call leaves _deferred_entries alone.
EndPoll(stillDeferred) ==
    /\ todo' = <<>>
    /\ deferred' = stillDeferred
    /\ stage' = "idle"
    /\ outcome' = None
    /\ UNCHANGED <<name, retrying>>

Ack(e) == owner' = [owner EXCEPT ![e] = None]

\* Not a command, or an id already used by a different payload.
Unacceptable(e) ==
    \/ stream[e].kind = "invalid"
    \/ marker[stream[e].id] \notin {{}, {Command(e)}}

DeadLetter ==
    /\ stage = "look"
    /\ Unacceptable(Current)
    /\ dead' = dead \cup {Current}
    /\ Ack(Current)
    /\ NextEntry
    /\ UNCHANGED <<stream, delivered, marker, results, registry, actual, left>>

\* The marker shows the command was finalized before: acknowledge only.
Replay ==
    /\ stage = "look"
    /\ ~ Unacceptable(Current)
    /\ marker[stream[Current].id] # {}
    /\ Ack(Current)
    /\ NextEntry
    /\ UNCHANGED <<stream, delivered, marker, results, dead, registry, actual,
                   left>>

\* What a lifecycle operation makes of the slot: pairs of status and slot.
Stays(status) == {<<status, actual>>}
Starts(c) ==
    {<<"applied", [life |-> "running", config |-> c, wants |-> TRUE]>>,
     <<"failed", [life |-> "failed", config |-> c, wants |-> TRUE]>>}
Idles(c) == {<<"applied", [life |-> "paused", config |-> c, wants |-> FALSE]>>}

Outcomes(kind, c) ==
    CASE kind # "start" /\ kind # "stop" /\ actual.life = "absent" ->
             Stays("rejected")
      [] kind = "start" /\ actual.life = "absent" -> Starts(c)
      [] kind = "start" /\ actual.life # "absent" /\ actual.config # c ->
             Stays("rejected")
      [] kind \in {"start", "resume"} /\ actual.life = "running" ->
             Stays("noop")
      [] kind = "resume" /\ actual.life = "failed" -> Stays("failed")
      [] kind = "pause" /\ actual.life = "running" -> Idles(actual.config)
      [] kind = "pause" /\ actual.life \in {"paused", "failed"} -> Stays("noop")
      [] kind = "stop" /\ actual.life = "absent" -> Stays("noop")
      [] kind = "stop" /\ actual.life # "absent" -> {<<"applied", Absent>>}
      [] kind = "update" /\ actual.config = c -> Stays("noop")
      [] kind = "update" /\ actual.wants -> Starts(c)
      [] kind = "update" /\ ~ actual.wants -> Idles(c)
      [] OTHER -> Starts(actual.config)

Succeeded(status) == status \in {"applied", "noop"}

\* Mutant of ToSave: what changed nothing is not recorded as desired.
ToSaveApplied(status) == status = "applied"

\* The handler goes on to persist the desired state.
ToSave(status) == Succeeded(status)

\* Mutant of Handle: the entry is acknowledged before it is executed.
HandleAcksFirst ==
    /\ stage = "look"
    /\ ~ Unacceptable(Current)
    /\ marker[stream[Current].id] = {}
    /\ Ack(Current)
    /\ \E o \in Outcomes(stream[Current].kind, stream[Current].config) :
          /\ actual' = o[2]
          /\ outcome' = o[1]
          /\ stage' = IF ToSave(o[1]) THEN "save" ELSE "finalize"
          /\ IF o[2].life = "failed" /\ actual' # actual
             THEN Spend("failures") ELSE UNCHANGED left
    /\ UNCHANGED <<stream, delivered, marker, results, dead, registry, workVars>>

\* inner_handler.handle: the operation itself.
Handle ==
    /\ stage = "look"
    /\ ~ Unacceptable(Current)
    /\ marker[stream[Current].id] = {}
    /\ \E o \in Outcomes(stream[Current].kind, stream[Current].config) :
          /\ actual' = o[2]
          /\ outcome' = o[1]
          /\ stage' = IF ToSave(o[1]) THEN "save" ELSE "finalize"
          /\ IF o[2].life = "failed" /\ actual' # actual
             THEN Spend("failures") ELSE UNCHANGED left
    /\ UNCHANGED <<redisVars, workVars>>

\* The desired state a successful command leaves, from the one before.
DesiredLife(kind, before) ==
    CASE kind \in {"start", "resume"} -> "running"
      [] kind = "pause" -> "paused"
      [] kind = "stop" -> "stopped"
      [] kind = "update" /\ before \in {"running", "paused"} -> before
      [] OTHER -> "running"

DesiredConfig(kind, c) ==
    CASE kind \in {"start", "update"} -> c
      [] kind = "stop" -> None
      [] OTHER -> IF registry.config # None THEN registry.config
                                            ELSE actual.config

\* _persist_desired_transition: HSET of the record.
Save ==
    /\ stage = "save"
    /\ LET c == stream[Current]
       IN registry' = [life |-> DesiredLife(c.kind, registry.life),
                       config |-> DesiredConfig(c.kind, c.config)]
    /\ stage' = "finalize"
    /\ UNCHANGED <<stream, owner, delivered, marker, results, dead, actual,
                   workVars, outcome, left>>

\* DesiredStatePersistenceError: this entry and the rest of the batch wait in
\* memory.
SaveFails ==
    /\ stage = "save"
    /\ Spend("faults")
    /\ EndPoll(IF retrying THEN deferred ELSE todo)
    /\ UNCHANGED <<redisVars, actual>>

\* Mutant of Commit: the marker is not in the transaction.
CommitWithoutMarker ==
    /\ results' = Append(results, [id |-> stream[Current].id,
                                   kind |-> stream[Current].kind,
                                   status |-> outcome])
    /\ Ack(Current)
    /\ UNCHANGED <<stream, delivered, marker, dead, registry>>

\* _finalize: marker, result and XACK in one MULTI.
Commit ==
    /\ marker' = [marker EXCEPT ![stream[Current].id] = {Command(Current)}]
    /\ results' = Append(results, [id |-> stream[Current].id,
                                   kind |-> stream[Current].kind,
                                   status |-> outcome])
    /\ Ack(Current)
    /\ UNCHANGED <<stream, delivered, dead, registry>>

Finalize ==
    /\ stage = "finalize"
    /\ Commit
    /\ NextEntry
    /\ UNCHANGED <<actual, left>>

\* The transaction was executed, but its answer was lost.
FinalizeUnheard ==
    /\ stage = "finalize"
    /\ Commit
    /\ Spend("faults")
    /\ EndPoll(deferred)
    /\ UNCHANGED actual

\* Any other failed call: RedisError leaves poll_once.
CallFails ==
    /\ stage \in {"look", "finalize"}
    /\ Spend("faults")
    /\ EndPoll(deferred)
    /\ UNCHANGED <<redisVars, actual>>

-----------------------------------------------------------------------------
(* The process and its stream.                                              *)

\* The running session dies by itself.
SessionDies ==
    /\ actual.life = "running"
    /\ Spend("failures")
    /\ actual' = [actual EXCEPT !.life = "failed"]
    /\ UNCHANGED <<redisVars, workVars, stage, outcome>>

\* The process ends, drained or not: its memory is gone.
Crash ==
    /\ stage # "down"
    /\ Spend("crashes")
    /\ stage' = "down"
    /\ actual' = Absent
    /\ todo' = <<>> /\ deferred' = <<>>
    /\ retrying' = FALSE
    /\ outcome' = None
    /\ UNCHANGED <<redisVars, name>>

Restart(n) ==
    /\ stage = "down"
    /\ stage' = "recover"
    /\ name' = n
    /\ UNCHANGED <<redisVars, actual, todo, retrying, deferred, outcome, left>>

\* reconcile(), before the consumer polls for the first time.
Reconcile ==
    /\ stage = "recover"
    /\ \/ /\ registry.life = "running"
          /\ \E o \in Starts(registry.config) :
                /\ actual' = o[2]
                /\ IF o[1] = "failed" THEN Spend("failures")
                                      ELSE UNCHANGED left
       \/ /\ registry.life = "paused"
          /\ actual' = [life |-> "paused", config |-> registry.config,
                        wants |-> FALSE]
          /\ UNCHANGED left
       \/ /\ registry.life \in {None, "stopped"}
          /\ UNCHANGED <<actual, left>>
    /\ stage' = "idle"
    /\ UNCHANGED <<redisVars, workVars, outcome>>

-----------------------------------------------------------------------------

Poll == PollDeferred \/ PollOwn \/ PollClaim \/ PollNew
Process == DeadLetter \/ Replay \/ Handle \/ Save \/ Finalize
Faulty == SaveFails \/ FinalizeUnheard \/ CallFails

Next ==
    \/ \E i \in Ids, p \in Payloads : Submit(i, p)
    \/ Poll \/ Process \/ Faulty
    \/ SessionDies \/ Crash \/ Reconcile
    \/ \E n \in Names : Restart(n)

Spec == Init /\ [][Next]_vars

\* The command thread runs, and a crashed process is started again.
Fairness ==
    /\ WF_vars(Poll)
    /\ WF_vars(Process)
    /\ WF_vars(Reconcile)
    /\ WF_vars(\E n \in Names : Restart(n))

FairSpec == Spec /\ Fairness

-----------------------------------------------------------------------------
(* What the command path promises.                                          *)

\* A command id gets at most one result, however often it is submitted,
\* delivered again after a failed call, or claimed after a crash.
OneResult ==
    \A i, j \in DOMAIN results : results[i].id = results[j].id => i = j

\* A command is only executed when every earlier one has been acknowledged:
\* deferral, failed calls and a restart under a new name keep the order.
NoOvertaking ==
    [][Handle => \A e \in 1 .. Current - 1 : e \in Acked]_vars

\* Nothing is acknowledged and forgotten: the entry's command has a result or
\* the entry is in the dead-letter stream.
AckedIsAnswered ==
    \A e \in Acked :
        e \in dead \/ \E i \in DOMAIN results : results[i].id = stream[e].id

\* A command reported as done is on record: between commands the registry is
\* a state the last result, if it is a success, leaves.  Neither a failed
\* write, nor a crash before it, nor a redelivery that finds the work already
\* done (NOOP) reports an unrecorded command.
ReportedIsRecorded ==
    stage = "idle" /\ Pending = {} /\ results # <<>>
        => LET r == Last(results)
           IN Succeeded(r.status) =>
                  registry.life = DesiredLife(r.kind, registry.life)

\* Commands do not get stuck: again and again every command added so far is
\* acknowledged, also those a crashed consumer of another name left pending.
AllAcked == []<>(Acked = DOMAIN stream)

\* Between commands a live stream does what its desired state says.
LifeIsDesired ==
    stage = "idle" /\ Pending = {} /\ actual.life \in {"running", "paused"}
        => actual.life = registry.life
=============================================================================
