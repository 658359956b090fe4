---------------------------- MODULE SegmentStore ----------------------------
(***************************************************************************)
(* The per-segment processing record that RedisSegmentStateStore keeps in  *)
(* Redis (src/src/core/segment_state.py) and the Lua scripts that change   *)
(* it (src/src/core/redis_scripts.py): a hash with a status and a count of *)
(* attempts, and a lease lock that holds the token of one claim.           *)
(*                                                                         *)
(* lock[s] = w means: the stored token is the one worker w still holds for *)
(* its current claim of s.  A token nobody holds any more (its process     *)
(* crashed, or gave the claim up without a successful call) is Orphan: it  *)
(* can only expire.  Tokens are fresh uuids, so no other case exists.      *)
(*                                                                         *)
(* The operators are the state changes of the calls; ProfileWorker says    *)
(* who makes them and when.                                                *)
(***************************************************************************)
EXTENDS Naturals, FiniteSets

CONSTANTS
    Workers,        \* monitoring processes that follow the same stream
    NSegs,          \* segments of the playlist window, numbered by sequence
    MaxAttempts     \* RedisSegmentStateStore(max_attempts = 3)

Free == "free"
Orphan == "orphan"

ASSUME StoreAssumption ==
    /\ NSegs \in Nat \ {0}
    /\ MaxAttempts \in Nat \ {0}
    /\ Free \notin Workers
    /\ Orphan \notin Workers

VARIABLES
    status,         \* segment -> field "status" of its hash
    attempts,       \* segment -> field "attempts" of its hash
    lock            \* segment -> whose token the lease lock holds

storeVars == <<status, attempts, lock>>

Segs == 1 .. NSegs

\* SegmentProcessingStatus; "new" is a hash that does not exist yet.
Status == {"new", "processing", "success", "retryable", "terminal"}

Settled(s) == status[s] \in {"success", "terminal"}

\* ProfileScheduler._needs_processing: the planner's test of a record.
NeedsProcessing(s) == ~ Settled(s) /\ attempts[s] < MaxAttempts

Owns(w, s) == lock[s] = w

StoreTypeOK ==
    /\ status \in [Segs -> Status]
    /\ attempts \in [Segs -> 0 .. MaxAttempts]
    /\ lock \in [Segs -> Workers \cup {Free, Orphan}]

StoreInit ==
    /\ status = [s \in Segs |-> "new"]
    /\ attempts = [s \in Segs |-> 0]
    /\ lock = [s \in Segs |-> Free]

-----------------------------------------------------------------------------

\* claim(): SET lock token NX PX lease_ms.
SetLockNX(w, s) ==
    /\ lock[s] = Free
    /\ lock' = [lock EXCEPT ![s] = w]
    /\ UNCHANGED <<status, attempts>>

\* Mutant of Rejects: one attempt too many.
RejectsOffByOne(s) == Settled(s) \/ attempts[s] > MaxAttempts

\* Mutant of Rejects: only the budget is tested, not the final states.
RejectsBudgetOnly(s) == attempts[s] >= MaxAttempts

\* claim(): the record forbids another attempt, so the lock is given back.
Rejects(s) == Settled(s) \/ attempts[s] >= MaxAttempts

\* claim(): HSET status PROCESSING, attempts read + 1.  No token is compared.
WriteClaim(s, read) ==
    /\ status' = [status EXCEPT ![s] = "processing"]
    /\ attempts' = [attempts EXCEPT ![s] = read + 1]
    /\ UNCHANGED lock

\* RELEASE_OWNED_LOCK.
ReleaseLock(w, s) ==
    /\ lock' = [lock EXCEPT ![s] = IF Owns(w, s) THEN Free ELSE @]
    /\ UNCHANGED <<status, attempts>>

\* Mutant of Complete: the script does not compare the token.
CompleteUnfenced(w, s, outcome) ==
    /\ status' = [status EXCEPT ![s] = outcome]
    /\ lock' = [lock EXCEPT ![s] = Free]
    /\ UNCHANGED attempts

\* COMPLETE_SEGMENT with the outcome as status; a lost lease changes nothing.
Complete(w, s, outcome) ==
    /\ status' = [status EXCEPT ![s] = IF Owns(w, s) THEN outcome ELSE @]
    /\ lock' = [lock EXCEPT ![s] = IF Owns(w, s) THEN Free ELSE @]
    /\ UNCHANGED attempts

\* RELINQUISH_SEGMENT_CLAIM: retryable again, with the attempt refunded.
Relinquish(w, s) ==
    /\ status' = [status EXCEPT ![s] = IF Owns(w, s) THEN "retryable" ELSE @]
    /\ attempts' = [attempts EXCEPT ![s] =
                      IF Owns(w, s) /\ @ > 0 THEN @ - 1 ELSE @]
    /\ lock' = [lock EXCEPT ![s] = IF Owns(w, s) THEN Free ELSE @]

\* Mutant of Abandon: the heartbeats go on renewing.
AbandonKeepsRenewing(w, s) == UNCHANGED storeVars

\* The holder stops renewing without having released: heartbeats stopped
\* after a failed call, or a claim that raised RedisUnavailableError.
Abandon(w, s) ==
    /\ lock' = [lock EXCEPT ![s] = IF Owns(w, s) THEN Orphan ELSE @]
    /\ UNCHANGED <<status, attempts>>

\* PX elapsed without a renewal.
ExpireLock(s) ==
    /\ lock[s] # Free
    /\ lock' = [lock EXCEPT ![s] = Free]
    /\ UNCHANGED <<status, attempts>>
=============================================================================
