----------------------------- MODULE EventStore -----------------------------
(***************************************************************************)
(* The part of RedisBlackEventStore.apply that makes a segment's result    *)
(* take effect once: a commit marker per segment, one event lock per       *)
(* variant, and one MULTI/EXEC that writes the events, the alerts and the  *)
(* marker together (src/src/checks/black_screen/live_state.py; the freeze, *)
(* audio and macroblocking stores have the same shape).  What the reducer  *)
(* computes is abstracted to "the effect of segment s".                    *)
(***************************************************************************)
EXTENDS SegmentStore

VARIABLES
    marker,         \* segment -> its commit marker exists
    hits,           \* segment -> how often its effect was written (history)
    eventLock       \* whose token the variant's event lock holds

eventVars == <<marker, hits, eventLock>>

EventTypeOK ==
    /\ marker \in [Segs -> BOOLEAN]
    /\ hits \in [Segs -> Nat]
    /\ eventLock \in Workers \cup {Free, Orphan}

EventInit ==
    /\ marker = [s \in Segs |-> FALSE]
    /\ hits = [s \in Segs |-> 0]
    /\ eventLock = Free

\* SET event_lock token NX PX event_lock_ms.
TakeEventLock(w) ==
    /\ eventLock = Free
    /\ eventLock' = w
    /\ UNCHANGED <<marker, hits>>

\* RELEASE_OWNED_LOCK on the event lock, in apply's finally.
FreedBy(w) == IF eventLock = w THEN Free ELSE eventLock

DropEventLock(w) ==
    /\ eventLock' = FreedBy(w)
    /\ UNCHANGED <<marker, hits>>

\* Mutant of ExecEffect: the marker is not in the transaction.
ExecWithoutMarker(w, s) ==
    /\ hits' = [hits EXCEPT ![s] = @ + 1]
    /\ eventLock' = FreedBy(w)
    /\ UNCHANGED marker

\* pipe.execute() of _apply_locked, then the release; no token is compared.
ExecEffect(w, s) ==
    /\ marker' = [marker EXCEPT ![s] = TRUE]
    /\ hits' = [hits EXCEPT ![s] = @ + 1]
    /\ eventLock' = FreedBy(w)

ExpireEventLock ==
    /\ eventLock # Free
    /\ eventLock' = Free
    /\ UNCHANGED <<marker, hits>>
=============================================================================
