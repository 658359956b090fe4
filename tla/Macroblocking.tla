---------------------------- MODULE Macroblocking ----------------------------
(***************************************************************************)
(* The macroblocking store (checks/macroblocking).  The reducer decides    *)
(* when an alert is due, the store keeps it back while another one waits   *)
(* for recovery.  A segment whose sampling is incomplete is not checked.   *)
(***************************************************************************)
EXTENDS AlertStore

Transition(type, e) == [type |-> type, event |-> e]

ShouldAlert(e) == ~ e.sent /\ e.dur >= AlertDuration

Sent(e) == [e EXCEPT !.sent = @ \/ ShouldAlert(e)]

AlertIfDue(e) ==
    IF ShouldAlert(e) THEN <<Transition("OPEN_ALERT", Sent(e))>> ELSE <<>>

TransitionsOf(cut) ==
    LET e == cut.event
    IN IF cut.kind # "open"
          THEN AlertIfDue(e) \o <<Transition("CLOSE_EVENT", Sent(e))>>
       ELSE IF ShouldAlert(e) THEN AlertIfDue(e)
       ELSE <<Transition("PERSIST_OPEN", e)>>

Reduce(open, s, evidence) ==
    LET lost == open # None /\ ~ SequenceCanFollow(open, s)
        current == IF lost THEN None ELSE open
        closed == IF open = None THEN <<>> ELSE <<Transition("CLOSE_EVENT", open)>>
        gap == IF lost THEN closed \o <<Transition("UNKNOWN_GAP", None)>> ELSE <<>>
        cuts == JoinIntervals(current, s, evidence, TRUE)
    IN IF ~ evidence.checked
          THEN closed \o <<Transition("UNKNOWN_GAP", None)>>
       ELSE IF evidence.intervals = <<>>
          THEN IF lost THEN gap \o <<Transition("MARK_COMMITTED", None)>>
               ELSE closed \o <<Transition("HEALTHY_EVIDENCE", None)>>
       ELSE Fold(LAMBDA made, cut : made \o TransitionsOf(cut), gap, cuts)

(* The recovery moves to the timeline of the segment it has just seen.      *)
Observed(recovery, s, healthy) ==
    [recovery EXCEPT !.healthy = healthy, !.last = s.seq,
                     !.gen = s.gen, !.disc = s.disc]

OpenAlert(tx, e) ==
    IF tx.store.recovery # None THEN SaveOpen(tx, [e EXCEPT !.sent = FALSE])
    ELSE Publish(SaveOpen(tx, e),
                 Alert("OPEN", "CONTINUOUS", e.id,
                       "macroblocking_duration_threshold"))

CloseEvent(tx, e) ==
    LET closed == SaveClosed(tx, e)
    IN IF e.sent /\ tx.store.recovery = None
          THEN SaveRecovery(closed, NewRecovery(e.id, "CONTINUOUS", e, e))
          ELSE closed

(* A healthy segment that does not follow the last one counts as the first. *)
ApplyHealthy(tx, s) ==
    LET recovery == tx.store.recovery
        follows == SameTimeline(recovery, s) /\ s.seq = recovery.last + 1
        count == IF follows THEN recovery.healthy + 1 ELSE 1
    IN IF recovery = None THEN tx
       ELSE IF count < RecoveryHealthy
          THEN SaveRecovery(tx, Observed(recovery, s, count))
       ELSE IF recovery.id \in tx.pre.saved
          THEN DeleteRecovery(
                  Publish([tx EXCEPT !.store.open = None],
                          Alert("RESOLVED", "CONTINUOUS", recovery.id,
                                "video_returned")))
       ELSE [tx EXCEPT !.raised = TRUE]

UnknownGap(tx, s) ==
    IF tx.store.recovery = None THEN tx
    ELSE SaveRecovery(tx, Observed(tx.store.recovery, s, 0))

ApplyTransition(tx, transition, s) ==
    CASE transition.type = "MARK_COMMITTED" -> tx
      [] transition.type = "HEALTHY_EVIDENCE" -> ApplyHealthy(tx, s)
      [] transition.type = "UNKNOWN_GAP" -> UnknownGap(tx, s)
      [] transition.type = "PERSIST_OPEN" -> SaveOpen(tx, transition.event)
      [] transition.type = "OPEN_ALERT" -> OpenAlert(tx, transition.event)
      [] transition.type = "CLOSE_EVENT" -> CloseEvent(tx, transition.event)

Apply(store, s, evidence) ==
    Execute(Fold(LAMBDA tx, transition : ApplyTransition(tx, transition, s),
                 Begin(store), Reduce(store.open, s, evidence)))
=============================================================================
