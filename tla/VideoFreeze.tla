----------------------------- MODULE VideoFreeze -----------------------------
(***************************************************************************)
(* The video-freeze store (checks/video_freeze).  Beside the evidence of   *)
(* the other checks, two segments join only when the frames at their       *)
(* boundary are the same.  A segment's transitions name an event once, so  *)
(* the flags the code carries from one to the next of an event are not     *)
(* needed.                                                                 *)
(***************************************************************************)
EXTENDS AlertStore

Transition(type, e) == [type |-> type, event |-> e]

TransitionOf(cut) ==
    Transition(IF cut.kind = "open" THEN "PERSIST_OPEN" ELSE "CLOSE_EVENT",
               cut.event)

Reduce(open, s, evidence) ==
    LET lost == open # None /\ ~ SequenceCanFollow(open, s)
        current == IF lost THEN None ELSE open
        gap == IF lost THEN <<Transition("UNKNOWN_GAP", open)>> ELSE <<>>
        returned == IF current = None THEN <<>>
                    ELSE <<Transition("CLOSE_EVENT", current)>>
        cuts == JoinIntervals(current, s, evidence, TRUE)
    IN IF ~ evidence.checked
          THEN (IF open = None THEN <<>> ELSE <<Transition("UNKNOWN_GAP", open)>>)
                 \o <<Transition("UNKNOWN_GAP", None)>>
       ELSE IF evidence.intervals = <<>>
          THEN gap \o returned
                 \o <<Transition(IF lost THEN "MARK_COMMITTED"
                                         ELSE "HEALTHY_EVIDENCE", None)>>
       ELSE gap \o [n \in DOMAIN cuts |-> TransitionOf(cuts[n])]

IsRepeatedCandidate(e) == SegmentLength <= e.dur /\ e.dur < AlertDuration

(* pending_notification(), which a pending recovery keeps back.             *)
ShouldAlert(tx, e) ==
    tx.store.recovery = None /\ ~ e.sent /\ e.dur >= AlertDuration

ResolveRecovery(tx, why, pending) ==
    LET recovery == tx.store.recovery
        resolved ==
            IF recovery.kind = "REPEATED"
               THEN ResolveIncident(tx, recovery.gen, pending, why)
            ELSE IF recovery.id \in tx.pre.saved
               THEN Publish([tx EXCEPT !.store.open = None],
                            Alert("RESOLVED", "CONTINUOUS", recovery.id, why))
            ELSE [tx EXCEPT !.raised = TRUE]
    IN DeleteRecovery(resolved)

ContinueRecovery(tx, s) ==
    LET recovery == tx.store.recovery
    IN CASE recovery = None -> tx
         [] recovery # None /\ ~ SameTimeline(recovery, s) ->
               ResolveRecovery(tx, "timeline_discontinued", None)
         [] recovery # None /\ SameTimeline(recovery, s) ->
               SaveRecovery(tx, [recovery EXCEPT !.healthy = 0, !.last = s.seq])

PersistOpen(tx, e, s) ==
    LET waiting == ContinueRecovery(tx, s)
        due == ShouldAlert(waiting, e)
    IN PublishIf(due, SaveOpen(waiting, [e EXCEPT !.sent = @ \/ due]),
                 Alert("OPEN", "CONTINUOUS", e.id, "freeze_alert_threshold"))

(* The recovery that waits after event e closed.  A repeated alert opened   *)
(* by e takes the place of the recovery that was pending.                   *)
AwaitRecovery(tx, e, opensIncident, alerted) ==
    LET recovery ==
            IF opensIncident THEN NewRecovery(e.id, "REPEATED", e, e)
            ELSE IF alerted /\ tx.store.recovery = None
               THEN NewRecovery(e.id, "CONTINUOUS", e, e)
            ELSE tx.store.recovery
    IN IF recovery = None THEN tx
       ELSE SaveRecovery(tx, [recovery EXCEPT !.last = e.seq])

CloseEvent(tx, e) ==
    LET due == ShouldAlert(tx, e)
        closed == PublishIf(due, SaveClosed(tx, e),
                      Alert("OPEN", "CONTINUOUS", e.id, "freeze_alert_threshold"))
        recorded == RecordResolvedEvent(closed, e)
        reduction == recorded.reduction
    IN IF IsRepeatedCandidate(e)
          THEN [AwaitRecovery(recorded.tx, e, reduction.alert = "OPEN", e.sent)
                  EXCEPT !.pending = [history |-> reduction.history,
                                      incident |-> reduction.incident]]
          ELSE [AwaitRecovery(closed, e, FALSE, e.sent \/ due)
                  EXCEPT !.pending = None]

Healthy(tx, s) ==
    LET recovery == tx.store.recovery
        count == recovery.healthy + 1
        counted == [recovery EXCEPT !.healthy = count, !.last = s.seq]
        next == CASE recovery = None -> tx
                  [] recovery # None /\ ~ SameTimeline(recovery, s) ->
                        ResolveRecovery(tx, "timeline_discontinued", tx.pending)
                  [] recovery # None /\ SameTimeline(recovery, s)
                        /\ s.seq # recovery.last + 1 -> ContinueRecovery(tx, s)
                  [] OTHER ->
                        IF count >= RecoveryHealthy
                           THEN ResolveRecovery(tx, "healthy_segment_confirmed",
                                                tx.pending)
                           ELSE SaveRecovery(tx, counted)
    IN [next EXCEPT !.pending = None]

UnknownGap(tx, e, s) ==
    LET closed == IF e = None THEN tx ELSE SaveClosed(tx, e)
        waiting == IF e # None /\ e.sent /\ tx.store.recovery = None
                      THEN SaveRecovery(closed, NewRecovery(e.id, "CONTINUOUS", e, e))
                      ELSE closed
    IN ContinueRecovery(waiting, s)

ApplyTransition(tx, transition, s) ==
    CASE tx.raised -> tx
      [] ~ tx.raised /\ transition.type = "MARK_COMMITTED" -> tx
      [] ~ tx.raised /\ transition.type = "HEALTHY_EVIDENCE" -> Healthy(tx, s)
      [] ~ tx.raised /\ transition.type = "UNKNOWN_GAP" ->
            UnknownGap(tx, transition.event, s)
      [] ~ tx.raised /\ transition.type = "PERSIST_OPEN" ->
            PersistOpen(tx, transition.event, s)
      [] ~ tx.raised /\ transition.type = "CLOSE_EVENT" ->
            CloseEvent(tx, transition.event)

Apply(store, s, evidence) ==
    Execute(Fold(LAMBDA tx, transition : ApplyTransition(tx, transition, s),
                 Begin(store), Reduce(store.open, s, evidence)))
=============================================================================
