----------------------------- MODULE BlackScreen -----------------------------
(***************************************************************************)
(* The black-screen store (checks/black_screen): what applying the         *)
(* evidence of one segment does to the open event, the pending recovery    *)
(* and the repeated incident, and the alerts it publishes.  The commit     *)
(* marker and the event lock around it are EventStore's.                   *)
(***************************************************************************)
EXTENDS AlertStore

Transition(type, e) == [type |-> type, event |-> e]

TransitionOf(cut) ==
    Transition(IF cut.kind = "open" THEN "PERSIST_OPEN" ELSE "CLOSE_EVENT",
               cut.event)

Reduce(open, s, evidence) ==
    LET lost == open # None /\ ~ SequenceCanFollow(open, s)
        current == IF lost THEN None ELSE open
        gap == IF lost THEN <<Transition("UNKNOWN_GAP", open)>> ELSE <<>>
        returned == IF current = None THEN <<>>
                    ELSE <<Transition("CLOSE_EVENT", current)>>
        cuts == JoinIntervals(current, s, evidence, TRUE)
    IN IF ~ evidence.checked
          THEN (IF open = None THEN <<>> ELSE <<Transition("UNKNOWN_GAP", open)>>)
                 \o <<Transition("UNKNOWN_GAP", None)>>
       ELSE IF evidence.intervals = <<>>
          THEN gap \o returned
                 \o <<Transition(IF lost THEN "MARK_COMMITTED"
                                         ELSE "HEALTHY_EVIDENCE", None)>>
       ELSE gap \o [n \in DOMAIN cuts |-> TransitionOf(cuts[n])]

IsRepeatedCandidate(e) == SegmentLength <= e.dur /\ e.dur < AlertDuration

ShouldAlert(tx, e) ==
    tx.store.recovery = None /\ ~ e.sent /\ e.dur >= AlertDuration

\* Mutants: the segment is not remembered, or the count goes on.
ContinueForgetsSegment(tx, s, last) ==
    SaveRecovery(tx, [tx.store.recovery EXCEPT !.healthy = 0,
                                        !.gen = s.gen, !.disc = s.disc])

ContinueKeepsCount(tx, s, last) ==
    SaveRecovery(tx, [tx.store.recovery EXCEPT !.last = last,
                                        !.gen = s.gen, !.disc = s.disc])

(* Content that is not healthy: counting starts again after sequence last.  *)
ContinuePendingRecovery(tx, s, last) ==
    SaveRecovery(tx, [tx.store.recovery EXCEPT !.healthy = 0, !.last = last,
                                        !.gen = s.gen, !.disc = s.disc])

(* Publishes RESOLVED for the alert that waits.  A continuous alert needs   *)
(* its canonical event, a repeated one its incident.                        *)
ResolvePendingRecovery(tx, why, pending) ==
    LET recovery == tx.store.recovery
        resolved ==
            IF recovery.kind = "REPEATED"
               THEN ResolveIncident(tx, recovery.gen, pending, why)
            ELSE IF recovery.id \in tx.pre.saved
               THEN Publish(tx, Alert("RESOLVED", "CONTINUOUS", recovery.id, why))
            ELSE [tx EXCEPT !.raised = TRUE]
    IN DeleteRecovery(resolved)

\* Mutant: a recovery goes on over the end of its timeline.
LeaveTimelineNever(tx, s) == tx

LeaveTimeline(tx, s) ==
    IF tx.store.recovery # None /\ ~ SameTimeline(tx.store.recovery, s)
       THEN ResolvePendingRecovery(tx, "timeline_discontinued", None)
       ELSE tx

\* Mutant: the threshold is only looked at when the event closes.
PersistOpenSilently(tx, e, s) ==
    LET onTime == LeaveTimeline(tx, s)
    IN SaveOpen(IF onTime.store.recovery = None THEN onTime
                ELSE ContinuePendingRecovery(onTime, s, s.seq), e)

PersistOpen(tx, e, s) ==
    LET onTime == LeaveTimeline(tx, s)
        waiting == IF onTime.store.recovery = None THEN onTime
                   ELSE ContinuePendingRecovery(onTime, s, s.seq)
        due == ShouldAlert(waiting, e)
    IN PublishIf(due, SaveOpen(waiting, [e EXCEPT !.sent = @ \/ due]),
                 Alert("OPEN", "CONTINUOUS", e.id, "continuous_black"))

(* A short event counts towards a repeated alert, unless it interrupts the  *)
(* recovery of a continuous one.                                            *)
CloseShortEvent(tx, e, s) ==
    LET recorded == RecordResolvedEvent(tx, e)
        closed == SaveClosed(recorded.tx, e)
        reduction == recorded.reduction
        waiting ==
            IF reduction.alert = "OPEN"
               THEN SaveRecovery(closed, NewRecovery(reduction.incident.id,
                                                     "REPEATED", e, s))
            ELSE IF tx.store.recovery # None
               THEN ContinuePendingRecovery(closed, s, e.seq)
            ELSE closed
    IN [waiting EXCEPT !.pending = [history |-> reduction.history,
                                    incident |-> reduction.incident]]

CloseOtherEvent(tx, e, s) ==
    LET due == ShouldAlert(tx, e)
        closed == PublishIf(due, SaveClosed(tx, e),
                      Alert("OPEN", "CONTINUOUS", e.id,
                            "threshold_reached_on_resolution"))
        waiting ==
            IF tx.store.recovery # None THEN ContinuePendingRecovery(closed, s, e.seq)
            ELSE IF e.sent \/ due
               THEN SaveRecovery(closed, NewRecovery(e.id, "CONTINUOUS", e, s))
            ELSE closed
    IN [waiting EXCEPT !.pending = None]

\* Mutant: every short event is a repeated one.
InterruptsNothing(tx) == FALSE

InterruptsContinuous(tx) ==
    tx.store.recovery # None /\ tx.store.recovery.kind = "CONTINUOUS"

CloseEvent(tx, e, s) ==
    LET onTime == LeaveTimeline(tx, s)
    IN IF IsRepeatedCandidate(e) /\ ~ InterruptsContinuous(onTime)
          THEN CloseShortEvent(onTime, e, s)
          ELSE CloseOtherEvent(onTime, e, s)

HealthyEvidence(tx, s) ==
    LET recovery == tx.store.recovery
        count == recovery.healthy + 1
        counted == [recovery EXCEPT !.healthy = count, !.last = s.seq]
        next == CASE recovery = None -> tx
                  [] recovery # None /\ ~ SameTimeline(recovery, s) ->
                        ResolvePendingRecovery(tx, "timeline_discontinued",
                                               tx.pending)
                  [] recovery # None /\ SameTimeline(recovery, s)
                        /\ s.seq # recovery.last + 1 ->
                        ContinuePendingRecovery(tx, s, s.seq)
                  [] OTHER ->
                        IF count >= RecoveryHealthy
                           THEN ResolvePendingRecovery(
                                    tx, "healthy_segment_confirmed", tx.pending)
                           ELSE SaveRecovery(tx, counted)
    IN [next EXCEPT !.pending = None]

(* An event that lost its observation is closed; its alert waits on the     *)
(* event's own timeline.                                                    *)
LoseEvent(tx, e) ==
    LET closed == SaveClosed(tx, e)
    IN IF tx.store.recovery = None /\ e.sent
          THEN SaveRecovery(closed, NewRecovery(e.id, "CONTINUOUS", e, e))
          ELSE closed

UnknownObservation(tx, s) ==
    LET onTime == LeaveTimeline(tx, s)
    IN IF onTime.store.recovery = None THEN onTime
       ELSE ContinuePendingRecovery(onTime, s, s.seq)

ApplyTransition(tx, transition, s) ==
    CASE tx.raised -> tx
      [] ~ tx.raised /\ transition.type = "MARK_COMMITTED" -> tx
      [] ~ tx.raised /\ transition.type = "PERSIST_OPEN" ->
            PersistOpen(tx, transition.event, s)
      [] ~ tx.raised /\ transition.type = "CLOSE_EVENT" ->
            CloseEvent(tx, transition.event, s)
      [] ~ tx.raised /\ transition.type = "HEALTHY_EVIDENCE" ->
            HealthyEvidence(tx, s)
      [] ~ tx.raised /\ transition.type = "UNKNOWN_GAP" ->
            IF transition.event # None THEN LoseEvent(tx, transition.event)
                                       ELSE UnknownObservation(tx, s)

Apply(store, s, evidence) ==
    Execute(Fold(LAMBDA tx, transition : ApplyTransition(tx, transition, s),
                 Begin(store), Reduce(store.open, s, evidence)))
=============================================================================
