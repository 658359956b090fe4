------------------------------ MODULE AudioLoss ------------------------------
(***************************************************************************)
(* The audio-loss store (checks/audio_loss).  It has no recovery: closing  *)
(* an alerted event resolves its alert, whatever closed it.  Intervals are *)
(* silence, or the whole segment when the track is missing.                *)
(***************************************************************************)
EXTENDS AlertStore

Resolved(e, why) == [type |-> "RESOLVE", event |-> e, why |-> why]

TransitionOf(cut) ==
    IF cut.kind = "open"
       THEN [type |-> "PERSIST_OPEN", event |-> cut.event, why |-> "silence"]
       ELSE Resolved(cut.event, "audio_returned")

Reduce(open, s, evidence) ==
    LET lost == open # None /\ ~ SequenceCanFollow(open, s)
        current == IF lost THEN None ELSE open
        gap == IF lost THEN <<Resolved(open, "observation_gap")>> ELSE <<>>
        returned == IF current = None THEN <<>>
                    ELSE <<Resolved(current, "audio_returned")>>
        cuts == JoinIntervals(current, s, evidence, FALSE)
    IN IF evidence.intervals = <<>> THEN gap \o returned
       ELSE gap \o [n \in DOMAIN cuts |-> TransitionOf(cuts[n])]

ShouldAlert(e) == ~ e.sent /\ e.dur >= AlertDuration

Opened(e) == Alert("OPEN", "CONTINUOUS", e.id, "silence")

PersistOpen(tx, e) ==
    PublishIf(ShouldAlert(e), SaveOpen(tx, [e EXCEPT !.sent = @ \/ ShouldAlert(e)]),
              Opened(e))

Resolve(tx, e, why) ==
    LET opened == PublishIf(ShouldAlert(e), SaveClosed(tx, e), Opened(e))
    IN PublishIf(e.sent \/ ShouldAlert(e), opened,
                 Alert("RESOLVED", "CONTINUOUS", e.id, why))

ApplyTransition(tx, transition) ==
    IF transition.type = "PERSIST_OPEN"
       THEN PersistOpen(tx, transition.event)
       ELSE Resolve(tx, transition.event, transition.why)

Apply(store, s, evidence) ==
    Execute(Fold(ApplyTransition, Begin(store),
                 Reduce(store.open, s, evidence)))
=============================================================================
