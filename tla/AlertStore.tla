----------------------------- MODULE AlertStore -----------------------------
(***************************************************************************)
(* What an event store keeps in Redis for one variant, and the transaction *)
(* that changes it.  Nothing a transaction writes can be read before it    *)
(* ends: `pre` is what Redis holds meanwhile.  Expiry of these keys (a day *)
(* without a write) is left out.                                           *)
(***************************************************************************)
EXTENDS LiveEvent, FiniteSets

CONSTANTS MaxGeneration, RepeatedCount, RepeatedWindow, UpdateEvery,
          RecoveryHealthy

ASSUME PolicyAssumption ==
    /\ MaxGeneration \in Nat
    /\ RepeatedCount \in Nat \ {0}
    /\ RepeatedWindow \in Nat \ {0}
    /\ UpdateEvery \in Nat \ {0}
    /\ RecoveryHealthy \in Nat \ {0}

Generations == 0 .. MaxGeneration

(* What the records in Redis hold.                                          *)
Ids == Nat \X Nat \X Nat \X Nat \X Nat
Events ==
    [id : Ids, gen : Generations, disc : Nat, seq : Nat, rev : Nat, off : Nat,
     at : Nat, dur : Nat, sent : BOOLEAN]
Recoveries ==
    [id : Ids, kind : {"CONTINUOUS", "REPEATED"}, healthy : Nat, last : Nat,
     gen : Generations, disc : Nat]
Incidents == [id : Ids, fresh : Nat]
Segments == [gen : Generations, disc : Nat, seq : Nat, rev : Nat, at : Nat]
RepeatedStates ==
    [history : SUBSET [id : Ids, at : Nat], incident : Incidents \cup {None}]
Stores ==
    [open : Events \cup {None}, saved : SUBSET Ids,
     recovery : Recoveries \cup {None},
     history : [Generations -> SUBSET [id : Ids, at : Nat]],
     incident : [Generations -> Incidents \cup {None}]]

(* None is not one of them.                                                 *)
ASSUME NoneAssumption ==
    None \notin Events \cup Recoveries \cup Incidents \cup RepeatedStates
                 \cup Segments

(* open: the open event; saved: the canonical events something refers to;   *)
(* recovery: the alert waiting for healthy segments; history and incident:  *)
(* the repeated state, one key per timeline generation.                     *)
EmptyStore ==
    [open |-> None, saved |-> {}, recovery |-> None,
     history |-> [g \in Generations |-> {}],
     incident |-> [g \in Generations |-> None]]

(* `pending` is the repeated state a close hands to the evidence after it,  *)
(* `raised` an error that aborts the transaction.                           *)
Begin(store) ==
    [store |-> store, pre |-> store, alerts |-> <<>>, pending |-> None,
     raised |-> FALSE]

Referred(store) ==
    {x.id : x \in {store.open, store.recovery} \ {None}}

(* pipe.execute(), or nothing when the reduction raised.                    *)
Execute(tx) ==
    IF tx.raised
       THEN [store |-> tx.pre, alerts |-> <<>>, raised |-> TRUE]
       ELSE [store |-> [tx.store EXCEPT !.saved = @ \cap Referred(tx.store)],
             alerts |-> tx.alerts, raised |-> FALSE]

Alert(state, kind, id, why) ==
    [state |-> state, kind |-> kind, id |-> id, why |-> why]

Publish(tx, alert) == [tx EXCEPT !.alerts = Append(@, alert)]

PublishIf(due, tx, alert) == IF due THEN Publish(tx, alert) ELSE tx

SaveOpen(tx, e) ==
    [tx EXCEPT !.store.open = e, !.store.saved = @ \cup {e.id}]

SaveClosed(tx, e) ==
    [tx EXCEPT !.store.open = None, !.store.saved = @ \cup {e.id}]

SaveRecovery(tx, recovery) == [tx EXCEPT !.store.recovery = recovery]

DeleteRecovery(tx) == SaveRecovery(tx, None)

(* The alert waits from the end of event e, on timeline t.                  *)
NewRecovery(id, kind, e, t) ==
    [id |-> id, kind |-> kind, healthy |-> 0, last |-> e.seq,
     gen |-> t.gen, disc |-> t.disc]

(***************************************************************************)
(* Repeated events.  An incident is kept as its id and the occurrences     *)
(* since the last notification; a record as its event and its time.        *)
(***************************************************************************)
RecordShortEvent(state, e) ==
    LET recent == {r \in state.history : r.at + RepeatedWindow > e.at}
        isNew == \A r \in recent : r.id # e.id
        history == {r \in recent : r.id # e.id} \cup {[id |-> e.id, at |-> e.at]}
        fresh == state.incident.fresh + 1
        update == fresh >= UpdateEvery
        incident == [state.incident EXCEPT !.fresh = IF update THEN 0 ELSE fresh]
        Reduction(i, alert) == [history |-> history, incident |-> i,
                                alert |-> alert]
    IN CASE state.incident # None /\ ~ isNew -> Reduction(state.incident, "NONE")
         [] state.incident # None /\ isNew ->
               Reduction(incident, IF update THEN "UPDATE" ELSE "NONE")
         [] state.incident = None /\ Cardinality(history) >= RepeatedCount ->
               Reduction([id |-> e.id, fresh |-> 0], "OPEN")
         [] OTHER -> Reduction(None, "NONE")

LoadRepeated(store, gen) ==
    [history |-> store.history[gen], incident |-> store.incident[gen]]

WriteRepeated(tx, gen, state) ==
    [tx EXCEPT !.store.history[gen] = state.history,
               !.store.incident[gen] = state.incident]

(* The reduction is read from Redis, not from the open transaction.         *)
RecordResolvedEvent(tx, e) ==
    LET reduction == RecordShortEvent(LoadRepeated(tx.pre, e.gen), e)
        written == WriteRepeated(tx, e.gen, reduction)
    IN [reduction |-> reduction,
        tx |-> PublishIf(reduction.alert # "NONE", written,
                         Alert(reduction.alert, "REPEATED",
                               reduction.incident.id, "repeated_short_event"))]

\* Mutant: the incident stays.
ResolveIncidentKeeps(tx, gen, pending, why) ==
    LET state == IF pending # None THEN pending ELSE LoadRepeated(tx.pre, gen)
    IN Publish(tx, Alert("RESOLVED", "REPEATED", state.incident.id, why))

ResolveIncident(tx, gen, pending, why) ==
    LET state == IF pending # None THEN pending ELSE LoadRepeated(tx.pre, gen)
        cleared == WriteRepeated(tx, gen, [history |-> {}, incident |-> None])
    IN IF state.incident = None
          THEN [tx EXCEPT !.raised = TRUE]
          ELSE Publish(cleared,
                       Alert("RESOLVED", "REPEATED", state.incident.id, why))
=============================================================================
