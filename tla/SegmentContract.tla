--------------------------- MODULE SegmentContract ---------------------------
(***************************************************************************)
(* What the pipeline promises for each segment, without workers, leases,   *)
(* locks or retries: its effect is delivered at most once, a segment is    *)
(* accepted only after that, and a verdict is final.  A segment rejected   *)
(* by one worker may still have been delivered by another.                 *)
(***************************************************************************)
EXTENDS Naturals

CONSTANT NSegs

VARIABLES
    verdict,        \* segment -> open, accepted or rejected
    delivered       \* segment -> how often its effect was delivered

contractVars == <<verdict, delivered>>

Items == 1 .. NSegs

Init ==
    /\ verdict = [s \in Items |-> "open"]
    /\ delivered = [s \in Items |-> 0]

Deliver(s) ==
    /\ delivered[s] = 0
    /\ delivered' = [delivered EXCEPT ![s] = 1]
    /\ UNCHANGED verdict

Accept(s) ==
    /\ verdict[s] = "open"
    /\ delivered[s] = 1
    /\ verdict' = [verdict EXCEPT ![s] = "accepted"]
    /\ UNCHANGED delivered

Reject(s) ==
    /\ verdict[s] = "open"
    /\ verdict' = [verdict EXCEPT ![s] = "rejected"]
    /\ UNCHANGED delivered

Next == \E s \in Items : Deliver(s) \/ Accept(s) \/ Reject(s)

Spec == Init /\ [][Next]_contractVars
=============================================================================
