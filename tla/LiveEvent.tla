------------------------------ MODULE LiveEvent ------------------------------
(***************************************************************************)
(* Segments, the intervals a detector reports in one, and the open event   *)
(* that joins the intervals of successive segments.  The reducers of the   *)
(* four checks (checks/*/event_reducer.py) share this part.                *)
(*                                                                         *)
(* Time is in ticks, SegmentLength to a segment; a tick is longer than the *)
(* boundary tolerance, so intervals "within the tolerance" touch.  All     *)
(* segments have one length.  Durations are compared with AlertDuration    *)
(* only and are cut off there.                                             *)
(***************************************************************************)
EXTENDS Integers, Sequences

CONSTANTS None, SegmentLength, AlertDuration

ASSUME LengthAssumption ==
    /\ SegmentLength \in Nat \ {0}
    /\ AlertDuration \in Nat \ {0}

(* What a loop over the elements of s makes of base.  (A recursive function, *)
(* unlike the FoldLeft of SequencesExt, can be reasoned about.)             *)
Fold(op(_, _), base, s) ==
    LET made[n \in 0 .. Len(s)] ==
          IF n = 0 THEN base ELSE op(made[n - 1], s[n])
    IN  made[Len(s)]

(* A segment: its timeline (generation and discontinuity), its place there, *)
(* its media revision, and `at`, its place in program time.                 *)
Segment(gen, disc, seq, rev, at) ==
    [gen |-> gen, disc |-> disc, seq |-> seq, rev |-> rev, at |-> at]

(* What the detector says of a segment.  An interval is <<start, end>>;     *)
(* `matches`: the frames on both sides of its first boundary are the same.  *)
Evidence(checked, intervals, matches) ==
    [checked |-> checked, intervals |-> intervals, matches |-> matches]

SameTimeline(x, s) == x.gen = s.gen /\ x.disc = s.disc

EventId(s, i) == <<s.gen, s.disc, s.seq, s.rev, i[1]>>

Capped(d) == IF d > AlertDuration THEN AlertDuration ELSE d

NewEvent(s, i) ==
    [id |-> EventId(s, i), gen |-> s.gen, disc |-> s.disc, seq |-> s.seq,
     rev |-> s.rev, off |-> i[2], at |-> s.at * SegmentLength + i[2],
     dur |-> Capped(i[2] - i[1]), sent |-> FALSE]

(* One more interval of the event: the rest of the previous segment counts. *)
ExtendEvent(e, s, i) ==
    LET added == IF s.seq = e.seq
                    THEN IF i[2] > e.off THEN i[2] - e.off ELSE 0
                    ELSE (SegmentLength - e.off) + i[2]
    IN [e EXCEPT !.dur = Capped(@ + added), !.seq = s.seq, !.rev = s.rev,
                 !.off = i[2], !.at = s.at * SegmentLength + i[2]]

SequenceCanFollow(e, s) ==
    /\ SameTimeline(e, s)
    /\ \/ s.seq = e.seq /\ s.rev = e.rev
       \/ s.seq = e.seq + 1

CanContinue(e, s, i) ==
    /\ SequenceCanFollow(e, s)
    /\ IF s.seq = e.seq THEN i[1] <= e.off
                        ELSE e.off = SegmentLength /\ i[1] = 0

(* The loop over the intervals: each extends the event, or interrupts it    *)
(* and begins the next; an event ends when its interval ends before the     *)
(* segment does.  Across segments the frames must match, which only the     *)
(* freeze check compares.  With `merges` an interval that touches the next  *)
(* one waits for it.  The result is the sequence of events closed and kept  *)
(* open.                                                                    *)
Cut(kind, e) == [kind |-> kind, event |-> e]

JoinIntervals(open, s, evidence, merges) ==
    LET intervals == evidence.intervals
        Continues(e, i) == /\ CanContinue(e, s, i)
                           /\ s.seq = e.seq \/ evidence.matches
        Join(acc, n) ==
            LET i == intervals[n]
                joined == /\ acc.current # None
                          /\ Continues(acc.current, i)
                event == IF joined THEN ExtendEvent(acc.current, s, i)
                                   ELSE NewEvent(s, i)
                broken == IF acc.current = None \/ joined THEN <<>>
                          ELSE <<Cut("interrupted", acc.current)>>
                touching == /\ merges
                            /\ n < Len(intervals)
                            /\ intervals[n + 1][1] <= i[2]
                ends == i[2] < SegmentLength
                cut == IF touching THEN <<>>
                       ELSE <<Cut(IF ends THEN "ended" ELSE "open", event)>>
            IN [current |-> IF ends /\ ~ touching THEN None ELSE event,
                cuts    |-> acc.cuts \o broken \o cut]
    IN Fold(Join, [current |-> open, cuts |-> <<>>],
            [n \in DOMAIN intervals |-> n]).cuts
=============================================================================
