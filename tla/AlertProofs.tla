----------------------------- MODULE AlertProofs -----------------------------
(***************************************************************************)
(* Proofs about AlertLifecycle: whatever pictures the detector shows and   *)
(* whatever is lost, late, replaced or renumbered, for every length, limit *)
(* and number of segments.                                                 *)
(*                                                                         *)
(* AlertInv is the inductive invariant.  A commit reduces the evidence to  *)
(* a sequence of transitions and folds them over a transaction; the proof  *)
(* follows it: what the reducer cuts (JoinIntervalsWellCut), what each     *)
(* transition keeps (Settled: what the transaction holds and the alerts it *)
(* publishes agree), an induction along the transitions for each store     *)
(* (Midway), what Execute leaves (Left, Well, HealedStore), and from it    *)
(* AlertInv in the next state (AppliedIs, HealthKept, CommitHolds).        *)
(*                                                                         *)
(* A store is an instance of its own, so that what is the same in two of   *)
(* them is stated of each.                                                 *)
(***************************************************************************)
EXTENDS AlertLifecycle, SubsequenceProofs

\* The intervals of a segment: their bounds, in ticks.
Intervals == Nat \X Nat

\* What BoundsAssumption says of a picture.
Picture(p) ==
    /\ p \in Seq(Intervals)
    /\ \A n \in 1 .. Len(p) :
          /\ p[n][1] \in Nat /\ p[n][2] \in Nat
          /\ p[n][1] < p[n][2] /\ p[n][2] <= SegmentLength
          /\ n > 1 => p[n - 1][2] <= p[n][1]

\* The event of the n-th cut: the open event, continued, or a new one.
Kin(e, open, s, n) ==
    /\ e \in Events /\ SameTimeline(e, s) /\ e.dur \in 1 .. AlertDuration
    /\ IF n = 1 /\ open # None
          THEN e.id = open.id /\ e.sent = open.sent /\ open.dur <= e.dur
          ELSE ~ e.sent /\ e.dur <= e.off

\* What JoinIntervals returns.
WellCut(cuts, open, s) ==
    /\ cuts \in Seq([kind : {"interrupted", "ended", "open"}, event : Events])
    /\ \A n \in 1 .. Len(cuts) :
          /\ Kin(cuts[n].event, open, s, n)
          /\ cuts[n].kind = "interrupted" => n = 1 /\ open # None
          /\ cuts[n].kind = "ended" => cuts[n].event.off < SegmentLength
          /\ cuts[n].kind = "open" =>
                n = Len(cuts) /\ cuts[n].event.off = SegmentLength

-----------------------------------------------------------------------------
(* Events.                                                                  *)

\* A new event of an interval.
LEMMA NewEventKin ==
    ASSUME NEW s \in Segments, NEW i \in Intervals,
           i[1] < i[2], i[2] <= SegmentLength
    PROVE  LET e == NewEvent(s, i)
           IN  /\ e \in Events /\ SameTimeline(e, s)
               /\ e.dur \in 1 .. AlertDuration /\ e.dur <= e.off
               /\ ~ e.sent /\ e.seq = s.seq /\ e.rev = s.rev /\ e.off = i[2]
<1> USE LengthAssumption
<1>1. i[1] \in Nat /\ i[2] \in Nat /\ s.gen \in Generations /\ s.disc \in Nat
      /\ s.seq \in Nat /\ s.rev \in Nat /\ s.at \in Nat
  BY DEF Segments, Intervals
<1>2. Capped(i[2] - i[1]) \in 1 .. AlertDuration /\ Capped(i[2] - i[1]) <= i[2]
  BY <1>1 DEF Capped
<1>3. s.at * SegmentLength + i[2] \in Nat
  BY <1>1
<1>4. EventId(s, i) \in Ids
  BY <1>1 DEF EventId, Ids, Generations
<1> QED BY <1>1, <1>2, <1>3, <1>4 DEF NewEvent, Events, SameTimeline

\* An event of the segment's timeline, with one more interval.
LEMMA ExtendEventKin ==
    ASSUME NEW s \in Segments, NEW i \in Intervals, NEW e \in Events,
           i[1] < i[2], i[2] <= SegmentLength, SameTimeline(e, s),
           e.dur \in 1 .. AlertDuration, e.off <= SegmentLength
    PROVE  LET x == ExtendEvent(e, s, i)
           IN  /\ x \in Events /\ SameTimeline(x, s)
               /\ x.dur \in 1 .. AlertDuration /\ e.dur <= x.dur
               /\ s.seq = e.seq /\ e.dur <= e.off /\ e.off <= i[2] => x.dur <= x.off
               /\ x.id = e.id /\ x.sent = e.sent
               /\ x.seq = s.seq /\ x.rev = s.rev /\ x.off = i[2]
<1> USE LengthAssumption
<1> DEFINE added == IF s.seq = e.seq
                       THEN IF i[2] > e.off THEN i[2] - e.off ELSE 0
                       ELSE (SegmentLength - e.off) + i[2]
           d == Capped(e.dur + added)
           a == s.at * SegmentLength + i[2]
<1>1. i[1] \in Nat /\ i[2] \in Nat /\ s.gen \in Generations /\ s.disc \in Nat
      /\ s.seq \in Nat /\ s.rev \in Nat /\ s.at \in Nat
      /\ e.off \in Nat /\ e.dur \in Nat
  BY DEF Segments, Intervals, Events
<1>2. added \in Nat /\ (s.seq = e.seq /\ e.off <= i[2] => added = i[2] - e.off)
  BY <1>1
<1>3. a \in Nat
  BY <1>1
<1>4. PICK id \in Ids, gen \in Generations, disc \in Nat, seq \in Nat,
           rev \in Nat, off \in Nat, at \in Nat, dur \in Nat, sent \in BOOLEAN :
         e = [id |-> id, gen |-> gen, disc |-> disc, seq |-> seq, rev |-> rev,
              off |-> off, at |-> at, dur |-> dur, sent |-> sent]
  BY DEF Events
<1>5. d \in 1 .. AlertDuration /\ e.dur <= d
      /\ (s.seq = e.seq /\ e.dur <= e.off /\ e.off <= i[2] => d <= i[2])
  <2> HIDE DEF added
  <2> QED BY <1>1, <1>2 DEF Capped
<1>6. ExtendEvent(e, s, i) = [e EXCEPT !.dur = d, !.seq = s.seq, !.rev = s.rev,
                                       !.off = i[2], !.at = a]
  BY DEF ExtendEvent
<1> HIDE DEF d, a, added
<1>7. ExtendEvent(e, s, i) =
         [id |-> id, gen |-> gen, disc |-> disc, seq |-> s.seq, rev |-> s.rev,
          off |-> i[2], at |-> a, dur |-> d, sent |-> sent]
  BY ZenonT(40), <1>4, <1>6
<1> QED BY <1>1, <1>3, <1>4, <1>5, <1>7 DEF Events, SameTimeline

-----------------------------------------------------------------------------
(* The loops of the reducers, the stores and the reader.                    *)

\* One turn of JoinIntervals' loop.
JoinStep(acc, n, s, evidence, merges) ==
    LET intervals == evidence.intervals
        i == intervals[n]
        joined == /\ acc.current # None
                  /\ CanContinue(acc.current, s, i)
                  /\ s.seq = acc.current.seq \/ evidence.matches
        event == IF joined THEN ExtendEvent(acc.current, s, i)
                           ELSE NewEvent(s, i)
        broken == IF acc.current = None \/ joined THEN <<>>
                  ELSE <<Cut("interrupted", acc.current)>>
        touching == /\ merges
                    /\ n < Len(intervals)
                    /\ intervals[n + 1][1] <= i[2]
        ends == i[2] < SegmentLength
        cut == IF touching THEN <<>>
               ELSE <<Cut(IF ends THEN "ended" ELSE "open", event)>>
    IN [current |-> IF ends /\ ~ touching THEN None ELSE event,
        cuts    |-> acc.cuts \o broken \o cut]

\* One turn of the loop p is about.
Turn(p, acc, x) ==
    CASE p.loop = "join" -> JoinStep(acc, x, p.s, p.evidence, p.merges)
      [] p.loop = "read" -> Read(acc, x)
      [] p.loop = "black" -> Black!ApplyTransition(acc, x, p.s)
      [] p.loop = "freeze" -> Freeze!ApplyTransition(acc, x, p.s)
      [] p.loop = "audio" -> Audio!ApplyTransition(acc, x)
      [] p.loop = "blocks" -> Blocks!ApplyTransition(acc, x, p.s)
      [] p.loop = "cuts" -> acc \o Blocks!TransitionsOf(x)

\* f is what the loop has made after each of the first m elements of q.
Loops(f, p, base, q, m) ==
    f = [n \in 0 .. m |-> IF n = 0 THEN base ELSE Turn(p, f[n - 1], q[n])]

\* A loop makes something.
LEMMA LoopsExists ==
    ASSUME NEW p, NEW base, NEW q
    PROVE  \A m \in Nat : \E f : Loops(f, p, base, q, m)
<1> DEFINE S == {m \in Nat : \E f : Loops(f, p, base, q, m)}
<1>1. 0 \in S
  <2> DEFINE f == [n \in 0 .. 0 |-> base]
  <2>1. Loops(f, p, base, q, 0)
    BY DEF Loops
  <2> QED BY <2>1
<1>2. ASSUME NEW m \in Nat, m \in S PROVE m + 1 \in S
  <2>1. PICK f : Loops(f, p, base, q, m)
    BY <1>2
  <2> DEFINE end == Turn(p, f[m], q[m + 1])
             g == [n \in 0 .. m + 1 |-> IF n = m + 1 THEN end ELSE f[n]]
  <2>2. \A n \in 0 .. m :
           f[n] = IF n = 0 THEN base ELSE Turn(p, f[n - 1], q[n])
    BY <2>1 DEF Loops
  <2> HIDE DEF end
  <2>3. \A n \in 0 .. m + 1 :
           g[n] = IF n = 0 THEN base ELSE Turn(p, g[n - 1], q[n])
    <3> TAKE n \in 0 .. m + 1
    <3>1. CASE n = m + 1
      BY <3>1 DEF end
    <3>2. CASE n \in 0 .. m
      <4>1. g[n] = f[n] /\ (n # 0 => g[n - 1] = f[n - 1])
        BY <3>2
      <4> HIDE DEF g
      <4> QED BY <4>1, <2>2, <3>2
    <3> QED BY <3>1, <3>2
  <2>4. Loops(g, p, base, q, m + 1)
    BY <2>3, Zenon DEF Loops
  <2> QED BY <2>4
<1> HIDE DEF S
<1>3. \A m \in Nat : m \in S
  BY <1>1, <1>2, Induct
<1> QED BY <1>3 DEF S

\* f is what a reader knows after each of the alerts.
Reads(f, base, q) ==
    /\ f[0] = base /\ Fold(Read, base, q) = f[Len(q)]
    /\ \A n \in 1 .. Len(q) : f[n] = Read(f[n - 1], q[n])

\* What a reader knows.
LEMMA ReadLoop ==
    ASSUME NEW base, NEW q, Len(q) \in Nat
    PROVE  \E f : Reads(f, base, q)
<1> DEFINE P(g) == g = [n \in 0 .. Len(q) |->
                           IF n = 0 THEN base ELSE Read(g[n - 1], q[n])]
           f == CHOOSE g : P(g)
<1>1. \E g : P(g)
  <2>1. PICK g : Loops(g, [loop |-> "read"], base, q, Len(q))
    BY LoopsExists
  <2>2. P(g)
    BY <2>1 DEF Loops, Turn
  <2> QED BY <2>2
<1>2. P(f)
  BY <1>1, Zenon
<1>3. Fold(Read, base, q) = f[Len(q)]
  BY Zenon DEF Fold
<1> HIDE DEF f
<1>4. f[0] = base
  BY <1>2
<1>5. \A n \in 1 .. Len(q) : f[n] = Read(f[n - 1], q[n])
  BY <1>2
<1>6. Reads(f, base, q)
  BY <1>3, <1>4, <1>5, Zenon DEF Reads
<1> QED BY <1>6

\* f is the transactions of the black-screen store, after each transition.
BlackRuns(f, st, s, evidence, q) ==
    /\ f[0] = Black!Begin(st)
    /\ Black!Apply(st, s, evidence) = Black!Execute(f[Len(q)])
    /\ \A n \in 1 .. Len(q) : f[n] = Black!ApplyTransition(f[n - 1], q[n], s)

\* The black-screen store's loop.
LEMMA BlackLoop ==
    ASSUME NEW st, NEW s, NEW evidence, NEW q,
           q = Black!Reduce(st.open, s, evidence), Len(q) \in Nat
    PROVE  \E f : BlackRuns(f, st, s, evidence, q)
<1> DEFINE base == Black!Begin(st)
           P(g) == g = [n \in 0 .. Len(q) |->
                           IF n = 0 THEN base
                           ELSE Black!ApplyTransition(g[n - 1], q[n], s)]
           f == CHOOSE g : P(g)
<1>1. \E g : P(g)
  <2> HIDE DEF base
  <2>1. PICK g : Loops(g, [loop |-> "black", s |-> s], base, q, Len(q))
    BY LoopsExists
  <2>2. P(g)
    BY <2>1 DEF Loops, Turn
  <2> QED BY <2>2
<1>2. P(f)
  BY <1>1, Zenon
<1>3. Black!Apply(st, s, evidence) = Black!Execute(f[Len(q)])
  BY Zenon DEF Black!Apply, Black!Fold
<1> HIDE DEF f, base
<1>4. f[0] = base
  BY <1>2
<1>5. \A n \in 1 .. Len(q) : f[n] = Black!ApplyTransition(f[n - 1], q[n], s)
  BY <1>2
<1>6. BlackRuns(f, st, s, evidence, q)
  BY <1>3, <1>4, <1>5, Zenon DEF BlackRuns, base
<1> QED BY <1>6

\* f is the transactions of the freeze store, after each transition.
FreezeRuns(f, st, s, evidence, q) ==
    /\ f[0] = Freeze!Begin(st)
    /\ Freeze!Apply(st, s, evidence) = Freeze!Execute(f[Len(q)])
    /\ \A n \in 1 .. Len(q) : f[n] = Freeze!ApplyTransition(f[n - 1], q[n], s)

\* The freeze store's loop.
LEMMA FreezeLoop ==
    ASSUME NEW st, NEW s, NEW evidence, NEW q,
           q = Freeze!Reduce(st.open, s, evidence), Len(q) \in Nat
    PROVE  \E f : FreezeRuns(f, st, s, evidence, q)
<1> DEFINE base == Freeze!Begin(st)
           P(g) == g = [n \in 0 .. Len(q) |->
                           IF n = 0 THEN base
                           ELSE Freeze!ApplyTransition(g[n - 1], q[n], s)]
           f == CHOOSE g : P(g)
<1>1. \E g : P(g)
  <2> HIDE DEF base
  <2>1. PICK g : Loops(g, [loop |-> "freeze", s |-> s], base, q, Len(q))
    BY LoopsExists
  <2>2. P(g)
    BY <2>1 DEF Loops, Turn
  <2> QED BY <2>2
<1>2. P(f)
  BY <1>1, Zenon
<1>3. Freeze!Apply(st, s, evidence) = Freeze!Execute(f[Len(q)])
  BY Zenon DEF Freeze!Apply, Freeze!Fold
<1> HIDE DEF f, base
<1>4. f[0] = base
  BY <1>2
<1>5. \A n \in 1 .. Len(q) : f[n] = Freeze!ApplyTransition(f[n - 1], q[n], s)
  BY <1>2
<1>6. FreezeRuns(f, st, s, evidence, q)
  BY <1>3, <1>4, <1>5, Zenon DEF FreezeRuns, base
<1> QED BY <1>6

\* f is the transactions of the audio store, after each transition.
AudioRuns(f, st, s, evidence, q) ==
    /\ f[0] = Audio!Begin(st)
    /\ Audio!Apply(st, s, evidence) = Audio!Execute(f[Len(q)])
    /\ \A n \in 1 .. Len(q) : f[n] = Audio!ApplyTransition(f[n - 1], q[n])

\* The audio store's loop.
LEMMA AudioLoop ==
    ASSUME NEW st, NEW s, NEW evidence, NEW q,
           q = Audio!Reduce(st.open, s, evidence), Len(q) \in Nat
    PROVE  \E f : AudioRuns(f, st, s, evidence, q)
<1> DEFINE base == Audio!Begin(st)
           P(g) == g = [n \in 0 .. Len(q) |->
                           IF n = 0 THEN base
                           ELSE Audio!ApplyTransition(g[n - 1], q[n])]
           f == CHOOSE g : P(g)
<1>1. \E g : P(g)
  <2> HIDE DEF base
  <2>1. PICK g : Loops(g, [loop |-> "audio"], base, q, Len(q))
    BY LoopsExists
  <2>2. P(g)
    BY <2>1 DEF Loops, Turn
  <2> QED BY <2>2
<1>2. P(f)
  BY <1>1, Zenon
<1>3. Audio!Apply(st, s, evidence) = Audio!Execute(f[Len(q)])
  BY Zenon DEF Audio!Apply, Audio!Fold
<1> HIDE DEF f, base
<1>4. f[0] = base
  BY <1>2
<1>5. \A n \in 1 .. Len(q) : f[n] = Audio!ApplyTransition(f[n - 1], q[n])
  BY <1>2
<1>6. AudioRuns(f, st, s, evidence, q)
  BY <1>3, <1>4, <1>5, Zenon DEF AudioRuns, base
<1> QED BY <1>6

\* f is the transactions of the macroblocking store, after each transition.
BlocksRuns(f, st, s, evidence, q) ==
    /\ f[0] = Blocks!Begin(st)
    /\ Blocks!Apply(st, s, evidence) = Blocks!Execute(f[Len(q)])
    /\ \A n \in 1 .. Len(q) : f[n] = Blocks!ApplyTransition(f[n - 1], q[n], s)

\* The macroblocking store's loop.
LEMMA BlocksLoop ==
    ASSUME NEW st, NEW s, NEW evidence, NEW q,
           q = Blocks!Reduce(st.open, s, evidence), Len(q) \in Nat
    PROVE  \E f : BlocksRuns(f, st, s, evidence, q)
<1> DEFINE base == Blocks!Begin(st)
           P(g) == g = [n \in 0 .. Len(q) |->
                           IF n = 0 THEN base
                           ELSE Blocks!ApplyTransition(g[n - 1], q[n], s)]
           f == CHOOSE g : P(g)
<1>1. \E g : P(g)
  <2> HIDE DEF base
  <2>1. PICK g : Loops(g, [loop |-> "blocks", s |-> s], base, q, Len(q))
    BY LoopsExists
  <2>2. P(g)
    BY <2>1 DEF Loops, Turn
  <2> QED BY <2>2
<1>2. P(f)
  BY <1>1, Zenon
<1>3. Blocks!Apply(st, s, evidence) = Blocks!Execute(f[Len(q)])
  BY Zenon DEF Blocks!Apply, Blocks!Fold
<1> HIDE DEF f, base
<1>4. f[0] = base
  BY <1>2
<1>5. \A n \in 1 .. Len(q) : f[n] = Blocks!ApplyTransition(f[n - 1], q[n], s)
  BY <1>2
<1>6. BlocksRuns(f, st, s, evidence, q)
  BY <1>3, <1>4, <1>5, Zenon DEF BlocksRuns, base
<1> QED BY <1>6

\* f is what the loop over the intervals has made after each of them.
Joins(f, open, s, evidence, merges) ==
    /\ f[0] = [current |-> open, cuts |-> <<>>]
    /\ JoinIntervals(open, s, evidence, merges) = f[Len(evidence.intervals)].cuts
    /\ \A n \in 1 .. Len(evidence.intervals) :
          f[n] = JoinStep(f[n - 1], n, s, evidence, merges)

\* The loop over the intervals.
LEMMA JoinLoop ==
    ASSUME NEW open, NEW s, NEW evidence, NEW merges,
           Len(evidence.intervals) \in Nat,
           DOMAIN evidence.intervals = 1 .. Len(evidence.intervals)
    PROVE  \E f : Joins(f, open, s, evidence, merges)
<1> DEFINE N == Len(evidence.intervals)
           base == [current |-> open, cuts |-> <<>>]
           q == [n \in DOMAIN evidence.intervals |-> n]
           P(g) == g = [n \in 0 .. Len(q) |->
                           IF n = 0 THEN base
                           ELSE JoinStep(g[n - 1], q[n], s, evidence, merges)]
           f == CHOOSE g : P(g)
<1>1. Len(q) = N /\ \A n \in 1 .. N : q[n] = n
  OBVIOUS
<1>2. \E g : P(g)
  <2> HIDE DEF base, q
  <2>1. PICK g : Loops(g, [loop |-> "join", s |-> s, evidence |-> evidence,
                           merges |-> merges], base, q, Len(q))
    BY <1>1, LoopsExists
  <2>2. P(g)
    BY <2>1 DEF Loops, Turn
  <2> QED BY <2>2
<1>3. P(f)
  BY <1>2, Zenon
<1>4. JoinIntervals(open, s, evidence, merges) = f[Len(q)].cuts
  BY Zenon DEF JoinIntervals, Fold, JoinStep
<1> HIDE DEF f, q
<1>5. f[0] = base
  BY <1>1, <1>3
<1>6. \A n \in 1 .. N : f[n] = JoinStep(f[n - 1], n, s, evidence, merges)
  <2> HIDE DEF base
  <2> QED BY SMTT(30), <1>1, <1>3
<1>7. Joins(f, open, s, evidence, merges)
  BY <1>1, <1>4, <1>5, <1>6, Zenon DEF Joins
<1> QED BY <1>7

\* f is the macroblocking reducer's list of transitions, after each cut.
Lists(f, base, q) ==
    /\ f[0] = base
    /\ Blocks!Fold(LAMBDA made, cut : made \o Blocks!TransitionsOf(cut), base, q)
         = f[Len(q)]
    /\ \A n \in 1 .. Len(q) : f[n] = f[n - 1] \o Blocks!TransitionsOf(q[n])

\* The macroblocking reducer's list.
LEMMA CutsLoop ==
    ASSUME NEW base, NEW q, Len(q) \in Nat
    PROVE  \E f : Lists(f, base, q)
<1> DEFINE P(g) == g = [n \in 0 .. Len(q) |->
                           IF n = 0 THEN base
                           ELSE g[n - 1] \o Blocks!TransitionsOf(q[n])]
           f == CHOOSE g : P(g)
<1>1. \E g : P(g)
  <2>1. PICK g : Loops(g, [loop |-> "cuts"], base, q, Len(q))
    BY LoopsExists
  <2>2. P(g)
    BY <2>1 DEF Loops, Turn
  <2> QED BY <2>2
<1>2. P(f)
  BY <1>1, Zenon
<1>3. Blocks!Fold(LAMBDA made, cut : made \o Blocks!TransitionsOf(cut), base, q)
        = f[Len(q)]
  BY Zenon DEF Blocks!Fold
<1> HIDE DEF f
<1>4. f[0] = base
  BY <1>2
<1>5. \A n \in 0 .. Len(q) :
         f[n] = IF n = 0 THEN base ELSE f[n - 1] \o Blocks!TransitionsOf(q[n])
  BY <1>2, Zenon
<1>6. \A n \in 1 .. Len(q) : f[n] = f[n - 1] \o Blocks!TransitionsOf(q[n])
  <2> TAKE n \in 1 .. Len(q)
  <2>1. n \in 0 .. Len(q) /\ n # 0
    OBVIOUS
  <2> QED BY <1>5, <2>1, Zenon
<1>7. Lists(f, base, q)
  BY <1>3, <1>4, <1>6, Zenon DEF Lists
<1> QED BY <1>7

-----------------------------------------------------------------------------
(* What JoinIntervals returns.                                              *)

\* How an event leaves a segment.
Kinds == {"interrupted", "ended", "open"}

\* The loop after interval n: the cuts made, and the event that waits.
Joined(acc, n, open, s, p) ==
    /\ WellCut(acc.cuts, open, s)
    /\ n < Len(p) => \A k \in 1 .. Len(acc.cuts) : acc.cuts[k].kind # "open"
    /\ acc.cuts = <<>> => acc.current # None /\ n < Len(p)
    /\ acc.current # None /\ n < Len(p) =>
          /\ Kin(acc.current, open, s, Len(acc.cuts) + 1)
          /\ acc.current.seq = s.seq /\ acc.current.rev = s.rev
          /\ acc.current.off = p[n][2] /\ p[n + 1][1] <= p[n][2]

\* One more cut.
LEMMA OneMoreCut ==
    ASSUME NEW ds, NEW open, NEW s, NEW e, NEW kind \in {"ended", "open"},
           WellCut(ds, open, s), \A k \in 1 .. Len(ds) : ds[k].kind # "open",
           Kin(e, open, s, Len(ds) + 1),
           kind = "ended" => e.off < SegmentLength,
           kind = "open" => e.off = SegmentLength
    PROVE  /\ WellCut(ds \o <<Cut(kind, e)>>, open, s)
           /\ ds \o <<Cut(kind, e)>> # <<>>
           /\ kind = "ended" => \A k \in 1 .. Len(ds \o <<Cut(kind, e)>>) :
                                   (ds \o <<Cut(kind, e)>>)[k].kind # "open"
<1> DEFINE C == [kind : Kinds, event : Events]
           cs == ds \o <<Cut(kind, e)>>
           L == Len(ds)
<1>1. ds \in Seq(C)
  BY DEF WellCut, Kinds
<1>2. Cut(kind, e) \in C /\ Cut(kind, e).kind = kind /\ Cut(kind, e).event = e
  BY DEF Cut, Kin, Kinds
<1>3. cs \in Seq(C) /\ Len(cs) = L + 1 /\ L \in Nat
      /\ cs[L + 1] = Cut(kind, e)
      /\ \A k \in 1 .. L : cs[k] = ds[k]
  <2> HIDE DEF C
  <2> QED BY <1>1, <1>2
<1> HIDE DEF cs, L
<1>4. ASSUME NEW k \in 1 .. Len(cs)
      PROVE  /\ Kin(cs[k].event, open, s, k)
             /\ cs[k].kind = "interrupted" => k = 1 /\ open # None
             /\ cs[k].kind = "ended" => cs[k].event.off < SegmentLength
             /\ cs[k].kind = "open" =>
                   k = Len(cs) /\ cs[k].event.off = SegmentLength
             /\ kind = "ended" => cs[k].kind # "open"
  <2>1. CASE k \in 1 .. L
    BY <2>1, <1>3 DEF WellCut, L
  <2>2. CASE k = L + 1
    <3>1. cs[k].event = e /\ cs[k].kind = kind
      BY <2>2, <1>2, <1>3
    <3> QED BY <3>1, <2>2, <1>3 DEF L
  <2> QED BY <2>1, <2>2, <1>3
<1>5. cs # <<>>
  BY <1>3
<1>6. WellCut(cs, open, s)
  BY <1>3, <1>4, Zenon DEF WellCut, Kinds
<1> QED BY <1>4, <1>5, <1>6 DEF cs

\* A turn of the loop that makes event e of interval n, after the cuts ds.
LEMMA TurnIsJoined ==
    ASSUME NEW ds, NEW open, NEW s, NEW e, NEW p, NEW n \in 1 .. Len(p),
           NEW merges, Picture(p), WellCut(ds, open, s),
           \A k \in 1 .. Len(ds) : ds[k].kind # "open",
           Kin(e, open, s, Len(ds) + 1),
           e.seq = s.seq, e.rev = s.rev, e.off = p[n][2], e # None
    PROVE  LET touching == /\ merges
                           /\ n < Len(p)
                           /\ p[n + 1][1] <= p[n][2]
               ends == p[n][2] < SegmentLength
               cut == IF touching THEN <<>>
                      ELSE <<Cut(IF ends THEN "ended" ELSE "open", e)>>
           IN Joined([current |-> IF ends /\ ~ touching THEN None ELSE e,
                      cuts |-> ds \o cut], n, open, s, p)
<1> DEFINE touching == /\ merges
                       /\ n < Len(p)
                       /\ p[n + 1][1] <= p[n][2]
           ends == p[n][2] < SegmentLength
           kind == IF ends THEN "ended" ELSE "open"
           cut == IF touching THEN <<>> ELSE <<Cut(kind, e)>>
           cur == IF ends /\ ~ touching THEN None ELSE e
           acc == [current |-> cur, cuts |-> ds \o cut]
<1> USE LengthAssumption
<1>1. /\ Len(p) \in Nat /\ p[n][2] \in Nat /\ p[n][2] <= SegmentLength
      /\ n < Len(p) => /\ p[n + 1][1] \in Nat /\ p[n + 1][2] \in Nat
                       /\ p[n + 1][1] < p[n + 1][2]
                       /\ p[n + 1][2] <= SegmentLength
                       /\ p[n][2] <= p[n + 1][1]
  <2>1. n < Len(p) => n + 1 \in 1 .. Len(p) /\ n + 1 > 1 /\ (n + 1) - 1 = n
    BY DEF Picture
  <2> QED BY <2>1 DEF Picture
<1>2. n < Len(p) => ends
  BY <1>1
<1>3. CASE touching
  <2>1. ds \o cut = ds
    BY <1>3 DEF WellCut
  <2>2. cur = e
    BY <1>3
  <2>3. n < Len(p) /\ p[n + 1][1] <= p[n][2]
    BY <1>3
  <2>4. acc.current = e /\ acc.cuts = ds
    BY <2>1, <2>2
  <2> HIDE DEF acc, touching, cut, cur
  <2>5. Joined(acc, n, open, s, p)
    BY <2>3, <2>4, Zenon DEF Joined
  <2> QED BY <2>5 DEF acc, touching, cut, cur
<1>4. CASE ~ touching
  <2>1. kind \in {"ended", "open"} /\ (kind = "ended" => e.off < SegmentLength)
        /\ (kind = "open" => e.off = SegmentLength)
    BY <1>1
  <2>2. cut = <<Cut(kind, e)>>
    BY <1>4
  <2>3. n < Len(p) => cur = None /\ kind = "ended"
    BY <1>2, <1>4
  <2> DEFINE cs == ds \o <<Cut(kind, e)>>
  <2> HIDE DEF kind, touching, ends, cur
  <2>4. /\ WellCut(cs, open, s) /\ cs # <<>>
        /\ kind = "ended" => \A k \in 1 .. Len(cs) : cs[k].kind # "open"
    BY <2>1, OneMoreCut, Zenon
  <2>5. acc.current = cur /\ acc.cuts = cs
    BY <2>2
  <2> HIDE DEF acc, cs, cut
  <2>6. Joined(acc, n, open, s, p)
    BY <2>3, <2>4, <2>5, Zenon DEF Joined
  <2> QED BY <2>6 DEF acc, cut, cur, touching, ends, kind
<1> QED BY <1>3, <1>4

\* The open event a segment may continue.
Continuable(open, s) ==
    open # None =>
       /\ open \in Events /\ SequenceCanFollow(open, s)
       /\ open.off = SegmentLength /\ open.dur \in 1 .. AlertDuration

\* The first turn of the loop.
LEMMA FirstTurn ==
    ASSUME NEW open, NEW s \in Segments, NEW evidence, NEW merges,
           Continuable(open, s), Picture(evidence.intervals),
           evidence.intervals # <<>>
    PROVE  Joined(JoinStep([current |-> open, cuts |-> <<>>], 1, s, evidence,
                           merges), 1, open, s, evidence.intervals)
<1> DEFINE p == evidence.intervals
           i == p[1]
           acc == [current |-> open, cuts |-> <<>>]
           joined == /\ acc.current # None
                     /\ CanContinue(acc.current, s, i)
                     /\ s.seq = acc.current.seq \/ evidence.matches
           event == IF joined THEN ExtendEvent(acc.current, s, i)
                              ELSE NewEvent(s, i)
           broken == IF acc.current = None \/ joined THEN <<>>
                     ELSE <<Cut("interrupted", acc.current)>>
           ds == acc.cuts \o broken
<1> USE LengthAssumption, NoneAssumption
<1>1. 1 \in 1 .. Len(p) /\ i \in Intervals /\ i[1] < i[2] /\ i[2] <= SegmentLength
  BY DEF Picture
<1>2. WellCut(ds, open, s) /\ (\A k \in 1 .. Len(ds) : ds[k].kind # "open")
      /\ Kin(event, open, s, Len(ds) + 1)
      /\ event.seq = s.seq /\ event.rev = s.rev /\ event.off = p[1][2]
      /\ event # None
  <2>1. CASE open = None
    <3>1. event = NewEvent(s, i) /\ ds = <<>>
      BY <2>1
    <3>2. /\ event \in Events /\ SameTimeline(event, s)
          /\ event.dur \in 1 .. AlertDuration /\ event.dur <= event.off
          /\ ~ event.sent /\ event.seq = s.seq /\ event.rev = s.rev
          /\ event.off = i[2]
      <4> HIDE DEF event, i
      <4> QED BY <1>1, <3>1, NewEventKin
    <3>3. Kin(event, open, s, 1)
      <4> HIDE DEF event
      <4> QED BY <2>1, <3>2 DEF Kin
    <3> HIDE DEF event, ds
    <3>4. WellCut(ds, open, s) /\ Len(ds) = 0
      BY <3>1 DEF WellCut
    <3> QED BY <3>1, <3>2, <3>3, <3>4
  <2>2. CASE open # None /\ joined
    <3>1. event = ExtendEvent(open, s, i) /\ ds = <<>>
      BY <2>2
    <3>2. /\ open \in Events /\ SameTimeline(open, s) /\ open.off = SegmentLength
          /\ open.dur \in 1 .. AlertDuration
      BY <2>2 DEF Continuable, SequenceCanFollow
    <3>3. /\ event \in Events /\ SameTimeline(event, s)
          /\ event.dur \in 1 .. AlertDuration /\ open.dur <= event.dur
          /\ event.id = open.id /\ event.sent = open.sent
          /\ event.seq = s.seq /\ event.rev = s.rev /\ event.off = i[2]
      <4> HIDE DEF event, i
      <4> QED BY <1>1, <3>1, <3>2, ExtendEventKin
    <3>4. Kin(event, open, s, 1)
      <4> HIDE DEF event
      <4> QED BY <2>2, <3>3 DEF Kin
    <3> HIDE DEF event, ds
    <3>5. WellCut(ds, open, s) /\ Len(ds) = 0
      BY <3>1 DEF WellCut
    <3> QED BY <3>1, <3>3, <3>4, <3>5
  <2>3. CASE open # None /\ ~ joined
    <3>1. event = NewEvent(s, i) /\ ds = <<Cut("interrupted", open)>>
      BY <2>3
    <3>2. /\ event \in Events /\ SameTimeline(event, s)
          /\ event.dur \in 1 .. AlertDuration /\ event.dur <= event.off
          /\ ~ event.sent /\ event.seq = s.seq /\ event.rev = s.rev
          /\ event.off = i[2]
      <4> HIDE DEF event, i
      <4> QED BY <1>1, <3>1, NewEventKin
    <3>3. Kin(event, open, s, 2)
      <4> HIDE DEF event
      <4> QED BY <3>2 DEF Kin
    <3>4. Kin(open, open, s, 1)
      BY <2>3 DEF Kin, Continuable, SequenceCanFollow
    <3> HIDE DEF event, ds
    <3>5. Len(ds) = 1 /\ ds[1] = Cut("interrupted", open)
          /\ ds \in Seq([kind : {"interrupted", "ended", "open"}, event : Events])
      BY <3>1, <3>4 DEF Cut, Kin
    <3>6. ds[1].kind = "interrupted" /\ ds[1].event = open
      BY <3>5 DEF Cut
    <3>7. WellCut(ds, open, s)
      BY <2>3, <3>4, <3>5, <3>6 DEF WellCut
    <3> QED BY <3>2, <3>3, <3>5, <3>6, <3>7
  <2> QED BY <2>1, <2>2, <2>3
<1> DEFINE touching == /\ merges
                       /\ 1 < Len(p)
                       /\ p[1 + 1][1] <= p[1][2]
           ends == p[1][2] < SegmentLength
           cut == IF touching THEN <<>>
                  ELSE <<Cut(IF ends THEN "ended" ELSE "open", event)>>
<1>3. JoinStep(acc, 1, s, evidence, merges) =
         [current |-> IF ends /\ ~ touching THEN None ELSE event,
          cuts |-> ds \o cut]
  BY Zenon DEF JoinStep
<1>4. Picture(p) /\ 1 \in 1 .. Len(p)
  BY <1>1
<1> HIDE DEF event, ds, p
<1>5. Joined([current |-> IF ends /\ ~ touching THEN None ELSE event,
              cuts |-> ds \o cut], 1, open, s, p)
  BY <1>2, <1>4, TurnIsJoined, Zenon
<1> QED BY <1>3, <1>5, Zenon DEF p, acc

\* The turns after it.
LEMMA LaterTurn ==
    ASSUME NEW open, NEW s \in Segments, NEW evidence, NEW merges, NEW acc,
           NEW n \in Nat, n >= 1, n < Len(evidence.intervals),
           Picture(evidence.intervals), Continuable(open, s),
           Joined(acc, n, open, s, evidence.intervals)
    PROVE  Joined(JoinStep(acc, n + 1, s, evidence, merges), n + 1, open, s,
                  evidence.intervals)
<1> DEFINE p == evidence.intervals
           i == p[n + 1]
           joined == /\ acc.current # None
                     /\ CanContinue(acc.current, s, i)
                     /\ s.seq = acc.current.seq \/ evidence.matches
           event == IF joined THEN ExtendEvent(acc.current, s, i)
                              ELSE NewEvent(s, i)
           broken == IF acc.current = None \/ joined THEN <<>>
                     ELSE <<Cut("interrupted", acc.current)>>
           ds == acc.cuts \o broken
<1> USE LengthAssumption, NoneAssumption
<1>1. /\ n + 1 \in 1 .. Len(p) /\ i \in Intervals /\ i[1] < i[2]
      /\ i[2] <= SegmentLength /\ i[1] \in Nat /\ i[2] \in Nat
      /\ p[n][2] \in Nat /\ p[n][2] <= i[1] /\ p[n][2] <= SegmentLength
  <2>1. n + 1 \in 1 .. Len(p) /\ n + 1 > 1 /\ (n + 1) - 1 = n /\ n \in 1 .. Len(p)
    OBVIOUS
  <2> QED BY <2>1 DEF Picture
<1>2. /\ WellCut(acc.cuts, open, s)
      /\ \A k \in 1 .. Len(acc.cuts) : acc.cuts[k].kind # "open"
      /\ acc.current # None =>
            /\ Kin(acc.current, open, s, Len(acc.cuts) + 1)
            /\ acc.current.seq = s.seq /\ acc.current.rev = s.rev
            /\ acc.current.off = p[n][2] /\ i[1] <= p[n][2]
      /\ acc.cuts = <<>> => acc.current # None
  BY DEF Joined
<1>3. acc.cuts \o <<>> = acc.cuts /\ Len(acc.cuts) \in Nat
  BY <1>2 DEF WellCut
<1>4. /\ ds = acc.cuts /\ Kin(event, open, s, Len(ds) + 1)
      /\ event.seq = s.seq /\ event.rev = s.rev /\ event.off = p[n + 1][2]
      /\ event # None
  <2>1. CASE acc.current = None
    <3>1. event = NewEvent(s, i) /\ ds = acc.cuts
      BY <2>1, <1>3
    <3>2. /\ event \in Events /\ SameTimeline(event, s)
          /\ event.dur \in 1 .. AlertDuration /\ event.dur <= event.off
          /\ ~ event.sent /\ event.seq = s.seq /\ event.rev = s.rev
          /\ event.off = i[2]
      <4> HIDE DEF event, i
      <4> QED BY <1>1, <3>1, NewEventKin
    <3>3. Len(acc.cuts) # 0
      BY <1>2, <2>1 DEF WellCut
    <3>4. Kin(event, open, s, Len(acc.cuts) + 1)
      <4> HIDE DEF event
      <4> QED BY <1>3, <3>2, <3>3 DEF Kin
    <3> HIDE DEF event, ds
    <3> QED BY <3>1, <3>2, <3>4
  <2>2. CASE acc.current # None
    <3> DEFINE c == acc.current
    <3>1. /\ c \in Events /\ SameTimeline(c, s) /\ c.dur \in 1 .. AlertDuration
          /\ c.seq = s.seq /\ c.rev = s.rev /\ c.off = p[n][2] /\ i[1] <= c.off
          /\ c.off <= i[2] /\ c.off <= SegmentLength
      BY SMTT(30), <1>1, <1>2, <2>2 DEF Kin
    <3>2. joined
      BY <2>2, <3>1 DEF CanContinue, SequenceCanFollow
    <3>3. event = ExtendEvent(c, s, i) /\ ds = acc.cuts
      BY <3>2, <1>3
    <3>4. /\ event \in Events /\ SameTimeline(event, s)
          /\ event.dur \in 1 .. AlertDuration /\ c.dur <= event.dur
          /\ c.dur <= c.off => event.dur <= event.off
          /\ event.id = c.id /\ event.sent = c.sent
          /\ event.seq = s.seq /\ event.rev = s.rev /\ event.off = i[2]
      <4> HIDE DEF event, i, c
      <4> QED BY SMTT(30), <1>1, <3>1, <3>3, ExtendEventKin
    <3>5. Kin(event, open, s, Len(acc.cuts) + 1)
      <4>1. Kin(c, open, s, Len(acc.cuts) + 1)
        BY <1>2, <2>2
      <4>2. CASE Len(acc.cuts) + 1 = 1 /\ open # None
        <5>1. c.id = open.id /\ c.sent = open.sent /\ open.dur <= c.dur
              /\ open.dur <= event.dur
          <6>1. c.id = open.id /\ c.sent = open.sent /\ open.dur <= c.dur
            BY <4>1, <4>2 DEF Kin
          <6>2. open.dur \in Int
            BY <4>2 DEF Continuable
          <6> HIDE DEF event, c
          <6> QED BY <6>1, <6>2, <3>1, <3>4
        <5> HIDE DEF event, c
        <5> QED BY <3>4, <4>2, <5>1 DEF Kin
      <4>3. CASE ~ (Len(acc.cuts) + 1 = 1 /\ open # None)
        <5>1. ~ c.sent /\ c.dur <= c.off
          BY <4>1, <4>3 DEF Kin
        <5> HIDE DEF event, c
        <5> QED BY <3>4, <4>3, <5>1 DEF Kin
      <4> QED BY <4>2, <4>3
    <3> HIDE DEF event, ds
    <3> QED BY <3>3, <3>4, <3>5
  <2> QED BY <2>1, <2>2
<1> DEFINE touching == /\ merges
                       /\ n + 1 < Len(p)
                       /\ p[n + 1 + 1][1] <= p[n + 1][2]
           ends == p[n + 1][2] < SegmentLength
           cut == IF touching THEN <<>>
                  ELSE <<Cut(IF ends THEN "ended" ELSE "open", event)>>
<1>5. JoinStep(acc, n + 1, s, evidence, merges) =
         [current |-> IF ends /\ ~ touching THEN None ELSE event,
          cuts |-> ds \o cut]
  BY Zenon DEF JoinStep
<1>6. Picture(p) /\ n + 1 \in 1 .. Len(p)
  BY <1>1
<1>7. WellCut(ds, open, s) /\ \A k \in 1 .. Len(ds) : ds[k].kind # "open"
  BY <1>2, <1>4
<1> HIDE DEF event, ds, p
<1>8. Joined([current |-> IF ends /\ ~ touching THEN None ELSE event,
              cuts |-> ds \o cut], n + 1, open, s, p)
  BY <1>4, <1>6, <1>7, TurnIsJoined, Zenon
<1> QED BY <1>5, <1>8, Zenon DEF p

\* JoinIntervals cuts as WellCut says.
LEMMA JoinIntervalsWellCut ==
    ASSUME NEW open, NEW s \in Segments, NEW evidence, NEW merges,
           Continuable(open, s), Picture(evidence.intervals),
           evidence.intervals # <<>>
    PROVE  LET cuts == JoinIntervals(open, s, evidence, merges)
           IN  WellCut(cuts, open, s) /\ cuts # <<>>
<1> DEFINE p == evidence.intervals
           N == Len(p)
<1>1. N \in Nat /\ N >= 1 /\ DOMAIN p = 1 .. N
  BY DEF Picture
<1>2. PICK f : Joins(f, open, s, evidence, merges)
  BY <1>1, JoinLoop
<1> DEFINE S == {n \in Nat : n + 1 <= N => Joined(f[n + 1], n + 1, open, s, p)}
<1>3. 0 \in S
  <2>1. f[1] = JoinStep([current |-> open, cuts |-> <<>>], 1, s, evidence, merges)
    BY <1>1, <1>2 DEF Joins
  <2> QED BY <2>1, FirstTurn
<1>4. ASSUME NEW n \in Nat, n \in S PROVE n + 1 \in S
  <2> SUFFICES ASSUME n + 2 <= N PROVE Joined(f[n + 2], n + 2, open, s, p)
    BY <1>1
  <2>1. Joined(f[n + 1], n + 1, open, s, p)
    BY <1>1, <1>4
  <2>2. f[n + 2] = JoinStep(f[n + 1], n + 2, s, evidence, merges)
    <3>1. n + 2 \in 1 .. N /\ (n + 2) - 1 = n + 1
      BY <1>1
    <3> QED BY <1>2, <3>1 DEF Joins
  <2>3. n + 1 \in Nat /\ n + 1 >= 1 /\ n + 1 < N /\ n + 2 = (n + 1) + 1
    BY <1>1
  <2> DEFINE m == n + 1
  <2>4. Joined(JoinStep(f[m], m + 1, s, evidence, merges), m + 1, open, s, p)
    <3>1. m \in Nat /\ m >= 1 /\ m < N /\ Joined(f[m], m, open, s, p)
      BY <2>1, <2>3
    <3> HIDE DEF m
    <3> QED BY <3>1, LaterTurn
  <2> QED BY <2>2, <2>3, <2>4
<1> HIDE DEF S
<1>5. N - 1 \in S
  <2>1. N - 1 \in Nat
    BY <1>1
  <2> QED BY <1>3, <1>4, <2>1, Induct
<1>6. Joined(f[N], N, open, s, p)
  BY <1>1, <1>5 DEF S
<1>7. WellCut(f[N].cuts, open, s) /\ f[N].cuts # <<>>
  <2>1. ~ (N < N)
    BY <1>1
  <2> QED BY <1>6, <2>1 DEF Joined
<1> QED BY <1>2, <1>7 DEF Joins

-----------------------------------------------------------------------------
(* Transactions that raised no error.                                       *)

\* What an alert says and why.
Whys ==
    {"continuous_black", "threshold_reached_on_resolution",
     "freeze_alert_threshold", "silence", "macroblocking_duration_threshold",
     "repeated_short_event", "timeline_discontinued",
     "healthy_segment_confirmed", "audio_returned", "observation_gap",
     "video_returned"}

Alerts ==
    [state : {"OPEN", "RESOLVED", "UPDATE"}, kind : {"CONTINUOUS", "REPEATED"},
     id : Ids, why : Whys]

\* The repeated state of a store, by generation.
Histories == [Generations -> SUBSET [id : Ids, at : Nat]]
IncidentsOf == [Generations -> Incidents \cup {None}]

\* A transaction, field by field.
Txn(pre, o, sv, r, h, i, al, pe, f) ==
    [store |-> [open |-> o, saved |-> sv, recovery |-> r, history |-> h,
                incident |-> i],
     pre |-> pre, alerts |-> al, pending |-> pe, raised |-> f]

\* The same, without an error (named, so that a proof need not look at it).
NoError == FALSE

Tx(pre, o, sv, r, h, i, al, pe) == Txn(pre, o, sv, r, h, i, al, pe, NoError)

\* The assignments of the stores that have no operator there.
SetPending(tx, pending) == [tx EXCEPT !.pending = pending]

With(f, x, y) == [f EXCEPT ![x] = y]

ClearOpen(tx) == [tx EXCEPT !.store.open = None]

\* The fields of a transaction.
LEMMA TxFields ==
    ASSUME NEW pre, NEW o, NEW sv, NEW r, NEW h, NEW i, NEW al, NEW pe, NEW f
    PROVE  LET t == Txn(pre, o, sv, r, h, i, al, pe, f)
           IN  /\ t.pre = pre /\ t.alerts = al /\ t.pending = pe
               /\ t.raised = f
               /\ t.store.open = o /\ t.store.saved = sv
               /\ t.store.recovery = r /\ t.store.history = h
               /\ t.store.incident = i
BY DEF Txn

\* Two assignments of a transaction.
LEMMA TxAssigns ==
    ASSUME NEW pre, NEW o, NEW sv, NEW r, NEW h, NEW i, NEW al, NEW pe, NEW x
    PROVE  /\ SetPending(Tx(pre, o, sv, r, h, i, al, pe), x)
                = Tx(pre, o, sv, r, h, i, al, x)
           /\ ClearOpen(Tx(pre, o, sv, r, h, i, al, pe))
                = Tx(pre, None, sv, r, h, i, al, pe)
BY DEF Tx, Txn, SetPending, ClearOpen

\* What the shared operators do to a transaction of the black-screen store.
LEMMA BlackOps ==
    ASSUME NEW pre, NEW o, NEW sv, NEW r, NEW h, NEW i, NEW al, NEW pe
    PROVE  /\ \A e :
                 Black!SaveOpen(Tx(pre, o, sv, r, h, i, al, pe), e)
                   = Tx(pre, e, sv \cup {e.id}, r, h, i, al, pe)
           /\ \A e :
                 Black!SaveClosed(Tx(pre, o, sv, r, h, i, al, pe), e)
                   = Tx(pre, None, sv \cup {e.id}, r, h, i, al, pe)
           /\ \A x :
                 Black!SaveRecovery(Tx(pre, o, sv, r, h, i, al, pe), x)
                   = Tx(pre, o, sv, x, h, i, al, pe)
           /\ Black!DeleteRecovery(Tx(pre, o, sv, r, h, i, al, pe))
                = Tx(pre, o, sv, None, h, i, al, pe)
           /\ \A a :
                 Black!Publish(Tx(pre, o, sv, r, h, i, al, pe), a)
                   = Tx(pre, o, sv, r, h, i, Append(al, a), pe)
           /\ \A a, due :
                 Black!PublishIf(due, Tx(pre, o, sv, r, h, i, al, pe), a)
                   = IF due THEN Tx(pre, o, sv, r, h, i, Append(al, a), pe)
                            ELSE Tx(pre, o, sv, r, h, i, al, pe)
           /\ \A g, x :
                 Black!WriteRepeated(Tx(pre, o, sv, r, h, i, al, pe), g, x)
                   = Tx(pre, o, sv, r, With(h, g, x.history),
                        With(i, g, x.incident), al, pe)
<1>1. ASSUME NEW e
      PROVE  Black!SaveOpen(Tx(pre, o, sv, r, h, i, al, pe), e)
               = Tx(pre, e, sv \cup {e.id}, r, h, i, al, pe)
  <2>1. [Tx(pre, o, sv, r, h, i, al, pe) EXCEPT !.store.open = e]
          = Tx(pre, e, sv, r, h, i, al, pe)
    BY DEF Tx, Txn
  <2>2. [Tx(pre, e, sv, r, h, i, al, pe) EXCEPT !.store.saved = @ \cup {e.id}]
          = Tx(pre, e, sv \cup {e.id}, r, h, i, al, pe)
    <3>1. Tx(pre, e, sv, r, h, i, al, pe).store.saved = sv
      BY TxFields DEF Tx
    <3> DEFINE x == sv \cup {e.id}
    <3>2. [Tx(pre, e, sv, r, h, i, al, pe) EXCEPT !.store.saved = x]
            = Tx(pre, e, x, r, h, i, al, pe)
      <4> HIDE DEF x
      <4> QED BY DEF Tx, Txn
    <3> QED BY <3>1, <3>2, Zenon
  <2>3. Black!SaveOpen(Tx(pre, o, sv, r, h, i, al, pe), e)
          = [[Tx(pre, o, sv, r, h, i, al, pe) EXCEPT !.store.open = e]
               EXCEPT !.store.saved = @ \cup {e.id}]
    BY Zenon DEF Black!SaveOpen
  <2> QED BY <2>1, <2>2, <2>3, Zenon
<1>2. ASSUME NEW e
      PROVE  Black!SaveClosed(Tx(pre, o, sv, r, h, i, al, pe), e)
               = Tx(pre, None, sv \cup {e.id}, r, h, i, al, pe)
  <2>1. [Tx(pre, o, sv, r, h, i, al, pe) EXCEPT !.store.open = None]
          = Tx(pre, None, sv, r, h, i, al, pe)
    BY DEF Tx, Txn
  <2>2. [Tx(pre, None, sv, r, h, i, al, pe) EXCEPT !.store.saved = @ \cup {e.id}]
          = Tx(pre, None, sv \cup {e.id}, r, h, i, al, pe)
    <3>1. Tx(pre, None, sv, r, h, i, al, pe).store.saved = sv
      BY TxFields DEF Tx
    <3> DEFINE x == sv \cup {e.id}
    <3>2. [Tx(pre, None, sv, r, h, i, al, pe) EXCEPT !.store.saved = x]
            = Tx(pre, None, x, r, h, i, al, pe)
      <4> HIDE DEF x
      <4> QED BY DEF Tx, Txn
    <3> QED BY <3>1, <3>2, Zenon
  <2>3. Black!SaveClosed(Tx(pre, o, sv, r, h, i, al, pe), e)
          = [[Tx(pre, o, sv, r, h, i, al, pe) EXCEPT !.store.open = None]
               EXCEPT !.store.saved = @ \cup {e.id}]
    BY Zenon DEF Black!SaveClosed
  <2> QED BY <2>1, <2>2, <2>3, Zenon
<1>3. ASSUME NEW x
      PROVE  Black!SaveRecovery(Tx(pre, o, sv, r, h, i, al, pe), x)
               = Tx(pre, o, sv, x, h, i, al, pe)
  BY DEF Tx, Txn, Black!SaveRecovery
<1>4. Black!DeleteRecovery(Tx(pre, o, sv, r, h, i, al, pe))
               = Tx(pre, o, sv, None, h, i, al, pe)
  BY DEF Tx, Txn, Black!SaveRecovery, Black!DeleteRecovery
<1>5. ASSUME NEW a
      PROVE  Black!Publish(Tx(pre, o, sv, r, h, i, al, pe), a)
               = Tx(pre, o, sv, r, h, i, Append(al, a), pe)
  <2>1. Tx(pre, o, sv, r, h, i, al, pe).alerts = al
    BY TxFields DEF Tx
  <2> DEFINE x == Append(al, a)
  <2>2. [Tx(pre, o, sv, r, h, i, al, pe) EXCEPT !.alerts = x]
          = Tx(pre, o, sv, r, h, i, x, pe)
    <3> HIDE DEF x
    <3> QED BY DEF Tx, Txn
  <2> QED BY <2>1, <2>2, Zenon DEF Black!Publish
<1>6. ASSUME NEW a, NEW due
      PROVE  Black!PublishIf(due, Tx(pre, o, sv, r, h, i, al, pe), a)
               = IF due THEN Tx(pre, o, sv, r, h, i, Append(al, a), pe)
                        ELSE Tx(pre, o, sv, r, h, i, al, pe)
  BY <1>5, Zenon DEF Black!PublishIf
<1>7. ASSUME NEW g, NEW x
      PROVE  Black!WriteRepeated(Tx(pre, o, sv, r, h, i, al, pe), g, x)
               = Tx(pre, o, sv, r, With(h, g, x.history),
                        With(i, g, x.incident), al, pe)
  <2> DEFINE hh == [h EXCEPT ![g] = x.history]
             ii == [i EXCEPT ![g] = x.incident]
  <2>1. [Tx(pre, o, sv, r, h, i, al, pe) EXCEPT !.store.history[g] = x.history]
          = Tx(pre, o, sv, r, hh, i, al, pe)
    <3>1. Tx(pre, o, sv, r, h, i, al, pe).store.history = h
      BY TxFields DEF Tx
    <3>2. [Tx(pre, o, sv, r, h, i, al, pe) EXCEPT !.store.history = hh]
            = Tx(pre, o, sv, r, hh, i, al, pe)
      <4> HIDE DEF hh
      <4> QED BY DEF Tx, Txn
    <3> QED BY <3>1, <3>2
  <2>2. [Tx(pre, o, sv, r, hh, i, al, pe) EXCEPT !.store.incident[g] = x.incident]
          = Tx(pre, o, sv, r, hh, ii, al, pe)
    <3> HIDE DEF hh
    <3>1. Tx(pre, o, sv, r, hh, i, al, pe).store.incident = i
      BY TxFields DEF Tx
    <3>2. [Tx(pre, o, sv, r, hh, i, al, pe) EXCEPT !.store.incident = ii]
            = Tx(pre, o, sv, r, hh, ii, al, pe)
      <4> HIDE DEF ii
      <4> QED BY DEF Tx, Txn
    <3> QED BY <3>1, <3>2
  <2>3. Black!WriteRepeated(Tx(pre, o, sv, r, h, i, al, pe), g, x)
          = [[Tx(pre, o, sv, r, h, i, al, pe) EXCEPT
                !.store.history[g] = x.history]
               EXCEPT !.store.incident[g] = x.incident]
    BY Zenon DEF Black!WriteRepeated
  <2> QED BY <2>1, <2>2, <2>3, Zenon DEF With
<1> QED BY <1>1, <1>2, <1>3, <1>4, <1>5, <1>6, <1>7

\* What the shared operators do to a transaction of the freeze store.
LEMMA FreezeOps ==
    ASSUME NEW pre, NEW o, NEW sv, NEW r, NEW h, NEW i, NEW al, NEW pe
    PROVE  /\ \A e :
                 Freeze!SaveOpen(Tx(pre, o, sv, r, h, i, al, pe), e)
                   = Tx(pre, e, sv \cup {e.id}, r, h, i, al, pe)
           /\ \A e :
                 Freeze!SaveClosed(Tx(pre, o, sv, r, h, i, al, pe), e)
                   = Tx(pre, None, sv \cup {e.id}, r, h, i, al, pe)
           /\ \A x :
                 Freeze!SaveRecovery(Tx(pre, o, sv, r, h, i, al, pe), x)
                   = Tx(pre, o, sv, x, h, i, al, pe)
           /\ Freeze!DeleteRecovery(Tx(pre, o, sv, r, h, i, al, pe))
                = Tx(pre, o, sv, None, h, i, al, pe)
           /\ \A a :
                 Freeze!Publish(Tx(pre, o, sv, r, h, i, al, pe), a)
                   = Tx(pre, o, sv, r, h, i, Append(al, a), pe)
           /\ \A a, due :
                 Freeze!PublishIf(due, Tx(pre, o, sv, r, h, i, al, pe), a)
                   = IF due THEN Tx(pre, o, sv, r, h, i, Append(al, a), pe)
                            ELSE Tx(pre, o, sv, r, h, i, al, pe)
           /\ \A g, x :
                 Freeze!WriteRepeated(Tx(pre, o, sv, r, h, i, al, pe), g, x)
                   = Tx(pre, o, sv, r, With(h, g, x.history),
                        With(i, g, x.incident), al, pe)
<1>1. ASSUME NEW e
      PROVE  Freeze!SaveOpen(Tx(pre, o, sv, r, h, i, al, pe), e)
               = Tx(pre, e, sv \cup {e.id}, r, h, i, al, pe)
  <2>1. [Tx(pre, o, sv, r, h, i, al, pe) EXCEPT !.store.open = e]
          = Tx(pre, e, sv, r, h, i, al, pe)
    BY DEF Tx, Txn
  <2>2. [Tx(pre, e, sv, r, h, i, al, pe) EXCEPT !.store.saved = @ \cup {e.id}]
          = Tx(pre, e, sv \cup {e.id}, r, h, i, al, pe)
    <3>1. Tx(pre, e, sv, r, h, i, al, pe).store.saved = sv
      BY TxFields DEF Tx
    <3> DEFINE x == sv \cup {e.id}
    <3>2. [Tx(pre, e, sv, r, h, i, al, pe) EXCEPT !.store.saved = x]
            = Tx(pre, e, x, r, h, i, al, pe)
      <4> HIDE DEF x
      <4> QED BY DEF Tx, Txn
    <3> QED BY <3>1, <3>2, Zenon
  <2>3. Freeze!SaveOpen(Tx(pre, o, sv, r, h, i, al, pe), e)
          = [[Tx(pre, o, sv, r, h, i, al, pe) EXCEPT !.store.open = e]
               EXCEPT !.store.saved = @ \cup {e.id}]
    BY Zenon DEF Freeze!SaveOpen
  <2> QED BY <2>1, <2>2, <2>3, Zenon
<1>2. ASSUME NEW e
      PROVE  Freeze!SaveClosed(Tx(pre, o, sv, r, h, i, al, pe), e)
               = Tx(pre, None, sv \cup {e.id}, r, h, i, al, pe)
  <2>1. [Tx(pre, o, sv, r, h, i, al, pe) EXCEPT !.store.open = None]
          = Tx(pre, None, sv, r, h, i, al, pe)
    BY DEF Tx, Txn
  <2>2. [Tx(pre, None, sv, r, h, i, al, pe) EXCEPT !.store.saved = @ \cup {e.id}]
          = Tx(pre, None, sv \cup {e.id}, r, h, i, al, pe)
    <3>1. Tx(pre, None, sv, r, h, i, al, pe).store.saved = sv
      BY TxFields DEF Tx
    <3> DEFINE x == sv \cup {e.id}
    <3>2. [Tx(pre, None, sv, r, h, i, al, pe) EXCEPT !.store.saved = x]
            = Tx(pre, None, x, r, h, i, al, pe)
      <4> HIDE DEF x
      <4> QED BY DEF Tx, Txn
    <3> QED BY <3>1, <3>2, Zenon
  <2>3. Freeze!SaveClosed(Tx(pre, o, sv, r, h, i, al, pe), e)
          = [[Tx(pre, o, sv, r, h, i, al, pe) EXCEPT !.store.open = None]
               EXCEPT !.store.saved = @ \cup {e.id}]
    BY Zenon DEF Freeze!SaveClosed
  <2> QED BY <2>1, <2>2, <2>3, Zenon
<1>3. ASSUME NEW x
      PROVE  Freeze!SaveRecovery(Tx(pre, o, sv, r, h, i, al, pe), x)
               = Tx(pre, o, sv, x, h, i, al, pe)
  BY DEF Tx, Txn, Freeze!SaveRecovery
<1>4. Freeze!DeleteRecovery(Tx(pre, o, sv, r, h, i, al, pe))
               = Tx(pre, o, sv, None, h, i, al, pe)
  BY DEF Tx, Txn, Freeze!SaveRecovery, Freeze!DeleteRecovery
<1>5. ASSUME NEW a
      PROVE  Freeze!Publish(Tx(pre, o, sv, r, h, i, al, pe), a)
               = Tx(pre, o, sv, r, h, i, Append(al, a), pe)
  <2>1. Tx(pre, o, sv, r, h, i, al, pe).alerts = al
    BY TxFields DEF Tx
  <2> DEFINE x == Append(al, a)
  <2>2. [Tx(pre, o, sv, r, h, i, al, pe) EXCEPT !.alerts = x]
          = Tx(pre, o, sv, r, h, i, x, pe)
    <3> HIDE DEF x
    <3> QED BY DEF Tx, Txn
  <2> QED BY <2>1, <2>2, Zenon DEF Freeze!Publish
<1>6. ASSUME NEW a, NEW due
      PROVE  Freeze!PublishIf(due, Tx(pre, o, sv, r, h, i, al, pe), a)
               = IF due THEN Tx(pre, o, sv, r, h, i, Append(al, a), pe)
                        ELSE Tx(pre, o, sv, r, h, i, al, pe)
  BY <1>5, Zenon DEF Freeze!PublishIf
<1>7. ASSUME NEW g, NEW x
      PROVE  Freeze!WriteRepeated(Tx(pre, o, sv, r, h, i, al, pe), g, x)
               = Tx(pre, o, sv, r, With(h, g, x.history),
                        With(i, g, x.incident), al, pe)
  <2> DEFINE hh == [h EXCEPT ![g] = x.history]
             ii == [i EXCEPT ![g] = x.incident]
  <2>1. [Tx(pre, o, sv, r, h, i, al, pe) EXCEPT !.store.history[g] = x.history]
          = Tx(pre, o, sv, r, hh, i, al, pe)
    <3>1. Tx(pre, o, sv, r, h, i, al, pe).store.history = h
      BY TxFields DEF Tx
    <3>2. [Tx(pre, o, sv, r, h, i, al, pe) EXCEPT !.store.history = hh]
            = Tx(pre, o, sv, r, hh, i, al, pe)
      <4> HIDE DEF hh
      <4> QED BY DEF Tx, Txn
    <3> QED BY <3>1, <3>2
  <2>2. [Tx(pre, o, sv, r, hh, i, al, pe) EXCEPT !.store.incident[g] = x.incident]
          = Tx(pre, o, sv, r, hh, ii, al, pe)
    <3> HIDE DEF hh
    <3>1. Tx(pre, o, sv, r, hh, i, al, pe).store.incident = i
      BY TxFields DEF Tx
    <3>2. [Tx(pre, o, sv, r, hh, i, al, pe) EXCEPT !.store.incident = ii]
            = Tx(pre, o, sv, r, hh, ii, al, pe)
      <4> HIDE DEF ii
      <4> QED BY DEF Tx, Txn
    <3> QED BY <3>1, <3>2
  <2>3. Freeze!WriteRepeated(Tx(pre, o, sv, r, h, i, al, pe), g, x)
          = [[Tx(pre, o, sv, r, h, i, al, pe) EXCEPT
                !.store.history[g] = x.history]
               EXCEPT !.store.incident[g] = x.incident]
    BY Zenon DEF Freeze!WriteRepeated
  <2> QED BY <2>1, <2>2, <2>3, Zenon DEF With
<1> QED BY <1>1, <1>2, <1>3, <1>4, <1>5, <1>6, <1>7

\* What the shared operators do to a transaction of the audio store.
LEMMA AudioOps ==
    ASSUME NEW pre, NEW o, NEW sv, NEW r, NEW h, NEW i, NEW al, NEW pe
    PROVE  /\ \A e :
                 Audio!SaveOpen(Tx(pre, o, sv, r, h, i, al, pe), e)
                   = Tx(pre, e, sv \cup {e.id}, r, h, i, al, pe)
           /\ \A e :
                 Audio!SaveClosed(Tx(pre, o, sv, r, h, i, al, pe), e)
                   = Tx(pre, None, sv \cup {e.id}, r, h, i, al, pe)
           /\ \A a :
                 Audio!Publish(Tx(pre, o, sv, r, h, i, al, pe), a)
                   = Tx(pre, o, sv, r, h, i, Append(al, a), pe)
           /\ \A a, due :
                 Audio!PublishIf(due, Tx(pre, o, sv, r, h, i, al, pe), a)
                   = IF due THEN Tx(pre, o, sv, r, h, i, Append(al, a), pe)
                            ELSE Tx(pre, o, sv, r, h, i, al, pe)
<1>1. ASSUME NEW e
      PROVE  Audio!SaveOpen(Tx(pre, o, sv, r, h, i, al, pe), e)
               = Tx(pre, e, sv \cup {e.id}, r, h, i, al, pe)
  <2>1. [Tx(pre, o, sv, r, h, i, al, pe) EXCEPT !.store.open = e]
          = Tx(pre, e, sv, r, h, i, al, pe)
    BY DEF Tx, Txn
  <2>2. [Tx(pre, e, sv, r, h, i, al, pe) EXCEPT !.store.saved = @ \cup {e.id}]
          = Tx(pre, e, sv \cup {e.id}, r, h, i, al, pe)
    <3>1. Tx(pre, e, sv, r, h, i, al, pe).store.saved = sv
      BY TxFields DEF Tx
    <3> DEFINE x == sv \cup {e.id}
    <3>2. [Tx(pre, e, sv, r, h, i, al, pe) EXCEPT !.store.saved = x]
            = Tx(pre, e, x, r, h, i, al, pe)
      <4> HIDE DEF x
      <4> QED BY DEF Tx, Txn
    <3> QED BY <3>1, <3>2, Zenon
  <2>3. Audio!SaveOpen(Tx(pre, o, sv, r, h, i, al, pe), e)
          = [[Tx(pre, o, sv, r, h, i, al, pe) EXCEPT !.store.open = e]
               EXCEPT !.store.saved = @ \cup {e.id}]
    BY Zenon DEF Audio!SaveOpen
  <2> QED BY <2>1, <2>2, <2>3, Zenon
<1>2. ASSUME NEW e
      PROVE  Audio!SaveClosed(Tx(pre, o, sv, r, h, i, al, pe), e)
               = Tx(pre, None, sv \cup {e.id}, r, h, i, al, pe)
  <2>1. [Tx(pre, o, sv, r, h, i, al, pe) EXCEPT !.store.open = None]
          = Tx(pre, None, sv, r, h, i, al, pe)
    BY DEF Tx, Txn
  <2>2. [Tx(pre, None, sv, r, h, i, al, pe) EXCEPT !.store.saved = @ \cup {e.id}]
          = Tx(pre, None, sv \cup {e.id}, r, h, i, al, pe)
    <3>1. Tx(pre, None, sv, r, h, i, al, pe).store.saved = sv
      BY TxFields DEF Tx
    <3> DEFINE x == sv \cup {e.id}
    <3>2. [Tx(pre, None, sv, r, h, i, al, pe) EXCEPT !.store.saved = x]
            = Tx(pre, None, x, r, h, i, al, pe)
      <4> HIDE DEF x
      <4> QED BY DEF Tx, Txn
    <3> QED BY <3>1, <3>2, Zenon
  <2>3. Audio!SaveClosed(Tx(pre, o, sv, r, h, i, al, pe), e)
          = [[Tx(pre, o, sv, r, h, i, al, pe) EXCEPT !.store.open = None]
               EXCEPT !.store.saved = @ \cup {e.id}]
    BY Zenon DEF Audio!SaveClosed
  <2> QED BY <2>1, <2>2, <2>3, Zenon
<1>3. ASSUME NEW a
      PROVE  Audio!Publish(Tx(pre, o, sv, r, h, i, al, pe), a)
               = Tx(pre, o, sv, r, h, i, Append(al, a), pe)
  <2>1. Tx(pre, o, sv, r, h, i, al, pe).alerts = al
    BY TxFields DEF Tx
  <2> DEFINE x == Append(al, a)
  <2>2. [Tx(pre, o, sv, r, h, i, al, pe) EXCEPT !.alerts = x]
          = Tx(pre, o, sv, r, h, i, x, pe)
    <3> HIDE DEF x
    <3> QED BY DEF Tx, Txn
  <2> QED BY <2>1, <2>2, Zenon DEF Audio!Publish
<1>4. ASSUME NEW a, NEW due
      PROVE  Audio!PublishIf(due, Tx(pre, o, sv, r, h, i, al, pe), a)
               = IF due THEN Tx(pre, o, sv, r, h, i, Append(al, a), pe)
                        ELSE Tx(pre, o, sv, r, h, i, al, pe)
  BY <1>3, Zenon DEF Audio!PublishIf
<1> QED BY <1>1, <1>2, <1>3, <1>4

\* What the shared operators do to a transaction of the macroblocking store.
LEMMA BlocksOps ==
    ASSUME NEW pre, NEW o, NEW sv, NEW r, NEW h, NEW i, NEW al, NEW pe
    PROVE  /\ \A e :
                 Blocks!SaveOpen(Tx(pre, o, sv, r, h, i, al, pe), e)
                   = Tx(pre, e, sv \cup {e.id}, r, h, i, al, pe)
           /\ \A e :
                 Blocks!SaveClosed(Tx(pre, o, sv, r, h, i, al, pe), e)
                   = Tx(pre, None, sv \cup {e.id}, r, h, i, al, pe)
           /\ \A x :
                 Blocks!SaveRecovery(Tx(pre, o, sv, r, h, i, al, pe), x)
                   = Tx(pre, o, sv, x, h, i, al, pe)
           /\ Blocks!DeleteRecovery(Tx(pre, o, sv, r, h, i, al, pe))
                = Tx(pre, o, sv, None, h, i, al, pe)
           /\ \A a :
                 Blocks!Publish(Tx(pre, o, sv, r, h, i, al, pe), a)
                   = Tx(pre, o, sv, r, h, i, Append(al, a), pe)
<1>1. ASSUME NEW e
      PROVE  Blocks!SaveOpen(Tx(pre, o, sv, r, h, i, al, pe), e)
               = Tx(pre, e, sv \cup {e.id}, r, h, i, al, pe)
  <2>1. [Tx(pre, o, sv, r, h, i, al, pe) EXCEPT !.store.open = e]
          = Tx(pre, e, sv, r, h, i, al, pe)
    BY DEF Tx, Txn
  <2>2. [Tx(pre, e, sv, r, h, i, al, pe) EXCEPT !.store.saved = @ \cup {e.id}]
          = Tx(pre, e, sv \cup {e.id}, r, h, i, al, pe)
    <3>1. Tx(pre, e, sv, r, h, i, al, pe).store.saved = sv
      BY TxFields DEF Tx
    <3> DEFINE x == sv \cup {e.id}
    <3>2. [Tx(pre, e, sv, r, h, i, al, pe) EXCEPT !.store.saved = x]
            = Tx(pre, e, x, r, h, i, al, pe)
      <4> HIDE DEF x
      <4> QED BY DEF Tx, Txn
    <3> QED BY <3>1, <3>2, Zenon
  <2>3. Blocks!SaveOpen(Tx(pre, o, sv, r, h, i, al, pe), e)
          = [[Tx(pre, o, sv, r, h, i, al, pe) EXCEPT !.store.open = e]
               EXCEPT !.store.saved = @ \cup {e.id}]
    BY Zenon DEF Blocks!SaveOpen
  <2> QED BY <2>1, <2>2, <2>3, Zenon
<1>2. ASSUME NEW e
      PROVE  Blocks!SaveClosed(Tx(pre, o, sv, r, h, i, al, pe), e)
               = Tx(pre, None, sv \cup {e.id}, r, h, i, al, pe)
  <2>1. [Tx(pre, o, sv, r, h, i, al, pe) EXCEPT !.store.open = None]
          = Tx(pre, None, sv, r, h, i, al, pe)
    BY DEF Tx, Txn
  <2>2. [Tx(pre, None, sv, r, h, i, al, pe) EXCEPT !.store.saved = @ \cup {e.id}]
          = Tx(pre, None, sv \cup {e.id}, r, h, i, al, pe)
    <3>1. Tx(pre, None, sv, r, h, i, al, pe).store.saved = sv
      BY TxFields DEF Tx
    <3> DEFINE x == sv \cup {e.id}
    <3>2. [Tx(pre, None, sv, r, h, i, al, pe) EXCEPT !.store.saved = x]
            = Tx(pre, None, x, r, h, i, al, pe)
      <4> HIDE DEF x
      <4> QED BY DEF Tx, Txn
    <3> QED BY <3>1, <3>2, Zenon
  <2>3. Blocks!SaveClosed(Tx(pre, o, sv, r, h, i, al, pe), e)
          = [[Tx(pre, o, sv, r, h, i, al, pe) EXCEPT !.store.open = None]
               EXCEPT !.store.saved = @ \cup {e.id}]
    BY Zenon DEF Blocks!SaveClosed
  <2> QED BY <2>1, <2>2, <2>3, Zenon
<1>3. ASSUME NEW x
      PROVE  Blocks!SaveRecovery(Tx(pre, o, sv, r, h, i, al, pe), x)
               = Tx(pre, o, sv, x, h, i, al, pe)
  BY DEF Tx, Txn, Blocks!SaveRecovery
<1>4. Blocks!DeleteRecovery(Tx(pre, o, sv, r, h, i, al, pe))
               = Tx(pre, o, sv, None, h, i, al, pe)
  BY DEF Tx, Txn, Blocks!SaveRecovery, Blocks!DeleteRecovery
<1>5. ASSUME NEW a
      PROVE  Blocks!Publish(Tx(pre, o, sv, r, h, i, al, pe), a)
               = Tx(pre, o, sv, r, h, i, Append(al, a), pe)
  <2>1. Tx(pre, o, sv, r, h, i, al, pe).alerts = al
    BY TxFields DEF Tx
  <2> DEFINE x == Append(al, a)
  <2>2. [Tx(pre, o, sv, r, h, i, al, pe) EXCEPT !.alerts = x]
          = Tx(pre, o, sv, r, h, i, x, pe)
    <3> HIDE DEF x
    <3> QED BY DEF Tx, Txn
  <2> QED BY <2>1, <2>2, Zenon DEF Blocks!Publish
<1> QED BY <1>1, <1>2, <1>3, <1>4, <1>5

-----------------------------------------------------------------------------
(* The inductive invariant.                                                 *)

\* The alerts an open event and a recovery hold.
EventName(e) == IF e # None /\ e.sent THEN {<<"CONTINUOUS", e.id>>} ELSE {}

RecoveryName(r) == IF r # None THEN {<<r.kind, r.id>>} ELSE {}

\* What a store keeps between the transitions of a segment.  An alerted event
\* is as long as it is counted, and no recovery waits beside it.
Typed(o, sv, r, h, i) ==
    /\ o \in Events \cup {None} /\ sv \in SUBSET Ids
    /\ r \in Recoveries \cup {None}
    /\ h \in Histories /\ i \in IncidentsOf

\* The open event is saved, reaches the end of its segment, and is reported once
\* it is long enough.
OpenHeld(o, sv, r) ==
    o # None =>
       /\ o.id \in sv /\ o.off = SegmentLength /\ o.dur \in 1 .. AlertDuration
       /\ o.dur = AlertDuration => o.sent \/ r # None
       /\ o.sent => o.dur = AlertDuration /\ r = None

\* The alert that waits is saved and has not seen enough healthy segments.
RecoveryHeld(sv, r) ==
    r # None =>
       /\ r.id \in sv /\ r.healthy < RecoveryHealthy
       /\ check = "macroblocking" => r.kind = "CONTINUOUS"
       /\ check # "audio_loss"

\* An event that begins during a recovery is of its timeline.
Together(o, r) ==
    check \in {"black_screen", "video_freeze"} /\ o # None /\ r # None =>
       SameTimeline(o, r)

\* The incidents are those of a repeated recovery.
IncidentsHeld(r, i) ==
    \A g \in Generations :
       /\ IF r # None /\ r.kind = "REPEATED" /\ r.gen = g
             THEN i[g] # None /\ i[g].id = r.id
             ELSE i[g] = None
       /\ i[g] # None => i[g].fresh < UpdateEvery

\* All of it, of fields and of a store.
Held(o, sv, r, h, i) ==
    /\ Typed(o, sv, r, h, i) /\ OpenHeld(o, sv, r) /\ RecoveryHeld(sv, r)
    /\ Together(o, r) /\ IncidentsHeld(r, i)

StoreHeld(st) ==
    /\ st \in Stores
    /\ Held(st.open, st.saved, st.recovery, st.history, st.incident)

\* The names a reader of the stream has, after the alerts of al.
Told(al) == Fold(Read, live, al)

\* What the store holds is what the reader knows; the freeze store may forget.
KnownHeld(names, o, r) ==
    /\ EventName(o) \cup RecoveryName(r) \subseteq names
    /\ check # "video_freeze" => names \subseteq EventName(o) \cup RecoveryName(r)

\* n contiguous healthy segments, up to segment la, are counted by the recovery
\* of store st, but for the first.
Health(n, la, st) ==
    /\ n \in 0 .. HealthyBound
    /\ n >= 1 => la # None /\ st.open = None
    /\ n >= 2 /\ st.recovery # None =>
          /\ st.recovery.healthy >= n - 2
          /\ st.recovery.last = la.seq
          /\ SameTimeline(st.recovery, la)
    /\ check = "black_screen" /\ st.recovery # None
          /\ st.recovery.healthy >= 1 =>
          /\ st.open = None
          /\ la # None /\ SameTimeline(st.recovery, la)
          /\ st.recovery.last = la.seq
          /\ n >= st.recovery.healthy

\* The inductive invariant.
AlertInv ==
    /\ check \in Checks
    /\ tip \in Segments /\ tip.at <= MaxSegments
    /\ lost \in Segments \cup {None} /\ last \in Segments \cup {None}
    /\ raised = FALSE
    /\ StoreHeld(store)
    /\ KnownHeld(live, store.open, store.recovery)
    /\ Health(healthy, last, store)

-----------------------------------------------------------------------------
(* Between two transitions of a segment.                                    *)

\* The alert that waits on another timeline can be resolved.
Resolvable(pre, r) ==
    /\ r.kind = "CONTINUOUS" => r.id \in pre.saved
    /\ r.kind = "REPEATED" =>
          pre.incident[r.gen] # None /\ pre.incident[r.gen].id = r.id

\* The transaction is as good as a store, and its alerts say so to the reader.
Settled(s, pre, o, sv, r, h, i, al) ==
    /\ pre \in Stores /\ al \in Seq(Alerts)
    /\ Held(o, sv, r, h, i)
    /\ KnownHeld(Told(al), o, r)
    /\ r # None /\ ~ SameTimeline(r, s) => Resolvable(pre, r)

\* One more alert.
LEMMA ToldMore ==
    ASSUME NEW al \in Seq(Alerts), NEW a \in Alerts
    PROVE  /\ Append(al, a) \in Seq(Alerts)
           /\ Told(Append(al, a)) = Read(Told(al), a)
<1> DEFINE N == Len(al)
           am == Append(al, a)
<1>1. N \in Nat /\ Len(am) = N + 1 /\ am[N + 1] = a
      /\ (\A n \in 1 .. N : am[n] = al[n]) /\ am \in Seq(Alerts)
  OBVIOUS
<1> HIDE DEF am, N
<1>2. PICK f : Reads(f, live, al)
  BY ReadLoop, <1>1 DEF N
<1>3. PICK g : Reads(g, live, am)
  <2>1. Len(am) \in Nat
    BY <1>1
  <2> QED BY ReadLoop, <2>1
<1> DEFINE S == {n \in Nat : n <= N => f[n] = g[n]}
<1>4. 0 \in S
  BY <1>2, <1>3 DEF Reads
<1>5. ASSUME NEW n \in Nat, n \in S PROVE n + 1 \in S
  <2> SUFFICES ASSUME n + 1 <= N PROVE f[n + 1] = g[n + 1]
    OBVIOUS
  <2>1. n + 1 \in 1 .. Len(al) /\ n + 1 \in 1 .. Len(am) /\ (n + 1) - 1 = n
        /\ am[n + 1] = al[n + 1]
    BY <1>1 DEF N
  <2>2. f[n] = g[n]
    BY <1>1, <1>5
  <2>3. f[n + 1] = Read(f[n], al[n + 1])
    BY <1>2, <2>1 DEF Reads
  <2>4. g[n + 1] = Read(g[n], am[n + 1])
    BY <1>3, <2>1 DEF Reads
  <2> QED BY <2>1, <2>2, <2>3, <2>4
<1> HIDE DEF S
<1>6. N \in S
  BY <1>1, <1>4, <1>5, Induct
<1>7. f[N] = g[N]
  BY <1>1, <1>6 DEF S
<1>8. g[N + 1] = Read(g[N], a)
  <2>1. N + 1 \in 1 .. Len(am) /\ (N + 1) - 1 = N
    BY <1>1
  <2> QED BY <1>1, <1>3, <2>1 DEF Reads
<1>9. Told(am) = Read(Told(al), a)
  BY <1>1, <1>2, <1>3, <1>7, <1>8 DEF Told, N, Reads
<1> QED BY <1>1, <1>9 DEF am

\* No alert yet.
LEMMA ToldNothing == <<>> \in Seq(Alerts) /\ Told(<<>>) = live
<1>1. Len(<<>>) = 0
  OBVIOUS
<1> DEFINE q == <<>>
<1> HIDE DEF q
<1>2. Len(q) \in Nat /\ Len(q) = 0
  BY <1>1 DEF q
<1>3. PICK f : Reads(f, live, q)
  BY ReadLoop, <1>2
<1>4. Told(q) = live
  BY <1>2, <1>3 DEF Told, Reads
<1> QED BY <1>4 DEF q

\* A recovery goes on, perhaps on the timeline of the segment.
LEMMA SettledObserved ==
    ASSUME NEW s, NEW pre, NEW o, NEW sv, NEW r, NEW h, NEW i, NEW al,
           Settled(s, pre, o, sv, r, h, i, al), r # None,
           NEW x \in Recoveries, x.id = r.id, x.kind = r.kind,
           x.healthy < RecoveryHealthy, x.kind = "REPEATED" => x.gen = r.gen,
           SameTimeline(x, s) \/ SameTimeline(x, r), Together(o, x)
    PROVE  Settled(s, pre, o, sv, x, h, i, al)
<1> USE NoneAssumption
<1>1. Held(o, sv, r, h, i) /\ KnownHeld(Told(al), o, r) /\ x # None
  BY DEF Settled
<1>2. Typed(o, sv, x, h, i)
  BY <1>1 DEF Held, Typed
<1>3. OpenHeld(o, sv, x)
  BY <1>1 DEF Held, OpenHeld
<1>4. RecoveryHeld(sv, x)
  BY <1>1 DEF Held, RecoveryHeld
<1>5. IncidentsHeld(x, i)
  <2>1. IncidentsHeld(r, i)
    BY <1>1 DEF Held
  <2> QED BY <1>1, <2>1 DEF IncidentsHeld
<1>6. RecoveryName(x) = RecoveryName(r)
  BY <1>1 DEF RecoveryName
<1>7. KnownHeld(Told(al), o, x)
  BY <1>1, <1>6, Zenon DEF KnownHeld
<1>8. ~ SameTimeline(x, s) => Resolvable(pre, x)
  <2> SUFFICES ASSUME ~ SameTimeline(x, s) PROVE Resolvable(pre, x)
    OBVIOUS
  <2>1. ~ SameTimeline(r, s)
    BY DEF SameTimeline
  <2>2. Resolvable(pre, r)
    BY <2>1 DEF Settled
  <2> QED BY <2>2 DEF Resolvable
<1> QED BY <1>2, <1>3, <1>4, <1>5, <1>7, <1>8 DEF Settled, Held

\* The event a transition is about is the open one, continued, or a new one.
Heir(e, o) ==
    /\ e \in Events /\ e.dur \in 1 .. AlertDuration
    /\ IF o # None THEN e.id = o.id /\ e.sent = o.sent /\ o.dur <= e.dur
                   ELSE ~ e.sent

OpenAlertOf(e, why) == Alert("OPEN", "CONTINUOUS", e.id, why)

\* Its alert is the open event's.
LEMMA HeirName ==
    ASSUME NEW o, NEW e, NEW sv, NEW r, Heir(e, o), OpenHeld(o, sv, r)
    PROVE  /\ EventName(e) = EventName(o) /\ e # None /\ e.id \in Ids
           /\ e.sent => e.dur = AlertDuration /\ r = None
           /\ e.sent \in BOOLEAN
<1> USE NoneAssumption, LengthAssumption
<1>1. e # None /\ e \in Events
  BY DEF Heir
<1>2. e.id \in Ids /\ e.sent \in BOOLEAN
  BY <1>1 DEF Events
<1>3. CASE o # None
  BY <1>1, <1>2, <1>3 DEF Heir, EventName, OpenHeld
<1>4. CASE o = None
  BY <1>1, <1>2, <1>4 DEF Heir, EventName
<1> QED BY <1>3, <1>4

\* A name more.
LEMMA ToldOpened ==
    ASSUME NEW al \in Seq(Alerts), NEW id \in Ids,
           NEW kind \in {"CONTINUOUS", "REPEATED"}, NEW why \in Whys
    PROVE  /\ Append(al, Alert("OPEN", kind, id, why)) \in Seq(Alerts)
           /\ Told(Append(al, Alert("OPEN", kind, id, why)))
                = Told(al) \cup {<<kind, id>>}
           /\ Append(al, Alert("RESOLVED", kind, id, why)) \in Seq(Alerts)
           /\ Told(Append(al, Alert("RESOLVED", kind, id, why)))
                = Told(al) \ {<<kind, id>>}
           /\ Append(al, Alert("UPDATE", kind, id, why)) \in Seq(Alerts)
           /\ Told(Append(al, Alert("UPDATE", kind, id, why))) = Told(al)
<1> DEFINE a == Alert("OPEN", kind, id, why)
           b == Alert("RESOLVED", kind, id, why)
           c == Alert("UPDATE", kind, id, why)
<1>1. a \in Alerts /\ a.state = "OPEN" /\ AlertName(a) = <<kind, id>>
  BY DEF Alert, Alerts, AlertName
<1>2. b \in Alerts /\ b.state = "RESOLVED" /\ AlertName(b) = <<kind, id>>
  BY DEF Alert, Alerts, AlertName
<1>3. c \in Alerts /\ c.state = "UPDATE"
  BY DEF Alert, Alerts
<1> HIDE DEF a, b, c
<1>4. Append(al, a) \in Seq(Alerts)
      /\ Told(Append(al, a)) = Told(al) \cup {<<kind, id>>}
  BY <1>1, ToldMore DEF Read
<1>5. Append(al, b) \in Seq(Alerts)
      /\ Told(Append(al, b)) = Told(al) \ {<<kind, id>>}
  BY <1>2, ToldMore DEF Read
<1>6. Append(al, c) \in Seq(Alerts) /\ Told(Append(al, c)) = Told(al)
  BY <1>3, ToldMore DEF Read
<1> QED BY <1>4, <1>5, <1>6 DEF a, b, c

\* The event goes on; e1 is the event as it is saved.
LEMMA SettledOpened ==
    ASSUME NEW s, NEW pre, NEW o, NEW sv, NEW r, NEW h, NEW i, NEW al,
           Settled(s, pre, o, sv, r, h, i, al),
           NEW e, Heir(e, o), e.off = SegmentLength, Together(e, r),
           NEW due, due = (r = None /\ ~ e.sent /\ e.dur >= AlertDuration),
           NEW e1 \in Events, e1.id = e.id, e1.off = e.off, e1.dur = e.dur,
           SameTimeline(e1, e), e1.sent = (e.sent \/ due),
           NEW why \in Whys
    PROVE  Settled(s, pre, e1, sv \cup {e.id}, r, h, i,
                   IF due THEN Append(al, OpenAlertOf(e, why)) ELSE al)
<1> DEFINE al1 == IF due THEN Append(al, OpenAlertOf(e, why)) ELSE al
           sv1 == sv \cup {e.id}
<1> USE NoneAssumption, LengthAssumption
<1>1. /\ Held(o, sv, r, h, i) /\ KnownHeld(Told(al), o, r) /\ al \in Seq(Alerts)
      /\ pre \in Stores
      /\ r # None /\ ~ SameTimeline(r, s) => Resolvable(pre, r)
  BY DEF Settled
<1>2. /\ EventName(e) = EventName(o) /\ e # None /\ e.id \in Ids
      /\ e.sent => e.dur = AlertDuration /\ r = None
      /\ e.sent \in BOOLEAN
  BY <1>1, HeirName DEF Held
<1>3. due \in BOOLEAN /\ e1 # None /\ e.dur \in 1 .. AlertDuration
      /\ sv \in SUBSET Ids
  BY <1>1 DEF Heir, Held, Typed
<1>4. Typed(e1, sv1, r, h, i)
  BY <1>1, <1>2, <1>3 DEF Held, Typed
<1>5. OpenHeld(e1, sv1, r)
  <2>1. e1.id \in sv1 /\ e1.off = SegmentLength /\ e1.dur \in 1 .. AlertDuration
    BY <1>3
  <2>2. e.dur = AlertDuration <=> e.dur >= AlertDuration
    BY <1>3
  <2>3. e1.dur = AlertDuration => e1.sent \/ r # None
    BY <2>2
  <2>4. e1.sent => e1.dur = AlertDuration /\ r = None
    BY <1>2, <2>2
  <2> HIDE DEF sv1
  <2> QED BY <2>1, <2>3, <2>4, Zenon DEF OpenHeld
<1>6. RecoveryHeld(sv1, r) /\ IncidentsHeld(r, i) /\ Together(e1, r)
  BY <1>1, <1>2 DEF Held, RecoveryHeld, Together, SameTimeline
<1>7. al1 \in Seq(Alerts) /\ KnownHeld(Told(al1), e1, r)
  <2>1. CASE due
    <3>1. al1 \in Seq(Alerts)
          /\ Told(al1) = Told(al) \cup {<<"CONTINUOUS", e.id>>}
      BY <2>1, <1>1, <1>2, ToldOpened DEF OpenAlertOf
    <3>2. EventName(e) = {} /\ EventName(e1) = {<<"CONTINUOUS", e.id>>}
      BY <2>1, <1>2, <1>3 DEF EventName
    <3> HIDE DEF al1
    <3> QED BY <1>1, <1>2, <3>1, <3>2 DEF KnownHeld
  <2>2. CASE ~ due
    <3>1. al1 = al
      BY <2>2
    <3>2. EventName(e1) = EventName(e)
      BY <2>2, <1>2, <1>3 DEF EventName
    <3> HIDE DEF al1
    <3> QED BY <1>1, <1>2, <3>1, <3>2, Zenon DEF KnownHeld
  <2> QED BY <1>3, <2>1, <2>2
<1> HIDE DEF al1, sv1
<1>8. Settled(s, pre, e1, sv1, r, h, i, al1)
  BY <1>1, <1>4, <1>5, <1>6, <1>7 DEF Settled, Held
<1> QED BY <1>8 DEF al1, sv1

\* The event closes; x is the recovery that waits for its alert.
LEMMA SettledClosed ==
    ASSUME NEW s, NEW pre, NEW o, NEW sv, NEW r, NEW h, NEW i, NEW al,
           Settled(s, pre, o, sv, r, h, i, al), check # "audio_loss",
           NEW e, Heir(e, o),
           NEW due \in BOOLEAN, due => r = None /\ ~ e.sent,
           NEW x \in Recoveries, x.id = e.id, x.kind = "CONTINUOUS",
           x.healthy = 0, SameTimeline(x, s) \/ x.id \in pre.saved,
           NEW why \in Whys
    PROVE  Settled(s, pre, None, sv \cup {e.id},
                   IF e.sent \/ due THEN x ELSE r, h, i,
                   IF due THEN Append(al, OpenAlertOf(e, why)) ELSE al)
<1> DEFINE al1 == IF due THEN Append(al, OpenAlertOf(e, why)) ELSE al
           sv1 == sv \cup {e.id}
           r1 == IF e.sent \/ due THEN x ELSE r
<1> USE NoneAssumption, LengthAssumption, PolicyAssumption
<1>1. /\ Held(o, sv, r, h, i) /\ KnownHeld(Told(al), o, r) /\ al \in Seq(Alerts)
      /\ pre \in Stores
      /\ r # None /\ ~ SameTimeline(r, s) => Resolvable(pre, r)
  BY DEF Settled
<1>2. /\ EventName(e) = EventName(o) /\ e # None /\ e.id \in Ids
      /\ e.sent => e.dur = AlertDuration /\ r = None
      /\ e.sent \in BOOLEAN
  BY <1>1, HeirName DEF Held
<1>3. x # None /\ x.id \in Ids /\ x.healthy < RecoveryHealthy
  BY DEF Recoveries
<1>4. Typed(None, sv1, r1, h, i)
  BY <1>1, <1>2 DEF Held, Typed
<1>5. OpenHeld(None, sv1, r1) /\ Together(None, r1)
  BY DEF OpenHeld, Together
<1>6. RecoveryHeld(sv1, r1)
  BY <1>1, <1>3 DEF Held, RecoveryHeld
<1>7. IncidentsHeld(r1, i)
  <2>1. IncidentsHeld(r, i)
    BY <1>1 DEF Held
  <2>2. r1 = r \/ (r1 = x /\ r = None)
    BY <1>2
  <2> HIDE DEF r1
  <2> QED BY <2>1, <2>2 DEF IncidentsHeld
<1>8. r1 # None /\ ~ SameTimeline(r1, s) => Resolvable(pre, r1)
  BY <1>1 DEF Resolvable
<1>9. al1 \in Seq(Alerts) /\ KnownHeld(Told(al1), None, r1)
  <2>1. EventName(None) = {}
    BY DEF EventName
  <2>2. CASE due
    <3>1. al1 \in Seq(Alerts)
          /\ Told(al1) = Told(al) \cup {<<"CONTINUOUS", e.id>>}
      BY <2>2, <1>1, <1>2, ToldOpened DEF OpenAlertOf
    <3>2. EventName(e) = {} /\ RecoveryName(r1) = {<<"CONTINUOUS", e.id>>}
          /\ RecoveryName(r) = {}
      BY <2>2, <1>2, <1>3 DEF EventName, RecoveryName
    <3> HIDE DEF al1, r1
    <3> QED BY <1>1, <1>2, <2>1, <3>1, <3>2 DEF KnownHeld
  <2>3. CASE e.sent /\ ~ due
    <3>1. al1 = al
      BY <2>3
    <3>2. RecoveryName(r) = {} /\ RecoveryName(r1) = EventName(e)
      BY <2>3, <1>2, <1>3 DEF EventName, RecoveryName
    <3> HIDE DEF al1, r1
    <3> QED BY <1>1, <1>2, <2>1, <3>1, <3>2 DEF KnownHeld
  <2>4. CASE ~ e.sent /\ ~ due
    <3>1. al1 = al /\ r1 = r
      BY <2>4
    <3>2. EventName(e) = {}
      BY <2>4, <1>2 DEF EventName
    <3> HIDE DEF al1, r1
    <3> QED BY <1>1, <1>2, <2>1, <3>1, <3>2 DEF KnownHeld
  <2> QED BY <1>2, <2>2, <2>3, <2>4
<1> HIDE DEF al1, sv1, r1
<1>10. Settled(s, pre, None, sv1, r1, h, i, al1)
  BY <1>1, <1>4, <1>5, <1>6, <1>7, <1>8, <1>9 DEF Settled, Held
<1> QED BY <1>10 DEF al1, sv1, r1

\* The alert that waits is resolved, and its incident forgotten.
LEMMA SettledResolved ==
    ASSUME NEW s, NEW pre, NEW sv, NEW r, NEW h, NEW i, NEW al,
           Settled(s, pre, None, sv, r, h, i, al), r # None, NEW why \in Whys
    PROVE  LET al1 == Append(al, Alert("RESOLVED", r.kind, r.id, why))
           IN  /\ r.kind = "CONTINUOUS" => Settled(s, pre, None, sv, None, h, i, al1)
               /\ r.kind = "REPEATED" =>
                     Settled(s, pre, None, sv, None, [h EXCEPT ![r.gen] = {}],
                             [i EXCEPT ![r.gen] = None], al1)
<1> DEFINE al1 == Append(al, Alert("RESOLVED", r.kind, r.id, why))
<1> USE NoneAssumption
<1>1. /\ Held(None, sv, r, h, i) /\ KnownHeld(Told(al), None, r)
      /\ al \in Seq(Alerts) /\ pre \in Stores
  BY DEF Settled
<1>2. r \in Recoveries /\ h \in Histories /\ i \in IncidentsOf
      /\ sv \in SUBSET Ids
  BY <1>1 DEF Held, Typed
<1>3. r.id \in Ids /\ r.kind \in {"CONTINUOUS", "REPEATED"} /\ r.gen \in Generations
  BY <1>2 DEF Recoveries
<1>4. al1 \in Seq(Alerts) /\ Told(al1) = Told(al) \ {<<r.kind, r.id>>}
  BY <1>1, <1>3, ToldOpened
<1>5. KnownHeld(Told(al1), None, None)
  <2>1. EventName(None) = {} /\ RecoveryName(None) = {}
        /\ RecoveryName(r) = {<<r.kind, r.id>>}
    BY DEF EventName, RecoveryName
  <2> HIDE DEF al1
  <2> QED BY <1>1, <1>4, <2>1 DEF KnownHeld
<1>6. OpenHeld(None, sv, None) /\ RecoveryHeld(sv, None) /\ Together(None, None)
  BY DEF OpenHeld, RecoveryHeld, Together
<1>7. IncidentsHeld(r, i)
  BY <1>1 DEF Held
<1> HIDE DEF al1
<1>8. ASSUME r.kind = "CONTINUOUS"
      PROVE  Settled(s, pre, None, sv, None, h, i, al1)
  <2>1. IncidentsHeld(None, i)
    BY <1>7, <1>8 DEF IncidentsHeld
  <2>2. Typed(None, sv, None, h, i)
    BY <1>2 DEF Typed
  <2> QED BY <1>1, <1>4, <1>5, <1>6, <2>1, <2>2 DEF Settled, Held
<1>9. ASSUME r.kind = "REPEATED"
      PROVE  Settled(s, pre, None, sv, None, [h EXCEPT ![r.gen] = {}],
                     [i EXCEPT ![r.gen] = None], al1)
  <2> DEFINE h1 == [h EXCEPT ![r.gen] = {}]
             i1 == [i EXCEPT ![r.gen] = None]
  <2>1. h1 \in Histories /\ i1 \in IncidentsOf
    BY <1>2, <1>3 DEF Histories, IncidentsOf
  <2>2. i1[r.gen] = None /\ \A g \in Generations : g # r.gen => i1[g] = i[g]
    BY <1>2, <1>3 DEF IncidentsOf
  <2>3. Typed(None, sv, None, h1, i1)
    <3> HIDE DEF h1, i1
    <3> QED BY <1>2, <2>1 DEF Typed
  <2> HIDE DEF h1, i1
  <2>4. \A g \in Generations : i1[g] = None
    BY <1>7, <2>2 DEF IncidentsHeld
  <2>5. IncidentsHeld(None, i1)
    BY <2>4 DEF IncidentsHeld
  <2>6. Settled(s, pre, None, sv, None, h1, i1, al1)
    BY <1>1, <1>4, <1>5, <1>6, <2>3, <2>5 DEF Settled, Held
  <2> QED BY <2>6 DEF h1, i1
<1> QED BY <1>8, <1>9 DEF al1

\* What recording a short event makes of the repeated state of its timeline.
Recorded(reduction, state, e) ==
    /\ reduction.history \in SUBSET [id : Ids, at : Nat]
    /\ \/ /\ reduction.alert = "OPEN"
          /\ state.incident = None
          /\ reduction.incident = [id |-> e.id, fresh |-> 0]
       \/ /\ reduction.alert \in {"NONE", "UPDATE"}
          /\ reduction.alert = "UPDATE" => state.incident # None
          /\ IF state.incident = None THEN reduction.incident = None
             ELSE /\ reduction.incident \in Incidents
                  /\ reduction.incident.id = state.incident.id
                  /\ reduction.incident.fresh < UpdateEvery

\* One occurrence more, for an incident.
LEMMA IncidentCounts ==
    ASSUME NEW incident \in Incidents, incident.fresh < UpdateEvery
    PROVE  LET fresh == incident.fresh + 1
               x == [incident EXCEPT !.fresh = IF fresh >= UpdateEvery THEN 0
                                               ELSE fresh]
           IN  x \in Incidents /\ x.id = incident.id /\ x.fresh < UpdateEvery
<1> DEFINE n == IF incident.fresh + 1 >= UpdateEvery THEN 0 ELSE incident.fresh + 1
<1>1. n \in Nat /\ n < UpdateEvery
  BY PolicyAssumption DEF Incidents
<1>2. PICK id \in Ids, fresh \in Nat : incident = [id |-> id, fresh |-> fresh]
  BY DEF Incidents
<1> HIDE DEF n
<1>3. [incident EXCEPT !.fresh = n] \in Incidents
      /\ [incident EXCEPT !.fresh = n].id = incident.id
      /\ [incident EXCEPT !.fresh = n].fresh = n
  BY <1>1 DEF Incidents
<1> QED BY <1>1, <1>3 DEF n

\* What the black-screen store records.
LEMMA BlackRecords ==
    ASSUME NEW state, NEW e \in Events,
           state.history \in SUBSET [id : Ids, at : Nat],
           state.incident \in Incidents \cup {None},
           state.incident # None => state.incident.fresh < UpdateEvery
    PROVE  Recorded(Black!RecordShortEvent(state, e), state, e)
<1> DEFINE recent == {x \in state.history : x.at + RepeatedWindow > e.at}
           isNew == \A x \in recent : x.id # e.id
           history == {x \in recent : x.id # e.id} \cup {[id |-> e.id, at |-> e.at]}
           fresh == state.incident.fresh + 1
           update == fresh >= UpdateEvery
           incident == [state.incident EXCEPT !.fresh = IF update THEN 0 ELSE fresh]
           R(i, alert) == [history |-> history, incident |-> i, alert |-> alert]
           made == Black!RecordShortEvent(state, e)
<1> USE NoneAssumption
<1>1. history \in SUBSET [id : Ids, at : Nat]
  BY DEF Events
<1>2. state.incident # None =>
         incident \in Incidents /\ incident.id = state.incident.id
         /\ incident.fresh < UpdateEvery
  BY IncidentCounts
<1>3. \/ state.incident # None /\ made = R(state.incident, "NONE")
      \/ state.incident # None /\ made = R(incident, IF update THEN "UPDATE" ELSE "NONE")
      \/ state.incident = None /\ made = R([id |-> e.id, fresh |-> 0], "OPEN")
      \/ state.incident = None /\ made = R(None, "NONE")
  <2> HIDE DEF history, incident, update
  <2> QED BY DEF Black!RecordShortEvent, history, incident, update
<1> SUFFICES Recorded(made, state, e)
  OBVIOUS
<1> HIDE DEF history, incident, update, made
<1>4. CASE state.incident # None /\ made = R(state.incident, "NONE")
  <2>1. made.history = history /\ made.incident = state.incident
        /\ made.alert = "NONE"
    BY <1>4
  <2>2. state.incident # None
    BY <1>4
  <2> QED BY <1>1, <2>1, <2>2 DEF Recorded
<1>5. CASE state.incident # None
           /\ made = R(incident, IF update THEN "UPDATE" ELSE "NONE")
  <2>1. made.history = history /\ made.incident = incident
        /\ made.alert \in {"NONE", "UPDATE"}
    BY <1>5
  <2>2. state.incident # None
    BY <1>5
  <2> QED BY <1>1, <1>2, <2>1, <2>2 DEF Recorded
<1>6. CASE state.incident = None /\ made = R([id |-> e.id, fresh |-> 0], "OPEN")
  <2>1. made.history = history /\ made.incident = [id |-> e.id, fresh |-> 0]
        /\ made.alert = "OPEN"
    BY <1>6
  <2>2. state.incident = None
    BY <1>6
  <2> QED BY <1>1, <2>1, <2>2 DEF Recorded
<1>7. CASE state.incident = None /\ made = R(None, "NONE")
  <2>1. made.history = history /\ made.incident = None /\ made.alert = "NONE"
    BY <1>7
  <2>2. state.incident = None
    BY <1>7
  <2> QED BY <1>1, <2>1, <2>2 DEF Recorded
<1> QED BY <1>3, <1>4, <1>5, <1>6, <1>7

\* What the freeze store records.
LEMMA FreezeRecords ==
    ASSUME NEW state, NEW e \in Events,
           state.history \in SUBSET [id : Ids, at : Nat],
           state.incident \in Incidents \cup {None},
           state.incident # None => state.incident.fresh < UpdateEvery
    PROVE  Recorded(Freeze!RecordShortEvent(state, e), state, e)
<1> DEFINE recent == {x \in state.history : x.at + RepeatedWindow > e.at}
           isNew == \A x \in recent : x.id # e.id
           history == {x \in recent : x.id # e.id} \cup {[id |-> e.id, at |-> e.at]}
           fresh == state.incident.fresh + 1
           update == fresh >= UpdateEvery
           incident == [state.incident EXCEPT !.fresh = IF update THEN 0 ELSE fresh]
           R(i, alert) == [history |-> history, incident |-> i, alert |-> alert]
           made == Freeze!RecordShortEvent(state, e)
<1> USE NoneAssumption
<1>1. history \in SUBSET [id : Ids, at : Nat]
  BY DEF Events
<1>2. state.incident # None =>
         incident \in Incidents /\ incident.id = state.incident.id
         /\ incident.fresh < UpdateEvery
  BY IncidentCounts
<1>3. \/ state.incident # None /\ made = R(state.incident, "NONE")
      \/ state.incident # None /\ made = R(incident, IF update THEN "UPDATE" ELSE "NONE")
      \/ state.incident = None /\ made = R([id |-> e.id, fresh |-> 0], "OPEN")
      \/ state.incident = None /\ made = R(None, "NONE")
  <2> HIDE DEF history, incident, update
  <2> QED BY DEF Freeze!RecordShortEvent, history, incident, update
<1> SUFFICES Recorded(made, state, e)
  OBVIOUS
<1> HIDE DEF history, incident, update, made
<1>4. CASE state.incident # None /\ made = R(state.incident, "NONE")
  <2>1. made.history = history /\ made.incident = state.incident
        /\ made.alert = "NONE"
    BY <1>4
  <2>2. state.incident # None
    BY <1>4
  <2> QED BY <1>1, <2>1, <2>2 DEF Recorded
<1>5. CASE state.incident # None
           /\ made = R(incident, IF update THEN "UPDATE" ELSE "NONE")
  <2>1. made.history = history /\ made.incident = incident
        /\ made.alert \in {"NONE", "UPDATE"}
    BY <1>5
  <2>2. state.incident # None
    BY <1>5
  <2> QED BY <1>1, <1>2, <2>1, <2>2 DEF Recorded
<1>6. CASE state.incident = None /\ made = R([id |-> e.id, fresh |-> 0], "OPEN")
  <2>1. made.history = history /\ made.incident = [id |-> e.id, fresh |-> 0]
        /\ made.alert = "OPEN"
    BY <1>6
  <2>2. state.incident = None
    BY <1>6
  <2> QED BY <1>1, <2>1, <2>2 DEF Recorded
<1>7. CASE state.incident = None /\ made = R(None, "NONE")
  <2>1. made.history = history /\ made.incident = None /\ made.alert = "NONE"
    BY <1>7
  <2>2. state.incident = None
    BY <1>7
  <2> QED BY <1>1, <2>1, <2>2 DEF Recorded
<1> QED BY <1>3, <1>4, <1>5, <1>6, <1>7

\* The alerts after a reduction of the repeated state.
AlertsAfter(al, reduction, why) ==
    IF reduction.alert # "NONE"
       THEN Append(al, Alert(reduction.alert, "REPEATED", reduction.incident.id, why))
       ELSE al

\* A short event is recorded; x is the recovery of the alert it may open.
LEMMA SettledRecorded ==
    ASSUME NEW s, NEW pre, NEW sv, NEW r, NEW h, NEW i, NEW al,
           Settled(s, pre, None, sv, r, h, i, al),
           check \in {"black_screen", "video_freeze"},
           NEW e \in Events, SameTimeline(e, s), e.id \in sv,
           h = pre.history, i = pre.incident,
           r # None /\ r.kind = "REPEATED" => r.gen = e.gen,
           NEW reduction, NEW state, state.incident = pre.incident[e.gen],
           Recorded(reduction, state, e),
           NEW x \in Recoveries, x.id = e.id, x.kind = "REPEATED",
           x.healthy = 0, SameTimeline(x, e),
           NEW why \in Whys
    PROVE  LET h1 == [h EXCEPT ![e.gen] = reduction.history]
               i1 == [i EXCEPT ![e.gen] = reduction.incident]
               al1 == AlertsAfter(al, reduction, why)
           IN  /\ reduction.alert # "OPEN" =>
                     Settled(s, pre, None, sv, r, h1, i1, al1)
               /\ reduction.alert = "OPEN"
                     /\ (check = "video_freeze" \/ r = None) =>
                     Settled(s, pre, None, sv, x, h1, i1, al1)
               /\ reduction.alert = "OPEN" =>
                     /\ r = None \/ r.kind = "CONTINUOUS"
                     /\ reduction.incident.id = e.id
               /\ reduction.alert # "OPEN" /\ r # None /\ r.kind = "REPEATED" =>
                     reduction.incident # None /\ reduction.incident.id = r.id
               /\ reduction.incident \in Incidents \cup {None}
<1> DEFINE h1 == [h EXCEPT ![e.gen] = reduction.history]
           i1 == [i EXCEPT ![e.gen] = reduction.incident]
           al1 == AlertsAfter(al, reduction, why)
           inc == reduction.incident
<1> USE NoneAssumption, PolicyAssumption
<1>1. /\ Held(None, sv, r, h, i) /\ KnownHeld(Told(al), None, r)
      /\ al \in Seq(Alerts) /\ pre \in Stores
      /\ r # None /\ ~ SameTimeline(r, s) => Resolvable(pre, r)
  BY DEF Settled
<1>2. /\ r \in Recoveries \cup {None} /\ h \in Histories /\ i \in IncidentsOf
      /\ sv \in SUBSET Ids /\ e.gen \in Generations /\ e.id \in Ids
      /\ IncidentsHeld(r, i) /\ RecoveryHeld(sv, r)
  BY <1>1 DEF Held, Typed, Events
<1>3. /\ i[e.gen] \in Incidents \cup {None} /\ state.incident = i[e.gen]
      /\ r # None /\ r.kind = "REPEATED" =>
            i[e.gen] # None /\ i[e.gen].id = r.id
      /\ ~ (r # None /\ r.kind = "REPEATED") => i[e.gen] = None
  BY <1>2 DEF IncidentsHeld, IncidentsOf
<1>4. \/ /\ reduction.alert = "OPEN" /\ i[e.gen] = None
         /\ inc = [id |-> e.id, fresh |-> 0]
      \/ /\ reduction.alert \in {"NONE", "UPDATE"}
         /\ reduction.alert = "UPDATE" => i[e.gen] # None
         /\ IF i[e.gen] = None THEN inc = None
            ELSE /\ inc \in Incidents /\ inc.id = i[e.gen].id
                 /\ inc.fresh < UpdateEvery
  BY <1>3 DEF Recorded
<1>5. inc \in Incidents \cup {None} /\ (inc # None => inc.fresh < UpdateEvery)
  <2>1. CASE inc = [id |-> e.id, fresh |-> 0]
    BY <1>2, <2>1 DEF Incidents
  <2>2. CASE inc # [id |-> e.id, fresh |-> 0]
    BY <1>4, <2>2
  <2> QED BY <2>1, <2>2
<1>6. h1 \in Histories /\ i1 \in IncidentsOf
  <2>1. reduction.history \in SUBSET [id : Ids, at : Nat]
    BY DEF Recorded
  <2> QED BY <1>2, <1>5, <2>1 DEF Histories, IncidentsOf
<1>7. i1[e.gen] = inc /\ \A g \in Generations : g # e.gen => i1[g] = i[g]
  BY <1>2 DEF IncidentsOf
<1>8. OpenHeld(None, sv, r) /\ Together(None, r) /\ OpenHeld(None, sv, x)
      /\ Together(None, x)
  BY DEF OpenHeld, Together
<1>9. x # None /\ x.gen = e.gen
  BY DEF SameTimeline
<1> HIDE DEF h1, i1, inc
<1>10. ASSUME reduction.alert # "OPEN"
       PROVE  Settled(s, pre, None, sv, r, h1, i1, al1)
  <2>1. IncidentsHeld(r, i1)
    <3>1. ASSUME NEW g \in Generations
          PROVE  /\ IF r # None /\ r.kind = "REPEATED" /\ r.gen = g
                       THEN i1[g] # None /\ i1[g].id = r.id
                       ELSE i1[g] = None
                 /\ i1[g] # None => i1[g].fresh < UpdateEvery
      <4>1. CASE g # e.gen
        BY <4>1, <1>2, <1>7 DEF IncidentsHeld
      <4>2. CASE g = e.gen
        <5>1. i1[g] = inc
          BY <4>2, <1>7
        <5>2. CASE r # None /\ r.kind = "REPEATED"
          BY <5>1, <5>2, <4>2, <1>3, <1>4, <1>5, <1>10
        <5>3. CASE ~ (r # None /\ r.kind = "REPEATED")
          BY <5>1, <5>3, <1>3, <1>4, <1>5, <1>10
        <5> QED BY <5>2, <5>3
      <4> QED BY <4>1, <4>2
    <3> QED BY <3>1, Zenon DEF IncidentsHeld
  <2>2. al1 \in Seq(Alerts) /\ Told(al1) = Told(al)
    <3>1. CASE reduction.alert = "NONE"
      BY <1>1, <3>1 DEF AlertsAfter
    <3>2. CASE reduction.alert # "NONE"
      <4>1. reduction.alert = "UPDATE" /\ inc.id \in Ids
        BY <3>2, <1>4, <1>10 DEF Incidents
      <4>2. al1 = Append(al, Alert("UPDATE", "REPEATED", inc.id, why))
        BY <4>1 DEF AlertsAfter, inc
      <4> HIDE DEF al1
      <4> QED BY <1>1, <4>1, <4>2, ToldOpened
    <3> QED BY <3>1, <3>2
  <2>3. Typed(None, sv, r, h1, i1)
    BY <1>2, <1>6 DEF Typed
  <2> HIDE DEF al1
  <2> QED BY <1>1, <1>2, <1>8, <2>1, <2>2, <2>3 DEF Settled, Held
<1>11. ASSUME reduction.alert = "OPEN", check = "video_freeze" \/ r = None
       PROVE  Settled(s, pre, None, sv, x, h1, i1, al1)
  <2>1. inc # None /\ inc.id = e.id /\ i[e.gen] = None
    <3>1. inc = [id |-> e.id, fresh |-> 0] /\ i[e.gen] = None
      BY <1>4, <1>11
    <3>2. inc \in Incidents
      BY <1>2, <3>1 DEF Incidents
    <3>3. inc.id = e.id
      BY <3>1
    <3>4. inc # None
      BY <3>2
    <3> QED BY <3>1, <3>3, <3>4
  <2>2. IncidentsHeld(x, i1)
    <3>1. ASSUME NEW g \in Generations
          PROVE  /\ IF x # None /\ x.kind = "REPEATED" /\ x.gen = g
                       THEN i1[g] # None /\ i1[g].id = x.id
                       ELSE i1[g] = None
                 /\ i1[g] # None => i1[g].fresh < UpdateEvery
      <4>1. CASE g # e.gen
        <5>1. i1[g] = i[g] /\ ~ (r # None /\ r.kind = "REPEATED")
          BY <4>1, <1>3, <1>7, <2>1
        <5>2. i[g] = None
          BY <5>1, <1>2 DEF IncidentsHeld
        <5> QED BY <4>1, <5>1, <5>2, <1>9
      <4>2. CASE g = e.gen
        BY <4>2, <1>5, <1>7, <1>9, <2>1
      <4> QED BY <4>1, <4>2
    <3> QED BY <3>1, Zenon DEF IncidentsHeld
  <2>3. al1 \in Seq(Alerts) /\ Told(al1) = Told(al) \cup {<<"REPEATED", e.id>>}
    <3>1. al1 = Append(al, Alert("OPEN", "REPEATED", e.id, why))
      BY <1>11, <2>1 DEF AlertsAfter, inc
    <3> HIDE DEF al1
    <3> QED BY <1>1, <1>2, <3>1, ToldOpened
  <2>4. RecoveryName(x) = {<<"REPEATED", e.id>>} /\ EventName(None) = {}
    BY <1>9 DEF RecoveryName, EventName
  <2>5. check # "video_freeze" => RecoveryName(r) = {}
    BY <1>11 DEF RecoveryName
  <2> HIDE DEF al1
  <2>6. KnownHeld(Told(al1), None, x)
    BY <1>1, <2>3, <2>4, <2>5 DEF KnownHeld
  <2>7. Typed(None, sv, x, h1, i1)
    BY <1>2, <1>6 DEF Typed
  <2>8. RecoveryHeld(sv, x)
    BY DEF RecoveryHeld
  <2>9. SameTimeline(x, s)
    BY DEF SameTimeline
  <2> QED BY <1>1, <1>8, <2>2, <2>3, <2>6, <2>7, <2>8, <2>9 DEF Settled, Held
<1>12. reduction.alert = "OPEN" =>
          /\ r = None \/ r.kind = "CONTINUOUS"
          /\ inc.id = e.id
  <2> SUFFICES ASSUME reduction.alert = "OPEN"
               PROVE  (r = None \/ r.kind = "CONTINUOUS") /\ inc.id = e.id
    OBVIOUS
  <2>1. inc = [id |-> e.id, fresh |-> 0] /\ i[e.gen] = None
    BY <1>4
  <2>2. inc.id = e.id
    BY <2>1
  <2>3. r = None \/ r.kind = "CONTINUOUS"
    BY <1>2, <1>3, <2>1 DEF Recoveries
  <2> QED BY <2>2, <2>3
<1>13. reduction.alert # "OPEN" /\ r # None /\ r.kind = "REPEATED" =>
          inc # None /\ inc.id = r.id
  BY <1>3, <1>4
<1> HIDE DEF al1
<1> QED BY <1>5, <1>10, <1>11, <1>12, <1>13 DEF h1, i1, inc, al1

-----------------------------------------------------------------------------
(* Transactions of any store, at their beginning and at their end.          *)

\* The same of a transaction.
IsTx(tx) ==
    tx = Tx(tx.pre, tx.store.open, tx.store.saved, tx.store.recovery,
            tx.store.history, tx.store.incident, tx.alerts, tx.pending)

SettledAt(tx, s) ==
    /\ IsTx(tx)
    /\ Settled(s, tx.pre, tx.store.open, tx.store.saved, tx.store.recovery,
               tx.store.history, tx.store.incident, tx.alerts)

\* A transaction given by its parts.
LEMMA SettledIs ==
    ASSUME NEW s, NEW pre, NEW o, NEW sv, NEW r, NEW h, NEW i, NEW al, NEW pe,
           Settled(s, pre, o, sv, r, h, i, al)
    PROVE  LET t == Tx(pre, o, sv, r, h, i, al, pe)
           IN  /\ SettledAt(t, s) /\ t.pre = pre /\ t.store.open = o
               /\ t.store.saved = sv /\ t.store.recovery = r
               /\ t.store.history = h /\ t.store.incident = i
               /\ t.alerts = al /\ t.pending = pe /\ t.raised = NoError
<1> DEFINE t == Tx(pre, o, sv, r, h, i, al, pe)
<1>1. /\ t.pre = pre /\ t.store.open = o
      /\ t.store.saved = sv /\ t.store.recovery = r
      /\ t.store.history = h /\ t.store.incident = i
      /\ t.alerts = al /\ t.pending = pe /\ t.raised = NoError
  BY TxFields DEF Tx
<1>2. IsTx(t)
  BY <1>1, Zenon DEF IsTx
<1>3. SettledAt(t, s)
  BY <1>1, <1>2, Zenon DEF SettledAt
<1> QED BY <1>1, <1>3, Zenon

\* The state a transaction begins in.
Begun(t, st) ==
    /\ t.pre = st /\ t.store = st /\ t.alerts = <<>> /\ t.pending = None
    /\ t = Tx(st, st.open, st.saved, st.recovery, st.history, st.incident,
              <<>>, None)

\* Every store begins so.
LEMMA BeginIs ==
    ASSUME NEW st \in Stores
    PROVE  /\ Begun(Black!Begin(st), st) /\ Begun(Freeze!Begin(st), st)
           /\ Begun(Audio!Begin(st), st) /\ Begun(Blocks!Begin(st), st)
<1> DEFINE t == Txn(st, st.open, st.saved, st.recovery, st.history, st.incident,
                    <<>>, None, NoError)
<1>1. st = [open |-> st.open, saved |-> st.saved, recovery |-> st.recovery,
            history |-> st.history, incident |-> st.incident]
  BY DEF Stores
<1>2. t = [store |-> st, pre |-> st, alerts |-> <<>>, pending |-> None,
           raised |-> NoError]
  BY <1>1, Zenon DEF Txn
<1>3. Begun(t, st)
  BY <1>1, <1>2 DEF Begun, Tx
<1>4. Black!Begin(st) = t
  BY <1>2, Zenon DEF Black!Begin, NoError
<1>5. Freeze!Begin(st) = t
  BY <1>2, Zenon DEF Freeze!Begin, NoError
<1>6. Audio!Begin(st) = t
  BY <1>2, Zenon DEF Audio!Begin, NoError
<1>7. Blocks!Begin(st) = t
  BY <1>2, Zenon DEF Blocks!Begin, NoError
<1> QED BY <1>3, <1>4, <1>5, <1>6, <1>7, Zenon

\* What the invariant says of a store, the transaction that begins with it has.
LEMMA SettledBegun ==
    ASSUME NEW s, NEW st, StoreHeld(st), KnownHeld(live, st.open, st.recovery),
           NEW t, Begun(t, st)
    PROVE  /\ SettledAt(t, s) /\ st \in Stores
           /\ t.store.recovery # None => Resolvable(st, t.store.recovery)
<1> USE NoneAssumption
<1>1. /\ st \in Stores
      /\ Held(st.open, st.saved, st.recovery, st.history, st.incident)
  BY DEF StoreHeld
<1>2. st.recovery # None => Resolvable(st, st.recovery)
  BY <1>1 DEF Held, Typed, RecoveryHeld, IncidentsHeld, Resolvable, Recoveries
<1>3. Settled(s, st, st.open, st.saved, st.recovery, st.history, st.incident, <<>>)
  BY <1>1, <1>2, ToldNothing DEF Settled
<1>4. SettledAt(t, s)
  <2>1. t = Tx(st, st.open, st.saved, st.recovery, st.history, st.incident,
               <<>>, None)
    BY Zenon DEF Begun
  <2> DEFINE al == <<>>
  <2>2. SettledAt(Tx(st, st.open, st.saved, st.recovery, st.history,
                     st.incident, al, None), s)
    <3>1. Settled(s, st, st.open, st.saved, st.recovery, st.history,
                  st.incident, al)
      BY <1>3
    <3> HIDE DEF al
    <3> QED BY <3>1, SettledIs
  <2> QED BY <2>1, <2>2
<1> QED BY <1>1, <1>2, <1>4 DEF Begun

\* What a committed transaction leaves.
Done(result, tx) ==
    /\ result.raised = FALSE /\ result.alerts = tx.alerts
    /\ result.store.open = tx.store.open
    /\ result.store.recovery = tx.store.recovery
    /\ StoreHeld(result.store)
    /\ KnownHeld(Told(result.alerts), result.store.open, result.store.recovery)

\* pipe.execute() keeps the canonical events that are referred to.
LEMMA ExecuteIs ==
    ASSUME NEW s, NEW tx, SettledAt(tx, s)
    PROVE  /\ Done(Black!Execute(tx), tx) /\ Done(Freeze!Execute(tx), tx)
           /\ Done(Audio!Execute(tx), tx) /\ Done(Blocks!Execute(tx), tx)
<1> DEFINE st == tx.store
           referred == {x.id : x \in {st.open, st.recovery} \ {None}}
           sv == st.saved \cap referred
           st1 == [open |-> st.open, saved |-> sv, recovery |-> st.recovery,
                   history |-> st.history, incident |-> st.incident]
           result == [store |-> st1, alerts |-> tx.alerts, raised |-> FALSE]
<1> USE NoneAssumption
<1>1. /\ Held(st.open, st.saved, st.recovery, st.history, st.incident)
      /\ KnownHeld(Told(tx.alerts), st.open, st.recovery)
      /\ IsTx(tx)
  BY Zenon DEF SettledAt, Settled
<1>2. /\ st.open # None => st.open.id \in sv
      /\ st.recovery # None => st.recovery.id \in sv
      /\ sv \in SUBSET Ids
  BY <1>1 DEF Held, Typed, OpenHeld, RecoveryHeld
<1>3. /\ tx.raised = NoError
      /\ st = [open |-> st.open, saved |-> st.saved, recovery |-> st.recovery,
               history |-> st.history, incident |-> st.incident]
  BY <1>1 DEF IsTx, Tx, Txn
<1>4. [st EXCEPT !.saved = sv] = st1
  <2> HIDE DEF sv, st
  <2> QED BY <1>3
<1> HIDE DEF sv, referred
<1>5. Held(st.open, sv, st.recovery, st.history, st.incident)
  BY <1>1, <1>2 DEF Held, Typed, OpenHeld, RecoveryHeld
<1>6. StoreHeld(st1)
  <2>1. st1 \in Stores
    BY <1>5 DEF Held, Typed, Stores, Histories, IncidentsOf
  <2> QED BY <1>5, <2>1 DEF StoreHeld
<1>7. Done(result, tx)
  <2> HIDE DEF st
  <2>1. result.store = st1 /\ result.alerts = tx.alerts /\ result.raised = FALSE
        /\ st1.open = st.open /\ st1.recovery = st.recovery
    OBVIOUS
  <2> HIDE DEF result, st1
  <2> QED BY <1>1, <1>6, <2>1, Zenon DEF Done, st
<1>8. ~ tx.raised
  BY <1>3, Zenon DEF NoError
<1>9. Black!Execute(tx) = result
  BY <1>4, <1>8, Zenon DEF Black!Execute, Black!Referred, sv, referred
<1>10. Freeze!Execute(tx) = result
  BY <1>4, <1>8, Zenon DEF Freeze!Execute, Freeze!Referred, sv, referred
<1>11. Audio!Execute(tx) = result
  BY <1>4, <1>8, Zenon DEF Audio!Execute, Audio!Referred, sv, referred
<1>12. Blocks!Execute(tx) = result
  BY <1>4, <1>8, Zenon DEF Blocks!Execute, Blocks!Referred, sv, referred
<1> QED BY <1>7, <1>9, <1>10, <1>11, <1>12, Zenon

-----------------------------------------------------------------------------
(* The transitions of the black-screen store.                               *)

\* The recovery is on the timeline of the segment.
OnTime(tx, s) ==
    tx.store.recovery # None => SameTimeline(tx.store.recovery, s)

\* No healthy segment counts.
Quiet(tx) == tx.store.recovery # None => tx.store.recovery.healthy = 0

\* The alert that waits on the timeline of the segment goes on waiting.
Kept(tx, s) ==
    LET p == tx.pre.recovery
        r == tx.store.recovery
    IN  p # None /\ SameTimeline(p, s) =>
           r # None /\ r.id = p.id /\ r.kind = p.kind /\ SameTimeline(r, s)

\* The alert that waits can be resolved, given this repeated state.
Answers(tx, pending) ==
    LET r == tx.store.recovery
        state == IF pending # None THEN pending
                 ELSE [history |-> tx.pre.history[r.gen],
                       incident |-> tx.pre.incident[r.gen]]
    IN  r # None =>
           /\ r.kind = "CONTINUOUS" => r.id \in tx.pre.saved
           /\ r.kind = "REPEATED" =>
                 state.incident # None /\ state.incident.id = r.id

\* An open event is on the timeline of the segment.
Following(tx, s) ==
    tx.store.open # None => SameTimeline(tx.store.open, s)

\* The black-screen store's copies of shared operators.
LEMMA BlackSame ==
    ASSUME NEW x, NEW s
    PROVE  /\ Black!SameTimeline(x, s) = SameTimeline(x, s)
           /\ Black!SequenceCanFollow(x, s) = SequenceCanFollow(x, s)
BY DEF Black!SameTimeline, SameTimeline, Black!SequenceCanFollow,
       SequenceCanFollow

\* Resolving the alert that waits.
LEMMA BlackResolves ==
    ASSUME NEW s, NEW tx, SettledAt(tx, s), tx.store.open = None,
           tx.store.recovery # None, NEW pending, Answers(tx, pending),
           NEW why \in Whys
    PROVE  LET t == Black!ResolvePendingRecovery(tx, why, pending)
           IN  /\ SettledAt(t, s) /\ t.pre = tx.pre /\ t.store.open = None
               /\ t.store.recovery = None /\ t.pending = tx.pending
<1> DEFINE pre == tx.pre
           sv == tx.store.saved
           r == tx.store.recovery
           h == tx.store.history
           i == tx.store.incident
           al == tx.alerts
           pe == tx.pending
           t == Black!ResolvePendingRecovery(tx, why, pending)
           al1 == Append(al, Alert("RESOLVED", r.kind, r.id, why))
<1> USE NoneAssumption
<1>1. /\ Settled(s, pre, None, sv, r, h, i, al) /\ r # None
      /\ tx = Tx(pre, None, sv, r, h, i, al, pe)
  BY Zenon DEF SettledAt, IsTx
<1>2. r \in Recoveries
  BY <1>1 DEF Settled, Held, Typed
<1>3. r.kind \in {"CONTINUOUS", "REPEATED"}
  BY <1>2 DEF Recoveries
<1> SUFFICES /\ SettledAt(t, s) /\ t.pre = pre /\ t.store.open = None
             /\ t.store.recovery = None /\ t.pending = pe
  OBVIOUS
<1>4. CASE r.kind = "CONTINUOUS"
  <2>1. r.id \in pre.saved
    BY <1>1, <1>4 DEF Answers
  <2>2. Settled(s, pre, None, sv, None, h, i, al1)
    BY <1>1, <1>4, SettledResolved
  <2>3. t = Black!DeleteRecovery(
               Black!Publish(tx, Black!Alert("RESOLVED", "CONTINUOUS", r.id, why)))
    BY <1>4, <2>1 DEF Black!ResolvePendingRecovery
  <2>4. Black!Alert("RESOLVED", "CONTINUOUS", r.id, why)
           = Alert("RESOLVED", r.kind, r.id, why)
    BY <1>4 DEF Alert, Black!Alert
  <2> HIDE DEF pre, sv, r, h, i, al, pe, t
  <2>5. t = Tx(pre, None, sv, None, h, i, al1, pe)
    BY <1>1, <2>3, <2>4, BlackOps
  <2> HIDE DEF al1
  <2> QED BY <2>2, <2>5, SettledIs
<1>5. CASE r.kind = "REPEATED"
  <2> DEFINE g == r.gen
             state == IF pending # None THEN pending
                      ELSE Black!LoadRepeated(pre, g)
             h1 == [h EXCEPT ![g] = {}]
             i1 == [i EXCEPT ![g] = None]
             w == [history |-> {}, incident |-> None]
  <2>1. state.incident # None /\ state.incident.id = r.id
    BY <1>1, <1>5 DEF Answers, Black!LoadRepeated
  <2>2. Settled(s, pre, None, sv, None, h1, i1, al1)
    BY <1>1, <1>5, SettledResolved
  <2>3. t = Black!DeleteRecovery(Black!ResolveIncident(tx, g, pending, why))
    BY <1>5 DEF Black!ResolvePendingRecovery
  <2>4. Black!ResolveIncident(tx, g, pending, why)
          = Black!Publish(Black!WriteRepeated(tx, g, w),
                          Black!Alert("RESOLVED", "REPEATED", r.id, why))
    <3> HIDE DEF r, g
    <3> QED BY <2>1, Zenon DEF Black!ResolveIncident
  <2>5. Black!Alert("RESOLVED", "REPEATED", r.id, why)
           = Alert("RESOLVED", r.kind, r.id, why)
    BY <1>5 DEF Alert, Black!Alert
  <2>6. w.history = {} /\ w.incident = None
    OBVIOUS
  <2> HIDE DEF pre, sv, r, h, i, al, pe, t, g, w
  <2>7. Black!WriteRepeated(tx, g, w) = Tx(pre, None, sv, r, h1, i1, al, pe)
    <3>1. Black!WriteRepeated(tx, g, w)
            = Tx(pre, None, sv, r, With(h, g, w.history),
                 With(i, g, w.incident), al, pe)
      BY <1>1, BlackOps
    <3> QED BY <2>6, <3>1, Zenon DEF With
  <2> HIDE DEF h1, i1
  <2>8. t = Tx(pre, None, sv, None, h1, i1, al1, pe)
    BY <2>3, <2>4, <2>5, <2>7, BlackOps
  <2> HIDE DEF al1
  <2> QED BY <2>2, <2>8, SettledIs
<1> QED BY <1>3, <1>4, <1>5

\* Leaving the timeline of the alert that waits.
LEMMA BlackLeaves ==
    ASSUME NEW s, NEW tx, SettledAt(tx, s), check = "black_screen",
           Following(tx, s)
    PROVE  LET t == Black!LeaveTimeline(tx, s)
           IN  /\ SettledAt(t, s) /\ t.pre = tx.pre
               /\ t.store.open = tx.store.open /\ t.pending = tx.pending
               /\ OnTime(t, s) /\ (OnTime(tx, s) => t = tx)
               /\ Kept(tx, s) => Kept(t, s)
<1> DEFINE r == tx.store.recovery
           t == Black!LeaveTimeline(tx, s)
<1> SUFFICES /\ SettledAt(t, s) /\ t.pre = tx.pre
             /\ t.store.open = tx.store.open /\ t.pending = tx.pending
             /\ OnTime(t, s) /\ (OnTime(tx, s) => t = tx)
             /\ Kept(tx, s) => Kept(t, s)
  OBVIOUS
<1>1. CASE OnTime(tx, s)
  <2>1. t = tx
    BY <1>1, BlackSame DEF Black!LeaveTimeline, OnTime
  <2> QED BY <1>1, <2>1
<1>2. CASE ~ OnTime(tx, s)
  <2>1. r # None /\ ~ SameTimeline(r, s)
    BY <1>2 DEF OnTime
  <2>2. /\ Held(tx.store.open, tx.store.saved, r, tx.store.history,
                tx.store.incident)
        /\ Resolvable(tx.pre, r) /\ tx.pre \in Stores
    BY <2>1 DEF SettledAt, Settled
  <2>3. tx.store.open = None
    BY <2>1, <2>2 DEF Held, Together, Following, SameTimeline
  <2>4. Answers(tx, None)
    BY <2>2 DEF Resolvable, Answers
  <2>5. t = Black!ResolvePendingRecovery(tx, "timeline_discontinued", None)
    BY <2>1, BlackSame DEF Black!LeaveTimeline
  <2>6. "timeline_discontinued" \in Whys
    BY DEF Whys
  <2>7. /\ SettledAt(t, s) /\ t.pre = tx.pre /\ t.store.open = None
        /\ t.store.recovery = None /\ t.pending = tx.pending
    BY <2>1, <2>3, <2>4, <2>5, <2>6, BlackResolves
  <2> HIDE DEF t
  <2>8. OnTime(t, s)
    BY <2>7 DEF OnTime
  <2>9. Kept(tx, s) => Kept(t, s)
    BY <2>1, <2>7 DEF Kept
  <2> QED BY <1>2, <2>3, <2>7, <2>8, <2>9
<1> QED BY <1>1, <1>2

\* A recovery of events e on timeline t.
LEMMA NewRecoveryIs ==
    ASSUME NEW id \in Ids, NEW kind \in {"CONTINUOUS", "REPEATED"},
           NEW e \in Events, NEW t, t.gen \in Generations, t.disc \in Nat
    PROVE  LET x == NewRecovery(id, kind, e, t)
           IN  /\ x \in Recoveries /\ x.id = id /\ x.kind = kind
               /\ x.healthy = 0 /\ x.last = e.seq
               /\ SameTimeline(x, t) /\ x # None
               /\ x = Black!NewRecovery(id, kind, e, t)
               /\ x = Freeze!NewRecovery(id, kind, e, t)
               /\ x = Blocks!NewRecovery(id, kind, e, t)
<1> USE NoneAssumption
<1>1. e.seq \in Nat
  BY DEF Events
<1>2. NewRecovery(id, kind, e, t) \in Recoveries
  BY <1>1 DEF NewRecovery, Recoveries
<1> QED BY <1>2 DEF NewRecovery, Black!NewRecovery, Freeze!NewRecovery,
                    Blocks!NewRecovery, SameTimeline

\* The alert that waits goes on waiting.
LEMMA BlackContinues ==
    ASSUME NEW s \in Segments, NEW tx, SettledAt(tx, s),
           tx.store.recovery # None, OnTime(tx, s), Following(tx, s),
           NEW m \in Nat
    PROVE  LET t == Black!ContinuePendingRecovery(tx, s, m)
               x == t.store.recovery
           IN  /\ SettledAt(t, s) /\ t.pre = tx.pre
               /\ t.store.open = tx.store.open /\ t.pending = tx.pending
               /\ x \in Recoveries /\ x # None /\ x.id = tx.store.recovery.id
               /\ x.kind = tx.store.recovery.kind
               /\ x.healthy = 0 /\ x.last = m /\ SameTimeline(x, s)
               /\ x.gen = tx.store.recovery.gen
               /\ t = Tx(tx.pre, tx.store.open, tx.store.saved, x,
                         tx.store.history, tx.store.incident, tx.alerts,
                         tx.pending)
<1> DEFINE pre == tx.pre
           o == tx.store.open
           sv == tx.store.saved
           r == tx.store.recovery
           h == tx.store.history
           i == tx.store.incident
           al == tx.alerts
           pe == tx.pending
           x == [r EXCEPT !.healthy = 0, !.last = m, !.gen = s.gen,
                          !.disc = s.disc]
           t == Black!ContinuePendingRecovery(tx, s, m)
<1> USE NoneAssumption, PolicyAssumption
<1>1. /\ Settled(s, pre, o, sv, r, h, i, al) /\ r # None
      /\ tx = Tx(pre, o, sv, r, h, i, al, pe)
      /\ SameTimeline(r, s) /\ (o # None => SameTimeline(o, s))
  BY DEF SettledAt, IsTx, OnTime, Following
<1>2. r \in Recoveries
  BY <1>1 DEF Settled, Held, Typed
<1>3. /\ x \in Recoveries /\ x.id = r.id /\ x.kind = r.kind
      /\ x.healthy = 0 /\ x.last = m /\ SameTimeline(x, s)
      /\ x.gen = s.gen
  <2> HIDE DEF r
  <2> QED BY <1>2 DEF Recoveries, Segments, SameTimeline
<1>4. x # None /\ x.gen = r.gen
  BY <1>1, <1>3 DEF SameTimeline
<1>5. t = Black!SaveRecovery(tx, x)
  BY DEF Black!ContinuePendingRecovery
<1> HIDE DEF x, pre, o, sv, r, h, i, al, pe
<1>6. Settled(s, pre, o, sv, x, h, i, al)
  <2>1. Together(o, x)
    BY <1>1, <1>3 DEF Together, SameTimeline
  <2>2. x.healthy < RecoveryHealthy
    BY <1>3
  <2> QED BY <1>1, <1>3, <1>4, <2>1, <2>2, SettledObserved
<1> HIDE DEF t
<1>7. t = Tx(pre, o, sv, x, h, i, al, pe)
  BY <1>1, <1>5, BlackOps
<1>8. /\ SettledAt(t, s) /\ t.pre = pre /\ t.store.open = o /\ t.pending = pe
      /\ t.store.recovery = x
  BY <1>6, <1>7, SettledIs
<1> QED BY <1>3, <1>4, <1>7, <1>8 DEF t, pre, o, sv, r, h, i, al, pe

\* The event goes on.
LEMMA BlackPersists ==
    ASSUME NEW s \in Segments, NEW tx, SettledAt(tx, s), check = "black_screen",
           Following(tx, s), Kept(tx, s),
           NEW e, Heir(e, tx.store.open), e.off = SegmentLength,
           SameTimeline(e, s)
    PROVE  LET t == Black!PersistOpen(tx, e, s)
           IN  SettledAt(t, s) /\ t.pre = tx.pre /\ Kept(t, s) /\ Quiet(t)
<1> DEFINE a == Black!LeaveTimeline(tx, s)
           b == IF a.store.recovery = None THEN a
                ELSE Black!ContinuePendingRecovery(a, s, s.seq)
           t == Black!PersistOpen(tx, e, s)
<1> USE NoneAssumption
<1>1. s.seq \in Nat
  BY DEF Segments
<1>2. /\ SettledAt(a, s) /\ a.pre = tx.pre /\ a.store.open = tx.store.open
      /\ OnTime(a, s) /\ Kept(a, s)
  BY BlackLeaves
<1>3. Following(a, s)
  BY <1>2 DEF Following
<1>4. /\ SettledAt(b, s) /\ b.pre = tx.pre /\ b.store.open = tx.store.open
      /\ OnTime(b, s) /\ Kept(b, s) /\ Quiet(b)
  <2>1. CASE a.store.recovery = None
    <3>1. b = a
      BY <2>1
    <3> HIDE DEF a, b
    <3> QED BY <1>2, <2>1, <3>1 DEF Quiet
  <2>2. CASE a.store.recovery # None
    <3>1. b = Black!ContinuePendingRecovery(a, s, s.seq)
      BY <2>2
    <3> DEFINE m == s.seq
    <3> HIDE DEF a, b, m
    <3>2. LET x == b.store.recovery
          IN  /\ SettledAt(b, s) /\ b.pre = a.pre
              /\ b.store.open = a.store.open
              /\ x # None /\ x.id = a.store.recovery.id
              /\ x.kind = a.store.recovery.kind
              /\ x.healthy = 0 /\ SameTimeline(x, s)
      <4>1. b = Black!ContinuePendingRecovery(a, s, m) /\ m \in Nat
        BY <1>1, <3>1 DEF m
      <4> QED BY <1>2, <1>3, <2>2, <4>1, BlackContinues
    <3> QED BY <1>2, <3>2 DEF OnTime, Kept, Quiet
  <2> QED BY <2>1, <2>2
<1> DEFINE due == b.store.recovery = None /\ ~ e.sent /\ e.dur >= AlertDuration
           e1 == [e EXCEPT !.sent = e.sent \/ due]
           alert == Black!Alert("OPEN", "CONTINUOUS", e.id, "continuous_black")
           o == tx.store.open
           sv == b.store.saved
           r == b.store.recovery
           h == b.store.history
           i == b.store.incident
           al == b.alerts
           pe == b.pending
           al1 == IF due THEN Append(al, OpenAlertOf(e, "continuous_black")) ELSE al
<1>5. t = Black!PublishIf(due, Black!SaveOpen(b, e1), alert)
  <2>1. Black!ShouldAlert(b, e) = due
    BY Zenon DEF Black!ShouldAlert
  <2> HIDE DEF due
  <2> QED BY <2>1, Zenon DEF Black!PersistOpen
<1>6. e \in Events /\ e.sent \in BOOLEAN
  BY DEF Heir, Events
<1>7. due \in BOOLEAN
  OBVIOUS
<1> HIDE DEF b, a
<1>8. /\ Settled(s, tx.pre, o, sv, r, h, i, al)
      /\ b = Tx(tx.pre, o, sv, r, h, i, al, pe)
  BY <1>4, Zenon DEF SettledAt, IsTx
<1>9. Together(e, r)
  BY <1>4 DEF OnTime, Together, SameTimeline
<1>10. /\ e1 \in Events /\ e1.id = e.id /\ e1.off = e.off /\ e1.dur = e.dur
       /\ SameTimeline(e1, e) /\ e1.sent = (e.sent \/ due)
  <2> DEFINE f == e.sent \/ due
  <2>1. f \in BOOLEAN
    BY Zenon
  <2> HIDE DEF due, f
  <2>2. e1 = [e EXCEPT !.sent = f]
    BY DEF f
  <2> HIDE DEF e1
  <2>3. /\ e1 \in Events /\ e1.id = e.id /\ e1.off = e.off /\ e1.dur = e.dur
        /\ SameTimeline(e1, e) /\ e1.sent = f
    BY <1>6, <2>1, <2>2 DEF Events, SameTimeline
  <2> QED BY <2>3 DEF f
<1>11. alert = OpenAlertOf(e, "continuous_black")
  BY DEF OpenAlertOf, Alert, Black!Alert
<1>12. due = (r = None /\ ~ e.sent /\ e.dur >= AlertDuration)
  OBVIOUS
<1> DEFINE pre == tx.pre
           w == "continuous_black"
<1>13. w \in Whys
  BY DEF Whys
<1> HIDE DEF e1, alert, o, sv, r, h, i, al, pe, t, due, pre, w
<1>14. Settled(s, pre, e1, sv \cup {e.id}, r, h, i, al1)
  <2>1. Heir(e, o)
    BY DEF o
  <2>2. Settled(s, pre, o, sv, r, h, i, al)
    BY <1>8 DEF pre
  <2>3. Settled(s, pre, e1, sv \cup {e.id}, r, h, i,
                IF due THEN Append(al, OpenAlertOf(e, w)) ELSE al)
    BY <1>9, <1>10, <1>12, <1>13, <2>1, <2>2, SettledOpened
  <2> QED BY <2>3 DEF w
<1>15. t = Tx(pre, e1, sv \cup {e.id}, r, h, i, al1, pe)
  <2>1. Black!SaveOpen(b, e1) = Tx(pre, e1, sv \cup {e.id}, r, h, i, al, pe)
    <3>1. Black!SaveOpen(b, e1) = Tx(pre, e1, sv \cup {e1.id}, r, h, i, al, pe)
      BY <1>8, BlackOps DEF pre
    <3> QED BY <1>10, <3>1
  <2> DEFINE sw == sv \cup {e.id}
  <2> HIDE DEF sw
  <2>2. t = IF due THEN Tx(pre, e1, sw, r, h, i, Append(al, alert), pe)
                   ELSE Tx(pre, e1, sw, r, h, i, al, pe)
    BY <1>5, <2>1, BlackOps DEF sw
  <2>3. t = Tx(pre, e1, sw, r, h, i, al1, pe)
    BY <1>11, <2>2, Zenon
  <2> QED BY <2>3 DEF sw
<1> DEFINE sw == sv \cup {e.id}
<1> HIDE DEF al1, sw
<1>16. SettledAt(t, s) /\ t.pre = pre /\ t.store.recovery = r
  BY <1>14, <1>15, SettledIs DEF sw
<1> QED BY <1>4, <1>16 DEF Kept, Quiet, r, pre, t

\* The recovery after an event closed: the one before, or one of the event.
Succeeds(t, tx, e) ==
    LET x == t.store.recovery
        r == tx.store.recovery
    IN  IF r # None THEN x # None /\ x.id = r.id /\ x.kind = r.kind /\ x.gen = r.gen
        ELSE x # None => x.id = e.id

\* An event closes that no incident counts.
LEMMA BlackClosesOther ==
    ASSUME NEW s \in Segments, NEW tx, SettledAt(tx, s), check = "black_screen",
           OnTime(tx, s), Kept(tx, s),
           NEW e, Heir(e, tx.store.open), SameTimeline(e, s)
    PROVE  LET t == Black!CloseOtherEvent(tx, e, s)
           IN  /\ SettledAt(t, s) /\ t.pre = tx.pre /\ t.store.open = None
               /\ OnTime(t, s) /\ Kept(t, s) /\ Quiet(t)
               /\ t.pending = None /\ Succeeds(t, tx, e)
               /\ tx.store.recovery = None /\ t.store.recovery # None =>
                     t.store.recovery.kind = "CONTINUOUS"
<1> DEFINE due == tx.store.recovery = None /\ ~ e.sent /\ e.dur >= AlertDuration
           pre == tx.pre
           o == tx.store.open
           sv == tx.store.saved
           r == tx.store.recovery
           h == tx.store.history
           i == tx.store.incident
           al == tx.alerts
           pe == tx.pending
           w == "threshold_reached_on_resolution"
           x == NewRecovery(e.id, "CONTINUOUS", e, s)
           alert == Black!Alert("OPEN", "CONTINUOUS", e.id, w)
           closed == Black!PublishIf(due, Black!SaveClosed(tx, e), alert)
           b == IF r # None THEN Black!ContinuePendingRecovery(closed, s, e.seq)
                ELSE IF e.sent \/ due
                   THEN Black!SaveRecovery(closed,
                           Black!NewRecovery(e.id, "CONTINUOUS", e, s))
                ELSE closed
           t == Black!CloseOtherEvent(tx, e, s)
           al1 == IF due THEN Append(al, OpenAlertOf(e, w)) ELSE al
           sw == sv \cup {e.id}
<1> USE NoneAssumption
<1>1. t = [b EXCEPT !.pending = None]
  <2>1. Black!ShouldAlert(tx, e) = due
    BY Zenon DEF Black!ShouldAlert
  <2> HIDE DEF due
  <2> QED BY <2>1, Zenon DEF Black!CloseOtherEvent
<1>2. /\ Settled(s, pre, o, sv, r, h, i, al)
      /\ tx = Tx(pre, o, sv, r, h, i, al, pe)
  BY Zenon DEF SettledAt, IsTx
<1>3. /\ EventName(e) = EventName(o) /\ e # None /\ e.id \in Ids
      /\ e.sent => e.dur = AlertDuration /\ r = None
      /\ e.sent \in BOOLEAN /\ e \in Events /\ e.seq \in Nat
  <2>1. OpenHeld(o, sv, r)
    BY <1>2 DEF Settled, Held
  <2>2. e \in Events
    BY DEF Heir
  <2>3. e.seq \in Nat
    BY <2>2 DEF Events
  <2> HIDE DEF o, sv, r
  <2> QED BY <2>1, <2>2, <2>3, HeirName DEF o
<1>4. /\ x \in Recoveries /\ x.id = e.id /\ x.kind = "CONTINUOUS"
      /\ x.healthy = 0 /\ SameTimeline(x, s) /\ x # None
      /\ x = Black!NewRecovery(e.id, "CONTINUOUS", e, s)
  <2>1. s.gen \in Generations /\ s.disc \in Nat
    BY DEF Segments
  <2> QED BY <1>3, <2>1, NewRecoveryIs
<1>5. due \in BOOLEAN /\ (due => r = None /\ ~ e.sent) /\ w \in Whys
  BY DEF Whys
<1>6. alert = OpenAlertOf(e, w)
  BY DEF OpenAlertOf, Alert, Black!Alert
<1> HIDE DEF pre, sv, h, i, al, pe, x, due, w, alert
<1>7. Settled(s, pre, None, sw, IF e.sent \/ due THEN x ELSE r, h, i, al1)
  <2>1. Heir(e, o)
    OBVIOUS
  <2> HIDE DEF o, r
  <2> QED BY SMTT(30), <1>2, <1>4, <1>5, <2>1, SettledClosed
<1> HIDE DEF o
<1>8. closed = Tx(pre, None, sw, r, h, i, al1, pe)
  <2> HIDE DEF r
  <2>1. Black!SaveClosed(tx, e) = Tx(pre, None, sw, r, h, i, al, pe)
    BY <1>2, BlackOps
  <2> HIDE DEF sw
  <2>2. closed = IF due THEN Tx(pre, None, sw, r, h, i, Append(al, alert), pe)
                        ELSE Tx(pre, None, sw, r, h, i, al, pe)
    BY <2>1, BlackOps
  <2> QED BY <1>6, <2>2, Zenon
<1> HIDE DEF closed, sw, al1
<1>9. ASSUME NEW y, b = Tx(pre, None, sw, y, h, i, al1, pe)
      PROVE  t = Tx(pre, None, sw, y, h, i, al1, None)
  BY <1>1, <1>9, TxAssigns DEF SetPending
<1>10. CASE r # None
  <2>1. ~ e.sent /\ ~ due
    BY <1>3, <1>5, <1>10
  <2>2. Settled(s, pre, None, sw, r, h, i, al1)
    BY <1>7, <2>1
  <2>3. /\ SettledAt(closed, s) /\ closed.pre = pre /\ closed.store.open = None
        /\ closed.store.recovery = r /\ closed.store.saved = sw
        /\ closed.store.history = h /\ closed.store.incident = i
        /\ closed.alerts = al1 /\ closed.pending = pe
    <3> HIDE DEF r
    <3> QED BY <1>8, <2>2, SettledIs
  <2>4. OnTime(closed, s) /\ Following(closed, s)
    BY <2>3 DEF OnTime, Following
  <2> DEFINE m == e.seq
             y == b.store.recovery
  <2>5. b = Black!ContinuePendingRecovery(closed, s, m) /\ m \in Nat
    BY <1>3, <1>10
  <2> HIDE DEF b, m
  <2>6. /\ SettledAt(b, s) /\ b.pre = pre /\ b.store.open = None
        /\ y \in Recoveries /\ y # None /\ y.id = r.id
        /\ y.kind = r.kind /\ y.healthy = 0 /\ SameTimeline(y, s)
        /\ y.gen = r.gen
        /\ b = Tx(pre, None, sw, y, h, i, al1, pe)
    <3> HIDE DEF r
    <3> QED BY <1>10, <2>3, <2>4, <2>5, BlackContinues
  <2> HIDE DEF y
  <2>7. t = Tx(pre, None, sw, y, h, i, al1, None)
    BY <1>9, <2>6
  <2>8. Settled(s, pre, None, sw, y, h, i, al1)
    <3>1. b.store.recovery = y /\ b.store.saved = sw /\ b.store.history = h
          /\ b.store.incident = i /\ b.alerts = al1
      BY <2>6, TxFields DEF Tx
    <3> QED BY <2>6, <3>1 DEF SettledAt
  <2> HIDE DEF t
  <2>9. /\ SettledAt(t, s) /\ t.pre = pre /\ t.store.open = None
        /\ t.store.recovery = y /\ t.pending = None
    BY <2>7, <2>8, SettledIs
  <2> QED BY <1>10, <2>6, <2>9 DEF OnTime, Kept, Quiet, Succeeds, pre, t
<1>11. CASE r = None /\ (e.sent \/ due)
  <2>1. b = Black!SaveRecovery(closed, x)
    BY <1>4, <1>11
  <2>2. b = Tx(pre, None, sw, x, h, i, al1, pe)
    <3> HIDE DEF r, b
    <3> QED BY <1>8, <2>1, BlackOps
  <2>3. t = Tx(pre, None, sw, x, h, i, al1, None)
    BY <1>9, <2>2
  <2>4. Settled(s, pre, None, sw, x, h, i, al1)
    BY <1>7, <1>11
  <2> HIDE DEF t
  <2>5. /\ SettledAt(t, s) /\ t.pre = pre /\ t.store.open = None
        /\ t.store.recovery = x /\ t.pending = None
    BY <2>3, <2>4, SettledIs
  <2> QED BY <1>4, <1>11, <2>5 DEF OnTime, Kept, Quiet, Succeeds, pre, t
<1>12. CASE r = None /\ ~ (e.sent \/ due)
  <2>1. b = Tx(pre, None, sw, r, h, i, al1, pe)
    BY <1>8, <1>12
  <2>2. t = Tx(pre, None, sw, r, h, i, al1, None)
    BY <1>9, <2>1
  <2>3. Settled(s, pre, None, sw, r, h, i, al1)
    BY <1>7, <1>12
  <2> HIDE DEF t
  <2>4. /\ SettledAt(t, s) /\ t.pre = pre /\ t.store.open = None
        /\ t.store.recovery = r /\ t.pending = None
    <3> HIDE DEF r
    <3> QED BY <2>2, <2>3, SettledIs
  <2> QED BY <1>12, <2>4 DEF OnTime, Kept, Quiet, Succeeds, pre, t
<1> QED BY <1>10, <1>11, <1>12

\* An event closes that was not reported.
LEMMA SettledShut ==
    ASSUME NEW s \in Segments, NEW pre, NEW o, NEW sv, NEW r, NEW h, NEW i, NEW al,
           Settled(s, pre, o, sv, r, h, i, al), check # "audio_loss",
           NEW e, Heir(e, o), ~ e.sent
    PROVE  Settled(s, pre, None, sv \cup {e.id}, r, h, i, al)
<1> USE NoneAssumption
<1>1. /\ Held(o, sv, r, h, i) /\ KnownHeld(Told(al), o, r) /\ al \in Seq(Alerts)
      /\ pre \in Stores
      /\ r # None /\ ~ SameTimeline(r, s) => Resolvable(pre, r)
  BY DEF Settled
<1>2. EventName(e) = EventName(o) /\ e # None /\ e.id \in Ids
  BY <1>1, HeirName DEF Held
<1>3. EventName(e) = {} /\ EventName(None) = {}
  BY DEF EventName
<1> DEFINE sw == sv \cup {e.id}
<1>4. Typed(None, sw, r, h, i) /\ RecoveryHeld(sw, r)
  BY <1>1, <1>2 DEF Held, Typed, RecoveryHeld
<1>5. OpenHeld(None, sw, r) /\ Together(None, r) /\ IncidentsHeld(r, i)
  BY <1>1 DEF Held, OpenHeld, Together
<1> HIDE DEF sw
<1>6. KnownHeld(Told(al), None, r)
  BY <1>1, <1>2, <1>3 DEF KnownHeld
<1>7. Settled(s, pre, None, sw, r, h, i, al)
  BY <1>1, <1>4, <1>5, <1>6 DEF Settled, Held
<1> QED BY <1>7 DEF sw

\* What a store has of the repeated state of a timeline.
LEMMA LoadIs ==
    ASSUME NEW s, NEW pre, NEW o, NEW sv, NEW r, NEW h, NEW i, NEW al,
           Settled(s, pre, o, sv, r, h, i, al),
           NEW g \in Generations, h = pre.history, i = pre.incident
    PROVE  LET state == [history |-> pre.history[g], incident |-> pre.incident[g]]
           IN  /\ state.history \in SUBSET [id : Ids, at : Nat]
               /\ state.incident \in Incidents \cup {None}
               /\ state.incident # None => state.incident.fresh < UpdateEvery
               /\ state.incident = pre.incident[g]
               /\ state = Black!LoadRepeated(pre, g)
               /\ state = Freeze!LoadRepeated(pre, g)
<1>1. h \in Histories /\ i \in IncidentsOf /\ IncidentsHeld(r, i)
  BY DEF Settled, Held, Typed
<1>2. h[g] \in SUBSET [id : Ids, at : Nat] /\ i[g] \in Incidents \cup {None}
      /\ (i[g] # None => i[g].fresh < UpdateEvery)
  BY <1>1 DEF Histories, IncidentsOf, IncidentsHeld
<1> QED BY <1>2 DEF Black!LoadRepeated, Freeze!LoadRepeated

\* A short event closes.
LEMMA BlackClosesShort ==
    ASSUME NEW s \in Segments, NEW tx, SettledAt(tx, s), check = "black_screen",
           OnTime(tx, s), Kept(tx, s),
           NEW e, Heir(e, tx.store.open), SameTimeline(e, s),
           e.dur < AlertDuration,
           tx.store.history = tx.pre.history, tx.store.incident = tx.pre.incident,
           tx.store.recovery = None \/ tx.store.recovery.kind = "REPEATED"
    PROVE  LET t == Black!CloseShortEvent(tx, e, s)
           IN  /\ SettledAt(t, s) /\ t.pre = tx.pre /\ t.store.open = None
               /\ OnTime(t, s) /\ Kept(t, s) /\ Quiet(t)
               /\ Answers(t, t.pending)
<1> DEFINE pre == tx.pre
           o == tx.store.open
           sv == tx.store.saved
           r == tx.store.recovery
           h == tx.store.history
           i == tx.store.incident
           al == tx.alerts
           pe == tx.pending
           w == "repeated_short_event"
           g == e.gen
           state == [history |-> pre.history[g], incident |-> pre.incident[g]]
           red == Black!RecordShortEvent(Black!LoadRepeated(pre, g), e)
           x == NewRecovery(e.id, "REPEATED", e, s)
           alert == Black!Alert(red.alert, "REPEATED", red.incident.id, w)
           recorded == Black!PublishIf(red.alert # "NONE",
                                       Black!WriteRepeated(tx, g, red), alert)
           closed == Black!SaveClosed(recorded, e)
           b == IF red.alert = "OPEN"
                   THEN Black!SaveRecovery(closed,
                           Black!NewRecovery(red.incident.id, "REPEATED", e, s))
                ELSE IF r # None THEN Black!ContinuePendingRecovery(closed, s, e.seq)
                ELSE closed
           pe1 == [history |-> red.history, incident |-> red.incident]
           t == Black!CloseShortEvent(tx, e, s)
           al1 == AlertsAfter(al, red, w)
           sw == sv \cup {e.id}
           h1 == With(h, g, red.history)
           i1 == With(i, g, red.incident)
<1> USE NoneAssumption
<1>1. t = [b EXCEPT !.pending = pe1]
  BY Zenon DEF Black!CloseShortEvent, Black!RecordResolvedEvent
<1>2. /\ Settled(s, pre, o, sv, r, h, i, al)
      /\ tx = Tx(pre, o, sv, r, h, i, al, pe)
      /\ h = pre.history /\ i = pre.incident
  BY Zenon DEF SettledAt, IsTx
<1>3. /\ e \in Events /\ e.seq \in Nat /\ e.id \in Ids /\ e.gen \in Generations
      /\ ~ e.sent
  <2>1. OpenHeld(o, sv, r)
    BY <1>2 DEF Settled, Held
  <2>2. e \in Events /\ e.dur \in 1 .. AlertDuration
    BY DEF Heir
  <2>3. e.sent => e.dur = AlertDuration
    <3> HIDE DEF o, sv, r
    <3> QED BY <2>1, HeirName DEF o
  <2>4. e.dur # AlertDuration
    BY <2>2, LengthAssumption
  <2> QED BY <2>2, <2>3, <2>4 DEF Events
<1>4. /\ x \in Recoveries /\ x.id = e.id /\ x.kind = "REPEATED"
      /\ x.healthy = 0 /\ SameTimeline(x, s) /\ x # None
      /\ x = Black!NewRecovery(e.id, "REPEATED", e, s)
  <2>1. s.gen \in Generations /\ s.disc \in Nat
    BY DEF Segments
  <2> QED BY <1>3, <2>1, NewRecoveryIs
<1>5. w \in Whys /\ SameTimeline(x, e)
  BY <1>4 DEF Whys, SameTimeline
<1>6. /\ Recorded(red, state, e) /\ state.incident = pre.incident[e.gen]
  <2>1. /\ state.history \in SUBSET [id : Ids, at : Nat]
        /\ state.incident \in Incidents \cup {None}
        /\ state.incident # None => state.incident.fresh < UpdateEvery
        /\ state.incident = pre.incident[g]
        /\ state = Black!LoadRepeated(pre, g)
    <3>1. g \in Generations
      BY <1>3
    <3> HIDE DEF pre, o, sv, r, h, i, al, g
    <3> QED BY <1>2, <3>1, LoadIs
  <2>2. red = Black!RecordShortEvent(state, e)
    BY <2>1
  <2> HIDE DEF red, state
  <2>3. Recorded(red, state, e)
    BY <1>3, <2>1, <2>2, BlackRecords
  <2> QED BY <2>1, <2>3
<1> HIDE DEF pre, sv, h, i, al, pe, x, w, alert, red, state
<1>7. Settled(s, pre, None, sw, r, h, i, al)
  <2>1. Heir(e, o)
    OBVIOUS
  <2> HIDE DEF o, r
  <2> QED BY <1>2, <1>3, <2>1, SettledShut
<1>8. /\ red.alert # "OPEN" => Settled(s, pre, None, sw, r, h1, i1, al1)
      /\ red.alert = "OPEN" /\ r = None => Settled(s, pre, None, sw, x, h1, i1, al1)
      /\ red.alert = "OPEN" =>
            /\ r = None \/ r.kind = "CONTINUOUS"
            /\ red.incident.id = e.id
      /\ red.alert # "OPEN" /\ r # None /\ r.kind = "REPEATED" =>
            red.incident # None /\ red.incident.id = r.id
      /\ red.incident \in Incidents \cup {None}
  <2>1. r # None /\ r.kind = "REPEATED" => r.gen = e.gen
    BY DEF OnTime, SameTimeline
  <2>2. e.id \in sw
    OBVIOUS
  <2>3. check \in {"black_screen", "video_freeze"}
    OBVIOUS
  <2> HIDE DEF r, sw, al1, h1, i1
  <2>4. LET h2 == [h EXCEPT ![e.gen] = red.history]
            i2 == [i EXCEPT ![e.gen] = red.incident]
            al2 == AlertsAfter(al, red, w)
        IN  /\ red.alert # "OPEN" => Settled(s, pre, None, sw, r, h2, i2, al2)
            /\ red.alert = "OPEN" /\ (check = "video_freeze" \/ r = None) =>
                     Settled(s, pre, None, sw, x, h2, i2, al2)
            /\ red.alert = "OPEN" =>
                     /\ r = None \/ r.kind = "CONTINUOUS"
                     /\ red.incident.id = e.id
            /\ red.alert # "OPEN" /\ r # None /\ r.kind = "REPEATED" =>
                     red.incident # None /\ red.incident.id = r.id
            /\ red.incident \in Incidents \cup {None}
    BY <1>2, <1>3, <1>4, <1>5, <1>6, <1>7, <2>1, <2>2, <2>3, SettledRecorded
  <2> QED BY <2>4, Zenon DEF h1, i1, al1, With
<1> HIDE DEF o, r
<1>9. closed = Tx(pre, None, sw, r, h1, i1, al1, pe)
  <2>1. Black!WriteRepeated(tx, g, red) = Tx(pre, o, sv, r, h1, i1, al, pe)
    <3> HIDE DEF h1, i1
    <3>1. Black!WriteRepeated(tx, g, red)
            = Tx(pre, o, sv, r, With(h, g, red.history),
                 With(i, g, red.incident), al, pe)
      BY <1>2, BlackOps
    <3> QED BY <3>1 DEF h1, i1
  <2> HIDE DEF h1, i1
  <2> DEFINE due == red.alert # "NONE"
  <2>2. alert = Alert(red.alert, "REPEATED", red.incident.id, w)
    BY DEF Alert, Black!Alert, alert
  <2>3. recorded = IF due THEN Tx(pre, o, sv, r, h1, i1, Append(al, alert), pe)
                          ELSE Tx(pre, o, sv, r, h1, i1, al, pe)
    <3> HIDE DEF due
    <3>1. recorded = Black!PublishIf(due, Tx(pre, o, sv, r, h1, i1, al, pe),
                                     alert)
      BY <2>1 DEF due
    <3> HIDE DEF recorded
    <3> QED BY <3>1, BlackOps
  <2>4. recorded = Tx(pre, o, sv, r, h1, i1, al1, pe)
    BY <2>2, <2>3, Zenon DEF AlertsAfter
  <2> HIDE DEF recorded, al1
  <2> QED BY <2>4, BlackOps
<1> HIDE DEF closed, sw, al1, h1, i1
<1>10. ASSUME NEW y, b = Tx(pre, None, sw, y, h1, i1, al1, pe)
       PROVE  t = Tx(pre, None, sw, y, h1, i1, al1, pe1)
  <2> HIDE DEF b, t, pe1
  <2> QED BY <1>1, <1>10, TxAssigns DEF SetPending
<1>11. pe1 # None /\ pe1.incident = red.incident
  <2>1. red.history \in SUBSET [id : Ids, at : Nat]
    BY <1>6 DEF Recorded
  <2>2. pe1 \in RepeatedStates
    BY <1>8, <2>1 DEF RepeatedStates
  <2> QED BY <2>2
<1> HIDE DEF pe1
<1>12. CASE red.alert = "OPEN"
  <2>1. r = None
    BY <1>8, <1>12 DEF r
  <2>2. Settled(s, pre, None, sw, x, h1, i1, al1) /\ red.incident.id = e.id
    BY <1>8, <1>12, <2>1
  <2>3. b = Black!SaveRecovery(closed, x)
    BY <1>4, <1>12, <2>2
  <2>4. b = Tx(pre, None, sw, x, h1, i1, al1, pe)
    <3> HIDE DEF b
    <3> QED BY <1>9, <2>3, BlackOps
  <2>5. t = Tx(pre, None, sw, x, h1, i1, al1, pe1)
    BY <1>10, <2>4
  <2> HIDE DEF t
  <2>6. /\ SettledAt(t, s) /\ t.pre = pre /\ t.store.open = None
        /\ t.store.recovery = x /\ t.pending = pe1
    BY <2>2, <2>5, SettledIs
  <2>7. red.incident # None
    <3>1. red.incident = [id |-> e.id, fresh |-> 0]
      BY <1>6, <1>12 DEF Recorded
    <3>2. red.incident \in Incidents
      BY <1>3, <3>1 DEF Incidents
    <3> QED BY <3>2
  <2>8. Answers(t, t.pending)
    BY <1>4, <1>11, <2>2, <2>6, <2>7 DEF Answers
  <2> QED BY <1>4, <2>1, <2>6, <2>8 DEF OnTime, Kept, Quiet, pre, r, t
<1>13. CASE red.alert # "OPEN" /\ r # None
  <2>1. Settled(s, pre, None, sw, r, h1, i1, al1)
    BY <1>8, <1>13
  <2>2. /\ SettledAt(closed, s) /\ closed.pre = pre /\ closed.store.open = None
        /\ closed.store.recovery = r /\ closed.store.saved = sw
        /\ closed.store.history = h1 /\ closed.store.incident = i1
        /\ closed.alerts = al1 /\ closed.pending = pe
    BY <1>9, <2>1, SettledIs
  <2>3. OnTime(closed, s) /\ Following(closed, s)
    BY <2>2 DEF OnTime, Following, r
  <2> DEFINE m == e.seq
             y == b.store.recovery
  <2>4. b = Black!ContinuePendingRecovery(closed, s, m) /\ m \in Nat
    BY <1>3, <1>13
  <2> HIDE DEF b, m
  <2>5. /\ SettledAt(b, s) /\ b.pre = pre /\ b.store.open = None
        /\ y \in Recoveries /\ y # None /\ y.id = r.id
        /\ y.kind = r.kind /\ y.healthy = 0 /\ SameTimeline(y, s)
        /\ y.gen = r.gen
        /\ b = Tx(pre, None, sw, y, h1, i1, al1, pe)
    BY <1>13, <2>2, <2>3, <2>4, BlackContinues
  <2> HIDE DEF y
  <2>6. t = Tx(pre, None, sw, y, h1, i1, al1, pe1)
    BY <1>10, <2>5
  <2>7. Settled(s, pre, None, sw, y, h1, i1, al1)
    <3>1. b.store.recovery = y /\ b.store.saved = sw /\ b.store.history = h1
          /\ b.store.incident = i1 /\ b.alerts = al1
      BY <2>5, TxFields DEF Tx
    <3> QED BY <2>5, <3>1 DEF SettledAt
  <2> HIDE DEF t
  <2>8. /\ SettledAt(t, s) /\ t.pre = pre /\ t.store.open = None
        /\ t.store.recovery = y /\ t.pending = pe1
    BY <2>6, <2>7, SettledIs
  <2>9. r.kind = "REPEATED"
    BY <1>13 DEF r
  <2>10. Answers(t, t.pending)
    BY <1>8, <1>11, <1>13, <2>5, <2>8, <2>9 DEF Answers
  <2> QED BY <1>13, <2>5, <2>8, <2>10 DEF OnTime, Kept, Quiet, pre, r, t
<1>14. CASE red.alert # "OPEN" /\ r = None
  <2>1. Settled(s, pre, None, sw, r, h1, i1, al1)
    BY <1>8, <1>14
  <2>2. b = Tx(pre, None, sw, r, h1, i1, al1, pe)
    BY <1>9, <1>14
  <2>3. t = Tx(pre, None, sw, r, h1, i1, al1, pe1)
    BY <1>10, <2>2
  <2> HIDE DEF t
  <2>4. /\ SettledAt(t, s) /\ t.pre = pre /\ t.store.open = None
        /\ t.store.recovery = r /\ t.pending = pe1
    BY <2>1, <2>3, SettledIs
  <2> QED BY <1>14, <2>4 DEF OnTime, Kept, Quiet, Answers, pre, r, t
<1> QED BY <1>12, <1>13, <1>14

\* An event closes.
LEMMA BlackCloses ==
    ASSUME NEW s \in Segments, NEW tx, SettledAt(tx, s), check = "black_screen",
           Following(tx, s), Kept(tx, s),
           NEW e, Heir(e, tx.store.open), SameTimeline(e, s),
           SegmentLength <= e.dur =>
              /\ tx.store.open # None
              /\ tx.store.history = tx.pre.history
              /\ tx.store.incident = tx.pre.incident
    PROVE  LET t == Black!CloseEvent(tx, e, s)
           IN  /\ SettledAt(t, s) /\ t.pre = tx.pre /\ t.store.open = None
               /\ OnTime(t, s) /\ Kept(t, s) /\ Quiet(t)
               /\ tx.store.open # None /\ e.id \in tx.pre.saved
                     /\ Answers(tx, None) => Answers(t, t.pending)
<1> DEFINE a == Black!LeaveTimeline(tx, s)
           short == SegmentLength <= e.dur /\ e.dur < AlertDuration
           continuous == a.store.recovery # None
                            /\ a.store.recovery.kind = "CONTINUOUS"
           t == Black!CloseEvent(tx, e, s)
<1> USE NoneAssumption
<1>1. t = IF short /\ ~ continuous THEN Black!CloseShortEvent(a, e, s)
                                   ELSE Black!CloseOtherEvent(a, e, s)
  BY Zenon DEF Black!CloseEvent, Black!IsRepeatedCandidate,
               Black!InterruptsContinuous
<1>2. /\ SettledAt(a, s) /\ a.pre = tx.pre /\ a.store.open = tx.store.open
      /\ OnTime(a, s) /\ (OnTime(tx, s) => a = tx) /\ Kept(a, s)
  BY BlackLeaves
<1>3. tx.store.open # None => a = tx
  <2> SUFFICES ASSUME tx.store.open # None PROVE OnTime(tx, s)
    BY <1>2
  <2>1. Together(tx.store.open, tx.store.recovery)
    BY DEF SettledAt, Settled, Held
  <2> QED BY <2>1 DEF Together, Following, OnTime, SameTimeline
<1>4. Heir(e, a.store.open)
  BY <1>2
<1>5. a.store.recovery # None => a.store.recovery.kind \in {"CONTINUOUS", "REPEATED"}
  BY <1>2 DEF SettledAt, Settled, Held, Typed, Recoveries
<1> HIDE DEF t, a
<1>6. CASE short /\ ~ continuous
  <2>1. t = Black!CloseShortEvent(a, e, s)
    BY <1>1, <1>6
  <2>2. /\ a.store.history = a.pre.history /\ a.store.incident = a.pre.incident
        /\ a.store.recovery = None \/ a.store.recovery.kind = "REPEATED"
        /\ e.dur < AlertDuration
    BY <1>3, <1>5, <1>6
  <2>3. /\ SettledAt(t, s) /\ t.pre = a.pre /\ t.store.open = None
        /\ OnTime(t, s) /\ Kept(t, s) /\ Quiet(t)
        /\ Answers(t, t.pending)
    BY <1>2, <1>4, <2>1, <2>2, BlackClosesShort
  <2> QED BY <1>2, <2>3 DEF t
<1>7. CASE ~ (short /\ ~ continuous)
  <2>1. t = Black!CloseOtherEvent(a, e, s)
    BY <1>1, <1>7
  <2>2. /\ SettledAt(t, s) /\ t.pre = a.pre /\ t.store.open = None
        /\ OnTime(t, s) /\ Kept(t, s) /\ Quiet(t)
        /\ t.pending = None /\ Succeeds(t, a, e)
        /\ a.store.recovery = None /\ t.store.recovery # None =>
              t.store.recovery.kind = "CONTINUOUS"
    BY <1>2, <1>4, <2>1, BlackClosesOther
  <2>3. ASSUME tx.store.open # None, e.id \in tx.pre.saved, Answers(tx, None)
        PROVE  Answers(t, t.pending)
    <3>1. a = tx
      BY <1>3, <2>3
    <3>2. CASE tx.store.recovery = None
      BY <2>2, <2>3, <3>1, <3>2 DEF Answers, Succeeds
    <3>3. CASE tx.store.recovery # None
      BY <2>2, <2>3, <3>1, <3>3 DEF Answers, Succeeds
    <3> QED BY <3>2, <3>3
  <2> QED BY <1>2, <2>2, <2>3 DEF t
<1> QED BY <1>6, <1>7

\* An event loses its observation.
LEMMA BlackLoses ==
    ASSUME NEW s \in Segments, NEW tx, SettledAt(tx, s), check = "black_screen",
           Kept(tx, s), Quiet(tx),
           NEW e \in Events, e = tx.store.open, e.id \in tx.pre.saved
    PROVE  LET t == Black!LoseEvent(tx, e)
           IN  /\ SettledAt(t, s) /\ t.pre = tx.pre /\ t.store.open = None
               /\ Kept(t, s) /\ Quiet(t)
               /\ t.store.history = tx.store.history
               /\ t.store.incident = tx.store.incident
<1> DEFINE pre == tx.pre
           sv == tx.store.saved
           r == tx.store.recovery
           h == tx.store.history
           i == tx.store.incident
           al == tx.alerts
           pe == tx.pending
           due == NoError
           w == "silence"
           x == NewRecovery(e.id, "CONTINUOUS", e, e)
           t == Black!LoseEvent(tx, e)
           al1 == IF due THEN Append(al, OpenAlertOf(e, w)) ELSE al
           sw == sv \cup {e.id}
           r1 == IF e.sent \/ due THEN x ELSE r
<1> USE NoneAssumption
<1>1. /\ Settled(s, pre, e, sv, r, h, i, al)
      /\ tx = Tx(pre, e, sv, r, h, i, al, pe) /\ e # None
  BY Zenon DEF SettledAt, IsTx
<1>2. /\ e.id \in Ids /\ e.sent \in BOOLEAN
      /\ e.gen \in Generations /\ e.disc \in Nat
  BY DEF Events
<1>3. /\ x \in Recoveries /\ x.id = e.id /\ x.kind = "CONTINUOUS"
      /\ x.healthy = 0 /\ x # None
      /\ x = Black!NewRecovery(e.id, "CONTINUOUS", e, e)
  BY <1>2, NewRecoveryIs
<1>4. Heir(e, e) /\ OpenHeld(e, sv, r)
  BY <1>1 DEF Heir, OpenHeld, Settled, Held
<1>5. e.sent => r = None
  BY <1>1, <1>4 DEF OpenHeld
<1>6. due \in BOOLEAN /\ ~ due /\ w \in Whys
  BY DEF NoError, Whys
<1>7. r1 = IF e.sent THEN x ELSE r
  BY <1>6
<1> HIDE DEF pre, sv, h, i, al, pe, x, due, w
<1>8. Settled(s, pre, None, sw, r1, h, i, al1)
  <2>1. x.id \in pre.saved
    BY <1>3 DEF pre
  <2> HIDE DEF r
  <2> QED BY ZenonT(40), <1>1, <1>3, <1>4, <1>6, <2>1, SettledClosed
<1>9. al1 = al
  BY <1>6
<1> HIDE DEF al1
<1>10. Settled(s, pre, None, sw, r1, h, i, al)
  BY <1>8, <1>9
<1>11. t = Tx(pre, None, sw, r1, h, i, al, pe)
  <2> HIDE DEF r, r1
  <2>1. Black!SaveClosed(tx, e) = Tx(pre, None, sw, r, h, i, al, pe)
    BY <1>1, BlackOps
  <2> HIDE DEF sw
  <2>2. CASE e.sent
    <3>1. t = Black!SaveRecovery(Black!SaveClosed(tx, e), x)
      BY <1>3, <1>5, <2>2 DEF Black!LoseEvent, r
    <3> HIDE DEF t
    <3> QED BY <1>7, <2>1, <2>2, <3>1, BlackOps
  <2>3. CASE ~ e.sent
    <3>1. t = Black!SaveClosed(tx, e)
      BY <2>3 DEF Black!LoseEvent
    <3> QED BY <1>7, <2>1, <2>3, <3>1
  <2> QED BY <2>2, <2>3
<1> HIDE DEF t, r1, sw
<1>12. /\ SettledAt(t, s) /\ t.pre = pre /\ t.store.open = None
       /\ t.store.recovery = r1 /\ t.store.history = h /\ t.store.incident = i
  BY <1>10, <1>11, SettledIs
<1>13. Kept(t, s) /\ Quiet(t)
  <2>1. CASE e.sent
    BY <1>3, <1>5, <1>7, <1>12, <2>1 DEF Kept, Quiet, pre
  <2>2. CASE ~ e.sent
    BY <1>7, <1>12, <2>2 DEF Kept, Quiet, pre
  <2> QED BY <2>1, <2>2
<1> QED BY <1>12, <1>13 DEF t, pre, h, i

\* A segment is not checked.
LEMMA BlackUnknown ==
    ASSUME NEW s \in Segments, NEW tx, SettledAt(tx, s), check = "black_screen",
           tx.store.open = None, Kept(tx, s)
    PROVE  LET t == Black!UnknownObservation(tx, s)
           IN  /\ SettledAt(t, s) /\ t.pre = tx.pre /\ t.store.open = None
               /\ Kept(t, s) /\ Quiet(t)
<1> DEFINE a == Black!LeaveTimeline(tx, s)
           m == s.seq
           t == Black!UnknownObservation(tx, s)
<1>1. m \in Nat
  BY DEF Segments
<1>2. Following(tx, s)
  BY DEF Following
<1>3. /\ SettledAt(a, s) /\ a.pre = tx.pre /\ a.store.open = tx.store.open
      /\ OnTime(a, s) /\ Kept(a, s)
  BY <1>2, BlackLeaves
<1>4. t = IF a.store.recovery = None THEN a
          ELSE Black!ContinuePendingRecovery(a, s, m)
  BY Zenon DEF Black!UnknownObservation
<1>5. Following(a, s)
  BY <1>3 DEF Following
<1> HIDE DEF a, t, m
<1>6. CASE a.store.recovery = None
  <2>1. t = a
    BY <1>4, <1>6
  <2> QED BY <1>3, <1>6, <2>1 DEF Quiet, t
<1>7. CASE a.store.recovery # None
  <2>1. t = Black!ContinuePendingRecovery(a, s, m)
    BY <1>4, <1>7
  <2>2. LET x == t.store.recovery
        IN  /\ SettledAt(t, s) /\ t.pre = a.pre
            /\ t.store.open = a.store.open
            /\ x # None /\ x.id = a.store.recovery.id
            /\ x.kind = a.store.recovery.kind
            /\ x.healthy = 0 /\ SameTimeline(x, s)
    BY <1>1, <1>3, <1>5, <1>7, <2>1, BlackContinues
  <2> QED BY <1>3, <2>2 DEF Kept, Quiet, t
<1> QED BY <1>6, <1>7

\* What a healthy segment makes of the alert that waits.
Healed(t, tx, s) ==
    LET r == tx.store.recovery
        x == t.store.recovery
    IN  /\ r = None \/ ~ SameTimeline(r, s) => x = None
        /\ r # None /\ SameTimeline(r, s) /\ s.seq # r.last + 1 =>
              /\ x # None /\ x.id = r.id /\ x.kind = r.kind /\ x.healthy = 0
              /\ x.last = s.seq /\ SameTimeline(x, s)
        /\ r # None /\ SameTimeline(r, s) /\ s.seq = r.last + 1
              /\ r.healthy + 1 >= RecoveryHealthy => x = None
        /\ r # None /\ SameTimeline(r, s) /\ s.seq = r.last + 1
              /\ r.healthy + 1 < RecoveryHealthy =>
              /\ x # None /\ x.id = r.id /\ x.kind = r.kind
              /\ x.healthy = r.healthy + 1
              /\ x.last = s.seq /\ SameTimeline(x, s)

\* A healthy segment.
LEMMA BlackHeals ==
    ASSUME NEW s \in Segments, NEW tx, SettledAt(tx, s), check = "black_screen",
           tx.store.open = None, Answers(tx, tx.pending)
    PROVE  LET t == Black!HealthyEvidence(tx, s)
           IN  /\ SettledAt(t, s) /\ t.pre = tx.pre /\ t.store.open = None
               /\ Healed(t, tx, s)
<1> DEFINE pre == tx.pre
           o == tx.store.open
           sv == tx.store.saved
           r == tx.store.recovery
           h == tx.store.history
           i == tx.store.incident
           al == tx.alerts
           pe == tx.pending
           m == s.seq
           n == r.healthy + 1
           x == [r EXCEPT !.healthy = n, !.last = m]
           b == CASE r = None -> tx
                  [] r # None /\ ~ SameTimeline(r, s) ->
                        Black!ResolvePendingRecovery(tx, "timeline_discontinued", pe)
                  [] r # None /\ SameTimeline(r, s) /\ m # r.last + 1 ->
                        Black!ContinuePendingRecovery(tx, s, m)
                  [] OTHER ->
                        IF n >= RecoveryHealthy
                           THEN Black!ResolvePendingRecovery(
                                    tx, "healthy_segment_confirmed", pe)
                           ELSE Black!SaveRecovery(tx, x)
           t == Black!HealthyEvidence(tx, s)
<1> USE NoneAssumption
<1>1. t = [b EXCEPT !.pending = None]
  BY BlackSame, Zenon DEF Black!HealthyEvidence
<1>2. ASSUME SettledAt(b, s), b.pre = pre, b.store.open = None, Healed(b, tx, s)
      PROVE  SettledAt(t, s) /\ t.pre = pre /\ t.store.open = None /\ Healed(t, tx, s)
  <2> HIDE DEF b
  <2> DEFINE bs == b.store.saved
             br == b.store.recovery
             bh == b.store.history
             bi == b.store.incident
             ba == b.alerts
             bp == b.pending
  <2>1. /\ Settled(s, pre, None, bs, br, bh, bi, ba)
        /\ b = Tx(pre, None, bs, br, bh, bi, ba, bp)
    BY <1>2, Zenon DEF SettledAt, IsTx
  <2> HIDE DEF bs, br, bh, bi, ba, bp, t, pre
  <2>2. t = Tx(pre, None, bs, br, bh, bi, ba, None)
    BY <1>1, <2>1, TxAssigns DEF SetPending
  <2>3. SettledAt(t, s) /\ t.pre = pre /\ t.store.open = None /\ t.store.recovery = br
    BY <2>1, <2>2, SettledIs
  <2> QED BY <1>2, <2>3 DEF Healed, br
<1>3. /\ Settled(s, pre, o, sv, r, h, i, al)
      /\ tx = Tx(pre, o, sv, r, h, i, al, pe)
  BY Zenon DEF SettledAt, IsTx
<1>4. Following(tx, s) /\ m \in Nat /\ r \in Recoveries \cup {None}
  BY <1>3 DEF Following, Segments, Settled, Held, Typed
<1>5. {"timeline_discontinued", "healthy_segment_confirmed"} \subseteq Whys
  BY DEF Whys
<1> SUFFICES SettledAt(b, s) /\ b.pre = pre /\ b.store.open = None /\ Healed(b, tx, s)
  BY <1>2
<1>6. CASE r = None
  <2>1. b = tx
    BY <1>6
  <2> QED BY <1>6, <2>1 DEF Healed
<1>7. ASSUME r # None, NEW w \in Whys, b = Black!ResolvePendingRecovery(tx, w, pe),
             ~ SameTimeline(r, s) \/ (m = r.last + 1 /\ n >= RecoveryHealthy)
      PROVE  SettledAt(b, s) /\ b.pre = pre /\ b.store.open = None
             /\ Healed(b, tx, s)
  <2> HIDE DEF b
  <2>1. /\ SettledAt(b, s) /\ b.pre = tx.pre /\ b.store.open = None
        /\ b.store.recovery = None
    BY <1>7, BlackResolves
  <2>2. m = r.last + 1 /\ n >= RecoveryHealthy => ~ (r.healthy + 1 < RecoveryHealthy)
    BY <1>4, <1>7, PolicyAssumption DEF Recoveries
  <2>3. Healed(b, tx, s)
    BY <1>7, <2>1, <2>2 DEF Healed
  <2> QED BY <2>1, <2>3
<1>8. CASE r # None /\ ~ SameTimeline(r, s)
  <2>1. b = Black!ResolvePendingRecovery(tx, "timeline_discontinued", pe)
    BY <1>8
  <2> HIDE DEF b, r, m, n, pe, pre
  <2> QED BY <1>5, <1>7, <1>8, <2>1
<1>9. CASE r # None /\ SameTimeline(r, s) /\ m # r.last + 1
  <2>1. b = Black!ContinuePendingRecovery(tx, s, m)
    BY <1>9
  <2>2. OnTime(tx, s)
    BY <1>9 DEF OnTime
  <2> HIDE DEF b, m
  <2>3. LET y == b.store.recovery
        IN  /\ SettledAt(b, s) /\ b.pre = tx.pre
            /\ b.store.open = tx.store.open
            /\ y # None /\ y.id = tx.store.recovery.id
            /\ y.kind = tx.store.recovery.kind
            /\ y.healthy = 0 /\ y.last = m /\ SameTimeline(y, s)
    BY <1>4, <1>9, <2>1, <2>2, BlackContinues
  <2>4. Healed(b, tx, s)
    BY <1>9, <2>3 DEF Healed, m
  <2> QED BY <2>3, <2>4
<1>10. CASE r # None /\ SameTimeline(r, s) /\ m = r.last + 1 /\ n >= RecoveryHealthy
  <2>1. b = Black!ResolvePendingRecovery(tx, "healthy_segment_confirmed", pe)
    BY <1>10
  <2> HIDE DEF b, r, m, n, pe, pre
  <2> QED BY <1>5, <1>7, <1>10, <2>1
<1>11. CASE r # None /\ SameTimeline(r, s) /\ m = r.last + 1
            /\ ~ (n >= RecoveryHealthy)
  <2>1. b = Black!SaveRecovery(tx, x)
    BY <1>11
  <2>2. n \in Nat /\ n < RecoveryHealthy
    BY <1>4, <1>11, PolicyAssumption DEF Recoveries
  <2>3. /\ x \in Recoveries /\ x.id = r.id /\ x.kind = r.kind
        /\ x.healthy = n /\ x.last = m /\ SameTimeline(x, r)
        /\ x.gen = r.gen /\ x # None
    <3>1. r \in Recoveries
      BY <1>4, <1>11
    <3> HIDE DEF r, n, m
    <3> QED BY <1>4, <2>2, <3>1 DEF Recoveries, SameTimeline
  <2>4. Settled(s, pre, o, sv, x, h, i, al)
    <3>1. Together(o, x)
      BY DEF Together
    <3> HIDE DEF x, pre, o, sv, r, h, i, al, n, m
    <3> QED BY <1>3, <1>11, <2>2, <2>3, <3>1, SettledObserved
  <2> HIDE DEF b, x, pre, o, sv, h, i, al, pe
  <2>5. b = Tx(pre, o, sv, x, h, i, al, pe)
    <3> HIDE DEF r
    <3> QED BY <1>3, <2>1, BlackOps
  <2>6. SettledAt(b, s) /\ b.pre = pre /\ b.store.open = o /\ b.store.recovery = x
    BY <2>4, <2>5, SettledIs
  <2>7. Healed(b, tx, s)
    <3>1. SameTimeline(x, s)
      BY <1>11, <2>3 DEF SameTimeline
    <3>2. x.healthy = r.healthy + 1 /\ r.healthy + 1 < RecoveryHealthy
      BY <2>2, <2>3
    <3>3. ~ (r.healthy + 1 >= RecoveryHealthy)
      BY <1>11
    <3> QED BY <1>11, <2>3, <2>6, <3>1, <3>2, <3>3 DEF Healed
  <2> QED BY <2>6, <2>7 DEF o
<1> QED BY <1>6, <1>8, <1>9, <1>10, <1>11

\* A transaction that is settled raised no error.
LEMMA NotRaised ==
    ASSUME NEW s, NEW tx, SettledAt(tx, s)
    PROVE  ~ tx.raised
<1>1. tx.raised = NoError
  BY TxFields DEF SettledAt, IsTx, Tx
<1> QED BY <1>1, Zenon DEF NoError

\* What a transition is applied by.
LEMMA BlackDispatch ==
    ASSUME NEW tx, ~ tx.raised, NEW s, NEW e
    PROVE  /\ Black!ApplyTransition(tx, Black!Transition("MARK_COMMITTED", e), s) = tx
           /\ Black!ApplyTransition(tx, Black!Transition("PERSIST_OPEN", e), s)
                = Black!PersistOpen(tx, e, s)
           /\ Black!ApplyTransition(tx, Black!Transition("CLOSE_EVENT", e), s)
                = Black!CloseEvent(tx, e, s)
           /\ Black!ApplyTransition(tx, Black!Transition("HEALTHY_EVIDENCE", e), s)
                = Black!HealthyEvidence(tx, s)
           /\ e # None =>
                 Black!ApplyTransition(tx, Black!Transition("UNKNOWN_GAP", e), s)
                   = Black!LoseEvent(tx, e)
           /\ Black!ApplyTransition(tx, Black!Transition("UNKNOWN_GAP", None), s)
                = Black!UnknownObservation(tx, s)
BY DEF Black!ApplyTransition, Black!Transition

\* After the transitions of k cuts; current is the open event they began with.
Midway(tx, k, current, st, s, cuts) ==
    /\ SettledAt(tx, s) /\ tx.pre = st
    /\ k = 0 => tx.store.open = current
    /\ k = 0 /\ current # None =>
          tx.store.history = st.history /\ tx.store.incident = st.incident
    /\ 0 < k /\ k < Len(cuts) => tx.store.open = None

\* The event of the next cut.
LEMMA NextCut ==
    ASSUME NEW k \in Nat, NEW current, NEW st, NEW s, NEW cuts, NEW tx,
           Midway(tx, k, current, st, s, cuts), k < Len(cuts),
           WellCut(cuts, current, s), current # None => SameTimeline(current, s)
    PROVE  LET e == cuts[k + 1].event
               kind == cuts[k + 1].kind
           IN  /\ e \in Events /\ kind \in Kinds
               /\ Heir(e, tx.store.open) /\ SameTimeline(e, s)
               /\ Following(tx, s)
               /\ kind = "open" => k + 1 = Len(cuts) /\ e.off = SegmentLength
               /\ kind # "open" /\ SegmentLength <= e.dur =>
                     /\ tx.store.open # None /\ k = 0
                     /\ tx.store.history = tx.pre.history
                     /\ tx.store.incident = tx.pre.incident
<1> DEFINE e == cuts[k + 1].event
           kind == cuts[k + 1].kind
           n == k + 1
<1> USE LengthAssumption
<1> DEFINE C == [kind : {"interrupted", "ended", "open"}, event : Events]
<1>0. cuts \in Seq(C)
  BY DEF WellCut
<1>1. n \in 1 .. Len(cuts) /\ Len(cuts) \in Nat
  <2> HIDE DEF C
  <2> QED BY <1>0
<1>2. cuts[n] \in C
  <2> HIDE DEF C
  <2> QED BY <1>0, <1>1
<1>3. /\ Kin(e, current, s, n)
      /\ kind = "interrupted" => n = 1 /\ current # None
      /\ kind = "ended" => e.off < SegmentLength
      /\ kind = "open" => n = Len(cuts) /\ e.off = SegmentLength
  BY <1>1 DEF WellCut
<1>4. e \in Events /\ kind \in Kinds
  BY <1>2 DEF Kinds
<1>5. e.dur \in Nat /\ e.off \in Nat /\ Len(cuts) \in Nat
  BY <1>1, <1>4 DEF Events
<1>6. k = 0 => tx.store.open = current
  BY DEF Midway
<1>7. k # 0 => tx.store.open = None
  BY DEF Midway
<1>8. Heir(e, tx.store.open) /\ SameTimeline(e, s)
  BY <1>3, <1>6, <1>7 DEF Kin, Heir
<1>9. Following(tx, s)
  BY <1>6, <1>7 DEF Following
<1>10. ASSUME kind # "open", SegmentLength <= e.dur
       PROVE  /\ tx.store.open # None /\ k = 0
              /\ tx.store.history = tx.pre.history
              /\ tx.store.incident = tx.pre.incident
  <2>1. n = 1 /\ current # None
    <3> SUFFICES ASSUME ~ (n = 1 /\ current # None) PROVE FALSE
      OBVIOUS
    <3>1. kind = "ended" /\ e.dur <= e.off
      BY <1>3, <1>4, <1>10 DEF Kin, Kinds
    <3> QED BY <1>3, <1>5, <1>10, <3>1
  <2>2. k = 0
    BY <2>1
  <2> QED BY <1>6, <2>1, <2>2 DEF Midway
<1> QED BY <1>3, <1>4, <1>8, <1>9, <1>10

\* The transitions of black screen between the cuts.
BlackMidway(tx, k, current, st, s, cuts) ==
    /\ Midway(tx, k, current, st, s, cuts) /\ Kept(tx, s)
    /\ k > 0 => Quiet(tx)

\* One more cut.
LEMMA BlackTurn ==
    ASSUME NEW k \in Nat, NEW current, NEW st, NEW s \in Segments, NEW cuts,
           NEW tx, check = "black_screen",
           BlackMidway(tx, k, current, st, s, cuts), k < Len(cuts),
           WellCut(cuts, current, s), current # None => SameTimeline(current, s)
    PROVE  BlackMidway(Black!ApplyTransition(tx, Black!TransitionOf(cuts[k + 1]), s),
                       k + 1, current, st, s, cuts)
<1> DEFINE e == cuts[k + 1].event
           kind == cuts[k + 1].kind
           t == Black!ApplyTransition(tx, Black!TransitionOf(cuts[k + 1]), s)
<1>1. Midway(tx, k, current, st, s, cuts) /\ SettledAt(tx, s) /\ Kept(tx, s)
      /\ tx.pre = st
  BY DEF BlackMidway, Midway
<1>2. /\ e \in Events /\ kind \in Kinds
      /\ Heir(e, tx.store.open) /\ SameTimeline(e, s)
      /\ Following(tx, s)
      /\ kind = "open" => k + 1 = Len(cuts) /\ e.off = SegmentLength
      /\ kind # "open" /\ SegmentLength <= e.dur =>
            /\ tx.store.open # None
            /\ tx.store.history = tx.pre.history
            /\ tx.store.incident = tx.pre.incident
  BY <1>1, NextCut
<1>3. ~ tx.raised
  BY <1>1, NotRaised
<1>4. k + 1 # 0 /\ k + 1 > 0 /\ Len(cuts) \in Nat
  BY DEF WellCut
<1>5. CASE kind = "open"
  <2>1. t = Black!PersistOpen(tx, e, s)
    BY <1>3, <1>5, BlackDispatch DEF Black!TransitionOf
  <2> HIDE DEF t, e, kind
  <2>2. SettledAt(t, s) /\ t.pre = tx.pre /\ Kept(t, s) /\ Quiet(t)
    BY <1>1, <1>2, <1>5, <2>1, BlackPersists
  <2>3. ~ (k + 1 < Len(cuts))
    BY <1>2, <1>4, <1>5
  <2>4. BlackMidway(t, k + 1, current, st, s, cuts)
    BY <1>1, <1>4, <2>2, <2>3 DEF BlackMidway, Midway
  <2> QED BY <2>4 DEF t
<1>6. CASE kind # "open"
  <2>1. t = Black!CloseEvent(tx, e, s)
    BY <1>3, <1>6, BlackDispatch DEF Black!TransitionOf
  <2> HIDE DEF t, e, kind
  <2>2. /\ SettledAt(t, s) /\ t.pre = tx.pre /\ t.store.open = None
        /\ OnTime(t, s) /\ Kept(t, s) /\ Quiet(t)
    BY <1>1, <1>2, <1>6, <2>1, BlackCloses
  <2>3. BlackMidway(t, k + 1, current, st, s, cuts)
    BY <1>1, <1>4, <2>2 DEF BlackMidway, Midway
  <2> QED BY <2>3 DEF t
<1> QED BY <1>5, <1>6

-----------------------------------------------------------------------------
(* What applying the evidence of a segment does.                            *)

\* The stores' copies of JoinIntervals.
LEMMA JoinSame ==
    ASSUME NEW o, NEW s, NEW e, NEW m
    PROVE  /\ Black!JoinIntervals(o, s, e, m) = JoinIntervals(o, s, e, m)
           /\ Freeze!JoinIntervals(o, s, e, m) = JoinIntervals(o, s, e, m)
           /\ Audio!JoinIntervals(o, s, e, m) = JoinIntervals(o, s, e, m)
           /\ Blocks!JoinIntervals(o, s, e, m) = JoinIntervals(o, s, e, m)
<1>1. Black!JoinIntervals(o, s, e, m) = JoinIntervals(o, s, e, m)
  BY DEF Black!JoinIntervals, JoinIntervals, Black!Fold, Fold,
         Black!CanContinue, CanContinue, Black!SequenceCanFollow,
         SequenceCanFollow, Black!SameTimeline, SameTimeline,
         Black!ExtendEvent, ExtendEvent, Black!NewEvent, NewEvent,
         Black!EventId, EventId, Black!Capped, Capped, Black!Cut, Cut
<1>2. Freeze!JoinIntervals(o, s, e, m) = JoinIntervals(o, s, e, m)
  BY DEF Freeze!JoinIntervals, JoinIntervals, Freeze!Fold, Fold,
         Freeze!CanContinue, CanContinue, Freeze!SequenceCanFollow,
         SequenceCanFollow, Freeze!SameTimeline, SameTimeline,
         Freeze!ExtendEvent, ExtendEvent, Freeze!NewEvent, NewEvent,
         Freeze!EventId, EventId, Freeze!Capped, Capped, Freeze!Cut, Cut
<1>3. Audio!JoinIntervals(o, s, e, m) = JoinIntervals(o, s, e, m)
  BY DEF Audio!JoinIntervals, JoinIntervals, Audio!Fold, Fold,
         Audio!CanContinue, CanContinue, Audio!SequenceCanFollow,
         SequenceCanFollow, Audio!SameTimeline, SameTimeline,
         Audio!ExtendEvent, ExtendEvent, Audio!NewEvent, NewEvent,
         Audio!EventId, EventId, Audio!Capped, Capped, Audio!Cut, Cut
<1>4. Blocks!JoinIntervals(o, s, e, m) = JoinIntervals(o, s, e, m)
  BY DEF Blocks!JoinIntervals, JoinIntervals, Blocks!Fold, Fold,
         Blocks!CanContinue, CanContinue, Blocks!SequenceCanFollow,
         SequenceCanFollow, Blocks!SameTimeline, SameTimeline,
         Blocks!ExtendEvent, ExtendEvent, Blocks!NewEvent, NewEvent,
         Blocks!EventId, EventId, Blocks!Capped, Capped, Blocks!Cut, Cut
<1> QED BY <1>1, <1>2, <1>3, <1>4

\* The elements of a sequence that begins with one element, or with none.
LEMMA AfterGap ==
    ASSUME NEW x, NEW n \in Nat, NEW ys, ys = [k \in 1 .. n |-> ys[k]]
    PROVE  /\ LET q == <<x>> \o ys
              IN  /\ Len(q) = n + 1 /\ q[1] = x
                  /\ \A k \in 1 .. n : q[k + 1] = ys[k]
           /\ LET q == <<>> \o ys
              IN  /\ Len(q) = n
                  /\ \A k \in 1 .. n : q[k] = ys[k]
<1> DEFINE R == {ys[k] : k \in 1 .. n}
<1>1. Len(ys) = n /\ ys \in Seq(R \cup {x})
  OBVIOUS
<1>2. <<x>> \in Seq(R \cup {x}) /\ Len(<<x>>) = 1 /\ <<x>>[1] = x
  OBVIOUS
<1> HIDE DEF R
<1> DEFINE a == <<x>>
<1> HIDE DEF a
<1>3. /\ Len(a \o ys) = n + 1 /\ (a \o ys)[1] = x
      /\ \A k \in 1 .. n : (a \o ys)[k + 1] = ys[k]
  BY <1>1, <1>2 DEF a
<1>4. <<>> \o ys = ys
  BY <1>1
<1> QED BY <1>1, <1>3, <1>4 DEF a

\* q is the list of x and y.
Pair(q, x, y) == Len(q) = 2 /\ q[1] = x /\ q[2] = y

\* Two short lists.
LEMMA PairIs ==
    ASSUME NEW x, NEW y
    PROVE  /\ \A q : q = <<x>> \o <<y>> => Pair(q, x, y)
           /\ \A q : q = (<<x>> \o <<>>) \o <<y>> => Pair(q, x, y)
           /\ \A q : q = (<<>> \o <<x>>) \o <<y>> => Pair(q, x, y)
<1> DEFINE b == <<y>>
           e == <<>>
           a == <<x>>
<1>1. /\ b = [k \in 1 .. 1 |-> b[k]] /\ b[1] = y
      /\ e = [k \in 1 .. 0 |-> e[k]]
      /\ a = [k \in 1 .. 1 |-> a[k]] /\ a \in Seq({x})
  OBVIOUS
<1>2. a \o e = a
  BY <1>1
<1>3. e \o a = a
  BY <1>1
<1>4. ASSUME NEW q, q = a \o b PROVE Pair(q, x, y)
  <2>1. Len(q) = 1 + 1 /\ q[1] = x /\ \A k \in 1 .. 1 : q[k + 1] = b[k]
    <3>1. q = <<x>> \o b
      BY <1>4
    <3> HIDE DEF b, a, e
    <3> QED BY <1>1, <3>1, AfterGap
  <2>2. q[1 + 1] = b[1]
    <3>1. 1 \in 1 .. 1
      OBVIOUS
    <3> HIDE DEF b
    <3> QED BY <2>1, <3>1
  <2> QED BY <1>1, <2>1, <2>2 DEF Pair
<1> HIDE DEF a, b, e
<1>5. \A q : q = a \o b => Pair(q, x, y)
  BY <1>4, Zenon
<1>6. /\ \A q : q = (a \o e) \o b => Pair(q, x, y)
      /\ \A q : q = (e \o a) \o b => Pair(q, x, y)
  BY <1>2, <1>3, <1>5
<1> QED BY <1>5, <1>6, Zenon DEF a, b, e

\* The evidence a store accepts.
Seen(evidence) ==
    /\ evidence.checked \in BOOLEAN /\ Picture(evidence.intervals)
    /\ ~ evidence.checked => evidence.intervals = <<>>

\* What the store is left with.
Left(result) ==
    /\ result.raised = FALSE /\ StoreHeld(result.store)
    /\ KnownHeld(Told(result.alerts), result.store.open, result.store.recovery)

\* What it is left with after a segment that was not healthy.
BlackSick(result, st, s) ==
    /\ Left(result)
    /\ result.store.recovery # None => result.store.recovery.healthy = 0
    /\ st.recovery # None /\ SameTimeline(st.recovery, s) =>
          /\ result.store.recovery # None
          /\ result.store.recovery.id = st.recovery.id
          /\ result.store.recovery.kind = st.recovery.kind

\* The same, from the last transaction.
LEMMA BlackSickIs ==
    ASSUME NEW s, NEW tx, SettledAt(tx, s), NEW st, tx.pre = st,
           Kept(tx, s), Quiet(tx)
    PROVE  BlackSick(Black!Execute(tx), st, s)
<1> DEFINE result == Black!Execute(tx)
<1>1. Done(result, tx)
  BY ExecuteIs
<1> HIDE DEF result
<1>2. BlackSick(result, st, s)
  BY <1>1 DEF Done, BlackSick, Left, Kept, Quiet
<1> QED BY <1>2 DEF result

\* A segment with intervals.
LEMMA BlackIntervals ==
    ASSUME NEW s \in Segments, NEW st, StoreHeld(st),
           KnownHeld(live, st.open, st.recovery), check = "black_screen",
           st.open # None /\ st.recovery # None => st.recovery.healthy = 0,
           NEW evidence, Seen(evidence), evidence.intervals # <<>>
    PROVE  BlackSick(Black!Apply(st, s, evidence), st, s)
<1> DEFINE open == st.open
           gone == open # None /\ ~ SequenceCanFollow(open, s)
           current == IF gone THEN None ELSE open
           cuts == JoinIntervals(current, s, evidence, TRUE)
           N == Len(cuts)
           ys == [n \in DOMAIN cuts |-> Black!TransitionOf(cuts[n])]
           gap == IF gone THEN <<Black!Transition("UNKNOWN_GAP", open)>> ELSE <<>>
           q == Black!Reduce(open, s, evidence)
           L == IF gone THEN 1 ELSE 0
<1> USE NoneAssumption
<1>1. q = gap \o ys
  <2>1. evidence.checked
    BY DEF Seen
  <2>2. Black!SequenceCanFollow(open, s) = SequenceCanFollow(open, s)
    BY BlackSame
  <2>3. Black!JoinIntervals(current, s, evidence, TRUE)
          = JoinIntervals(current, s, evidence, TRUE)
    BY JoinSame
  <2> QED BY <2>1, <2>2, <2>3, Zenon DEF Black!Reduce
<1>2. /\ open \in Events \cup {None}
      /\ open # None => /\ open.off = SegmentLength /\ open.id \in st.saved
                        /\ open.dur \in 1 .. AlertDuration
  BY DEF StoreHeld, Held, Typed, OpenHeld
<1>3. Continuable(current, s) /\ (current # None => SameTimeline(current, s))
  BY <1>2 DEF Continuable, SequenceCanFollow
<1>4. WellCut(cuts, current, s) /\ cuts # <<>>
  <2> HIDE DEF current
  <2> QED BY <1>3, JoinIntervalsWellCut DEF Seen
<1>5. N \in Nat /\ N >= 1 /\ DOMAIN cuts = 1 .. N
  <2> HIDE DEF cuts
  <2>1. cuts \in Seq([kind : {"interrupted", "ended", "open"}, event : Events])
    BY <1>4 DEF WellCut
  <2> DEFINE C == [kind : {"interrupted", "ended", "open"}, event : Events]
  <2> HIDE DEF C
  <2> QED BY <1>4, <2>1 DEF C
<1> HIDE DEF cuts, N, current
<1>6. /\ Len(q) = L + N /\ L \in Nat
      /\ gone => q[1] = Black!Transition("UNKNOWN_GAP", open)
      /\ \A k \in 1 .. N : q[L + k] = Black!TransitionOf(cuts[k])
  <2>1. /\ ys = [k \in 1 .. N |-> ys[k]]
       /\ \A k \in 1 .. N : ys[k] = Black!TransitionOf(cuts[k])
    BY <1>5
  <2> HIDE DEF ys, q
  <2>2. CASE gone
    <3> DEFINE x == Black!Transition("UNKNOWN_GAP", open)
    <3>1. q = <<x>> \o ys
      BY <1>1, <2>2
    <3> HIDE DEF x
    <3>2. Len(q) = N + 1 /\ q[1] = x /\ \A k \in 1 .. N : q[k + 1] = ys[k]
      BY <1>5, <2>1, <3>1, AfterGap
    <3> QED BY <1>5, <2>1, <2>2, <3>2 DEF x
  <2>3. CASE ~ gone
    <3>1. q = <<>> \o ys
      BY <1>1, <2>3
    <3>2. Len(q) = N /\ \A k \in 1 .. N : q[k] = ys[k]
      BY <1>5, <2>1, <3>1, AfterGap
    <3> QED BY <1>5, <2>1, <2>3, <3>2
  <2> QED BY <2>2, <2>3
<1> DEFINE qq == q
<1> HIDE DEF qq, L
<1>7. PICK f : BlackRuns(f, st, s, evidence, q)
  <2>1. qq = Black!Reduce(st.open, s, evidence) /\ Len(qq) \in Nat
    BY <1>5, <1>6 DEF qq
  <2>2. \E f : BlackRuns(f, st, s, evidence, qq)
    BY <2>1, BlackLoop
  <2> QED BY <2>2 DEF qq
<1>8. /\ SettledAt(f[0], s) /\ f[0].pre = st /\ f[0].store = st /\ st \in Stores
  <2>1. st \in Stores
    BY DEF StoreHeld
  <2>2. Begun(f[0], st)
    BY <1>7, <2>1, BeginIs DEF BlackRuns
  <2>3. SettledAt(f[0], s)
    BY <2>2, SettledBegun
  <2> QED BY <2>1, <2>2, <2>3 DEF Begun
<1>9. Kept(f[0], s)
  BY <1>8 DEF Kept
<1> DEFINE S == {k \in Nat : k <= N => BlackMidway(f[L + k], k, current, st, s, cuts)}
<1>10. BlackMidway(f[L], 0, current, st, s, cuts)
  <2>1. CASE gone
    <3>1. L = 1 /\ current = None
      BY <2>1 DEF L, current
    <3>2. f[1] = Black!ApplyTransition(f[0], q[1], s)
      <4>1. 1 \in 1 .. Len(q) /\ 1 - 1 = 0
        BY <1>5, <1>6, <3>1
      <4> QED BY <1>7, <4>1, Zenon DEF BlackRuns
    <3>3. f[1] = Black!LoseEvent(f[0], open)
      <4>1. ~ f[0].raised
        BY <1>8, NotRaised
      <4> QED BY <1>6, <2>1, <3>2, <4>1, BlackDispatch
    <3>4. Quiet(f[0])
      BY <1>8, <2>1 DEF Quiet
    <3>5. /\ SettledAt(f[1], s) /\ f[1].pre = st /\ f[1].store.open = None
          /\ Kept(f[1], s) /\ f[1].store.history = st.history
          /\ f[1].store.incident = st.incident
      <4>1. open \in Events /\ open = f[0].store.open /\ open.id \in f[0].pre.saved
        BY <1>2, <1>8, <2>1
      <4> HIDE DEF open, gone
      <4> QED BY <1>8, <1>9, <3>3, <3>4, <4>1, BlackLoses
    <3> QED BY <3>1, <3>5 DEF BlackMidway, Midway
  <2>2. CASE ~ gone
    <3>1. L = 0 /\ current = open
      BY <2>2 DEF L, current
    <3> QED BY <1>8, <1>9, <3>1 DEF BlackMidway, Midway
  <2> QED BY <2>1, <2>2
<1> HIDE DEF gap, ys, q, gone, open
<1>11. 0 \in S
  <2>1. L + 0 = L
    BY <1>6
  <2> QED BY <1>10, <2>1
<1>12. ASSUME NEW k \in Nat, k \in S PROVE k + 1 \in S
  <2> SUFFICES ASSUME k + 1 <= N
               PROVE  BlackMidway(f[L + (k + 1)], k + 1, current, st, s, cuts)
    OBVIOUS
  <2>1. BlackMidway(f[L + k], k, current, st, s, cuts) /\ k < Len(cuts)
    BY <1>5, <1>12 DEF N
  <2> DEFINE n == L + (k + 1)
  <2>2. n \in 1 .. Len(q) /\ n - 1 = L + k /\ k + 1 \in 1 .. N
    BY <1>5, <1>6
  <2>3. f[n] = Black!ApplyTransition(f[L + k], Black!TransitionOf(cuts[k + 1]), s)
    <3>1. f[n] = Black!ApplyTransition(f[n - 1], q[n], s)
      <4> HIDE DEF n
      <4> QED BY <1>7, <2>2, Zenon DEF BlackRuns
    <3> QED BY <1>6, <2>2, <3>1
  <2> HIDE DEF S
  <2>4. BlackMidway(Black!ApplyTransition(f[L + k],
                       Black!TransitionOf(cuts[k + 1]), s),
                    k + 1, current, st, s, cuts)
    <3> DEFINE tx == f[L + k]
    <3>1. BlackMidway(tx, k, current, st, s, cuts)
      BY <2>1
    <3> HIDE DEF tx
    <3>2. BlackMidway(Black!ApplyTransition(tx, Black!TransitionOf(cuts[k + 1]), s),
                      k + 1, current, st, s, cuts)
      BY <1>3, <1>4, <2>1, <3>1, BlackTurn
    <3> QED BY <3>2 DEF tx
  <2> QED BY <2>3, <2>4
<1> HIDE DEF S
<1>13. N \in S
  BY <1>5, <1>11, <1>12, Induct
<1> DEFINE tx == f[Len(q)]
<1>14. BlackMidway(tx, N, current, st, s, cuts)
  <2>1. BlackMidway(f[L + N], N, current, st, s, cuts)
    BY <1>5, <1>13 DEF S
  <2> QED BY <1>6, <2>1
<1>15. SettledAt(tx, s) /\ tx.pre = st /\ Kept(tx, s) /\ Quiet(tx)
  BY <1>5, <1>14 DEF BlackMidway, Midway
<1> HIDE DEF tx
<1>16. BlackSick(Black!Execute(tx), st, s)
  BY <1>15, BlackSickIs
<1> QED BY <1>7, <1>16 DEF BlackRuns, tx

\* The first transaction of the black-screen store.
LEMMA BlackBegins ==
    ASSUME NEW s, NEW st, StoreHeld(st), KnownHeld(live, st.open, st.recovery),
           NEW t, t = Black!Begin(st)
    PROVE  /\ SettledAt(t, s) /\ t.pre = st /\ t.store = st /\ t.pending = None
           /\ Kept(t, s) /\ Answers(t, None)
           /\ t.store.open # None => t.store.open.id \in st.saved
           /\ t.store.open \in Events \cup {None}
<1>1. Begun(t, st) /\ st \in Stores
  BY BeginIs DEF StoreHeld
<1>2. SettledAt(t, s)
  BY <1>1, SettledBegun
<1>3. t.store.recovery # None => Resolvable(st, t.store.recovery)
  BY <1>1, SettledBegun
<1>4. Kept(t, s)
  BY <1>1 DEF Begun, Kept
<1>5. Answers(t, None)
  BY <1>1, <1>3 DEF Begun, Answers, Resolvable
<1>6. /\ st.open # None => st.open.id \in st.saved
      /\ st.open \in Events \cup {None}
  BY DEF StoreHeld, Held, OpenHeld, Typed
<1> QED BY <1>1, <1>2, <1>4, <1>5, <1>6 DEF Begun

\* A segment that was not checked.
LEMMA BlackUnchecked ==
    ASSUME NEW s \in Segments, NEW st, StoreHeld(st),
           KnownHeld(live, st.open, st.recovery), check = "black_screen",
           st.open # None /\ st.recovery # None => st.recovery.healthy = 0,
           NEW evidence, ~ evidence.checked
    PROVE  BlackSick(Black!Apply(st, s, evidence), st, s)
<1> DEFINE open == st.open
           q == Black!Reduce(open, s, evidence)
           y == Black!Transition("UNKNOWN_GAP", None)
           x == Black!Transition("UNKNOWN_GAP", open)
           b == Black!Begin(st)
<1>1. /\ SettledAt(b, s) /\ b.pre = st /\ b.store = st
      /\ Kept(b, s) /\ (b.store.open # None => b.store.open.id \in st.saved)
      /\ b.store.open \in Events \cup {None}
  <2> HIDE DEF b
  <2> QED BY BlackBegins DEF b
<1>2. CASE open = None
  <2>1. q = <<>> \o <<y>>
    BY <1>2, Zenon DEF Black!Reduce
  <2> HIDE DEF y
  <2>2. Len(q) = 1 /\ q[1] = y
    BY <2>1
  <2>3. PICK f : BlackRuns(f, st, s, evidence, q)
    <3> DEFINE qq == q
    <3> HIDE DEF qq
    <3>1. qq = Black!Reduce(st.open, s, evidence) /\ Len(qq) \in Nat
      BY <2>2 DEF qq
    <3>2. \E f : BlackRuns(f, st, s, evidence, qq)
      BY <3>1, BlackLoop
    <3> QED BY <3>2 DEF qq
  <2> HIDE DEF q, b
  <2>4. f[1] = Black!ApplyTransition(b, y, s)
    <3>1. 1 \in 1 .. Len(q) /\ 1 - 1 = 0 /\ f[0] = b
      BY <2>2, <2>3 DEF BlackRuns, b
    <3> QED BY <2>2, <2>3, <3>1, Zenon DEF BlackRuns
  <2>5. f[1] = Black!UnknownObservation(b, s)
    <3>1. ~ b.raised
      BY <1>1, NotRaised
    <3> QED BY <2>4, <3>1, BlackDispatch DEF y
  <2>6. SettledAt(f[1], s) /\ f[1].pre = st /\ Kept(f[1], s) /\ Quiet(f[1])
    BY <1>1, <1>2, <2>5, BlackUnknown
  <2> DEFINE tx == f[1]
  <2> HIDE DEF tx
  <2>7. BlackSick(Black!Execute(tx), st, s)
    BY <2>6, BlackSickIs DEF tx
  <2> QED BY <2>2, <2>3, <2>7 DEF BlackRuns, tx
<1>3. CASE open # None
  <2>1. q = <<x>> \o <<y>>
    BY <1>3, Zenon DEF Black!Reduce
  <2> HIDE DEF x, y
  <2>2. Len(q) = 2 /\ q[1] = x /\ q[2] = y
    <3> HIDE DEF q
    <3>1. Pair(q, x, y)
      BY <2>1, PairIs
    <3> QED BY <3>1 DEF Pair
  <2>3. PICK f : BlackRuns(f, st, s, evidence, q)
    <3> DEFINE qq == q
    <3> HIDE DEF qq
    <3>1. qq = Black!Reduce(st.open, s, evidence) /\ Len(qq) \in Nat
      BY <2>2 DEF qq
    <3>2. \E f : BlackRuns(f, st, s, evidence, qq)
      BY <3>1, BlackLoop
    <3> QED BY <3>2 DEF qq
  <2> HIDE DEF q, b
  <2>4. f[1] = Black!ApplyTransition(b, x, s)
    <3>1. 1 \in 1 .. Len(q) /\ 1 - 1 = 0 /\ f[0] = b
      BY <2>2, <2>3 DEF BlackRuns, b
    <3> QED BY <2>2, <2>3, <3>1, Zenon DEF BlackRuns
  <2>5. f[2] = Black!ApplyTransition(f[1], y, s)
    <3>1. 2 \in 1 .. Len(q) /\ 2 - 1 = 1
      BY <2>2
    <3> QED BY <2>2, <2>3, <3>1, Zenon DEF BlackRuns
  <2>6. f[1] = Black!LoseEvent(b, open)
    <3>1. ~ b.raised
      BY <1>1, NotRaised
    <3> QED BY <1>3, <2>4, <3>1, BlackDispatch DEF x
  <2>7. /\ SettledAt(f[1], s) /\ f[1].pre = st /\ f[1].store.open = None
        /\ Kept(f[1], s)
    <3>1. open \in Events /\ open = b.store.open /\ open.id \in b.pre.saved
      BY <1>1, <1>3
    <3>2. Quiet(b)
      BY <1>1, <1>3 DEF Quiet
    <3> HIDE DEF open
    <3> QED BY <1>1, <2>6, <3>1, <3>2, BlackLoses
  <2>8. f[2] = Black!UnknownObservation(f[1], s)
    <3>1. ~ f[1].raised
      BY <2>7, NotRaised
    <3> QED BY <2>5, <3>1, BlackDispatch DEF y
  <2>9. SettledAt(f[2], s) /\ f[2].pre = st /\ Kept(f[2], s) /\ Quiet(f[2])
    BY <2>7, <2>8, BlackUnknown
  <2> DEFINE tx == f[2]
  <2> HIDE DEF tx
  <2>10. BlackSick(Black!Execute(tx), st, s)
    BY <2>9, BlackSickIs DEF tx
  <2> QED BY <2>2, <2>3, <2>10 DEF BlackRuns, tx
<1> QED BY <1>2, <1>3

\* What a store is left with after a healthy segment.
HealedStore(result, st, s) ==
    LET r == st.recovery
        x == result.store.recovery
    IN  /\ Left(result) /\ result.store.open = None
        /\ st.open = None => Healed(result, [store |-> st], s)
        /\ st.open # None =>
              /\ x # None =>
                    \/ x.healthy = 0
                    \/ x.healthy = 1 /\ x.last = s.seq /\ SameTimeline(x, s)
              /\ r # None /\ SameTimeline(r, s) =>
                    \/ RecoveryHealthy <= 1
                    \/ x # None /\ x.id = r.id /\ x.kind = r.kind

\* A healthy segment.
LEMMA BlackWell ==
    ASSUME NEW s \in Segments, NEW st, StoreHeld(st),
           KnownHeld(live, st.open, st.recovery), check = "black_screen",
           st.open # None /\ st.recovery # None => st.recovery.healthy = 0,
           NEW evidence, evidence.checked, evidence.intervals = <<>>
    PROVE  HealedStore(Black!Apply(st, s, evidence), st, s)
<1> DEFINE open == st.open
           gone == open # None /\ ~ SequenceCanFollow(open, s)
           q == Black!Reduce(open, s, evidence)
           y == Black!Transition("HEALTHY_EVIDENCE", None)
           m == Black!Transition("MARK_COMMITTED", None)
           x == Black!Transition("UNKNOWN_GAP", open)
           z == Black!Transition("CLOSE_EVENT", open)
           b == Black!Begin(st)
<1> USE PolicyAssumption
<1>1. /\ SettledAt(b, s) /\ b.pre = st /\ b.store = st /\ b.pending = None
      /\ Kept(b, s) /\ Answers(b, None)
      /\ (b.store.open # None => b.store.open.id \in st.saved)
      /\ b.store.open \in Events \cup {None}
  <2> HIDE DEF b
  <2> QED BY BlackBegins DEF b
<1>2. Black!SequenceCanFollow(open, s) = SequenceCanFollow(open, s)
  BY BlackSame
<1>3. ASSUME NEW n \in Nat, n >= 1, Len(q) = n
      PROVE  \E f : BlackRuns(f, st, s, evidence, q)
  <2> DEFINE qq == q
  <2> HIDE DEF qq
  <2>1. qq = Black!Reduce(st.open, s, evidence) /\ Len(qq) \in Nat
    BY <1>3 DEF qq
  <2>2. \E f : BlackRuns(f, st, s, evidence, qq)
    BY <2>1, BlackLoop
  <2> QED BY <2>2 DEF qq
<1>4. CASE open = None
  <2>1. q = (<<>> \o <<>>) \o <<y>>
    BY <1>4, Zenon DEF Black!Reduce
  <2> HIDE DEF y
  <2>2. Len(q) = 1 /\ q[1] = y
    BY <2>1
  <2>3. PICK f : BlackRuns(f, st, s, evidence, q)
    BY <1>3, <2>2
  <2> HIDE DEF q, b
  <2>4. f[1] = Black!ApplyTransition(b, y, s)
    <3>1. 1 \in 1 .. Len(q) /\ 1 - 1 = 0 /\ f[0] = b
      BY <2>2, <2>3 DEF BlackRuns, b
    <3> QED BY <2>2, <2>3, <3>1, Zenon DEF BlackRuns
  <2>5. f[1] = Black!HealthyEvidence(b, s)
    <3>1. ~ b.raised
      BY <1>1, NotRaised
    <3> QED BY <2>4, <3>1, BlackDispatch DEF y
  <2> DEFINE tx == f[1]
  <2>6. SettledAt(tx, s) /\ tx.pre = st /\ tx.store.open = None /\ Healed(tx, b, s)
    BY <1>1, <1>4, <2>5, BlackHeals
  <2> HIDE DEF tx
  <2> DEFINE result == Black!Execute(tx)
  <2>7. Done(result, tx)
    BY <2>6, ExecuteIs
  <2> HIDE DEF result
  <2>8. Healed(result, [store |-> st], s)
    BY <1>1, <2>6, <2>7 DEF Healed, Done
  <2>9. HealedStore(result, st, s)
    BY <1>4, <2>6, <2>7, <2>8 DEF HealedStore, Done, Left
  <2> QED BY <2>2, <2>3, <2>9 DEF BlackRuns, tx, result
<1>5. CASE gone
  <2>1. q = (<<x>> \o <<>>) \o <<m>>
    BY <1>2, <1>5, Zenon DEF Black!Reduce
  <2> HIDE DEF x, m
  <2>2. Len(q) = 2 /\ q[1] = x /\ q[2] = m
    <3> HIDE DEF q
    <3>1. Pair(q, x, m)
      BY <2>1, PairIs
    <3> QED BY <3>1 DEF Pair
  <2>3. PICK f : BlackRuns(f, st, s, evidence, q)
    BY <1>3, <2>2
  <2> HIDE DEF q, b
  <2>4. f[1] = Black!ApplyTransition(b, x, s)
    <3>1. 1 \in 1 .. Len(q) /\ 1 - 1 = 0 /\ f[0] = b
      BY <2>2, <2>3 DEF BlackRuns, b
    <3> QED BY <2>2, <2>3, <3>1, Zenon DEF BlackRuns
  <2>5. f[2] = Black!ApplyTransition(f[1], m, s)
    <3>1. 2 \in 1 .. Len(q) /\ 2 - 1 = 1
      BY <2>2
    <3> QED BY <2>2, <2>3, <3>1, Zenon DEF BlackRuns
  <2>6. f[1] = Black!LoseEvent(b, open)
    <3>1. ~ b.raised
      BY <1>1, NotRaised
    <3> QED BY <1>5, <2>4, <3>1, BlackDispatch DEF x
  <2>7. /\ SettledAt(f[1], s) /\ f[1].pre = st /\ f[1].store.open = None
        /\ Kept(f[1], s) /\ Quiet(f[1])
    <3>1. open \in Events /\ open = b.store.open /\ open.id \in b.pre.saved
      BY <1>1, <1>5
    <3>2. Quiet(b)
      BY <1>1, <1>5 DEF Quiet
    <3> HIDE DEF open
    <3> QED BY <1>1, <2>6, <3>1, <3>2, BlackLoses
  <2>8. f[2] = f[1]
    <3>1. ~ f[1].raised
      BY <2>7, NotRaised
    <3> QED BY <2>5, <3>1, BlackDispatch DEF m
  <2> DEFINE tx == f[2]
             result == Black!Execute(tx)
  <2>9. /\ SettledAt(tx, s) /\ tx.pre = st /\ tx.store.open = None
        /\ Kept(tx, s) /\ Quiet(tx)
    BY <2>7, <2>8
  <2> HIDE DEF tx
  <2>10. Done(result, tx)
    BY <2>9, ExecuteIs
  <2> HIDE DEF result
  <2>11. HealedStore(result, st, s)
    BY <1>5, <2>9, <2>10 DEF HealedStore, Done, Left, Kept, Quiet
  <2> QED BY <2>2, <2>3, <2>11 DEF BlackRuns, tx, result
<1>6. CASE open # None /\ ~ gone
  <2>1. q = (<<>> \o <<z>>) \o <<y>>
    BY <1>2, <1>6, Zenon DEF Black!Reduce
  <2> HIDE DEF y, z
  <2>2. Len(q) = 2 /\ q[1] = z /\ q[2] = y
    <3> HIDE DEF q
    <3>1. Pair(q, z, y)
      BY <2>1, PairIs
    <3> QED BY <3>1 DEF Pair
  <2>3. PICK f : BlackRuns(f, st, s, evidence, q)
    BY <1>3, <2>2
  <2> HIDE DEF q, b
  <2>4. f[1] = Black!ApplyTransition(b, z, s)
    <3>1. 1 \in 1 .. Len(q) /\ 1 - 1 = 0 /\ f[0] = b
      BY <2>2, <2>3 DEF BlackRuns, b
    <3> QED BY <2>2, <2>3, <3>1, Zenon DEF BlackRuns
  <2>5. f[2] = Black!ApplyTransition(f[1], y, s)
    <3>1. 2 \in 1 .. Len(q) /\ 2 - 1 = 1
      BY <2>2
    <3> QED BY <2>2, <2>3, <3>1, Zenon DEF BlackRuns
  <2>6. f[1] = Black!CloseEvent(b, open, s)
    <3>1. ~ b.raised
      BY <1>1, NotRaised
    <3> QED BY <2>4, <3>1, BlackDispatch DEF z
  <2> DEFINE c == f[1]
  <2>7. /\ SettledAt(c, s) /\ c.pre = st /\ c.store.open = None
        /\ OnTime(c, s) /\ Kept(c, s) /\ Quiet(c) /\ Answers(c, c.pending)
    <3>1. open = b.store.open /\ open # None /\ SameTimeline(open, s)
      BY <1>1, <1>6 DEF SequenceCanFollow
    <3>2. Heir(open, b.store.open)
      BY <1>1, <3>1 DEF SettledAt, Settled, Held, OpenHeld, Heir
    <3>3. Following(b, s) /\ b.store.history = b.pre.history
          /\ b.store.incident = b.pre.incident /\ open.id \in b.pre.saved
      BY <1>1, <3>1 DEF Following
    <3> HIDE DEF open
    <3> QED BY <1>1, <2>6, <3>1, <3>2, <3>3, BlackCloses
  <2>8. f[2] = Black!HealthyEvidence(c, s)
    <3>1. ~ f[1].raised
      BY <2>7, NotRaised
    <3> QED BY <2>5, <3>1, BlackDispatch DEF y
  <2> DEFINE tx == f[2]
             result == Black!Execute(tx)
  <2> HIDE DEF c
  <2>9. SettledAt(tx, s) /\ tx.pre = st /\ tx.store.open = None /\ Healed(tx, c, s)
    BY <2>7, <2>8, BlackHeals
  <2> HIDE DEF tx
  <2>10. Done(result, tx)
    BY <2>9, ExecuteIs
  <2> HIDE DEF result
  <2>11. HealedStore(result, st, s)
    <3> DEFINE r1 == c.store.recovery
               x1 == tx.store.recovery
    <3>1. r1 # None => r1.healthy = 0 /\ SameTimeline(r1, s)
      BY <2>7 DEF Quiet, OnTime
    <3>2. x1 # None =>
             /\ r1 # None /\ x1.id = r1.id /\ x1.kind = r1.kind
             /\ \/ x1.healthy = 0
                \/ x1.healthy = 1 /\ x1.last = s.seq /\ SameTimeline(x1, s)
      BY <2>9, <3>1 DEF Healed
    <3>3. r1 # None => x1 # None \/ RecoveryHealthy <= 1
      BY <2>9, <3>1 DEF Healed
    <3>4. st.recovery # None /\ SameTimeline(st.recovery, s) =>
             r1 # None /\ r1.id = st.recovery.id /\ r1.kind = st.recovery.kind
      BY <2>7 DEF Kept
    <3>5. result.store.recovery = x1 /\ result.store.open = None /\ Left(result)
      BY <2>9, <2>10 DEF Done, Left
    <3> HIDE DEF r1, x1
    <3> QED BY <1>6, <3>2, <3>3, <3>4, <3>5 DEF HealedStore
  <2> QED BY <2>2, <2>3, <2>11 DEF BlackRuns, tx, result
<1> QED BY <1>4, <1>5, <1>6

-----------------------------------------------------------------------------
(* The transitions of the freeze store.                                     *)

\* The freeze store's copies of shared operators.
LEMMA FreezeSame ==
    ASSUME NEW x, NEW s
    PROVE  /\ Freeze!SameTimeline(x, s) = SameTimeline(x, s)
           /\ Freeze!SequenceCanFollow(x, s) = SequenceCanFollow(x, s)
BY DEF Freeze!SameTimeline, SameTimeline, Freeze!SequenceCanFollow,
       SequenceCanFollow

\* Resolving the alert that waits.
LEMMA FreezeResolves ==
    ASSUME NEW s, NEW tx, SettledAt(tx, s), tx.store.open = None,
           tx.store.recovery # None, NEW pending, Answers(tx, pending),
           NEW why \in Whys
    PROVE  LET t == Freeze!ResolveRecovery(tx, why, pending)
           IN  /\ SettledAt(t, s) /\ t.pre = tx.pre /\ t.store.open = None
               /\ t.store.recovery = None /\ t.pending = tx.pending
<1> DEFINE pre == tx.pre
           sv == tx.store.saved
           r == tx.store.recovery
           h == tx.store.history
           i == tx.store.incident
           al == tx.alerts
           pe == tx.pending
           t == Freeze!ResolveRecovery(tx, why, pending)
           al1 == Append(al, Alert("RESOLVED", r.kind, r.id, why))
<1> USE NoneAssumption
<1>1. /\ Settled(s, pre, None, sv, r, h, i, al) /\ r # None
      /\ tx = Tx(pre, None, sv, r, h, i, al, pe)
  BY Zenon DEF SettledAt, IsTx
<1>2. r \in Recoveries
  BY <1>1 DEF Settled, Held, Typed
<1>3. r.kind \in {"CONTINUOUS", "REPEATED"}
  BY <1>2 DEF Recoveries
<1> SUFFICES /\ SettledAt(t, s) /\ t.pre = pre /\ t.store.open = None
             /\ t.store.recovery = None /\ t.pending = pe
  OBVIOUS
<1>4. CASE r.kind = "CONTINUOUS"
  <2>1. r.id \in pre.saved
    BY <1>1, <1>4 DEF Answers
  <2>2. Settled(s, pre, None, sv, None, h, i, al1)
    BY <1>1, <1>4, SettledResolved
  <2>3. t = Freeze!DeleteRecovery(
               Freeze!Publish(ClearOpen(tx),
                              Freeze!Alert("RESOLVED", "CONTINUOUS", r.id, why)))
    BY <1>4, <2>1 DEF Freeze!ResolveRecovery, ClearOpen
  <2>4. Freeze!Alert("RESOLVED", "CONTINUOUS", r.id, why)
           = Alert("RESOLVED", r.kind, r.id, why)
    BY <1>4 DEF Alert, Freeze!Alert
  <2> HIDE DEF pre, sv, r, h, i, al, pe, t
  <2>5. ClearOpen(tx) = tx
    BY <1>1, TxAssigns
  <2>6. t = Tx(pre, None, sv, None, h, i, al1, pe)
    BY <1>1, <2>3, <2>4, <2>5, FreezeOps
  <2> HIDE DEF al1
  <2> QED BY <2>2, <2>6, SettledIs
<1>5. CASE r.kind = "REPEATED"
  <2> DEFINE g == r.gen
             state == IF pending # None THEN pending
                      ELSE Freeze!LoadRepeated(pre, g)
             h1 == [h EXCEPT ![g] = {}]
             i1 == [i EXCEPT ![g] = None]
             w == [history |-> {}, incident |-> None]
  <2>1. state.incident # None /\ state.incident.id = r.id
    BY <1>1, <1>5 DEF Answers, Freeze!LoadRepeated
  <2>2. Settled(s, pre, None, sv, None, h1, i1, al1)
    BY <1>1, <1>5, SettledResolved
  <2>3. t = Freeze!DeleteRecovery(Freeze!ResolveIncident(tx, g, pending, why))
    BY <1>5 DEF Freeze!ResolveRecovery
  <2>4. Freeze!ResolveIncident(tx, g, pending, why)
          = Freeze!Publish(Freeze!WriteRepeated(tx, g, w),
                           Freeze!Alert("RESOLVED", "REPEATED", r.id, why))
    <3> HIDE DEF r, g
    <3> QED BY <2>1, Zenon DEF Freeze!ResolveIncident
  <2>5. Freeze!Alert("RESOLVED", "REPEATED", r.id, why)
           = Alert("RESOLVED", r.kind, r.id, why)
    BY <1>5 DEF Alert, Freeze!Alert
  <2>6. w.history = {} /\ w.incident = None
    OBVIOUS
  <2> HIDE DEF pre, sv, r, h, i, al, pe, t, g, w
  <2>7. Freeze!WriteRepeated(tx, g, w) = Tx(pre, None, sv, r, h1, i1, al, pe)
    <3>1. Freeze!WriteRepeated(tx, g, w)
            = Tx(pre, None, sv, r, With(h, g, w.history),
                 With(i, g, w.incident), al, pe)
      BY <1>1, FreezeOps
    <3> QED BY <2>6, <3>1, Zenon DEF With
  <2> HIDE DEF h1, i1
  <2>8. t = Tx(pre, None, sv, None, h1, i1, al1, pe)
    BY <2>3, <2>4, <2>5, <2>7, FreezeOps
  <2> HIDE DEF al1
  <2> QED BY <2>2, <2>8, SettledIs
<1> QED BY <1>3, <1>4, <1>5

\* The alert that waits goes on waiting, or its timeline has ended.
LEMMA FreezeContinues ==
    ASSUME NEW s \in Segments, NEW tx, SettledAt(tx, s), check = "video_freeze",
           Following(tx, s)
    PROVE  LET t == Freeze!ContinueRecovery(tx, s)
               r == tx.store.recovery
               x == t.store.recovery
           IN  /\ SettledAt(t, s) /\ t.pre = tx.pre
               /\ t.store.open = tx.store.open /\ t.pending = tx.pending
               /\ OnTime(t, s)
               /\ r # None /\ SameTimeline(r, s) =>
                     /\ x # None /\ x.id = r.id /\ x.kind = r.kind
                     /\ x.healthy = 0 /\ x.last = s.seq /\ SameTimeline(x, s)
<1> DEFINE pre == tx.pre
           o == tx.store.open
           sv == tx.store.saved
           r == tx.store.recovery
           h == tx.store.history
           i == tx.store.incident
           al == tx.alerts
           pe == tx.pending
           m == s.seq
           x == [r EXCEPT !.healthy = 0, !.last = m]
           t == Freeze!ContinueRecovery(tx, s)
<1> USE NoneAssumption, PolicyAssumption
<1>1. /\ Settled(s, pre, o, sv, r, h, i, al)
      /\ tx = Tx(pre, o, sv, r, h, i, al, pe)
      /\ o # None => SameTimeline(o, s)
  BY DEF SettledAt, IsTx, Following
<1>2. r \in Recoveries \cup {None} /\ m \in Nat
  BY <1>1 DEF Settled, Held, Typed, Segments
<1>3. CASE r = None
  <2>1. t = tx
    BY <1>3 DEF Freeze!ContinueRecovery
  <2> QED BY <1>3, <2>1 DEF OnTime
<1>4. CASE r # None /\ ~ SameTimeline(r, s)
  <2>1. t = Freeze!ResolveRecovery(tx, "timeline_discontinued", None)
    BY <1>4, FreezeSame DEF Freeze!ContinueRecovery
  <2>2. Together(o, r) /\ Resolvable(pre, r)
    BY <1>1, <1>4 DEF Settled, Held
  <2>3. tx.store.open = None
    BY <1>1, <1>4, <2>2 DEF Together, SameTimeline
  <2>4. Answers(tx, None)
    BY <2>2 DEF Resolvable, Answers
  <2>5. "timeline_discontinued" \in Whys
    BY DEF Whys
  <2> HIDE DEF t
  <2>6. /\ SettledAt(t, s) /\ t.pre = tx.pre /\ t.store.open = None
        /\ t.store.recovery = None /\ t.pending = tx.pending
    BY <1>4, <2>1, <2>3, <2>4, <2>5, FreezeResolves
  <2> QED BY <1>4, <2>3, <2>6 DEF OnTime, t
<1>5. CASE r # None /\ SameTimeline(r, s)
  <2>1. t = Freeze!SaveRecovery(tx, x)
    BY <1>5, FreezeSame DEF Freeze!ContinueRecovery
  <2>2. /\ x \in Recoveries /\ x.id = r.id /\ x.kind = r.kind
        /\ x.healthy = 0 /\ x.last = m /\ SameTimeline(x, r)
        /\ x.gen = r.gen /\ x # None
    <3>1. r \in Recoveries
      BY <1>2, <1>5
    <3> DEFINE n == 0
    <3>2. n \in Nat /\ n = 0
      OBVIOUS
    <3> HIDE DEF n
    <3>3. x = [r EXCEPT !.healthy = n, !.last = m]
      BY <3>2
    <3> HIDE DEF r, m, x
    <3>4. /\ x \in Recoveries /\ x.id = r.id /\ x.kind = r.kind
          /\ x.healthy = n /\ x.last = m /\ SameTimeline(x, r)
          /\ x.gen = r.gen
      BY <1>2, <3>1, <3>2, <3>3 DEF Recoveries, SameTimeline
    <3> QED BY <3>2, <3>4
  <2> HIDE DEF x, pre, o, sv, h, i, al, pe, m, t
  <2>3. SameTimeline(x, s)
    BY <1>5, <2>2 DEF SameTimeline
  <2>4. Settled(s, pre, o, sv, x, h, i, al)
    <3>1. Together(o, x)
      BY <1>1, <2>3 DEF Together, SameTimeline
    <3>2. x.healthy < RecoveryHealthy
      BY <2>2
    <3> HIDE DEF r
    <3> QED BY <1>1, <1>5, <2>2, <2>3, <3>1, <3>2, SettledObserved
  <2>5. t = Tx(pre, o, sv, x, h, i, al, pe)
    <3> HIDE DEF r
    <3> QED BY <1>1, <2>1, FreezeOps
  <2>6. /\ SettledAt(t, s) /\ t.pre = pre /\ t.store.open = o
        /\ t.store.recovery = x /\ t.pending = pe
    BY <2>4, <2>5, SettledIs
  <2> QED BY <2>2, <2>3, <2>6 DEF OnTime, pre, o, pe, t, m
<1> QED BY <1>3, <1>4, <1>5

\* The event goes on.
LEMMA FreezePersists ==
    ASSUME NEW s \in Segments, NEW tx, SettledAt(tx, s), check = "video_freeze",
           Following(tx, s),
           NEW e, Heir(e, tx.store.open), e.off = SegmentLength,
           SameTimeline(e, s)
    PROVE  LET t == Freeze!PersistOpen(tx, e, s)
           IN  SettledAt(t, s) /\ t.pre = tx.pre
<1> DEFINE b == Freeze!ContinueRecovery(tx, s)
           t == Freeze!PersistOpen(tx, e, s)
<1> USE NoneAssumption
<1>1. /\ SettledAt(b, s) /\ b.pre = tx.pre /\ b.store.open = tx.store.open
      /\ OnTime(b, s)
  BY FreezeContinues
<1> DEFINE due == b.store.recovery = None /\ ~ e.sent /\ e.dur >= AlertDuration
           e1 == [e EXCEPT !.sent = e.sent \/ due]
           alert == Freeze!Alert("OPEN", "CONTINUOUS", e.id, "freeze_alert_threshold")
           o == tx.store.open
           sv == b.store.saved
           r == b.store.recovery
           h == b.store.history
           i == b.store.incident
           al == b.alerts
           pe == b.pending
           al1 == IF due THEN Append(al, OpenAlertOf(e, "freeze_alert_threshold"))
                         ELSE al
<1>5. t = Freeze!PublishIf(due, Freeze!SaveOpen(b, e1), alert)
  <2>1. Freeze!ShouldAlert(b, e) = due
    BY Zenon DEF Freeze!ShouldAlert
  <2> HIDE DEF due
  <2> QED BY <2>1, Zenon DEF Freeze!PersistOpen
<1>6. e \in Events /\ e.sent \in BOOLEAN
  BY DEF Heir, Events
<1>7. due \in BOOLEAN
  OBVIOUS
<1> HIDE DEF b
<1>8. /\ Settled(s, tx.pre, o, sv, r, h, i, al)
      /\ b = Tx(tx.pre, o, sv, r, h, i, al, pe)
  BY <1>1, Zenon DEF SettledAt, IsTx
<1>9. Together(e, r)
  BY <1>1 DEF OnTime, Together, SameTimeline
<1>10. /\ e1 \in Events /\ e1.id = e.id /\ e1.off = e.off /\ e1.dur = e.dur
       /\ SameTimeline(e1, e) /\ e1.sent = (e.sent \/ due)
  <2> DEFINE f == e.sent \/ due
  <2>1. f \in BOOLEAN
    BY Zenon
  <2> HIDE DEF due, f
  <2>2. e1 = [e EXCEPT !.sent = f]
    BY DEF f
  <2> HIDE DEF e1
  <2>3. /\ e1 \in Events /\ e1.id = e.id /\ e1.off = e.off /\ e1.dur = e.dur
        /\ SameTimeline(e1, e) /\ e1.sent = f
    BY <1>6, <2>1, <2>2 DEF Events, SameTimeline
  <2> QED BY <2>3 DEF f
<1>11. alert = OpenAlertOf(e, "freeze_alert_threshold")
  BY DEF OpenAlertOf, Alert, Freeze!Alert
<1>12. due = (r = None /\ ~ e.sent /\ e.dur >= AlertDuration)
  OBVIOUS
<1> DEFINE pre == tx.pre
           w == "freeze_alert_threshold"
<1>13. w \in Whys
  BY DEF Whys
<1> HIDE DEF e1, alert, o, sv, r, h, i, al, pe, t, due, pre, w
<1>14. Settled(s, pre, e1, sv \cup {e.id}, r, h, i, al1)
  <2>1. Heir(e, o)
    BY DEF o
  <2>2. Settled(s, pre, o, sv, r, h, i, al)
    BY <1>8 DEF pre
  <2>3. Settled(s, pre, e1, sv \cup {e.id}, r, h, i,
                IF due THEN Append(al, OpenAlertOf(e, w)) ELSE al)
    BY <1>9, <1>10, <1>12, <1>13, <2>1, <2>2, SettledOpened
  <2> QED BY <2>3 DEF w
<1>15. t = Tx(pre, e1, sv \cup {e.id}, r, h, i, al1, pe)
  <2>1. Freeze!SaveOpen(b, e1) = Tx(pre, e1, sv \cup {e.id}, r, h, i, al, pe)
    <3>1. Freeze!SaveOpen(b, e1) = Tx(pre, e1, sv \cup {e1.id}, r, h, i, al, pe)
      BY <1>8, FreezeOps DEF pre
    <3> QED BY <1>10, <3>1
  <2> DEFINE sw == sv \cup {e.id}
  <2> HIDE DEF sw
  <2>2. t = IF due THEN Tx(pre, e1, sw, r, h, i, Append(al, alert), pe)
                   ELSE Tx(pre, e1, sw, r, h, i, al, pe)
    BY <1>5, <2>1, FreezeOps DEF sw
  <2>3. t = Tx(pre, e1, sw, r, h, i, al1, pe)
    BY <1>11, <2>2, Zenon
  <2> QED BY <2>3 DEF sw
<1> DEFINE sw == sv \cup {e.id}
<1> HIDE DEF al1, sw
<1>16. SettledAt(t, s) /\ t.pre = pre
  BY <1>14, <1>15, SettledIs DEF sw
<1> QED BY <1>16 DEF pre, t

\* The recovery r, with a last segment of sequence m.
Lasting(r, m) == IF r = None THEN None ELSE [r EXCEPT !.last = m]

\* Its fields.
LEMMA LastingIs ==
    ASSUME NEW r \in Recoveries \cup {None}, NEW m \in Nat
    PROVE  LET y == Lasting(r, m)
           IN  IF r = None THEN y = None
               ELSE /\ y \in Recoveries /\ y # None /\ y.id = r.id
                    /\ y.kind = r.kind /\ y.healthy = r.healthy /\ y.last = m
                    /\ SameTimeline(y, r) /\ y.gen = r.gen
<1> DEFINE y == [r EXCEPT !.last = m]
<1> USE NoneAssumption
<1>1. CASE r = None
  BY <1>1 DEF Lasting
<1>2. CASE r # None
  <2>1. r \in Recoveries
    BY <1>2
  <2>2. /\ y \in Recoveries /\ y.id = r.id /\ y.kind = r.kind
        /\ y.healthy = r.healthy /\ y.last = m /\ SameTimeline(y, r)
        /\ y.gen = r.gen
    BY <2>1 DEF Recoveries, SameTimeline
  <2>3. Lasting(r, m) = y
    BY <1>2 DEF Lasting
  <2> HIDE DEF y
  <2> QED BY <1>2, <2>2, <2>3
<1> QED BY <1>1, <1>2

\* The recovery that waits after event e closed.
Awaited(r, e, opens, alerted) ==
    Lasting(IF opens THEN NewRecovery(e.id, "REPEATED", e, e)
            ELSE IF alerted /\ r = None THEN NewRecovery(e.id, "CONTINUOUS", e, e)
            ELSE r, e.seq)

\* AwaitRecovery saves it.
LEMMA FreezeAwaits ==
    ASSUME NEW pre, NEW o, NEW sv, NEW r, NEW h, NEW i, NEW al, NEW pe,
           NEW e \in Events, NEW opens \in BOOLEAN, NEW alerted \in BOOLEAN
    PROVE  Freeze!AwaitRecovery(Tx(pre, o, sv, r, h, i, al, pe), e, opens, alerted)
             = Tx(pre, o, sv, Awaited(r, e, opens, alerted), h, i, al, pe)
<1> DEFINE tx == Tx(pre, o, sv, r, h, i, al, pe)
           x1 == NewRecovery(e.id, "REPEATED", e, e)
           x2 == NewRecovery(e.id, "CONTINUOUS", e, e)
           y == IF opens THEN x1 ELSE IF alerted /\ r = None THEN x2 ELSE r
           z == [y EXCEPT !.last = e.seq]
<1>1. tx.store.recovery = r
  BY TxFields DEF Tx
<1>2. /\ Freeze!NewRecovery(e.id, "REPEATED", e, e) = x1
      /\ Freeze!NewRecovery(e.id, "CONTINUOUS", e, e) = x2
      /\ x1 # None /\ x2 # None
  <2>1. e.id \in Ids /\ e.gen \in Generations /\ e.disc \in Nat
    BY DEF Events
  <2> QED BY <2>1, NewRecoveryIs
<1> HIDE DEF x1, x2
<1>3. y = None => r = None
  BY <1>2
<1>4. Awaited(r, e, opens, alerted) = IF y = None THEN None ELSE z
  BY Zenon DEF Awaited, Lasting, x1, x2
<1>5. Freeze!AwaitRecovery(tx, e, opens, alerted)
        = IF y = None THEN tx ELSE Freeze!SaveRecovery(tx, z)
  <2> HIDE DEF tx
  <2> QED BY <1>1, <1>2, Zenon DEF Freeze!AwaitRecovery
<1> HIDE DEF z
<1>6. CASE y = None
  BY <1>3, <1>4, <1>5, <1>6
<1>7. CASE y # None
  <2>1. Freeze!SaveRecovery(tx, z) = Tx(pre, o, sv, z, h, i, al, pe)
    <3> HIDE DEF y
    <3> QED BY FreezeOps
  <2> HIDE DEF y, tx
  <2> QED BY <1>4, <1>5, <1>7, <2>1 DEF tx
<1> QED BY <1>6, <1>7

\* The last segment of the alert that waits is another one.
LEMMA SettledLasting ==
    ASSUME NEW s, NEW pre, NEW sv, NEW r, NEW h, NEW i, NEW al,
           Settled(s, pre, None, sv, r, h, i, al), NEW m \in Nat
    PROVE  Settled(s, pre, None, sv, Lasting(r, m), h, i, al)
<1> USE NoneAssumption
<1>1. r \in Recoveries \cup {None} /\ RecoveryHeld(sv, r)
  BY DEF Settled, Held, Typed
<1> DEFINE y == Lasting(r, m)
<1> HIDE DEF y
<1>2. CASE r = None
  BY <1>1, <1>2, LastingIs
<1>3. CASE r # None
  <2>1. /\ y \in Recoveries /\ y.id = r.id /\ y.kind = r.kind
        /\ y.healthy < RecoveryHealthy /\ SameTimeline(y, r) /\ y.gen = r.gen
    BY <1>1, <1>3, LastingIs DEF y, RecoveryHeld
  <2>2. Together(None, y)
    BY DEF Together
  <2>3. Settled(s, pre, None, sv, y, h, i, al)
    BY <1>3, <2>1, <2>2, SettledObserved
  <2> QED BY <2>3 DEF y
<1> QED BY <1>2, <1>3

\* A short event closes.
LEMMA FreezeClosesShort ==
    ASSUME NEW s \in Segments, NEW tx, SettledAt(tx, s), check = "video_freeze",
           NEW e, Heir(e, tx.store.open), SameTimeline(e, s),
           Freeze!IsRepeatedCandidate(e), tx.store.open # None, Following(tx, s),
           tx.store.history = tx.pre.history, tx.store.incident = tx.pre.incident
    PROVE  LET t == Freeze!CloseEvent(tx, e)
           IN  /\ SettledAt(t, s) /\ t.pre = tx.pre /\ t.store.open = None
               /\ Answers(tx, None) => Answers(t, t.pending)
<1> DEFINE pre == tx.pre
           o == tx.store.open
           sv == tx.store.saved
           r == tx.store.recovery
           h == tx.store.history
           i == tx.store.incident
           al == tx.alerts
           pe == tx.pending
           w == "repeated_short_event"
           g == e.gen
           m == e.seq
           state == [history |-> pre.history[g], incident |-> pre.incident[g]]
           red == Freeze!RecordShortEvent(Freeze!LoadRepeated(pre, g), e)
           x == NewRecovery(e.id, "REPEATED", e, e)
           alert == Freeze!Alert(red.alert, "REPEATED", red.incident.id, w)
           closed == Freeze!SaveClosed(tx, e)
           recorded == Freeze!PublishIf(red.alert # "NONE",
                                        Freeze!WriteRepeated(closed, g, red), alert)
           opens == red.alert = "OPEN"
           sent == e.sent
           b == Freeze!AwaitRecovery(recorded, e, opens, sent)
           pe1 == [history |-> red.history, incident |-> red.incident]
           t == Freeze!CloseEvent(tx, e)
           al1 == AlertsAfter(al, red, w)
           sw == sv \cup {e.id}
           h1 == With(h, g, red.history)
           i1 == With(i, g, red.incident)
           y == Awaited(r, e, opens, sent)
<1> USE NoneAssumption
<1>1. /\ Settled(s, pre, o, sv, r, h, i, al)
      /\ tx = Tx(pre, o, sv, r, h, i, al, pe)
      /\ h = pre.history /\ i = pre.incident
      /\ r \in Recoveries \cup {None}
  <2>1. Settled(s, pre, o, sv, r, h, i, al)
    BY Zenon DEF SettledAt
  <2>2. r \in Recoveries \cup {None}
    BY <2>1 DEF Settled, Held, Typed
  <2> QED BY <2>1, <2>2, Zenon DEF SettledAt, IsTx
<1>2. /\ e \in Events /\ m \in Nat /\ e.id \in Ids /\ g \in Generations
      /\ e.disc \in Nat /\ ~ sent /\ sent \in BOOLEAN /\ opens \in BOOLEAN
      /\ e.dur < AlertDuration
  <2>1. OpenHeld(o, sv, r)
    BY <1>1 DEF Settled, Held
  <2>2. e \in Events /\ e.dur \in 1 .. AlertDuration /\ e.dur < AlertDuration
    BY DEF Heir, Freeze!IsRepeatedCandidate
  <2>3. e.sent => e.dur = AlertDuration
    <3> HIDE DEF o, sv, r
    <3> QED BY <2>1, HeirName DEF o
  <2>4. e.dur # AlertDuration
    BY <2>2, LengthAssumption
  <2> QED BY <2>2, <2>3, <2>4 DEF Events
<1>3. r # None => SameTimeline(r, e)
  <2>1. Together(o, r)
    BY <1>1 DEF Settled, Held
  <2> QED BY <2>1 DEF Together, Following, SameTimeline
<1>4. t = [b EXCEPT !.pending = pe1]
  <2> DEFINE due == r = None /\ ~ e.sent /\ e.dur >= AlertDuration
             z == Freeze!Alert("OPEN", "CONTINUOUS", e.id, "freeze_alert_threshold")
             first == Freeze!PublishIf(due, closed, z)
  <2>1. ~ due
    <3>1. e.dur \in Nat
      BY <1>2 DEF Events
    <3> QED BY <1>2, <3>1, LengthAssumption
  <2>2. Freeze!ShouldAlert(tx, e) = due
    BY Zenon DEF Freeze!ShouldAlert
  <2>3. first = closed
    BY <2>1, Zenon DEF Freeze!PublishIf
  <2>4. closed.pre = pre
    <3> HIDE DEF pre, o, sv, r, h, i, al, pe
    <3>1. closed = Tx(pre, None, sw, r, h, i, al, pe)
      BY <1>1, FreezeOps
    <3> QED BY <3>1, TxFields DEF Tx
  <2>5. /\ Freeze!RecordResolvedEvent(first, e).tx = recorded
        /\ Freeze!RecordResolvedEvent(first, e).reduction = red
    <3> HIDE DEF first, closed
    <3> QED BY <2>3, <2>4 DEF Freeze!RecordResolvedEvent
  <2> HIDE DEF recorded, red
  <2>6. t = [Freeze!AwaitRecovery(Freeze!RecordResolvedEvent(first, e).tx, e,
                Freeze!RecordResolvedEvent(first, e).reduction.alert = "OPEN", e.sent)
               EXCEPT !.pending =
                  [history |-> Freeze!RecordResolvedEvent(first, e).reduction.history,
                   incident |-> Freeze!RecordResolvedEvent(first, e).reduction.incident]]
    <3> HIDE DEF due
    <3> QED BY <2>2, Zenon DEF Freeze!CloseEvent
  <2> HIDE DEF first, t
  <2> QED BY <2>5, <2>6, Zenon
<1>5. /\ x \in Recoveries /\ x.id = e.id /\ x.kind = "REPEATED"
      /\ x.healthy = 0 /\ SameTimeline(x, e) /\ x # None
  BY <1>2, NewRecoveryIs
<1>6. w \in Whys
  BY DEF Whys
<1>7. /\ Recorded(red, state, e) /\ state.incident = pre.incident[e.gen]
  <2>1. /\ state.history \in SUBSET [id : Ids, at : Nat]
        /\ state.incident \in Incidents \cup {None}
        /\ state.incident # None => state.incident.fresh < UpdateEvery
        /\ state.incident = pre.incident[g]
        /\ state = Freeze!LoadRepeated(pre, g)
    <3>1. g \in Generations
      BY <1>2
    <3> HIDE DEF pre, o, sv, r, h, i, al, g
    <3> QED BY <1>1, <3>1, LoadIs
  <2>2. red = Freeze!RecordShortEvent(state, e)
    BY <2>1
  <2> HIDE DEF red, state
  <2>3. Recorded(red, state, e)
    BY <1>2, <2>1, <2>2, FreezeRecords
  <2> QED BY <2>1, <2>3
<1> HIDE DEF pre, sv, h, i, al, pe, x, w, alert, red, state
<1>8. Settled(s, pre, None, sw, r, h, i, al)
  <2>1. Heir(e, o)
    OBVIOUS
  <2> HIDE DEF o, r
  <2> QED BY <1>1, <1>2, <2>1, SettledShut
<1>9. /\ red.alert # "OPEN" => Settled(s, pre, None, sw, r, h1, i1, al1)
      /\ red.alert = "OPEN" => Settled(s, pre, None, sw, x, h1, i1, al1)
      /\ red.alert = "OPEN" => red.incident.id = e.id
      /\ red.alert # "OPEN" /\ r # None /\ r.kind = "REPEATED" =>
            red.incident # None /\ red.incident.id = r.id
      /\ red.incident \in Incidents \cup {None}
  <2>1. r # None /\ r.kind = "REPEATED" => r.gen = e.gen
    BY <1>3 DEF SameTimeline
  <2>2. e.id \in sw
    OBVIOUS
  <2>3. check \in {"black_screen", "video_freeze"}
    OBVIOUS
  <2> HIDE DEF r, sw, al1, h1, i1
  <2>4. LET h2 == [h EXCEPT ![e.gen] = red.history]
            i2 == [i EXCEPT ![e.gen] = red.incident]
            al2 == AlertsAfter(al, red, w)
        IN  /\ red.alert # "OPEN" => Settled(s, pre, None, sw, r, h2, i2, al2)
            /\ red.alert = "OPEN" /\ (check = "video_freeze" \/ r = None) =>
                     Settled(s, pre, None, sw, x, h2, i2, al2)
            /\ red.alert = "OPEN" =>
                     /\ r = None \/ r.kind = "CONTINUOUS"
                     /\ red.incident.id = e.id
            /\ red.alert # "OPEN" /\ r # None /\ r.kind = "REPEATED" =>
                     red.incident # None /\ red.incident.id = r.id
            /\ red.incident \in Incidents \cup {None}
    BY <1>1, <1>2, <1>5, <1>6, <1>7, <1>8, <2>1, <2>2, <2>3, SettledRecorded
  <2> QED BY <2>4, Zenon DEF h1, i1, al1, With
<1> HIDE DEF o, r
<1>10. recorded = Tx(pre, None, sw, r, h1, i1, al1, pe)
  <2>1. closed = Tx(pre, None, sw, r, h, i, al, pe)
    BY <1>1, FreezeOps
  <2> HIDE DEF closed, sw
  <2>2. Freeze!WriteRepeated(closed, g, red) = Tx(pre, None, sw, r, h1, i1, al, pe)
    <3> HIDE DEF h1, i1
    <3>1. Freeze!WriteRepeated(closed, g, red)
            = Tx(pre, None, sw, r, With(h, g, red.history),
                 With(i, g, red.incident), al, pe)
      BY <2>1, FreezeOps
    <3> QED BY <3>1 DEF h1, i1
  <2> HIDE DEF h1, i1
  <2> DEFINE due == red.alert # "NONE"
  <2>3. alert = Alert(red.alert, "REPEATED", red.incident.id, w)
    BY DEF Alert, Freeze!Alert, alert
  <2>4. recorded = IF due THEN Tx(pre, None, sw, r, h1, i1, Append(al, alert), pe)
                          ELSE Tx(pre, None, sw, r, h1, i1, al, pe)
    <3> HIDE DEF due
    <3>1. recorded = Freeze!PublishIf(due, Tx(pre, None, sw, r, h1, i1, al, pe),
                                     alert)
      BY <2>2 DEF due
    <3> HIDE DEF recorded
    <3> QED BY <3>1, FreezeOps
  <2> QED BY <2>3, <2>4, Zenon DEF AlertsAfter
<1> HIDE DEF recorded, sw, al1, h1, i1, y
<1>11. t = Tx(pre, None, sw, y, h1, i1, al1, pe1)
  <2> HIDE DEF opens, sent
  <2>1. b = Tx(pre, None, sw, y, h1, i1, al1, pe)
    BY <1>2, <1>10, FreezeAwaits DEF y
  <2> HIDE DEF b, t, pe1
  <2> QED BY <1>4, <2>1, TxAssigns DEF SetPending
<1>12. pe1 # None /\ pe1.incident = red.incident
  <2>1. red.history \in SUBSET [id : Ids, at : Nat]
    BY <1>7 DEF Recorded
  <2>2. pe1 \in RepeatedStates
    BY <1>9, <2>1 DEF RepeatedStates
  <2> QED BY <2>2
<1> HIDE DEF pe1, t, b, m
<1>13. y = Lasting(IF opens THEN x ELSE r, m)
  <2>1. y = Lasting(IF opens THEN x ELSE IF sent /\ r = None
                       THEN NewRecovery(e.id, "CONTINUOUS", e, e) ELSE r, m)
    BY Zenon DEF y, Awaited, x, m, sent
  <2> QED BY <1>2, <2>1, Zenon
<1>14. ASSUME NEW z, Settled(s, pre, None, sw, z, h1, i1, al1), y = Lasting(z, m)
       PROVE  /\ SettledAt(t, s) /\ t.pre = pre /\ t.store.open = None
              /\ t.store.recovery = y /\ t.pending = pe1
  <2>1. Settled(s, pre, None, sw, y, h1, i1, al1)
    BY <1>2, <1>14, SettledLasting
  <2> QED BY <1>11, <2>1, SettledIs
<1>15. CASE opens
  <2>1. y = Lasting(x, m)
    BY <1>13, <1>15
  <2>2. /\ SettledAt(t, s) /\ t.pre = pre /\ t.store.open = None
        /\ t.store.recovery = y /\ t.pending = pe1
    BY <1>9, <1>14, <1>15, <2>1
  <2>3. y.id = e.id /\ y.kind = "REPEATED"
    BY <1>2, <1>5, <2>1, LastingIs
  <2>4. red.incident # None
    <3>1. red.incident = [id |-> e.id, fresh |-> 0]
      BY <1>7, <1>15 DEF Recorded
    <3>2. red.incident \in Incidents
      BY <1>2, <3>1 DEF Incidents
    <3> QED BY <3>2
  <2>5. Answers(t, t.pending)
    BY <1>9, <1>12, <1>15, <2>2, <2>3, <2>4 DEF Answers
  <2> QED BY <2>2, <2>5 DEF t, pre
<1>16. CASE ~ opens
  <2>1. y = Lasting(r, m)
    BY <1>13, <1>16
  <2>2. /\ SettledAt(t, s) /\ t.pre = pre /\ t.store.open = None
        /\ t.store.recovery = y /\ t.pending = pe1
    BY <1>9, <1>14, <1>16, <2>1
  <2>3. ASSUME Answers(tx, None) PROVE Answers(t, t.pending)
    <3>1. CASE r = None
      <4>1. y = None
        BY <2>1, <3>1 DEF Lasting
      <4> QED BY <2>2, <4>1 DEF Answers
    <3>2. CASE r # None
      <4>1. y.id = r.id /\ y.kind = r.kind
        BY <1>1, <1>2, <2>1, <3>2, LastingIs DEF m
      <4>2. r.kind = "CONTINUOUS" => r.id \in pre.saved
        BY <2>3, <3>2 DEF Answers, r, pre
      <4> QED BY <1>9, <1>12, <1>16, <2>2, <3>2, <4>1, <4>2 DEF Answers
    <3> QED BY <3>1, <3>2
  <2> QED BY <2>2, <2>3 DEF t, pre
<1> QED BY <1>15, <1>16

\* An event closes that no incident counts.
LEMMA FreezeClosesOther ==
    ASSUME NEW s \in Segments, NEW tx, SettledAt(tx, s), check = "video_freeze",
           NEW e, Heir(e, tx.store.open), SameTimeline(e, s),
           ~ Freeze!IsRepeatedCandidate(e)
    PROVE  LET t == Freeze!CloseEvent(tx, e)
           IN  /\ SettledAt(t, s) /\ t.pre = tx.pre /\ t.store.open = None
               /\ e.id \in tx.pre.saved /\ Answers(tx, None) =>
                     Answers(t, t.pending)
<1> DEFINE due == tx.store.recovery = None /\ ~ e.sent /\ e.dur >= AlertDuration
           pre == tx.pre
           o == tx.store.open
           sv == tx.store.saved
           r == tx.store.recovery
           h == tx.store.history
           i == tx.store.incident
           al == tx.alerts
           pe == tx.pending
           m == e.seq
           w == "freeze_alert_threshold"
           x == NewRecovery(e.id, "CONTINUOUS", e, e)
           alert == Freeze!Alert("OPEN", "CONTINUOUS", e.id, w)
           closed == Freeze!PublishIf(due, Freeze!SaveClosed(tx, e), alert)
           alerted == e.sent \/ due
           no == FALSE
           b == Freeze!AwaitRecovery(closed, e, no, alerted)
           t == Freeze!CloseEvent(tx, e)
           al1 == IF due THEN Append(al, OpenAlertOf(e, w)) ELSE al
           sw == sv \cup {e.id}
           z == IF alerted THEN x ELSE r
           y == Awaited(r, e, no, alerted)
<1> USE NoneAssumption
<1>1. t = [b EXCEPT !.pending = None]
  <2>1. Freeze!ShouldAlert(tx, e) = due
    BY Zenon DEF Freeze!ShouldAlert
  <2> HIDE DEF due
  <2> QED BY <2>1, Zenon DEF Freeze!CloseEvent
<1>2. /\ Settled(s, pre, o, sv, r, h, i, al)
      /\ tx = Tx(pre, o, sv, r, h, i, al, pe)
      /\ r \in Recoveries \cup {None}
  <2>1. Settled(s, pre, o, sv, r, h, i, al)
    BY Zenon DEF SettledAt
  <2>2. r \in Recoveries \cup {None}
    BY <2>1 DEF Settled, Held, Typed
  <2> QED BY <2>1, <2>2, Zenon DEF SettledAt, IsTx
<1>3. /\ e.id \in Ids /\ (e.sent => r = None)
      /\ e.sent \in BOOLEAN /\ e \in Events /\ m \in Nat
      /\ e.gen \in Generations /\ e.disc \in Nat
  <2>1. OpenHeld(o, sv, r)
    BY <1>2 DEF Settled, Held
  <2>2. e \in Events
    BY DEF Heir
  <2>3. m \in Nat /\ e.gen \in Generations /\ e.disc \in Nat
    BY <2>2 DEF Events
  <2> HIDE DEF o, sv, r, m
  <2> QED BY <2>1, <2>2, <2>3, HeirName DEF o
<1>4. /\ x \in Recoveries /\ x.id = e.id /\ x.kind = "CONTINUOUS"
      /\ x.healthy = 0 /\ SameTimeline(x, e) /\ x # None
  BY <1>3, NewRecoveryIs
<1>5. due \in BOOLEAN /\ (due => r = None /\ ~ e.sent) /\ w \in Whys
  BY DEF Whys
<1>6. alerted \in BOOLEAN /\ (alerted => r = None) /\ no = FALSE
  BY <1>3, <1>5
<1>7. alert = OpenAlertOf(e, w)
  BY DEF OpenAlertOf, Alert, Freeze!Alert
<1> HIDE DEF pre, sv, h, i, al, pe, x, due, w, alert, m
<1>8. Settled(s, pre, None, sw, z, h, i, al1)
  <2>1. Heir(e, o)
    OBVIOUS
  <2>2. SameTimeline(x, s)
    BY <1>4 DEF SameTimeline
  <2> HIDE DEF o, r
  <2> QED BY <1>2, <1>4, <1>5, <2>1, <2>2, SettledClosed
<1> HIDE DEF o, r
<1>9. closed = Tx(pre, None, sw, r, h, i, al1, pe)
  <2>1. Freeze!SaveClosed(tx, e) = Tx(pre, None, sw, r, h, i, al, pe)
    BY <1>2, FreezeOps
  <2> HIDE DEF sw
  <2>2. closed = IF due THEN Tx(pre, None, sw, r, h, i, Append(al, alert), pe)
                        ELSE Tx(pre, None, sw, r, h, i, al, pe)
    BY <2>1, FreezeOps
  <2> QED BY <1>7, <2>2, Zenon
<1>10. y = Lasting(z, m)
  <2>1. y = Lasting(IF no THEN NewRecovery(e.id, "REPEATED", e, e)
                    ELSE IF alerted /\ r = None THEN x ELSE r, m)
    BY Zenon DEF y, Awaited, x, m
  <2> QED BY <1>6, <2>1, Zenon
<1> HIDE DEF closed, sw, al1, alerted, no, y
<1>11. t = Tx(pre, None, sw, y, h, i, al1, None)
  <2>1. b = Tx(pre, None, sw, y, h, i, al1, pe)
    <3>1. no \in BOOLEAN /\ alerted \in BOOLEAN
      BY <1>6
    <3> QED BY <1>3, <1>9, <3>1, FreezeAwaits DEF y
  <2> HIDE DEF b, t
  <2> QED BY <1>1, <2>1, TxAssigns DEF SetPending
<1> HIDE DEF t, b
<1>12. /\ SettledAt(t, s) /\ t.pre = pre /\ t.store.open = None
       /\ t.store.recovery = y /\ t.pending = None
  <2>1. Settled(s, pre, None, sw, y, h, i, al1)
    <3> HIDE DEF z
    <3> QED BY <1>3, <1>8, <1>10, SettledLasting
  <2> QED BY <1>11, <2>1, SettledIs
<1>13. ASSUME e.id \in pre.saved, Answers(tx, None)
       PROVE  Answers(t, t.pending)
  <2>1. CASE alerted
    <3>1. y.id = e.id /\ y.kind = "CONTINUOUS"
      BY <1>3, <1>4, <1>10, <2>1, LastingIs
    <3> QED BY <1>12, <1>13, <3>1 DEF Answers
  <2>2. CASE ~ alerted /\ r = None
    <3>1. y = None
      BY <1>10, <2>2 DEF Lasting
    <3> QED BY <1>12, <3>1 DEF Answers
  <2>3. CASE ~ alerted /\ r # None
    <3>1. y.id = r.id /\ y.kind = r.kind /\ y.gen = r.gen
      BY <1>2, <1>3, <1>10, <2>3, LastingIs
    <3>2. /\ r.kind = "CONTINUOUS" => r.id \in pre.saved
          /\ r.kind = "REPEATED" =>
                /\ pre.incident[r.gen] # None /\ pre.incident[r.gen].id = r.id
      BY <1>13, <2>3 DEF Answers, r, pre
    <3> QED BY <1>12, <3>1, <3>2 DEF Answers
  <2> QED BY <2>1, <2>2, <2>3
<1> QED BY <1>12, <1>13 DEF t, pre

\* An event closes.
LEMMA FreezeCloses ==
    ASSUME NEW s \in Segments, NEW tx, SettledAt(tx, s), check = "video_freeze",
           Following(tx, s),
           NEW e, Heir(e, tx.store.open), SameTimeline(e, s),
           SegmentLength <= e.dur =>
              /\ tx.store.open # None
              /\ tx.store.history = tx.pre.history
              /\ tx.store.incident = tx.pre.incident
    PROVE  LET t == Freeze!CloseEvent(tx, e)
           IN  /\ SettledAt(t, s) /\ t.pre = tx.pre /\ t.store.open = None
               /\ e.id \in tx.pre.saved /\ Answers(tx, None) =>
                     Answers(t, t.pending)
<1>1. CASE Freeze!IsRepeatedCandidate(e)
  <2>1. SegmentLength <= e.dur
    BY <1>1 DEF Freeze!IsRepeatedCandidate
  <2> QED BY <1>1, <2>1, FreezeClosesShort
<1>2. CASE ~ Freeze!IsRepeatedCandidate(e)
  BY <1>2, FreezeClosesOther
<1> QED BY <1>1, <1>2

\* A healthy segment.
LEMMA FreezeHeals ==
    ASSUME NEW s \in Segments, NEW tx, SettledAt(tx, s), check = "video_freeze",
           tx.store.open = None, Answers(tx, tx.pending)
    PROVE  LET t == Freeze!Healthy(tx, s)
           IN  /\ SettledAt(t, s) /\ t.pre = tx.pre /\ t.store.open = None
               /\ Healed(t, tx, s)
<1> DEFINE pre == tx.pre
           o == tx.store.open
           sv == tx.store.saved
           r == tx.store.recovery
           h == tx.store.history
           i == tx.store.incident
           al == tx.alerts
           pe == tx.pending
           m == s.seq
           n == r.healthy + 1
           x == [r EXCEPT !.healthy = n, !.last = m]
           b == CASE r = None -> tx
                  [] r # None /\ ~ SameTimeline(r, s) ->
                        Freeze!ResolveRecovery(tx, "timeline_discontinued", pe)
                  [] r # None /\ SameTimeline(r, s) /\ m # r.last + 1 ->
                        Freeze!ContinueRecovery(tx, s)
                  [] OTHER ->
                        IF n >= RecoveryHealthy
                           THEN Freeze!ResolveRecovery(
                                    tx, "healthy_segment_confirmed", pe)
                           ELSE Freeze!SaveRecovery(tx, x)
           t == Freeze!Healthy(tx, s)
<1> USE NoneAssumption
<1>1. t = [b EXCEPT !.pending = None]
  BY FreezeSame, Zenon DEF Freeze!Healthy
<1>2. ASSUME SettledAt(b, s), b.pre = pre, b.store.open = None, Healed(b, tx, s)
      PROVE  SettledAt(t, s) /\ t.pre = pre /\ t.store.open = None /\ Healed(t, tx, s)
  <2> HIDE DEF b
  <2> DEFINE bs == b.store.saved
             br == b.store.recovery
             bh == b.store.history
             bi == b.store.incident
             ba == b.alerts
             bp == b.pending
  <2>1. /\ Settled(s, pre, None, bs, br, bh, bi, ba)
        /\ b = Tx(pre, None, bs, br, bh, bi, ba, bp)
    BY <1>2, Zenon DEF SettledAt, IsTx
  <2> HIDE DEF bs, br, bh, bi, ba, bp, t, pre
  <2>2. t = Tx(pre, None, bs, br, bh, bi, ba, None)
    BY <1>1, <2>1, TxAssigns DEF SetPending
  <2>3. SettledAt(t, s) /\ t.pre = pre /\ t.store.open = None /\ t.store.recovery = br
    BY <2>1, <2>2, SettledIs
  <2> QED BY <1>2, <2>3 DEF Healed, br
<1>3. /\ Settled(s, pre, o, sv, r, h, i, al)
      /\ tx = Tx(pre, o, sv, r, h, i, al, pe)
  BY Zenon DEF SettledAt, IsTx
<1>4. Following(tx, s) /\ m \in Nat /\ r \in Recoveries \cup {None}
  BY <1>3 DEF Following, Segments, Settled, Held, Typed
<1>5. {"timeline_discontinued", "healthy_segment_confirmed"} \subseteq Whys
  BY DEF Whys
<1> SUFFICES SettledAt(b, s) /\ b.pre = pre /\ b.store.open = None /\ Healed(b, tx, s)
  BY <1>2
<1>6. CASE r = None
  <2>1. b = tx
    BY <1>6
  <2> QED BY <1>6, <2>1 DEF Healed
<1>7. ASSUME r # None, NEW w \in Whys, b = Freeze!ResolveRecovery(tx, w, pe),
             ~ SameTimeline(r, s) \/ (m = r.last + 1 /\ n >= RecoveryHealthy)
      PROVE  SettledAt(b, s) /\ b.pre = pre /\ b.store.open = None
             /\ Healed(b, tx, s)
  <2> HIDE DEF b
  <2>1. /\ SettledAt(b, s) /\ b.pre = tx.pre /\ b.store.open = None
        /\ b.store.recovery = None
    BY <1>7, FreezeResolves
  <2>2. m = r.last + 1 /\ n >= RecoveryHealthy => ~ (r.healthy + 1 < RecoveryHealthy)
    BY <1>4, <1>7, PolicyAssumption DEF Recoveries
  <2>3. Healed(b, tx, s)
    BY <1>7, <2>1, <2>2 DEF Healed
  <2> QED BY <2>1, <2>3
<1>8. CASE r # None /\ ~ SameTimeline(r, s)
  <2>1. b = Freeze!ResolveRecovery(tx, "timeline_discontinued", pe)
    BY <1>8
  <2> HIDE DEF b, r, m, n, pe, pre
  <2> QED BY <1>5, <1>7, <1>8, <2>1
<1>9. CASE r # None /\ SameTimeline(r, s) /\ m # r.last + 1
  <2>1. b = Freeze!ContinueRecovery(tx, s)
    BY <1>9
  <2> HIDE DEF b
  <2>2. LET y == b.store.recovery
        IN  /\ SettledAt(b, s) /\ b.pre = tx.pre
            /\ b.store.open = tx.store.open
            /\ r # None /\ SameTimeline(r, s) =>
                  /\ y # None /\ y.id = r.id /\ y.kind = r.kind
                  /\ y.healthy = 0 /\ y.last = s.seq /\ SameTimeline(y, s)
    BY <1>4, <2>1, FreezeContinues
  <2>3. Healed(b, tx, s)
    BY <1>9, <2>2 DEF Healed
  <2> QED BY <2>2, <2>3
<1>10. CASE r # None /\ SameTimeline(r, s) /\ m = r.last + 1 /\ n >= RecoveryHealthy
  <2>1. b = Freeze!ResolveRecovery(tx, "healthy_segment_confirmed", pe)
    BY <1>10
  <2> HIDE DEF b, r, m, n, pe, pre
  <2> QED BY <1>5, <1>7, <1>10, <2>1
<1>11. CASE r # None /\ SameTimeline(r, s) /\ m = r.last + 1
            /\ ~ (n >= RecoveryHealthy)
  <2>1. b = Freeze!SaveRecovery(tx, x)
    BY <1>11
  <2>2. n \in Nat /\ n < RecoveryHealthy
    BY <1>4, <1>11, PolicyAssumption DEF Recoveries
  <2>3. /\ x \in Recoveries /\ x.id = r.id /\ x.kind = r.kind
        /\ x.healthy = n /\ x.last = m /\ SameTimeline(x, r)
        /\ x.gen = r.gen /\ x # None
    <3>1. r \in Recoveries
      BY <1>4, <1>11
    <3> HIDE DEF r, n, m
    <3> QED BY <1>4, <2>2, <3>1 DEF Recoveries, SameTimeline
  <2>4. Settled(s, pre, o, sv, x, h, i, al)
    <3>1. Together(o, x)
      BY DEF Together
    <3> HIDE DEF x, pre, o, sv, r, h, i, al, n, m
    <3> QED BY <1>3, <1>11, <2>2, <2>3, <3>1, SettledObserved
  <2> HIDE DEF b, x, pre, o, sv, h, i, al, pe
  <2>5. b = Tx(pre, o, sv, x, h, i, al, pe)
    <3> HIDE DEF r
    <3> QED BY <1>3, <2>1, FreezeOps
  <2>6. SettledAt(b, s) /\ b.pre = pre /\ b.store.open = o /\ b.store.recovery = x
    BY <2>4, <2>5, SettledIs
  <2>7. Healed(b, tx, s)
    <3>1. SameTimeline(x, s)
      BY <1>11, <2>3 DEF SameTimeline
    <3>2. x.healthy = r.healthy + 1 /\ r.healthy + 1 < RecoveryHealthy
      BY <2>2, <2>3
    <3>3. ~ (r.healthy + 1 >= RecoveryHealthy)
      BY <1>11
    <3> QED BY <1>11, <2>3, <2>6, <3>1, <3>2, <3>3 DEF Healed
  <2> QED BY <2>6, <2>7 DEF o
<1> QED BY <1>6, <1>8, <1>9, <1>10, <1>11

\* The open event closes as it is.
LEMMA SettledLost ==
    ASSUME NEW s, NEW pre, NEW e \in Events, NEW sv, NEW r, NEW h, NEW i, NEW al,
           Settled(s, pre, e, sv, r, h, i, al), check # "audio_loss",
           NEW x, x = NewRecovery(e.id, "CONTINUOUS", e, e),
           SameTimeline(x, s) \/ e.id \in pre.saved
    PROVE  Settled(s, pre, None, sv \cup {e.id}, IF e.sent THEN x ELSE r, h, i, al)
<1> DEFINE due == NoError
           w == "silence"
           al1 == IF due THEN Append(al, OpenAlertOf(e, w)) ELSE al
           sw == sv \cup {e.id}
           r1 == IF e.sent \/ due THEN x ELSE r
<1> USE NoneAssumption
<1>1. /\ e.id \in Ids /\ e.sent \in BOOLEAN /\ e # None
      /\ e.gen \in Generations /\ e.disc \in Nat
  BY DEF Events
<1>2. /\ x \in Recoveries /\ x.id = e.id /\ x.kind = "CONTINUOUS"
      /\ x.healthy = 0
  BY <1>1, NewRecoveryIs
<1>3. Heir(e, e) /\ OpenHeld(e, sv, r)
  BY <1>1 DEF Heir, OpenHeld, Settled, Held
<1>4. due \in BOOLEAN /\ ~ due /\ w \in Whys
  BY DEF NoError, Whys
<1>5. r1 = IF e.sent THEN x ELSE r
  BY <1>4
<1>6. SameTimeline(x, s) \/ x.id \in pre.saved
  BY <1>2
<1> HIDE DEF due, w
<1>7. Settled(s, pre, None, sw, r1, h, i, al1)
  BY <1>2, <1>3, <1>4, <1>4, <1>6, SettledClosed
<1>8. al1 = al
  BY <1>4
<1> HIDE DEF al1, r1
<1>9. Settled(s, pre, None, sw, r1, h, i, al)
  BY <1>7, <1>8
<1> QED BY <1>5, <1>9, Zenon

\* A segment that was not checked, or an event that lost its observation.
LEMMA FreezeUnknown ==
    ASSUME NEW s \in Segments, NEW tx, SettledAt(tx, s), check = "video_freeze",
           NEW e, e = tx.store.open, e # None => e.id \in tx.pre.saved
    PROVE  LET t == Freeze!UnknownGap(tx, e, s)
           IN  /\ SettledAt(t, s) /\ t.pre = tx.pre /\ t.store.open = None
<1> DEFINE pre == tx.pre
           sv == tx.store.saved
           r == tx.store.recovery
           h == tx.store.history
           i == tx.store.incident
           al == tx.alerts
           pe == tx.pending
           closed == IF e = None THEN tx ELSE Freeze!SaveClosed(tx, e)
           waiting == IF e # None /\ e.sent /\ r = None
                         THEN Freeze!SaveRecovery(closed,
                                 Freeze!NewRecovery(e.id, "CONTINUOUS", e, e))
                         ELSE closed
           t == Freeze!UnknownGap(tx, e, s)
<1> USE NoneAssumption
<1>1. /\ Settled(s, pre, e, sv, r, h, i, al)
      /\ tx = Tx(pre, e, sv, r, h, i, al, pe)
      /\ e \in Events \cup {None}
  <2>1. Settled(s, pre, e, sv, r, h, i, al)
    BY Zenon DEF SettledAt
  <2>2. e \in Events \cup {None}
    BY <2>1 DEF Settled, Held, Typed
  <2> QED BY <2>1, <2>2, Zenon DEF SettledAt, IsTx
<1>2. t = Freeze!ContinueRecovery(waiting, s)
  BY Zenon DEF Freeze!UnknownGap
<1>3. SettledAt(waiting, s) /\ waiting.pre = pre /\ waiting.store.open = None
  <2>1. CASE e = None
    <3>1. waiting = tx
      BY <2>1
    <3> QED BY <2>1, <3>1
  <2>2. CASE e # None
    <3> DEFINE x == NewRecovery(e.id, "CONTINUOUS", e, e)
               sw == sv \cup {e.id}
               r1 == IF e.sent THEN x ELSE r
    <3>1. /\ e \in Events /\ e.id \in Ids /\ e.sent \in BOOLEAN
          /\ e.gen \in Generations /\ e.disc \in Nat /\ e.id \in pre.saved
      BY <1>1, <2>2 DEF Events
    <3>2. x = Freeze!NewRecovery(e.id, "CONTINUOUS", e, e)
      BY <3>1, NewRecoveryIs
    <3>3. Settled(s, pre, None, sw, r1, h, i, al) /\ (e.sent => r = None)
      <4>1. check # "audio_loss"
        OBVIOUS
      <4>2. e \in Events /\ e.id \in pre.saved
        BY <3>1
      <4>3. Settled(s, pre, e, sv, r, h, i, al)
        BY <1>1
      <4> HIDE DEF waiting, closed, t, pre, sv, r, h, i, al, pe, x
      <4>4. x = NewRecovery(e.id, "CONTINUOUS", e, e)
        BY DEF x
      <4>5. Settled(s, pre, None, sv \cup {e.id}, IF e.sent THEN x ELSE r, h, i, al)
        BY <4>1, <4>2, <4>3, <4>4, SettledLost
      <4>6. e.sent => r = None
        BY <2>2, <4>3 DEF Settled, Held, OpenHeld
      <4> QED BY <4>5, <4>6
    <3> HIDE DEF pre, sv, r, h, i, al, pe, x
    <3>4. waiting = Tx(pre, None, sw, r1, h, i, al, pe)
      <4> HIDE DEF r1
      <4>1. Freeze!SaveClosed(tx, e) = Tx(pre, None, sw, r, h, i, al, pe)
        BY <1>1, FreezeOps
      <4> HIDE DEF sw
      <4>2. CASE e.sent
        <5>1. waiting = Freeze!SaveRecovery(Freeze!SaveClosed(tx, e), x)
          BY <2>2, <3>2, <3>3, <4>2 DEF r
        <5> HIDE DEF waiting
        <5> QED BY <4>1, <4>2, <5>1, FreezeOps DEF r1
      <4>3. CASE ~ e.sent
        <5>1. waiting = Freeze!SaveClosed(tx, e)
          BY <2>2, <4>3
        <5> QED BY <4>1, <4>3, <5>1 DEF r1
      <4> QED BY <4>2, <4>3
    <3> HIDE DEF waiting, r1, sw
    <3> QED BY <3>3, <3>4, SettledIs
  <2> QED BY <2>1, <2>2
<1> HIDE DEF waiting, t
<1>4. Following(waiting, s)
  BY <1>3 DEF Following
<1>5. /\ SettledAt(t, s) /\ t.pre = waiting.pre
      /\ t.store.open = waiting.store.open
  BY <1>2, <1>3, <1>4, FreezeContinues
<1> QED BY <1>3, <1>5 DEF t, pre

\* What a transition is applied by.
LEMMA FreezeDispatch ==
    ASSUME NEW tx, ~ tx.raised, NEW s, NEW e
    PROVE  /\ Freeze!ApplyTransition(tx, Freeze!Transition("MARK_COMMITTED", e), s) = tx
           /\ Freeze!ApplyTransition(tx, Freeze!Transition("PERSIST_OPEN", e), s)
                = Freeze!PersistOpen(tx, e, s)
           /\ Freeze!ApplyTransition(tx, Freeze!Transition("CLOSE_EVENT", e), s)
                = Freeze!CloseEvent(tx, e)
           /\ Freeze!ApplyTransition(tx, Freeze!Transition("HEALTHY_EVIDENCE", e), s)
                = Freeze!Healthy(tx, s)
           /\ Freeze!ApplyTransition(tx, Freeze!Transition("UNKNOWN_GAP", e), s)
                = Freeze!UnknownGap(tx, e, s)
BY DEF Freeze!ApplyTransition, Freeze!Transition

\* One more cut.
LEMMA FreezeTurn ==
    ASSUME NEW k \in Nat, NEW current, NEW st, NEW s \in Segments, NEW cuts,
           NEW tx, check = "video_freeze",
           Midway(tx, k, current, st, s, cuts), k < Len(cuts),
           WellCut(cuts, current, s), current # None => SameTimeline(current, s)
    PROVE  Midway(Freeze!ApplyTransition(tx, Freeze!TransitionOf(cuts[k + 1]), s),
                       k + 1, current, st, s, cuts)
<1> DEFINE e == cuts[k + 1].event
           kind == cuts[k + 1].kind
           t == Freeze!ApplyTransition(tx, Freeze!TransitionOf(cuts[k + 1]), s)
<1>1. Midway(tx, k, current, st, s, cuts) /\ SettledAt(tx, s)
      /\ tx.pre = st
  BY DEF Midway
<1>2. /\ e \in Events /\ kind \in Kinds
      /\ Heir(e, tx.store.open) /\ SameTimeline(e, s)
      /\ Following(tx, s)
      /\ kind = "open" => k + 1 = Len(cuts) /\ e.off = SegmentLength
      /\ kind # "open" /\ SegmentLength <= e.dur =>
            /\ tx.store.open # None
            /\ tx.store.history = tx.pre.history
            /\ tx.store.incident = tx.pre.incident
  BY <1>1, NextCut
<1>3. ~ tx.raised
  BY <1>1, NotRaised
<1>4. k + 1 # 0 /\ k + 1 > 0 /\ Len(cuts) \in Nat
  BY DEF WellCut
<1>5. CASE kind = "open"
  <2>1. t = Freeze!PersistOpen(tx, e, s)
    BY <1>3, <1>5, FreezeDispatch DEF Freeze!TransitionOf
  <2> HIDE DEF t, e, kind
  <2>2. SettledAt(t, s) /\ t.pre = tx.pre
    BY <1>1, <1>2, <1>5, <2>1, FreezePersists
  <2>3. ~ (k + 1 < Len(cuts))
    BY <1>2, <1>4, <1>5
  <2>4. Midway(t, k + 1, current, st, s, cuts)
    BY <1>1, <1>4, <2>2, <2>3 DEF Midway
  <2> QED BY <2>4 DEF t
<1>6. CASE kind # "open"
  <2>1. t = Freeze!CloseEvent(tx, e)
    BY <1>3, <1>6, FreezeDispatch DEF Freeze!TransitionOf
  <2> HIDE DEF t, e, kind
  <2>2. /\ SettledAt(t, s) /\ t.pre = tx.pre /\ t.store.open = None
    BY <1>1, <1>2, <1>6, <2>1, FreezeCloses
  <2>3. Midway(t, k + 1, current, st, s, cuts)
    BY <1>1, <1>4, <2>2 DEF Midway
  <2> QED BY <2>3 DEF t
<1> QED BY <1>5, <1>6

\* The first transaction of the freeze store.
LEMMA FreezeBegins ==
    ASSUME NEW s, NEW st, StoreHeld(st), KnownHeld(live, st.open, st.recovery),
           NEW t, t = Freeze!Begin(st)
    PROVE  /\ SettledAt(t, s) /\ t.pre = st /\ t.store = st /\ t.pending = None
           /\ Answers(t, None)
           /\ t.store.open # None => t.store.open.id \in st.saved
           /\ t.store.open \in Events \cup {None}
<1>1. Begun(t, st) /\ st \in Stores
  BY BeginIs DEF StoreHeld
<1>2. SettledAt(t, s)
  BY <1>1, SettledBegun
<1>3. t.store.recovery # None => Resolvable(st, t.store.recovery)
  BY <1>1, SettledBegun
<1>4. Answers(t, None)
  BY <1>1, <1>3 DEF Begun, Answers, Resolvable
<1>5. /\ st.open # None => st.open.id \in st.saved
      /\ st.open \in Events \cup {None}
  BY DEF StoreHeld, Held, OpenHeld, Typed
<1> QED BY <1>1, <1>2, <1>4, <1>5 DEF Begun

\* What a store is left with after a healthy segment: no event, and the alert
\* that waited, with one segment more if this one follows.
Well(result, st, s) ==
    LET r == st.recovery
        x == result.store.recovery
    IN  /\ Left(result) /\ result.store.open = None
        /\ st.open = None /\ x # None =>
              /\ r # None /\ x.last = s.seq /\ SameTimeline(x, s)
              /\ SameTimeline(r, s) /\ s.seq = r.last + 1 =>
                    x.healthy = r.healthy + 1

\* The same, from the last transaction.
LEMMA LeftIs ==
    ASSUME NEW s, NEW tx, SettledAt(tx, s)
    PROVE  /\ Left(Freeze!Execute(tx)) /\ Left(Audio!Execute(tx))
           /\ Left(Blocks!Execute(tx))
<1>1. /\ Done(Freeze!Execute(tx), tx) /\ Done(Audio!Execute(tx), tx)
      /\ Done(Blocks!Execute(tx), tx)
  BY ExecuteIs
<1> QED BY <1>1 DEF Done, Left

\* A segment with intervals.
LEMMA FreezeIntervals ==
    ASSUME NEW s \in Segments, NEW st, StoreHeld(st),
           KnownHeld(live, st.open, st.recovery), check = "video_freeze",
           NEW evidence, Seen(evidence), evidence.intervals # <<>>
    PROVE  Left(Freeze!Apply(st, s, evidence))
<1> DEFINE open == st.open
           gone == open # None /\ ~ SequenceCanFollow(open, s)
           current == IF gone THEN None ELSE open
           cuts == JoinIntervals(current, s, evidence, TRUE)
           N == Len(cuts)
           ys == [n \in DOMAIN cuts |-> Freeze!TransitionOf(cuts[n])]
           gap == IF gone THEN <<Freeze!Transition("UNKNOWN_GAP", open)>> ELSE <<>>
           q == Freeze!Reduce(open, s, evidence)
           L == IF gone THEN 1 ELSE 0
<1> USE NoneAssumption
<1>1. q = gap \o ys
  <2>1. evidence.checked
    BY DEF Seen
  <2>2. Freeze!SequenceCanFollow(open, s) = SequenceCanFollow(open, s)
    BY FreezeSame
  <2>3. Freeze!JoinIntervals(current, s, evidence, TRUE)
          = JoinIntervals(current, s, evidence, TRUE)
    BY JoinSame
  <2> QED BY <2>1, <2>2, <2>3, Zenon DEF Freeze!Reduce
<1>2. /\ open \in Events \cup {None}
      /\ open # None => /\ open.off = SegmentLength /\ open.id \in st.saved
                        /\ open.dur \in 1 .. AlertDuration
  BY DEF StoreHeld, Held, Typed, OpenHeld
<1>3. Continuable(current, s) /\ (current # None => SameTimeline(current, s))
  BY <1>2 DEF Continuable, SequenceCanFollow
<1>4. WellCut(cuts, current, s) /\ cuts # <<>>
  <2> HIDE DEF current
  <2> QED BY <1>3, JoinIntervalsWellCut DEF Seen
<1>5. N \in Nat /\ N >= 1 /\ DOMAIN cuts = 1 .. N
  <2> HIDE DEF cuts
  <2>1. cuts \in Seq([kind : {"interrupted", "ended", "open"}, event : Events])
    BY <1>4 DEF WellCut
  <2> DEFINE C == [kind : {"interrupted", "ended", "open"}, event : Events]
  <2> HIDE DEF C
  <2> QED BY <1>4, <2>1 DEF C
<1> HIDE DEF cuts, N, current
<1>6. /\ Len(q) = L + N /\ L \in Nat
      /\ gone => q[1] = Freeze!Transition("UNKNOWN_GAP", open)
      /\ \A k \in 1 .. N : q[L + k] = Freeze!TransitionOf(cuts[k])
  <2>1. /\ ys = [k \in 1 .. N |-> ys[k]]
       /\ \A k \in 1 .. N : ys[k] = Freeze!TransitionOf(cuts[k])
    BY <1>5
  <2> HIDE DEF ys, q
  <2>2. CASE gone
    <3> DEFINE x == Freeze!Transition("UNKNOWN_GAP", open)
    <3>1. q = <<x>> \o ys
      BY <1>1, <2>2
    <3> HIDE DEF x
    <3>2. Len(q) = N + 1 /\ q[1] = x /\ \A k \in 1 .. N : q[k + 1] = ys[k]
      BY <1>5, <2>1, <3>1, AfterGap
    <3> QED BY <1>5, <2>1, <2>2, <3>2 DEF x
  <2>3. CASE ~ gone
    <3>1. q = <<>> \o ys
      BY <1>1, <2>3
    <3>2. Len(q) = N /\ \A k \in 1 .. N : q[k] = ys[k]
      BY <1>5, <2>1, <3>1, AfterGap
    <3> QED BY <1>5, <2>1, <2>3, <3>2
  <2> QED BY <2>2, <2>3
<1> DEFINE qq == q
<1> HIDE DEF qq, L
<1>7. PICK f : FreezeRuns(f, st, s, evidence, q)
  <2>1. qq = Freeze!Reduce(st.open, s, evidence) /\ Len(qq) \in Nat
    BY <1>5, <1>6 DEF qq
  <2>2. \E f : FreezeRuns(f, st, s, evidence, qq)
    BY <2>1, FreezeLoop
  <2> QED BY <2>2 DEF qq
<1>8. /\ SettledAt(f[0], s) /\ f[0].pre = st /\ f[0].store = st /\ st \in Stores
  <2>1. st \in Stores
    BY DEF StoreHeld
  <2>2. Begun(f[0], st)
    BY <1>7, <2>1, BeginIs DEF FreezeRuns
  <2>3. SettledAt(f[0], s)
    BY <2>2, SettledBegun
  <2> QED BY <2>1, <2>2, <2>3 DEF Begun
<1> DEFINE S == {k \in Nat : k <= N => Midway(f[L + k], k, current, st, s, cuts)}
<1>10. Midway(f[L], 0, current, st, s, cuts)
  <2>1. CASE gone
    <3>1. L = 1 /\ current = None
      BY <2>1 DEF L, current
    <3>2. f[1] = Freeze!ApplyTransition(f[0], q[1], s)
      <4>1. 1 \in 1 .. Len(q) /\ 1 - 1 = 0
        BY <1>5, <1>6, <3>1
      <4> QED BY <1>7, <4>1, Zenon DEF FreezeRuns
    <3>3. f[1] = Freeze!UnknownGap(f[0], open, s)
      <4>1. ~ f[0].raised
        BY <1>8, NotRaised
      <4> QED BY <1>6, <2>1, <3>2, <4>1, FreezeDispatch
    <3>5. SettledAt(f[1], s) /\ f[1].pre = st /\ f[1].store.open = None
      <4>1. open \in Events /\ open = f[0].store.open /\ open.id \in f[0].pre.saved
        BY <1>2, <1>8, <2>1
      <4> HIDE DEF open, gone
      <4> QED BY <1>8, <3>3, <4>1, FreezeUnknown
    <3> QED BY <3>1, <3>5 DEF Midway
  <2>2. CASE ~ gone
    <3>1. L = 0 /\ current = open
      BY <2>2 DEF L, current
    <3> QED BY <1>8, <3>1 DEF Midway
  <2> QED BY <2>1, <2>2
<1> HIDE DEF gap, ys, q, gone, open
<1>11. 0 \in S
  <2>1. L + 0 = L
    BY <1>6
  <2> QED BY <1>10, <2>1
<1>12. ASSUME NEW k \in Nat, k \in S PROVE k + 1 \in S
  <2> SUFFICES ASSUME k + 1 <= N
               PROVE  Midway(f[L + (k + 1)], k + 1, current, st, s, cuts)
    OBVIOUS
  <2>1. Midway(f[L + k], k, current, st, s, cuts) /\ k < Len(cuts)
    BY <1>5, <1>12 DEF N
  <2> DEFINE n == L + (k + 1)
  <2>2. n \in 1 .. Len(q) /\ n - 1 = L + k /\ k + 1 \in 1 .. N
    BY <1>5, <1>6
  <2>3. f[n] = Freeze!ApplyTransition(f[L + k], Freeze!TransitionOf(cuts[k + 1]), s)
    <3>1. f[n] = Freeze!ApplyTransition(f[n - 1], q[n], s)
      <4> HIDE DEF n
      <4> QED BY <1>7, <2>2, Zenon DEF FreezeRuns
    <3> QED BY <1>6, <2>2, <3>1
  <2> HIDE DEF S
  <2>4. Midway(Freeze!ApplyTransition(f[L + k],
                       Freeze!TransitionOf(cuts[k + 1]), s),
                    k + 1, current, st, s, cuts)
    <3> DEFINE tx == f[L + k]
    <3>1. Midway(tx, k, current, st, s, cuts)
      BY <2>1
    <3> HIDE DEF tx
    <3>2. Midway(Freeze!ApplyTransition(tx, Freeze!TransitionOf(cuts[k + 1]), s),
                      k + 1, current, st, s, cuts)
      BY <1>3, <1>4, <2>1, <3>1, FreezeTurn
    <3> QED BY <3>2 DEF tx
  <2> QED BY <2>3, <2>4
<1> HIDE DEF S
<1>13. N \in S
  BY <1>5, <1>11, <1>12, Induct
<1> DEFINE tx == f[Len(q)]
<1>14. Midway(tx, N, current, st, s, cuts)
  <2>1. Midway(f[L + N], N, current, st, s, cuts)
    BY <1>5, <1>13 DEF S
  <2> QED BY <1>6, <2>1
<1>15. SettledAt(tx, s)
  BY <1>5, <1>14 DEF Midway
<1> HIDE DEF tx
<1>16. Left(Freeze!Execute(tx))
  BY <1>15, LeftIs
<1> QED BY <1>7, <1>16 DEF FreezeRuns, tx

\* What the recovery of an eventless store becomes.
LEMMA HealedWell ==
    ASSUME NEW st, StoreHeld(st), NEW s, NEW result, Left(result),
           result.store.open = None, Healed(result, [store |-> st], s)
    PROVE  Well(result, st, s)
<1> DEFINE r == st.recovery
           x == result.store.recovery
<1>1. r # None => r.healthy + 1 \in Nat /\ RecoveryHealthy \in Nat
  BY PolicyAssumption DEF StoreHeld, Held, Typed, Recoveries
<1> DEFINE w == [store |-> st]
<1>2. w.store.recovery = r
  OBVIOUS
<1> HIDE DEF w, r, x
<1>3. x # None =>
         /\ r # None /\ x.last = s.seq /\ SameTimeline(x, s)
         /\ SameTimeline(r, s) /\ s.seq = r.last + 1 =>
               x.healthy = r.healthy + 1
  <2>1. Healed(result, w, s)
    BY DEF w
  <2> HIDE DEF w
  <2>2. r # None => r.healthy + 1 >= RecoveryHealthy \/ r.healthy + 1 < RecoveryHealthy
    BY <1>1
  <2> QED BY <1>2, <2>1, <2>2, Zenon DEF Healed, x
<1> QED BY <1>3, Zenon DEF Well, r, x

\* A segment that was not checked.
LEMMA FreezeUnchecked ==
    ASSUME NEW s \in Segments, NEW st, StoreHeld(st),
           KnownHeld(live, st.open, st.recovery), check = "video_freeze",
           NEW evidence, ~ evidence.checked
    PROVE  Left(Freeze!Apply(st, s, evidence))
<1> DEFINE open == st.open
           q == Freeze!Reduce(open, s, evidence)
           y == Freeze!Transition("UNKNOWN_GAP", None)
           x == Freeze!Transition("UNKNOWN_GAP", open)
           b == Freeze!Begin(st)
<1>1. /\ SettledAt(b, s) /\ b.pre = st /\ b.store = st
      /\ (b.store.open # None => b.store.open.id \in st.saved)
      /\ b.store.open \in Events \cup {None}
  <2> HIDE DEF b
  <2> QED BY FreezeBegins DEF b
<1>2. CASE open = None
  <2>1. q = <<>> \o <<y>>
    BY <1>2, Zenon DEF Freeze!Reduce
  <2> HIDE DEF y
  <2>2. Len(q) = 1 /\ q[1] = y
    BY <2>1
  <2>3. PICK f : FreezeRuns(f, st, s, evidence, q)
    <3> DEFINE qq == q
    <3> HIDE DEF qq
    <3>1. qq = Freeze!Reduce(st.open, s, evidence) /\ Len(qq) \in Nat
      BY <2>2 DEF qq
    <3>2. \E f : FreezeRuns(f, st, s, evidence, qq)
      BY <3>1, FreezeLoop
    <3> QED BY <3>2 DEF qq
  <2> HIDE DEF q, b
  <2>4. f[1] = Freeze!ApplyTransition(b, y, s)
    <3>1. 1 \in 1 .. Len(q) /\ 1 - 1 = 0 /\ f[0] = b
      BY <2>2, <2>3 DEF FreezeRuns, b
    <3> QED BY <2>2, <2>3, <3>1, Zenon DEF FreezeRuns
  <2>5. f[1] = Freeze!UnknownGap(b, None, s)
    <3>1. ~ b.raised
      BY <1>1, NotRaised
    <3> QED BY <2>4, <3>1, FreezeDispatch DEF y
  <2>6. SettledAt(f[1], s)
    <3>1. None = b.store.open
      BY <1>1, <1>2
    <3> QED BY <1>1, <2>5, <3>1, FreezeUnknown
  <2> DEFINE tx == f[1]
  <2> HIDE DEF tx
  <2>7. Left(Freeze!Execute(tx))
    BY <2>6, LeftIs DEF tx
  <2> QED BY <2>2, <2>3, <2>7 DEF FreezeRuns, tx
<1>3. CASE open # None
  <2>1. q = <<x>> \o <<y>>
    BY <1>3, Zenon DEF Freeze!Reduce
  <2> HIDE DEF x, y
  <2>2. Len(q) = 2 /\ q[1] = x /\ q[2] = y
    <3> HIDE DEF q
    <3>1. Pair(q, x, y)
      BY <2>1, PairIs
    <3> QED BY <3>1 DEF Pair
  <2>3. PICK f : FreezeRuns(f, st, s, evidence, q)
    <3> DEFINE qq == q
    <3> HIDE DEF qq
    <3>1. qq = Freeze!Reduce(st.open, s, evidence) /\ Len(qq) \in Nat
      BY <2>2 DEF qq
    <3>2. \E f : FreezeRuns(f, st, s, evidence, qq)
      BY <3>1, FreezeLoop
    <3> QED BY <3>2 DEF qq
  <2> HIDE DEF q, b
  <2>4. f[1] = Freeze!ApplyTransition(b, x, s)
    <3>1. 1 \in 1 .. Len(q) /\ 1 - 1 = 0 /\ f[0] = b
      BY <2>2, <2>3 DEF FreezeRuns, b
    <3> QED BY <2>2, <2>3, <3>1, Zenon DEF FreezeRuns
  <2>5. f[2] = Freeze!ApplyTransition(f[1], y, s)
    <3>1. 2 \in 1 .. Len(q) /\ 2 - 1 = 1
      BY <2>2
    <3> QED BY <2>2, <2>3, <3>1, Zenon DEF FreezeRuns
  <2>6. f[1] = Freeze!UnknownGap(b, open, s)
    <3>1. ~ b.raised
      BY <1>1, NotRaised
    <3> QED BY <1>3, <2>4, <3>1, FreezeDispatch DEF x
  <2>7. SettledAt(f[1], s) /\ f[1].pre = st /\ f[1].store.open = None
    <3>1. open = b.store.open /\ open.id \in b.pre.saved
      BY <1>1, <1>3
    <3> HIDE DEF open
    <3> QED BY <1>1, <2>6, <3>1, FreezeUnknown
  <2>8. f[2] = Freeze!UnknownGap(f[1], None, s)
    <3>1. ~ f[1].raised
      BY <2>7, NotRaised
    <3> QED BY <2>5, <3>1, FreezeDispatch DEF y
  <2>9. SettledAt(f[2], s)
    <3> DEFINE c == f[1]
    <3>1. None = c.store.open /\ SettledAt(c, s) /\ f[2] = Freeze!UnknownGap(c, None, s)
      BY <2>7, <2>8
    <3> HIDE DEF c
    <3> QED BY <3>1, FreezeUnknown
  <2> DEFINE tx == f[2]
  <2> HIDE DEF tx
  <2>10. Left(Freeze!Execute(tx))
    BY <2>9, LeftIs DEF tx
  <2> QED BY <2>2, <2>3, <2>10 DEF FreezeRuns, tx
<1> QED BY <1>2, <1>3

\* A healthy segment.
LEMMA FreezeWell ==
    ASSUME NEW s \in Segments, NEW st, StoreHeld(st),
           KnownHeld(live, st.open, st.recovery), check = "video_freeze",
           NEW evidence, evidence.checked, evidence.intervals = <<>>
    PROVE  Well(Freeze!Apply(st, s, evidence), st, s)
<1> DEFINE open == st.open
           gone == open # None /\ ~ SequenceCanFollow(open, s)
           q == Freeze!Reduce(open, s, evidence)
           y == Freeze!Transition("HEALTHY_EVIDENCE", None)
           m == Freeze!Transition("MARK_COMMITTED", None)
           x == Freeze!Transition("UNKNOWN_GAP", open)
           z == Freeze!Transition("CLOSE_EVENT", open)
           b == Freeze!Begin(st)
<1> USE PolicyAssumption
<1>1. /\ SettledAt(b, s) /\ b.pre = st /\ b.store = st /\ b.pending = None
      /\ Answers(b, None)
      /\ (b.store.open # None => b.store.open.id \in st.saved)
      /\ b.store.open \in Events \cup {None}
  <2> HIDE DEF b
  <2> QED BY FreezeBegins DEF b
<1>2. Freeze!SequenceCanFollow(open, s) = SequenceCanFollow(open, s)
  BY FreezeSame
<1>3. ASSUME NEW n \in Nat, n >= 1, Len(q) = n
      PROVE  \E f : FreezeRuns(f, st, s, evidence, q)
  <2> DEFINE qq == q
  <2> HIDE DEF qq
  <2>1. qq = Freeze!Reduce(st.open, s, evidence) /\ Len(qq) \in Nat
    BY <1>3 DEF qq
  <2>2. \E f : FreezeRuns(f, st, s, evidence, qq)
    BY <2>1, FreezeLoop
  <2> QED BY <2>2 DEF qq
<1>4. CASE open = None
  <2>1. q = (<<>> \o <<>>) \o <<y>>
    BY <1>4, Zenon DEF Freeze!Reduce
  <2> HIDE DEF y
  <2>2. Len(q) = 1 /\ q[1] = y
    BY <2>1
  <2>3. PICK f : FreezeRuns(f, st, s, evidence, q)
    BY <1>3, <2>2
  <2> HIDE DEF q, b
  <2>4. f[1] = Freeze!ApplyTransition(b, y, s)
    <3>1. 1 \in 1 .. Len(q) /\ 1 - 1 = 0 /\ f[0] = b
      BY <2>2, <2>3 DEF FreezeRuns, b
    <3> QED BY <2>2, <2>3, <3>1, Zenon DEF FreezeRuns
  <2>5. f[1] = Freeze!Healthy(b, s)
    <3>1. ~ b.raised
      BY <1>1, NotRaised
    <3> QED BY <2>4, <3>1, FreezeDispatch DEF y
  <2> DEFINE tx == f[1]
  <2>6. SettledAt(tx, s) /\ tx.pre = st /\ tx.store.open = None /\ Healed(tx, b, s)
    BY <1>1, <1>4, <2>5, FreezeHeals
  <2> HIDE DEF tx
  <2> DEFINE result == Freeze!Execute(tx)
  <2>7. Done(result, tx)
    BY <2>6, ExecuteIs
  <2> HIDE DEF result
  <2>8. Healed(result, [store |-> st], s)
    BY <1>1, <2>6, <2>7 DEF Healed, Done
  <2>9. Well(result, st, s)
    BY <1>4, <2>6, <2>7, <2>8, HealedWell DEF Done, Left
  <2> QED BY <2>2, <2>3, <2>9 DEF FreezeRuns, tx, result
<1>5. CASE gone
  <2>1. q = (<<x>> \o <<>>) \o <<m>>
    BY <1>2, <1>5, Zenon DEF Freeze!Reduce
  <2> HIDE DEF x, m
  <2>2. Len(q) = 2 /\ q[1] = x /\ q[2] = m
    <3> HIDE DEF q
    <3>1. Pair(q, x, m)
      BY <2>1, PairIs
    <3> QED BY <3>1 DEF Pair
  <2>3. PICK f : FreezeRuns(f, st, s, evidence, q)
    BY <1>3, <2>2
  <2> HIDE DEF q, b
  <2>4. f[1] = Freeze!ApplyTransition(b, x, s)
    <3>1. 1 \in 1 .. Len(q) /\ 1 - 1 = 0 /\ f[0] = b
      BY <2>2, <2>3 DEF FreezeRuns, b
    <3> QED BY <2>2, <2>3, <3>1, Zenon DEF FreezeRuns
  <2>5. f[2] = Freeze!ApplyTransition(f[1], m, s)
    <3>1. 2 \in 1 .. Len(q) /\ 2 - 1 = 1
      BY <2>2
    <3> QED BY <2>2, <2>3, <3>1, Zenon DEF FreezeRuns
  <2>6. f[1] = Freeze!UnknownGap(b, open, s)
    <3>1. ~ b.raised
      BY <1>1, NotRaised
    <3> QED BY <1>5, <2>4, <3>1, FreezeDispatch DEF x
  <2>7. SettledAt(f[1], s) /\ f[1].pre = st /\ f[1].store.open = None
    <3>1. open = b.store.open /\ open.id \in b.pre.saved
      BY <1>1, <1>5
    <3> HIDE DEF open
    <3> QED BY <1>1, <2>6, <3>1, FreezeUnknown
  <2>8. f[2] = f[1]
    <3>1. ~ f[1].raised
      BY <2>7, NotRaised
    <3> QED BY <2>5, <3>1, FreezeDispatch DEF m
  <2> DEFINE tx == f[2]
             result == Freeze!Execute(tx)
  <2>9. SettledAt(tx, s) /\ tx.pre = st /\ tx.store.open = None
    BY <2>7, <2>8
  <2> HIDE DEF tx
  <2>10. Done(result, tx)
    BY <2>9, ExecuteIs
  <2> HIDE DEF result
  <2>11. Well(result, st, s)
    BY <1>5, <2>9, <2>10 DEF Well, Done, Left
  <2> QED BY <2>2, <2>3, <2>11 DEF FreezeRuns, tx, result
<1>6. CASE open # None /\ ~ gone
  <2>1. q = (<<>> \o <<z>>) \o <<y>>
    BY <1>2, <1>6, Zenon DEF Freeze!Reduce
  <2> HIDE DEF y, z
  <2>2. Len(q) = 2 /\ q[1] = z /\ q[2] = y
    <3> HIDE DEF q
    <3>1. Pair(q, z, y)
      BY <2>1, PairIs
    <3> QED BY <3>1 DEF Pair
  <2>3. PICK f : FreezeRuns(f, st, s, evidence, q)
    BY <1>3, <2>2
  <2> HIDE DEF q, b
  <2>4. f[1] = Freeze!ApplyTransition(b, z, s)
    <3>1. 1 \in 1 .. Len(q) /\ 1 - 1 = 0 /\ f[0] = b
      BY <2>2, <2>3 DEF FreezeRuns, b
    <3> QED BY <2>2, <2>3, <3>1, Zenon DEF FreezeRuns
  <2>5. f[2] = Freeze!ApplyTransition(f[1], y, s)
    <3>1. 2 \in 1 .. Len(q) /\ 2 - 1 = 1
      BY <2>2
    <3> QED BY <2>2, <2>3, <3>1, Zenon DEF FreezeRuns
  <2>6. f[1] = Freeze!CloseEvent(b, open)
    <3>1. ~ b.raised
      BY <1>1, NotRaised
    <3> QED BY <2>4, <3>1, FreezeDispatch DEF z
  <2> DEFINE c == f[1]
  <2>7. /\ SettledAt(c, s) /\ c.pre = st /\ c.store.open = None
        /\ Answers(c, c.pending)
    <3>1. open = b.store.open /\ open # None /\ SameTimeline(open, s)
      BY <1>1, <1>6 DEF SequenceCanFollow
    <3>2. Heir(open, b.store.open)
      BY <1>1, <3>1 DEF SettledAt, Settled, Held, OpenHeld, Heir
    <3>3. Following(b, s) /\ b.store.history = b.pre.history
          /\ b.store.incident = b.pre.incident /\ open.id \in b.pre.saved
      BY <1>1, <3>1 DEF Following
    <3> HIDE DEF open
    <3> QED BY <1>1, <2>6, <3>1, <3>2, <3>3, FreezeCloses
  <2>8. f[2] = Freeze!Healthy(c, s)
    <3>1. ~ f[1].raised
      BY <2>7, NotRaised
    <3> QED BY <2>5, <3>1, FreezeDispatch DEF y
  <2> DEFINE tx == f[2]
             result == Freeze!Execute(tx)
  <2> HIDE DEF c
  <2>9. SettledAt(tx, s) /\ tx.pre = st /\ tx.store.open = None
    BY <2>7, <2>8, FreezeHeals
  <2> HIDE DEF tx
  <2>10. Done(result, tx)
    BY <2>9, ExecuteIs
  <2> HIDE DEF result
  <2>11. Well(result, st, s)
    BY <1>6, <2>9, <2>10 DEF Well, Done, Left
  <2> QED BY <2>2, <2>3, <2>11 DEF FreezeRuns, tx, result
<1> QED BY <1>4, <1>5, <1>6

-----------------------------------------------------------------------------
(* The transitions of the audio-loss store, which has no recovery.          *)

\* A name less.
LEMMA ToldLess ==
    ASSUME NEW al \in Seq(Alerts), NEW id \in Ids, NEW why \in Whys,
           NEW al1, al1 = Append(al, Alert("RESOLVED", "CONTINUOUS", id, why))
    PROVE  al1 \in Seq(Alerts) /\ Told(al1) = Told(al) \ {<<"CONTINUOUS", id>>}
BY ToldOpened

\* An event closes; its alert, if it had one, is resolved at once.
LEMMA SettledSilenced ==
    ASSUME NEW s, NEW pre, NEW o, NEW sv, NEW r, NEW h, NEW i, NEW al,
           Settled(s, pre, o, sv, r, h, i, al), check = "audio_loss",
           NEW e, Heir(e, o),
           NEW due \in BOOLEAN, due => ~ e.sent,
           NEW why \in Whys,
           NEW al1, al1 = IF due THEN Append(al, OpenAlertOf(e, "silence")) ELSE al,
           NEW al2, al2 = IF e.sent \/ due
                             THEN Append(al1, Alert("RESOLVED", "CONTINUOUS", e.id, why))
                             ELSE al1
    PROVE  Settled(s, pre, None, sv \cup {e.id}, r, h, i, al2)
<1> DEFINE sv1 == sv \cup {e.id}
           w == "silence"
           name == <<"CONTINUOUS", e.id>>
<1> USE NoneAssumption, LengthAssumption
<1>1. /\ Held(o, sv, r, h, i) /\ KnownHeld(Told(al), o, r) /\ al \in Seq(Alerts)
      /\ pre \in Stores
      /\ r # None /\ ~ SameTimeline(r, s) => Resolvable(pre, r)
  BY DEF Settled
<1>2. /\ EventName(e) = EventName(o) /\ e # None /\ e.id \in Ids
      /\ e.sent \in BOOLEAN
  BY <1>1, HeirName DEF Held
<1>3. r = None
  BY <1>1 DEF Held, RecoveryHeld
<1>4. Typed(None, sv1, r, h, i)
  BY <1>1, <1>2 DEF Held, Typed
<1>5. OpenHeld(None, sv1, r) /\ Together(None, r) /\ RecoveryHeld(sv1, r)
      /\ IncidentsHeld(r, i)
  BY <1>1, <1>3 DEF OpenHeld, Together, RecoveryHeld, Held
<1>6. EventName(None) = {} /\ RecoveryName(r) = {}
      /\ EventName(e) = IF e.sent THEN {name} ELSE {}
  BY <1>2, <1>3 DEF EventName, RecoveryName
<1>7. Told(al) = EventName(e)
  BY <1>1, <1>2, <1>6 DEF KnownHeld
<1>8. w \in Whys /\ "CONTINUOUS" \in {"CONTINUOUS", "REPEATED"}
  BY DEF Whys
<1>9. al1 \in Seq(Alerts) /\ Told(al1) = IF e.sent \/ due THEN {name} ELSE {}
  <2>1. CASE due
    <3>1. al1 = Append(al, Alert("OPEN", "CONTINUOUS", e.id, w))
      BY <2>1 DEF OpenAlertOf
    <3> HIDE DEF w
    <3>2. al1 \in Seq(Alerts) /\ Told(al1) = Told(al) \cup {name}
      BY <1>1, <1>2, <1>8, <3>1, ToldOpened
    <3> QED BY <1>6, <1>7, <2>1, <3>2
  <2>2. CASE ~ due
    <3>1. al1 = al
      BY <2>2
    <3> QED BY <1>1, <1>6, <1>7, <2>2, <3>1
  <2> QED BY <2>1, <2>2
<1>10. al2 \in Seq(Alerts) /\ Told(al2) = {}
  <2>1. CASE e.sent \/ due
    <3>1. al2 = Append(al1, Alert("RESOLVED", "CONTINUOUS", e.id, why))
      BY <2>1
    <3>2. al2 \in Seq(Alerts) /\ Told(al2) = Told(al1) \ {name}
      <4> DEFINE id == e.id
      <4> HIDE DEF id
      <4>1. al1 \in Seq(Alerts) /\ id \in Ids
            /\ al2 = Append(al1, Alert("RESOLVED", "CONTINUOUS", id, why))
        BY <1>2, <1>9, <3>1 DEF id
      <4>2. al2 \in Seq(Alerts) /\ Told(al2) = Told(al1) \ {<<"CONTINUOUS", id>>}
        BY ONLY <4>1, why \in Whys, ToldLess
      <4> QED BY <4>2 DEF id
    <3> QED BY <1>9, <2>1, <3>2
  <2>2. CASE ~ (e.sent \/ due)
    BY <1>9, <2>2
  <2> QED BY <2>1, <2>2
<1>11. KnownHeld(Told(al2), None, r)
  BY <1>6, <1>10 DEF KnownHeld
<1> HIDE DEF sv1
<1>12. Settled(s, pre, None, sv1, r, h, i, al2)
  BY <1>1, <1>4, <1>5, <1>10, <1>11 DEF Settled, Held
<1> QED BY <1>12 DEF sv1

\* The event goes on.
LEMMA AudioPersists ==
    ASSUME NEW s \in Segments, NEW tx, SettledAt(tx, s), check = "audio_loss",
           NEW e, Heir(e, tx.store.open), e.off = SegmentLength
    PROVE  LET t == Audio!PersistOpen(tx, e)
           IN  SettledAt(t, s) /\ t.pre = tx.pre
<1> DEFINE t == Audio!PersistOpen(tx, e)
           w == "silence"
           due == ~ e.sent /\ e.dur >= AlertDuration
           e1 == [e EXCEPT !.sent = e.sent \/ due]
           alert == Audio!Opened(e)
           pre == tx.pre
           o == tx.store.open
           sv == tx.store.saved
           r == tx.store.recovery
           h == tx.store.history
           i == tx.store.incident
           al == tx.alerts
           pe == tx.pending
           al1 == IF due THEN Append(al, OpenAlertOf(e, w)) ELSE al
<1> USE NoneAssumption
<1>1. t = Audio!PublishIf(due, Audio!SaveOpen(tx, e1), alert)
  <2>1. Audio!ShouldAlert(e) = due
    BY Zenon DEF Audio!ShouldAlert
  <2> HIDE DEF due
  <2> QED BY <2>1, Zenon DEF Audio!PersistOpen
<1>2. e \in Events /\ e.sent \in BOOLEAN /\ due \in BOOLEAN
  BY DEF Heir, Events
<1>3. /\ Settled(s, pre, o, sv, r, h, i, al)
      /\ tx = Tx(pre, o, sv, r, h, i, al, pe)
  BY Zenon DEF SettledAt, IsTx
<1>4. r = None /\ Together(e, r)
  BY <1>3 DEF Settled, Held, RecoveryHeld, Together
<1>5. /\ e1 \in Events /\ e1.id = e.id /\ e1.off = e.off /\ e1.dur = e.dur
      /\ SameTimeline(e1, e) /\ e1.sent = (e.sent \/ due)
  <2> DEFINE f == e.sent \/ due
  <2>1. f \in BOOLEAN
    BY Zenon
  <2> HIDE DEF due, f
  <2>2. e1 = [e EXCEPT !.sent = f]
    BY DEF f
  <2> HIDE DEF e1
  <2>3. /\ e1 \in Events /\ e1.id = e.id /\ e1.off = e.off /\ e1.dur = e.dur
        /\ SameTimeline(e1, e) /\ e1.sent = f
    BY <1>2, <2>1, <2>2 DEF Events, SameTimeline
  <2> QED BY <2>3 DEF f
<1>6. alert = OpenAlertOf(e, w)
  BY DEF OpenAlertOf, Alert, Audio!Alert, Audio!Opened
<1>7. due = (r = None /\ ~ e.sent /\ e.dur >= AlertDuration)
  BY <1>4
<1>8. w \in Whys
  BY DEF Whys
<1>9. Heir(e, o)
  OBVIOUS
<1> HIDE DEF e1, alert, o, sv, r, h, i, al, pe, t, due, pre, w
<1>10. Settled(s, pre, e1, sv \cup {e.id}, r, h, i, al1)
  BY <1>3, <1>4, <1>5, <1>7, <1>8, <1>9, SettledOpened
<1> DEFINE sw == sv \cup {e.id}
<1>11. Audio!SaveOpen(tx, e1) = Tx(pre, e1, sw, r, h, i, al, pe)
  <2>1. Audio!SaveOpen(tx, e1) = Tx(pre, e1, sv \cup {e1.id}, r, h, i, al, pe)
    BY <1>3, AudioOps
  <2> QED BY <1>5, <2>1
<1> HIDE DEF sw
<1>12. t = Tx(pre, e1, sw, r, h, i, al1, pe)
  <2>1. t = IF due THEN Tx(pre, e1, sw, r, h, i, Append(al, alert), pe)
                   ELSE Tx(pre, e1, sw, r, h, i, al, pe)
    BY <1>1, <1>11, AudioOps
  <2> QED BY <1>6, <2>1, Zenon
<1> HIDE DEF al1
<1>13. SettledAt(t, s) /\ t.pre = pre
  BY <1>10, <1>12, SettledIs DEF sw
<1> QED BY <1>13 DEF pre, t

\* An event closes.
LEMMA AudioResolves ==
    ASSUME NEW s \in Segments, NEW tx, SettledAt(tx, s), check = "audio_loss",
           NEW e, Heir(e, tx.store.open), NEW why \in Whys
    PROVE  LET t == Audio!Resolve(tx, e, why)
           IN  SettledAt(t, s) /\ t.pre = tx.pre /\ t.store.open = None
<1> DEFINE t == Audio!Resolve(tx, e, why)
           w == "silence"
           due == ~ e.sent /\ e.dur >= AlertDuration
           named == e.sent \/ due
           alert == Audio!Opened(e)
           end == Audio!Alert("RESOLVED", "CONTINUOUS", e.id, why)
           pre == tx.pre
           o == tx.store.open
           sv == tx.store.saved
           sw == sv \cup {e.id}
           r == tx.store.recovery
           h == tx.store.history
           i == tx.store.incident
           al == tx.alerts
           pe == tx.pending
           al1 == IF due THEN Append(al, OpenAlertOf(e, w)) ELSE al
           al2 == IF named
                     THEN Append(al1, Alert("RESOLVED", "CONTINUOUS", e.id, why))
                     ELSE al1
           opened == Audio!PublishIf(due, Audio!SaveClosed(tx, e), alert)
<1> USE NoneAssumption
<1>1. t = Audio!PublishIf(named, opened, end)
  <2>1. Audio!ShouldAlert(e) = due
    BY Zenon DEF Audio!ShouldAlert
  <2> HIDE DEF due
  <2> QED BY <2>1, Zenon DEF Audio!Resolve
<1>2. e \in Events /\ e.sent \in BOOLEAN /\ due \in BOOLEAN /\ (due => ~ e.sent)
  BY DEF Heir, Events
<1>3. /\ Settled(s, pre, o, sv, r, h, i, al)
      /\ tx = Tx(pre, o, sv, r, h, i, al, pe)
  BY Zenon DEF SettledAt, IsTx
<1>4. alert = OpenAlertOf(e, w)
      /\ end = Alert("RESOLVED", "CONTINUOUS", e.id, why)
  BY DEF OpenAlertOf, Alert, Audio!Alert, Audio!Opened
<1>5. Heir(e, o)
  OBVIOUS
<1>6. al2 = IF e.sent \/ due
               THEN Append(al1, Alert("RESOLVED", "CONTINUOUS", e.id, why))
               ELSE al1
  OBVIOUS
<1> HIDE DEF o, sv, r, h, i, al, pe, t, due, pre
<1>7. Settled(s, pre, None, sv \cup {e.id}, r, h, i, al2)
  <2>1. al1 = IF due THEN Append(al, OpenAlertOf(e, "silence")) ELSE al
    OBVIOUS
  <2> HIDE DEF al1, al2
  <2> QED BY <1>2, <1>3, <1>5, <1>6, <2>1, SettledSilenced
<1> HIDE DEF alert, end, w, opened
<1>8. Audio!SaveClosed(tx, e) = Tx(pre, None, sw, r, h, i, al, pe)
  BY <1>3, AudioOps
<1> HIDE DEF sw
<1>9. opened = Tx(pre, None, sw, r, h, i, al1, pe)
  <2>1. opened = IF due THEN Tx(pre, None, sw, r, h, i, Append(al, alert), pe)
                        ELSE Tx(pre, None, sw, r, h, i, al, pe)
    BY <1>8, AudioOps DEF opened
  <2> QED BY <1>4, <2>1, Zenon
<1> HIDE DEF al1, named
<1>10. t = Tx(pre, None, sw, r, h, i, al2, pe)
  <2>1. t = IF named THEN Tx(pre, None, sw, r, h, i, Append(al1, end), pe)
                     ELSE Tx(pre, None, sw, r, h, i, al1, pe)
    BY <1>1, <1>9, AudioOps
  <2> QED BY <1>4, <2>1, Zenon
<1> HIDE DEF al2
<1>11. SettledAt(t, s) /\ t.pre = pre /\ t.store.open = None
  BY <1>7, <1>10, SettledIs DEF sw
<1> QED BY <1>11 DEF pre, t

\* One more cut.
LEMMA AudioTurn ==
    ASSUME NEW k \in Nat, NEW current, NEW st, NEW s \in Segments, NEW cuts,
           NEW tx, check = "audio_loss",
           Midway(tx, k, current, st, s, cuts), k < Len(cuts),
           WellCut(cuts, current, s), current # None => SameTimeline(current, s)
    PROVE  Midway(Audio!ApplyTransition(tx, Audio!TransitionOf(cuts[k + 1])),
                  k + 1, current, st, s, cuts)
<1> DEFINE e == cuts[k + 1].event
           kind == cuts[k + 1].kind
           t == Audio!ApplyTransition(tx, Audio!TransitionOf(cuts[k + 1]))
<1>1. Midway(tx, k, current, st, s, cuts) /\ SettledAt(tx, s)
      /\ tx.pre = st
  BY DEF Midway
<1>2. /\ e \in Events /\ kind \in Kinds /\ Heir(e, tx.store.open)
      /\ kind = "open" => k + 1 = Len(cuts) /\ e.off = SegmentLength
  BY <1>1, NextCut
<1>4. k + 1 # 0 /\ k + 1 > 0 /\ Len(cuts) \in Nat
  BY DEF WellCut
<1>5. CASE kind = "open"
  <2>1. t = Audio!PersistOpen(tx, e)
    BY <1>5 DEF Audio!TransitionOf, Audio!ApplyTransition
  <2> HIDE DEF t, e, kind
  <2>2. SettledAt(t, s) /\ t.pre = tx.pre
    BY <1>1, <1>2, <1>5, <2>1, AudioPersists
  <2>3. ~ (k + 1 < Len(cuts))
    BY <1>2, <1>4, <1>5
  <2>4. Midway(t, k + 1, current, st, s, cuts)
    BY <1>1, <1>4, <2>2, <2>3 DEF Midway
  <2> QED BY <2>4 DEF t
<1>6. CASE kind # "open"
  <2> DEFINE w == "audio_returned"
  <2>1. t = Audio!Resolve(tx, e, w)
    BY <1>6 DEF Audio!TransitionOf, Audio!ApplyTransition, Audio!Resolved
  <2>2. w \in Whys
    BY DEF Whys
  <2> HIDE DEF t, e, kind, w
  <2>3. SettledAt(t, s) /\ t.pre = tx.pre /\ t.store.open = None
    BY <1>1, <1>2, <2>1, <2>2, AudioResolves
  <2>4. Midway(t, k + 1, current, st, s, cuts)
    BY <1>1, <1>4, <2>3 DEF Midway
  <2> QED BY <2>4 DEF t
<1> QED BY <1>5, <1>6

\* A segment with intervals.
LEMMA AudioIntervals ==
    ASSUME NEW s \in Segments, NEW st, StoreHeld(st),
           KnownHeld(live, st.open, st.recovery), check = "audio_loss",
           NEW evidence, Seen(evidence), evidence.intervals # <<>>
    PROVE  Left(Audio!Apply(st, s, evidence))
<1> DEFINE open == st.open
           gone == open # None /\ ~ SequenceCanFollow(open, s)
           current == IF gone THEN None ELSE open
           cuts == JoinIntervals(current, s, evidence, FALSE)
           N == Len(cuts)
           ys == [n \in DOMAIN cuts |-> Audio!TransitionOf(cuts[n])]
           gap == IF gone THEN <<Audio!Resolved(open, "observation_gap")>> ELSE <<>>
           q == Audio!Reduce(open, s, evidence)
           L == IF gone THEN 1 ELSE 0
<1> USE NoneAssumption
<1>1. q = gap \o ys
  <2>1. Audio!SequenceCanFollow(open, s) = SequenceCanFollow(open, s)
    BY DEF Audio!SequenceCanFollow, SequenceCanFollow, Audio!SameTimeline,
           SameTimeline
  <2>2. Audio!JoinIntervals(current, s, evidence, FALSE)
          = JoinIntervals(current, s, evidence, FALSE)
    BY JoinSame
  <2> QED BY <2>1, <2>2, Zenon DEF Audio!Reduce
<1>2. /\ open \in Events \cup {None}
      /\ open # None => /\ open.off = SegmentLength /\ open.id \in st.saved
                        /\ open.dur \in 1 .. AlertDuration
  BY DEF StoreHeld, Held, Typed, OpenHeld
<1>3. Continuable(current, s) /\ (current # None => SameTimeline(current, s))
  BY <1>2 DEF Continuable, SequenceCanFollow
<1>4. WellCut(cuts, current, s) /\ cuts # <<>>
  <2> HIDE DEF current
  <2> QED BY <1>3, JoinIntervalsWellCut DEF Seen
<1>5. N \in Nat /\ N >= 1 /\ DOMAIN cuts = 1 .. N
  <2> HIDE DEF cuts
  <2>1. cuts \in Seq([kind : {"interrupted", "ended", "open"}, event : Events])
    BY <1>4 DEF WellCut
  <2> DEFINE C == [kind : {"interrupted", "ended", "open"}, event : Events]
  <2> HIDE DEF C
  <2> QED BY <1>4, <2>1 DEF C
<1> HIDE DEF cuts, N, current
<1>6. /\ Len(q) = L + N /\ L \in Nat
      /\ gone => q[1] = Audio!Resolved(open, "observation_gap")
      /\ \A k \in 1 .. N : q[L + k] = Audio!TransitionOf(cuts[k])
  <2>1. /\ ys = [k \in 1 .. N |-> ys[k]]
       /\ \A k \in 1 .. N : ys[k] = Audio!TransitionOf(cuts[k])
    BY <1>5
  <2> HIDE DEF ys, q
  <2>2. CASE gone
    <3> DEFINE x == Audio!Resolved(open, "observation_gap")
    <3>1. q = <<x>> \o ys
      BY <1>1, <2>2
    <3> HIDE DEF x
    <3>2. Len(q) = N + 1 /\ q[1] = x /\ \A k \in 1 .. N : q[k + 1] = ys[k]
      BY <1>5, <2>1, <3>1, AfterGap
    <3> QED BY <1>5, <2>1, <2>2, <3>2 DEF x
  <2>3. CASE ~ gone
    <3>1. q = <<>> \o ys
      BY <1>1, <2>3
    <3>2. Len(q) = N /\ \A k \in 1 .. N : q[k] = ys[k]
      BY <1>5, <2>1, <3>1, AfterGap
    <3> QED BY <1>5, <2>1, <2>3, <3>2
  <2> QED BY <2>2, <2>3
<1> DEFINE qq == q
<1> HIDE DEF qq, L
<1>7. PICK f : AudioRuns(f, st, s, evidence, q)
  <2>1. qq = Audio!Reduce(st.open, s, evidence) /\ Len(qq) \in Nat
    BY <1>5, <1>6 DEF qq
  <2>2. \E f : AudioRuns(f, st, s, evidence, qq)
    BY <2>1, AudioLoop
  <2> QED BY <2>2 DEF qq
<1>8. /\ SettledAt(f[0], s) /\ f[0].pre = st /\ f[0].store = st /\ st \in Stores
  <2>1. st \in Stores
    BY DEF StoreHeld
  <2>2. Begun(f[0], st)
    BY <1>7, <2>1, BeginIs DEF AudioRuns
  <2>3. SettledAt(f[0], s)
    BY <2>2, SettledBegun
  <2> QED BY <2>1, <2>2, <2>3 DEF Begun
<1> DEFINE S == {k \in Nat : k <= N => Midway(f[L + k], k, current, st, s, cuts)}
<1>10. Midway(f[L], 0, current, st, s, cuts)
  <2>1. CASE gone
    <3>1. L = 1 /\ current = None
      BY <2>1 DEF L, current
    <3>2. f[1] = Audio!ApplyTransition(f[0], q[1])
      <4>1. 1 \in 1 .. Len(q) /\ 1 - 1 = 0
        BY <1>5, <1>6, <3>1
      <4> QED BY <1>7, <4>1, Zenon DEF AudioRuns
    <3>3. f[1] = Audio!Resolve(f[0], open, "observation_gap")
      BY <1>6, <2>1, <3>2 DEF Audio!ApplyTransition, Audio!Resolved
    <3>4. SettledAt(f[1], s) /\ f[1].pre = st /\ f[1].store.open = None
      <4> DEFINE w == "observation_gap"
                 c == f[0]
      <4>1. open = c.store.open /\ open # None /\ w \in Whys
            /\ f[1] = Audio!Resolve(c, open, w) /\ SettledAt(c, s) /\ c.pre = st
        BY <1>8, <2>1, <3>3 DEF Whys
      <4>2. Heir(open, c.store.open)
        BY <4>1 DEF SettledAt, Settled, Held, Typed, OpenHeld, Heir
      <4> HIDE DEF open, gone, w, c
      <4> QED BY <4>1, <4>2, AudioResolves
    <3> QED BY <3>1, <3>4 DEF Midway
  <2>2. CASE ~ gone
    <3>1. L = 0 /\ current = open
      BY <2>2 DEF L, current
    <3> QED BY <1>8, <3>1 DEF Midway
  <2> QED BY <2>1, <2>2
<1> HIDE DEF gap, ys, q, gone, open
<1>11. 0 \in S
  <2>1. L + 0 = L
    BY <1>6
  <2> QED BY <1>10, <2>1
<1>12. ASSUME NEW k \in Nat, k \in S PROVE k + 1 \in S
  <2> SUFFICES ASSUME k + 1 <= N
               PROVE  Midway(f[L + (k + 1)], k + 1, current, st, s, cuts)
    OBVIOUS
  <2>1. Midway(f[L + k], k, current, st, s, cuts) /\ k < Len(cuts)
    BY <1>5, <1>12 DEF N
  <2> DEFINE n == L + (k + 1)
  <2>2. n \in 1 .. Len(q) /\ n - 1 = L + k /\ k + 1 \in 1 .. N
    BY <1>5, <1>6
  <2>3. f[n] = Audio!ApplyTransition(f[L + k], Audio!TransitionOf(cuts[k + 1]))
    <3>1. f[n] = Audio!ApplyTransition(f[n - 1], q[n])
      <4> HIDE DEF n
      <4> QED BY <1>7, <2>2, Zenon DEF AudioRuns
    <3> QED BY <1>6, <2>2, <3>1
  <2> HIDE DEF S
  <2>4. Midway(Audio!ApplyTransition(f[L + k],
                       Audio!TransitionOf(cuts[k + 1])),
                    k + 1, current, st, s, cuts)
    <3> DEFINE tx == f[L + k]
    <3>1. Midway(tx, k, current, st, s, cuts)
      BY <2>1
    <3> HIDE DEF tx
    <3>2. Midway(Audio!ApplyTransition(tx, Audio!TransitionOf(cuts[k + 1])),
                      k + 1, current, st, s, cuts)
      BY <1>3, <1>4, <2>1, <3>1, AudioTurn
    <3> QED BY <3>2 DEF tx
  <2> QED BY <2>3, <2>4
<1> HIDE DEF S
<1>13. N \in S
  BY <1>5, <1>11, <1>12, Induct
<1> DEFINE tx == f[Len(q)]
<1>14. Midway(tx, N, current, st, s, cuts)
  <2>1. Midway(f[L + N], N, current, st, s, cuts)
    BY <1>5, <1>13 DEF S
  <2> QED BY <1>6, <2>1
<1>15. SettledAt(tx, s)
  BY <1>5, <1>14 DEF Midway
<1> HIDE DEF tx
<1>16. Left(Audio!Execute(tx))
  BY <1>15, LeftIs
<1> QED BY <1>7, <1>16 DEF AudioRuns, tx

\* A segment without silence.
LEMMA AudioWell ==
    ASSUME NEW s \in Segments, NEW st, StoreHeld(st),
           KnownHeld(live, st.open, st.recovery), check = "audio_loss",
           NEW evidence, evidence.intervals = <<>>
    PROVE  Well(Audio!Apply(st, s, evidence), st, s)
<1> DEFINE open == st.open
           gone == open # None /\ ~ SequenceCanFollow(open, s)
           q == Audio!Reduce(open, s, evidence)
           w == IF gone THEN "observation_gap" ELSE "audio_returned"
           z == Audio!Resolved(open, w)
           b == Audio!Begin(st)
<1>1. SettledAt(b, s) /\ b.pre = st /\ b.store = st
  <2> HIDE DEF b
  <2>1. Begun(b, st) /\ st \in Stores
    BY BeginIs DEF StoreHeld, b
  <2>2. SettledAt(b, s)
    BY <2>1, SettledBegun
  <2> QED BY <2>1, <2>2 DEF Begun
<1>2. Audio!SequenceCanFollow(open, s) = SequenceCanFollow(open, s)
  BY DEF Audio!SequenceCanFollow, SequenceCanFollow, Audio!SameTimeline,
         SameTimeline
<1>3. st.recovery = None
  BY DEF StoreHeld, Held, RecoveryHeld
<1>4. CASE open = None
  <2>1. q = <<>> \o <<>>
    BY <1>4, Zenon DEF Audio!Reduce
  <2>2. Len(q) = 0
    BY <2>1
  <2>3. PICK f : AudioRuns(f, st, s, evidence, q)
    <3> DEFINE qq == q
    <3> HIDE DEF qq
    <3>1. qq = Audio!Reduce(st.open, s, evidence) /\ Len(qq) \in Nat
      BY <2>2 DEF qq
    <3>2. \E f : AudioRuns(f, st, s, evidence, qq)
      BY <3>1, AudioLoop
    <3> QED BY <3>2 DEF qq
  <2> HIDE DEF q
  <2>4. Audio!Apply(st, s, evidence) = Audio!Execute(b)
    BY <2>2, <2>3 DEF AudioRuns
  <2> DEFINE result == Audio!Execute(b)
  <2> HIDE DEF b
  <2>5. Done(result, b)
    BY <1>1, ExecuteIs
  <2> HIDE DEF result
  <2>6. Well(result, st, s)
    BY <1>1, <1>3, <1>4, <2>5 DEF Well, Done, Left
  <2> QED BY <2>4, <2>6 DEF result
<1>5. CASE open # None
  <2>1. q = <<z>>
    <3>1. q = <<z>> \o <<>> \/ q = <<>> \o <<z>>
      BY <1>2, <1>5, Zenon DEF Audio!Reduce
    <3> HIDE DEF z
    <3> QED BY <3>1
  <2> HIDE DEF z
  <2>2. Len(q) = 1 /\ q[1] = z
    BY <2>1
  <2>3. PICK f : AudioRuns(f, st, s, evidence, q)
    <3> DEFINE qq == q
    <3> HIDE DEF qq
    <3>1. qq = Audio!Reduce(st.open, s, evidence) /\ Len(qq) \in Nat
      BY <2>2 DEF qq
    <3>2. \E f : AudioRuns(f, st, s, evidence, qq)
      BY <3>1, AudioLoop
    <3> QED BY <3>2 DEF qq
  <2> HIDE DEF q, b
  <2>4. f[1] = Audio!ApplyTransition(b, z)
    <3>1. 1 \in 1 .. Len(q) /\ 1 - 1 = 0 /\ f[0] = b
      BY <2>2, <2>3 DEF AudioRuns, b
    <3> QED BY <2>2, <2>3, <3>1, Zenon DEF AudioRuns
  <2>5. f[1] = Audio!Resolve(b, open, w)
    BY <2>4 DEF z, Audio!Resolved, Audio!ApplyTransition
  <2>6. SettledAt(f[1], s) /\ f[1].pre = st /\ f[1].store.open = None
    <3>1. open = b.store.open /\ open # None /\ w \in Whys
      BY <1>1, <1>5 DEF Whys
    <3>2. Heir(open, b.store.open)
      BY <1>1, <3>1 DEF SettledAt, Settled, Held, Typed, OpenHeld, Heir
    <3> HIDE DEF open, w
    <3> QED BY <1>1, <2>5, <3>1, <3>2, AudioResolves
  <2> DEFINE tx == f[1]
             result == Audio!Execute(tx)
  <2> HIDE DEF tx
  <2>7. Done(result, tx)
    BY <2>6, ExecuteIs DEF tx
  <2> HIDE DEF result
  <2>8. Well(result, st, s)
    BY <1>5, <2>6, <2>7 DEF Well, Done, Left, tx
  <2> QED BY <2>2, <2>3, <2>8 DEF AudioRuns, tx, result
<1> QED BY <1>4, <1>5

-----------------------------------------------------------------------------
(* The transitions of the macroblocking store.                              *)

\* The macroblocking store's copies of shared operators.
LEMMA BlocksSame ==
    ASSUME NEW x, NEW s
    PROVE  /\ Blocks!SameTimeline(x, s) = SameTimeline(x, s)
           /\ Blocks!SequenceCanFollow(x, s) = SequenceCanFollow(x, s)
BY DEF Blocks!SameTimeline, SameTimeline, Blocks!SequenceCanFollow,
       SequenceCanFollow

\* What a transition is applied by.
LEMMA BlocksDispatch ==
    ASSUME NEW tx, NEW s, NEW e
    PROVE  /\ Blocks!ApplyTransition(tx, Blocks!Transition("MARK_COMMITTED", e), s) = tx
           /\ Blocks!ApplyTransition(tx, Blocks!Transition("PERSIST_OPEN", e), s)
                = Blocks!SaveOpen(tx, e)
           /\ Blocks!ApplyTransition(tx, Blocks!Transition("OPEN_ALERT", e), s)
                = Blocks!OpenAlert(tx, e)
           /\ Blocks!ApplyTransition(tx, Blocks!Transition("CLOSE_EVENT", e), s)
                = Blocks!CloseEvent(tx, e)
           /\ Blocks!ApplyTransition(tx, Blocks!Transition("HEALTHY_EVIDENCE", e), s)
                = Blocks!ApplyHealthy(tx, s)
           /\ Blocks!ApplyTransition(tx, Blocks!Transition("UNKNOWN_GAP", e), s)
                = Blocks!UnknownGap(tx, s)
BY DEF Blocks!ApplyTransition, Blocks!Transition

\* The flag of an event that is due.
LEMMA SentIs ==
    ASSUME NEW e \in Events
    PROVE  /\ Blocks!ShouldAlert(e) = (~ e.sent /\ e.dur >= AlertDuration)
           /\ ~ Blocks!ShouldAlert(e) => Blocks!Sent(e) = e
           /\ Blocks!ShouldAlert(e) =>
                 /\ Blocks!Sent(e) \in Events /\ Blocks!Sent(e).id = e.id
                 /\ Blocks!Sent(e).sent /\ Blocks!Sent(e).seq = e.seq
                 /\ Blocks!Sent(e).off = e.off /\ Blocks!Sent(e).dur = e.dur
                 /\ SameTimeline(Blocks!Sent(e), e)
                 /\ [Blocks!Sent(e) EXCEPT !.sent = FALSE] = e
<1> DEFINE due == Blocks!ShouldAlert(e)
           f == e.sent \/ due
<1>1. e.sent \in BOOLEAN
  BY DEF Events
<1>2. due = (~ e.sent /\ e.dur >= AlertDuration)
  BY Zenon DEF Blocks!ShouldAlert
<1>3. Blocks!Sent(e) = [e EXCEPT !.sent = f]
  BY Zenon DEF Blocks!Sent
<1>4. f \in BOOLEAN /\ (due => f = TRUE /\ e.sent = FALSE) /\ (~ due => f = e.sent)
  BY <1>1, <1>2, Zenon
<1> HIDE DEF due, f
<1>5. ~ due => Blocks!Sent(e) = e
  BY <1>3, <1>4 DEF Events
<1>6. ASSUME due
      PROVE  /\ Blocks!Sent(e) \in Events /\ Blocks!Sent(e).id = e.id
             /\ Blocks!Sent(e).sent /\ Blocks!Sent(e).seq = e.seq
             /\ Blocks!Sent(e).off = e.off /\ Blocks!Sent(e).dur = e.dur
             /\ SameTimeline(Blocks!Sent(e), e)
             /\ [Blocks!Sent(e) EXCEPT !.sent = FALSE] = e
  <2> DEFINE no == FALSE
             yes == TRUE
             x == Blocks!Sent(e)
  <2>1. x = [e EXCEPT !.sent = yes] /\ yes \in BOOLEAN /\ no \in BOOLEAN
        /\ e.sent = no
    BY <1>3, <1>4, <1>6
  <2> HIDE DEF x, yes, no
  <2>2. /\ x \in Events /\ x.id = e.id /\ x.sent = yes /\ x.seq = e.seq
        /\ x.off = e.off /\ x.dur = e.dur /\ SameTimeline(x, e)
    BY <2>1 DEF Events, SameTimeline
  <2>3. [x EXCEPT !.sent = no] = e
    BY <2>1 DEF Events
  <2>4. x.sent
    BY <2>2, Zenon DEF yes
  <2> QED BY <2>2, <2>3, <2>4, Zenon DEF x, no
<1> QED BY <1>2, <1>5, <1>6 DEF due

\* The event goes on, and is not due.
LEMMA BlocksPersists ==
    ASSUME NEW s \in Segments, NEW tx, SettledAt(tx, s), check = "macroblocking",
           NEW e, Heir(e, tx.store.open), e.off = SegmentLength,
           ~ Blocks!ShouldAlert(e)
    PROVE  LET t == Blocks!SaveOpen(tx, e)
           IN  SettledAt(t, s) /\ t.pre = tx.pre
<1> DEFINE t == Blocks!SaveOpen(tx, e)
           pre == tx.pre
           o == tx.store.open
           sv == tx.store.saved
           r == tx.store.recovery
           h == tx.store.history
           i == tx.store.incident
           al == tx.alerts
           pe == tx.pending
           due == NoError
           w == "silence"
           al1 == IF due THEN Append(al, OpenAlertOf(e, w)) ELSE al
<1>1. /\ Settled(s, pre, o, sv, r, h, i, al)
      /\ tx = Tx(pre, o, sv, r, h, i, al, pe)
  BY Zenon DEF SettledAt, IsTx
<1>2. e \in Events /\ e.sent \in BOOLEAN /\ e.id = e.id /\ SameTimeline(e, e)
  BY DEF Heir, Events, SameTimeline
<1>3. Together(e, r)
  BY DEF Together
<1>4. ~ (~ e.sent /\ e.dur >= AlertDuration)
  BY <1>2, SentIs
<1>5. due = (r = None /\ ~ e.sent /\ e.dur >= AlertDuration) /\ ~ due
  BY <1>4, Zenon DEF NoError
<1>6. e.sent = (e.sent \/ due)
  BY <1>2, <1>5
<1>7. w \in Whys /\ Heir(e, o)
  BY DEF Whys
<1>8. al1 = al
  BY <1>5
<1> HIDE DEF t, pre, o, sv, r, h, i, al, pe, due, w
<1>9. Settled(s, pre, e, sv \cup {e.id}, r, h, i, al1)
  BY <1>1, <1>2, <1>3, <1>5, <1>6, <1>7, SettledOpened
<1> HIDE DEF al1
<1>10. t = Tx(pre, e, sv \cup {e.id}, r, h, i, al, pe)
  BY <1>1, BlocksOps DEF t
<1>11. SettledAt(t, s) /\ t.pre = pre
  BY <1>8, <1>9, <1>10, SettledIs
<1> QED BY <1>11 DEF pre, t

\* The event goes on, and is due.
LEMMA BlocksOpens ==
    ASSUME NEW s \in Segments, NEW tx, SettledAt(tx, s), check = "macroblocking",
           NEW e, Heir(e, tx.store.open), e.off = SegmentLength,
           Blocks!ShouldAlert(e)
    PROVE  LET t == Blocks!OpenAlert(tx, Blocks!Sent(e))
           IN  SettledAt(t, s) /\ t.pre = tx.pre
<1> DEFINE x == Blocks!Sent(e)
           t == Blocks!OpenAlert(tx, x)
           pre == tx.pre
           o == tx.store.open
           sv == tx.store.saved
           r == tx.store.recovery
           h == tx.store.history
           i == tx.store.incident
           al == tx.alerts
           pe == tx.pending
           due == r = None
           w == "macroblocking_duration_threshold"
           e1 == IF due THEN x ELSE e
           al1 == IF due THEN Append(al, OpenAlertOf(e, w)) ELSE al
<1>1. /\ Settled(s, pre, o, sv, r, h, i, al)
      /\ tx = Tx(pre, o, sv, r, h, i, al, pe)
  BY Zenon DEF SettledAt, IsTx
<1>2. e \in Events /\ e.sent \in BOOLEAN /\ SameTimeline(e, e) /\ Heir(e, o)
  BY DEF Heir, Events, SameTimeline
<1>3. Together(e, r)
  BY DEF Together
<1>4. /\ ~ e.sent /\ e.dur >= AlertDuration
      /\ x \in Events /\ x.id = e.id /\ x.sent
      /\ x.off = e.off /\ x.dur = e.dur /\ SameTimeline(x, e)
      /\ [x EXCEPT !.sent = FALSE] = e
  BY <1>2, SentIs
<1>5. due = (r = None /\ ~ e.sent /\ e.dur >= AlertDuration)
  BY <1>4
<1>6. x.sent \in BOOLEAN
  BY <1>4 DEF Events
<1>7. /\ e1 \in Events /\ e1.id = e.id /\ e1.off = e.off /\ e1.dur = e.dur
      /\ SameTimeline(e1, e) /\ e1.sent = (e.sent \/ due)
  <2> HIDE DEF x
  <2>1. CASE due
    BY <1>4, <1>6, <2>1
  <2>2. CASE ~ due
    BY <1>2, <1>4, <2>2
  <2> QED BY <2>1, <2>2
<1>8. w \in Whys /\ Blocks!Alert("OPEN", "CONTINUOUS", x.id, w) = OpenAlertOf(e, w)
  BY <1>4 DEF Whys, Blocks!Alert, Alert, OpenAlertOf
<1>9. t = IF due THEN Blocks!Publish(Blocks!SaveOpen(tx, x),
                           Blocks!Alert("OPEN", "CONTINUOUS", x.id, w))
                 ELSE Blocks!SaveOpen(tx, e)
  BY <1>4, Zenon DEF Blocks!OpenAlert
<1> HIDE DEF t, pre, o, sv, r, h, i, al, pe, due, w, x, e1
<1>10. Settled(s, pre, e1, sv \cup {e.id}, r, h, i, al1)
  BY <1>1, <1>2, <1>3, <1>5, <1>7, <1>8, SettledOpened
<1> DEFINE sw == sv \cup {e.id}
           a == OpenAlertOf(e, w)
<1>11. Blocks!SaveOpen(tx, x) = Tx(pre, x, sw, r, h, i, al, pe)
  <2>1. Blocks!SaveOpen(tx, x) = Tx(pre, x, sv \cup {x.id}, r, h, i, al, pe)
    BY <1>1, BlocksOps
  <2> QED BY <1>4, <2>1
<1>12. Blocks!SaveOpen(tx, e) = Tx(pre, e, sw, r, h, i, al, pe)
  BY <1>1, BlocksOps
<1> HIDE DEF sw, a
<1>13. t = Tx(pre, e1, sw, r, h, i, al1, pe)
  <2>1. CASE due
    <3>1. t = Blocks!Publish(Tx(pre, x, sw, r, h, i, al, pe), a)
      BY <1>8, <1>9, <1>11, <2>1 DEF a
    <3>2. t = Tx(pre, x, sw, r, h, i, Append(al, a), pe)
      BY <3>1, BlocksOps
    <3> QED BY <2>1, <3>2 DEF a, e1
  <2>2. CASE ~ due
    BY <1>9, <1>12, <2>2 DEF e1
  <2> QED BY <2>1, <2>2
<1> HIDE DEF al1
<1>14. SettledAt(t, s) /\ t.pre = pre
  BY <1>10, <1>13, SettledIs DEF sw
<1> QED BY <1>14 DEF pre, t, x

\* The canonical event of the alert that waits was there before the segment.
Recalled(tx) ==
    tx.store.recovery # None => tx.store.recovery.id \in tx.pre.saved

\* An event closes as it is.
LEMMA BlocksCloses ==
    ASSUME NEW s \in Segments, NEW tx, SettledAt(tx, s), check = "macroblocking",
           NEW e, Heir(e, tx.store.open),
           SameTimeline(e, s) \/ e.id \in tx.pre.saved
    PROVE  LET t == Blocks!CloseEvent(tx, e)
           IN  /\ SettledAt(t, s) /\ t.pre = tx.pre /\ t.store.open = None
               /\ Recalled(tx) /\ e.id \in tx.pre.saved => Recalled(t)
<1> DEFINE x == NewRecovery(e.id, "CONTINUOUS", e, e)
           t == Blocks!CloseEvent(tx, e)
           pre == tx.pre
           o == tx.store.open
           sv == tx.store.saved
           sw == sv \cup {e.id}
           r == tx.store.recovery
           h == tx.store.history
           i == tx.store.incident
           al == tx.alerts
           pe == tx.pending
           due == NoError
           w == "silence"
           r1 == IF e.sent \/ due THEN x ELSE r
           al1 == IF due THEN Append(al, OpenAlertOf(e, w)) ELSE al
<1> USE NoneAssumption
<1>1. /\ Settled(s, pre, o, sv, r, h, i, al)
      /\ tx = Tx(pre, o, sv, r, h, i, al, pe)
  BY Zenon DEF SettledAt, IsTx
<1>2. /\ e \in Events /\ e.id \in Ids /\ e.sent \in BOOLEAN /\ Heir(e, o)
      /\ e.gen \in Generations /\ e.disc \in Nat
  BY DEF Heir, Events
<1>3. /\ x \in Recoveries /\ x.id = e.id /\ x.kind = "CONTINUOUS"
      /\ x.healthy = 0 /\ SameTimeline(x, e)
      /\ x = Blocks!NewRecovery(e.id, "CONTINUOUS", e, e)
  BY <1>2, NewRecoveryIs
<1>4. SameTimeline(x, s) \/ x.id \in pre.saved
  BY <1>3 DEF SameTimeline
<1>5. due \in BOOLEAN /\ ~ due /\ w \in Whys
  BY DEF NoError, Whys
<1>6. e.sent => r = None
  BY <1>1, HeirName DEF Settled, Held
<1>7. Blocks!SaveClosed(tx, e) = Tx(pre, None, sw, r, h, i, al, pe)
  <2> HIDE DEF sw, pre, o, sv, r, h, i, al, pe
  <2> QED BY <1>1, BlocksOps DEF sw
<1>8. t = IF e.sent THEN Blocks!SaveRecovery(Blocks!SaveClosed(tx, e), x)
                    ELSE Blocks!SaveClosed(tx, e)
  BY <1>3, <1>6, Zenon DEF Blocks!CloseEvent
<1> HIDE DEF t, pre, o, sv, r, h, i, al, pe, due, w, x
<1>9. Settled(s, pre, None, sv \cup {e.id}, r1, h, i, al1)
  BY <1>1, <1>2, <1>3, <1>4, <1>5, SettledClosed
<1>10. al1 = al /\ r1 = IF e.sent THEN x ELSE r
  BY <1>5
<1> HIDE DEF sw, al1, r1
<1>11. t = Tx(pre, None, sw, r1, h, i, al, pe)
  BY <1>7, <1>8, <1>10, BlocksOps
<1>12. /\ SettledAt(t, s) /\ t.pre = pre /\ t.store.open = None
       /\ t.store.recovery = r1
  BY <1>9, <1>10, <1>11, SettledIs DEF sw
<1>13. Recalled(tx) /\ e.id \in tx.pre.saved => Recalled(t)
  BY <1>3, <1>10, <1>12 DEF Recalled, r, pre
<1> QED BY <1>12, <1>13 DEF pre, t

\* An event that was due closes.
LEMMA BlocksReports ==
    ASSUME NEW s \in Segments, NEW tx, SettledAt(tx, s), check = "macroblocking",
           NEW e, Heir(e, tx.store.open), SameTimeline(e, s),
           Blocks!ShouldAlert(e)
    PROVE  LET y == Blocks!Sent(e)
               t == Blocks!CloseEvent(Blocks!OpenAlert(tx, y), y)
           IN  SettledAt(t, s) /\ t.pre = tx.pre /\ t.store.open = None
<1> DEFINE y == Blocks!Sent(e)
           b == Blocks!OpenAlert(tx, y)
           t == Blocks!CloseEvent(b, y)
           x == NewRecovery(e.id, "CONTINUOUS", y, y)
           pre == tx.pre
           o == tx.store.open
           sv == tx.store.saved
           sw == sv \cup {e.id}
           r == tx.store.recovery
           h == tx.store.history
           i == tx.store.incident
           al == tx.alerts
           pe == tx.pending
           due == r = None
           w == "macroblocking_duration_threshold"
           a == OpenAlertOf(e, w)
           r1 == IF e.sent \/ due THEN x ELSE r
           al1 == IF due THEN Append(al, OpenAlertOf(e, w)) ELSE al
<1> USE NoneAssumption
<1>1. /\ Settled(s, pre, o, sv, r, h, i, al)
      /\ tx = Tx(pre, o, sv, r, h, i, al, pe)
  BY Zenon DEF SettledAt, IsTx
<1>2. e \in Events /\ e.sent \in BOOLEAN /\ Heir(e, o) /\ e.id \in Ids
  BY DEF Heir, Events
<1>3. /\ ~ e.sent /\ y \in Events /\ y.id = e.id /\ y.sent
      /\ SameTimeline(y, e) /\ [y EXCEPT !.sent = FALSE] = e
  BY <1>2, SentIs
<1>4. /\ x \in Recoveries /\ x.id = e.id /\ x.kind = "CONTINUOUS"
      /\ x.healthy = 0 /\ SameTimeline(x, y) /\ x # None
      /\ x = Blocks!NewRecovery(e.id, "CONTINUOUS", y, y)
  <2>1. y.gen \in Generations /\ y.disc \in Nat
    BY <1>3 DEF Events
  <2> HIDE DEF y
  <2> QED BY <1>2, <1>3, <2>1, NewRecoveryIs
<1>5. SameTimeline(x, s)
  BY <1>3, <1>4 DEF SameTimeline
<1>6. due \in BOOLEAN /\ (due => r = None /\ ~ e.sent) /\ w \in Whys
  BY <1>3 DEF Whys
<1>7. Blocks!Alert("OPEN", "CONTINUOUS", y.id, w) = a
  BY <1>3 DEF Blocks!Alert, Alert, OpenAlertOf
<1>8. b = IF due THEN Blocks!Publish(Blocks!SaveOpen(tx, y),
                           Blocks!Alert("OPEN", "CONTINUOUS", y.id, w))
                 ELSE Blocks!SaveOpen(tx, e)
  BY <1>3, Zenon DEF Blocks!OpenAlert
<1>9. t = IF b.store.recovery = None
             THEN Blocks!SaveRecovery(Blocks!SaveClosed(b, y), x)
             ELSE Blocks!SaveClosed(b, y)
  BY <1>3, <1>4, Zenon DEF Blocks!CloseEvent
<1> HIDE DEF t, b, y, pre, o, sv, r, h, i, al, pe, w, x, due
<1>10. Settled(s, pre, None, sv \cup {e.id}, r1, h, i, al1)
  <2>1. SameTimeline(x, s) \/ x.id \in pre.saved
    BY <1>5
  <2>2. Settled(s, pre, o, sv, r, h, i, al) /\ Heir(e, o)
    BY <1>1, <1>2
  <2>3. /\ x \in Recoveries /\ x.id = e.id /\ x.kind = "CONTINUOUS"
        /\ x.healthy = 0
    BY <1>4
  <2> QED BY <1>6, <2>1, <2>2, <2>3, SettledClosed
<1>11. r1 = IF due THEN x ELSE r
  BY <1>3
<1>12. Blocks!SaveOpen(tx, y) = Tx(pre, y, sw, r, h, i, al, pe)
       /\ Blocks!SaveOpen(tx, e) = Tx(pre, e, sw, r, h, i, al, pe)
  <2>1. Blocks!SaveOpen(tx, y) = Tx(pre, y, sv \cup {y.id}, r, h, i, al, pe)
        /\ Blocks!SaveOpen(tx, e) = Tx(pre, e, sv \cup {e.id}, r, h, i, al, pe)
    BY <1>1, BlocksOps
  <2> QED BY <1>3, <2>1
<1>13. sw \cup {y.id} = sw
  BY <1>3
<1> HIDE DEF sw, r1, a
<1>14. t = Tx(pre, None, sw, r1, h, i, al1, pe)
  <2>1. CASE due
    <3> DEFINE al2 == Append(al, a)
    <3>1. al1 = al2
      BY <2>1 DEF a
    <3>2. b = Tx(pre, y, sw, r, h, i, al2, pe)
      <4>1. b = Blocks!Publish(Tx(pre, y, sw, r, h, i, al, pe), a)
        BY <1>7, <1>8, <1>12, <2>1
      <4> QED BY <4>1, BlocksOps
    <3> HIDE DEF al2
    <3>3. b.store.recovery = None
      BY <2>1, <3>2, TxFields DEF Tx, due
    <3>4. Blocks!SaveClosed(b, y) = Tx(pre, None, sw \cup {y.id}, r, h, i, al2, pe)
      BY <3>2, BlocksOps
    <3>5. t = Blocks!SaveRecovery(Tx(pre, None, sw, r, h, i, al2, pe), x)
      BY <1>9, <1>13, <3>3, <3>4
    <3>6. t = Tx(pre, None, sw, x, h, i, al2, pe)
      BY <3>5, BlocksOps
    <3> QED BY <1>11, <2>1, <3>1, <3>6
  <2>2. CASE ~ due
    <3>1. al1 = al
      BY <2>2
    <3>2. b = Tx(pre, e, sw, r, h, i, al, pe)
      BY <1>8, <1>12, <2>2
    <3>3. b.store.recovery # None
      BY <2>2, <3>2, TxFields DEF Tx, due
    <3>4. Blocks!SaveClosed(b, y) = Tx(pre, None, sw \cup {y.id}, r, h, i, al, pe)
      BY <3>2, BlocksOps
    <3> QED BY <1>9, <1>11, <1>13, <2>2, <3>1, <3>3, <3>4
  <2> QED BY <2>1, <2>2
<1> HIDE DEF al1
<1>15. SettledAt(t, s) /\ t.pre = pre /\ t.store.open = None
  BY <1>10, <1>14, SettledIs DEF sw
<1> QED BY <1>15 DEF pre, t, b, y

\* The recovery sees a segment of its timeline, or moves there.
LEMMA BlocksObserves ==
    ASSUME NEW s \in Segments, NEW tx, SettledAt(tx, s), check = "macroblocking",
           tx.store.recovery # None, NEW n \in Nat, n < RecoveryHealthy
    PROVE  LET x == Blocks!Observed(tx.store.recovery, s, n)
               t == Blocks!SaveRecovery(tx, x)
           IN  /\ SettledAt(t, s) /\ t.pre = tx.pre
               /\ t.store.open = tx.store.open /\ t.store.recovery = x
               /\ x # None /\ x.healthy = n /\ x.last = s.seq
               /\ x.id = tx.store.recovery.id /\ SameTimeline(x, s)
<1> DEFINE pre == tx.pre
           o == tx.store.open
           sv == tx.store.saved
           r == tx.store.recovery
           h == tx.store.history
           i == tx.store.incident
           al == tx.alerts
           pe == tx.pending
           x == Blocks!Observed(r, s, n)
           t == Blocks!SaveRecovery(tx, x)
<1> USE NoneAssumption
<1>1. /\ Settled(s, pre, o, sv, r, h, i, al)
      /\ tx = Tx(pre, o, sv, r, h, i, al, pe)
  BY Zenon DEF SettledAt, IsTx
<1>2. r \in Recoveries /\ r.kind = "CONTINUOUS" /\ r # None
  BY <1>1 DEF Settled, Held, Typed, RecoveryHeld
<1>3. s.gen \in Generations /\ s.disc \in Nat /\ s.seq \in Nat
  BY DEF Segments
<1>4. /\ x \in Recoveries /\ x.id = r.id /\ x.kind = r.kind
      /\ x.healthy = n /\ x.last = s.seq /\ SameTimeline(x, s) /\ x # None
  <2>1. x = [r EXCEPT !.healthy = n, !.last = s.seq, !.gen = s.gen,
                      !.disc = s.disc]
    BY Zenon DEF Blocks!Observed
  <2> HIDE DEF x, r
  <2> QED BY <1>2, <1>3, <2>1 DEF Recoveries, SameTimeline
<1>5. Together(o, x) /\ x.kind # "REPEATED"
  BY <1>2, <1>4 DEF Together
<1> HIDE DEF pre, o, sv, r, h, i, al, pe, x, t
<1>6. Settled(s, pre, o, sv, x, h, i, al)
  BY <1>1, <1>2, <1>4, <1>5, SettledObserved
<1>7. t = Tx(pre, o, sv, x, h, i, al, pe)
  BY <1>1, BlocksOps DEF t
<1>8. /\ SettledAt(t, s) /\ t.pre = pre
      /\ t.store.open = o /\ t.store.recovery = x
  BY <1>6, <1>7, SettledIs
<1> QED BY <1>4, <1>8 DEF pre, o, r, x, t

\* A segment that was not checked, or a gap.
LEMMA BlocksUnknown ==
    ASSUME NEW s \in Segments, NEW tx, SettledAt(tx, s), check = "macroblocking"
    PROVE  LET t == Blocks!UnknownGap(tx, s)
           IN  /\ SettledAt(t, s) /\ t.pre = tx.pre
               /\ t.store.open = tx.store.open
<1> USE PolicyAssumption
<1>1. CASE tx.store.recovery = None
  BY <1>1 DEF Blocks!UnknownGap
<1>2. CASE tx.store.recovery # None
  <2> DEFINE n == 0
             x == Blocks!Observed(tx.store.recovery, s, n)
             t == Blocks!SaveRecovery(tx, x)
  <2>1. Blocks!UnknownGap(tx, s) = t
    BY <1>2, Zenon DEF Blocks!UnknownGap
  <2>2. n \in Nat /\ n < RecoveryHealthy
    OBVIOUS
  <2> HIDE DEF n
  <2>3. SettledAt(t, s) /\ t.pre = tx.pre /\ t.store.open = tx.store.open
    BY <1>2, <2>2, BlocksObserves
  <2> QED BY <2>1, <2>3
<1> QED BY <1>1, <1>2

\* A healthy segment.
LEMMA BlocksHeals ==
    ASSUME NEW s \in Segments, NEW tx, SettledAt(tx, s), check = "macroblocking",
           tx.store.open = None, Recalled(tx)
    PROVE  LET t == Blocks!ApplyHealthy(tx, s)
               r == tx.store.recovery
               x == t.store.recovery
           IN  /\ SettledAt(t, s) /\ t.pre = tx.pre /\ t.store.open = None
               /\ x # None =>
                     /\ r # None /\ x.last = s.seq /\ SameTimeline(x, s)
                     /\ SameTimeline(r, s) /\ s.seq = r.last + 1 =>
                           x.healthy = r.healthy + 1
<1> DEFINE pre == tx.pre
           sv == tx.store.saved
           r == tx.store.recovery
           h == tx.store.history
           i == tx.store.incident
           al == tx.alerts
           pe == tx.pending
           follows == SameTimeline(r, s) /\ s.seq = r.last + 1
           n == IF follows THEN r.healthy + 1 ELSE 1
           t == Blocks!ApplyHealthy(tx, s)
           w == "video_returned"
           al1 == Append(al, Alert("RESOLVED", r.kind, r.id, w))
<1> USE NoneAssumption, PolicyAssumption
<1>1. /\ Settled(s, pre, None, sv, r, h, i, al)
      /\ tx = Tx(pre, None, sv, r, h, i, al, pe)
  BY Zenon DEF SettledAt, IsTx
<1>2. Blocks!SameTimeline(r, s) = SameTimeline(r, s)
  BY BlocksSame
<1>3. CASE r = None
  <2>1. t = tx
    BY <1>3, Zenon DEF Blocks!ApplyHealthy
  <2> QED BY <1>3, <2>1
<1>4. ASSUME r # None PROVE r \in Recoveries /\ r.kind = "CONTINUOUS" /\ n \in Nat
  <2>1. r \in Recoveries /\ r.kind = "CONTINUOUS"
    BY <1>1, <1>4 DEF Settled, Held, Typed, RecoveryHeld
  <2>2. r.healthy \in Nat
    BY <2>1 DEF Recoveries
  <2> QED BY <2>1, <2>2
<1>5. CASE r # None /\ n < RecoveryHealthy
  <2> DEFINE x == Blocks!Observed(tx.store.recovery, s, n)
             b == Blocks!SaveRecovery(tx, x)
  <2>1. t = b
    BY <1>2, <1>5, Zenon DEF Blocks!ApplyHealthy
  <2>2. n \in Nat /\ n < RecoveryHealthy /\ r # None
    BY <1>4, <1>5
  <2>3. follows => n = r.healthy + 1
    OBVIOUS
  <2> HIDE DEF n, t, pre, follows
  <2>4. /\ SettledAt(b, s) /\ b.pre = tx.pre
        /\ b.store.open = tx.store.open /\ b.store.recovery = x
        /\ x # None /\ x.healthy = n /\ x.last = s.seq
        /\ SameTimeline(x, s)
    BY <2>2, BlocksObserves
  <2> HIDE DEF x, b
  <2> QED BY <1>5, <2>1, <2>3, <2>4 DEF t, follows
<1>6. CASE r # None /\ ~ (n < RecoveryHealthy)
  <2>1. r.id \in pre.saved
    BY <1>6 DEF Recalled
  <2>2. t = Blocks!DeleteRecovery(
               Blocks!Publish(ClearOpen(tx),
                              Blocks!Alert("RESOLVED", "CONTINUOUS", r.id, w)))
    BY <1>2, <1>6, <2>1, Zenon DEF Blocks!ApplyHealthy, ClearOpen
  <2>3. w \in Whys /\ r.kind = "CONTINUOUS"
    BY <1>4, <1>6 DEF Whys
  <2>4. Blocks!Alert("RESOLVED", "CONTINUOUS", r.id, w)
           = Alert("RESOLVED", r.kind, r.id, w)
    BY <2>3 DEF Alert, Blocks!Alert
  <2>5. Settled(s, pre, None, sv, None, h, i, al1)
    <3> HIDE DEF pre, sv, h, i, al, w, n
    <3> QED BY <1>1, <1>6, <2>3, SettledResolved
  <2> HIDE DEF pre, sv, r, h, i, al, pe, t, w, n
  <2>6. ClearOpen(tx) = tx
    BY <1>1, TxAssigns
  <2>7. t = Tx(pre, None, sv, None, h, i, al1, pe)
    BY <1>1, <2>2, <2>4, <2>6, BlocksOps
  <2> HIDE DEF al1
  <2>8. /\ SettledAt(t, s) /\ t.pre = pre /\ t.store.open = None
        /\ t.store.recovery = None
    BY <2>5, <2>7, SettledIs
  <2> QED BY <2>8 DEF pre, t
<1> QED BY <1>3, <1>5, <1>6

\* The reducer's transitions.
Listed ==
    [type : {"PERSIST_OPEN", "OPEN_ALERT", "CLOSE_EVENT", "UNKNOWN_GAP"},
     event : Events \cup {None}]

\* The one or two transitions of a cut lead from tx to the next cut.
Turned(q, tx, k, current, st, s, cuts) ==
    /\ q \in Seq(Listed)
    /\ \/ /\ Len(q) = 1
          /\ Midway(Blocks!ApplyTransition(tx, q[1], s), k + 1, current, st, s, cuts)
       \/ /\ Len(q) = 2
          /\ Midway(Blocks!ApplyTransition(
                       Blocks!ApplyTransition(tx, q[1], s), q[2], s),
                    k + 1, current, st, s, cuts)

\* Two transitions.
LEMMA ListedPair ==
    ASSUME NEW x \in Listed, NEW y \in Listed, NEW q, q = <<x>> \o <<y>>
    PROVE  q \in Seq(Listed) /\ Len(q) = 2 /\ q[1] = x /\ q[2] = y
<1>1. <<x>> \in Seq(Listed) /\ <<y>> \in Seq(Listed)
  OBVIOUS
<1>2. q \in Seq(Listed)
  BY <1>1
<1>3. Pair(q, x, y)
  BY PairIs
<1> QED BY <1>2, <1>3 DEF Pair

\* One more cut.
LEMMA BlocksTurn ==
    ASSUME NEW k \in Nat, NEW current, NEW st, NEW s \in Segments, NEW cuts,
           NEW tx, check = "macroblocking",
           Midway(tx, k, current, st, s, cuts), k < Len(cuts),
           WellCut(cuts, current, s), current # None => SameTimeline(current, s)
    PROVE  Turned(Blocks!TransitionsOf(cuts[k + 1]), tx, k, current, st, s, cuts)
<1> DEFINE e == cuts[k + 1].event
           kind == cuts[k + 1].kind
           due == Blocks!ShouldAlert(e)
           y == Blocks!Sent(e)
           q == Blocks!TransitionsOf(cuts[k + 1])
           a == Blocks!Transition("OPEN_ALERT", y)
           z == Blocks!Transition("CLOSE_EVENT", y)
           p == Blocks!Transition("PERSIST_OPEN", e)
<1>1. Midway(tx, k, current, st, s, cuts) /\ SettledAt(tx, s)
      /\ tx.pre = st
  BY DEF Midway
<1>2. /\ e \in Events /\ kind \in Kinds /\ Heir(e, tx.store.open)
      /\ SameTimeline(e, s)
      /\ kind = "open" => k + 1 = Len(cuts) /\ e.off = SegmentLength
  BY <1>1, NextCut
<1>3. k + 1 # 0 /\ k + 1 > 0 /\ Len(cuts) \in Nat
  BY DEF WellCut
<1>4. y \in Events /\ (~ due => y = e)
  BY <1>2, SentIs
<1>5. a \in Listed /\ z \in Listed /\ p \in Listed
  <2> HIDE DEF e, y
  <2> QED BY <1>2, <1>4 DEF Listed, Blocks!Transition
<1>6. q = IF kind # "open"
             THEN (IF due THEN <<a>> ELSE <<>>) \o <<z>>
          ELSE IF due THEN <<a>> ELSE <<p>>
  BY Zenon DEF Blocks!TransitionsOf, Blocks!AlertIfDue
<1>7. \A t : SettledAt(t, s) /\ t.pre = st
             /\ (k + 1 < Len(cuts) => t.store.open = None) =>
                Midway(t, k + 1, current, st, s, cuts)
  BY <1>3 DEF Midway
<1>8. \A t : /\ Blocks!ApplyTransition(t, a, s) = Blocks!OpenAlert(t, y)
             /\ Blocks!ApplyTransition(t, z, s) = Blocks!CloseEvent(t, y)
             /\ Blocks!ApplyTransition(t, p, s) = Blocks!SaveOpen(t, e)
  BY BlocksDispatch
<1> HIDE DEF q, a, z, p
<1>9. CASE kind # "open" /\ due
  <2>1. q = <<a>> \o <<z>>
    BY <1>6, <1>9
  <2>2. q \in Seq(Listed) /\ Len(q) = 2 /\ q[1] = a /\ q[2] = z
    BY <1>5, <2>1, ListedPair
  <2> DEFINE t == Blocks!CloseEvent(Blocks!OpenAlert(tx, y), y)
  <2>3. SettledAt(t, s) /\ t.pre = tx.pre /\ t.store.open = None
    <3> HIDE DEF e
    <3> QED BY <1>1, <1>2, <1>9, BlocksReports
  <2>4. Midway(t, k + 1, current, st, s, cuts)
    <3> HIDE DEF t
    <3> QED BY <1>1, <1>7, <2>3
  <2>5. Blocks!ApplyTransition(Blocks!ApplyTransition(tx, q[1], s), q[2], s) = t
    BY <1>8, <2>2
  <2> HIDE DEF t
  <2> QED BY <2>2, <2>4, <2>5 DEF Turned, q
<1>10. CASE kind # "open" /\ ~ due
  <2>1. q = <<>> \o <<z>>
    BY <1>6, <1>10
  <2>2. q \in Seq(Listed) /\ Len(q) = 1 /\ q[1] = z
    BY <1>5, <2>1
  <2> DEFINE t == Blocks!CloseEvent(tx, e)
  <2>3. SettledAt(t, s) /\ t.pre = tx.pre /\ t.store.open = None
    <3> HIDE DEF e
    <3> QED BY <1>1, <1>2, BlocksCloses
  <2>4. Midway(t, k + 1, current, st, s, cuts)
    <3> HIDE DEF t
    <3> QED BY <1>1, <1>7, <2>3
  <2>5. Blocks!ApplyTransition(tx, q[1], s) = t
    BY <1>4, <1>8, <1>10, <2>2
  <2> HIDE DEF t
  <2> QED BY <2>2, <2>4, <2>5 DEF Turned, q
<1>11. CASE kind = "open"
  <2> DEFINE v == IF due THEN a ELSE p
             t == IF due THEN Blocks!OpenAlert(tx, y) ELSE Blocks!SaveOpen(tx, e)
  <2>1. q = <<v>> /\ v \in Listed
    BY <1>5, <1>6, <1>11
  <2> HIDE DEF v
  <2>2. q \in Seq(Listed) /\ Len(q) = 1 /\ q[1] = v
    BY <2>1
  <2>3. SettledAt(t, s) /\ t.pre = tx.pre
    <3>1. CASE due
      <4> DEFINE c == Blocks!OpenAlert(tx, Blocks!Sent(e))
      <4>1. SettledAt(c, s) /\ c.pre = tx.pre
        <5> HIDE DEF e, kind
        <5> QED BY <1>1, <1>2, <1>11, <3>1, BlocksOpens
      <4>2. t = c
        BY <3>1
      <4> QED BY <4>1, <4>2
    <3>2. CASE ~ due
      <4> DEFINE c == Blocks!SaveOpen(tx, e)
      <4>1. SettledAt(c, s) /\ c.pre = tx.pre
        <5> HIDE DEF e, kind
        <5> QED BY <1>1, <1>2, <1>11, <3>2, BlocksPersists
      <4>2. t = c
        BY <3>2
      <4> QED BY <4>1, <4>2
    <3> QED BY <3>1, <3>2
  <2>4. ~ (k + 1 < Len(cuts))
    BY <1>2, <1>3, <1>11
  <2>5. Midway(t, k + 1, current, st, s, cuts)
    <3> HIDE DEF t
    <3> QED BY <1>1, <1>7, <2>3, <2>4
  <2>6. Blocks!ApplyTransition(tx, q[1], s) = t
    BY <1>8, <2>2 DEF v
  <2> HIDE DEF t
  <2> QED BY <2>2, <2>5, <2>6 DEF Turned, q
<1> QED BY <1>9, <1>10, <1>11

\* g applies the transitions of q, one after the other.
Applies(g, st, s, q) ==
    /\ g[0] = Blocks!Begin(st)
    /\ \A j \in 1 .. Len(q) : g[j] = Blocks!ApplyTransition(g[j - 1], q[j], s)

\* There is one.
LEMMA AppliesExists ==
    ASSUME NEW st, NEW s, NEW q, Len(q) \in Nat
    PROVE  \E g : Applies(g, st, s, q)
<1> DEFINE base == Blocks!Begin(st)
           P(g) == g = [n \in 0 .. Len(q) |->
                           IF n = 0 THEN base
                           ELSE Blocks!ApplyTransition(g[n - 1], q[n], s)]
<1> HIDE DEF base
<1>1. PICK g : Loops(g, [loop |-> "blocks", s |-> s], base, q, Len(q))
  BY LoopsExists
<1>2. P(g)
  BY <1>1 DEF Loops, Turn
<1>3. Applies(g, st, s, q)
  BY <1>2 DEF Applies, base
<1> QED BY <1>3

\* Whatever applies q has applied k cuts.
Reached(q, k, current, st, s, cuts) ==
    /\ q \in Seq(Listed)
    /\ \A g : Applies(g, st, s, q) =>
          Midway(g[Len(q)], k, current, st, s, cuts)

\* The transitions of one more cut.
LEMMA BlocksReach ==
    ASSUME NEW k \in Nat, NEW current, NEW st, NEW s \in Segments, NEW cuts,
           NEW q, check = "macroblocking",
           Reached(q, k, current, st, s, cuts), k < Len(cuts),
           WellCut(cuts, current, s), current # None => SameTimeline(current, s),
           NEW q1, q1 = q \o Blocks!TransitionsOf(cuts[k + 1])
    PROVE  Reached(q1, k + 1, current, st, s, cuts)
<1> DEFINE w == Blocks!TransitionsOf(cuts[k + 1])
           N == Len(q)
           M == Len(w)
<1>1. q \in Seq(Listed)
  BY DEF Reached
<1>2. PICK f : Applies(f, st, s, q)
  <2>1. Len(q) \in Nat
    BY <1>1
  <2> QED BY <2>1, AppliesExists
<1>3. w \in Seq(Listed) /\ M \in {1, 2}
  <2> DEFINE tx == f[N]
  <2>1. Midway(tx, k, current, st, s, cuts)
    BY <1>2 DEF Reached
  <2> HIDE DEF tx
  <2>2. Turned(w, tx, k, current, st, s, cuts)
    BY <2>1, BlocksTurn
  <2> HIDE DEF w
  <2> QED BY <2>2 DEF Turned
<1> HIDE DEF w
<1>4. /\ q1 \in Seq(Listed) /\ Len(q1) = N + M /\ N \in Nat
      /\ \A j \in 1 .. N : q1[j] = q[j]
      /\ \A j \in 1 .. M : q1[N + j] = w[j]
  <2>1. q1 = q \o w
    BY DEF w
  <2> DEFINE C == Listed
  <2>2. q \in Seq(C) /\ w \in Seq(C)
    BY <1>1, <1>3
  <2> HIDE DEF C
  <2>3. q1 \in Seq(C)
    BY <2>1, <2>2
  <2>4. /\ Len(q1) = N + M /\ N \in Nat /\ M \in Nat
        /\ \A j \in 1 .. N : q1[j] = q[j]
        /\ \A j \in 1 .. M : q1[N + j] = w[j]
    BY <2>1, <2>2
  <2> QED BY <2>3, <2>4 DEF C
<1> HIDE DEF N, M
<1>5. ASSUME NEW g, Applies(g, st, s, q1)
      PROVE  Midway(g[Len(q1)], k + 1, current, st, s, cuts)
  <2>1. \A j \in 1 .. N + M : g[j] = Blocks!ApplyTransition(g[j - 1], q1[j], s)
    BY <1>4, <1>5 DEF Applies
  <2>2. Applies(g, st, s, q)
    <3>1. ASSUME NEW j \in 1 .. N
          PROVE  g[j] = Blocks!ApplyTransition(g[j - 1], q[j], s)
      <4>1. j \in 1 .. N + M /\ q1[j] = q[j]
        BY <1>3, <1>4
      <4> QED BY <2>1, <4>1
    <3> QED BY <1>5, <3>1 DEF Applies, N
  <2> DEFINE c == g[N]
  <2>3. Midway(c, k, current, st, s, cuts)
    BY <2>2 DEF Reached, N
  <2>4. Turned(w, c, k, current, st, s, cuts)
    <3> HIDE DEF c
    <3> QED BY <2>3, BlocksTurn DEF w
  <2>5. g[N + 1] = Blocks!ApplyTransition(c, w[1], s)
    <3>1. N + 1 \in 1 .. N + M /\ (N + 1) - 1 = N /\ 1 \in 1 .. M
      BY <1>3, <1>4
    <3> QED BY <1>4, <2>1, <3>1
  <2>6. CASE M = 1
    <3>1. Midway(g[N + 1], k + 1, current, st, s, cuts)
      BY <2>4, <2>5, <2>6 DEF Turned, M
    <3> QED BY <1>4, <2>6, <3>1
  <2>7. CASE M = 2
    <3>1. g[N + 2] = Blocks!ApplyTransition(g[N + 1], w[2], s)
      <4>1. N + 2 \in 1 .. N + M /\ (N + 2) - 1 = N + 1 /\ 2 \in 1 .. M
        BY <1>4, <2>7
      <4> QED BY <1>4, <2>1, <4>1
    <3>2. Midway(g[N + 2], k + 1, current, st, s, cuts)
      BY <2>4, <2>5, <2>7, <3>1 DEF Turned, M
    <3> QED BY <1>4, <2>7, <3>2
  <2> QED BY <1>3, <2>6, <2>7
<1> QED BY <1>4, <1>5 DEF Reached

\* The first transaction of the macroblocking store.
LEMMA BlocksBegins ==
    ASSUME NEW s, NEW st, StoreHeld(st), KnownHeld(live, st.open, st.recovery),
           NEW t, t = Blocks!Begin(st)
    PROVE  /\ SettledAt(t, s) /\ t.pre = st /\ t.store = st
           /\ Recalled(t)
           /\ t.store.open # None =>
                 Heir(t.store.open, t.store.open) /\ t.store.open.id \in st.saved
<1>1. Begun(t, st) /\ st \in Stores
  BY BeginIs DEF StoreHeld
<1>2. SettledAt(t, s)
  BY <1>1, SettledBegun
<1>3. Recalled(t)
  BY <1>1 DEF Begun, Recalled, StoreHeld, Held, RecoveryHeld
<1>4. st.open # None => Heir(st.open, st.open) /\ st.open.id \in st.saved
  <2>1. ASSUME st.open # None
        PROVE  st.open \in Events /\ st.open.dur \in 1 .. AlertDuration
               /\ st.open.id \in st.saved /\ st.open.dur <= st.open.dur
    BY <2>1 DEF StoreHeld, Held, OpenHeld, Typed, Events
  <2> QED BY <2>1 DEF Heir
<1> QED BY <1>1, <1>2, <1>3, <1>4 DEF Begun

\* The open event closes and its observation was lost.
LEMMA BlocksGap ==
    ASSUME NEW s \in Segments, NEW st, StoreHeld(st),
           KnownHeld(live, st.open, st.recovery), check = "macroblocking",
           st.open # None,
           NEW c, c = Blocks!CloseEvent(Blocks!Begin(st), st.open)
    PROVE  /\ SettledAt(c, s) /\ c.pre = st /\ c.store.open = None /\ Recalled(c)
           /\ SettledAt(Blocks!UnknownGap(c, s), s)
           /\ Blocks!UnknownGap(c, s).pre = st
           /\ Blocks!UnknownGap(c, s).store.open = None
<1> DEFINE b == Blocks!Begin(st)
           open == st.open
<1>1. /\ SettledAt(b, s) /\ b.pre = st /\ b.store.open = open /\ Recalled(b)
      /\ Heir(open, b.store.open) /\ open.id \in b.pre.saved
  <2> HIDE DEF b
  <2> QED BY BlocksBegins DEF b
<1>2. c = Blocks!CloseEvent(b, open)
  OBVIOUS
<1> HIDE DEF b, open
<1>3. SettledAt(c, s) /\ c.pre = st /\ c.store.open = None /\ Recalled(c)
  BY <1>1, <1>2, BlocksCloses
<1>4. /\ SettledAt(Blocks!UnknownGap(c, s), s)
      /\ Blocks!UnknownGap(c, s).pre = st
      /\ Blocks!UnknownGap(c, s).store.open = None
  BY <1>3, BlocksUnknown
<1> QED BY <1>3, <1>4

\* A segment with intervals.
LEMMA BlocksIntervals ==
    ASSUME NEW s \in Segments, NEW st, StoreHeld(st),
           KnownHeld(live, st.open, st.recovery), check = "macroblocking",
           NEW evidence, Seen(evidence), evidence.intervals # <<>>
    PROVE  Left(Blocks!Apply(st, s, evidence))
<1> DEFINE open == st.open
           gone == open # None /\ ~ SequenceCanFollow(open, s)
           current == IF gone THEN None ELSE open
           cuts == JoinIntervals(current, s, evidence, TRUE)
           N == Len(cuts)
           x == Blocks!Transition("CLOSE_EVENT", open)
           y == Blocks!Transition("UNKNOWN_GAP", None)
           closed == IF open = None THEN <<>> ELSE <<x>>
           gap == IF gone THEN closed \o <<y>> ELSE <<>>
           q == Blocks!Reduce(open, s, evidence)
<1> USE NoneAssumption
<1>1. q = Blocks!Fold(LAMBDA made, cut : made \o Blocks!TransitionsOf(cut), gap, cuts)
  <2>1. evidence.checked
    BY DEF Seen
  <2>2. Blocks!SequenceCanFollow(open, s) = SequenceCanFollow(open, s)
    BY BlocksSame
  <2>3. Blocks!JoinIntervals(current, s, evidence, TRUE)
          = JoinIntervals(current, s, evidence, TRUE)
    BY JoinSame
  <2> QED BY <2>1, <2>2, <2>3, Zenon DEF Blocks!Reduce
<1>2. /\ open \in Events \cup {None}
      /\ open # None => /\ open.off = SegmentLength /\ open.id \in st.saved
                        /\ open.dur \in 1 .. AlertDuration
  BY DEF StoreHeld, Held, Typed, OpenHeld
<1>3. Continuable(current, s) /\ (current # None => SameTimeline(current, s))
  BY <1>2 DEF Continuable, SequenceCanFollow
<1>4. WellCut(cuts, current, s) /\ cuts # <<>>
  <2> HIDE DEF current
  <2> QED BY <1>3, JoinIntervalsWellCut DEF Seen
<1>5. N \in Nat /\ N >= 1
  <2> HIDE DEF cuts
  <2>1. cuts \in Seq([kind : {"interrupted", "ended", "open"}, event : Events])
    BY <1>4 DEF WellCut
  <2> DEFINE C == [kind : {"interrupted", "ended", "open"}, event : Events]
  <2> HIDE DEF C
  <2> QED BY <1>4, <2>1 DEF C
<1> HIDE DEF cuts, N, current
<1>6. Reached(gap, 0, current, st, s, cuts)
  <2> SUFFICES /\ gap \in Seq(Listed)
               /\ \A g : Applies(g, st, s, gap) =>
                     Midway(g[Len(gap)], 0, current, st, s, cuts)
    BY DEF Reached
  <2>1. CASE gone
    <3>1. gap = <<x>> \o <<y>> /\ open # None /\ current = None
      BY <2>1 DEF current
    <3>2. x \in Listed /\ y \in Listed
      BY <1>2 DEF Listed, Blocks!Transition
    <3> HIDE DEF x, y
    <3>3. gap \in Seq(Listed) /\ Len(gap) = 2 /\ gap[1] = x /\ gap[2] = y
      BY <3>1, <3>2, ListedPair
    <3>4. ASSUME NEW g, Applies(g, st, s, gap)
          PROVE  Midway(g[Len(gap)], 0, current, st, s, cuts)
      <4> DEFINE c == g[1]
      <4>1. c = Blocks!ApplyTransition(g[0], x, s) /\ g[0] = Blocks!Begin(st)
        <5>1. 1 \in 1 .. Len(gap) /\ 1 - 1 = 0
          BY <3>3
        <5> QED BY <3>3, <3>4, <5>1, Zenon DEF Applies
      <4>2. g[2] = Blocks!ApplyTransition(g[1], y, s)
        <5>1. 2 \in 1 .. Len(gap) /\ 2 - 1 = 1
          BY <3>3
        <5> QED BY <3>3, <3>4, <5>1, Zenon DEF Applies
      <4>3. c = Blocks!CloseEvent(Blocks!Begin(st), st.open)
        BY <4>1, BlocksDispatch DEF x
      <4>4. g[2] = Blocks!UnknownGap(c, s)
        BY <4>2, BlocksDispatch DEF y
      <4> HIDE DEF c
      <4>5. SettledAt(g[2], s) /\ g[2].pre = st /\ g[2].store.open = None
        BY <3>1, <4>3, <4>4, BlocksGap
      <4> HIDE DEF gap
      <4> QED BY <3>1, <3>3, <4>5 DEF Midway
    <3> QED BY <3>3, <3>4
  <2>2. CASE ~ gone
    <3>1. gap = <<>> /\ current = open
      BY <2>2 DEF current
    <3>2. gap \in Seq(Listed) /\ Len(gap) = 0
      BY <3>1
    <3>3. ASSUME NEW g, Applies(g, st, s, gap)
          PROVE  Midway(g[Len(gap)], 0, current, st, s, cuts)
      <4> DEFINE b == g[0]
      <4>1. b = Blocks!Begin(st)
        BY <3>3 DEF Applies
      <4> HIDE DEF b
      <4>2. SettledAt(b, s) /\ b.pre = st /\ b.store = st
        BY <4>1, BlocksBegins
      <4> QED BY <3>1, <3>2, <4>2 DEF Midway, b
    <3> QED BY <3>2, <3>3
  <2> QED BY <2>1, <2>2
<1> HIDE DEF gap, q, gone, open
<1>7. PICK f : Lists(f, gap, cuts)
  BY <1>5, CutsLoop DEF N
<1> DEFINE S == {k \in Nat : k <= N => Reached(f[k], k, current, st, s, cuts)}
<1>8. 0 \in S
  BY <1>6, <1>7 DEF Lists
<1>9. ASSUME NEW k \in Nat, k \in S PROVE k + 1 \in S
  <2> SUFFICES ASSUME k + 1 <= N
               PROVE  Reached(f[k + 1], k + 1, current, st, s, cuts)
    OBVIOUS
  <2>1. Reached(f[k], k, current, st, s, cuts) /\ k < Len(cuts)
    BY <1>5, <1>9 DEF N
  <2>2. f[k + 1] = f[k] \o Blocks!TransitionsOf(cuts[k + 1])
    <3>1. k + 1 \in 1 .. Len(cuts) /\ (k + 1) - 1 = k
      BY <1>5 DEF N
    <3> QED BY <1>7, <3>1, Zenon DEF Lists
  <2> DEFINE a == f[k]
             b == f[k + 1]
  <2>3. Reached(a, k, current, st, s, cuts)
        /\ b = a \o Blocks!TransitionsOf(cuts[k + 1])
    BY <2>1, <2>2
  <2> HIDE DEF a, b
  <2>4. Reached(b, k + 1, current, st, s, cuts)
    BY <1>3, <1>4, <2>1, <2>3, BlocksReach
  <2> QED BY <2>4 DEF b
<1> HIDE DEF S
<1>10. N \in S
  BY <1>5, <1>8, <1>9, Induct
<1>11. Reached(q, N, current, st, s, cuts)
  <2>1. q = f[N]
    BY <1>1, <1>7, Zenon DEF Lists, N
  <2> QED BY <1>5, <1>10, <2>1 DEF S
<1>12. PICK g : BlocksRuns(g, st, s, evidence, q)
  <2>1. q = Blocks!Reduce(st.open, s, evidence) /\ Len(q) \in Nat
    BY <1>11 DEF Reached, q, open
  <2> QED BY <2>1, BlocksLoop
<1>13. Midway(g[Len(q)], N, current, st, s, cuts)
  BY <1>11, <1>12 DEF Reached, Applies, BlocksRuns
<1> DEFINE tx == g[Len(q)]
<1>14. SettledAt(tx, s)
  BY <1>13 DEF Midway
<1> HIDE DEF tx
<1>15. Left(Blocks!Execute(tx))
  BY <1>14, LeftIs
<1> QED BY <1>12, <1>15 DEF BlocksRuns, tx

\* A segment that was not checked.
LEMMA BlocksUnchecked ==
    ASSUME NEW s \in Segments, NEW st, StoreHeld(st),
           KnownHeld(live, st.open, st.recovery), check = "macroblocking",
           NEW evidence, ~ evidence.checked
    PROVE  Left(Blocks!Apply(st, s, evidence))
<1> DEFINE open == st.open
           q == Blocks!Reduce(open, s, evidence)
           y == Blocks!Transition("UNKNOWN_GAP", None)
           x == Blocks!Transition("CLOSE_EVENT", open)
           b == Blocks!Begin(st)
<1>1. ASSUME NEW n \in Nat, Len(q) = n
      PROVE  \E f : BlocksRuns(f, st, s, evidence, q)
  <2> DEFINE qq == q
  <2> HIDE DEF qq
  <2>1. qq = Blocks!Reduce(st.open, s, evidence) /\ Len(qq) \in Nat
    BY <1>1 DEF qq
  <2>2. \E f : BlocksRuns(f, st, s, evidence, qq)
    BY <2>1, BlocksLoop
  <2> QED BY <2>2 DEF qq
<1>2. SettledAt(b, s) /\ b.pre = st /\ b.store = st
  <2> HIDE DEF b
  <2> QED BY BlocksBegins DEF b
<1>3. CASE open = None
  <2>1. q = <<>> \o <<y>>
    BY <1>3, Zenon DEF Blocks!Reduce
  <2> HIDE DEF y
  <2>2. Len(q) = 1 /\ q[1] = y
    BY <2>1
  <2>3. PICK f : BlocksRuns(f, st, s, evidence, q)
    BY <1>1, <2>2
  <2> HIDE DEF q, b
  <2>4. f[1] = Blocks!ApplyTransition(b, y, s)
    <3>1. 1 \in 1 .. Len(q) /\ 1 - 1 = 0 /\ f[0] = b
      BY <2>2, <2>3 DEF BlocksRuns, b
    <3> QED BY <2>2, <2>3, <3>1, Zenon DEF BlocksRuns
  <2> DEFINE tx == f[1]
  <2>5. tx = Blocks!UnknownGap(b, s)
    BY <2>4, BlocksDispatch DEF y
  <2> HIDE DEF tx
  <2>6. SettledAt(tx, s)
    BY <1>2, <2>5, BlocksUnknown
  <2>7. Left(Blocks!Execute(tx))
    BY <2>6, LeftIs
  <2> QED BY <2>2, <2>3, <2>7 DEF BlocksRuns, tx
<1>4. CASE open # None
  <2>1. q = <<x>> \o <<y>>
    BY <1>4, Zenon DEF Blocks!Reduce
  <2> HIDE DEF x, y
  <2>2. Len(q) = 2 /\ q[1] = x /\ q[2] = y
    <3> HIDE DEF q
    <3>1. Pair(q, x, y)
      BY <2>1, PairIs
    <3> QED BY <3>1 DEF Pair
  <2>3. PICK f : BlocksRuns(f, st, s, evidence, q)
    BY <1>1, <2>2
  <2> HIDE DEF q
  <2>4. f[1] = Blocks!ApplyTransition(b, x, s)
    <3>1. 1 \in 1 .. Len(q) /\ 1 - 1 = 0 /\ f[0] = b
      BY <2>2, <2>3 DEF BlocksRuns
    <3> HIDE DEF b
    <3> QED BY <2>2, <2>3, <3>1, Zenon DEF BlocksRuns
  <2>5. f[2] = Blocks!ApplyTransition(f[1], y, s)
    <3>1. 2 \in 1 .. Len(q) /\ 2 - 1 = 1
      BY <2>2
    <3> QED BY <2>2, <2>3, <3>1, Zenon DEF BlocksRuns
  <2> DEFINE c == f[1]
             tx == f[2]
  <2>6. c = Blocks!CloseEvent(Blocks!Begin(st), st.open)
    BY <2>4, BlocksDispatch DEF x
  <2>7. tx = Blocks!UnknownGap(c, s)
    BY <2>5, BlocksDispatch DEF y
  <2> HIDE DEF c, tx
  <2>8. SettledAt(tx, s)
    BY <1>4, <2>6, <2>7, BlocksGap
  <2>9. Left(Blocks!Execute(tx))
    BY <2>8, LeftIs
  <2> QED BY <2>2, <2>3, <2>9 DEF BlocksRuns, tx
<1> QED BY <1>3, <1>4

\* A healthy segment.
LEMMA BlocksWell ==
    ASSUME NEW s \in Segments, NEW st, StoreHeld(st),
           KnownHeld(live, st.open, st.recovery), check = "macroblocking",
           NEW evidence, evidence.checked, evidence.intervals = <<>>
    PROVE  Well(Blocks!Apply(st, s, evidence), st, s)
<1> DEFINE open == st.open
           gone == open # None /\ ~ SequenceCanFollow(open, s)
           q == Blocks!Reduce(open, s, evidence)
           y == Blocks!Transition("HEALTHY_EVIDENCE", None)
           m == Blocks!Transition("MARK_COMMITTED", None)
           u == Blocks!Transition("UNKNOWN_GAP", None)
           x == Blocks!Transition("CLOSE_EVENT", open)
           b == Blocks!Begin(st)
<1>1. SettledAt(b, s) /\ b.pre = st /\ b.store = st /\ Recalled(b)
  <2> HIDE DEF b
  <2> QED BY BlocksBegins DEF b
<1>2. Blocks!SequenceCanFollow(open, s) = SequenceCanFollow(open, s)
  BY BlocksSame
<1>3. ASSUME NEW n \in Nat, Len(q) = n
      PROVE  \E f : BlocksRuns(f, st, s, evidence, q)
  <2> DEFINE qq == q
  <2> HIDE DEF qq
  <2>1. qq = Blocks!Reduce(st.open, s, evidence) /\ Len(qq) \in Nat
    BY <1>3 DEF qq
  <2>2. \E f : BlocksRuns(f, st, s, evidence, qq)
    BY <2>1, BlocksLoop
  <2> QED BY <2>2 DEF qq
<1>4. CASE open = None
  <2>1. q = <<>> \o <<y>>
    BY <1>4, Zenon DEF Blocks!Reduce
  <2> HIDE DEF y
  <2>2. Len(q) = 1 /\ q[1] = y
    BY <2>1
  <2>3. PICK f : BlocksRuns(f, st, s, evidence, q)
    BY <1>3, <2>2
  <2> HIDE DEF q, b
  <2>4. f[1] = Blocks!ApplyTransition(b, y, s)
    <3>1. 1 \in 1 .. Len(q) /\ 1 - 1 = 0 /\ f[0] = b
      BY <2>2, <2>3 DEF BlocksRuns, b
    <3> QED BY <2>2, <2>3, <3>1, Zenon DEF BlocksRuns
  <2> DEFINE tx == f[1]
             result == Blocks!Execute(tx)
             r == b.store.recovery
  <2>5. tx = Blocks!ApplyHealthy(b, s)
    BY <2>4, BlocksDispatch DEF y
  <2> HIDE DEF tx
  <2>6. LET z == tx.store.recovery
        IN  /\ SettledAt(tx, s) /\ tx.pre = b.pre /\ tx.store.open = None
            /\ z # None =>
                  /\ r # None /\ z.last = s.seq /\ SameTimeline(z, s)
                  /\ SameTimeline(r, s) /\ s.seq = r.last + 1 =>
                        z.healthy = r.healthy + 1
    BY <1>1, <1>4, <2>5, BlocksHeals
  <2>7. Done(result, tx)
    BY <2>6, ExecuteIs
  <2> HIDE DEF result
  <2>8. Well(result, st, s)
    BY <1>1, <1>4, <2>6, <2>7 DEF Well, Done, Left
  <2> QED BY <2>2, <2>3, <2>8 DEF BlocksRuns, tx, result
<1>5. CASE open # None
  <2> DEFINE c == Blocks!CloseEvent(Blocks!Begin(st), st.open)
  <2>1. SettledAt(c, s) /\ c.pre = st /\ c.store.open = None /\ Recalled(c)
        /\ SettledAt(Blocks!UnknownGap(c, s), s)
        /\ Blocks!UnknownGap(c, s).store.open = None
    <3> HIDE DEF c
    <3> QED BY <1>5, BlocksGap DEF c
  <2>2. ASSUME NEW tx, SettledAt(tx, s), tx.store.open = None
        PROVE  Well(Blocks!Execute(tx), st, s)
    <3> DEFINE result == Blocks!Execute(tx)
    <3>1. Done(result, tx)
      BY <2>2, ExecuteIs
    <3> HIDE DEF result
    <3>2. Well(result, st, s)
      BY <1>5, <2>2, <3>1 DEF Well, Done, Left
    <3> QED BY <3>2 DEF result
  <2>3. CASE gone
    <3>1. q = (<<x>> \o <<u>>) \o <<m>>
      BY <1>2, <2>3, Zenon DEF Blocks!Reduce
    <3> HIDE DEF x, u, m
    <3>2. Len(q) = 3 /\ q[1] = x /\ q[2] = u /\ q[3] = m
      <4> DEFINE C == {x, u, m}
      <4>1. <<x>> \in Seq(C) /\ <<u>> \in Seq(C) /\ <<m>> \in Seq(C)
        OBVIOUS
      <4> DEFINE p == <<x>> \o <<u>>
      <4>2. p \in Seq(C)
        BY <4>1
      <4>3. Len(p) = 2 /\ p[1] = x /\ p[2] = u
        <5>1. Pair(p, x, u)
          BY PairIs
        <5> QED BY <5>1 DEF Pair
      <4>4. Len(<<m>>) = 1 /\ <<m>>[1] = m
        OBVIOUS
      <4> DEFINE w == <<m>>
      <4>5. q = p \o w
        BY <3>1
      <4> HIDE DEF p, w, C, q
      <4>6. p \in Seq(C) /\ w \in Seq(C) /\ Len(w) = 1 /\ w[1] = m
        BY <4>1, <4>2, <4>4 DEF w
      <4>7. /\ Len(q) = Len(p) + Len(w)
            /\ \A j \in 1 .. Len(p) : q[j] = p[j]
            /\ \A j \in 1 .. Len(w) : q[Len(p) + j] = w[j]
        <5>1. \A v \in Seq(C), z \in Seq(C) :
                 /\ Len(v \o z) = Len(v) + Len(z)
                 /\ \A j \in 1 .. Len(v) : (v \o z)[j] = v[j]
                 /\ \A j \in 1 .. Len(z) : (v \o z)[Len(v) + j] = z[j]
          BY ONLY TRUE
        <5> QED BY <4>5, <4>6, <5>1
      <4> QED BY <4>3, <4>6, <4>7
    <3>3. PICK f : BlocksRuns(f, st, s, evidence, q)
      BY <1>3, <3>2
    <3> HIDE DEF q
    <3>4. f[1] = Blocks!ApplyTransition(b, x, s)
      <4>1. 1 \in 1 .. Len(q) /\ 1 - 1 = 0 /\ f[0] = b
        BY <3>2, <3>3 DEF BlocksRuns
      <4> HIDE DEF b
      <4> QED BY <3>2, <3>3, <4>1, Zenon DEF BlocksRuns
    <3>5. f[2] = Blocks!ApplyTransition(f[1], u, s)
      <4>1. 2 \in 1 .. Len(q) /\ 2 - 1 = 1
        BY <3>2
      <4> QED BY <3>2, <3>3, <4>1, Zenon DEF BlocksRuns
    <3>6. f[3] = Blocks!ApplyTransition(f[2], m, s)
      <4>1. 3 \in 1 .. Len(q) /\ 3 - 1 = 2
        BY <3>2
      <4> QED BY <3>2, <3>3, <4>1, Zenon DEF BlocksRuns
    <3>7. f[1] = c
      BY <3>4, BlocksDispatch DEF x
    <3>8. f[2] = Blocks!UnknownGap(c, s)
      BY <3>5, <3>7, BlocksDispatch DEF u
    <3>9. f[3] = f[2]
      BY <3>6, BlocksDispatch DEF m
    <3> DEFINE tx == f[3]
    <3>10. SettledAt(tx, s) /\ tx.store.open = None
      BY <2>1, <3>8, <3>9
    <3> HIDE DEF tx, c
    <3>11. Well(Blocks!Execute(tx), st, s)
      BY <2>2, <3>10
    <3> QED BY <3>2, <3>3, <3>11 DEF BlocksRuns, tx
  <2>4. CASE ~ gone
    <3>1. q = <<x>> \o <<y>>
      BY <1>2, <1>5, <2>4, Zenon DEF Blocks!Reduce
    <3> HIDE DEF x, y
    <3>2. Len(q) = 2 /\ q[1] = x /\ q[2] = y
      <4> HIDE DEF q
      <4>1. Pair(q, x, y)
        BY <3>1, PairIs
      <4> QED BY <4>1 DEF Pair
    <3>3. PICK f : BlocksRuns(f, st, s, evidence, q)
      BY <1>3, <3>2
    <3> HIDE DEF q
    <3>4. f[1] = Blocks!ApplyTransition(b, x, s)
      <4>1. 1 \in 1 .. Len(q) /\ 1 - 1 = 0 /\ f[0] = b
        BY <3>2, <3>3 DEF BlocksRuns
      <4> HIDE DEF b
      <4> QED BY <3>2, <3>3, <4>1, Zenon DEF BlocksRuns
    <3>5. f[2] = Blocks!ApplyTransition(f[1], y, s)
      <4>1. 2 \in 1 .. Len(q) /\ 2 - 1 = 1
        BY <3>2
      <4> QED BY <3>2, <3>3, <4>1, Zenon DEF BlocksRuns
    <3>6. f[1] = c
      BY <3>4, BlocksDispatch DEF x
    <3> DEFINE tx == f[2]
    <3>7. tx = Blocks!ApplyHealthy(c, s)
      BY <3>5, <3>6, BlocksDispatch DEF y
    <3> HIDE DEF tx, c
    <3>8. SettledAt(tx, s) /\ tx.store.open = None
      BY <2>1, <3>7, BlocksHeals
    <3>9. Well(Blocks!Execute(tx), st, s)
      BY <2>2, <3>8
    <3> QED BY <3>2, <3>3, <3>9 DEF BlocksRuns, tx
  <2> QED BY <2>3, <2>4
<1> QED BY <1>4, <1>5

-----------------------------------------------------------------------------
(* A commit.                                                                *)

\* What the detector may say, a store accepts.
LEMMA EvidencesSeen ==
    ASSUME NEW evidence \in Evidences
    PROVE  Seen(evidence)
<1> USE BoundsAssumption, LengthAssumption
<1>1. ASSUME NEW p \in Pictures PROVE Picture(p)
  <2>1. p \in Seq(Intervals) /\ DOMAIN p = 1 .. Len(p)
    BY <1>1 DEF Intervals
  <2>2. \A n \in 1 .. Len(p) : p[n] \in Intervals
    BY <2>1
  <2>3. \A n \in 1 .. Len(p) : p[n][1] \in Nat /\ p[n][2] \in Nat
    BY <2>2 DEF Intervals
  <2>4. \A n \in 1 .. Len(p) :
           /\ p[n][1] < p[n][2] /\ p[n][2] <= SegmentLength
           /\ n > 1 => p[n - 1][2] <= p[n][1]
    BY <1>1, <2>1
  <2> QED BY <2>1, <2>3, <2>4 DEF Picture
<1>2. Picture(<<>>)
  BY DEF Picture
<1>3. ASSUME NEW c \in BOOLEAN, NEW p, NEW m, evidence = Evidence(c, p, m),
             p \in Pictures \/ p = <<>>, ~ c => p = <<>>
      PROVE  Seen(evidence)
  <2>1. evidence.checked = c /\ evidence.intervals = p
    BY <1>3 DEF Evidence
  <2> QED BY <1>1, <1>2, <1>3, <2>1 DEF Seen
<1> DEFINE e == <<>>
           yes == TRUE
           no == FALSE
<1>4. /\ yes \in BOOLEAN /\ yes
      /\ no \in BOOLEAN /\ ~ no
      /\ e = <<>>
      /\ \/ \E p \in Pictures : evidence = Evidence(yes, p, yes)
         \/ evidence = Evidence(no, e, yes)
         \/ \E p \in Pictures : evidence = Evidence(yes, p, no)
  BY DEF Evidences
<1> HIDE DEF e, yes, no
<1>5. CASE \E p \in Pictures : evidence = Evidence(yes, p, yes)
  BY <1>3, <1>4, <1>5
<1>6. CASE evidence = Evidence(no, e, yes)
  BY <1>3, <1>4, <1>6
<1>7. CASE \E p \in Pictures : evidence = Evidence(yes, p, no)
  BY <1>3, <1>4, <1>7
<1> QED BY <1>4, <1>5, <1>6, <1>7

\* The black-screen store is left so too.
LEMMA HealedIsWell ==
    ASSUME NEW s, NEW st, StoreHeld(st), NEW result, HealedStore(result, st, s)
    PROVE  Well(result, st, s)
<1>1. CASE st.open = None
  BY <1>1, HealedWell DEF HealedStore
<1>2. CASE st.open # None
  BY <1>2 DEF HealedStore, Well
<1> QED BY <1>1, <1>2

\* What applying a segment's evidence leaves, whatever the check.
Outcome(result, s, evidence) ==
    /\ Left(result)
    /\ evidence.checked /\ evidence.intervals = <<>> => Well(result, store, s)
    /\ check = "black_screen" =>
          IF evidence.checked /\ evidence.intervals = <<>>
             THEN HealedStore(result, store, s)
             ELSE BlackSick(result, store, s)

\* It does.
LEMMA AppliedIs ==
    ASSUME AlertInv, NEW s \in Segments, NEW evidence \in Evidences
    PROVE  Outcome(Applied(s, evidence), s, evidence)
<1> DEFINE st == store
           result == Applied(s, evidence)
           fine == evidence.checked /\ evidence.intervals = <<>>
<1>1. Seen(evidence)
  BY EvidencesSeen
<1>2. StoreHeld(st) /\ KnownHeld(live, st.open, st.recovery)
  BY DEF AlertInv
<1>3. check \in {"black_screen", "video_freeze", "audio_loss", "macroblocking"}
  BY BoundsAssumption DEF AlertInv
<1>4. fine \/ evidence.intervals # <<>> \/ ~ evidence.checked
  BY <1>1 DEF Seen
<1>5. CASE check = "black_screen"
  <2>1. result = Black!Apply(st, s, evidence)
    BY <1>5 DEF Applied
  <2>2. st.open # None /\ st.recovery # None => st.recovery.healthy = 0
    <3>1. st.recovery # None => st.recovery.healthy \in Nat
      BY <1>2 DEF StoreHeld, Held, Typed, Recoveries
    <3> QED BY <1>5, <3>1 DEF AlertInv, Health
  <2> DEFINE r == Black!Apply(st, s, evidence)
  <2>3. fine => HealedStore(r, st, s)
    <3> HIDE DEF st
    <3> QED BY <1>2, <1>5, <2>2, BlackWell
  <2>4. evidence.intervals # <<>> => BlackSick(r, st, s)
    <3> HIDE DEF st
    <3> QED BY <1>1, <1>2, <1>5, <2>2, BlackIntervals
  <2>5. ~ evidence.checked => BlackSick(r, st, s)
    <3> HIDE DEF st
    <3> QED BY <1>1, <1>2, <1>5, <2>2, BlackUnchecked
  <2> HIDE DEF r, result
  <2>6. fine => Well(r, st, s)
    BY <1>2, <2>3, HealedIsWell
  <2>7. Left(r)
    BY <1>4, <2>3, <2>4, <2>5 DEF HealedStore, BlackSick
  <2>8. Outcome(r, s, evidence)
    BY <1>4, <2>3, <2>4, <2>5, <2>6, <2>7 DEF Outcome
  <2> QED BY <2>1, <2>8 DEF r, result
<1>6. CASE check = "video_freeze"
  <2>1. result = Freeze!Apply(st, s, evidence)
    BY <1>6 DEF Applied
  <2> DEFINE r == Freeze!Apply(st, s, evidence)
  <2> HIDE DEF st
  <2>2. fine => Well(r, st, s)
    BY <1>2, <1>6, FreezeWell
  <2>3. evidence.intervals # <<>> => Left(r)
    BY <1>1, <1>2, <1>6, FreezeIntervals
  <2>4. ~ evidence.checked => Left(r)
    BY <1>1, <1>2, <1>6, FreezeUnchecked
  <2> HIDE DEF r, result
  <2>5. Outcome(r, s, evidence)
    BY <1>4, <1>6, <2>2, <2>3, <2>4 DEF Outcome, Well, st
  <2> QED BY <2>1, <2>5 DEF r, result
<1>7. CASE check = "audio_loss"
  <2>1. result = Audio!Apply(st, s, evidence)
    BY <1>7 DEF Applied
  <2> DEFINE r == Audio!Apply(st, s, evidence)
  <2> HIDE DEF st
  <2>2. evidence.intervals = <<>> => Well(r, st, s)
    BY <1>2, <1>7, AudioWell
  <2>3. evidence.intervals # <<>> => Left(r)
    BY <1>1, <1>2, <1>7, AudioIntervals
  <2> HIDE DEF r, result
  <2>4. Outcome(r, s, evidence)
    BY <1>7, <2>2, <2>3 DEF Outcome, Well, st
  <2> QED BY <2>1, <2>4 DEF r, result
<1>8. CASE check = "macroblocking"
  <2>1. result = Blocks!Apply(st, s, evidence)
    BY <1>8 DEF Applied
  <2> DEFINE r == Blocks!Apply(st, s, evidence)
  <2> HIDE DEF st
  <2>2. fine => Well(r, st, s)
    BY <1>2, <1>8, BlocksWell
  <2>3. evidence.intervals # <<>> => Left(r)
    BY <1>1, <1>2, <1>8, BlocksIntervals
  <2>4. ~ evidence.checked => Left(r)
    BY <1>1, <1>2, <1>8, BlocksUnchecked
  <2> HIDE DEF r, result
  <2>5. Outcome(r, s, evidence)
    BY <1>4, <1>8, <2>2, <2>3, <2>4 DEF Outcome, Well, st
  <2> QED BY <2>1, <2>5 DEF r, result
<1> QED BY <1>3, <1>5, <1>6, <1>7, <1>8

\* How many segments in a row are healthy now.
LEMMA HealthyAfterIs ==
    ASSUME AlertInv, NEW s \in Segments, NEW evidence \in Evidences
    PROVE  LET n == HealthyAfter(s, evidence)
               fine == evidence.checked /\ evidence.intervals = <<>>
               follows == last # None /\ SameTimeline(last, s)
                            /\ s.seq = last.seq + 1
           IN  /\ n \in 0 .. HealthyBound
               /\ ~ fine => n = 0
               /\ fine => n >= 1
               /\ n >= 2 => fine /\ follows /\ healthy >= 1 /\ healthy >= n - 1
               /\ fine /\ follows => n = healthy + 1 \/ n = HealthyBound
<1> DEFINE fine == evidence.checked /\ evidence.intervals = <<>>
           follows == last # None /\ SameTimeline(last, s)
                        /\ s.seq = last.seq + 1
           count == IF follows THEN healthy + 1 ELSE 1
           n == HealthyAfter(s, evidence)
<1>1. n = IF ~ fine THEN 0
          ELSE IF count > HealthyBound THEN HealthyBound ELSE count
  BY Zenon DEF HealthyAfter
<1>2. healthy \in 0 .. HealthyBound /\ HealthyBound \in Nat /\ HealthyBound >= 3
  BY PolicyAssumption DEF AlertInv, Health, HealthyBound
<1> HIDE DEF n, fine, follows
<1> QED BY <1>1, <1>2 DEF n, fine, follows

\* The healthy segments are counted still.
LEMMA HealthKept ==
    ASSUME AlertInv, NEW s \in Segments, NEW evidence \in Evidences,
           NEW result, Outcome(result, s, evidence)
    PROVE  Health(HealthyAfter(s, evidence), s, result.store)
<1> DEFINE n == HealthyAfter(s, evidence)
           fine == evidence.checked /\ evidence.intervals = <<>>
           follows == last # None /\ SameTimeline(last, s)
                        /\ s.seq = last.seq + 1
           r == store.recovery
           x == result.store.recovery
<1> USE NoneAssumption, PolicyAssumption
<1>1. /\ n \in 0 .. HealthyBound
      /\ ~ fine => n = 0
      /\ fine => n >= 1
      /\ n >= 2 => fine /\ follows /\ healthy >= 1 /\ healthy >= n - 1
      /\ fine /\ follows => n = healthy + 1 \/ n = HealthyBound
  BY HealthyAfterIs
<1>2. StoreHeld(store) /\ Health(healthy, last, store) /\ healthy \in Nat
  BY DEF AlertInv, Health
<1>3. r \in Recoveries \cup {None} /\ s \in Segments /\ s # None
      /\ last \in Segments \cup {None}
  BY <1>2 DEF AlertInv, StoreHeld, Held, Typed
<1>4. x # None => x \in Recoveries /\ x.healthy \in Nat /\ x.healthy < RecoveryHealthy
  <2>1. StoreHeld(result.store)
    BY DEF Outcome, Left
  <2> QED BY <2>1 DEF StoreHeld, Held, Typed, RecoveryHeld, Recoveries
<1>5. r # None => r.healthy \in Nat /\ r.last \in Nat
  BY <1>3 DEF Recoveries
<1>6. last # None => last.seq \in Nat
  BY <1>3 DEF Segments
<1> HIDE DEF n
<1>7. n >= 1 => s # None /\ result.store.open = None
  BY <1>1, <1>3 DEF Outcome, Well
<1>8. ASSUME n >= 2, x # None
      PROVE  x.healthy >= n - 2 /\ x.last = s.seq /\ SameTimeline(x, s)
  <2>1. fine /\ follows /\ healthy >= 1 /\ healthy >= n - 1
    BY <1>1, <1>8
  <2>2. store.open = None /\ Well(result, store, s)
    BY <1>2, <2>1 DEF Health, Outcome
  <2>3. /\ r # None /\ x.last = s.seq /\ SameTimeline(x, s)
        /\ SameTimeline(r, s) /\ s.seq = r.last + 1 =>
              x.healthy = r.healthy + 1
    BY <1>8, <2>2 DEF Well
  <2>4. CASE healthy >= 2
    <3>1. r.healthy >= healthy - 2 /\ r.last = last.seq /\ SameTimeline(r, last)
      BY <1>2, <2>3, <2>4 DEF Health
    <3>2. SameTimeline(r, s)
      BY <2>1, <3>1 DEF SameTimeline
    <3> QED BY <1>1, <1>2, <1>5, <2>1, <2>3, <3>1, <3>2
  <2>5. CASE ~ (healthy >= 2)
    BY <1>1, <1>2, <1>4, <1>8, <2>1, <2>3, <2>5
  <2> QED BY <2>4, <2>5
<1>9. ASSUME check = "black_screen", x # None, x.healthy >= 1
      PROVE  /\ result.store.open = None /\ s # None /\ SameTimeline(x, s)
             /\ x.last = s.seq /\ n >= x.healthy
  <2>1. fine
    BY <1>9 DEF Outcome, BlackSick
  <2>2. HealedStore(result, store, s) /\ result.store.open = None /\ n >= 1
    BY <1>1, <1>9, <2>1 DEF Outcome, HealedStore
  <2>3. CASE store.open # None
    BY <1>1, <1>3, <1>4, <1>9, <2>2, <2>3 DEF HealedStore
  <2>4. CASE store.open = None
    <3> DEFINE w == [store |-> store]
    <3>1. Healed(result, w, s) /\ w.store.recovery = r
      BY <2>2, <2>4 DEF HealedStore
    <3> HIDE DEF w
    <3>2. /\ r # None /\ SameTimeline(r, s) /\ s.seq = r.last + 1
          /\ x.healthy = r.healthy + 1
          /\ x.last = s.seq /\ SameTimeline(x, s)
      <4>1. r # None /\ SameTimeline(r, s)
        BY <1>9, <3>1 DEF Healed
      <4>2. s.seq = r.last + 1
        BY <1>9, <3>1, <4>1 DEF Healed
      <4>3. r.healthy + 1 >= RecoveryHealthy \/ r.healthy + 1 < RecoveryHealthy
        BY <1>5, <4>1
      <4> QED BY <1>9, <3>1, <4>1, <4>2, <4>3 DEF Healed
    <3>3. CASE r.healthy >= 1
      <4>1. last # None /\ SameTimeline(r, last) /\ r.last = last.seq
            /\ healthy >= r.healthy
        BY <1>2, <1>9, <3>2, <3>3 DEF Health
      <4>2. follows
        BY <3>2, <4>1 DEF SameTimeline
      <4>3. n = healthy + 1 \/ n = HealthyBound
        BY <1>1, <2>1, <4>2
      <4> QED BY <1>2, <1>3, <1>4, <1>5, <1>9, <2>2, <3>2, <4>1, <4>3
              DEF HealthyBound
    <3>4. CASE ~ (r.healthy >= 1)
      <4>1. x.healthy = 1
        BY <1>5, <3>2, <3>4
      <4> QED BY <1>3, <2>2, <3>2, <4>1
    <3> QED BY <3>3, <3>4
  <2> QED BY <2>3, <2>4
<1>10. n \in 0 .. HealthyBound
  BY <1>1
<1> HIDE DEF x
<1>11. Health(n, s, result.store)
  BY <1>7, <1>8, <1>9, <1>10 DEF Health, x
<1> QED BY <1>11 DEF n

-----------------------------------------------------------------------------
(* Init and the steps.                                                      *)

\* What a commit leaves.
Committed(s) ==
    /\ check' \in Checks /\ last' = s /\ raised' = FALSE
    /\ StoreHeld(store)'
    /\ KnownHeld(live, store.open, store.recovery)'
    /\ Health(healthy, last, store)'

\* It does.
LEMMA CommitHolds ==
    ASSUME AlertInv, NEW s \in Segments, Commit(s)
    PROVE  Committed(s)
<1>1. PICK evidence \in Evidences :
         LET result == Applied(s, evidence)
         IN  /\ store' = result.store
             /\ raised' = result.raised
             /\ live' = Fold(Read, live, result.alerts)
             /\ healthy' = HealthyAfter(s, evidence)
             /\ last' = s
             /\ UNCHANGED check
  BY DEF Commit
<1> DEFINE result == Applied(s, evidence)
<1>2. Outcome(result, s, evidence)
  BY AppliedIs
<1> HIDE DEF result
<1>3. Health(HealthyAfter(s, evidence), s, result.store)
  BY <1>2, HealthKept
<1>4. /\ store' = result.store /\ raised' = result.raised
      /\ live' = Told(result.alerts)
      /\ healthy' = HealthyAfter(s, evidence) /\ last' = s /\ check' = check
  BY <1>1 DEF result, Told
<1>5. /\ result.raised = FALSE /\ StoreHeld(result.store)
      /\ KnownHeld(live', result.store.open, result.store.recovery)
  BY <1>2, <1>4 DEF Outcome, Left
<1>6. StoreHeld(store)'
  BY <1>4, <1>5 DEF StoreHeld, Held, Typed, OpenHeld, RecoveryHeld, Together,
                    IncidentsHeld
<1>7. KnownHeld(live, store.open, store.recovery)'
  BY <1>4, <1>5 DEF KnownHeld
<1>8. Health(healthy, last, store)'
  BY <1>3, <1>4 DEF Health
<1> QED BY <1>4, <1>5, <1>6, <1>7, <1>8 DEF Committed, AlertInv

\* And an alert it resolves on its own timeline has seen enough healthy
\* segments.
LEMMA CommitRecovers ==
    ASSUME AlertInv, NEW s \in Segments, Commit(s), check = "black_screen",
           Recovered
    PROVE  healthy' >= RecoveryHealthy
<1> USE NoneAssumption, PolicyAssumption
<1>1. PICK evidence \in Evidences :
         LET result == Applied(s, evidence)
         IN  /\ store' = result.store
             /\ raised' = result.raised
             /\ live' = Fold(Read, live, result.alerts)
             /\ healthy' = HealthyAfter(s, evidence)
             /\ last' = s
             /\ UNCHANGED check
  BY DEF Commit
<1> DEFINE result == Applied(s, evidence)
           fine == evidence.checked /\ evidence.intervals = <<>>
           follows == last # None /\ SameTimeline(last, s)
                        /\ s.seq = last.seq + 1
           n == HealthyAfter(s, evidence)
           r == store.recovery
           x == result.store.recovery
<1>2. Outcome(result, s, evidence)
  BY AppliedIs
<1>3. /\ n \in 0 .. HealthyBound
      /\ fine => n >= 1
      /\ fine /\ follows => n = healthy + 1 \/ n = HealthyBound
  BY HealthyAfterIs
<1> HIDE DEF result, n, follows
<1>4. live' = Told(result.alerts) /\ healthy' = n /\ last' = s
  BY <1>1 DEF result, n, Told
<1>5. r # None /\ <<r.kind, r.id>> \notin live' /\ SameTimeline(r, s)
  BY <1>4 DEF Recovered
<1>6. ~ (x # None /\ x.id = r.id /\ x.kind = r.kind)
  <2>1. RecoveryName(x) \subseteq live'
    BY <1>2, <1>4 DEF Outcome, Left, KnownHeld
  <2> QED BY <1>5, <2>1 DEF RecoveryName
<1>7. fine /\ HealedStore(result, store, s)
  BY <1>2, <1>5, <1>6 DEF Outcome, BlackSick
<1>8. RecoveryHealthy <= 1 => n >= RecoveryHealthy
  BY <1>3, <1>7 DEF HealthyBound
<1>9. CASE store.open # None
  BY <1>4, <1>5, <1>6, <1>7, <1>8, <1>9 DEF HealedStore
<1>10. CASE store.open = None
  <2> DEFINE w == [store |-> store]
  <2>1. Healed(result, w, s) /\ w.store.recovery = r
    BY <1>7, <1>10 DEF HealedStore
  <2> HIDE DEF w
  <2>2. r.healthy \in Nat /\ Health(healthy, last, store) /\ healthy \in Nat
    BY <1>5 DEF AlertInv, StoreHeld, Held, Typed, Recoveries, Health
  <2>3. s.seq = r.last + 1 /\ r.healthy + 1 >= RecoveryHealthy
    <3>1. s.seq = r.last + 1
      BY <1>5, <1>6, <2>1 DEF Healed
    <3>2. ~ (r.healthy + 1 < RecoveryHealthy)
      BY <1>5, <1>6, <2>1, <3>1 DEF Healed
    <3> QED BY <2>2, <3>1, <3>2
  <2>4. CASE r.healthy >= 1
    <3>1. last # None /\ SameTimeline(r, last) /\ r.last = last.seq
          /\ healthy >= r.healthy
      BY <1>5, <2>2, <2>4 DEF Health
    <3>2. follows
      BY <1>5, <2>3, <3>1 DEF SameTimeline, follows
    <3> QED BY <1>3, <1>4, <1>7, <2>2, <2>3, <3>1, <3>2 DEF HealthyBound
  <2>5. CASE ~ (r.healthy >= 1)
    BY <1>4, <1>8, <2>2, <2>3, <2>5
  <2> QED BY <2>4, <2>5
<1> QED BY <1>9, <1>10

\* The segments of a step.
LEMMA SegmentsNext ==
    ASSUME AlertInv
    PROVE  /\ Follower \in Segments
           /\ Segment(tip.gen, tip.disc + 1, tip.seq + 1, 0, tip.at + 1)
                 \in Segments
           /\ tip.gen < MaxGeneration =>
                 Segment(tip.gen + 1, 0, 0, 0, tip.at + 1) \in Segments
           /\ [tip EXCEPT !.rev = @ + 1] \in Segments
           /\ [tip EXCEPT !.rev = @ + 1].at = tip.at
<1>1. /\ tip \in Segments /\ tip.gen \in Generations /\ tip.disc \in Nat
      /\ tip.seq \in Nat /\ tip.rev \in Nat /\ tip.at \in Nat
  BY DEF AlertInv, Segments
<1>2. tip.gen \in Nat /\ (tip.gen < MaxGeneration => tip.gen + 1 \in Generations)
  BY <1>1, PolicyAssumption DEF Generations
<1> QED BY <1>1, <1>2 DEF Follower, Segment, Segments

\* The invariant holds at first.
LEMMA AlertInit == Init => AlertInv
<1> SUFFICES ASSUME Init PROVE AlertInv
  OBVIOUS
<1> USE NoneAssumption, PolicyAssumption, BoundsAssumption DEF Init
<1>1. tip \in Segments /\ tip.at <= MaxSegments
  BY DEF Segment, Segments, Generations
<1> DEFINE h == [g \in Generations |-> {}]
           i == [g \in Generations |-> None]
<1>2. h \in Histories /\ i \in IncidentsOf
  BY DEF Histories, IncidentsOf
<1>3. /\ store.open = None /\ store.saved = {} /\ store.recovery = None
      /\ store.history = h /\ store.incident = i
      /\ store = [open |-> None, saved |-> {}, recovery |-> None,
                  history |-> h, incident |-> i]
  BY DEF EmptyStore
<1>4. \A g \in Generations : i[g] = None
  OBVIOUS
<1> HIDE DEF h, i
<1>5. store \in Stores
  BY <1>2, <1>3 DEF Stores, Histories, IncidentsOf
<1>6. Held(None, {}, None, h, i)
  BY <1>2, <1>4 DEF Held, Typed, OpenHeld, RecoveryHeld, Together, IncidentsHeld
<1>7. StoreHeld(store)
  BY <1>3, <1>5, <1>6 DEF StoreHeld
<1>8. KnownHeld(live, store.open, store.recovery)
  BY <1>3 DEF KnownHeld, EventName, RecoveryName
<1>9. Health(healthy, last, store)
  BY <1>3 DEF Health, HealthyBound
<1> QED BY <1>1, <1>7, <1>8, <1>9 DEF AlertInv

\* A step that commits segment s.
LEMMA CommitInv ==
    ASSUME AlertInv, NEW s \in Segments, Commit(s),
           tip' \in Segments, tip'.at <= MaxSegments,
           lost' \in Segments \cup {None}
    PROVE  AlertInv'
<1>1. Committed(s)
  BY CommitHolds
<1>2. last' \in Segments
  BY <1>1 DEF Committed
<1> QED BY <1>1, <1>2 DEF Committed, AlertInv

\* A step that commits nothing.
LEMMA NoCommitInv ==
    ASSUME AlertInv, UNCHANGED <<check, last, store, live, healthy, raised>>,
           tip' \in Segments, tip'.at <= MaxSegments,
           lost' \in Segments \cup {None}
    PROVE  AlertInv'
<1>1. /\ check' = check /\ last' = last /\ store' = store /\ live' = live
      /\ healthy' = healthy /\ raised' = raised
  OBVIOUS
<1>2. StoreHeld(store)'
  BY <1>1 DEF AlertInv, StoreHeld, Held, Typed, OpenHeld, RecoveryHeld, Together,
              IncidentsHeld
<1>3. KnownHeld(live, store.open, store.recovery)'
  BY <1>1 DEF AlertInv, KnownHeld
<1>4. Health(healthy, last, store)'
  BY <1>1 DEF AlertInv, Health
<1> QED BY <1>1, <1>2, <1>3, <1>4 DEF AlertInv

\* A step commits one segment, or none.
Commits ==
    /\ tip' \in Segments /\ tip'.at <= MaxSegments
    /\ lost' \in Segments \cup {None}
    /\ \/ \E s \in Segments : Commit(s)
       \/ UNCHANGED <<check, last, store, live, healthy, raised>>

\* Every step does.
LEMMA StepCommits ==
    ASSUME AlertInv, [Next]_vars
    PROVE  Commits
<1> USE BoundsAssumption, SegmentsNext
<1>1. tip.at \in Nat /\ tip \in Segments /\ lost \in Segments \cup {None}
  BY DEF AlertInv, Segments
<1>2. CASE Observe
  <2>1. tip' = Follower /\ tip'.at <= MaxSegments /\ lost' = lost /\ Commit(Follower)
    BY <1>1, <1>2 DEF Observe, PublishNext, Follower, Segment
  <2> QED BY <1>1, <2>1 DEF Commits
<1>3. CASE Lose
  <2>1. tip' = Follower /\ tip'.at <= MaxSegments /\ lost' = Follower
    BY <1>1, <1>3 DEF Lose, PublishNext, Follower, Segment
  <2> QED BY <1>1, <1>3, <2>1 DEF Commits, Lose
<1>4. CASE CommitLate
  <2>1. lost \in Segments /\ lost' = None /\ tip' = tip /\ Commit(lost)
    BY <1>1, <1>4 DEF CommitLate
  <2> QED BY <1>1, <2>1 DEF Commits, AlertInv
<1>5. CASE Replace
  <2>1. tip' = [tip EXCEPT !.rev = @ + 1] /\ lost' = lost /\ Commit(tip')
    BY <1>5 DEF Replace
  <2> QED BY <1>1, <2>1 DEF Commits, AlertInv
<1>6. CASE Discontinue
  <2> DEFINE s == Segment(tip.gen, tip.disc + 1, tip.seq + 1, 0, tip.at + 1)
  <2>1. s \in Segments /\ s.at = tip.at + 1
    BY DEF Segment
  <2>2. tip' = s /\ tip.at < MaxSegments /\ lost' = lost /\ Commit(s)
    BY <1>6 DEF Discontinue, PublishNext
  <2> HIDE DEF s
  <2> QED BY <1>1, <2>1, <2>2 DEF Commits
<1>7. CASE Reset
  <2> DEFINE s == Segment(tip.gen + 1, 0, 0, 0, tip.at + 1)
  <2>1. tip.gen < MaxGeneration => s \in Segments /\ s.at = tip.at + 1
    BY DEF Segment
  <2>2. /\ tip' = s /\ tip.at < MaxSegments /\ tip.gen < MaxGeneration
        /\ lost' = lost /\ Commit(s)
    BY <1>7 DEF Reset, PublishNext
  <2> HIDE DEF s
  <2> QED BY <1>1, <2>1, <2>2 DEF Commits
<1>8. CASE UNCHANGED vars
  <2>1. tip' = tip /\ lost' = lost
        /\ UNCHANGED <<check, last, store, live, healthy, raised>>
    BY <1>8 DEF vars
  <2> QED BY <1>1, <2>1 DEF Commits, AlertInv
<1> QED BY <1>2, <1>3, <1>4, <1>5, <1>6, <1>7, <1>8 DEF Next

\* Whatever is lost, late, replaced or renumbered, what the store keeps and what
\* a reader of the alert stream knows stay as AlertInv says.
THEOREM AlertInvHolds == Spec => []AlertInv
<1>1. AlertInv /\ [Next]_vars => AlertInv'
  <2> SUFFICES ASSUME AlertInv, [Next]_vars PROVE AlertInv'
    OBVIOUS
  <2>1. Commits
    BY StepCommits
  <2>2. CASE \E s \in Segments : Commit(s)
    BY <2>1, <2>2, CommitInv DEF Commits
  <2>3. CASE UNCHANGED <<check, last, store, live, healthy, raised>>
    BY <2>1, <2>3, NoCommitInv DEF Commits
  <2> QED BY <2>1, <2>2, <2>3 DEF Commits
<1> QED BY <1>1, AlertInit, PTL DEF Spec

\* The store is well formed: its open event reaches the end of a segment and
\* is saved, its recovery has not yet seen enough healthy segments.
THEOREM StoresAreTyped == Spec => []TypeOK
<1>1. AlertInv => TypeOK
  <2> SUFFICES ASSUME AlertInv PROVE TypeOK
    OBVIOUS
  <2> USE PolicyAssumption, BoundsAssumption
  <2>1. tip.at \in 0 .. MaxSegments
    BY DEF AlertInv, Segments
  <2>2. /\ Typed(store.open, store.saved, store.recovery, store.history,
                 store.incident)
        /\ OpenHeld(store.open, store.saved, store.recovery)
        /\ RecoveryHeld(store.saved, store.recovery)
        /\ IncidentsHeld(store.recovery, store.incident)
        /\ Health(healthy, last, store)
    BY DEF AlertInv, StoreHeld, Held
  <2>3. store.recovery # None =>
           /\ store.recovery.healthy \in 0 .. RecoveryHealthy - 1
           /\ store.recovery.kind \in {"CONTINUOUS", "REPEATED"}
    BY <2>2 DEF Typed, RecoveryHeld, Recoveries
  <2>4. \A g \in Generations : store.incident[g] # None =>
           store.incident[g].fresh \in 0 .. UpdateEvery - 1
    BY <2>2 DEF Typed, IncidentsHeld, IncidentsOf, Incidents
  <2> QED BY <2>1, <2>2, <2>3, <2>4 DEF TypeOK, AlertInv, OpenHeld, Health
<1> QED BY <1>1, AlertInvHolds, PTL

\* Owners, as AlertInv names them.
LEMMA OwnersAre ==
    Owners = EventName(store.open) \cup RecoveryName(store.recovery)
<1>1. {<<"CONTINUOUS", e.id>> : e \in {x \in {store.open} \ {None} : x.sent}}
        = EventName(store.open)
  BY DEF EventName
<1>2. {<<r.kind, r.id>> : r \in {store.recovery} \ {None}}
        = RecoveryName(store.recovery)
  BY DEF RecoveryName
<1> QED BY <1>1, <1>2 DEF Owners

\* Every alert the store holds is open for a reader of the stream; but for the
\* freeze check nothing else is open; and one alert at most is held.
THEOREM AlertsAreHeld == Spec => []AlertsHeld
<1>1. AlertInv => AlertsHeld
  BY OwnersAre DEF AlertInv, AlertsHeld, EveryAlertHeld, KnownHeld, StoreHeld,
                   Held, OpenHeld
<1> QED BY <1>1, AlertInvHolds, PTL

\* RecoveryHealthy + 2 healthy segments in a row leave no event and no recovery,
\* whatever came before them.
THEOREM RecoveriesEnd == Spec => []RecoveryEnds
<1>1. AlertInv => RecoveryEnds
  <2> SUFFICES ASSUME AlertInv, healthy = HealthyBound
               PROVE  store.open = None /\ store.recovery = None
    BY DEF RecoveryEnds
  <2>1. Health(healthy, last, store)
        /\ RecoveryHeld(store.saved, store.recovery)
        /\ store.recovery \in Recoveries \cup {None}
    BY DEF AlertInv, StoreHeld, Held, Typed
  <2>2. healthy >= 1 /\ healthy >= 2 /\ healthy - 2 >= RecoveryHealthy
    BY PolicyAssumption DEF HealthyBound
  <2>3. store.recovery # None => store.recovery.healthy \in Nat
    BY <2>1 DEF Recoveries
  <2> QED BY <2>1, <2>2, <2>3, PolicyAssumption DEF Health, RecoveryHeld
<1> QED BY <1>1, AlertInvHolds, PTL

\* An event as long as the policy reports is reported, or belongs to an outage
\* whose alert is still open.
THEOREM LongEventsAreReported == Spec => []LongEventReported
<1>1. AlertInv => LongEventReported
  BY DEF AlertInv, LongEventReported, StoreHeld, Held, OpenHeld
<1> QED BY <1>1, AlertInvHolds, PTL

\* A repeated incident exists exactly while its alert waits for recovery.
THEOREM IncidentsAreHeld == Spec => []IncidentHeld
<1>1. AlertInv => IncidentHeld
  BY DEF AlertInv, IncidentHeld, StoreHeld, Held, IncidentsHeld
<1> QED BY <1>1, AlertInvHolds, PTL

\* No commit finds the event or the incident of its recovery gone: none raises.
THEOREM NoCommitRaises == Spec => []NeverRaises
<1>1. AlertInv => NeverRaises
  BY DEF AlertInv, NeverRaises
<1> QED BY <1>1, AlertInvHolds, PTL

\* The black-screen check resolves an alert on the timeline it waits on only
\* after as many healthy segments in a row as the policy asks for.
THEOREM NoRecoveryIsFalse == Spec => NoFalseRecovery
<1>1. AlertInv /\ [Next]_vars =>
        [(check = "black_screen" /\ Recovered) => healthy' >= RecoveryHealthy]_vars
  <2> SUFFICES ASSUME AlertInv, [Next]_vars, check = "black_screen", Recovered
               PROVE  healthy' >= RecoveryHealthy
    OBVIOUS
  <2>1. Commits
    BY StepCommits
  <2>2. live' # live
    BY DEF Recovered
  <2>3. PICK s \in Segments : Commit(s)
    BY <2>1, <2>2 DEF Commits
  <2> QED BY <2>3, CommitRecovers
<1> QED BY <1>1, AlertInvHolds, PTL DEF Spec, NoFalseRecovery
=============================================================================
