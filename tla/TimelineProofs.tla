---------------------------- MODULE TimelineProofs ----------------------------
(***************************************************************************)
(* Proofs about Timeline, for every number of workers, window, lookback,   *)
(* way to restart and edit of the origin.                                  *)
(*                                                                         *)
(* A poll reads the playlist, the persisted generation and its own memory  *)
(* at three times.  What makes its outcome right is that the local         *)
(* generation is that of the last observation, the newest ever used by the *)
(* session, and never ahead of the persisted one.                          *)
(***************************************************************************)
EXTENDS Timeline, TLAPS
LOCAL INSTANCE SequencesExt

-----------------------------------------------------------------------------
(* The inductive invariant.                                                *)

Snapshots ==
    [variant : {"video"}, observedAt : {0, 1}, mseq : Nat, discontinuity : Nat,
     segments : [1 .. Window -> PublishedSegments]]

\* The segments of a playlist are numbered from its media sequence on.
InLine(x) ==
    /\ x.mseq \in Nat
    /\ x.segments = [i \in 1 .. Window |-> x.segments[i]]
    /\ \A i \in 1 .. Window : x.segments[i].sequence = x.mseq + i - 1

OriginOK ==
    /\ origin.epoch \in Nat /\ origin.first \in Nat /\ origin.discontinuity \in Nat
    /\ origin = [epoch |-> origin.epoch, first |-> origin.first,
                 discontinuity |-> origin.discontinuity, edit |-> origin.edit]

\* What the tracker t of a session holds, of which u are the generations used
\* and a the numbers accounted for, while the persisted generation is g.
\* Its local generation is that of its last observation and the newest it used.
HeldBy(t, u, a, g) ==
    /\ t = [pc |-> t.pc, previous |-> t.previous, local |-> t.local,
            snapshot |-> t.snapshot, read |-> t.read]
    /\ t.pc \in {"down", "idle", "fetched", "read"}
    /\ t.read \in Nat /\ t.read <= g
    /\ t.local \in Nat \cup {None} /\ (t.local # None => t.local <= g)
    /\ t.pc \in {"fetched", "read"} => t.snapshot \in Snapshots /\ InLine(t.snapshot)
    /\ u \subseteq Nat
    /\ t.pc = "down" => t.local = None
    /\ t.local = None => u = {}
    /\ t.local # None => \A old \in u : old <= t.local
    /\ a \subseteq Nat
    /\ t.previous # None =>
         /\ t.local # None
         /\ InLine(t.previous)
         /\ \A i \in 1 .. Window : t.previous.segments[i].generation = t.local
         /\ Sequences(Segments(t.previous)) \subseteq a
         /\ \A i, j \in a : i .. j \subseteq a

TimelineHeld ==
    /\ OriginOK
    /\ generation \in Nat
    /\ tracker = [w \in Workers |-> tracker[w]]
    /\ used = [w \in Workers |-> used[w]]
    /\ accounted = [w \in Workers |-> accounted[w]]
    /\ \A w \in Workers : HeldBy(tracker[w], used[w], accounted[w], generation)

-----------------------------------------------------------------------------
(* Lemmas about playlists.                                                 *)

\* What is numbered from mseq on, and where.
LEMMA LineIs ==
    ASSUME NEW x, InLine(x)
    PROVE  /\ x.mseq \in Nat /\ DOMAIN x.segments = 1 .. Window
           /\ \A s : s \in Segments(x) <=> \E i \in 1 .. Window : s = x.segments[i]
           /\ Sequences(Segments(x)) = x.mseq .. x.mseq + Window - 1
           /\ \A s, t \in Segments(x) : s.sequence = t.sequence => s = t
           /\ FirstSequence(x) = x.mseq
           /\ LastSequence(x) = x.mseq + Window - 1
           /\ x.segments # <<>>
<1>1. Window \in Nat \ {0}
  BY TimelineAssumption
<1>2. PICK q : q = x.segments
  OBVIOUS
<1>3. /\ x.mseq \in Nat /\ q = [i \in 1 .. Window |-> q[i]]
      /\ \A i \in 1 .. Window : q[i].sequence = x.mseq + i - 1
  BY <1>2 DEF InLine
<1>4. DOMAIN q = 1 .. Window
  BY <1>3
<1>5. Segments(x) = {q[i] : i \in 1 .. Window}
  <2>1. ToSet(q) = {q[i] : i \in DOMAIN q}
    BY DEF ToSet
  <2> QED BY <1>2, <1>4, <2>1 DEF Segments
<1>6. \A s : s \in Segments(x) <=> \E i \in 1 .. Window : s = q[i]
  BY <1>5
<1>7. Sequences(Segments(x)) = x.mseq .. x.mseq + Window - 1
  <2>1. ASSUME NEW n \in Sequences(Segments(x))
        PROVE  n \in x.mseq .. x.mseq + Window - 1
    <3>1. PICK i \in 1 .. Window : n = q[i].sequence
      BY <1>6, <2>1 DEF Sequences
    <3>2. n = x.mseq + i - 1
      BY <1>3, <3>1
    <3> QED BY <1>1, <1>3, <3>2
  <2>2. ASSUME NEW n \in x.mseq .. x.mseq + Window - 1
        PROVE  n \in Sequences(Segments(x))
    <3>1. PICK i : i = n - x.mseq + 1
      OBVIOUS
    <3>2. i \in 1 .. Window /\ x.mseq + i - 1 = n
      BY <1>1, <1>3, <3>1
    <3>3. q[i].sequence = n
      BY <1>3, <3>2
    <3> QED BY <1>6, <3>2, <3>3 DEF Sequences
  <2> QED BY <2>1, <2>2
<1>8. ASSUME NEW s \in Segments(x), NEW t \in Segments(x), s.sequence = t.sequence
      PROVE  s = t
  <2>1. PICK i \in 1 .. Window : s = q[i]
    BY <1>6
  <2>2. PICK j \in 1 .. Window : t = q[j]
    BY <1>6
  <2>3. x.mseq + i - 1 = x.mseq + j - 1
    BY <1>3, <1>8, <2>1, <2>2
  <2>4. i = j
    BY <1>1, <1>3, <2>3
  <2> QED BY <2>1, <2>2, <2>4
<1>9. q \in Seq({q[i] : i \in 1 .. Window}) /\ Len(q) = Window
  BY <1>1, <1>3
<1>10. q # <<>> /\ Head(q) = q[1] /\ Last(q) = q[Window]
  BY <1>1, <1>9 DEF Last
<1>11. 1 \in 1 .. Window /\ Window \in 1 .. Window
  BY <1>1
<1>12. /\ FirstSequence(x) = q[1].sequence
       /\ LastSequence(x) = q[Window].sequence
  BY <1>2, <1>10 DEF FirstSequence, LastSequence
<1>13. q[1].sequence = x.mseq /\ q[Window].sequence = x.mseq + Window - 1
  BY <1>1, <1>3, <1>11
<1> QED BY <1>2, <1>3, <1>4, <1>6, <1>7, <1>8, <1>10, <1>12, <1>13

\* The segment a playlist has under a number.
LEMMA AtIs ==
    ASSUME NEW x, InLine(x), NEW s \in Segments(x)
    PROVE  At(x, s.sequence) = s
BY LineIs DEF At

\* What is downloaded.
LEMMA PlaylistIs ==
    ASSUME OriginOK, NEW o \in {0, 1}
    PROVE  Playlist(o) \in Snapshots /\ InLine(Playlist(o))
<1>1. /\ Window \in Nat \ {0} /\ PdtTolerance \in Nat
      /\ origin.epoch \in Nat /\ origin.first \in Nat /\ origin.discontinuity \in Nat
  BY TimelineAssumption, DeltaAssumption DEF OriginOK
<1>2. ASSUME NEW n \in Nat
      PROVE  Published(n) \in PublishedSegments /\ Published(n).sequence = n
  <2>1. PICK edit : edit = IF n = origin.first + Window - 1 THEN origin.edit ELSE "none"
    OBVIOUS
  <2>2. PICK d, p, i, e, u :
           /\ d = origin.discontinuity + IF edit = "cut" THEN 1 ELSE 0
           /\ p = 10 * n + IF edit = "drift" THEN PdtTolerance ELSE 0
           /\ i = [uri |-> [path |-> IF edit = "init" THEN "init2" ELSE "init",
                            token |-> "a"],
                   byteRange |-> None]
           /\ e = IF edit = "key"
                  THEN [method |-> "AES", keyUri |-> None, iv |-> None,
                        keyFormat |-> None]
                  ELSE None
           /\ u = [path |-> <<origin.epoch, n, edit = "media">>,
                   token |-> IF edit = "token" THEN "b" ELSE "a"]
    OBVIOUS
  <2>3. Published(n) = [sequence |-> n, dseq |-> d, pdt |-> p, duration |-> 10,
                        byteRange |-> None, init |-> i, encryption |-> e,
                        uri |-> u, gap |-> (edit = "gap")]
    BY <2>1, <2>2 DEF Published
  <2>4. d \in Nat /\ p \in Nat
    BY <1>1, <2>2
  <2>5. i \in [uri : [path : {"init", "init2"}, token : {"a"}], byteRange : {None}]
    BY <2>2
  <2>6. e \in {None} \cup [method : {"AES"}, keyUri : {None}, iv : {None},
                           keyFormat : {None}]
    BY <2>2
  <2>7. u \in [path : Nat \X Nat \X BOOLEAN, token : {"a", "b"}]
    BY <1>1, <2>2
  <2>8. (edit = "gap") \in BOOLEAN
    OBVIOUS
  <2> QED BY <2>3, <2>4, <2>5, <2>6, <2>7, <2>8 DEF PublishedSegments
<1>3. PICK q : q = [i \in 1 .. Window |-> Published(origin.first + i - 1)]
  OBVIOUS
<1>4. \A i \in 1 .. Window : origin.first + i - 1 \in Nat
  BY <1>1
<1>5. /\ q \in [1 .. Window -> PublishedSegments]
      /\ q = [i \in 1 .. Window |-> q[i]]
      /\ \A i \in 1 .. Window : q[i].sequence = origin.first + i - 1
  BY <1>2, <1>3, <1>4
<1>6. Playlist(o) = [variant |-> "video", observedAt |-> o, mseq |-> origin.first,
                     discontinuity |-> origin.discontinuity, segments |-> q]
  BY <1>3 DEF Playlist
<1> QED BY <1>1, <1>5, <1>6 DEF Snapshots, InLine

\* What is left of a session, whoever goes on.
LEMMA HeldStays ==
    ASSUME NEW t, NEW u, NEW a, NEW g \in Nat, NEW h \in Nat, g <= h,
           HeldBy(t, u, a, g)
    PROVE  HeldBy(t, u, a, h)
<1>1. t.read \in Nat /\ t.read <= h
  BY DEF HeldBy
<1>2. t.local \in Nat \cup {None} /\ (t.local # None => t.local <= h)
  BY DEF HeldBy
<1> QED BY <1>1, <1>2 DEF HeldBy

\* A worker that changes nothing but its own session, and perhaps lets the
\* persisted generation grow, keeps the invariant if it holds of what it made.
LEMMA OneMoves ==
    ASSUME TimelineHeld, NEW w \in Workers, NEW t, NEW u, NEW a,
           UNCHANGED origin,
           tracker' = [tracker EXCEPT ![w] = t],
           used' = [used EXCEPT ![w] = u],
           accounted' = [accounted EXCEPT ![w] = a],
           generation' \in Nat, generation <= generation',
           HeldBy(t, u, a, generation')
    PROVE  TimelineHeld'
<1>1. OriginOK'
  BY DEF TimelineHeld, OriginOK
<1>2. /\ tracker' = [v \in Workers |-> tracker'[v]]
      /\ used' = [v \in Workers |-> used'[v]]
      /\ accounted' = [v \in Workers |-> accounted'[v]]
  BY DEF TimelineHeld
<1>3. ASSUME NEW v \in Workers
      PROVE  HeldBy(tracker'[v], used'[v], accounted'[v], generation')
  <2>1. CASE v = w
    BY <2>1 DEF TimelineHeld
  <2>2. CASE v # w
    <3>1. /\ tracker'[v] = tracker[v] /\ used'[v] = used[v]
          /\ accounted'[v] = accounted[v]
      BY <2>2 DEF TimelineHeld
    <3>2. HeldBy(tracker[v], used[v], accounted[v], generation')
      BY HeldStays DEF TimelineHeld
    <3> QED BY <3>1, <3>2
  <2> QED BY <2>1, <2>2
<1> QED BY <1>1, <1>2, <1>3 DEF TimelineHeld, HeldBy

-----------------------------------------------------------------------------
(* Lemmas about one observation.                                           *)

\* Numbers without a gap, with an interval that begins among them.
LEMMA NoGap ==
    ASSUME NEW a, a \subseteq Nat, \A i, j \in a : i .. j \subseteq a,
           NEW p \in a, NEW r \in Int
    PROVE  \A i, j \in a \cup (p .. r) : i .. j \subseteq a \cup (p .. r)
<1> SUFFICES ASSUME NEW i \in a \cup (p .. r), NEW j \in a \cup (p .. r),
                    NEW m \in i .. j
             PROVE  m \in a \cup (p .. r)
  OBVIOUS
<1>1. p \in Nat /\ i \in Int /\ j \in Int /\ m \in Int /\ i <= m /\ m <= j
  OBVIOUS
<1>2. CASE m < p
  <2>1. i \in a /\ m \in i .. p
    BY <1>1, <1>2
  <2> QED BY <2>1
<1>3. CASE p <= m /\ m <= r
  BY <1>1, <1>3
<1>4. CASE p <= m /\ r < m
  <2>1. j \in a /\ m \in p .. j
    BY <1>1, <1>4
  <2> QED BY <2>1
<1> QED BY <1>1, <1>2, <1>3, <1>4

\* What compare returns.
LEMMA CompareIs ==
    ASSUME NEW old, InLine(old), NEW new \in Snapshots, InLine(new),
           NEW d, d = Compare(old, new)
    PROVE  /\ d \in Deltas
           /\ d.reset <=> TimelineReset(old, new)
           /\ d.reset => d.missed = {}
           /\ ~ d.reset => /\ old.mseq <= new.mseq
                           /\ d.missed = (old.mseq + Window) .. (new.mseq - 1)
           /\ d.new \subseteq Segments(new) /\ d.replaced \subseteq Segments(new)
           /\ d.retained \subseteq Segments(new)
           /\ ~ d.reset => \A s \in Segments(new) :
                 /\ s \in d.new \/ s.sequence \in Sequences(Segments(old))
                 /\ s \in d.retained <=>
                       /\ s.sequence \in Sequences(Segments(old))
                       /\ Equivalent(At(old, s.sequence), s)
<1>1. /\ old.mseq \in Nat /\ new.mseq \in Nat /\ Window \in Nat \ {0}
      /\ old.segments # <<>> /\ new.segments # <<>>
      /\ LastSequence(old) = old.mseq + Window - 1
      /\ FirstSequence(new) = new.mseq
  BY LineIs, TimelineAssumption
<1>2. Missed(old, new) = (old.mseq + Window) .. (new.mseq - 1)
  <2>1. Missed(old, new) = (old.mseq + Window - 1 + 1) .. (new.mseq - 1)
    BY <1>1 DEF Missed
  <2>2. old.mseq + Window - 1 + 1 = old.mseq + Window
    BY <1>1
  <2> QED BY <2>1, <2>2
<1>3. Missed(old, new) \subseteq Nat
  BY <1>1, <1>2
<1>4. Segments(new) \subseteq PublishedSegments
  <2>1. \A i \in 1 .. Window : new.segments[i] \in PublishedSegments
    BY DEF Snapshots
  <2> QED BY <2>1, LineIs
<1> DEFINE reset == TimelineReset(old, new)
           known == IF reset THEN {}
                    ELSE {s \in Segments(new) :
                             s.sequence \in Sequences(Segments(old))}
           retained == {s \in known : Equivalent(At(old, s.sequence), s)}
           missed == IF reset THEN {} ELSE Missed(old, new)
<1>5. d = [reset |-> reset, new |-> Segments(new) \ known, retained |-> retained,
           replaced |-> known \ retained, missed |-> missed]
  BY DEF Compare
<1>6. /\ reset \in BOOLEAN /\ known \subseteq Segments(new)
      /\ retained \subseteq known /\ missed \subseteq Nat
  BY <1>3 DEF TimelineReset
<1>7. ~ reset => old.mseq <= new.mseq
  BY <1>1 DEF TimelineReset
<1>8. ~ reset => \A s \in Segments(new) :
                    s \in known <=> s.sequence \in Sequences(Segments(old))
  OBVIOUS
<1>9. \A s : s \in retained <=> s \in known /\ Equivalent(At(old, s.sequence), s)
  OBVIOUS
<1>10. (reset => missed = {}) /\ (~ reset => missed = Missed(old, new))
  OBVIOUS
<1>11. reset <=> TimelineReset(old, new)
  OBVIOUS
<1> HIDE DEF reset, known, retained, missed
<1>12. d \in Deltas
  BY <1>4, <1>5, <1>6 DEF Deltas
<1>13. /\ d.reset = reset /\ d.new = Segments(new) \ known
       /\ d.retained = retained /\ d.replaced = known \ retained
       /\ d.missed = missed
  BY <1>5
<1> QED BY <1>2, <1>6, <1>7, <1>8, <1>9, <1>10, <1>11, <1>12, <1>13

\* The snapshot an observation keeps: as it was read, each segment with the
\* generation and its revision.
LEMMA EnrichedIs ==
    ASSUME NEW sn \in Snapshots, InLine(sn), NEW old, NEW d, NEW g,
           NEW x, x = Enriched(sn, old, d, g)
    PROVE  /\ InLine(x)
           /\ x.mseq = sn.mseq /\ x.discontinuity = sn.discontinuity
           /\ \A i \in 1 .. Window :
                 LET s == sn.segments[i]
                     c == x.segments[i]
                 IN  /\ c.generation = g
                     /\ c.sequence = s.sequence
                     /\ \A p : Equivalent(p, c) <=> Equivalent(p, s)
                     /\ d # None /\ ~ d.reset /\ s \in d.retained
                          /\ At(old, s.sequence).generation = g
                        => c.revision = At(old, s.sequence).revision
<1> DEFINE Kept(s) == /\ d # None
                      /\ ~ d.reset
                      /\ s \in d.retained
                      /\ At(old, s.sequence).generation = g
           Revision(s) == IF Kept(s) THEN At(old, s.sequence).revision
                          ELSE MediaRevision(s)
           Stamp(s) == [sequence |-> s.sequence, dseq |-> s.dseq, pdt |-> s.pdt,
                        duration |-> s.duration, byteRange |-> s.byteRange,
                        init |-> s.init, encryption |-> s.encryption,
                        uri |-> s.uri, gap |-> s.gap,
                        generation |-> g, revision |-> Revision(s)]
           q == [i \in DOMAIN sn.segments |-> Stamp(sn.segments[i])]
<1>1. x = [sn EXCEPT !.segments = q]
  BY DEF Enriched
<1>2. DOMAIN sn.segments = 1 .. Window
  BY LineIs
<1>3. \A i \in 1 .. Window :
         LET s == sn.segments[i]
             c == q[i]
         IN  /\ c.generation = g /\ c.sequence = s.sequence
             /\ c.dseq = s.dseq /\ c.pdt = s.pdt /\ c.duration = s.duration
             /\ c.byteRange = s.byteRange /\ c.init = s.init
             /\ c.encryption = s.encryption /\ c.uri = s.uri /\ c.gap = s.gap
             /\ Kept(s) => c.revision = At(old, s.sequence).revision
  BY <1>2
<1>4. q = [i \in 1 .. Window |-> q[i]]
  BY <1>2
<1> HIDE DEF q, Stamp, Revision
<1>5. /\ x.segments = q /\ x.mseq = sn.mseq
      /\ x.discontinuity = sn.discontinuity
  BY <1>1 DEF Snapshots
<1>6. InLine(x)
  BY <1>3, <1>4, <1>5 DEF InLine
<1>7. ASSUME NEW i \in 1 .. Window, NEW p
      PROVE  Equivalent(p, q[i]) <=> Equivalent(p, sn.segments[i])
  BY <1>3 DEF Equivalent
<1> QED BY <1>3, <1>5, <1>6, <1>7

\* What an observation under generation g leaves of the session, if g is not
\* older than the one it had, and newer when the numbers start over.
LEMMA ObserveHolds ==
    ASSUME TimelineHeld, NEW w \in Workers, tracker[w].pc = "read", UNCHANGED origin,
           NEW g \in Nat, Observe(w, g), Local(w) <= g,
           generation' \in Nat, generation <= generation', g <= generation',
           ResetSeen(w) => Local(w) < g,
           tracker[w].read > Local(w) => Local(w) < g
    PROVE  /\ TimelineHeld'
           /\ tracker'[w].local = g
           /\ tracker[w].previous # None =>
                 LET old == tracker[w].previous
                     new == tracker'[w].previous
                 IN  /\ TimelineReset(old, new) => ResetSeen(w)
                     /\ \A p \in Segments(old), c \in Segments(new) :
                           /\ p.sequence = c.sequence /\ Equivalent(p, c)
                           /\ p.generation = c.generation
                           => p.revision = c.revision
<1> DEFINE t == tracker[w]
           sn == tracker[w].snapshot
           old == tracker[w].previous
           n == sn.mseq
           a == accounted[w]
           u == used[w]
<1>1. PICK d, x, chosen :
         /\ d = DeltaOf(w)
         /\ x = Enriched(sn, old, d, g)
         /\ chosen = AdmissionSegments(x, d)
         /\ LET fresh == d = None \/ d.reset
                outside == IF fresh THEN Segments(x) \ chosen ELSE {}
                missed == IF d = None THEN {} ELSE d.missed
                reckoned == Sequences(chosen \cup outside) \cup missed
            IN  /\ tracker' = [tracker EXCEPT
                      ![w] = [pc |-> "idle", previous |-> x, local |-> g,
                              snapshot |-> None, read |-> 0]]
                /\ used' = [used EXCEPT ![w] = @ \cup {s.generation : s \in chosen}]
                /\ accounted' = [accounted EXCEPT
                      ![w] = IF fresh THEN reckoned ELSE @ \cup reckoned]
  BY DEF Observe
<1>2. /\ sn \in Snapshots /\ InLine(sn) /\ n \in Nat
      /\ t.read \in Nat /\ t.local \in Nat \cup {None} /\ Local(w) \in Nat
      /\ Window \in Nat \ {0}
  <2>1. HeldBy(tracker[w], used[w], accounted[w], generation)
    BY DEF TimelineHeld
  <2>2. sn \in Snapshots /\ InLine(sn) /\ t.read \in Nat /\ t.local \in Nat \cup {None}
    BY <2>1 DEF HeldBy
  <2> QED BY <2>2, TimelineAssumption DEF Local, InLine
<1>3. /\ u \subseteq Nat /\ \A v \in u : v <= Local(w)
      /\ a \subseteq Nat
      /\ old # None =>
           /\ InLine(old) /\ Local(w) = t.local
           /\ \A s \in Segments(old) : s.generation = Local(w)
           /\ Sequences(Segments(old)) \subseteq a
           /\ \A i, j \in a : i .. j \subseteq a
  <2>1. HeldBy(t, u, a, generation)
    BY DEF TimelineHeld
  <2>2. u \subseteq Nat /\ \A v \in u : v <= Local(w)
    BY <2>1 DEF HeldBy, Local
  <2>3. ASSUME old # None
        PROVE  /\ InLine(old) /\ Local(w) = t.local
               /\ \A s \in Segments(old) : s.generation = Local(w)
               /\ Sequences(Segments(old)) \subseteq a
               /\ \A i, j \in a : i .. j \subseteq a
    <3>1. /\ InLine(old) /\ t.local # None
          /\ \A i \in 1 .. Window : old.segments[i].generation = t.local
          /\ Sequences(Segments(old)) \subseteq a
          /\ \A i, j \in a : i .. j \subseteq a
      BY <2>1, <2>3 DEF HeldBy
    <3>2. Local(w) = t.local
      BY <3>1 DEF Local
    <3>3. \A s \in Segments(old) : s.generation = t.local
      BY <3>1, LineIs
    <3> QED BY <3>1, <3>2, <3>3
  <2> QED BY <2>1, <2>2, <2>3 DEF HeldBy
<1>4. /\ InLine(x) /\ x.mseq = n /\ x.discontinuity = sn.discontinuity
      /\ \A i \in 1 .. Window :
            LET s == sn.segments[i]
                c == x.segments[i]
            IN  /\ c.generation = g
                /\ c.sequence = s.sequence
                /\ \A p : Equivalent(p, c) <=> Equivalent(p, s)
                /\ d # None /\ ~ d.reset /\ s \in d.retained
                     /\ At(old, s.sequence).generation = g
                   => c.revision = At(old, s.sequence).revision
  <2>1. x = Enriched(sn, old, d, g)
    BY <1>1
  <2>2. sn \in Snapshots /\ InLine(sn) /\ n = sn.mseq
    BY <1>2
  <2> HIDE DEF sn, old, n
  <2>3. /\ InLine(x)
        /\ x.mseq = sn.mseq /\ x.discontinuity = sn.discontinuity
        /\ \A i \in 1 .. Window :
              LET s == sn.segments[i]
                  c == x.segments[i]
              IN  /\ c.generation = g
                  /\ c.sequence = s.sequence
                  /\ \A p : Equivalent(p, c) <=> Equivalent(p, s)
                  /\ d # None /\ ~ d.reset /\ s \in d.retained
                       /\ At(old, s.sequence).generation = g
                     => c.revision = At(old, s.sequence).revision
    BY <2>1, <2>2, EnrichedIs
  <2> QED BY <2>2, <2>3
<1>5. /\ Sequences(Segments(x)) = n .. n + Window - 1
      /\ \A s \in Segments(x) : s.generation = g
      /\ Sequences(Segments(sn)) = n .. n + Window - 1
  BY <1>2, <1>4, LineIs
\* What compare has said, if there was something to compare with.
<1>6. old # None =>
        /\ d \in Deltas /\ d # None
        /\ d.missed \subseteq Nat
        /\ d.missed = {} \/ d.missed = (old.mseq + Window) .. (n - 1)
        /\ ~ d.reset =>
              /\ d = Compare(old, sn) /\ ~ TimelineReset(old, sn)
              /\ d.missed = (old.mseq + Window) .. (n - 1)
        /\ d.reset => Local(w) < g
  <2> SUFFICES ASSUME old # None
               PROVE  /\ d \in Deltas /\ d # None
                      /\ d.missed \subseteq Nat
                      /\ d.missed = {} \/ d.missed = (old.mseq + Window) .. (n - 1)
                      /\ ~ d.reset =>
                            /\ d = Compare(old, sn) /\ ~ TimelineReset(old, sn)
                            /\ d.missed = (old.mseq + Window) .. (n - 1)
                      /\ d.reset => Local(w) < g
    OBVIOUS
  <2>1. PICK c : c = Compare(old, sn)
    OBVIOUS
  <2>2. /\ c \in Deltas
        /\ c.reset <=> TimelineReset(old, sn)
        /\ c.reset => c.missed = {}
        /\ ~ c.reset => c.missed = (old.mseq + Window) .. (n - 1)
    BY <1>2, <1>3, <2>1, CompareIs
  <2>3. c.reset => Local(w) < g
    BY <2>2 DEF ResetSeen
  <2>4. d = IF ~ c.reset /\ t.read > Local(w)
            THEN GenerationAdvanced(c, sn) ELSE c
    BY <1>1, <2>1 DEF DeltaOf
  <2>5. CASE ~ c.reset /\ t.read > Local(w)
    <3>1. d = [c EXCEPT !.reset = TRUE, !.new = Segments(sn),
                        !.retained = {}, !.replaced = {}]
      BY <2>4, <2>5 DEF GenerationAdvanced
    <3>2. Segments(sn) \subseteq PublishedSegments
      <4>1. \A i \in 1 .. Window : sn.segments[i] \in PublishedSegments
        BY <1>2 DEF Snapshots
      <4> QED BY <1>2, <4>1, LineIs
    <3>3. d \in Deltas /\ d.reset = TRUE /\ d.missed = c.missed
      BY <2>2, <3>1, <3>2 DEF Deltas
    <3>4. c.missed \subseteq Nat
      BY <2>2 DEF Deltas
    <3> QED BY <2>2, <2>5, <3>3, <3>4, NoneAssumption
  <2>6. CASE ~ (~ c.reset /\ t.read > Local(w))
    <3>1. d = c
      BY <2>4, <2>6
    <3>2. c.missed \subseteq Nat
      BY <2>2 DEF Deltas
    <3> QED BY <2>1, <2>2, <2>3, <3>1, <3>2, NoneAssumption
  <2> QED BY <2>5, <2>6
<1>7. old = None => d = None
  BY <1>1 DEF DeltaOf
<1>8. chosen \subseteq Segments(x)
  BY <1>1 DEF AdmissionSegments, StartupScope
<1> DEFINE b == accounted'[w]
           v == used'[w]
           t2 == [pc |-> "idle", previous |-> x, local |-> g,
                  snapshot |-> None, read |-> 0]
<1>9. /\ tracker' = [tracker EXCEPT ![w] = t2]
      /\ used' = [used EXCEPT ![w] = v]
      /\ accounted' = [accounted EXCEPT ![w] = b]
      /\ v = u \cup {s.generation : s \in chosen}
      /\ tracker'[w] = t2
  BY <1>1 DEF TimelineHeld
\* All numbers of the window, and of what slid past, are accounted for.
<1>10. /\ Sequences(Segments(x)) \subseteq b /\ b \subseteq Nat
       /\ \A i, j \in b : i .. j \subseteq b
  <2>1. CASE d = None
    <3>1. b = Sequences(chosen \cup (Segments(x) \ chosen)) \cup {}
      BY <1>1, <2>1 DEF TimelineHeld
    <3>2. b = n .. n + Window - 1
      BY <1>5, <1>8, <3>1 DEF Sequences
    <3> QED BY SMTT(30), <1>2, <1>5, <3>2
  <2>2. CASE d # None /\ d.reset
    <3>1. b = Sequences(chosen \cup (Segments(x) \ chosen)) \cup d.missed
      BY <1>1, <2>2 DEF TimelineHeld
    <3>2. chosen \cup (Segments(x) \ chosen) = Segments(x)
      BY <1>8
    <3>3. b = (n .. n + Window - 1) \cup d.missed
      BY <1>5, <3>1, <3>2
    <3>4. old # None /\ old.mseq \in Nat
      BY <1>3, <1>7, <2>2, LineIs
    <3>5. PICK k, r, p : k = n /\ r = n + Window - 1 /\ p = old.mseq + Window
      OBVIOUS
    <3>6. k \in Nat /\ r \in Nat /\ p \in Nat /\ k <= r
      BY <1>2, <3>4, <3>5
    <3>7. Sequences(Segments(x)) = k .. r /\ b = (k .. r) \cup d.missed
      BY <1>5, <3>3, <3>5
    <3> HIDE DEF b
    <3>8. CASE d.missed = {}
      <4>1. b = k .. r
        BY <3>7, <3>8
      <4> QED BY <3>6, <3>7, <4>1
    <3>9. CASE d.missed = p .. (k - 1)
      <4>1. PICK l : l = IF p <= k - 1 THEN p ELSE k
        OBVIOUS
      <4>2. l \in Nat /\ b = l .. r /\ k .. r \subseteq l .. r
        BY <3>6, <3>7, <3>9, <4>1
      <4> QED BY <3>6, <3>7, <4>2
    <3> QED BY <1>6, <3>4, <3>5, <3>8, <3>9
  <2>3. CASE d # None /\ ~ d.reset
    <3>1. b = a \cup Sequences(chosen) \cup d.missed
      <4>1. b = a \cup (Sequences(chosen \cup {}) \cup d.missed)
        BY <1>1, <2>3 DEF TimelineHeld
      <4>2. chosen \cup {} = chosen
        OBVIOUS
      <4> QED BY <4>1, <4>2
    <3>2. /\ old # None /\ InLine(old) /\ d = Compare(old, sn)
          /\ d.missed = (old.mseq + Window) .. (n - 1)
      BY <1>3, <1>6, <1>7, <2>3
    <3>3. PICK p, k, q, r : /\ p = old.mseq /\ k = n
                            /\ q = p + Window /\ r = k + Window - 1
      OBVIOUS
    <3>4. /\ p <= k
          /\ \A s \in Segments(sn) :
                s \in d.new \/ s.sequence \in Sequences(Segments(old))
      <4> HIDE DEF sn, old
      <4> QED BY <1>2, <2>3, <3>2, <3>3, CompareIs DEF n
    <3>5. /\ p \in Nat /\ k \in Nat /\ q \in Nat /\ r \in Nat
          /\ p <= k /\ k <= r /\ p < q /\ q <= r + 1
          /\ Sequences(Segments(old)) = p .. q - 1
      <4>1. p \in Nat /\ Sequences(Segments(old)) = p .. p + Window - 1
        BY <3>2, <3>3, LineIs
      <4>2. k \in Nat /\ Window \in Nat \ {0} /\ p <= k
        BY <1>2, <3>3, <3>4
      <4>3. q = p + Window /\ r = k + Window - 1
        BY <3>3
      <4>4. p + Window - 1 = q - 1
        BY <4>1, <4>2, <4>3
      <4> QED BY <4>1, <4>2, <4>3, <4>4, SMTT(30)
    <3>6. /\ d.missed = q .. k - 1
          /\ Sequences(Segments(x)) = k .. r /\ Sequences(Segments(sn)) = k .. r
      BY <1>5, <3>2, <3>3
    <3>7. p .. q - 1 \subseteq a
      BY <1>3, <3>2, <3>5
    <3>8. p \in a
      BY <3>5, <3>7
    <3>9. ASSUME NEW m \in k .. r PROVE m \in b
      <4>1. PICK s \in Segments(sn) : s.sequence = m
        BY <3>6, <3>9 DEF Sequences
      <4>2. CASE s \in d.new
        <5>1. m \in Sequences(d.new \cup d.replaced)
          BY <4>1, <4>2 DEF Sequences
        <5>2. chosen = {c \in Segments(x) :
                           c.sequence \in Sequences(d.new \cup d.replaced)}
          BY <1>1, <2>3 DEF AdmissionSegments
        <5>3. PICK c \in Segments(x) : c.sequence = m
          BY <3>6, <3>9 DEF Sequences
        <5>4. m \in Sequences(chosen)
          BY <5>1, <5>2, <5>3 DEF Sequences
        <5> QED BY <3>1, <5>4
      <4>3. CASE s.sequence \in Sequences(Segments(old))
        BY <1>3, <3>1, <3>2, <4>1, <4>3
      <4> QED BY <3>4, <4>2, <4>3
    <3>10. Sequences(chosen) \subseteq k .. r
      BY <1>8, <3>6 DEF Sequences
    <3> HIDE DEF b
    <3>11. b = a \cup (p .. r)
      <4>1. \A m \in p .. r : m \in p .. q - 1 \/ m \in q .. k - 1 \/ m \in k .. r
        BY <3>5
      <4>2. k .. r \subseteq p .. r /\ q .. k - 1 \subseteq p .. r
        BY <3>5
      <4>3. b \subseteq a \cup (p .. r)
        BY <3>1, <3>6, <3>10, <4>2
      <4>4. p .. r \subseteq b
        BY <3>1, <3>6, <3>7, <3>9, <4>1
      <4> QED BY <3>1, <4>3, <4>4
    <3>12. k .. r \subseteq p .. r /\ p .. r \subseteq Nat /\ r \in Int
      BY <3>5
    <3>13. \A i, j \in a \cup (p .. r) : i .. j \subseteq a \cup (p .. r)
      BY <1>3, <3>2, <3>8, <3>12, NoGap
    <3> QED BY <1>3, <3>6, <3>11, <3>12, <3>13
  <2> QED BY <2>1, <2>2, <2>3
<1>11. v \subseteq Nat /\ \A e \in v : e <= g
  <2>1. \A e \in v : e \in u \/ e = g
    BY <1>5, <1>8, <1>9
  <2> QED BY <1>2, <1>3, <2>1
<1>12. \A i \in 1 .. Window : x.segments[i].generation = g
  BY <1>4
<1>13. g # None /\ t2.previous = x /\ t2.local = g
  BY NoneAssumption
<1>14. HeldBy(t2, v, b, generation')
  <2>1. /\ t2 = [pc |-> t2.pc, previous |-> t2.previous, local |-> t2.local,
                 snapshot |-> t2.snapshot, read |-> t2.read]
        /\ t2.pc = "idle" /\ t2.read = 0
    OBVIOUS
  <2> HIDE DEF t2, v, b
  <2> QED BY <1>4, <1>10, <1>11, <1>12, <1>13, <2>1 DEF HeldBy
<1>15. TimelineHeld'
  <2> HIDE DEF t2, v, b
  <2> QED BY <1>9, <1>14, OneMoves
<1>16. ASSUME old # None, TimelineReset(old, x) PROVE ResetSeen(w)
  <2>1. TimelineReset(old, sn)
    BY <1>4, <1>16 DEF TimelineReset
  <2> QED BY <1>16, <2>1 DEF ResetSeen
<1>17. ASSUME old # None, NEW p \in Segments(old), NEW c \in Segments(x),
              p.sequence = c.sequence, Equivalent(p, c),
              p.generation = c.generation
       PROVE  p.revision = c.revision
  <2>1. g = Local(w)
    BY <1>3, <1>5, <1>17
  <2>2. ~ d.reset /\ d # None /\ d = Compare(old, sn)
    BY <1>2, <1>6, <1>17, <2>1
  <2>3. PICK i \in 1 .. Window : c = x.segments[i]
    BY <1>4, LineIs
  <2>4. PICK s : s = sn.segments[i]
    OBVIOUS
  <2>5. s \in Segments(sn) /\ c.sequence = s.sequence /\ Equivalent(p, s)
    BY <1>2, <1>4, <1>17, <2>3, <2>4, LineIs
  <2>6. s.sequence \in Sequences(Segments(old))
    BY <1>17, <2>5 DEF Sequences
  <2>7. At(old, s.sequence) = p
    BY <1>3, <1>17, <2>5, AtIs
  <2>8. s \in d.retained
    BY <1>2, <1>3, <1>17, <2>2, <2>5, <2>6, <2>7, CompareIs
  <2>9. p.generation = g
    BY <1>5, <1>17
  <2> QED BY <1>4, <2>2, <2>3, <2>4, <2>7, <2>8, <2>9
<1> HIDE DEF t2, v, b
<1>18. tracker'[w].local = g /\ tracker'[w].previous = x
  BY <1>9, <1>13
<1> QED BY <1>15, <1>16, <1>17, <1>18

-----------------------------------------------------------------------------
(* The steps.                                                              *)

\* What ResetSeparates and NamesFollow say of one worker.
Separates(w) ==
    /\ tracker[w].pc = "read" /\ ResetSeen(w)
    /\ tracker'[w].previous \notin {tracker[w].previous, None}
    => \A old \in used[w] : old < tracker'[w].local

Follows(w) ==
    tracker'[w].previous \notin {tracker[w].previous, None} =>
       LET old == tracker[w].previous
           new == tracker'[w].previous
       IN  /\ tracker'[w].local >= tracker[w].read
           /\ old # None =>
                 /\ TimelineReset(old, new) => tracker'[w].local = generation'
                 /\ \A p \in Segments(old), c \in Segments(new) :
                       /\ p.sequence = c.sequence /\ Equivalent(p, c)
                       /\ p.generation = c.generation
                       => p.revision = c.revision

\* What a step of worker w must do: keep the invariant, and name things well.
Proceeds(w) == TimelineHeld' /\ Separates(w) /\ Follows(w)

\* A worker whose last observation stays, or is forgotten, names nothing.
LEMMA QuietFollows ==
    ASSUME NEW w, tracker'[w].previous \in {tracker[w].previous, None}
    PROVE  Separates(w) /\ Follows(w)
BY DEF Separates, Follows

\* A step in which worker w puts t in place of its session and its last
\* observation stays or is forgotten.
LEMMA QuietMoves ==
    ASSUME TimelineHeld, NEW w \in Workers, NEW t, NEW u, NEW a,
           UNCHANGED origin,
           tracker' = [tracker EXCEPT ![w] = t],
           used' = [used EXCEPT ![w] = u],
           accounted' = [accounted EXCEPT ![w] = a],
           generation' \in Nat, generation <= generation',
           HeldBy(t, u, a, generation'),
           t.previous \in {tracker[w].previous, None}
    PROVE  Proceeds(w)
<1>1. TimelineHeld'
  BY OneMoves
<1>2. tracker'[w] = t
  BY DEF TimelineHeld
<1> QED BY <1>1, <1>2, QuietFollows DEF Proceeds

\* What a worker that begins, or begins anew, holds.
LEMMA NothingHeld ==
    ASSUME NEW pc \in {"down", "idle"}, NEW t, NEW g \in Nat,
           t = [pc |-> pc, previous |-> None, local |-> None,
                snapshot |-> None, read |-> 0]
    PROVE  HeldBy(t, {}, {}, g) /\ t.previous = None
<1>1. /\ t.pc = pc /\ t.previous = None /\ t.local = None
      /\ t.snapshot = None /\ t.read = 0
  OBVIOUS
<1>2. t = [pc |-> t.pc, previous |-> t.previous, local |-> t.local,
           snapshot |-> t.snapshot, read |-> t.read]
  BY <1>1
<1> QED BY <1>1, <1>2 DEF HeldBy

\* Initially no session has observed anything.
LEMMA TimelineStarts == TimelineInit => TimelineHeld
<1> SUFFICES ASSUME TimelineInit PROVE TimelineHeld
  OBVIOUS
<1>1. OriginOK /\ generation = 0
  <2>1. /\ origin.epoch = 0 /\ origin.first = 1 /\ origin.discontinuity = 1
        /\ origin.edit = "none"
    BY DEF TimelineInit
  <2> QED BY <2>1 DEF TimelineInit, OriginOK
<1>2. ASSUME NEW w \in Workers
      PROVE  HeldBy(tracker[w], used[w], accounted[w], generation)
  <2>1. tracker[w] = [pc |-> "idle", previous |-> None, local |-> None,
                      snapshot |-> None, read |-> 0]
    BY DEF TimelineInit, NoSession
  <2>2. used[w] = {} /\ accounted[w] = {}
    BY DEF TimelineInit
  <2> QED BY <1>1, <2>1, <2>2, NothingHeld
<1>3. /\ tracker = [w \in Workers |-> tracker[w]]
      /\ used = [w \in Workers |-> used[w]]
      /\ accounted = [w \in Workers |-> accounted[w]]
  BY DEF TimelineInit
<1> QED BY <1>1, <1>2, <1>3 DEF TimelineHeld

\* The origin moves: what the workers hold does not depend on it.
LEMMA OriginSteps ==
    ASSUME TimelineHeld, Slide \/ Restart \/ Republish
    PROVE  TimelineHeld' /\ UNCHANGED tracker
<1>1. UNCHANGED <<generation, tracker, used, accounted>>
  BY DEF Slide, Restart, Republish
<1>2. OriginOK
  BY DEF TimelineHeld
<1>3. OriginOK'
  <2>1. CASE Slide
    <3>1. origin' = [epoch |-> origin.epoch, first |-> origin.first + 1,
                     discontinuity |-> origin.discontinuity, edit |-> "none"]
      BY <1>2, <2>1 DEF Slide, OriginOK
    <3> QED BY <1>2, <3>1 DEF OriginOK
  <2>2. CASE Restart
    <3>1. PICK counters \in Restarts :
             origin' = [epoch |-> origin.epoch + 1, first |-> counters.first,
                        discontinuity |-> counters.discontinuity, edit |-> "none"]
      BY <2>2 DEF Restart
    <3>2. counters.first \in Nat /\ counters.discontinuity \in Nat
      BY TimelineAssumption
    <3> QED BY <1>2, <3>1, <3>2 DEF OriginOK
  <2>3. CASE Republish
    <3>1. PICK edit : origin' = [epoch |-> origin.epoch, first |-> origin.first,
                                 discontinuity |-> origin.discontinuity,
                                 edit |-> edit]
      BY <1>2, <2>3 DEF Republish, OriginOK
    <3> QED BY <1>2, <3>1 DEF OriginOK
  <2> QED BY <2>1, <2>2, <2>3
<1> QED BY <1>1, <1>3 DEF TimelineHeld, HeldBy

\* A session begins or ends, or its comparison is refused: it starts afresh.
LEMMA FreshSteps ==
    ASSUME TimelineHeld, NEW w \in Workers, Begin(w) \/ End(w) \/ Refuse(w)
    PROVE  Proceeds(w)
<1>1. UNCHANGED origin /\ generation' \in Nat /\ generation <= generation'
  BY DEF Begin, End, Refuse, TimelineHeld
<1>2. CASE Begin(w)
  <2>1. PICK t : t = [pc |-> "idle", previous |-> None, local |-> None,
                      snapshot |-> None, read |-> 0]
    OBVIOUS
  <2>2. tracker' = [tracker EXCEPT ![w] = t]
    <3>1. t = [NoSession EXCEPT !.pc = "idle"]
      BY <2>1 DEF NoSession
    <3> QED BY <1>2, <3>1 DEF Begin
  <2>3. tracker[w].pc = "down" /\ used' = used /\ accounted' = accounted
    BY <1>2 DEF Begin
  <2>4. /\ used' = [used EXCEPT ![w] = used[w]]
        /\ accounted' = [accounted EXCEPT ![w] = accounted[w]]
    BY <2>3 DEF TimelineHeld
  <2>5. HeldBy(tracker[w], used[w], accounted[w], generation)
    BY DEF TimelineHeld
  <2>6. /\ t.pc = "idle" /\ t.previous = None /\ t.local = None /\ t.read = 0
        /\ t = [pc |-> t.pc, previous |-> t.previous, local |-> t.local,
                snapshot |-> t.snapshot, read |-> t.read]
    BY <2>1
  <2>7. used[w] = {} /\ accounted[w] \subseteq Nat
    BY <2>3, <2>5 DEF HeldBy
  <2>8. HeldBy(t, used[w], accounted[w], generation')
    BY <1>1, <2>6, <2>7 DEF HeldBy
  <2> QED BY <1>1, <2>2, <2>4, <2>6, <2>8, QuietMoves
<1>3. CASE End(w) \/ Refuse(w)
  <2>1. /\ tracker' = [tracker EXCEPT ![w] = NoSession]
        /\ used' = [used EXCEPT ![w] = {}]
        /\ accounted' = [accounted EXCEPT ![w] = {}]
    BY <1>3 DEF End, Refuse
  <2>2. HeldBy(NoSession, {}, {}, generation') /\ NoSession.previous = None
    BY <1>1, NothingHeld DEF NoSession
  <2> QED BY <1>1, <2>1, <2>2, QuietMoves
<1> QED BY <1>2, <1>3

\* A poll downloads a playlist, reads the generation, or drops its cycle: the
\* session keeps its last observation.
LEMMA PollSteps ==
    ASSUME TimelineHeld, NEW w \in Workers,
           Fetch(w) \/ Read(w) \/ ReadFails(w) \/ AdvanceFails(w)
    PROVE  Proceeds(w)
<1>1. HeldBy(tracker[w], used[w], accounted[w], generation)
  BY DEF TimelineHeld
<1>2. /\ used' = [used EXCEPT ![w] = used[w]]
      /\ accounted' = [accounted EXCEPT ![w] = accounted[w]]
      /\ UNCHANGED origin
  BY DEF TimelineHeld, Fetch, Read, ReadFails, AdvanceFails
<1>3. generation \in Nat
  BY DEF TimelineHeld
<1> DEFINE t == tracker[w]
           Put(pc, snapshot, read) ==
             [pc |-> pc, previous |-> t.previous, local |-> t.local,
              snapshot |-> snapshot, read |-> read]
<1>4. t = Put(t.pc, t.snapshot, t.read) /\ t.read \in Nat /\ t.read <= generation
  BY <1>1 DEF HeldBy
<1>5. /\ \A pc, s : [t EXCEPT !.pc = pc, !.snapshot = s] = Put(pc, s, t.read)
      /\ \A pc, r : [t EXCEPT !.pc = pc, !.read = r] = Put(pc, t.snapshot, r)
  <2> SUFFICES ASSUME NEW pc, NEW s, NEW r
               PROVE  /\ [t EXCEPT !.pc = pc, !.snapshot = s] = Put(pc, s, t.read)
                      /\ [t EXCEPT !.pc = pc, !.read = r] = Put(pc, t.snapshot, r)
    OBVIOUS
  <2>1. PICK k, p, l, d, e :
           t = [pc |-> k, previous |-> p, local |-> l, snapshot |-> d, read |-> e]
    BY <1>4
  <2>2. t.previous = p /\ t.local = l /\ t.snapshot = d /\ t.read = e
    BY <2>1
  <2>3. [t EXCEPT !.pc = pc] = [pc |-> pc, previous |-> p, local |-> l,
                                snapshot |-> d, read |-> e]
    BY <2>1
  <2>4. [t EXCEPT !.pc = pc, !.snapshot = s]
          = [pc |-> pc, previous |-> p, local |-> l, snapshot |-> s, read |-> e]
    <3>1. [t EXCEPT !.pc = pc, !.snapshot = s]
            = [[t EXCEPT !.pc = pc] EXCEPT !.snapshot = s]
      OBVIOUS
    <3>2. [[pc |-> pc, previous |-> p, local |-> l, snapshot |-> d, read |-> e]
             EXCEPT !.snapshot = s]
            = [pc |-> pc, previous |-> p, local |-> l, snapshot |-> s, read |-> e]
      OBVIOUS
    <3> QED BY <2>3, <3>1, <3>2
  <2>5. [t EXCEPT !.pc = pc, !.read = r]
          = [pc |-> pc, previous |-> p, local |-> l, snapshot |-> d, read |-> r]
    <3>1. [t EXCEPT !.pc = pc, !.read = r]
            = [[t EXCEPT !.pc = pc] EXCEPT !.read = r]
      OBVIOUS
    <3>2. [[pc |-> pc, previous |-> p, local |-> l, snapshot |-> d, read |-> e]
             EXCEPT !.read = r]
            = [pc |-> pc, previous |-> p, local |-> l, snapshot |-> d, read |-> r]
      OBVIOUS
    <3> QED BY <2>3, <3>1, <3>2
  <2> QED BY <2>2, <2>4, <2>5
<1>6. ASSUME NEW pc \in {"idle", "fetched", "read"}, NEW s,
             NEW r \in Nat, NEW g \in Nat, generation <= g, r <= g, t.pc # "down",
             pc # "idle" => s \in Snapshots /\ InLine(s)
      PROVE  HeldBy(Put(pc, s, r), used[w], accounted[w], g)
  <2>1. PICK q : q = Put(pc, s, r)
    OBVIOUS
  <2>2. /\ q.pc = pc /\ q.previous = t.previous /\ q.local = t.local
        /\ q.snapshot = s /\ q.read = r
        /\ q = [pc |-> q.pc, previous |-> q.previous, local |-> q.local,
                snapshot |-> q.snapshot, read |-> q.read]
    BY <2>1
  <2>3. HeldBy(t, used[w], accounted[w], g)
    BY <1>1, <1>3, <1>6, HeldStays
  <2>4. HeldBy(q, used[w], accounted[w], g)
    BY <1>6, <2>2, <2>3 DEF HeldBy
  <2> QED BY <2>1, <2>4
<1>7. CASE Fetch(w)
  <2>1. PICK o \in {0, 1} :
           tracker' = [tracker EXCEPT ![w].pc = "fetched",
                                      ![w].snapshot = Playlist(o)]
    BY <1>7 DEF Fetch
  <2>2. Playlist(o) \in Snapshots /\ InLine(Playlist(o))
    BY PlaylistIs DEF TimelineHeld
  <2>3. PICK q : q = Put("fetched", Playlist(o), t.read)
    OBVIOUS
  <2>4. tracker' = [tracker EXCEPT ![w] = q]
    <3>1. tracker' = [tracker EXCEPT ![w] =
                        [t EXCEPT !.pc = "fetched", !.snapshot = Playlist(o)]]
      BY <2>1
    <3> QED BY <1>5, <2>3, <3>1
  <2>5. generation' = generation /\ t.pc # "down"
    BY <1>7 DEF Fetch
  <2>6. HeldBy(q, used[w], accounted[w], generation')
    BY <1>3, <1>4, <1>6, <2>2, <2>3, <2>5
  <2>7. q.previous = tracker[w].previous /\ generation' \in Nat
        /\ generation <= generation'
    BY <1>3, <2>3, <2>5
  <2> QED BY <1>2, <2>4, <2>6, <2>7, QuietMoves
<1>8. CASE Read(w)
  <2>1. PICK q : q = Put("read", t.snapshot, generation)
    OBVIOUS
  <2>2. tracker' = [tracker EXCEPT ![w] = q]
    <3>1. tracker' = [tracker EXCEPT ![w] =
                        [t EXCEPT !.pc = "read", !.read = generation]]
      BY <1>8 DEF Read
    <3> QED BY <1>5, <2>1, <3>1
  <2>3. generation' = generation /\ t.pc = "fetched"
    BY <1>8 DEF Read
  <2>4. t.snapshot \in Snapshots /\ InLine(t.snapshot)
    BY <1>1, <2>3 DEF HeldBy
  <2>5. HeldBy(q, used[w], accounted[w], generation')
    BY <1>3, <1>6, <2>1, <2>3, <2>4
  <2>6. q.previous = tracker[w].previous /\ generation' \in Nat
        /\ generation <= generation'
    BY <1>3, <2>1, <2>3
  <2> QED BY <1>2, <2>2, <2>5, <2>6, QuietMoves
<1>9. CASE ReadFails(w) \/ AdvanceFails(w)
  <2>1. PICK q : q = Put("idle", None, t.read)
    OBVIOUS
  <2>2. tracker' = [tracker EXCEPT ![w] = q]
    <3>1. tracker' = [tracker EXCEPT ![w] =
                        [t EXCEPT !.pc = "idle", !.snapshot = None]]
      BY <1>9 DEF ReadFails, AdvanceFails
    <3> QED BY <1>5, <2>1, <3>1
  <2>3. generation' \in Nat /\ generation <= generation' /\ t.pc # "down"
    BY <1>3, <1>9 DEF ReadFails, AdvanceFails, Advanced
  <2>4. t.read <= generation'
    BY <1>3, <1>4, <2>3
  <2>5. HeldBy(q, used[w], accounted[w], generation')
    BY <1>4, <1>6, <2>1, <2>3, <2>4
  <2>6. q.previous = tracker[w].previous
    BY <2>1
  <2> QED BY <1>2, <2>2, <2>3, <2>5, <2>6, QuietMoves
<1> QED BY <1>7, <1>8, <1>9

\* An observation without a reset takes the persisted generation it read, if
\* that is newer than its own.
LEMMA FollowSteps ==
    ASSUME TimelineHeld, NEW w \in Workers, Follow(w)
    PROVE  Proceeds(w)
<1>1. PICK g : g = IF tracker[w].read > Local(w) THEN tracker[w].read ELSE Local(w)
  OBVIOUS
<1>2. /\ tracker[w].pc = "read" /\ ~ ResetSeen(w)
      /\ Observe(w, g) /\ UNCHANGED <<origin, generation>>
  BY <1>1 DEF Follow
<1>3. /\ tracker[w].read \in Nat /\ tracker[w].read <= generation
      /\ Local(w) \in Nat /\ Local(w) <= generation /\ generation \in Nat
  BY DEF TimelineHeld, HeldBy, Local
<1>4. /\ g \in Nat /\ Local(w) <= g /\ g <= generation /\ tracker[w].read <= g
      /\ tracker[w].read > Local(w) => Local(w) < g
  BY <1>1, <1>3
<1>5. /\ TimelineHeld'
      /\ tracker'[w].local = g
      /\ tracker[w].previous # None =>
           LET old == tracker[w].previous
               new == tracker'[w].previous
           IN  /\ TimelineReset(old, new) => ResetSeen(w)
               /\ \A p \in Segments(old), c \in Segments(new) :
                     /\ p.sequence = c.sequence /\ Equivalent(p, c)
                     /\ p.generation = c.generation
                     => p.revision = c.revision
  <2>1. generation' \in Nat /\ generation <= generation' /\ g <= generation'
    BY <1>2, <1>3, <1>4
  <2> QED BY <1>2, <1>4, <2>1, ObserveHolds
<1>6. Separates(w)
  BY <1>2 DEF Separates
<1>7. tracker'[w].local >= tracker[w].read
  BY <1>3, <1>4, <1>5
<1>8. Follows(w)
  BY <1>2, <1>5, <1>7 DEF Follows
<1> QED BY <1>5, <1>6, <1>8 DEF Proceeds

\* An observation that saw the counters go back ends with the persisted
\* generation, which is then beyond its own: it advanced it, or another did.
LEMMA AdvanceSteps ==
    ASSUME TimelineHeld, NEW w \in Workers, Advance(w)
    PROVE  Proceeds(w)
<1>1. PICK g : g = Advanced(Local(w))
  OBVIOUS
<1>2. /\ tracker[w].pc = "read" /\ ResetSeen(w)
      /\ Observe(w, g) /\ generation' = g /\ UNCHANGED origin
  BY <1>1 DEF Advance
<1>3. /\ tracker[w].read \in Nat /\ tracker[w].read <= generation
      /\ Local(w) \in Nat /\ Local(w) <= generation /\ generation \in Nat
  BY DEF TimelineHeld, HeldBy, Local
<1>4. g \in Nat /\ Local(w) < g /\ generation <= g
  BY <1>1, <1>3 DEF Advanced
<1>5. /\ TimelineHeld'
      /\ tracker'[w].local = g
      /\ tracker[w].previous # None =>
           LET old == tracker[w].previous
               new == tracker'[w].previous
           IN  /\ TimelineReset(old, new) => ResetSeen(w)
               /\ \A p \in Segments(old), c \in Segments(new) :
                     /\ p.sequence = c.sequence /\ Equivalent(p, c)
                     /\ p.generation = c.generation
                     => p.revision = c.revision
  <2>1. Local(w) <= g /\ generation' \in Nat /\ generation <= generation'
        /\ g <= generation'
    BY <1>2, <1>3, <1>4
  <2> QED BY <1>2, <1>4, <2>1, ObserveHolds
<1>6. \A old \in used[w] : old < g
  <2>1. \A old \in used[w] : old \in Nat /\ old <= Local(w)
    BY DEF TimelineHeld, HeldBy, Local
  <2> QED BY <1>3, <1>4, <2>1
<1>7. tracker'[w].local >= tracker[w].read
  BY <1>3, <1>4, <1>5
<1>8. Separates(w)
  BY <1>5, <1>6 DEF Separates
<1>9. Follows(w)
  BY <1>2, <1>5, <1>7 DEF Follows
<1> QED BY <1>5, <1>8, <1>9 DEF Proceeds

\* Every step keeps the invariant, and each worker names its segments well.
LEMMA TimelineStep ==
    ASSUME TimelineHeld, [TimelineNext]_timelineVars
    PROVE  TimelineHeld' /\ \A w \in Workers : Separates(w) /\ Follows(w)
<1>1. CASE UNCHANGED timelineVars
  <2>1. TimelineHeld'
    BY <1>1 DEF timelineVars, TimelineHeld, OriginOK, HeldBy
  <2>2. UNCHANGED tracker
    BY <1>1 DEF timelineVars
  <2> QED BY <2>1, <2>2, QuietFollows
<1>2. CASE Slide \/ Restart \/ Republish
  BY <1>2, OriginSteps, QuietFollows
<1>3. ASSUME NEW w \in Workers,
             Begin(w) \/ Poll(w) \/ ReadFails(w) \/ AdvanceFails(w) \/ End(w)
      PROVE  TimelineHeld' /\ \A v \in Workers : Separates(v) /\ Follows(v)
  <2>1. Proceeds(w)
    BY <1>3, FreshSteps, PollSteps, FollowSteps, AdvanceSteps DEF Poll
  <2>2. ASSUME NEW v \in Workers, v # w PROVE tracker'[v] = tracker[v]
    BY <1>3, <2>2
       DEF Begin, Poll, Fetch, Read, ReadFails, Follow, Advance, AdvanceFails,
           Refuse, End, Observe, TimelineHeld
  <2> QED BY <2>1, <2>2, QuietFollows DEF Proceeds
<1> QED BY <1>1, <1>2, <1>3 DEF TimelineNext

-----------------------------------------------------------------------------
(* The theorems.                                                           *)

\* In every behaviour a session's generation is that of its last observation,
\* the newest it has used and never ahead of the persisted one.
THEOREM TimelineHolds == TimelineSpec => [](TimelineTypeOK /\ TimelineHeld)
<1>1. TimelineHeld /\ [TimelineNext]_timelineVars => TimelineHeld'
  BY TimelineStep
<1>2. TimelineHeld => TimelineTypeOK
  BY DEF TimelineHeld, TimelineTypeOK, HeldBy
<1> QED BY <1>1, <1>2, TimelineStarts, PTL DEF TimelineSpec

\* No number of the timeline a session follows is lost without a word.
THEOREM SequencesAreAccounted == TimelineSpec => []SequenceAccounted
<1>1. TimelineHeld => SequenceAccounted
  BY DEF TimelineHeld, HeldBy, SequenceAccounted
<1> QED BY <1>1, TimelineHolds, PTL

\* A session that sees the counters go back goes on under a generation it has
\* never used.
THEOREM ResetsSeparate == TimelineSpec => ResetSeparates
<1>1. TimelineHeld /\ [TimelineNext]_timelineVars =>
        [\A w \in Workers : Separates(w)]_timelineVars
  BY TimelineStep
<1> QED BY <1>1, TimelineHolds, PTL DEF TimelineSpec, ResetSeparates, Separates

\* An observation is not behind the generation it read, ends with the persisted
\* one after a reset, and keeps the revision of what only drifts.
THEOREM NamesDoFollow == TimelineSpec => NamesFollow
<1>1. TimelineHeld /\ [TimelineNext]_timelineVars =>
        [\A w \in Workers : Follows(w)]_timelineVars
  BY TimelineStep
<1> QED BY <1>1, TimelineHolds, PTL DEF TimelineSpec, NamesFollow, Follows

=============================================================================
