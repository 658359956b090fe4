------------------------------- MODULE Timeline -------------------------------
(***************************************************************************)
(* One variant of one stream, as several monitoring processes observe it:  *)
(* PlaylistObservationTracker.observe (src/src/core/live_polling.py) of    *)
(* each worker's session, the timeline generation they share in Redis      *)
(* (segment_state.py, ADVANCE_TIMELINE_GENERATION) and the origin that     *)
(* slides, re-publishes and restarts its playlist between their polls.     *)
(*                                                                         *)
(* A poll downloads the playlist, reads the persisted generation and only  *)
(* then compares and perhaps advances: three steps, and the playlist, the  *)
(* generation and the other workers move between them.                     *)
(***************************************************************************)
EXTENDS PlaylistDelta, FiniteSets
LOCAL INSTANCE SequencesExt

CONSTANTS
    Workers,        \* processes that run a session of the stream
    Window,         \* segments the origin's playlist holds
    Lookback,       \* startup_lookback_segments; FULL_SNAPSHOT if >= Window
    Restarts,       \* where a restarted origin may set its two counters
    Edits,          \* ways the origin may re-publish its newest segment
    MaxSequence,    \* bound: largest media sequence of a playlist
    MaxResets,      \* bound: restarts of the origin
    MaxTrouble      \* bound: re-publications, failing Redis calls, steps of the
                    \* clock and sessions that end, all together

EditKinds == {"none", "drift", "token", "media", "key", "init", "gap", "cut"}

ASSUME TimelineAssumption ==
    /\ Window \in Nat \ {0}
    /\ Lookback \in Nat \ {0}
    /\ Restarts \subseteq [first : 0 .. MaxSequence, discontinuity : 0 .. 1]
    /\ Edits \subseteq EditKinds \ {"none"}
    /\ {MaxSequence, MaxResets, MaxTrouble} \subseteq Nat

\* The segments an origin may publish, and what compare may say of them.
PublishedSegments ==
    [sequence : Nat, dseq : Nat, pdt : Nat, duration : {10}, byteRange : {None},
     init : [uri : [path : {"init", "init2"}, token : {"a"}], byteRange : {None}],
     encryption : {None} \cup [method : {"AES"}, keyUri : {None}, iv : {None},
                               keyFormat : {None}],
     uri : [path : Nat \X Nat \X BOOLEAN, token : {"a", "b"}],
     gap : BOOLEAN]
Deltas ==
    [reset : BOOLEAN, new : SUBSET PublishedSegments,
     retained : SUBSET PublishedSegments, replaced : SUBSET PublishedSegments,
     missed : SUBSET Nat]

\* None is neither a generation nor a delta.
ASSUME NoneAssumption == None \notin Nat /\ None \notin Deltas

VARIABLES
    origin,         \* the playlist being served
    generation,     \* the persisted timeline generation of the variant
    tracker,        \* worker -> its session and PlaylistObservationTracker
    budget,         \* what is left of the bounds
    used,           \* history: worker -> generations its session admitted under
    accounted       \* history: worker -> sequence numbers of the timeline that
                    \* were admitted, left out at the start or counted missed

timelineVars == <<origin, generation, tracker, budget, used, accounted>>

-----------------------------------------------------------------------------
(* The origin.                                                             *)

\* The segment numbered s; the newest one as it was re-published.
Published(s) ==
    LET edit == IF s = origin.first + Window - 1 THEN origin.edit ELSE "none"
    IN  [sequence   |-> s,
         dseq       |-> origin.discontinuity + IF edit = "cut" THEN 1 ELSE 0,
         pdt        |-> 10 * s + IF edit = "drift" THEN PdtTolerance ELSE 0,
         duration   |-> 10,
         byteRange  |-> None,
         init       |-> [uri |-> [path |-> IF edit = "init" THEN "init2" ELSE "init",
                                  token |-> "a"],
                         byteRange |-> None],
         encryption |-> IF edit = "key"
                        THEN [method |-> "AES", keyUri |-> None, iv |-> None,
                              keyFormat |-> None]
                        ELSE None,
         uri        |-> [path |-> <<origin.epoch, s, edit = "media">>,
                         token |-> IF edit = "token" THEN "b" ELSE "a"],
         gap        |-> edit = "gap"]

Playlist(observedAt) ==
    [variant |-> "video", observedAt |-> observedAt, mseq |-> origin.first,
     discontinuity |-> origin.discontinuity,
     segments |-> [i \in 1 .. Window |-> Published(origin.first + i - 1)]]

Slide ==
    /\ origin.first < MaxSequence
    /\ origin' = [origin EXCEPT !.first = @ + 1, !.edit = "none"]
    /\ UNCHANGED <<generation, tracker, budget, used, accounted>>

\* The origin starts over: other media, its counters wherever it sets them.
Restart ==
    /\ budget.resets > 0
    /\ \E counters \in Restarts :
          origin' = [epoch |-> origin.epoch + 1, first |-> counters.first,
                     discontinuity |-> counters.discontinuity, edit |-> "none"]
    /\ budget' = [budget EXCEPT !.resets = @ - 1]
    /\ UNCHANGED <<generation, tracker, used, accounted>>

Republish ==
    /\ budget.trouble > 0
    /\ \E edit \in Edits \ {origin.edit} : origin' = [origin EXCEPT !.edit = edit]
    /\ budget' = [budget EXCEPT !.trouble = @ - 1]
    /\ UNCHANGED <<generation, tracker, used, accounted>>

-----------------------------------------------------------------------------
(* A worker's session.                                                     *)

NoSession == [pc |-> "down", previous |-> None, local |-> None,
              snapshot |-> None, read |-> 0]

\* A new tracker has no snapshot and no generation.
Begin(w) ==
    /\ tracker[w].pc = "down"
    /\ tracker' = [tracker EXCEPT ![w] = [NoSession EXCEPT !.pc = "idle"]]
    /\ UNCHANGED <<origin, generation, budget, used, accounted>>

\* The process dies, or its session ends, at any step.
End(w) ==
    /\ tracker[w].pc # "down"
    /\ budget.trouble > 0
    /\ budget' = [budget EXCEPT !.trouble = @ - 1]
    /\ tracker' = [tracker EXCEPT ![w] = NoSession]
    /\ used' = [used EXCEPT ![w] = {}]
    /\ accounted' = [accounted EXCEPT ![w] = {}]
    /\ UNCHANGED <<origin, generation>>

\* LivePlaylistPoller.poll.  Of the wall clock only an order is kept: a
\* snapshot is stamped 0 when the clock has stepped back since the last one.
Fetch(w) ==
    /\ tracker[w].pc = "idle"
    /\ \/ /\ tracker' = [tracker EXCEPT ![w].pc = "fetched",
                                        ![w].snapshot = Playlist(1)]
          /\ UNCHANGED budget
       \/ /\ budget.trouble > 0
          /\ tracker' = [tracker EXCEPT ![w].pc = "fetched",
                                        ![w].snapshot = Playlist(0)]
          /\ budget' = [budget EXCEPT !.trouble = @ - 1]
    /\ UNCHANGED <<origin, generation, used, accounted>>

\* get_timeline_generation.
Read(w) ==
    /\ tracker[w].pc = "fetched"
    /\ tracker' = [tracker EXCEPT ![w].pc = "read", ![w].read = generation]
    /\ UNCHANGED <<origin, generation, budget, used, accounted>>

\* The variant registry's refresh or the read fails: run_forever drops the
\* cycle and keeps the tracker as it is.
ReadFails(w) ==
    /\ tracker[w].pc = "fetched"
    /\ budget.trouble > 0
    /\ budget' = [budget EXCEPT !.trouble = @ - 1]
    /\ tracker' = [tracker EXCEPT ![w].pc = "idle", ![w].snapshot = None]
    /\ UNCHANGED <<origin, generation, used, accounted>>

Local(w) == IF tracker[w].local = None THEN tracker[w].read ELSE tracker[w].local

ResetSeen(w) ==
    /\ tracker[w].previous # None
    /\ TimelineReset(tracker[w].previous, tracker[w].snapshot)

\* The delta observe hands to the rest, None on a first observation.
DeltaOf(w) ==
    LET t == tracker[w]
        delta == Compare(t.previous, t.snapshot)
    IN  IF t.previous = None THEN None
        ELSE IF ~delta.reset /\ t.read > Local(w)
        THEN GenerationAdvanced(delta, t.snapshot)
        ELSE delta

\* _enrich_snapshot: a retained segment keeps the revision it had.
Enriched(snapshot, previous, delta, g) ==
    LET Kept(s) == /\ delta # None
                   /\ ~delta.reset
                   /\ s \in delta.retained
                   /\ At(previous, s.sequence).generation = g
        Revision(s) == IF Kept(s) THEN At(previous, s.sequence).revision
                       ELSE MediaRevision(s)
        Stamp(s) == [sequence |-> s.sequence, dseq |-> s.dseq, pdt |-> s.pdt,
                     duration |-> s.duration, byteRange |-> s.byteRange,
                     init |-> s.init, encryption |-> s.encryption,
                     uri |-> s.uri, gap |-> s.gap,
                     generation |-> g, revision |-> Revision(s)]
    IN  [snapshot EXCEPT !.segments = [i \in DOMAIN @ |-> Stamp(@[i])]]

\* The newest Lookback segments, by discontinuity and sequence.
StartupScope(segments) ==
    LET Before(a, b) == \/ a.dseq < b.dseq
                        \/ a.dseq = b.dseq /\ a.sequence < b.sequence
    IN  {s \in segments :
            Cardinality({later \in segments : Before(s, later)}) < Lookback}

\* _admission_segments of the enriched snapshot.
AdmissionSegments(snapshot, delta) ==
    IF delta = None \/ delta.reset THEN StartupScope(Segments(snapshot))
    ELSE {s \in Segments(snapshot) :
             s.sequence \in Sequences(delta.new \cup delta.replaced)}

\* The end of observe, once the generation of the observation is known.  (The
\* singletons make TLC evaluate each value once.)
Observe(w, g) ==
    \E delta \in {DeltaOf(w)} :
    \E current \in {Enriched(tracker[w].snapshot, tracker[w].previous, delta, g)} :
    \E chosen \in {AdmissionSegments(current, delta)} :
        LET fresh == delta = None \/ delta.reset
            outside == IF fresh THEN Segments(current) \ chosen ELSE {}
            missed == IF delta = None THEN {} ELSE delta.missed
            reckoned == Sequences(chosen \cup outside) \cup missed
        IN  /\ tracker' = [tracker EXCEPT
                  ![w] = [pc |-> "idle", previous |-> current, local |-> g,
                          snapshot |-> None, read |-> 0]]
            /\ used' = [used EXCEPT ![w] = @ \cup {s.generation : s \in chosen}]
            /\ accounted' = [accounted EXCEPT
                  ![w] = IF fresh THEN reckoned ELSE @ \cup reckoned]

CanCompare(w) ==
    tracker[w].previous # None =>
        Comparable(tracker[w].previous, tracker[w].snapshot)

\* Mutant: a session keeps to the generation it began with.
FollowAlone(w) ==
    /\ tracker[w].pc = "read"
    /\ CanCompare(w)
    /\ ~ResetSeen(w)
    /\ Observe(w, Local(w))
    /\ UNCHANGED <<origin, generation, budget>>

\* No reset to tell the others about: a first observation, an ordinary one, or
\* one that finds that another worker has advanced the generation.
Follow(w) ==
    /\ tracker[w].pc = "read"
    /\ CanCompare(w)
    /\ ~ResetSeen(w)
    /\ Observe(w, IF tracker[w].read > Local(w) THEN tracker[w].read ELSE Local(w))
    /\ UNCHANGED <<origin, generation, budget>>

\* Mutant: an observer that comes second gets back the value it expected.
AdvancedUnlessSecond(expected) ==
    IF generation = expected THEN generation + 1 ELSE expected

\* ADVANCE_TIMELINE_GENERATION: compare with the expected value and increment.
Advanced(expected) == IF generation = expected THEN generation + 1 ELSE generation

\* The worker sees the counters go back and advances the shared generation.
Advance(w) ==
    /\ tracker[w].pc = "read"
    /\ CanCompare(w)
    /\ ResetSeen(w)
    /\ generation' = Advanced(Local(w))
    /\ Observe(w, Advanced(Local(w)))
    /\ UNCHANGED <<origin, budget>>

\* The script fails, or runs and its reply is lost; the cycle is dropped.
AdvanceFails(w) ==
    /\ tracker[w].pc = "read"
    /\ CanCompare(w)
    /\ ResetSeen(w)
    /\ budget.trouble > 0
    /\ budget' = [budget EXCEPT !.trouble = @ - 1]
    /\ generation' \in {generation, Advanced(Local(w))}
    /\ tracker' = [tracker EXCEPT ![w].pc = "idle", ![w].snapshot = None]
    /\ UNCHANGED <<origin, used, accounted>>

\* compare raises PlaylistDeltaError, which run_forever does not catch: the
\* session ends; whoever starts the stream again starts it afresh.
Refuse(w) ==
    /\ tracker[w].pc = "read"
    /\ ~CanCompare(w)
    /\ tracker' = [tracker EXCEPT ![w] = NoSession]
    /\ used' = [used EXCEPT ![w] = {}]
    /\ accounted' = [accounted EXCEPT ![w] = {}]
    /\ UNCHANGED <<origin, generation, budget>>

-----------------------------------------------------------------------------
TimelineInit ==
    /\ origin = [epoch |-> 0, first |-> 1, discontinuity |-> 1, edit |-> "none"]
    /\ generation = 0
    /\ tracker = [w \in Workers |-> [NoSession EXCEPT !.pc = "idle"]]
    /\ budget = [resets |-> MaxResets, trouble |-> MaxTrouble]
    /\ used = [w \in Workers |-> {}]
    /\ accounted = [w \in Workers |-> {}]

Poll(w) == Fetch(w) \/ Read(w) \/ Follow(w) \/ Advance(w) \/ Refuse(w)

TimelineNext ==
    \/ Slide \/ Restart \/ Republish
    \/ \E w \in Workers :
          \/ Begin(w) \/ Poll(w)
          \/ ReadFails(w) \/ AdvanceFails(w) \/ End(w)

TimelineSpec == TimelineInit /\ [][TimelineNext]_timelineVars

-----------------------------------------------------------------------------
(* Properties.                                                             *)

TimelineTypeOK ==
    /\ generation \in Nat
    /\ \A w \in Workers :
          /\ tracker[w].pc \in {"down", "idle", "fetched", "read"}
          /\ tracker[w].local = None => tracker[w].previous = None
          /\ tracker[w].local # None => tracker[w].local \in 0 .. generation
          /\ tracker[w].read \in 0 .. generation

\* No number of the timeline a session follows is lost without a word: from
\* the first playlist it saw of that timeline to the newest segment, each was
\* admitted, left out by the startup policy, or counted as missed -- whatever
\* slid past between two polls and whichever cycle Redis made it drop.
SequenceAccounted ==
    \A w \in Workers : tracker[w].previous # None =>
        LET known == accounted[w] IN
        /\ Sequences(Segments(tracker[w].previous)) \subseteq known
        /\ \A a, b \in known : a .. b \subseteq known

\* A session that sees the counters go back admits from then on under a
\* generation it has never used, also when another worker advanced first,
\* when its own advance was lost, and when the timeline starts over twice:
\* the numbers that come again are not taken for work already done.
ResetSeparates ==
    [][\A w \in Workers :
          /\ tracker[w].pc = "read" /\ ResetSeen(w)
          /\ tracker'[w].previous \notin {tracker[w].previous, None}
          => \A old \in used[w] : old < tracker'[w].local]_timelineVars

\* What an observation names its segments by.  It is not behind: it ends with a
\* generation no older than the one it read, and with the persisted one if it
\* saw the counters go back, whoever was first to advance.  And it is stable: a
\* segment that stays in the playlist and only drifts within the tolerances
\* keeps its revision, so that it is not taken for other media.
NamesFollow ==
    [][\A w \in Workers :
          tracker'[w].previous \notin {tracker[w].previous, None} =>
             LET old == tracker[w].previous
                 new == tracker'[w].previous
             IN  /\ tracker'[w].local >= tracker[w].read
                 /\ old # None =>
                       /\ TimelineReset(old, new) => tracker'[w].local = generation'
                       /\ \A p \in Segments(old), c \in Segments(new) :
                             /\ p.sequence = c.sequence /\ Equivalent(p, c)
                             /\ p.generation = c.generation
                             => p.revision = c.revision]_timelineVars

\* tests/core/test_timeline_identity.py,
\* test_two_observers_advance_one_shared_generation_for_same_reset: however
\* many observe it, one restart of the origin advances the generation once.
OneAdvancePerReset == generation <= origin.epoch
=============================================================================
