----------------------------- MODULE PlaylistDelta -----------------------------
(***************************************************************************)
(* What one observation of a media playlist says against the one before:   *)
(* PlaylistDeltaEngine (src/src/core/playlist_delta.py) as operators on    *)
(* snapshots.  A snapshot holds a sequence of segments; a URI is a path    *)
(* (what names the resource) and a token (query and fragment, which a CDN  *)
(* may rotate).  Times are whole units, so a tolerance is a Nat.           *)
(***************************************************************************)
EXTENDS Integers, Sequences
LOCAL INSTANCE SequencesExt

CONSTANTS
    PdtTolerance,       \* pdt_tolerance
    DurationTolerance,  \* duration_tolerance
    None                \* Python's None

ASSUME DeltaAssumption ==
    /\ PdtTolerance \in Nat
    /\ DurationTolerance \in Nat

FirstSequence(snapshot) ==
    IF snapshot.segments = <<>> THEN None ELSE Head(snapshot.segments).sequence
LastSequence(snapshot) ==
    IF snapshot.segments = <<>> THEN None ELSE Last(snapshot.segments).sequence

Segments(snapshot) == ToSet(snapshot.segments)
Sequences(segments) == {segment.sequence : segment \in segments}

\* The segment a snapshot holds under a sequence number it does have.
At(snapshot, sequence) ==
    CHOOSE segment \in Segments(snapshot) : segment.sequence = sequence

\* _stable_resource_identity: signed URLs of one resource are one resource.
StableResource(uri) == uri.path

Within(a, b, tolerance) == a - b <= tolerance /\ b - a <= tolerance

\* Both absent, or equal in what the engine looks at.
InitEquivalent(p, c) ==
    \/ p = None /\ c = None
    \/ /\ None \notin {p, c}
       /\ p.byteRange = c.byteRange
       /\ StableResource(p.uri) = StableResource(c.uri)

KeyIdentity(encryption) ==
    IF encryption.keyUri = None THEN None ELSE StableResource(encryption.keyUri)

EncryptionEquivalent(p, c) ==
    \/ p = None /\ c = None
    \/ /\ None \notin {p, c}
       /\ p.method = c.method
       /\ p.iv = c.iv /\ p.keyFormat = c.keyFormat
       /\ KeyIdentity(p) = KeyIdentity(c)

\* _segments_equivalent: an absent date matches any date.
Equivalent(p, c) ==
    /\ p.dseq = c.dseq
    /\ None \in {p.pdt, c.pdt} \/ Within(p.pdt, c.pdt, PdtTolerance)
    /\ Within(p.duration, c.duration, DurationTolerance)
    /\ p.byteRange = c.byteRange
    /\ InitEquivalent(p.init, c.init)
    /\ EncryptionEquivalent(p.encryption, c.encryption)
    /\ StableResource(p.uri) = StableResource(c.uri)
    /\ p.gap = c.gap

\* media_revision: the fingerprint compares exactly what Equivalent compares
\* within a tolerance, and leaves the discontinuity number out.
MediaRevision(segment) ==
    [resource |-> StableResource(segment.uri),
     duration |-> segment.duration,
     pdt |-> segment.pdt,
     byteRange |-> segment.byteRange,
     init |-> IF segment.init = None THEN None
              ELSE [resource |-> StableResource(segment.init.uri),
                    byteRange |-> segment.init.byteRange],
     encryption |-> IF segment.encryption = None THEN None
                    ELSE [method |-> segment.encryption.method,
                          key |-> KeyIdentity(segment.encryption),
                          iv |-> segment.encryption.iv,
                          format |-> segment.encryption.keyFormat],
     gap |-> segment.gap]

\* _validate_snapshots: what compare refuses to compare.
Comparable(previous, current) ==
    /\ previous.variant = current.variant
    /\ previous.observedAt <= current.observedAt

\* _detect_timeline_reset: a counter of the playlist went back.
TimelineReset(previous, current) ==
    \/ current.mseq < previous.mseq
    \/ current.discontinuity < previous.discontinuity

\* Mutant: the range starts one too late.
MissedLate(previous, current) ==
    IF previous.segments = <<>> \/ current.segments = <<>> THEN {}
    ELSE (LastSequence(previous) + 2) .. (FirstSequence(current) - 1)

\* _detect_missed_sequences: numbers that slid past between two observations.
Missed(previous, current) ==
    IF previous.segments = <<>> \/ current.segments = <<>> THEN {}
    ELSE (LastSequence(previous) + 1) .. (FirstSequence(current) - 1)

\* compare, for snapshots that are Comparable.
Compare(previous, current) ==
    LET reset == TimelineReset(previous, current)
        known == IF reset THEN {}
                 ELSE {s \in Segments(current) :
                          s.sequence \in Sequences(Segments(previous))}
        retained == {s \in known : Equivalent(At(previous, s.sequence), s)}
    IN  [reset    |-> reset,
         new      |-> Segments(current) \ known,
         retained |-> retained,
         replaced |-> known \ retained,
         missed   |-> IF reset THEN {} ELSE Missed(previous, current)]

\* The delta of an observer that finds its timeline superseded.
GenerationAdvanced(delta, current) ==
    [delta EXCEPT !.reset = TRUE, !.new = Segments(current),
                  !.retained = {}, !.replaced = {}]
=============================================================================
