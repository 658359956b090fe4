------------------------------ MODULE MCTimeline ------------------------------
\* Instances of Timeline for TLC: two processes and one variant, whose origin
\* restarts with its media sequence or only its discontinuity set back.
EXTENDS Timeline, TLC

CONSTANTS w1, w2

TwoWorkers == {w1, w2}

TwoRestarts == {[first |-> 0, discontinuity |-> 1],
                [first |-> 2, discontinuity |-> 0]}

\* A drift within the tolerance, other media, a discontinuity: a segment that is
\* retained, replaced, and replaced and renumbered.
ThreeEdits == {"drift", "media", "cut"}

WorkerSymmetry == Permutations(Workers)
=============================================================================
