-------------------------- MODULE MCProfileWorker --------------------------
\* Instances of ProfileWorker for TLC.
EXTENDS ProfileWorker, TLC

CONSTANTS w1, w2

OneWorker == {w1}
TwoWorkers == {w1, w2}

WorkerSymmetry == Permutations(Workers)
=============================================================================
