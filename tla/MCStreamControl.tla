-------------------------- MODULE MCStreamControl --------------------------
\* Instances of StreamControl for TLC.
EXTENDS StreamControl, TLC

CONSTANTS c1, c2, off

MCConfigs == {c1, c2, off}
MCEnabled == {c1, c2}
ConfigSymmetry == Permutations({c1, c2})
=============================================================================
