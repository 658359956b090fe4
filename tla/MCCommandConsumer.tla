------------------------- MODULE MCCommandConsumer -------------------------
\* Instances of CommandConsumer for TLC.
EXTENDS CommandConsumer, TLC

CONSTANTS id1, id2, id3, name1, name2, cfg1, cfg2

TwoIds == {id1, id2}
ThreeIds == {id1, id2, id3}
TwoNames == {name1, name2}

\* Start, stop, and updates between two configurations; one malformed entry.
Lifecycle ==
    {[kind |-> k, config |-> cfg1] : k \in {"start", "pause", "stop", "invalid"}}
    \cup {[kind |-> "update", config |-> cfg2]}

IdSymmetry == Permutations(Ids)
=============================================================================
