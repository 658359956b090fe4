------------------------------ MODULE Subsequence ------------------------------
(***************************************************************************)
(* The entries of a list, or of an ordered dictionary, that a loop keeps:   *)
(* what is left in the admission queue, the alerts of one stream among     *)
(* those of all, the alerts the dashboard has not seen.                    *)
(***************************************************************************)
EXTENDS Integers, Sequences

\* The entries of q at the places in P, in the order of q.
Pick(q, P) ==
    LET taken[n \in 0 .. Len(q)] ==
          IF n = 0 THEN <<>>
          ELSE IF n \in P THEN Append(taken[n - 1], q[n]) ELSE taken[n - 1]
    IN  taken[Len(q)]
=============================================================================
