----------------------------- MODULE RuntimeProofs -----------------------------
(***************************************************************************)
(* Proofs about what runs in one worker process: LiveCycle, for every      *)
(* playlist, queue size, limit and number of observations a change of mode *)
(* takes, and MediaGates, for every number of streams and threads and      *)
(* every limit of the gates and the executors.                             *)
(***************************************************************************)
EXTENDS LiveCycle, MediaGates, SubsequenceProofs

-----------------------------------------------------------------------------
(* The mode and its evidence.                                              *)

Counters == [overSoft : Nat, underRecovery : Nat, overHard : Nat,
             underProtection : Nat]

\* What the counters count is at the end of the history, and too little for a
\* change of the mode; what the mode does not count is zero.
EvidenceIsTrue ==
    /\ mode \in {"coverage", "catch_up", "protection"}
    /\ \E L : lags \in Seq(L)
    /\ evidence \in Counters
    /\ \A c \in {"overSoft", "underRecovery", "overHard", "underProtection"} :
          evidence[c] < TransitionCycles /\ evidence[c] <= Len(lags)
    /\ mode # "coverage" => evidence.overSoft = 0
    /\ mode # "catch_up" => evidence.overHard = 0 /\ evidence.underRecovery = 0
    /\ mode # "protection" => evidence.underProtection = 0
    /\ \A i \in 1 .. Len(lags) :
          /\ i > Len(lags) - evidence.overSoft => lags[i] > SoftLag
          /\ i > Len(lags) - evidence.overHard => lags[i] > HardLag
          /\ i > Len(lags) - evidence.underRecovery => lags[i] < RecoveryLag
          /\ i > Len(lags) - evidence.underProtection => lags[i] < SoftLag

\* A change of the mode takes at least one observation.
LEMMA SomeCycles == TransitionCycles \in Nat \ {0}
BY CycleAssumption DEF CycleAssumption

\* t is what s holds from first on.
IsTail(t, s, first, L) ==
    /\ t \in Seq(L)
    /\ Len(t) = Len(s) - first + 1
    /\ \A i \in 1 .. Len(t) : t[i] = s[first + i - 1]

\* The history is cut to what the next decision can rest on.
LEMMA LatestIsTail ==
    ASSUME NEW L, NEW s, NEW first,
           s \in Seq(L), Len(s) > 0, first \in Nat,
           first = IF Len(s) - TransitionCycles + 2 >= 1
                   THEN Len(s) - TransitionCycles + 2 ELSE 1
    PROVE  IsTail(Latest(s), s, first, L)
<1> USE DEF IsTail
<1>1. TransitionCycles \in Nat \ {0}
  BY SomeCycles
<1>2. Max({1, Len(s) - TransitionCycles + 2}) = first
  BY <1>1 DEF Max
<1>3. Latest(s) = SubSeq(s, first, Len(s))
  BY <1>2 DEF Latest
<1>4. first \in 1 .. Len(s) + 1
  BY <1>1
<1>5. CASE first = Len(s) + 1
  BY <1>3, <1>5, SubSeqProperties
<1>6. CASE first \in 1 .. Len(s)
  <2>1. \A i \in first .. Len(s) : s[i] \in L
    BY <1>6
  <2> QED BY <1>3, <1>6, <2>1, SubSeqProperties
<1> QED BY <1>4, <1>5, <1>6

\* A counter goes back to zero, or counts one more observation that holds.
Counted(c, lag) ==
    \/ Weigh(lag)[c] = 0
    \/ /\ Weigh(lag)[c] = evidence[c] + 1
       /\ c = "overSoft" => lag > SoftLag
       /\ c = "overHard" => lag > HardLag
       /\ c = "underRecovery" => lag < RecoveryLag
       /\ c = "underProtection" => lag < SoftLag

LEMMA WeighCounts ==
    ASSUME EvidenceIsTrue, NEW lag
    PROVE  /\ Weigh(lag) \in Counters
           /\ \A c \in {"overSoft", "underRecovery", "overHard",
                        "underProtection"} : Counted(c, lag)
           /\ mode # "coverage" => Weigh(lag).overSoft = 0
           /\ mode # "catch_up" => /\ Weigh(lag).overHard = 0
                                   /\ Weigh(lag).underRecovery = 0
           /\ mode # "protection" => Weigh(lag).underProtection = 0
<1> USE DEF Counters
<1>1. CASE mode = "coverage"
  <2>1. Weigh(lag) = [overSoft |-> Count(lag > SoftLag, evidence.overSoft),
                      underRecovery |-> 0, overHard |-> evidence.overHard,
                      underProtection |-> evidence.underProtection]
    BY <1>1 DEF EvidenceIsTrue, Weigh
  <2> QED BY <1>1, <2>1 DEF EvidenceIsTrue, Count, Counted
<1>2. CASE mode = "catch_up"
  BY <1>2 DEF EvidenceIsTrue, Weigh, Count, Counted
<1>3. CASE mode = "protection"
  <2>1. Weigh(lag) = [overSoft |-> evidence.overSoft, underRecovery |-> 0,
                      overHard |-> evidence.overHard, underProtection |->
                        Count(lag < SoftLag, evidence.underProtection)]
    BY <1>3 DEF EvidenceIsTrue, Weigh
  <2> QED BY <1>3, <2>1 DEF EvidenceIsTrue, Count, Counted
<1> QED BY <1>1, <1>2, <1>3 DEF EvidenceIsTrue

\* One observation of a lag, whatever it is.
LEMMA ObserveStep ==
    ASSUME EvidenceIsTrue, NEW lag, ObserveLag(lag)
    PROVE  EvidenceIsTrue'
<1> USE DEF Counters
<1>0. TransitionCycles \in Nat \ {0}
  BY SomeCycles
<1> DEFINE next == NextMode(Weigh(lag))
           n == Len(lags)
           s == Append(lags, lag)
<1>1. PICK L : lags \in Seq(L)
  BY DEF EvidenceIsTrue
<1>2. /\ s \in Seq(L \cup {lag}) /\ n \in Nat /\ Len(s) = n + 1
      /\ s[n + 1] = lag /\ \A i \in 1 .. n : s[i] = lags[i]
  BY <1>1
<1>3. CASE next # mode
  <2>1. next \in {"coverage", "catch_up", "protection"}
    BY <1>3 DEF NextMode, EvidenceIsTrue
  <2> QED BY <1>3, <2>1 DEF ObserveLag, EvidenceIsTrue, NoEvidence
<1>4. CASE next = mode
  <2>1. /\ mode' = mode /\ evidence' = Weigh(lag) /\ lags' = Latest(s)
    BY <1>4 DEF ObserveLag
  <2>2. \A c \in {"overSoft", "underRecovery", "overHard",
                  "underProtection"} : Weigh(lag)[c] < TransitionCycles
    <3> DEFINE e == Weigh(lag)
    <3>1. /\ e \in Counters /\ NextMode(e) = mode
          /\ mode \in {"coverage", "catch_up", "protection"}
          /\ mode # "coverage" => e.overSoft = 0
          /\ mode # "catch_up" => e.overHard = 0 /\ e.underRecovery = 0
          /\ mode # "protection" => e.underProtection = 0
      BY <1>4, WeighCounts DEF EvidenceIsTrue
    <3> HIDE DEF e
    <3>2. e.overSoft \in Nat /\ e.underRecovery \in Nat /\ e.overHard \in Nat
          /\ e.underProtection \in Nat
      BY <3>1
    <3>3. CASE mode = "coverage"
      <4>1. e.overSoft < TransitionCycles
        BY <1>0, <3>1, <3>2, <3>3 DEF NextMode
      <4> QED BY <1>0, <3>1, <3>3, <4>1 DEF e
    <3>4. CASE mode = "catch_up"
      <4>1. e.overHard < TransitionCycles
        BY <1>0, <3>1, <3>2, <3>4 DEF NextMode
      <4>2. e.underRecovery < TransitionCycles
        BY <1>0, <3>1, <3>2, <3>4, <4>1 DEF NextMode
      <4> QED BY <1>0, <3>1, <3>4, <4>1, <4>2 DEF e
    <3>5. CASE mode = "protection"
      <4>1. e.underProtection < TransitionCycles
        BY <1>0, <3>1, <3>2, <3>5 DEF NextMode
      <4> QED BY <1>0, <3>1, <3>5, <4>1 DEF e
    <3> QED BY <3>1, <3>3, <3>4, <3>5
  <2> DEFINE first == IF n + 1 - TransitionCycles + 2 >= 1
                      THEN n + 1 - TransitionCycles + 2 ELSE 1
  <2>3. first \in Nat /\ first >= 1 /\ first <= n + 2
        /\ n + 1 - first + 1 <= TransitionCycles - 1
        /\ (first = 1 \/ n + 1 - first + 1 = TransitionCycles - 1)
    BY <1>0, <1>2
  <2>4. /\ lags' \in Seq(L \cup {lag})
        /\ Len(lags') = n + 1 - first + 1
        /\ \A i \in 1 .. Len(lags') : lags'[i] = s[first + i - 1]
    <3> HIDE DEF s, n
    <3>1. first = IF Len(s) - TransitionCycles + 2 >= 1
                  THEN Len(s) - TransitionCycles + 2 ELSE 1
      BY <1>0, <1>2
    <3> HIDE DEF first
    <3>2. s \in Seq(L \cup {lag}) /\ Len(s) > 0 /\ first \in Nat
      BY <1>2, <2>3
    <3> DEFINE both == L \cup {lag}
    <3> HIDE DEF both
    <3>3. s \in Seq(both)
      BY <3>2 DEF both
    <3>4. PICK t : t = Latest(s)
      OBVIOUS
    <3>5. IsTail(Latest(s), s, first, both)
      BY <3>1, <3>2, <3>3, LatestIsTail
    <3>6. IsTail(t, s, first, both)
      BY <3>4, <3>5
    <3>7. lags' = t
      BY <2>1, <3>4
    <3>8. /\ t \in Seq(both) /\ Len(t) = n + 1 - first + 1
          /\ \A i \in 1 .. Len(t) : t[i] = s[first + i - 1]
      <4>1. Len(s) = n + 1
        BY <1>2
      <4>2. /\ t \in Seq(both) /\ Len(t) = Len(s) - first + 1
            /\ \A i \in 1 .. Len(t) : t[i] = s[first + i - 1]
        BY <3>6, Zenon DEF IsTail
      <4>3. Len(t) = n + 1 - first + 1
        BY <1>2, <2>3, <4>1, <4>2
      <4> QED BY <4>2, <4>3, Zenon
    <3> QED BY <3>7, <3>8 DEF both
  <2>5. ASSUME NEW c \in {"overSoft", "underRecovery", "overHard",
                          "underProtection"}
        PROVE  /\ evidence'[c] \in Nat
               /\ evidence'[c] < TransitionCycles
               /\ evidence'[c] <= Len(lags')
               /\ \A i \in 1 .. Len(lags') : i > Len(lags') - evidence'[c] =>
                     /\ Counted(c, lag) /\ Weigh(lag)[c] # 0
                     /\ first + i - 1 \in 1 .. n + 1
                     /\ first + i - 1 > n - evidence[c]
    <3>1. evidence[c] \in Nat /\ evidence[c] <= n
      BY DEF EvidenceIsTrue
    <3>2. Weigh(lag)[c] \in Nat /\ Counted(c, lag)
      BY WeighCounts
    <3>3. Weigh(lag)[c] = 0 \/ Weigh(lag)[c] = evidence[c] + 1
      BY <3>2 DEF Counted
    <3>4. Weigh(lag)[c] < TransitionCycles
      BY <2>2
    <3>5. Len(lags') = n + 1 - first + 1
      BY <2>4
    <3>6. evidence' = Weigh(lag)
      BY <2>1
    <3> HIDE DEF first, s, n
    <3>7. Weigh(lag)[c] <= Len(lags')
      BY <1>0, <1>2, <2>3, <3>1, <3>2, <3>3, <3>4, <3>5
    <3>8. ASSUME NEW i \in 1 .. Len(lags'), i > Len(lags') - Weigh(lag)[c]
          PROVE  /\ Weigh(lag)[c] # 0
                 /\ first + i - 1 \in 1 .. n + 1
                 /\ first + i - 1 > n - evidence[c]
      BY <1>2, <2>3, <3>1, <3>2, <3>3, <3>5, <3>8
    <3> QED BY <3>2, <3>4, <3>6, <3>7, <3>8
  <2>6. ASSUME NEW i \in 1 .. Len(lags')
        PROVE  /\ i > Len(lags') - evidence'.overSoft => lags'[i] > SoftLag
               /\ i > Len(lags') - evidence'.overHard => lags'[i] > HardLag
               /\ i > Len(lags') - evidence'.underRecovery =>
                    lags'[i] < RecoveryLag
               /\ i > Len(lags') - evidence'.underProtection =>
                    lags'[i] < SoftLag
    <3> DEFINE j == first + i - 1
    <3>1. lags'[i] = s[j] /\ (j \in 1 .. n => s[j] = lags[j])
      BY <1>2, <2>4
    <3>2. s[n + 1] = lag
      BY <1>2
    <3>3. j \in 1 .. n + 1
      <4>1. i \in Int /\ 1 <= i /\ i <= n + 1 - first + 1
        BY <1>2, <2>3, <2>4
      <4> HIDE DEF n, first
      <4> QED BY <1>2, <2>3, <4>1
    <3>9. /\ EvidenceIsTrue /\ evidence' = Weigh(lag) /\ n = Len(lags)
          /\ \A c \in {"overSoft", "underRecovery", "overHard",
                       "underProtection"} :
                i > Len(lags') - evidence'[c] =>
                   /\ Counted(c, lag) /\ Weigh(lag)[c] # 0
                   /\ j > n - evidence[c]
      BY <2>1, <2>5
    <3> HIDE DEF j, s, n, first
    <3>4. i > Len(lags') - evidence'.overSoft => lags'[i] > SoftLag
      BY <1>2, <3>1, <3>2, <3>3, <3>9 DEF Counted, EvidenceIsTrue
    <3>5. i > Len(lags') - evidence'.overHard => lags'[i] > HardLag
      BY <1>2, <3>1, <3>2, <3>3, <3>9 DEF Counted, EvidenceIsTrue
    <3>6. i > Len(lags') - evidence'.underRecovery => lags'[i] < RecoveryLag
      BY <1>2, <3>1, <3>2, <3>3, <3>9 DEF Counted, EvidenceIsTrue
    <3>7. i > Len(lags') - evidence'.underProtection => lags'[i] < SoftLag
      BY <1>2, <3>1, <3>2, <3>3, <3>9 DEF Counted, EvidenceIsTrue
    <3> QED BY <3>4, <3>5, <3>6, <3>7
  <2> QED BY <2>1, <2>4, <2>5, <2>6, WeighCounts DEF EvidenceIsTrue
<1> QED BY <1>3, <1>4

\* What ModeJustified says of a step that changes the mode, for the lag that
\* was observed.
JustifiedBy(last) ==
    LET lag == Append(lags, last)
        recent == {lag[i] :
                     i \in (Len(lag) - TransitionCycles + 1) .. Len(lag)}
    IN  /\ Len(lag) >= TransitionCycles
        /\ CASE <<mode, mode'>> = <<"coverage", "catch_up">> ->
                  \A l \in recent : l > SoftLag
             [] <<mode, mode'>> = <<"catch_up", "protection">> ->
                  \A l \in recent : l > HardLag
             [] <<mode, mode'>> = <<"catch_up", "coverage">> ->
                  \A l \in recent : l < RecoveryLag
             [] <<mode, mode'>> = <<"protection", "catch_up">> ->
                  \A l \in recent : l < SoftLag
             [] OTHER -> FALSE

\* The counter that changes the mode reaches the limit with this observation,
\* and the rest of what it counts is the end of the history.
LEMMA ChangeNeedsEvidence ==
    ASSUME EvidenceIsTrue, NEW lag, ObserveLag(lag), mode' # mode
    PROVE  JustifiedBy(lag)
<1> DEFINE all == Append(lags, lag)
           n == Len(lags)
           e == Weigh(lag)
           span == (Len(all) - TransitionCycles + 1) .. Len(all)
<1>1. TransitionCycles \in Nat \ {0}
  BY SomeCycles
<1>2. /\ n \in Nat /\ Len(all) = n + 1
      /\ all[n + 1] = lag /\ \A i \in 1 .. n : all[i] = lags[i]
  <2>1. PICK L : lags \in Seq(L)
    BY DEF EvidenceIsTrue
  <2> QED BY <2>1
<1>3. /\ mode \in {"coverage", "catch_up", "protection"}
      /\ mode' = NextMode(e)
  BY DEF EvidenceIsTrue, ObserveLag
<1>4. /\ e \in Counters
      /\ \A c \in {"overSoft", "underRecovery", "overHard",
                   "underProtection"} : Counted(c, lag)
  BY WeighCounts
<1>5. ASSUME NEW c \in {"overSoft", "underRecovery", "overHard",
                        "underProtection"}, e[c] >= TransitionCycles
      PROVE  /\ n + 1 >= TransitionCycles
             /\ \A i \in span : i \in 1 .. n => i > n - evidence[c]
             /\ \A i \in span : i \in 1 .. n \/ i = n + 1
             /\ c = "overSoft" => lag > SoftLag
             /\ c = "overHard" => lag > HardLag
             /\ c = "underRecovery" => lag < RecoveryLag
             /\ c = "underProtection" => lag < SoftLag
  <2>1. /\ evidence[c] \in Nat /\ evidence[c] <= n
        /\ evidence[c] < TransitionCycles
    BY DEF EvidenceIsTrue, Counters
  <2>2. Counted(c, lag) /\ e[c] # 0 /\ e[c] = evidence[c] + 1
    BY <1>1, <1>4, <1>5 DEF Counted
  <2>3. evidence[c] + 1 = TransitionCycles
    BY <1>1, <1>5, <2>1, <2>2
  <2> HIDE DEF n, all, e
  <2>4. \A i \in span : i \in Int /\ i >= n + 1 - TransitionCycles + 1
                        /\ i <= n + 1
    BY <1>1, <1>2
  <2> HIDE DEF span
  <2>5. \A i \in span : i > n - evidence[c] /\ i >= 1
    BY <1>1, <1>2, <2>1, <2>3, <2>4
  <2> QED BY <1>1, <1>2, <2>1, <2>2, <2>3, <2>4, <2>5 DEF Counted, e
<1>6. \A i \in 1 .. n :
         /\ i > n - evidence.overSoft => lags[i] > SoftLag
         /\ i > n - evidence.overHard => lags[i] > HardLag
         /\ i > n - evidence.underRecovery => lags[i] < RecoveryLag
         /\ i > n - evidence.underProtection => lags[i] < SoftLag
  BY DEF EvidenceIsTrue
<1> HIDE DEF n, all, e, span
<1>7. e.overSoft >= TransitionCycles =>
        /\ Len(all) >= TransitionCycles /\ \A i \in span : all[i] > SoftLag
  BY <1>2, <1>5, <1>6
<1>8. e.overHard >= TransitionCycles =>
        /\ Len(all) >= TransitionCycles /\ \A i \in span : all[i] > HardLag
  BY <1>2, <1>5, <1>6
<1>9. e.underRecovery >= TransitionCycles =>
        /\ Len(all) >= TransitionCycles
        /\ \A i \in span : all[i] < RecoveryLag
  BY <1>2, <1>5, <1>6
<1>10. e.underProtection >= TransitionCycles =>
        /\ Len(all) >= TransitionCycles /\ \A i \in span : all[i] < SoftLag
  BY <1>2, <1>5, <1>6
<1>11. CASE mode = "coverage"
  <2>1. mode' = "catch_up" /\ e.overSoft >= TransitionCycles
    BY <1>3, <1>11 DEF NextMode
  <2> QED BY <1>7, <1>11, <2>1 DEF all, span, JustifiedBy
<1>12. CASE mode = "catch_up"
  <2>1. CASE e.overHard >= TransitionCycles
    <3>1. mode' = "protection"
      <4>1. ~ (e.overHard < TransitionCycles)
        BY <1>1, <1>4, <2>1 DEF Counters
      <4> QED BY <1>3, <1>12, <2>1, <4>1, Zenon DEF NextMode
    <3> QED BY <1>8, <1>12, <2>1, <3>1 DEF all, span, JustifiedBy
  <2>2. CASE ~ (e.overHard >= TransitionCycles)
    <3>1. mode' = "coverage" /\ e.underRecovery >= TransitionCycles
      BY <1>3, <1>12, <2>2 DEF NextMode
    <3> QED BY <1>9, <1>12, <3>1 DEF all, span, JustifiedBy
  <2> QED BY <2>1, <2>2
<1>13. CASE mode = "protection"
  <2>1. mode' = "catch_up" /\ e.underProtection >= TransitionCycles
    BY <1>3, <1>13 DEF NextMode
  <2> QED BY <1>10, <1>13, <2>1 DEF all, span, JustifiedBy
<1> QED BY <1>3, <1>11, <1>12, <1>13

\* Only a look at the queue's pressure touches the mode and its evidence.
LEMMA OnlyPressObserves ==
    ASSUME CycleNext
    PROVE  Press \/ UNCHANGED controlVars
<1> USE DEF controlVars
<1>1. CASE RuntimeStep
  BY <1>1 DEF RuntimeStep, Dispatch, Plan, PlanFails, Submit, PollFails, Poll
<1>2. CASE BatchStep
  BY <1>2 DEF BatchStep, Settle, Ack, Miss, BatchEnds
<1>3. CASE TimePasses
  BY <1>3 DEF TimePasses
<1>4. CASE \E id \in Work : SettledElsewhere(id)
  BY <1>4 DEF SettledElsewhere
<1> QED BY <1>1, <1>2, <1>3, <1>4 DEF CycleNext

\* The evidence stays true of the history, whatever the two threads do.
LEMMA EvidenceInit ==
    ASSUME CycleInit
    PROVE  EvidenceIsTrue
<1>1. lags \in Seq({})
  BY DEF CycleInit
<1> QED BY <1>1, SomeCycles
        DEF CycleInit, EvidenceIsTrue, NoEvidence, Counters

LEMMA EvidenceStep ==
    ASSUME EvidenceIsTrue, [CycleNext]_cycleVars
    PROVE  EvidenceIsTrue'
<1>1. CASE Press
  <2>1. CASE ObserveLag(QueueLag)
    <3>1. PICK lag : lag = QueueLag
      OBVIOUS
    <3>2. ObserveLag(lag)
      BY <2>1, <3>1
    <3> QED BY <3>2, ObserveStep
  <2>2. CASE ForgetLag
    BY <2>2, SomeCycles
    DEF ForgetLag, EvidenceIsTrue, NoEvidence, Counters
  <2> QED BY <1>1, <2>1, <2>2 DEF Press
<1>2. CASE UNCHANGED controlVars
  BY <1>2 DEF controlVars, EvidenceIsTrue
<1>3. CASE UNCHANGED cycleVars
  BY <1>3 DEF cycleVars, EvidenceIsTrue
<1> QED BY <1>1, <1>2, <1>3, OnlyPressObserves

\* The controller's counters are what has been observed: the end of the
\* history of lags since the last change, never more of it than there is.
THEOREM EvidenceIsObserved == CycleSpec => []EvidenceIsTrue
BY EvidenceInit, EvidenceStep, PTL DEF CycleSpec

\* ModeJustified: the mode moves only to a neighbour and only after
\* transition_cycles late (or quiet) observations in a row, for every queue,
\* limits and transition_cycles.
THEOREM ModeChangesAreJustified == CycleSpec => ModeJustified
<1>1. ASSUME EvidenceIsTrue, CycleNext, mode' # mode
      PROVE  JustifiedBy(QueueLag)
  <2>1. PICK seen : seen = QueueLag
    OBVIOUS
  <2>2. ObserveLag(seen)
    BY <1>1, <2>1, OnlyPressObserves DEF controlVars, Press, ForgetLag
  <2>3. JustifiedBy(seen)
    BY <1>1, <2>2, ChangeNeedsEvidence
  <2> QED BY <2>1, <2>3, Zenon
<1>2. ASSUME EvidenceIsTrue, UNCHANGED cycleVars
      PROVE  mode' = mode
  BY <1>2 DEF cycleVars
<1> QED BY <1>1, <1>2, EvidenceInit, EvidenceStep, PTL
        DEF CycleSpec, ModeJustified, JustifiedBy
-----------------------------------------------------------------------------
(* The queue, and what became of what was in it.                           *)

Items == [id : Work, age : Nat]

Ids(q) == {q[i].id : i \in 1 .. Len(q)}

\* No segment is in q twice.
Unique(q) == \A i, j \in 1 .. Len(q) : q[i].id = q[j].id => i = j

CycleTypes ==
    /\ queue \in Seq(Items)
    /\ suppressed \in [Work -> Nat]
    /\ runtime \in [pc : {"wait", "plan", "submit", "poll", "press",
                          "pressed"},
                    round : {1, 2}, plan : SUBSET Work]
    /\ batch \in [reserved : BOOLEAN, todo : SUBSET Work, acks : SUBSET Work,
                  ids : SUBSET Work]
    /\ offered \in Work \cup {0}

\* The queue holds each segment once and never more than it may, and all that a
\* batch protects; what is dropped is not in it.
QueueIsSound ==
    /\ Unique(queue) /\ Len(queue) <= MaxItems
    /\ protected \subseteq Ids(queue)
    /\ Ids(queue) \subseteq 1 .. offered
    /\ dropped \cap Ids(queue) = {}

\* Every segment that was offered is in the queue, settled or dropped; what the
\* runtime thread plans or a batch has left to do is queued or settled.
NothingForgotten ==
    /\ 1 .. offered \subseteq Ids(queue) \cup settled \cup dropped
    /\ \A id \in Work : suppressed[id] # 0 => id <= offered
    /\ runtime.plan \subseteq Ids(queue) \cup settled
    /\ runtime.pc \notin {"plan", "submit"} => runtime.plan = {}
    /\ batch.acks \subseteq settled
    /\ batch.todo \subseteq protected \cup settled

WorkIsHeld == CycleTypes /\ QueueIsSound /\ NothingForgotten

\* Leaving out what is none of ids.
LEMMA RestIs ==
    ASSUME NEW q, NEW ids, q \in Seq(Items)
    PROVE  /\ Rest(q, ids) \in Seq(Items)
           /\ Ids(Rest(q, ids)) = Ids(q) \ ids
           /\ Unique(q) => Unique(Rest(q, ids))
<1> DEFINE P == {i \in DOMAIN q : q[i].id \notin ids}
           r == Rest(q, ids)
<1>1. r = Pick(q, P) /\ DOMAIN q = 1 .. Len(q) /\ Len(q) \in Nat
  BY DEF Rest
<1>2. r \in Seq(Items) /\ \E at : TakenFrom(at, r, q, P, Len(q))
  BY <1>1, PickIsTaken
<1>3. PICK at : TakenFrom(at, r, q, P, Len(q))
  BY <1>2
<1> HIDE DEF r
<1>4. /\ Len(r) \in Nat
      /\ \A k \in 1 .. Len(r) : /\ at[k] \in 1 .. Len(q)
                                /\ q[at[k]].id \notin ids
                                /\ r[k] = q[at[k]]
      /\ \A j, k \in 1 .. Len(r) : j < k => at[j] < at[k]
      /\ \A i \in 1 .. Len(q) : q[i].id \notin ids =>
            \E k \in 1 .. Len(r) : at[k] = i
  <2>1. \A i : i \in P <=> i \in 1 .. Len(q) /\ q[i].id \notin ids
    BY <1>1
  <2> HIDE DEF P
  <2>2. /\ at \in [1 .. Len(r) -> {i \in 1 .. Len(q) : i \in P}]
        /\ \A k \in 1 .. Len(r) : r[k] = q[at[k]]
        /\ \A j, k \in 1 .. Len(r) : j < k => at[j] < at[k]
        /\ \A i \in 1 .. Len(q) : i \in P => \E k \in 1 .. Len(r) : at[k] = i
    BY <1>3, Zenon DEF TakenFrom
  <2>3. \A k \in 1 .. Len(r) : at[k] \in 1 .. Len(q) /\ at[k] \in P
    BY <2>2
  <2>4. Len(r) \in Nat
    BY <1>2
  <2> QED BY <2>1, <2>2, <2>3, <2>4, Zenon
<1>5. Ids(r) = Ids(q) \ ids
  <2>1. ASSUME NEW t \in Ids(r) PROVE t \in Ids(q) /\ t \notin ids
    <3>1. PICK k \in 1 .. Len(r) : t = r[k].id
      BY <2>1 DEF Ids
    <3>2. at[k] \in 1 .. Len(q) /\ q[at[k]].id \notin ids /\ t = q[at[k]].id
      BY <1>4, <3>1
    <3> QED BY <3>2 DEF Ids
  <2>2. ASSUME NEW t \in Ids(q), t \notin ids PROVE t \in Ids(r)
    <3>1. PICK i \in 1 .. Len(q) : t = q[i].id
      BY <2>2 DEF Ids
    <3>2. PICK k \in 1 .. Len(r) : at[k] = i
      BY <1>4, <2>2, <3>1
    <3>3. t = r[k].id
      BY <1>4, <3>1, <3>2
    <3> QED BY <3>2, <3>3 DEF Ids
  <2> QED BY <2>1, <2>2
<1>6. Unique(q) => Unique(r)
  <2> SUFFICES ASSUME Unique(q), NEW j \in 1 .. Len(r), NEW k \in 1 .. Len(r),
                      r[j].id = r[k].id
               PROVE  j = k
    BY DEF Unique
  <2>1. at[j] = at[k]
    <3>1. /\ at[j] \in 1 .. Len(q) /\ at[k] \in 1 .. Len(q)
          /\ q[at[j]].id = q[at[k]].id
      BY <1>4
    <3> QED BY <3>1 DEF Unique
  <2>2. ~ (j < k) /\ ~ (k < j)
    BY <1>1, <1>4, <2>1
  <2> QED BY <1>4, <2>2
<1> QED BY <1>2, <1>5, <1>6 DEF r

\* A sequence without repetitions is as long as the set of its segments.
LEMMA UniqueIsCounted ==
    ASSUME NEW q, q \in Seq(Items), Unique(q)
    PROVE  IsFiniteSet(Ids(q)) /\ Cardinality(Ids(q)) = Len(q)
<1> DEFINE f == [i \in 1 .. Len(q) |-> q[i].id]
<1>1. Len(q) \in Nat
  OBVIOUS
<1>2. f \in [1 .. Len(q) -> Ids(q)]
  BY DEF Ids
<1>3. \A i, j \in 1 .. Len(q) : f[i] = f[j] => i = j
  BY DEF Unique
<1>4. \A t \in Ids(q) : \E i \in 1 .. Len(q) : f[i] = t
  BY DEF Ids
<1> HIDE DEF f
<1> QED BY <1>1, <1>2, <1>3, <1>4, ListedOnce

\* What the limit evicts is held by no batch, and is enough.
LEMMA OverCapacityIs ==
    ASSUME NEW q, q \in Seq(Items), Unique(q), protected \subseteq Ids(q),
           IsFiniteSet(protected), Cardinality(protected) <= MaxItems,
           MaxItems \in Nat
    PROVE  /\ OverCapacity(q) \subseteq Ids(q) \ protected
           /\ Cardinality(Ids(q) \ OverCapacity(q)) <= MaxItems
<1> DEFINE free == Rest(q, protected)
           over == OverCapacity(q)
           excess == Len(q) - MaxItems
<1>1. /\ free \in Seq(Items) /\ Unique(free)
      /\ Ids(free) = Ids(q) \ protected
  BY RestIs
<1>2. over = {free[i].id : i \in {j \in DOMAIN free : j <= excess}}
  BY DEF OverCapacity
<1>3. /\ IsFiniteSet(Ids(q)) /\ Cardinality(Ids(q)) = Len(q)
      /\ Len(q) \in Nat /\ Len(free) \in Nat
      /\ IsFiniteSet(Ids(free)) /\ Cardinality(Ids(free)) = Len(free)
  <2>1. IsFiniteSet(Ids(q)) /\ Cardinality(Ids(q)) = Len(q)
    BY UniqueIsCounted
  <2> HIDE DEF free
  <2>2. IsFiniteSet(Ids(free)) /\ Cardinality(Ids(free)) = Len(free)
    BY <1>1, UniqueIsCounted
  <2> QED BY <1>1, <2>1, <2>2
<1>4. DOMAIN free = 1 .. Len(free)
  BY <1>1
<1> HIDE DEF free, over, excess
<1>5. over \subseteq Ids(free)
  BY <1>2, <1>4 DEF Ids
<1>6. Len(q) = Len(free) + Cardinality(protected)
  <2>1. /\ Cardinality(protected) \in Nat
        /\ Cardinality(Ids(q)) = Cardinality(protected)
                                   + Cardinality(Ids(q) \ protected)
    BY <1>3, PartsAdd
  <2> QED BY <1>1, <1>3, <2>1
<1>7. CASE excess <= 0
  <2>1. Ids(q) \ over \subseteq Ids(q)
    OBVIOUS
  <2>2. /\ Cardinality(Ids(q) \ over) <= Cardinality(Ids(q))
        /\ IsFiniteSet(Ids(q) \ over)
    BY <1>3, <2>1, FS_Subset
  <2>3. Cardinality(Ids(q) \ over) \in Nat
    BY <2>2, FS_CardinalityType
  <2> QED BY <1>1, <1>3, <1>5, <1>7, <2>2, <2>3 DEF over, excess
<1>8. CASE excess \in 1 .. Len(free)
  <2> DEFINE f == [i \in 1 .. excess |-> free[i].id]
  <2>1. over = {free[i].id : i \in 1 .. excess}
    <3>1. {j \in DOMAIN free : j <= excess} = 1 .. excess
      BY <1>3, <1>4, <1>8
    <3> QED BY <1>2, <3>1
  <2>2. f \in [1 .. excess -> over]
    BY <2>1
  <2>3. \A i, j \in 1 .. excess : f[i] = f[j] => i = j
    BY <1>1, <1>3, <1>8 DEF Unique
  <2>4. \A t \in over : \E i \in 1 .. excess : f[i] = t
    BY <2>1
  <2>5. excess \in Nat
    BY <1>3, <1>8
  <2> HIDE DEF f
  <2>6. IsFiniteSet(over) /\ Cardinality(over) = excess
    BY <2>2, <2>3, <2>4, <2>5, ListedOnce
  <2>7. /\ Cardinality(Ids(q) \ over) \in Nat
        /\ Cardinality(Ids(q)) = Cardinality(over) + Cardinality(Ids(q) \ over)
    BY <1>1, <1>3, <1>5, PartsAdd
  <2>8. Cardinality(Ids(q) \ over) = Len(q) - excess
    BY <1>3, <2>5, <2>6, <2>7
  <2> QED BY <1>1, <1>3, <1>5, <2>7, <2>8 DEF over, excess
<1>9. excess \in Int /\ excess <= Len(free)
  <2>1. Cardinality(protected) \in Nat
    BY FS_CardinalityType
  <2> QED BY <1>3, <1>6, <2>1 DEF excess
<1> QED BY <1>3, <1>7, <1>8, <1>9

\* One after the other, if they have no segment in common.
LEMMA ConcatIs ==
    ASSUME NEW q, NEW r, q \in Seq(Items), r \in Seq(Items)
    PROVE  /\ q \o r \in Seq(Items)
           /\ Ids(q \o r) = Ids(q) \cup Ids(r)
           /\ Unique(q) /\ Unique(r) /\ Ids(q) \cap Ids(r) = {} =>
                Unique(q \o r)
<1> DEFINE s == q \o r
           m == Len(q)
           n == Len(r)
<1>1. /\ m \in Nat /\ n \in Nat /\ s \in Seq(Items) /\ Len(s) = m + n
      /\ \A i \in 1 .. m : i \in 1 .. m + n /\ s[i] = q[i]
      /\ \A i \in 1 .. n : m + i \in 1 .. m + n /\ s[m + i] = r[i]
  OBVIOUS
<1>2. \A i \in 1 .. m + n : \/ i \in 1 .. m
                            \/ i - m \in 1 .. n /\ m + (i - m) = i
  OBVIOUS
<1> HIDE DEF s, m, n
<1>3. \A i \in 1 .. m + n : \/ i \in 1 .. m /\ s[i] = q[i]
                            \/ i - m \in 1 .. n /\ s[i] = r[i - m]
  BY <1>1, <1>2
<1>4. Ids(s) = Ids(q) \cup Ids(r)
  <2>1. Ids(s) \subseteq Ids(q) \cup Ids(r)
    <3> SUFFICES ASSUME NEW t \in Ids(s)
                 PROVE  t \in Ids(q) \cup Ids(r)
      OBVIOUS
    <3>1. PICK i \in 1 .. m + n : t = s[i].id
      BY <1>1 DEF Ids
    <3>2. CASE i \in 1 .. m /\ s[i] = q[i]
      BY <3>1, <3>2 DEF Ids, m
    <3>3. CASE i - m \in 1 .. n /\ s[i] = r[i - m]
      BY <3>1, <3>3 DEF Ids, n
    <3> QED BY <1>3, <3>2, <3>3
  <2>2. Ids(q) \subseteq Ids(s)
    BY <1>1 DEF Ids, m
  <2>3. Ids(r) \subseteq Ids(s)
    BY <1>1 DEF Ids, n
  <2> QED BY <2>1, <2>2, <2>3
<1>5. ASSUME Unique(q), Unique(r), Ids(q) \cap Ids(r) = {}
      PROVE  Unique(s)
  <2> SUFFICES ASSUME NEW i \in 1 .. m + n, NEW j \in 1 .. m + n,
                      s[i].id = s[j].id
               PROVE  i = j
    BY <1>1 DEF Unique
  <2>1. CASE i \in 1 .. m /\ j \in 1 .. m
    BY <1>1, <1>5, <2>1 DEF Unique, m
  <2>2. CASE i - m \in 1 .. n /\ j - m \in 1 .. n
    <3>1. s[i] = r[i - m] /\ s[j] = r[j - m]
      BY <1>1, <1>2, <2>2
    <3>2. i - m = j - m
      BY <1>5, <2>2, <3>1 DEF Unique, n
    <3> QED BY <1>1, <3>2
  <2>3. CASE i \in 1 .. m /\ j - m \in 1 .. n
    <3>1. s[i] = q[i] /\ s[j] = r[j - m]
      BY <1>1, <1>2, <2>3
    <3>2. s[i].id \in Ids(q) /\ s[j].id \in Ids(r)
      BY <2>3, <3>1 DEF Ids, m, n
    <3> QED BY <1>5, <3>2
  <2>4. CASE i - m \in 1 .. n /\ j \in 1 .. m
    <3>1. s[i] = r[i - m] /\ s[j] = q[j]
      BY <1>1, <1>2, <2>4
    <3>2. s[i].id \in Ids(r) /\ s[j].id \in Ids(q)
      BY <2>4, <3>1 DEF Ids, m, n
    <3> QED BY <1>5, <3>2
  <2> QED BY <1>2, <2>1, <2>2, <2>3, <2>4
<1> QED BY <1>1, <1>4, <1>5 DEF s

\* The constants, as the proofs use them.
LEMMA CycleFacts ==
    /\ {MaxItems, MaxAge, BatchLimit, Retained, Tick} \subseteq Nat \ {0}
    /\ Listed \in Nat
    /\ Cardinality(Work) \in Nat /\ Work = 1 .. Cardinality(Work)
    /\ Work \subseteq Nat \ {0}
<1>1. IsFiniteSet(Work) /\ Work = 1 .. Cardinality(Work)
  BY CycleAssumption DEF CycleAssumption
<1>2. Cardinality(Work) \in Nat
  BY <1>1, FS_CardinalityType
<1>3. Work \subseteq Nat \ {0}
  BY <1>1, <1>2
<1> QED BY <1>1, <1>2, <1>3, CycleAssumption DEF CycleAssumption

\* The model's name for what is in the queue.
LEMMA QueuedIs ==
    ASSUME CycleTypes
    PROVE  Queued = Ids(queue)
BY DEF CycleTypes, Queued, Ids, ToSet

\* The queue without ids, whatever they are.
LEMMA WithoutIs ==
    ASSUME CycleTypes, QueueIsSound, NEW ids, NEW q, q = Without(ids)
    PROVE  /\ q \in Seq(Items) /\ Unique(q) /\ Ids(q) = Ids(queue) \ ids
           /\ Len(q) <= MaxItems
<1>1. /\ q \in Seq(Items) /\ Unique(q) /\ Ids(q) = Ids(queue) \ ids
  BY RestIs DEF Without, CycleTypes, QueueIsSound
<1>2. IsFiniteSet(Ids(queue)) /\ Cardinality(Ids(queue)) = Len(queue)
  BY UniqueIsCounted DEF CycleTypes, QueueIsSound
<1>3. IsFiniteSet(Ids(q)) /\ Cardinality(Ids(q)) = Len(q)
  BY <1>1, UniqueIsCounted
<1>4. Cardinality(Ids(q)) <= Cardinality(Ids(queue))
  BY <1>1, <1>2, FS_Subset
<1>5. Len(q) \in Nat /\ Len(queue) \in Nat /\ MaxItems \in Nat
  BY <1>1, CycleFacts DEF CycleTypes
<1>6. Len(q) <= MaxItems
  BY <1>2, <1>3, <1>4, <1>5 DEF QueueIsSound
<1> QED BY <1>1, <1>6

\* Only what was offered is suppressed.
LEMMA SuppressIs ==
    ASSUME CycleTypes, NothingForgotten, NEW ids, ids \subseteq 1 .. offered,
           NEW f, f = Suppress(ids)
    PROVE  /\ f \in [Work -> Nat]
           /\ \A id \in Work : f[id] # 0 => id <= offered
BY CycleFacts DEF CycleTypes, NothingForgotten, Suppress

\* What is dropped is dropped from the queue.
LEMMA DropKeeps ==
    ASSUME CycleTypes, QueueIsSound, NothingForgotten, NEW ids,
           ids \subseteq Ids(queue) \ protected, Drop(ids),
           UNCHANGED <<offered, protected>>
    PROVE  /\ queue' \in Seq(Items) /\ suppressed' \in [Work -> Nat]
           /\ Ids(queue)' = Ids(queue) \ ids
           /\ dropped' = dropped \cup ids
           /\ QueueIsSound'
           /\ (\A id \in Work : suppressed[id] # 0 => id <= offered)'
<1>1. PICK q : q = queue'
  OBVIOUS
<1>2. /\ q \in Seq(Items) /\ Unique(q) /\ Ids(q) = Ids(queue) \ ids
      /\ Len(q) <= MaxItems
  BY <1>1, WithoutIs DEF Drop
<1>3. PICK f : f = suppressed'
  OBVIOUS
<1>4. ids \subseteq 1 .. offered /\ f = Suppress(ids)
  BY <1>3 DEF Drop, QueueIsSound
<1>5. f \in [Work -> Nat] /\ \A id \in Work : f[id] # 0 => id <= offered
  BY <1>4, SuppressIs
<1>6. Ids(queue)' = Ids(queue) \ ids /\ Unique(queue)'
  BY <1>1, <1>2 DEF Ids, Unique
<1>7. dropped' = dropped \cup ids
  BY DEF Drop
<1>8. QueueIsSound'
  BY <1>1, <1>2, <1>6, <1>7 DEF QueueIsSound
<1> QED BY <1>1, <1>2, <1>3, <1>5, <1>6, <1>7, <1>8

\* What is acknowledged leaves the queue and is dropped by nobody.
LEMMA AcknowledgeKeeps ==
    ASSUME CycleTypes, QueueIsSound, NothingForgotten, NEW ids,
           Acknowledge(ids), UNCHANGED offered
    PROVE  /\ queue' \in Seq(Items) /\ suppressed' \in [Work -> Nat]
           /\ Ids(queue)' = Ids(queue) \ ids
           /\ protected' = protected \ ids
           /\ dropped' = dropped
           /\ QueueIsSound'
           /\ (\A id \in Work : suppressed[id] # 0 => id <= offered)'
<1>1. PICK q : q = queue'
  OBVIOUS
<1>2. /\ q \in Seq(Items) /\ Unique(q) /\ Ids(q) = Ids(queue) \ ids
      /\ Len(q) <= MaxItems
  BY <1>1, WithoutIs DEF Acknowledge
<1>3. PICK f : f = suppressed'
  OBVIOUS
<1>4. ids \cap Queued \subseteq 1 .. offered /\ f = Suppress(ids \cap Queued)
  BY <1>3, QueuedIs DEF Acknowledge, QueueIsSound
<1>5. f \in [Work -> Nat] /\ \A id \in Work : f[id] # 0 => id <= offered
  BY <1>4, SuppressIs
<1>6. Ids(queue)' = Ids(queue) \ ids /\ Unique(queue)'
  BY <1>1, <1>2 DEF Ids, Unique
<1>7. dropped' = dropped /\ protected' = protected \ ids
  BY DEF Acknowledge
<1>8. QueueIsSound'
  BY <1>1, <1>2, <1>6, <1>7 DEF QueueIsSound
<1> QED BY <1>1, <1>2, <1>3, <1>5, <1>6, <1>7, <1>8

\* What expires, and what lies behind the live edge, is held by no batch.
LEMMA FreeOnly ==
    ASSUME CycleTypes
    PROVE  /\ Expired \subseteq Ids(queue) \ protected
           /\ BehindLiveEdge \subseteq Ids(queue) \ protected
<1>1. Expired \subseteq Ids(queue) \ protected
  BY DEF CycleTypes, Expired, Ids, ToSet
<1>2. BehindLiveEdge \subseteq Ids(queue) \ protected
  BY QueuedIs DEF BehindLiveEdge
<1> QED BY <1>1, <1>2

-----------------------------------------------------------------------------
(* One lemma for each action.                                              *)

LEMMA HeldInit ==
    ASSUME CycleInit
    PROVE  WorkIsHeld
<1>1. queue = <<>> /\ Ids(queue) = {}
  BY DEF CycleInit, Ids
<1>2. CycleTypes
  <2>1. queue \in Seq(Items)
    BY <1>1
  <2> QED BY <2>1 DEF CycleInit, CycleTypes
<1>3. QueueIsSound
  BY <1>1, CycleFacts DEF CycleInit, QueueIsSound, Unique
<1>4. NothingForgotten
  BY <1>1 DEF CycleInit, NothingForgotten
<1> QED BY <1>2, <1>3, <1>4 DEF WorkIsHeld

LEMMA DispatchHeld ==
    ASSUME WorkIsHeld, Dispatch
    PROVE  WorkIsHeld'
<1> USE DEF WorkIsHeld
<1> DEFINE ids == Expired
<1>1. /\ Drop(ids) /\ protected' = protected /\ offered' = offered
      /\ batch' = batch /\ settled' = settled
      /\ runtime' = [pc |-> "plan",
                     round |-> IF RuntimeAt("wait") THEN 1 ELSE 2,
                     plan |-> Queued \ ids]
  BY DEF Dispatch, batchVars, offerVars
<1>2. ids \subseteq Ids(queue) \ protected /\ Queued = Ids(queue)
  BY FreeOnly, QueuedIs
<1> HIDE DEF ids
<1>3. /\ queue' \in Seq(Items) /\ suppressed' \in [Work -> Nat]
      /\ Ids(queue)' = Ids(queue) \ ids /\ dropped' = dropped \cup ids
      /\ QueueIsSound'
      /\ (\A id \in Work : suppressed[id] # 0 => id <= offered)'
  BY <1>1, <1>2, DropKeeps
<1>4. Ids(queue) \subseteq Work
  <2>1. \A i \in 1 .. Len(queue) : queue[i] \in Items
    BY DEF CycleTypes
  <2> QED BY <2>1 DEF Ids, Items
<1>5. CycleTypes'
  <2>1. Ids(queue) \ ids \subseteq Work
    BY <1>4
  <2>2. runtime' = [pc |-> "plan",
                    round |-> IF RuntimeAt("wait") THEN 1 ELSE 2,
                    plan |-> Ids(queue) \ ids]
    BY <1>1, <1>2
  <2> QED BY <1>1, <1>3, <2>1, <2>2 DEF CycleTypes
<1>6. NothingForgotten'
  BY <1>1, <1>2, <1>3 DEF NothingForgotten, QueueIsSound
<1> QED BY <1>3, <1>5, <1>6

LEMMA PlanHeld ==
    ASSUME WorkIsHeld, Plan
    PROVE  WorkIsHeld'
<1> USE DEF WorkIsHeld
<1> DEFINE ids == runtime.plan \cap settled
<1>1. /\ Acknowledge(ids) /\ offered' = offered
      /\ batch' = batch /\ settled' = settled /\ runtime.pc = "plan"
  BY DEF Plan, batchVars, offerVars, RuntimeAt
<1>2. PICK work : /\ work \subseteq runtime.plan \ settled
                  /\ runtime' = [runtime EXCEPT
                        !.pc = IF work = {} THEN After(runtime.round)
                               ELSE "submit", !.plan = work]
  BY DEF Plan, Oldest
<1>3. /\ queue' \in Seq(Items) /\ suppressed' \in [Work -> Nat]
      /\ Ids(queue)' = Ids(queue) \ ids /\ protected' = protected \ ids
      /\ dropped' = dropped /\ QueueIsSound'
      /\ (\A id \in Work : suppressed[id] # 0 => id <= offered)'
  BY <1>1, AcknowledgeKeeps
<1>4. runtime' = [pc |-> IF work = {} THEN After(runtime.round) ELSE "submit",
                  round |-> runtime.round, plan |-> work]
  BY <1>2 DEF CycleTypes
<1>5. CycleTypes'
  <2>1. runtime.round \in {1, 2} /\ work \subseteq Work
    BY <1>2 DEF CycleTypes
  <2> QED BY <1>1, <1>3, <1>4, <2>1 DEF CycleTypes, After
<1>6. NothingForgotten'
  BY <1>1, <1>2, <1>3, <1>4 DEF NothingForgotten, After
<1> QED BY <1>3, <1>5, <1>6

LEMMA PressHeld ==
    ASSUME WorkIsHeld, Press
    PROVE  WorkIsHeld'
<1> USE DEF WorkIsHeld
<1> DEFINE ids == BehindLiveEdge
<1>1. /\ protected' = protected /\ offered' = offered
      /\ batch' = batch /\ settled' = settled /\ runtime.pc = "press"
      /\ runtime' = [runtime EXCEPT !.pc = "pressed"]
      /\ Drop(ids) \/ UNCHANGED <<queue, suppressed, dropped>>
  BY DEF Press, batchVars, offerVars, RuntimeAt
<1>2. ids \subseteq Ids(queue) \ protected
  BY FreeOnly
<1> HIDE DEF ids
<1>3. /\ queue' \in Seq(Items) /\ suppressed' \in [Work -> Nat]
      /\ Ids(queue)' \subseteq Ids(queue)
      /\ \A id \in Ids(queue) : id \in Ids(queue)' \/ id \in dropped'
      /\ dropped \subseteq dropped'
      /\ QueueIsSound'
      /\ (\A id \in Work : suppressed[id] # 0 => id <= offered)'
  <2>1. CASE Drop(ids)
    BY <1>1, <1>2, <2>1, DropKeeps
  <2>2. CASE UNCHANGED <<queue, suppressed, dropped>>
    BY <1>1, <2>2 DEF CycleTypes, QueueIsSound, NothingForgotten, Ids, Unique
  <2> QED BY <1>1, <2>1, <2>2
<1>4. runtime' = [pc |-> "pressed", round |-> runtime.round,
                  plan |-> runtime.plan] /\ runtime.plan = {}
  BY <1>1 DEF CycleTypes, NothingForgotten
<1>5. CycleTypes'
  <2>1. runtime.round \in {1, 2} /\ runtime.plan \subseteq Work
    BY DEF CycleTypes
  <2> QED BY <1>1, <1>3, <1>4, <2>1 DEF CycleTypes
<1>6. NothingForgotten'
  BY <1>1, <1>3, <1>4 DEF NothingForgotten
<1> QED BY <1>3, <1>5, <1>6

LEMMA AckHeld ==
    ASSUME WorkIsHeld, NEW id \in Work, Ack(id)
    PROVE  WorkIsHeld'
<1> USE DEF WorkIsHeld
<1>1. /\ Acknowledge({id}) /\ offered' = offered /\ settled' = settled
      /\ runtime' = runtime /\ id \in batch.acks
      /\ batch' = [batch EXCEPT !.acks = @ \ {id}]
  BY DEF Ack, offerVars
<1>2. /\ queue' \in Seq(Items) /\ suppressed' \in [Work -> Nat]
      /\ Ids(queue)' = Ids(queue) \ {id} /\ protected' = protected \ {id}
      /\ dropped' = dropped /\ QueueIsSound'
      /\ (\A i \in Work : suppressed[i] # 0 => i <= offered)'
  BY <1>1, AcknowledgeKeeps
<1>3. batch' = [reserved |-> batch.reserved, todo |-> batch.todo,
                acks |-> batch.acks \ {id}, ids |-> batch.ids]
  BY <1>1 DEF CycleTypes
<1>4. id \in settled
  BY <1>1 DEF NothingForgotten
<1>5. CycleTypes'
  BY <1>1, <1>2, <1>3 DEF CycleTypes
<1>6. NothingForgotten'
  BY <1>1, <1>2, <1>3, <1>4 DEF NothingForgotten
<1> QED BY <1>2, <1>5, <1>6

\* The actions that leave the queue as it is.
LEMMA OtherHeld ==
    ASSUME WorkIsHeld,
           \/ PlanFails \/ PollFails \/ Submit \/ BatchEnds
           \/ \E id \in Work : Settle(id) \/ Miss(id) \/ SettledElsewhere(id)
    PROVE  WorkIsHeld'
<1> USE DEF WorkIsHeld, batchVars, offerVars, queueVars, controlVars
<1>0. UNCHANGED <<queue, suppressed, dropped, offered>>
  BY DEF PlanFails, PollFails, Submit, BatchEnds, Settle, Miss,
         SettledElsewhere
<1>1. Ids(queue)' = Ids(queue) /\ Unique(queue)' = Unique(queue)
  BY <1>0 DEF Ids, Unique
<1>2. ASSUME protected' \subseteq Ids(queue)
      PROVE  QueueIsSound'
  BY <1>0, <1>1, <1>2 DEF QueueIsSound
<1>3. CASE PlanFails \/ PollFails
  <2>1. /\ runtime' = [pc |-> "wait", round |-> 1, plan |-> {}]
        /\ UNCHANGED <<protected, batch, settled>>
    BY <1>3 DEF PlanFails, PollFails, Abandon
  <2>2. CycleTypes'
    BY <1>0, <2>1 DEF CycleTypes
  <2>3. NothingForgotten'
    BY <1>0, <1>1, <2>1 DEF NothingForgotten
  <2> QED BY <1>2, <2>1, <2>2, <2>3 DEF QueueIsSound
<1>4. CASE Submit
  <2>1. /\ runtime' = [pc |-> After(runtime.round), round |-> runtime.round,
                       plan |-> {}]
        /\ settled' = settled
    BY <1>4 DEF Submit, CycleTypes
  <2>2. \/ /\ batch' = [reserved |-> TRUE, todo |-> runtime.plan, acks |-> {},
                        ids |-> runtime.plan]
           /\ protected' = protected \cup (runtime.plan \cap Ids(queue))
        \/ UNCHANGED <<batch, protected>>
    BY <1>4, QueuedIs DEF Submit
  <2>3. CycleTypes'
    <3>1. /\ runtime.round \in {1, 2} /\ runtime.plan \subseteq Work
          /\ After(runtime.round) \in {"wait", "poll"}
      BY DEF CycleTypes, After
    <3>2. runtime' \in [pc : {"wait", "plan", "submit", "poll", "press",
                              "pressed"},
                        round : {1, 2}, plan : SUBSET Work]
      BY <2>1, <3>1
    <3>3. batch' \in [reserved : BOOLEAN, todo : SUBSET Work,
                      acks : SUBSET Work, ids : SUBSET Work]
      <4>1. CASE batch' = [reserved |-> TRUE, todo |-> runtime.plan,
                           acks |-> {}, ids |-> runtime.plan]
        BY <3>1, <4>1
      <4>2. CASE batch' = batch
        BY <4>2 DEF CycleTypes
      <4> QED BY <2>2, <4>1, <4>2
    <3> QED BY <1>0, <3>2, <3>3 DEF CycleTypes
  <2>4. NothingForgotten'
    BY <1>0, <1>1, <2>1, <2>2 DEF NothingForgotten
  <2> QED BY <1>2, <2>2, <2>3, <2>4 DEF QueueIsSound
<1>5. CASE BatchEnds
  <2>1. /\ protected' = protected \ batch.ids
        /\ batch' = [reserved |-> FALSE, todo |-> {}, acks |-> {}, ids |-> {}]
        /\ UNCHANGED <<runtime, settled>>
    BY <1>5 DEF BatchEnds
  <2>2. CycleTypes' /\ NothingForgotten'
    BY <1>0, <1>1, <2>1 DEF CycleTypes, NothingForgotten
  <2> QED BY <1>2, <2>1, <2>2 DEF QueueIsSound
<1>6. ASSUME NEW id \in Work, Settle(id) \/ Miss(id) \/ SettledElsewhere(id)
      PROVE  WorkIsHeld'
  <2>1. /\ UNCHANGED <<protected, runtime>>
        /\ settled \subseteq settled'
        /\ \/ batch' = batch
           \/ /\ batch' = [reserved |-> batch.reserved,
                           todo |-> batch.todo \ {id},
                           acks |-> batch.acks \cup {id}, ids |-> batch.ids]
              /\ settled' = settled \cup {id}
           \/ batch' = [reserved |-> batch.reserved,
                        todo |-> batch.todo \ {id},
                        acks |-> batch.acks, ids |-> batch.ids]
    BY <1>6 DEF Settle, Miss, SettledElsewhere, CycleTypes
  <2>2. CycleTypes' /\ NothingForgotten'
    BY <1>0, <1>1, <2>1 DEF CycleTypes, NothingForgotten
  <2> QED BY <1>2, <2>1, <2>2 DEF QueueIsSound
<1> QED BY <1>3, <1>4, <1>5, <1>6

LEMMA TimeHeld ==
    ASSUME WorkIsHeld, TimePasses
    PROVE  WorkIsHeld'
<1> USE DEF WorkIsHeld
<1>1. UNCHANGED <<protected, dropped, runtime, batch, settled, offered>>
  BY DEF TimePasses, batchVars, offerVars
<1>2. /\ Len(queue) \in Nat /\ DOMAIN queue = 1 .. Len(queue)
      /\ \A i \in 1 .. Len(queue) : queue[i] \in Items
  BY DEF CycleTypes
<1>3. PICK q : q = queue'
  OBVIOUS
<1>4. q = [i \in 1 .. Len(queue) |->
              [queue[i] EXCEPT !.age = Lower(@ + Tick, MaxAge)]]
  BY <1>2, <1>3 DEF TimePasses
<1>5. \A i \in 1 .. Len(queue) : q[i] \in Items /\ q[i].id = queue[i].id
  <2> SUFFICES ASSUME NEW i \in 1 .. Len(queue)
               PROVE  q[i] \in Items /\ q[i].id = queue[i].id
    OBVIOUS
  <2>1. PICK item : item = queue[i]
    OBVIOUS
  <2>2. item \in Items /\ q[i] = [item EXCEPT !.age = Lower(@ + Tick, MaxAge)]
    BY <1>2, <1>4, <2>1
  <2>3. Lower(item.age + Tick, MaxAge) \in Nat
    BY <2>2, CycleFacts DEF Items, Lower
  <2>4. q[i] = [id |-> item.id, age |-> Lower(item.age + Tick, MaxAge)]
    BY <2>2 DEF Items
  <2> QED BY <2>1, <2>2, <2>3, <2>4 DEF Items
<1>6. q \in Seq(Items) /\ Len(q) = Len(queue)
  <2>1. q \in [1 .. Len(queue) -> Items]
    BY <1>4, <1>5
  <2> QED BY <1>2, <2>1
<1>7. Ids(q) = Ids(queue) /\ Unique(q)
  BY <1>5, <1>6 DEF Ids, Unique, QueueIsSound
<1>8. PICK f : f = suppressed'
  OBVIOUS
<1>9. f = [id \in Work |-> IF suppressed[id] < Tick THEN 0
                           ELSE suppressed[id] - Tick]
  BY <1>8 DEF TimePasses
<1>10. /\ f \in [Work -> Nat]
       /\ \A id \in Work : f[id] # 0 => id <= offered
  BY <1>9, CycleFacts DEF CycleTypes, NothingForgotten
<1>11. Ids(queue)' = Ids(queue) /\ Unique(queue)' /\ Len(queue') = Len(queue)
  <2>1. Ids(queue)' = Ids(q) /\ (Unique(queue)' <=> Unique(q))
    BY <1>3 DEF Ids, Unique
  <2> QED BY <1>3, <1>6, <1>7, <2>1
<1>12. CycleTypes'
  BY <1>1, <1>3, <1>6, <1>8, <1>10 DEF CycleTypes
<1>13. QueueIsSound'
  BY <1>1, <1>11 DEF QueueIsSound
<1>14. NothingForgotten'
  BY <1>1, <1>8, <1>10, <1>11 DEF NothingForgotten
<1> QED BY <1>12, <1>13, <1>14

\* What a poll offers: perhaps a segment again, then what the playlist has new.
OfferOf(again, new) ==
    LET listed == again \o [i \in 1 .. new |-> offered + i]
    IN  [i \in DOMAIN listed |-> [id |-> listed[i], age |-> 0]]

\* What is offered at once: none of it twice.
LEMMA OfferIs ==
    ASSUME NEW again, NEW new, new \in Nat, offered \in Nat,
           offered + new \in Work \cup {0},
           again \in {<<>>} \cup {<<id>> : id \in {i \in Work : i <= offered}},
           NEW offer, offer = OfferOf(again, new)
    PROVE  /\ offer \in Seq(Items) /\ Unique(offer)
           /\ (offered + 1) .. (offered + new) \subseteq Ids(offer)
           /\ Ids(offer) \subseteq 1 .. offered + new
<1> DEFINE fresh == [j \in 1 .. new |-> offered + j]
           listed == again \o fresh
<1>1. /\ fresh \in Seq(Nat) /\ Len(fresh) = new
      /\ \A j \in 1 .. new : fresh[j] = offered + j
  OBVIOUS
<1>2. PICK k \in {0, 1} :
         /\ Len(again) = k /\ again \in Seq(Nat)
         /\ k = 1 => again[1] \in Work /\ again[1] <= offered
  <2>1. CASE again = <<>>
    BY <2>1
  <2>2. CASE again # <<>>
    <3>1. PICK id \in Work : id <= offered /\ again = <<id>>
      BY <2>2
    <3> QED BY <3>1, CycleFacts
  <2> QED BY <2>1, <2>2
<1> HIDE DEF fresh
<1>3. /\ listed \in Seq(Nat) /\ Len(listed) = k + new
      /\ k = 1 => listed[1] = again[1]
      /\ \A j \in 1 .. new : listed[k + j] = fresh[j] /\ k + j \in 1 .. k + new
      /\ DOMAIN listed = 1 .. k + new
  <2>1. /\ Len(again) = k /\ Len(fresh) = new
        /\ again \in Seq(Nat) /\ fresh \in Seq(Nat)
    BY <1>1, <1>2
  <2>2. /\ listed \in Seq(Nat) /\ Len(listed) = k + new
        /\ \A j \in 1 .. k : j \in 1 .. k + new /\ listed[j] = again[j]
        /\ \A j \in 1 .. new : /\ k + j \in 1 .. k + new
                              /\ listed[k + j] = fresh[j]
    <3>1. /\ listed \in Seq(Nat) /\ Len(listed) = Len(again) + Len(fresh)
          /\ \A i \in 1 .. Len(again) :
                /\ i \in 1 .. Len(again) + Len(fresh)
                /\ listed[i] = again[i]
          /\ \A i \in 1 .. Len(fresh) :
                /\ Len(again) + i \in 1 .. Len(again) + Len(fresh)
                /\ listed[Len(again) + i] = fresh[i]
      <4> DEFINE N == Nat
      <4>1. again \in Seq(N) /\ fresh \in Seq(N)
        BY <2>1
      <4> HIDE DEF N
      <4>2. /\ listed \in Seq(N) /\ Len(listed) = Len(again) + Len(fresh)
            /\ \A i \in 1 .. Len(again) :
                  /\ i \in 1 .. Len(again) + Len(fresh)
                  /\ listed[i] = again[i]
            /\ \A i \in 1 .. Len(fresh) :
                  /\ Len(again) + i \in 1 .. Len(again) + Len(fresh)
                  /\ listed[Len(again) + i] = fresh[i]
        BY <4>1, ConcatAt
      <4> QED BY <4>2 DEF N
    <3> HIDE DEF listed
    <3> QED BY <2>1, <3>1, Zenon
  <2>3. k = 1 => listed[1] = again[1]
    BY <2>2
  <2>4. DOMAIN listed = 1 .. k + new
    BY <2>2
  <2> QED BY <2>2, <2>3, <2>4
<1>4. offer = [i \in 1 .. k + new |-> [id |-> listed[i], age |-> 0]]
  BY <1>3, Zenon DEF fresh, OfferOf
<1> HIDE DEF listed
<1>5. Work \subseteq Nat \ {0} /\ \A i \in 1 .. offered + new : i \in Work
  <2>1. Cardinality(Work) \in Nat /\ Work = 1 .. Cardinality(Work)
        /\ Work \subseteq Nat \ {0}
    BY CycleFacts
  <2>2. offered + new <= Cardinality(Work)
    BY <2>1
  <2> QED BY <2>1, <2>2
<1>6. \A i \in 1 .. k + new :
         \/ i = 1 /\ k = 1 /\ listed[i] = again[1]
         \/ i - k \in 1 .. new /\ listed[i] = offered + (i - k)
  <2> SUFFICES ASSUME NEW i \in 1 .. k + new
               PROVE  \/ i = 1 /\ k = 1 /\ listed[i] = again[1]
                      \/ i - k \in 1 .. new /\ listed[i] = offered + (i - k)
    OBVIOUS
  <2>1. (i = 1 /\ k = 1) \/ i - k \in 1 .. new
    BY <1>2
  <2>2. ASSUME i - k \in 1 .. new PROVE listed[i] = offered + (i - k)
    <3>1. listed[k + (i - k)] = offered + (i - k)
      BY <1>1, <1>3, <2>2
    <3>2. k + (i - k) = i
      BY <1>2
    <3> QED BY <3>1, <3>2
  <2> QED BY <1>3, <2>1, <2>2
<1>7. \A i \in 1 .. k + new : listed[i] \in 1 .. offered + new
  BY <1>2, <1>5, <1>6
<1>8. offer \in Seq(Items) /\ Len(offer) = k + new
      /\ \A i \in 1 .. k + new : offer[i].id = listed[i]
  <2>1. offer \in [1 .. k + new -> Items]
    BY <1>4, <1>5, <1>7 DEF Items
  <2> QED BY <1>2, <1>4, <2>1
<1>9. Unique(offer)
  <2> SUFFICES ASSUME NEW i \in 1 .. k + new, NEW j \in 1 .. k + new,
                      listed[i] = listed[j]
               PROVE  i = j
    BY <1>8 DEF Unique
  <2>1. i \in Int /\ j \in Int /\ k \in Int /\ offered \in Nat
    BY <1>2
  <2>2. ASSUME k = 1, NEW m \in 1 .. new PROVE again[1] < offered + m
    <3>1. again[1] \in Work /\ again[1] <= offered
      BY <1>2, <2>2
    <3>2. again[1] \in Nat
      BY <1>5, <3>1
    <3>3. m \in Nat /\ m >= 1
      OBVIOUS
    <3> QED BY <2>1, <3>1, <3>2, <3>3
  <2>3. CASE i - k \in 1 .. new /\ j - k \in 1 .. new
    <3>1. offered + (i - k) = offered + (j - k)
      BY <1>2, <1>6, <2>1, <2>3
    <3> QED BY <2>1, <3>1
  <2>4. ASSUME NEW x \in 1 .. k + new, NEW y \in 1 .. k + new,
               x = 1, k = 1, listed[x] = again[1], listed[x] = listed[y]
        PROVE  y = 1
    <3>1. ASSUME y - k \in 1 .. new, listed[y] = offered + (y - k)
          PROVE  FALSE
      <4>1. again[1] < offered + (y - k)
        BY <2>2, <2>4, <3>1
      <4> QED BY <1>2, <1>5, <2>1, <2>4, <3>1, <4>1
    <3> QED BY <1>6, <3>1
  <2>5. CASE i = 1 /\ k = 1 /\ listed[i] = again[1]
    BY <2>4, <2>5
  <2>6. CASE j = 1 /\ k = 1 /\ listed[j] = again[1]
    BY <2>4, <2>6
  <2> QED BY <1>6, <2>3, <2>5, <2>6
<1>10. (offered + 1) .. (offered + new) \subseteq Ids(offer)
  <2> SUFFICES ASSUME NEW t \in (offered + 1) .. (offered + new)
               PROVE  t \in Ids(offer)
    OBVIOUS
  <2>1. t - offered \in 1 .. new /\ offered + (t - offered) = t
    OBVIOUS
  <2>2. /\ k + (t - offered) \in 1 .. k + new
        /\ listed[k + (t - offered)] = t
    BY <1>1, <1>3, <2>1
  <2> QED BY <1>8, <2>2 DEF Ids
<1>11. Ids(offer) \subseteq 1 .. offered + new
  BY <1>7, <1>8 DEF Ids
<1> QED BY <1>8, <1>9, <1>10, <1>11

\* What comes new is queued or dropped at once, and what was queued stays
\* unless it has expired or is over the limit.
LEMMA PollHeld ==
    ASSUME WorkIsHeld, Poll
    PROVE  WorkIsHeld'
<1> USE DEF WorkIsHeld
<1>1. PICK new \in 0 .. 2,
           again \in {<<>>} \cup {<<id>> : id \in {i \in Work :
                                     offered - Listed < i /\ i <= offered}} :
        /\ offered + new \in Work \cup {0}
        /\ offered' = offered + new
        /\ LET listed == again \o [i \in 1 .. new |-> offered + i]
               offer == [i \in DOMAIN listed |-> [id |-> listed[i], age |-> 0]]
               stale == Expired
               accepted == Rest(offer, Queued \cup
                                         {id \in Work : suppressed[id] # 0})
               items == Without(stale) \o accepted
               excess == OverCapacity(items)
           IN  /\ queue' = Rest(items, excess)
               /\ dropped' = ((dropped \cup stale)
                              \ {item.id : item \in ToSet(accepted)})
                             \cup excess
               /\ suppressed' = [id \in Work |->
                     IF id <= offered + new - Listed THEN 0
                     ELSE IF id \in stale \cup excess THEN MaxAge
                     ELSE suppressed[id]]
  BY Zenon DEF Poll
<1>2. /\ UNCHANGED <<protected, batch, settled>> /\ runtime.pc = "poll"
      /\ runtime' = [runtime EXCEPT !.pc = "press"]
  BY DEF Poll, batchVars, RuntimeAt
<1> DEFINE listed == again \o [i \in 1 .. new |-> offered + i]
<1>3. PICK offer : offer = [i \in DOMAIN listed |->
                               [id |-> listed[i], age |-> 0]]
  OBVIOUS
<1>4. PICK stale : stale = Expired
  OBVIOUS
<1>5. PICK refused : refused = Queued \cup {id \in Work : suppressed[id] # 0}
  OBVIOUS
<1>6. PICK accepted : accepted = Rest(offer, refused)
  OBVIOUS
<1>7. PICK kept : kept = Without(stale)
  OBVIOUS
<1>8. PICK items : items = kept \o accepted
  OBVIOUS
<1>9. PICK excess : excess = OverCapacity(items)
  OBVIOUS
<1>10. PICK last : last = Rest(items, excess)
  OBVIOUS
<1>11. /\ queue' = last
       /\ dropped' = ((dropped \cup stale)
                      \ {item.id : item \in ToSet(accepted)}) \cup excess
       /\ suppressed' = [id \in Work |->
             IF id <= offered + new - Listed THEN 0
             ELSE IF id \in stale \cup excess THEN MaxAge
             ELSE suppressed[id]]
  BY <1>1, <1>3, <1>4, <1>5, <1>6, <1>7, <1>8, <1>9, <1>10, Zenon
<1>12. /\ new \in Nat /\ offered \in Nat
       /\ again \in {<<>>} \cup {<<id>> : id \in {i \in Work : i <= offered}}
  <2>1. new \in Nat
    OBVIOUS
  <2>2. offered \in Nat
    BY CycleFacts DEF CycleTypes
  <2>3. {i \in Work : offered - Listed < i /\ i <= offered}
          \subseteq {i \in Work : i <= offered}
    OBVIOUS
  <2> QED BY <2>1, <2>2, <2>3
<1>13. /\ offer \in Seq(Items) /\ Unique(offer)
       /\ (offered + 1) .. (offered + new) \subseteq Ids(offer)
       /\ Ids(offer) \subseteq 1 .. offered + new
  <2>1. offer = OfferOf(again, new)
    BY <1>3, Zenon DEF OfferOf
  <2> QED BY <1>1, <1>12, <2>1, OfferIs
<1> HIDE DEF listed
<1>14. /\ accepted \in Seq(Items) /\ Unique(accepted)
       /\ Ids(accepted) = Ids(offer) \ refused
  BY <1>6, <1>13, RestIs
<1>15. stale \subseteq Ids(queue) \ protected /\ Queued = Ids(queue)
  BY <1>4, FreeOnly, QueuedIs
<1>16. /\ kept \in Seq(Items) /\ Unique(kept)
       /\ Ids(kept) = Ids(queue) \ stale /\ Len(kept) <= MaxItems
  BY <1>7, WithoutIs
<1>17. /\ items \in Seq(Items) /\ Unique(items)
       /\ Ids(items) = (Ids(queue) \ stale) \cup (Ids(offer) \ refused)
  <2>1. Ids(kept) \cap Ids(accepted) = {}
    BY <1>5, <1>14, <1>15, <1>16
  <2> QED BY <1>8, <1>14, <1>16, <2>1, ConcatIs
<1>18. /\ protected \subseteq Ids(items) /\ MaxItems \in Nat
       /\ IsFiniteSet(protected) /\ Cardinality(protected) <= MaxItems
  <2>1. protected \subseteq Ids(kept)
    BY <1>15, <1>16 DEF QueueIsSound
  <2>2. IsFiniteSet(Ids(kept)) /\ Cardinality(Ids(kept)) = Len(kept)
    BY <1>16, UniqueIsCounted
  <2>3. /\ IsFiniteSet(protected)
        /\ Cardinality(protected) <= Cardinality(Ids(kept))
    BY <2>1, <2>2, FS_Subset
  <2>4. Cardinality(protected) \in Nat /\ Len(kept) \in Nat /\ MaxItems \in Nat
    BY <1>16, <2>3, FS_CardinalityType, CycleFacts
  <2>5. Cardinality(protected) <= MaxItems
    BY <1>16, <2>2, <2>3, <2>4
  <2> QED BY <1>16, <1>17, <2>1, <2>3, <2>4, <2>5
<1>19. /\ excess \subseteq Ids(items) \ protected
       /\ Cardinality(Ids(items) \ excess) <= MaxItems
  BY <1>9, <1>17, <1>18, OverCapacityIs
<1>20. /\ last \in Seq(Items) /\ Unique(last)
       /\ Ids(last) = Ids(items) \ excess
       /\ Cardinality(Ids(last)) = Len(last)
  BY <1>10, <1>17, RestIs, UniqueIsCounted
<1>21. /\ queue' \in Seq(Items) /\ Unique(queue)' /\ Len(queue') <= MaxItems
       /\ Ids(queue)' = Ids(items) \ excess
  <2>1. Ids(queue)' = Ids(last) /\ (Unique(queue)' <=> Unique(last))
    BY <1>11 DEF Ids, Unique
  <2> QED BY <1>11, <1>19, <1>20, <2>1
<1>22. dropped' = ((dropped \cup stale) \ Ids(accepted)) \cup excess
  <2>1. {item.id : item \in ToSet(accepted)} = Ids(accepted)
    BY <1>14 DEF Ids, ToSet
  <2> QED BY <1>11, <2>1
<1>23. /\ suppressed' \in [Work -> Nat]
       /\ (\A id \in Work : suppressed[id] # 0 => id <= offered)'
  <2>1. PICK f : f = suppressed'
    OBVIOUS
  <2>2. f = [id \in Work |-> IF id <= offered + new - Listed THEN 0
                             ELSE IF id \in stale \cup excess THEN MaxAge
                             ELSE suppressed[id]]
    BY <1>11, <2>1
  <2>3. stale \cup excess \subseteq 1 .. offered + new
    BY <1>12, <1>13, <1>15, <1>17, <1>19 DEF QueueIsSound
  <2>4. /\ f \in [Work -> Nat]
        /\ \A id \in Work : f[id] # 0 => id <= offered + new
    BY <1>12, <2>2, <2>3, CycleFacts DEF CycleTypes, NothingForgotten
  <2> QED BY <1>1, <2>1, <2>4
<1>24. /\ runtime' = [pc |-> "press", round |-> runtime.round,
                      plan |-> runtime.plan]
       /\ runtime.round \in {1, 2} /\ runtime.plan = {}
  BY <1>2 DEF CycleTypes, NothingForgotten
<1>25. CycleTypes'
  BY <1>1, <1>2, <1>21, <1>23, <1>24 DEF CycleTypes
<1>26. QueueIsSound'
  <2>1. Ids(queue)' \subseteq 1 .. offered + new
    BY <1>12, <1>13, <1>17, <1>21 DEF QueueIsSound
  <2>2. protected' \subseteq Ids(queue)'
    BY <1>2, <1>18, <1>19, <1>21
  <2>3. dropped' \cap Ids(queue)' = {}
    BY <1>14, <1>15, <1>17, <1>21, <1>22 DEF QueueIsSound
  <2> QED BY <1>1, <1>21, <2>1, <2>2, <2>3 DEF QueueIsSound
<1>27. 1 .. offered + new \subseteq Ids(queue)' \cup settled \cup dropped'
  <2> SUFFICES ASSUME NEW id \in 1 .. offered + new
               PROVE  id \in Ids(queue)' \cup settled \cup dropped'
    OBVIOUS
  <2>1. CASE id \in 1 .. offered
    BY <1>14, <1>17, <1>21, <1>22, <2>1 DEF NothingForgotten
  <2>2. CASE id \in (offered + 1) .. (offered + new)
    <3>1. id \in Ids(offer) /\ ~ (id <= offered)
      BY <1>12, <1>13, <2>2
    <3>2. id \notin refused
      BY <1>5, <1>12, <1>15, <3>1 DEF NothingForgotten, QueueIsSound
    <3> QED BY <1>17, <1>21, <1>22, <3>1, <3>2
  <2> QED BY <1>12, <2>1, <2>2
<1>28. NothingForgotten'
  BY <1>1, <1>2, <1>23, <1>24, <1>27 DEF NothingForgotten
<1> QED BY <1>25, <1>26, <1>28

LEMMA HeldStep ==
    ASSUME WorkIsHeld, [CycleNext]_cycleVars
    PROVE  WorkIsHeld'
<1>1. CASE RuntimeStep
  BY <1>1, DispatchHeld, PlanHeld, PressHeld, PollHeld, OtherHeld
  DEF RuntimeStep
<1>2. CASE BatchStep
  BY <1>2, AckHeld, OtherHeld DEF BatchStep
<1>3. CASE TimePasses
  BY <1>3, TimeHeld
<1>4. CASE \E id \in Work : SettledElsewhere(id)
  BY <1>4, OtherHeld
<1>5. CASE UNCHANGED cycleVars
  BY <1>5 DEF cycleVars, WorkIsHeld, CycleTypes, QueueIsSound,
              NothingForgotten, Ids, Unique
<1> QED BY <1>1, <1>2, <1>3, <1>4, <1>5 DEF CycleNext

\* The invariant of the queue: each segment once, never more than max_items,
\* and everything that was offered is queued, settled or dropped.
THEOREM QueueIsHeld == CycleSpec => []WorkIsHeld
BY HeldInit, HeldStep, PTL DEF CycleSpec

\* WorkAccounted: no segment that was admitted is forgotten, or dropped while a
\* batch has it, for any playlist, limits and pace of the two threads.
THEOREM AdmittedWorkIsAccounted == CycleSpec => []WorkAccounted
<1>1. ASSUME WorkIsHeld
      PROVE  WorkAccounted
  <2>1. Queued = Ids(queue) /\ Cardinality(Ids(queue)) = Len(queue)
    BY <1>1, QueuedIs, UniqueIsCounted
    DEF WorkIsHeld, CycleTypes, QueueIsSound
  <2>2. batch.todo \cap dropped \subseteq settled
    BY <1>1 DEF WorkIsHeld, QueueIsSound, NothingForgotten
  <2> QED BY <1>1, <2>1, <2>2
          DEF WorkIsHeld, QueueIsSound, NothingForgotten, WorkAccounted
<1> QED BY <1>1, QueueIsHeld, PTL

-----------------------------------------------------------------------------
(* MediaGates.                                                             *)
(*                                                                         *)
(* A release wakes one thread although the slot may be gone when it looks  *)
(* again.  That no slot is left free in front of sleepers is therefore not *)
(* a matter of the slots alone: as many threads are on their way to look   *)
(* as there are free slots (AwakeForFree).                                 *)

-----------------------------------------------------------------------------
(* The inductive invariant.                                                *)

GateRecords == [active : Nat, sleepers : Seq(Threads)]
PoolRecords == [permits : Nat, queued : Nat, open : BOOLEAN, left : Nat]

GatesTypes ==
    /\ thread \in [Threads -> Stages]
    /\ gate \in [Gates -> GateRecords]
    /\ pool \in [Streams -> PoolRecords]

\* The stages in which a thread has a slot of gate g.
Holding(g) ==
    {"process", "giveService"} \cup
        IF g = Service THEN {} ELSE {"askService", "sleepService", "giveStream"}

\* Threads that meet gate g, in one of these stages if f says what they do.
InStages(f, stages, g) == {t \in Threads : Meets(t, g) /\ f[t] \in stages}

\* Three facts about a gate g with record r, if f says what the threads do.
\* It counts those who hold its slots, and no more than it has.
SlotsCounted(f, r, g) ==
    r.active = Cardinality(InStages(f, Holding(g), g)) /\ r.active <= Limit(g)

\* The threads it would notify are those that sleep, each once.
SleepersKnown(f, r, g) ==
    /\ \A i \in DOMAIN r.sleepers : r.sleepers[i] \in InStages(f, {Asleep(g)}, g)
    /\ \A t \in InStages(f, {Asleep(g)}, g) : \E i \in DOMAIN r.sleepers : r.sleepers[i] = t
    /\ \A i, j \in DOMAIN r.sleepers : r.sleepers[i] = r.sleepers[j] => i = j

\* While somebody sleeps, as many are awake and asking as there are free slots.
AwakeForFree(f, r, g) ==
    r.sleepers # <<>> => Limit(g) - r.active <= Cardinality(InStages(f, {Asking(g)}, g))

GateServes(f, r, g) == SlotsCounted(f, r, g) /\ SleepersKnown(f, r, g) /\ AwakeForFree(f, r, g)

GatesServe == \A g \in Gates : GateServes(thread, gate[g], g)

\* A permit is out for each batch that is queued or being run.
PermitsCounted ==
    \A s \in Streams :
        Capacity(s) - pool[s].permits =
            pool[s].queued + Cardinality(InStages(thread, Stages \ {"free"}, s))

GatesInv == GatesServe /\ PermitsCounted

-----------------------------------------------------------------------------
(* Lemmas: what it means for the counts that a thread moves on.            *)

\* A stage of one gate is not that of another.
LEMMA StagesDiffer ==
    \A g \in Gates :
        /\ Asking(g) \in Stages /\ Asleep(g) \in Stages
        /\ Asking(g) \notin Holding(g) /\ Asleep(g) \notin Holding(g)
        /\ Asking(g) # Asleep(g) /\ Holding(g) \subseteq Stages
        /\ Limit(g) \in Nat \ {0}
BY GatesAssumption DEF Asking, Asleep, Holding, Stages, Limit

\* Threads in some stages are finitely many.
LEMMA CountsAreFinite ==
    ASSUME NEW f, NEW stages, NEW g
    PROVE  /\ IsFiniteSet(InStages(f, stages, g))
           /\ Cardinality(InStages(f, stages, g)) \in Nat
<1>1. InStages(f, stages, g) \in SUBSET Threads
  BY DEF InStages
<1> QED BY <1>1, GatesAssumption, FS_Subset, FS_CardinalityType

\* An executor has room for some number of batches.
LEMMA CapacityIsNat == ASSUME NEW s \in Streams PROVE Capacity(s) \in Nat
<1>1. {t \in Threads : StreamOf[t] = s} \in SUBSET Threads
  OBVIOUS
<1>2. Cardinality({t \in Threads : StreamOf[t] = s}) \in Nat
  BY <1>1, GatesAssumption, FS_Subset, FS_CardinalityType
<1> QED BY <1>2, GatesAssumption DEF Capacity

\* A thread that changes its stage neither enters nor leaves a set of stages,
LEMMA OneStays ==
    ASSUME NEW f, NEW h, NEW t, NEW stages, NEW g,
           t \in Threads,
           \A u \in Threads : u # t => h[u] = f[u],
           ~ Meets(t, g) \/ (f[t] \in stages <=> h[t] \in stages)
    PROVE  InStages(h, stages, g) = InStages(f, stages, g)
BY DEF InStages

\* or it leaves it,
Leaves(f, h, t, stages, g) ==
    /\ \A u \in Threads : u # t => h[u] = f[u]
    /\ Meets(t, g) /\ f[t] \in stages /\ h[t] \notin stages

LEMMA OneLeaves ==
    ASSUME NEW f, NEW h, NEW t, NEW stages, NEW g,
           t \in Threads, Leaves(f, h, t, stages, g)
    PROVE  /\ InStages(h, stages, g) = InStages(f, stages, g) \ {t}
           /\ Cardinality(InStages(h, stages, g)) = Cardinality(InStages(f, stages, g)) - 1
<1> DEFINE A == InStages(f, stages, g)
           B == InStages(h, stages, g)
<1>1. t \in A /\ B = A \ {t}
  BY DEF InStages, Leaves
<1>2. IsFiniteSet(A)
  BY CountsAreFinite
<1> HIDE DEF A, B
<1>3. B = A \ {t} /\ Cardinality(B) = Cardinality(A) - 1
  BY <1>1, <1>2, FS_RemoveElement
<1> QED BY <1>3 DEF A, B

\* or it enters it.
Enters(f, h, t, stages, g) ==
    /\ \A u \in Threads : u # t => h[u] = f[u]
    /\ Meets(t, g) /\ f[t] \notin stages /\ h[t] \in stages

LEMMA OneEnters ==
    ASSUME NEW f, NEW h, NEW t, NEW stages, NEW g,
           t \in Threads, Enters(f, h, t, stages, g)
    PROVE  /\ InStages(h, stages, g) = InStages(f, stages, g) \cup {t}
           /\ Cardinality(InStages(h, stages, g)) = Cardinality(InStages(f, stages, g)) + 1
<1> DEFINE A == InStages(f, stages, g)
           B == InStages(h, stages, g)
<1>1. t \notin A /\ B = A \cup {t}
  BY DEF InStages, Enters
<1>2. IsFiniteSet(A)
  BY CountsAreFinite
<1> HIDE DEF A, B
<1>3. B = A \cup {t} /\ Cardinality(B) = Cardinality(A) + 1
  BY <1>1, <1>2, FS_AddElement
<1> QED BY <1>3 DEF A, B

\* A gate goes on serving when a thread neither takes nor gives a slot of it,
\* nor falls asleep or wakes before it, nor turns away from it.
LEMMA GateUntouched ==
    ASSUME NEW f, NEW h, NEW t, NEW g, NEW r,
           t \in Threads, g \in Gates, r \in GateRecords,
           \A u \in Threads : u # t => h[u] = f[u],
           ~ Meets(t, g) \/ /\ f[t] \in Holding(g) <=> h[t] \in Holding(g)
                            /\ f[t] # Asleep(g) /\ h[t] # Asleep(g)
                            /\ f[t] = Asking(g) => h[t] = Asking(g),
           GateServes(f, r, g)
    PROVE  GateServes(h, r, g)
<1>1. InStages(h, Holding(g), g) = InStages(f, Holding(g), g)
  BY OneStays
<1>2. InStages(h, {Asleep(g)}, g) = InStages(f, {Asleep(g)}, g)
  <2>1. ~ Meets(t, g) \/ (f[t] \in {Asleep(g)} <=> h[t] \in {Asleep(g)})
    OBVIOUS
  <2> QED BY <2>1, OneStays
<1>3. Cardinality(InStages(f, {Asking(g)}, g)) <= Cardinality(InStages(h, {Asking(g)}, g))
  <2> DEFINE S == {Asking(g)}
  <2>1. \/ ~ Meets(t, g) \/ (f[t] \in S <=> h[t] \in S)
        \/ Meets(t, g) /\ f[t] \notin S /\ h[t] \in S
    OBVIOUS
  <2> HIDE DEF S
  <2>2. CASE ~ Meets(t, g) \/ (f[t] \in S <=> h[t] \in S)
    <3>1. InStages(h, S, g) = InStages(f, S, g)
      BY <2>2, OneStays
    <3> QED BY <3>1, CountsAreFinite DEF S
  <2>3. CASE Meets(t, g) /\ f[t] \notin S /\ h[t] \in S
    <3>1. Cardinality(InStages(h, S, g)) = Cardinality(InStages(f, S, g)) + 1
      <4>1. Enters(f, h, t, S, g)
        BY <2>3 DEF Enters
      <4> QED BY <4>1, OneEnters
    <3> QED BY <3>1, CountsAreFinite DEF S
  <2> QED BY <2>1, <2>2, <2>3
<1>4. SlotsCounted(h, r, g) /\ SleepersKnown(h, r, g)
  BY <1>1, <1>2 DEF GateServes, SlotsCounted, SleepersKnown
<1>5. AwakeForFree(h, r, g)
  <2>1. /\ Limit(g) \in Nat /\ r.active \in Nat
        /\ Cardinality(InStages(f, {Asking(g)}, g)) \in Nat
        /\ Cardinality(InStages(h, {Asking(g)}, g)) \in Nat
    BY StagesDiffer, CountsAreFinite DEF GateRecords
  <2> QED BY <1>3, <2>1 DEF GateServes, AwakeForFree
<1> QED BY <1>4, <1>5 DEF GateServes

\* What a thread does next that has got a slot of gate g, that gives it back,
\* and that has given it.
Passed(g) == IF g = Service THEN "process" ELSE "askService"
Gives(g) == IF g = Service THEN "giveService" ELSE "giveStream"
Given(g) == IF g = Service THEN "giveStream" ELSE "end"

\* Where these stages belong.
LEMMA StagesOfGate ==
    \A g \in Gates :
        /\ Passed(g) \in Holding(g) /\ Passed(g) # Asleep(g) /\ Passed(g) # Asking(g)
        /\ Gives(g) \in Holding(g) /\ Gives(g) # Asleep(g) /\ Gives(g) # Asking(g)
        /\ Given(g) \notin Holding(g) /\ Given(g) # Asleep(g) /\ Given(g) # Asking(g)
        /\ {Passed(g), Gives(g), Given(g)} \subseteq Stages \ {"free"}
BY DEF Passed, Gives, Given, Asking, Asleep, Holding, Stages

\* A thread that passes one gate, sleeps before it, wakes or gives its slot
\* back, does not disturb another gate that it meets.
LEMMA OtherGateServes ==
    ASSUME NEW f, NEW h, NEW t, NEW g, NEW q, NEW r, q # g,
           t \in Threads, g \in Gates, q \in Gates, r \in GateRecords, Meets(t, g),
           \A u \in Threads : u # t => h[u] = f[u],
           \/ f[t] = Asking(g) /\ h[t] \in {Passed(g), Asleep(g)}
           \/ f[t] = Gives(g) /\ h[t] = Given(g)
           \/ f[t] = Asleep(g) /\ h[t] = Asking(g),
           GateServes(f, r, q)
    PROVE  GateServes(h, r, q)
<1>1. CASE ~ Meets(t, q)
  BY <1>1, GateUntouched
<1>2. CASE Meets(t, q)
  <2>1. g = Service <=> q # Service
    BY <1>2 DEF Meets
  <2>2. f[t] \in Holding(q) <=> h[t] \in Holding(q)
    BY <2>1 DEF Holding, Asking, Asleep, Passed, Gives, Given
  <2>3. f[t] # Asleep(q) /\ h[t] # Asleep(q)
    BY <2>1 DEF Asking, Asleep, Passed, Gives, Given
  <2>4. f[t] # Asking(q)
    BY <2>1 DEF Asking, Asleep, Gives
  <2> QED BY <2>2, <2>3, <2>4, GateUntouched
<1> QED BY <1>1, <1>2

\* A thread that asks gets a free slot: one asks less, and one slot is less.
LEMMA SlotIsTaken ==
    ASSUME NEW f, NEW h, NEW t, NEW g, NEW r,
           t \in Threads, g \in Gates, r \in GateRecords,
           Meets(t, g), \A u \in Threads : u # t => h[u] = f[u],
           f[t] = Asking(g), h[t] = Passed(g), r.active < Limit(g),
           GateServes(f, r, g)
    PROVE  /\ [r EXCEPT !.active = @ + 1] \in GateRecords
           /\ GateServes(h, [r EXCEPT !.active = @ + 1], g)
<1> DEFINE x == [r EXCEPT !.active = @ + 1]
           H == Holding(g)
           Z == {Asleep(g)}
           A == {Asking(g)}
<1>1. /\ r.active \in Nat /\ Limit(g) \in Nat /\ x \in GateRecords
      /\ x.active = r.active + 1 /\ x.sleepers = r.sleepers
  BY StagesDiffer DEF GateRecords
<1>2. /\ f[t] \notin H /\ h[t] \in H
      /\ f[t] \notin Z /\ h[t] \notin Z
      /\ f[t] \in A /\ h[t] \notin A
  BY StagesDiffer, StagesOfGate
<1> HIDE DEF x, H, Z, A
<1>3. Cardinality(InStages(h, H, g)) = Cardinality(InStages(f, H, g)) + 1
  <2>1. Enters(f, h, t, H, g)
    BY <1>2 DEF Enters
  <2> QED BY <2>1, OneEnters
<1>4. InStages(h, Z, g) = InStages(f, Z, g)
  BY <1>2, OneStays
<1>5. Cardinality(InStages(h, A, g)) = Cardinality(InStages(f, A, g)) - 1
  <2>1. Leaves(f, h, t, A, g)
    BY <1>2 DEF Leaves
  <2> QED BY <2>1, OneLeaves
<1>6. SlotsCounted(h, x, g)
  BY <1>1, <1>3 DEF GateServes, SlotsCounted, H
<1>7. SleepersKnown(h, x, g)
  BY <1>1, <1>4 DEF GateServes, SleepersKnown, Z
<1>8. AwakeForFree(h, x, g)
  BY <1>1, <1>5, CountsAreFinite DEF GateServes, AwakeForFree, A
<1> QED BY <1>1, <1>6, <1>7, <1>8 DEF GateServes, x

\* A thread that finds no free slot falls asleep: no slot waits for anybody.
LEMMA ThreadFallsAsleep ==
    ASSUME NEW f, NEW h, NEW t, NEW g, NEW r,
           t \in Threads, g \in Gates, r \in GateRecords,
           Meets(t, g), \A u \in Threads : u # t => h[u] = f[u],
           f[t] = Asking(g), h[t] = Asleep(g), r.active >= Limit(g),
           GateServes(f, r, g)
    PROVE  /\ [r EXCEPT !.sleepers = Append(@, t)] \in GateRecords
           /\ GateServes(h, [r EXCEPT !.sleepers = Append(@, t)], g)
<1> DEFINE x == [r EXCEPT !.sleepers = Append(@, t)]
           H == Holding(g)
           Z == {Asleep(g)}
           n == Len(r.sleepers) + 1
<1>1. /\ r.active \in Nat /\ Limit(g) \in Nat /\ r.sleepers \in Seq(Threads)
      /\ x \in GateRecords /\ x.active = r.active /\ x.sleepers = Append(r.sleepers, t)
  BY StagesDiffer DEF GateRecords
<1>2. /\ f[t] \notin H /\ h[t] \notin H
      /\ f[t] \notin Z /\ h[t] \in Z
  BY StagesDiffer, StagesOfGate
<1>3. /\ DOMAIN x.sleepers = DOMAIN r.sleepers \cup {n} /\ n \notin DOMAIN r.sleepers
      /\ x.sleepers[n] = t
      /\ \A i \in DOMAIN r.sleepers : x.sleepers[i] = r.sleepers[i]
  BY <1>1
<1> HIDE DEF x, H, Z, n
<1>4. InStages(h, H, g) = InStages(f, H, g)
  BY <1>2, OneStays
<1>5. InStages(h, Z, g) = InStages(f, Z, g) \cup {t} /\ t \notin InStages(f, Z, g)
  <2>1. Enters(f, h, t, Z, g)
    BY <1>2 DEF Enters
  <2> QED BY <1>2, <2>1, OneEnters DEF InStages
<1>6. SlotsCounted(h, x, g)
  BY <1>1, <1>4 DEF GateServes, SlotsCounted, H
<1>7. SleepersKnown(h, x, g)
  <2>1. /\ \A i \in DOMAIN r.sleepers : r.sleepers[i] \in InStages(f, Z, g)
        /\ \A u \in InStages(f, Z, g) : \E i \in DOMAIN r.sleepers : r.sleepers[i] = u
        /\ \A i, j \in DOMAIN r.sleepers : r.sleepers[i] = r.sleepers[j] => i = j
    BY DEF GateServes, SleepersKnown, Z
  <2>2. \A i \in DOMAIN x.sleepers : x.sleepers[i] \in InStages(h, Z, g)
    BY <1>3, <1>5, <2>1
  <2>3. \A u \in InStages(h, Z, g) : \E i \in DOMAIN x.sleepers : x.sleepers[i] = u
    BY <1>3, <1>5, <2>1
  <2>4. \A i, j \in DOMAIN x.sleepers : x.sleepers[i] = x.sleepers[j] => i = j
    BY <1>3, <1>5, <2>1
  <2> QED BY <2>2, <2>3, <2>4 DEF SleepersKnown, Z
<1>8. AwakeForFree(h, x, g)
  <2>1. Cardinality(InStages(h, {Asking(g)}, g)) \in Nat
    BY CountsAreFinite
  <2> QED BY <1>1, <2>1 DEF AwakeForFree
<1> QED BY <1>1, <1>6, <1>7, <1>8 DEF GateServes, x

\* A thread gives its slot back and nobody sleeps before the gate.
LEMMA SlotIsGiven ==
    ASSUME NEW f, NEW h, NEW t, NEW g, NEW r,
           t \in Threads, g \in Gates, r \in GateRecords,
           Meets(t, g), \A u \in Threads : u # t => h[u] = f[u],
           f[t] = Gives(g), h[t] = Given(g), r.sleepers = <<>>,
           GateServes(f, r, g)
    PROVE  /\ [r EXCEPT !.active = @ - 1] \in GateRecords
           /\ GateServes(h, [r EXCEPT !.active = @ - 1], g)
<1> DEFINE x == [r EXCEPT !.active = @ - 1]
           H == Holding(g)
           Z == {Asleep(g)}
<1>1. /\ f[t] \in H /\ h[t] \notin H
      /\ f[t] \notin Z /\ h[t] \notin Z
  BY StagesOfGate
<1>2. /\ r.active \in Nat /\ Limit(g) \in Nat
      /\ x.active = r.active - 1 /\ x.sleepers = r.sleepers
  BY StagesDiffer DEF GateRecords
<1> HIDE DEF H, Z
<1>3. /\ Cardinality(InStages(h, H, g)) = Cardinality(InStages(f, H, g)) - 1
      /\ Cardinality(InStages(h, H, g)) \in Nat
  <2>1. Leaves(f, h, t, H, g)
    BY <1>1 DEF Leaves
  <2>2. Cardinality(InStages(h, H, g)) = Cardinality(InStages(f, H, g)) - 1
    BY <2>1, OneLeaves
  <2> QED BY <2>2, CountsAreFinite
<1>4. InStages(h, Z, g) = InStages(f, Z, g)
  BY <1>1, OneStays
<1>5. r.active - 1 \in Nat
  BY <1>3 DEF GateServes, SlotsCounted, H
<1>6. x \in GateRecords
  BY <1>5 DEF GateRecords
<1> HIDE DEF x
<1>7. SlotsCounted(h, x, g)
  BY <1>2, <1>3 DEF GateServes, SlotsCounted, H
<1>8. SleepersKnown(h, x, g)
  BY <1>2, <1>4 DEF GateServes, SleepersKnown, Z
<1>9. AwakeForFree(h, x, g)
  BY <1>2 DEF AwakeForFree
<1> QED BY <1>6, <1>7, <1>8, <1>9 DEF GateServes, x

\* What these two moves are to the threads that hold a slot, sleep and ask.
GivesAndWakes(f, h, k, t, w, g) ==
    /\ Meets(t, g) /\ f[t] = Gives(g) /\ h[t] = Given(g)
    /\ Meets(w, g) /\ h[w] = Asleep(g) /\ k[w] = Asking(g)
    /\ \A u \in Threads : u # t => h[u] = f[u]
    /\ \A u \in Threads : u # w => k[u] = h[u]

InSlots(f, g) == InStages(f, Holding(g), g)
Sleeping(f, g) == InStages(f, {Asleep(g)}, g)
Seeking(f, g) == InStages(f, {Asking(g)}, g)

LEMMA OneGivesOneWakes ==
    ASSUME NEW f, NEW h, NEW k, NEW t, NEW w, NEW g,
           t \in Threads, w \in Threads, g \in Gates,
           GivesAndWakes(f, h, k, t, w, g)
    PROVE  /\ Cardinality(InSlots(k, g)) = Cardinality(InSlots(f, g)) - 1
           /\ Sleeping(k, g) = Sleeping(f, g) \ {w}
           /\ Cardinality(Seeking(k, g)) = Cardinality(Seeking(f, g)) + 1
<1> DEFINE H == Holding(g)
           Z == {Asleep(g)}
           A == {Asking(g)}
<1>1. /\ f[t] \in H /\ h[t] \notin H /\ h[w] \notin H /\ k[w] \notin H
      /\ f[t] \notin Z /\ h[t] \notin Z /\ h[w] \in Z /\ k[w] \notin Z
      /\ f[t] \notin A /\ h[t] \notin A /\ h[w] \notin A /\ k[w] \in A
  BY StagesOfGate, StagesDiffer DEF GivesAndWakes
<1>0. /\ Meets(t, g) /\ \A u \in Threads : u # t => h[u] = f[u]
      /\ Meets(w, g) /\ \A u \in Threads : u # w => k[u] = h[u]
  BY DEF GivesAndWakes
<1> HIDE DEF H, Z, A
<1>2. /\ Cardinality(InStages(h, H, g)) = Cardinality(InStages(f, H, g)) - 1
      /\ InStages(h, Z, g) = InStages(f, Z, g)
      /\ InStages(h, A, g) = InStages(f, A, g)
  <2>1. Cardinality(InStages(h, H, g)) = Cardinality(InStages(f, H, g)) - 1
    <3>1. Leaves(f, h, t, H, g)
      BY <1>0, <1>1 DEF Leaves
    <3> QED BY <3>1, OneLeaves
  <2>2. InStages(h, Z, g) = InStages(f, Z, g)
    BY <1>0, <1>1, OneStays
  <2>3. InStages(h, A, g) = InStages(f, A, g)
    BY <1>0, <1>1, OneStays
  <2> QED BY <2>1, <2>2, <2>3
<1>3. InStages(k, H, g) = InStages(h, H, g)
  BY <1>0, <1>1, OneStays
<1>4. InStages(k, Z, g) = InStages(h, Z, g) \ {w}
  <2>1. Leaves(h, k, w, Z, g)
    BY <1>0, <1>1 DEF Leaves
  <2> QED BY <2>1, OneLeaves
<1>5. Cardinality(InStages(k, A, g)) = Cardinality(InStages(h, A, g)) + 1
  <2>1. Enters(h, k, w, A, g)
    BY <1>0, <1>1 DEF Enters
  <2> QED BY <2>1, OneEnters
<1> QED BY <1>2, <1>3, <1>4, <1>5 DEF H, Z, A, InSlots, Sleeping, Seeking

\* The thread that has waited longest at a gate with record r.
FirstAsleep(r, w) == r.sleepers # <<>> /\ w = Head(r.sleepers)

\* A thread t gives its slot back and wakes w, that has waited longest: there is
\* a slot more, and one more that asks.
Handover(f, h, k, t, w, g, r) ==
    /\ Meets(t, g) /\ f[t] = Gives(g) /\ h[t] = Given(g)
    /\ \A u \in Threads : u # t => h[u] = f[u]
    /\ FirstAsleep(r, w) /\ k[w] = Asking(g)
    /\ \A u \in Threads : u # w => k[u] = h[u]
    /\ GateServes(f, r, g)

LEMMA SlotIsGivenAndWoken ==
    ASSUME NEW f, NEW h, NEW k, NEW t, NEW w, NEW g, NEW r,
           t \in Threads, w \in Threads, g \in Gates, r \in GateRecords,
           Handover(f, h, k, t, w, g, r)
    PROVE  /\ w # t /\ Meets(w, g) /\ f[w] = Asleep(g)
           /\ [r EXCEPT !.active = @ - 1, !.sleepers = Tail(@)] \in GateRecords
           /\ GateServes(k, [r EXCEPT !.active = @ - 1, !.sleepers = Tail(@)], g)
<1> DEFINE x == [r EXCEPT !.active = @ - 1, !.sleepers = Tail(@)]
           H == Holding(g)
           Z == {Asleep(g)}
           A == {Asking(g)}
<1>0. /\ Meets(t, g) /\ f[t] = Gives(g) /\ h[t] = Given(g) /\ FirstAsleep(r, w)
      /\ \A u \in Threads : u # t => h[u] = f[u]
      /\ k[w] = Asking(g) /\ \A u \in Threads : u # w => k[u] = h[u]
      /\ GateServes(f, r, g)
  BY DEF Handover
<1>1. /\ r.active \in Nat /\ Limit(g) \in Nat
      /\ r.sleepers \in Seq(Threads) /\ Tail(r.sleepers) \in Seq(Threads)
      /\ x.active = r.active - 1 /\ x.sleepers = Tail(r.sleepers)
  BY <1>0, StagesDiffer DEF GateRecords, FirstAsleep
<1>2. /\ DOMAIN x.sleepers = 1 .. Len(r.sleepers) - 1
      /\ DOMAIN r.sleepers = 1 .. Len(r.sleepers) /\ Len(r.sleepers) \in Nat \ {0}
      /\ \A i \in DOMAIN x.sleepers : x.sleepers[i] = r.sleepers[i + 1]
      /\ r.sleepers[1] = w
  BY <1>0, <1>1 DEF FirstAsleep
<1>3. /\ \A i \in DOMAIN r.sleepers : r.sleepers[i] \in InStages(f, Z, g)
      /\ \A u \in InStages(f, Z, g) : \E i \in DOMAIN r.sleepers : r.sleepers[i] = u
      /\ \A i, j \in DOMAIN r.sleepers : r.sleepers[i] = r.sleepers[j] => i = j
  BY <1>0 DEF GateServes, SleepersKnown
<1>4. w \in InStages(f, Z, g)
  <2>1. r.sleepers[1] = w /\ 1 \in DOMAIN r.sleepers
    BY <1>0, <1>2
  <2>2. r.sleepers[1] \in InStages(f, Z, g)
    BY <1>0, <1>3, <2>1
  <2> QED BY <1>0, <2>1, <2>2
<1>5. Meets(w, g) /\ f[w] = Asleep(g) /\ w # t /\ h[w] = Asleep(g)
  BY <1>0, <1>4, StagesOfGate DEF InStages
<1>6. /\ Cardinality(InStages(k, H, g)) = Cardinality(InStages(f, H, g)) - 1
      /\ InStages(k, Z, g) = InStages(f, Z, g) \ {w}
      /\ Cardinality(InStages(k, A, g)) = Cardinality(InStages(f, A, g)) + 1
  <2>1. GivesAndWakes(f, h, k, t, w, g)
    BY <1>0, <1>5 DEF GivesAndWakes
  <2>2. /\ Cardinality(InSlots(k, g)) = Cardinality(InSlots(f, g)) - 1
        /\ Sleeping(k, g) = Sleeping(f, g) \ {w}
        /\ Cardinality(Seeking(k, g)) = Cardinality(Seeking(f, g)) + 1
    BY <1>0, <2>1, OneGivesOneWakes
  <2> QED BY <1>0, <2>2 DEF InSlots, Sleeping, Seeking
<1> HIDE DEF x, H, Z, A
<1>7. Cardinality(InStages(k, H, g)) \in Nat
  BY CountsAreFinite
<1>10. r.active - 1 \in Nat
  BY <1>0, <1>6, <1>7 DEF GateServes, SlotsCounted, H
<1>11. x \in GateRecords
  BY <1>0, <1>1, <1>10 DEF GateRecords, x
<1>12. SlotsCounted(k, x, g)
  BY <1>0, <1>1, <1>6, <1>7 DEF GateServes, SlotsCounted, H
<1>13. SleepersKnown(k, x, g)
  <2>1. \A i \in DOMAIN x.sleepers : i + 1 \in DOMAIN r.sleepers /\ i + 1 # 1 /\ 1 \in DOMAIN r.sleepers
    BY <1>0, <1>2
  <2>2. \A i \in DOMAIN x.sleepers : x.sleepers[i] \in InStages(k, Z, g)
    <3>1. ASSUME NEW i \in DOMAIN x.sleepers PROVE x.sleepers[i] \in InStages(k, Z, g)
      <4>1. x.sleepers[i] = r.sleepers[i + 1] /\ r.sleepers[i + 1] \in InStages(f, Z, g)
        BY <1>0, <1>2, <1>3, <2>1
      <4>2. r.sleepers[i + 1] # w
        BY <1>0, <1>2, <1>3, <2>1
      <4> QED BY <1>0, <1>6, <4>1, <4>2
    <3> QED BY <1>0, <3>1
  <2>3. ASSUME NEW u \in InStages(k, Z, g)
        PROVE  \E i \in DOMAIN x.sleepers : x.sleepers[i] = u
    <3>1. PICK i \in DOMAIN r.sleepers : r.sleepers[i] = u
      BY <1>0, <1>3, <1>6
    <3>2. i # 1
      BY <1>0, <1>2, <1>6, <3>1
    <3>3. i - 1 \in DOMAIN x.sleepers /\ (i - 1) + 1 = i
      BY <1>0, <1>2, <3>2
    <3> QED BY <1>0, <1>2, <3>1, <3>3
  <2>4. ASSUME NEW i \in DOMAIN x.sleepers, NEW j \in DOMAIN x.sleepers,
               x.sleepers[i] = x.sleepers[j]
        PROVE  i = j
    <3>1. i + 1 = j + 1
      <4>1. x.sleepers[i] = r.sleepers[i + 1] /\ x.sleepers[j] = r.sleepers[j + 1]
        BY <1>0, <1>2
      <4>2. i + 1 \in DOMAIN r.sleepers /\ j + 1 \in DOMAIN r.sleepers
        BY <1>0, <2>1
      <4> QED BY ZenonT(40), <1>0, <1>3, <2>4, <4>1, <4>2
    <3> QED BY <1>0, <1>2, <3>1
  <2> QED BY <1>0, <2>2, <2>3, <2>4 DEF SleepersKnown, Z
<1>14. AwakeForFree(k, x, g)
  <2>1. Limit(g) - r.active <= Cardinality(InStages(f, A, g))
    BY <1>0 DEF GateServes, AwakeForFree, A, FirstAsleep, Handover
  <2>2. Cardinality(InStages(f, A, g)) \in Nat
    BY CountsAreFinite
  <2>3. Limit(g) - x.active <= Cardinality(InStages(k, A, g))
    BY <1>0, <1>1, <1>6, <2>1, <2>2
  <2> QED BY <1>0, <2>3 DEF AwakeForFree, A
<1> QED BY <1>0, <1>5, <1>11, <1>12, <1>13, <1>14 DEF GateServes, x

\* A thread that stays at work does not change who is at work.
LEMMA WorkersStay ==
    ASSUME NEW f, NEW h, NEW t, NEW s,
           t \in Threads,
           \A u \in Threads : u # t => h[u] = f[u],
           f[t] \in Stages \ {"free"}, h[t] \in Stages \ {"free"}
    PROVE  InStages(h, Stages \ {"free"}, s) = InStages(f, Stages \ {"free"}, s)
BY OneStays

-----------------------------------------------------------------------------
(* The steps.                                                              *)

\* At first every slot and every permit is there, and nobody asks.
LEMMA GatesBegin == GatesInit => GatesTypes /\ GatesInv
<1> SUFFICES ASSUME GatesInit PROVE GatesTypes /\ GatesInv
  OBVIOUS
<1>1. \A g : \A stages : "free" \notin stages => InStages(thread, stages, g) = {}
  BY DEF GatesInit, InStages
<1>2. \A s \in Streams : Capacity(s) \in Nat
  BY CapacityIsNat
<1>3. GatesTypes
  BY <1>2, GatesAssumption DEF GatesInit, GatesTypes, GateRecords, PoolRecords, Stages
<1>4. \A g \in Gates : /\ InStages(thread, Holding(g), g) = {}
                       /\ InStages(thread, {Asleep(g)}, g) = {}
  BY <1>1 DEF Holding, Asleep
<1>5. GatesServe
  <2>1. ASSUME NEW g \in Gates PROVE GateServes(thread, gate[g], g)
    <3>1. /\ gate[g].active = 0 /\ gate[g].sleepers = <<>>
          /\ InStages(thread, Holding(g), g) = {}
          /\ InStages(thread, {Asleep(g)}, g) = {}
      BY <1>4 DEF GatesInit
    <3>2. Limit(g) \in Nat /\ Cardinality({}) = 0
      BY StagesDiffer, FS_EmptySet
    <3>3. SlotsCounted(thread, gate[g], g)
      BY <3>1, <3>2 DEF SlotsCounted
    <3>4. DOMAIN gate[g].sleepers = {}
      BY <3>1
    <3>5. SleepersKnown(thread, gate[g], g)
      BY <3>1, <3>4 DEF SleepersKnown
    <3>6. AwakeForFree(thread, gate[g], g)
      BY <3>1 DEF AwakeForFree
    <3> QED BY <3>3, <3>5, <3>6 DEF GateServes
  <2> QED BY <2>1 DEF GatesServe
<1>7. PermitsCounted
  <2>1. \A s \in Streams : InStages(thread, Stages \ {"free"}, s) = {}
    BY <1>1
  <2>2. ASSUME NEW s \in Streams
        PROVE  Capacity(s) - pool[s].permits =
                  pool[s].queued + Cardinality(InStages(thread, Stages \ {"free"}, s))
    <3>1. pool[s].permits = Capacity(s) /\ pool[s].queued = 0
      BY DEF GatesInit
    <3>2. Cardinality(InStages(thread, Stages \ {"free"}, s)) = 0
      BY <2>1, FS_EmptySet
    <3> QED BY <1>2, <3>1, <3>2
  <2> QED BY <2>2 DEF PermitsCounted
<1> QED BY <1>3, <1>5, <1>7 DEF GatesInv

\* A batch is submitted, or those that wait are cancelled.
LEMMA PoolKeeps ==
    ASSUME GatesTypes, GatesInv, NEW s \in Streams, SubmitBatch(s) \/ ShutDown(s)
    PROVE  GatesTypes' /\ GatesInv'
<1>1. UNCHANGED <<thread, gate>>
  BY DEF SubmitBatch, ShutDown
<1>2. pool' \in [Streams -> PoolRecords]
  <2>1. pool[s] \in PoolRecords
    BY DEF GatesTypes
  <2>2. CASE SubmitBatch(s)
    <3> DEFINE r == [pool[s] EXCEPT !.left = @ - 1, !.permits = @ - 1, !.queued = @ + 1]
    <3>1. r \in PoolRecords
      <4>1. /\ pool[s].left - 1 \in Nat /\ pool[s].permits - 1 \in Nat
            /\ pool[s].queued + 1 \in Nat
        BY <2>1, <2>2 DEF PoolRecords, SubmitBatch
      <4> QED BY <2>1, <4>1 DEF PoolRecords
    <3>2. pool' = [pool EXCEPT ![s] = r]
      BY <2>2 DEF SubmitBatch, GatesTypes, PoolRecords
    <3> HIDE DEF r
    <3> QED BY <3>1, <3>2 DEF GatesTypes
  <2>3. CASE ShutDown(s)
    <3> DEFINE r == [pool[s] EXCEPT !.open = FALSE, !.queued = 0,
                                    !.permits = @ + pool[s].queued]
    <3>1. r \in PoolRecords
      <4>1. pool[s].permits + pool[s].queued \in Nat /\ 0 \in Nat /\ FALSE \in BOOLEAN
        BY <2>1 DEF PoolRecords
      <4> QED BY <2>1, <4>1 DEF PoolRecords
    <3>2. pool' = [pool EXCEPT ![s] = r]
      BY <2>3 DEF ShutDown, GatesTypes, PoolRecords
    <3> HIDE DEF r
    <3> QED BY <3>1, <3>2 DEF GatesTypes
  <2> QED BY <2>2, <2>3
<1>3. \A q \in Streams : pool'[q].permits + pool'[q].queued = pool[q].permits + pool[q].queued
  BY DEF GatesTypes, PoolRecords, SubmitBatch, ShutDown
<1>4. PermitsCounted'
  <2>1. ASSUME NEW q \in Streams
        PROVE  Capacity(q) - pool'[q].permits =
                  pool'[q].queued + Cardinality(InStages(thread', Stages \ {"free"}, q))
    <3>1. /\ pool[q].permits \in Nat /\ pool[q].queued \in Nat
          /\ pool'[q].permits \in Nat /\ pool'[q].queued \in Nat
      BY <1>2 DEF GatesTypes, PoolRecords
    <3>2. Cardinality(InStages(thread, Stages \ {"free"}, q)) \in Nat
      BY CountsAreFinite
    <3>3. Capacity(q) - pool[q].permits =
             pool[q].queued + Cardinality(InStages(thread, Stages \ {"free"}, q))
      BY DEF GatesInv, PermitsCounted
    <3>4. Capacity(q) \in Int
      BY CapacityIsNat
    <3> QED BY <1>1, <1>3, <3>1, <3>2, <3>3, <3>4
  <2> QED BY <2>1 DEF PermitsCounted
<1>5. GatesServe'
  BY <1>1 DEF GatesInv, GatesServe
<1> QED BY <1>1, <1>2, <1>4, <1>5 DEF GatesTypes, GatesInv

\* A free thread takes a batch.
LEMMA TakeKeeps ==
    ASSUME GatesTypes, GatesInv, NEW t \in Threads, Take(t)
    PROVE  GatesTypes' /\ GatesInv'
<1>0. PICK h : h = thread'
  OBVIOUS
<1> DEFINE s == StreamOf[t]
           r == [pool[s] EXCEPT !.queued = @ - 1]
           W == Stages \ {"free"}
<1>1. /\ thread[t] = "free" /\ h[t] = "askStream"
      /\ \A u \in Threads : u # t => h[u] = thread[u]
      /\ h \in [Threads -> Stages]
  BY <1>0 DEF Take, GatesTypes, Stages
<1>2. s \in Streams /\ pool[s] \in PoolRecords
  BY GatesAssumption DEF GatesTypes
<1>3. r \in PoolRecords /\ r.permits = pool[s].permits /\ r.queued = pool[s].queued - 1
  <2>1. pool[s].queued - 1 \in Nat
    BY <1>2 DEF PoolRecords, Take
  <2> QED BY <1>2, <2>1 DEF PoolRecords
<1>4. pool' = [pool EXCEPT ![s] = r]
  BY <1>2 DEF Take, PoolRecords
<1> HIDE DEF r
<1>5. pool' \in [Streams -> PoolRecords]
  BY <1>3, <1>4 DEF GatesTypes
<1>6. gate' = gate
  BY DEF Take
<1>7. \A g \in Gates : GateServes(h, gate[g], g)
  <2>1. ASSUME NEW g \in Gates PROVE GateServes(h, gate[g], g)
    <3>1. ~ Meets(t, g) \/ /\ thread[t] \in Holding(g) <=> h[t] \in Holding(g)
                           /\ thread[t] # Asleep(g) /\ h[t] # Asleep(g)
                           /\ thread[t] = Asking(g) => h[t] = Asking(g)
      BY <1>1 DEF Holding, Asleep, Asking, Meets
    <3>2. GateServes(thread, gate[g], g) /\ gate[g] \in GateRecords
      BY DEF GatesInv, GatesServe, GatesTypes
    <3> QED BY <1>1, <3>1, <3>2, GateUntouched
  <2> QED BY <2>1
<1>8. ASSUME NEW q \in Streams
      PROVE  Capacity(q) - pool'[q].permits = pool'[q].queued + Cardinality(InStages(h, W, q))
  <2>1. Capacity(q) - pool[q].permits = pool[q].queued + Cardinality(InStages(thread, W, q))
    BY DEF GatesInv, PermitsCounted
  <2>2. thread[t] \notin W /\ h[t] \in W
    BY <1>1 DEF Stages
  <2> HIDE DEF W
  <2>3. CASE q = s
    <3>1. Meets(t, q)
      BY <2>3 DEF Meets
    <3>2. Cardinality(InStages(h, W, q)) = Cardinality(InStages(thread, W, q)) + 1
      <4>1. Enters(thread, h, t, W, q)
        BY <1>1, <2>2, <3>1 DEF Enters
      <4> QED BY <4>1, OneEnters
    <3>3. pool'[q].permits = pool[q].permits /\ pool'[q].queued = pool[q].queued - 1
      BY <1>3, <1>4, <2>3 DEF GatesTypes
    <3>4. pool[q].queued \in Nat /\ Cardinality(InStages(thread, W, q)) \in Nat
      BY CountsAreFinite DEF GatesTypes, PoolRecords
    <3> QED BY <2>1, <3>2, <3>3, <3>4
  <2>4. CASE q # s
    <3>1. ~ Meets(t, q)
      BY <2>4, GatesAssumption DEF Meets
    <3>2. InStages(h, W, q) = InStages(thread, W, q)
      BY <1>1, <3>1, OneStays
    <3>3. pool'[q] = pool[q]
      BY <1>4, <2>4 DEF GatesTypes
    <3> QED BY <2>1, <3>2, <3>3
  <2> QED BY <2>3, <2>4
<1> QED BY <1>0, <1>1, <1>5, <1>6, <1>7, <1>8
        DEF GatesTypes, GatesInv, GatesServe, PermitsCounted

\* A thread asks a gate: it gets a slot, or falls asleep.
LEMMA AcquireKeeps ==
    ASSUME GatesTypes, GatesInv, NEW t \in Threads, NEW g \in Gates, Acquire(t, g)
    PROVE  GatesTypes' /\ GatesInv'
<1>0. PICK h : h = thread'
  OBVIOUS
<1>1. /\ Meets(t, g) /\ thread[t] = Asking(g) /\ pool' = pool
      /\ \A u \in Threads : u # t => h[u] = thread[u]
  BY <1>0 DEF Acquire, GatesTypes
<1>2. gate[g] \in GateRecords /\ GateServes(thread, gate[g], g)
  BY DEF GatesInv, GatesServe, GatesTypes
<1>3. /\ h[t] \in {Passed(g), Asleep(g)}
      /\ gate'[g] \in GateRecords /\ GateServes(h, gate'[g], g)
      /\ \A q \in Gates : q # g => gate'[q] = gate[q]
      /\ gate' = [gate EXCEPT ![g] = gate'[g]]
  <2>1. CASE gate[g].active < Limit(g)
    <3>1. /\ h[t] = Passed(g)
          /\ gate' = [gate EXCEPT ![g].active = @ + 1]
      BY <1>0, <2>1 DEF Acquire, GatesTypes, Passed
    <3>2. /\ gate'[g] = [gate[g] EXCEPT !.active = @ + 1]
          /\ \A q \in Gates : q # g => gate'[q] = gate[q]
          /\ gate' = [gate EXCEPT ![g] = gate'[g]]
      BY <1>2, <3>1 DEF GatesTypes, GateRecords
    <3>3. gate'[g] \in GateRecords /\ GateServes(h, gate'[g], g)
      BY <1>1, <1>2, <2>1, <3>1, <3>2, SlotIsTaken
    <3> QED BY <3>1, <3>2, <3>3
  <2>2. CASE ~ gate[g].active < Limit(g)
    <3>1. /\ h[t] = Asleep(g)
          /\ gate' = [gate EXCEPT ![g].sleepers = Append(@, t)]
      BY <1>0, <2>2 DEF Acquire, GatesTypes
    <3>2. /\ gate'[g] = [gate[g] EXCEPT !.sleepers = Append(@, t)]
          /\ \A q \in Gates : q # g => gate'[q] = gate[q]
          /\ gate' = [gate EXCEPT ![g] = gate'[g]]
      BY <1>2, <3>1 DEF GatesTypes, GateRecords
    <3>3. gate[g].active >= Limit(g)
      BY <1>2, <2>2, StagesDiffer DEF GateRecords
    <3>4. gate'[g] \in GateRecords /\ GateServes(h, gate'[g], g)
      <4>1. PICK r : r = gate[g]
        OBVIOUS
      <4>2. /\ [r EXCEPT !.sleepers = Append(@, t)] \in GateRecords
            /\ GateServes(h, [r EXCEPT !.sleepers = Append(@, t)], g)
        BY <1>1, <1>2, <3>1, <3>3, <4>1, ThreadFallsAsleep
      <4> QED BY <3>2, <4>1, <4>2
    <3> QED BY <3>1, <3>2, <3>4
  <2> QED BY <2>1, <2>2
<1>4. gate' \in [Gates -> GateRecords]
  BY <1>3 DEF GatesTypes
<1>5. \A q \in Gates : GateServes(h, gate'[q], q)
  <2>1. ASSUME NEW q \in Gates, q # g PROVE GateServes(h, gate'[q], q)
    <3>1. gate[q] \in GateRecords /\ GateServes(thread, gate[q], q) /\ gate'[q] = gate[q]
      BY <1>3, <2>1 DEF GatesInv, GatesServe, GatesTypes
    <3>2. GateServes(h, gate[q], q)
      BY <1>1, <1>3, <2>1, <3>1, OtherGateServes
    <3> QED BY <3>1, <3>2
  <2> QED BY <1>3, <2>1
<1>6. h[t] \in Stages \ {"free"} /\ thread[t] \in Stages \ {"free"}
  BY <1>1, <1>3 DEF Stages, Asking, Asleep, Passed
<1>7. h \in [Threads -> Stages]
  BY <1>0, <1>6 DEF Acquire, GatesTypes, Stages, Asleep
<1>8. \A s \in Streams : InStages(h, Stages \ {"free"}, s) = InStages(thread, Stages \ {"free"}, s)
  BY <1>1, <1>6, WorkersStay
<1> QED BY <1>0, <1>1, <1>4, <1>5, <1>7, <1>8
        DEF GatesTypes, GatesInv, GatesServe, PermitsCounted

\* The process ends, and its thread keeps both slots.
LEMMA EndProcessKeeps ==
    ASSUME GatesTypes, GatesInv, NEW t \in Threads, EndProcess(t)
    PROVE  GatesTypes' /\ GatesInv'
<1>0. PICK h : h = thread'
  OBVIOUS
<1>1. /\ thread[t] = "process" /\ h[t] = "giveService"
      /\ \A u \in Threads : u # t => h[u] = thread[u]
      /\ h \in [Threads -> Stages] /\ pool' = pool /\ gate' = gate
  BY <1>0 DEF EndProcess, GatesTypes, Stages
<1>2. \A g \in Gates : GateServes(h, gate[g], g)
  <2>1. ASSUME NEW g \in Gates PROVE GateServes(h, gate[g], g)
    <3>1. /\ thread[t] \in Holding(g) <=> h[t] \in Holding(g)
          /\ thread[t] # Asleep(g) /\ h[t] # Asleep(g) /\ thread[t] # Asking(g)
      BY <1>1 DEF Holding, Asleep, Asking
    <3>2. GateServes(thread, gate[g], g) /\ gate[g] \in GateRecords
      BY DEF GatesInv, GatesServe, GatesTypes
    <3> QED BY <1>1, <3>1, <3>2, GateUntouched
  <2> QED BY <2>1
<1>3. \A s \in Streams : InStages(h, Stages \ {"free"}, s) = InStages(thread, Stages \ {"free"}, s)
  <2>1. thread[t] \in Stages \ {"free"} /\ h[t] \in Stages \ {"free"}
    BY <1>1 DEF Stages
  <2> QED BY <1>1, <2>1, WorkersStay
<1> QED BY <1>0, <1>1, <1>2, <1>3 DEF GatesTypes, GatesInv, GatesServe, PermitsCounted

\* A thread gives its slot back, and wakes the one that has waited longest.
LEMMA ReleaseKeeps ==
    ASSUME GatesTypes, GatesInv, NEW t \in Threads, NEW g \in Gates, Release(t, g)
    PROVE  GatesTypes' /\ GatesInv'
<1>0. PICK k : k = thread'
  OBVIOUS
<1> DEFINE h == [thread EXCEPT ![t] = Given(g)]
           W == Stages \ {"free"}
<1>1. /\ Meets(t, g) /\ thread[t] = Gives(g) /\ pool' = pool
      /\ h[t] = Given(g) /\ \A u \in Threads : u # t => h[u] = thread[u]
      /\ thread[t] \in W /\ h[t] \in W
  BY DEF Release, GatesTypes, Gives, Given, Stages
<1>2. gate[g] \in GateRecords /\ GateServes(thread, gate[g], g)
  BY DEF GatesInv, GatesServe, GatesTypes
<1>3. \A q \in Gates : q # g => /\ gate[q] \in GateRecords
                                /\ GateServes(h, gate[q], q)
  <2>1. ASSUME NEW q \in Gates, q # g
        PROVE  gate[q] \in GateRecords /\ GateServes(h, gate[q], q)
    <3>1. gate[q] \in GateRecords /\ GateServes(thread, gate[q], q)
      BY DEF GatesInv, GatesServe, GatesTypes
    <3> HIDE DEF h
    <3> QED BY <1>1, <2>1, <3>1, OtherGateServes
  <2> QED BY <2>1
<1>4. h \in [Threads -> Stages]
  BY DEF GatesTypes, Given, Stages
<1>5. \A s \in Streams : InStages(h, W, s) = InStages(thread, W, s)
  <2> HIDE DEF h
  <2> QED BY <1>1, WorkersStay
<1>6. CASE gate[g].sleepers = <<>>
  <2>1. k = h /\ gate' = [gate EXCEPT ![g].active = @ - 1]
    BY <1>0, <1>6 DEF Release, Given
  <2>2. /\ gate'[g] = [gate[g] EXCEPT !.active = @ - 1]
        /\ gate' = [gate EXCEPT ![g] = gate'[g]]
        /\ \A q \in Gates : q # g => gate'[q] = gate[q]
    BY <1>2, <2>1 DEF GatesTypes, GateRecords
  <2> HIDE DEF h
  <2>3. gate'[g] \in GateRecords /\ GateServes(h, gate'[g], g)
    <3>1. PICK r : r = gate[g]
      OBVIOUS
    <3>2. /\ [r EXCEPT !.active = @ - 1] \in GateRecords
          /\ GateServes(h, [r EXCEPT !.active = @ - 1], g)
      BY <1>1, <1>2, <1>6, <3>1, SlotIsGiven
    <3> QED BY <2>2, <3>1, <3>2
  <2>4. gate' \in [Gates -> GateRecords]
    BY <2>2, <2>3 DEF GatesTypes
  <2>5. \A q \in Gates : GateServes(h, gate'[q], q)
    BY <1>3, <2>2, <2>3
  <2> QED BY <1>0, <1>1, <1>4, <1>5, <2>1, <2>4, <2>5
          DEF GatesTypes, GatesInv, GatesServe, PermitsCounted
<1>7. CASE gate[g].sleepers # <<>>
  <2>1. PICK w : w = Head(gate[g].sleepers)
    OBVIOUS
  <2>2. FirstAsleep(gate[g], w) /\ w \in Threads
    BY <1>2, <1>7, <2>1 DEF FirstAsleep, GateRecords
  <2>3. /\ k = [h EXCEPT ![w] = Asking(g)]
        /\ gate' = [gate EXCEPT ![g].active = @ - 1, ![g].sleepers = Tail(@)]
    BY <1>0, <1>7, <2>1 DEF Release, Given
  <2>4. k[w] = Asking(g) /\ (\A u \in Threads : u # w => k[u] = h[u])
        /\ k \in [Threads -> Stages]
    BY <1>4, <2>2, <2>3, StagesDiffer
  <2>5. /\ gate'[g] = [gate[g] EXCEPT !.active = @ - 1, !.sleepers = Tail(@)]
        /\ gate' = [gate EXCEPT ![g] = gate'[g]]
        /\ \A q \in Gates : q # g => gate'[q] = gate[q]
    BY <1>2, <2>3 DEF GatesTypes, GateRecords
  <2> HIDE DEF h
  <2>6. /\ w # t /\ Meets(w, g) /\ thread[w] = Asleep(g)
        /\ gate'[g] \in GateRecords /\ GateServes(k, gate'[g], g)
    <3>1. PICK r : r = gate[g]
      OBVIOUS
    <3>2. /\ w # t /\ Meets(w, g) /\ thread[w] = Asleep(g)
          /\ [r EXCEPT !.active = @ - 1, !.sleepers = Tail(@)] \in GateRecords
          /\ GateServes(k, [r EXCEPT !.active = @ - 1, !.sleepers = Tail(@)], g)
      <4>1. Handover(thread, h, k, t, w, g, r) /\ r \in GateRecords
        BY <1>1, <1>2, <2>2, <2>4, <3>1 DEF Handover
      <4> QED BY <2>2, <4>1, SlotIsGivenAndWoken
    <3> QED BY <2>5, <3>1, <3>2
  <2>7. gate' \in [Gates -> GateRecords]
    BY <2>5, <2>6 DEF GatesTypes
  <2>8. h[w] = Asleep(g)
    BY <1>1, <2>2, <2>6
  <2>9. \A q \in Gates : GateServes(k, gate'[q], q)
    <3>1. ASSUME NEW q \in Gates, q # g PROVE GateServes(k, gate'[q], q)
      <4>1. gate[q] \in GateRecords /\ GateServes(h, gate[q], q) /\ gate'[q] = gate[q]
        BY <1>3, <2>5, <3>1
      <4>2. GateServes(k, gate[q], q)
        BY <2>2, <2>4, <2>6, <2>8, <3>1, <4>1, OtherGateServes
      <4> QED BY <4>1, <4>2
    <3> QED BY <2>6, <3>1
  <2>10. \A s \in Streams : InStages(k, W, s) = InStages(h, W, s)
    <3>1. h[w] \in W /\ k[w] \in W
      BY <2>4, <2>8 DEF Asleep, Asking, Stages
    <3> HIDE DEF W
    <3> QED BY <2>2, <2>4, <3>1, WorkersStay DEF W
  <2> QED BY <1>0, <1>1, <1>5, <2>4, <2>7, <2>9, <2>10
          DEF GatesTypes, GatesInv, GatesServe, PermitsCounted
<1> QED BY <1>6, <1>7

\* A batch goes on to its next segment, or is done and returns its permit.
LEMMA EndAnalysisKeeps ==
    ASSUME GatesTypes, GatesInv, NEW t \in Threads, EndAnalysis(t)
    PROVE  GatesTypes' /\ GatesInv'
<1>0. PICK h : h = thread'
  OBVIOUS
<1> DEFINE s == StreamOf[t]
           r == [pool[s] EXCEPT !.permits = @ + 1]
           W == Stages \ {"free"}
<1>1. /\ thread[t] = "end" /\ h[t] \in {"askStream", "free"}
      /\ \A u \in Threads : u # t => h[u] = thread[u]
      /\ h \in [Threads -> Stages] /\ gate' = gate
  BY <1>0 DEF EndAnalysis, GatesTypes, Stages
<1>2. \A g \in Gates : GateServes(h, gate[g], g)
  <2>1. ASSUME NEW g \in Gates PROVE GateServes(h, gate[g], g)
    <3>1. /\ thread[t] \in Holding(g) <=> h[t] \in Holding(g)
          /\ thread[t] # Asleep(g) /\ h[t] # Asleep(g) /\ thread[t] # Asking(g)
      BY <1>1 DEF Holding, Asleep, Asking
    <3>2. GateServes(thread, gate[g], g) /\ gate[g] \in GateRecords
      BY DEF GatesInv, GatesServe, GatesTypes
    <3> QED BY <1>1, <3>1, <3>2, GateUntouched
  <2> QED BY <2>1
<1>3. CASE h[t] = "askStream"
  <2>1. pool' = pool
    BY <1>0, <1>3 DEF EndAnalysis, GatesTypes
  <2>2. thread[t] \in W /\ h[t] \in W
    BY <1>1, <1>3 DEF Stages
  <2>3. \A q \in Streams : InStages(h, W, q) = InStages(thread, W, q)
    BY <1>1, <2>2, WorkersStay
  <2> QED BY <1>0, <1>1, <1>2, <2>1, <2>3 DEF GatesTypes, GatesInv, GatesServe, PermitsCounted
<1>4. CASE h[t] = "free"
  <2>1. s \in Streams /\ pool[s] \in PoolRecords
    BY GatesAssumption DEF GatesTypes
  <2>2. r \in PoolRecords /\ r.permits = pool[s].permits + 1 /\ r.queued = pool[s].queued
    <3>1. pool[s].permits + 1 \in Nat
      BY <2>1 DEF PoolRecords
    <3> QED BY <2>1, <3>1 DEF PoolRecords
  <2>3. pool' = [pool EXCEPT ![s] = r]
    BY <1>0, <1>4, <2>1 DEF EndAnalysis, PoolRecords, GatesTypes
  <2> HIDE DEF r
  <2>4. pool' \in [Streams -> PoolRecords]
    BY <2>2, <2>3 DEF GatesTypes
  <2>5. ASSUME NEW q \in Streams
        PROVE  Capacity(q) - pool'[q].permits = pool'[q].queued + Cardinality(InStages(h, W, q))
    <3>1. /\ Capacity(q) - pool[q].permits = pool[q].queued + Cardinality(InStages(thread, W, q))
          /\ Capacity(q) \in Nat /\ pool[q].permits \in Nat /\ pool[q].queued \in Nat
      BY CapacityIsNat DEF GatesInv, PermitsCounted, GatesTypes, PoolRecords
    <3>2. thread[t] \in W /\ h[t] \notin W
      BY <1>1, <1>4 DEF Stages
    <3> HIDE DEF W
    <3>3. CASE q = s
      <4>1. Leaves(thread, h, t, W, q)
        BY <1>1, <3>2, <3>3 DEF Meets, Leaves
      <4>2. Cardinality(InStages(h, W, q)) = Cardinality(InStages(thread, W, q)) - 1
        BY <4>1, OneLeaves
      <4>3. pool'[q].permits = pool[q].permits + 1 /\ pool'[q].queued = pool[q].queued
        BY <2>2, <2>3, <3>3 DEF GatesTypes
      <4>4. Cardinality(InStages(thread, W, q)) \in Nat
        BY CountsAreFinite
      <4> QED BY <3>1, <4>2, <4>3, <4>4
    <3>4. CASE q # s
      <4>1. ~ Meets(t, q)
        BY <3>4, GatesAssumption DEF Meets
      <4>2. InStages(h, W, q) = InStages(thread, W, q)
        BY <1>1, <4>1, OneStays
      <4>3. pool'[q] = pool[q]
        BY <2>3, <3>4 DEF GatesTypes
      <4> QED BY <3>1, <4>2, <4>3
    <3> QED BY <3>3, <3>4
  <2> QED BY <1>0, <1>1, <1>2, <2>4, <2>5 DEF GatesTypes, GatesInv, GatesServe, PermitsCounted
<1> QED BY <1>1, <1>3, <1>4

\* No step of a stream, a thread or a gate breaks the invariant.
LEMMA GatesStep ==
    ASSUME GatesTypes, GatesInv, [GatesNext]_gatesVars
    PROVE  GatesTypes' /\ GatesInv'
<1>1. CASE \E s \in Streams : SubmitBatch(s) \/ ShutDown(s)
  BY <1>1, PoolKeeps
<1>2. CASE \E t \in Threads : Take(t)
  BY <1>2, TakeKeeps
<1>3. CASE \E t \in Threads : EndProcess(t)
  BY <1>3, EndProcessKeeps
<1>4. CASE \E t \in Threads : EndAnalysis(t)
  BY <1>4, EndAnalysisKeeps
<1>5. CASE \E t \in Threads, g \in Gates : Acquire(t, g)
  BY <1>5, AcquireKeeps
<1>6. CASE \E t \in Threads, g \in Gates : Release(t, g)
  BY <1>6, ReleaseKeeps
<1>7. CASE UNCHANGED gatesVars
  BY <1>7 DEF gatesVars, GatesTypes, GatesInv, GatesServe, PermitsCounted
<1> QED BY <1>1, <1>2, <1>3, <1>4, <1>5, <1>6, <1>7 DEF GatesNext

-----------------------------------------------------------------------------
(* The theorems.                                                           *)

\* The inductive invariant holds of every behaviour of the gates.
THEOREM GatesHold == GatesSpec => [](GatesTypes /\ GatesInv)
<1>1. GatesInit => GatesTypes /\ GatesInv
  BY GatesBegin
<1>2. GatesTypes /\ GatesInv /\ [GatesNext]_gatesVars => (GatesTypes /\ GatesInv)'
  BY GatesStep
<1> QED BY <1>1, <1>2, PTL DEF GatesSpec

\* Two gates never leave every analysis asleep: a thread asleep at the gate of all
\* streams has somebody awake before or behind it, and one asleep at its
\* stream's has a holder of a slot there, who is awake or asleep at the other.
LEMMA SomebodyIsAwake ==
    ASSUME GatesTypes, GatesInv, NEW t \in Threads,
           thread[t] \in {"sleepStream", "sleepService"}
    PROVE  \E u \in Threads : thread[u] \notin {"free", "sleepStream", "sleepService"}
<1>1. ASSUME NEW w \in Threads, NEW g \in Gates, Meets(w, g), thread[w] = Asleep(g)
      PROVE  \E u \in Threads : Meets(u, g) /\ thread[u] \in Holding(g) \cup {Asking(g)}
  <2>1. GateServes(thread, gate[g], g) /\ gate[g] \in GateRecords
    BY DEF GatesInv, GatesServe, GatesTypes
  <2>2. gate[g].sleepers # <<>>
    <3>1. w \in InStages(thread, {Asleep(g)}, g)
      BY <1>1 DEF InStages
    <3>2. \E i \in DOMAIN gate[g].sleepers : gate[g].sleepers[i] = w
      BY <2>1, <3>1 DEF GateServes, SleepersKnown
    <3> QED BY <3>2
  <2> DEFINE H == InStages(thread, Holding(g), g)
             A == InStages(thread, {Asking(g)}, g)
  <2>3. /\ gate[g].active = Cardinality(H) /\ Limit(g) - gate[g].active <= Cardinality(A)
        /\ Limit(g) \in Nat \ {0} /\ Cardinality(H) \in Nat /\ Cardinality(A) \in Nat
    BY <2>1, <2>2, StagesDiffer, CountsAreFinite
       DEF GateServes, SlotsCounted, AwakeForFree
  <2>4. H # {} \/ A # {}
    <3> SUFFICES ASSUME H = {}, A = {} PROVE FALSE
      OBVIOUS
    <3>1. Cardinality(H) = 0 /\ Cardinality(A) = 0
      BY FS_EmptySet
    <3> HIDE DEF H, A
    <3> QED BY <2>3, <3>1
  <2> QED BY <2>4 DEF InStages
<1>2. ASSUME NEW w \in Threads, thread[w] = "sleepService"
      PROVE  \E u \in Threads : thread[u] \notin {"free", "sleepStream", "sleepService"}
  <2>1. Meets(w, Service) /\ thread[w] = Asleep(Service) /\ Service \in Gates
    BY <1>2 DEF Meets, Asleep, Gates
  <2>2. PICK u \in Threads : thread[u] \in Holding(Service) \cup {Asking(Service)}
    BY <1>1, <2>1
  <2> QED BY <2>2 DEF Holding, Asking
<1>3. CASE thread[t] = "sleepStream"
  <2>1. StreamOf[t] \in Streams /\ StreamOf[t] # Service
    BY GatesAssumption
  <2>2. Meets(t, StreamOf[t]) /\ thread[t] = Asleep(StreamOf[t]) /\ StreamOf[t] \in Gates
    BY <1>3, <2>1 DEF Meets, Asleep, Gates
  <2>3. PICK u \in Threads : thread[u] \in Holding(StreamOf[t]) \cup {Asking(StreamOf[t])}
    BY <1>1, <2>2
  <2>4. \/ thread[u] = "sleepService"
        \/ thread[u] \notin {"free", "sleepStream", "sleepService"}
    BY <2>1, <2>3 DEF Holding, Asking
  <2> QED BY <1>2, <2>4
<1> QED BY <1>2, <1>3

\* No slot is lost and none is given twice, by either gate or the executor; a slot
\* is never free while a thread sleeps that nobody awake will take; and the two
\* gates never leave every analysis asleep.
THEOREM SlotsAreServed == GatesSpec => []SlotsServed
<1>1. GatesTypes /\ GatesInv => SlotsServed
  <2> SUFFICES ASSUME GatesTypes, GatesInv PROVE SlotsServed
    OBVIOUS
  <2>1. \A stages, g : At(stages, g) = InStages(thread, stages, g)
    BY DEF At, InStages
  <2>2. ASSUME NEW g \in Gates
        PROVE  /\ gate[g].active = Cardinality(Holders(g)) /\ gate[g].active <= Limit(g)
               /\ ToSet(gate[g].sleepers) = At({Asleep(g)}, g)
               /\ gate[g].sleepers # <<>> =>
                     Limit(g) - gate[g].active <= Cardinality(At({Asking(g)}, g))
    <3>1. GateServes(thread, gate[g], g)
      BY DEF GatesInv, GatesServe
    <3>2. Holders(g) = InStages(thread, Holding(g), g)
      BY <2>1 DEF Holders, Holding
    <3>3. gate[g].active = Cardinality(Holders(g)) /\ gate[g].active <= Limit(g)
      BY <3>1, <3>2 DEF GateServes, SlotsCounted
    <3>4. ToSet(gate[g].sleepers) = At({Asleep(g)}, g)
      <4>1. At({Asleep(g)}, g) = InStages(thread, {Asleep(g)}, g)
        BY <2>1
      <4>2. ToSet(gate[g].sleepers) = {gate[g].sleepers[i] : i \in DOMAIN gate[g].sleepers}
        BY DEF ToSet
      <4> QED BY <3>1, <4>1, <4>2 DEF GateServes, SleepersKnown
    <3>5. gate[g].sleepers # <<>> =>
             Limit(g) - gate[g].active <= Cardinality(At({Asking(g)}, g))
      BY <2>1, <3>1 DEF GateServes, AwakeForFree
    <3> QED BY <3>3, <3>4, <3>5
  <2>3. ASSUME NEW s \in Streams
        PROVE  Capacity(s) - pool[s].permits =
                  pool[s].queued + Cardinality(At(Stages \ {"free"}, s))
    BY <2>1 DEF GatesInv, PermitsCounted
  <2>4. (\E t \in Threads : thread[t] \in {"sleepStream", "sleepService"}) =>
           \E t \in Threads : thread[t] \notin {"free", "sleepStream", "sleepService"}
    BY SomebodyIsAwake
  <2> QED BY <2>2, <2>3, <2>4 DEF SlotsServed
<1> QED BY <1>1, GatesHold, PTL
===============================================================================
