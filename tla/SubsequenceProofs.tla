-------------------------- MODULE SubsequenceProofs --------------------------
(***************************************************************************)
(* Facts the proofs about queues and histories rest on: induction over the *)
(* natural numbers, for a set rather than a predicate, and what picking    *)
(* entries from a sequence returns.                                        *)
(***************************************************************************)
EXTENDS Subsequence, FiniteSets, FiniteSetTheorems, SequenceTheorems,
        WellFoundedInduction, TLAPS

\* A set of natural numbers has a least one.
LEMMA NatHasMin ==
    ASSUME NEW T, T \subseteq Nat, T # {}
    PROVE  \E x \in T : \A y \in T : x <= y
<1> DEFINE R == {ss \in Nat \X Nat : ss[1] < ss[2]}
<1>1. OpToRel(<, Nat) = R
  BY DEF OpToRel
<1>2. IsWellFoundedOn(R, Nat)
  BY <1>1, NatLessThanWellFounded
<1>3. PICK x \in T : \A y \in T : ~ (<<y, x>> \in R)
  BY <1>2, WFMin
<1>4. ASSUME NEW y \in T PROVE x <= y
  <2>1. ~ (<<y, x>> \in R)
    BY <1>3
  <2>2. <<y, x>> \in Nat \X Nat /\ <<y, x>>[1] = y /\ <<y, x>>[2] = x
    OBVIOUS
  <2>3. ~ (y < x)
    BY <2>1, <2>2
  <2> QED BY <2>3
<1> QED BY <1>4

\* Induction: what holds of zero and goes from each number to the next.
LEMMA Induct ==
    ASSUME NEW S, 0 \in S, \A n \in Nat : n \in S => n + 1 \in S
    PROVE  \A n \in Nat : n \in S
<1> SUFFICES ASSUME NEW n \in Nat, n \notin S PROVE FALSE
  OBVIOUS
<1> DEFINE T == {m \in Nat : m \notin S}
<1>1. PICK x \in T : \A y \in T : x <= y
  <2>1. T \subseteq Nat /\ T # {}
    OBVIOUS
  <2> QED BY <2>1, NatHasMin
<1>2. x # 0
  OBVIOUS
<1>3. x - 1 \in Nat /\ x - 1 \notin T
  BY <1>1, <1>2
<1>4. x - 1 \in S
  BY <1>3
<1>5. x \in S
  BY <1>3, <1>4
<1> QED BY <1>5

\* A set whose elements a function of 1 .. n lists, each once, has n of them.
LEMMA ListedOnce ==
    ASSUME NEW T, NEW n, NEW f, n \in Nat, f \in [1 .. n -> T],
           \A i, j \in 1 .. n : f[i] = f[j] => i = j,
           \A t \in T : \E i \in 1 .. n : f[i] = t
    PROVE  IsFiniteSet(T) /\ Cardinality(T) = n
<1>1. IsFiniteSet(1 .. n) /\ Cardinality(1 .. n) = n
  BY FS_Interval
<1>2. f \in Bijection(1 .. n, T)
  BY DEF Bijection, Injection, Surjection, IsInjective
<1>3. ExistsBijection(1 .. n, T)
  BY <1>2 DEF ExistsBijection
<1> DEFINE S == 1 .. n
<1>4. IsFiniteSet(S) /\ Cardinality(S) = n /\ ExistsBijection(S, T)
  BY <1>1, <1>3
<1> HIDE DEF S
<1>5. IsFiniteSet(T) /\ Cardinality(T) = Cardinality(S)
  BY <1>4, FS_Bijection
<1> QED BY <1>4, <1>5

\* A part of a finite set, and the rest of it.
LEMMA PartsAdd ==
    ASSUME NEW S, NEW T, IsFiniteSet(S), T \subseteq S
    PROVE  /\ IsFiniteSet(T) /\ IsFiniteSet(S \ T)
           /\ Cardinality(S) \in Nat /\ Cardinality(T) \in Nat
           /\ Cardinality(S \ T) \in Nat
           /\ Cardinality(S) = Cardinality(T) + Cardinality(S \ T)
<1> DEFINE U == S \ T
<1>1. IsFiniteSet(T) /\ IsFiniteSet(U)
  BY FS_Subset
<1>2. T \cup U = S /\ T \cap U = {}
  OBVIOUS
<1> HIDE DEF U
<1>3. Cardinality(T \cup U) = Cardinality(T) + Cardinality(U)
                                - Cardinality(T \cap U)
  BY <1>1, FS_Union
<1>4. Cardinality({}) = 0 /\ Cardinality(S) \in Nat /\ Cardinality(T) \in Nat
      /\ Cardinality(U) \in Nat
  BY <1>1, FS_EmptySet, FS_CardinalityType
<1>5. Cardinality(S) = Cardinality(T) + Cardinality(U)
  <2>1. Cardinality(T \cap U) = 0
    BY <1>2, <1>4, Zenon
  <2>2. Cardinality(T \cup U) = Cardinality(S)
    BY <1>2, Zenon
  <2> QED BY <1>3, <1>4, <2>1, <2>2
<1> QED BY <1>1, <1>4, <1>5 DEF U

\* Where one sequence after the other has the entries of the two.
LEMMA ConcatAt ==
    ASSUME NEW S, NEW q, NEW r, q \in Seq(S), r \in Seq(S)
    PROVE  /\ q \o r \in Seq(S) /\ Len(q \o r) = Len(q) + Len(r)
           /\ \A i \in 1 .. Len(q) : /\ i \in 1 .. Len(q) + Len(r)
                                     /\ (q \o r)[i] = q[i]
           /\ \A i \in 1 .. Len(r) : /\ Len(q) + i \in 1 .. Len(q) + Len(r)
                                     /\ (q \o r)[Len(q) + i] = r[i]
OBVIOUS

-----------------------------------------------------------------------------
\* f is the function that Pick defines, on the first m places of q.
Takes(f, q, P, m) ==
    f = [n \in 0 .. m |->
            IF n = 0 THEN <<>>
            ELSE IF n \in P THEN Append(f[n - 1], q[n]) ELSE f[n - 1]]

\* The recursion that Pick is defined by has a solution.
LEMMA TakesExists ==
    ASSUME NEW q, NEW P
    PROVE  \A m \in Nat : \E f : Takes(f, q, P, m)
<1> DEFINE S == {m \in Nat : \E f : Takes(f, q, P, m)}
<1>1. 0 \in S
  <2> DEFINE f == [n \in 0 .. 0 |-> <<>>]
  <2>1. Takes(f, q, P, 0)
    BY DEF Takes
  <2> QED BY <2>1
<1>2. ASSUME NEW m \in Nat, m \in S PROVE m + 1 \in S
  <2>1. PICK f : Takes(f, q, P, m)
    BY <1>2
  <2> DEFINE last == IF m + 1 \in P THEN Append(f[m], q[m + 1]) ELSE f[m]
             g == [n \in 0 .. m + 1 |-> IF n = m + 1 THEN last ELSE f[n]]
  <2>2. \A n \in 0 .. m :
           f[n] = IF n = 0 THEN <<>>
                  ELSE IF n \in P THEN Append(f[n - 1], q[n]) ELSE f[n - 1]
    BY <2>1 DEF Takes
  <2> HIDE DEF last
  <2>3. \A n \in 0 .. m + 1 :
           g[n] = IF n = 0 THEN <<>>
                  ELSE IF n \in P THEN Append(g[n - 1], q[n]) ELSE g[n - 1]
    <3> TAKE n \in 0 .. m + 1
    <3>1. CASE n = m + 1
      BY <3>1 DEF last
    <3>2. CASE n \in 0 .. m
      <4>1. g[n] = f[n] /\ (n # 0 => g[n - 1] = f[n - 1])
        BY <3>2
      <4> HIDE DEF g
      <4> QED BY <4>1, <2>2, <3>2
    <3> QED BY <3>1, <3>2
  <2>4. Takes(g, q, P, m + 1)
    BY <2>3, Zenon DEF Takes
  <2> QED BY <2>4
<1> HIDE DEF S
<1>3. \A m \in Nat : m \in S
  BY <1>1, <1>2, Induct
<1> QED BY <1>3 DEF S

\* at says from which of the first n places of q the entries of s are taken:
\* the places of P, each once and in their order.
TakenFrom(at, s, q, P, n) ==
    /\ at \in [1 .. Len(s) -> {i \in 1 .. n : i \in P}]
    /\ \A k \in 1 .. Len(s) : s[k] = q[at[k]]
    /\ \A j, k \in 1 .. Len(s) : j < k => at[j] < at[k]
    /\ \A i \in 1 .. n : i \in P => \E k \in 1 .. Len(s) : at[k] = i

\* What Pick returns: the entries of q at the places in P, in their order.
LEMMA PickIsTaken ==
    ASSUME NEW R, NEW q, NEW P, q \in Seq(R)
    PROVE  /\ Pick(q, P) \in Seq(R)
           /\ \E at : TakenFrom(at, Pick(q, P), q, P, Len(q))
<1> DEFINE f == CHOOSE g : Takes(g, q, P, Len(q))
           N == Len(q)
<1>1. Pick(q, P) = f[N]
  BY Zenon DEF Pick, Takes
<1>2. N \in Nat /\ \A n \in 1 .. N : q[n] \in R
  OBVIOUS
<1>3. Takes(f, q, P, N)
  BY <1>2, TakesExists
<1> HIDE DEF f, N
<1>4. \A n \in 0 .. N :
         f[n] = IF n = 0 THEN <<>>
                ELSE IF n \in P THEN Append(f[n - 1], q[n]) ELSE f[n - 1]
  BY <1>3 DEF Takes
<1> DEFINE S == {n \in Nat : n <= N =>
                    /\ f[n] \in Seq(R)
                    /\ \E at : TakenFrom(at, f[n], q, P, n)}
<1>5. 0 \in S
  <2>1. f[0] = <<>>
    BY <1>2, <1>4
  <2>2. TakenFrom(<<>>, <<>>, q, P, 0)
    BY DEF TakenFrom
  <2>3. f[0] \in Seq(R)
    BY <2>1
  <2>4. \E at : TakenFrom(at, f[0], q, P, 0)
    BY <2>1, <2>2, Zenon
  <2> QED BY <2>3, <2>4
<1>6. ASSUME NEW n \in Nat, n \in S PROVE n + 1 \in S
  <2> SUFFICES ASSUME n + 1 <= N
               PROVE  /\ f[n + 1] \in Seq(R)
                      /\ \E at : TakenFrom(at, f[n + 1], q, P, n + 1)
    OBVIOUS
  <2>1. f[n] \in Seq(R) /\ n + 1 \in 0 .. N /\ n + 1 # 0 /\ q[n + 1] \in R
    BY <1>2, <1>6
  <2>2. PICK at : TakenFrom(at, f[n], q, P, n)
    BY <1>2, <1>6
  <2>3. CASE n + 1 \in P
    <3> DEFINE s == Append(f[n], q[n + 1])
               more == [k \in 1 .. Len(f[n]) + 1 |->
                           IF k = Len(f[n]) + 1 THEN n + 1 ELSE at[k]]
    <3>1. f[n + 1] = s
      <4>1. f[n + 1] = Append(f[(n + 1) - 1], q[n + 1])
        BY <1>4, <2>1, <2>3, Zenon
      <4>2. (n + 1) - 1 = n
        OBVIOUS
      <4> QED BY <4>1, <4>2
    <3>2. /\ s \in Seq(R) /\ Len(s) = Len(f[n]) + 1 /\ Len(f[n]) \in Nat
          /\ s[Len(f[n]) + 1] = q[n + 1]
          /\ \A k \in 1 .. Len(f[n]) : s[k] = f[n][k]
      BY <2>1
    <3>3. TakenFrom(more, s, q, P, n + 1)
      <4> HIDE DEF s
      <4> DEFINE len == Len(f[n])
      <4>1. /\ at \in [1 .. len -> {i \in 1 .. n : i \in P}]
            /\ \A k \in 1 .. len : s[k] = q[at[k]]
            /\ \A j, k \in 1 .. len : j < k => at[j] < at[k]
            /\ \A i \in 1 .. n : i \in P => \E k \in 1 .. len : at[k] = i
        BY <2>2, <3>2 DEF TakenFrom
      <4>2. /\ len \in Nat /\ Len(s) = len + 1 /\ s[len + 1] = q[n + 1]
            /\ more = [k \in 1 .. len + 1 |->
                          IF k = len + 1 THEN n + 1 ELSE at[k]]
        BY <3>2
      <4> HIDE DEF len, more
      <4>3. more \in [1 .. len + 1 -> {i \in 1 .. n + 1 : i \in P}]
        <5>1. \A k \in 1 .. len + 1 : more[k] \in {i \in 1 .. n + 1 : i \in P}
          BY <2>3, <4>1, <4>2
        <5> QED BY <4>2, <5>1
      <4>4. \A k \in 1 .. len + 1 : s[k] = q[more[k]]
        BY <4>1, <4>2
      <4>5. \A j, k \in 1 .. len + 1 : j < k => more[j] < more[k]
        BY <4>1, <4>2
      <4>6. \A i \in 1 .. n + 1 :
               i \in P => \E k \in 1 .. len + 1 : more[k] = i
        <5> SUFFICES ASSUME NEW i \in 1 .. n + 1, i \in P
                     PROVE  \E k \in 1 .. len + 1 : more[k] = i
          OBVIOUS
        <5>1. CASE i = n + 1
          <6>1. len + 1 \in 1 .. len + 1 /\ more[len + 1] = i
            BY <4>2, <5>1
          <6> QED BY <6>1
        <5>2. CASE i \in 1 .. n
          <6>1. PICK k \in 1 .. len : at[k] = i
            BY <4>1, <5>2
          <6>2. k \in 1 .. len + 1 /\ more[k] = i
            BY <4>2, <6>1
          <6> QED BY <6>2
        <5> QED BY <5>1, <5>2
      <4> QED BY <4>2, <4>3, <4>4, <4>5, <4>6 DEF TakenFrom
    <3> QED BY <3>1, <3>2, <3>3
  <2>4. CASE n + 1 \notin P
    <3>1. f[n + 1] = f[n]
      BY <1>4, <2>1, <2>4
    <3>2. TakenFrom(at, f[n], q, P, n + 1)
      <4>1. {i \in 1 .. n : i \in P} = {i \in 1 .. n + 1 : i \in P}
        BY <2>4
      <4>2. \A i \in 1 .. n + 1 : i \in P => i \in 1 .. n
        BY <2>4
      <4> QED BY <2>2, <4>1, <4>2 DEF TakenFrom
    <3> QED BY <2>1, <3>1, <3>2
  <2> QED BY <2>3, <2>4
<1> HIDE DEF S
<1>7. N \in S
  BY <1>2, <1>5, <1>6, Induct
<1> QED BY <1>1, <1>2, <1>7 DEF S, N
=============================================================================
