---------------------------- MODULE StreakProofs ----------------------------
(***************************************************************************)
(* What the row_number() arithmetic of the streak query computes, for      *)
(* every finite set of days.  No induction: the proofs count.              *)
(***************************************************************************)
EXTENDS Streak, FiniteSetTheorems, TLAPS

\* A finite nonempty set of days has a latest one, so max(day) is a day of the
\* set.  row_number() is an injection of S into 1..n, hence onto: the day
\* numbered n has every day of S at or before it.
LEMMA MaxExists ==
    ASSUME NEW S \in SUBSET Int, IsFiniteSet(S), S # {}
    PROVE  Max(S) \in S /\ \A e \in S : e <= Max(S)
<1> DEFINE n == Cardinality(S)
           f == [d \in S |-> RowNumber(S, d)]
           Upto(d) == {e \in S : e <= d}
<1>1. n \in Nat
  BY FS_CardinalityType
<1>2. \A d \in S : IsFiniteSet(Upto(d)) /\ Cardinality(Upto(d)) \in 1 .. n
  <2> TAKE d \in S
  <2>1. IsFiniteSet(Upto(d)) /\ Cardinality(Upto(d)) <= n
    BY FS_Subset
  <2>2. Cardinality(Upto(d)) \in Nat /\ Cardinality(Upto(d)) # 0
    <3>1. d \in Upto(d)
      OBVIOUS
    <3> QED  BY <2>1, <3>1, FS_CardinalityType, FS_EmptySet
  <2> QED  BY <2>1, <2>2, <1>1
<1>3. f \in [S -> 1 .. n]
  BY <1>2 DEF RowNumber
<1>4. \A d, e \in S : d < e => f[d] # f[e]
  <2> SUFFICES ASSUME NEW d \in S, NEW e \in S, d < e, f[d] = f[e]
               PROVE  FALSE
    OBVIOUS
  <2>1. Cardinality(Upto(d)) = Cardinality(Upto(e))
    BY DEF RowNumber
  <2>2. Upto(d) \in SUBSET Upto(e)
    <3>1. d \in Int /\ e \in Int /\ \A x \in S : x \in Int
      OBVIOUS
    <3>2. \A x \in S : x <= d => x <= e
      BY <3>1
    <3> QED  BY <3>2
  <2>3. Upto(e) = Upto(d)
    BY <1>2, <2>1, <2>2, FS_Subset
  <2> QED  BY <2>3
<1>5. f \in Injection(S, 1 .. n)
  <2>1. \A d, e \in S : f[d] = f[e] => d = e
    BY <1>4
  <2> QED  BY <1>3, <2>1 DEF Injection, IsInjective
<1>6. IsFiniteSet(1 .. n) /\ Cardinality(1 .. n) = n
  BY <1>1, FS_Interval
<1>7. f \in Surjection(S, 1 .. n)
  BY <1>5, <1>6, FS_Injection
<1>8. n # 0
  BY FS_EmptySet
<1>9. PICK d \in S : f[d] = n
  <2>1. n \in 1 .. n
    BY <1>1, <1>8
  <2>2. \A t \in 1 .. n : \E x \in S : f[x] = t
    BY <1>7 DEF Surjection
  <2> QED  BY <2>1, <2>2
<1>10. Upto(d) = S
  <2>1. Cardinality(Upto(d)) = n
    BY <1>9 DEF RowNumber
  <2> QED  BY <2>1, FS_Subset
<1>11. \A e \in S : e <= d
  BY <1>10
<1> QED  BY <1>11 DEF Max

\* The island of the query is the unbroken run that ends on the latest day:
\* a day has the group number of the latest one exactly when no day between
\* them is missing.
THEOREM IslandIsRun ==
    ASSUME NEW S \in SUBSET Int, IsFiniteSet(S), S # {},
           NEW d \in S
    PROVE  d \in LatestIsland(S) <=> d .. Max(S) \subseteq S
<1> DEFINE l == Max(S)
           Upto(x) == {e \in S : e <= x}
           T == {e \in S : d < e /\ e <= l}
<1>1. l \in S /\ d <= l
  BY MaxExists
<1>2. IsFiniteSet(Upto(d)) /\ IsFiniteSet(T) /\ IsFiniteSet(Upto(l))
  BY FS_Subset
<1>3. Upto(l) = Upto(d) \cup T /\ Upto(d) \cap T = {}
  <2>1. d \in Int /\ l \in Int /\ \A x \in S : x \in Int
    BY <1>1
  <2>2. \A x \in S : x <= l <=> x <= d \/ (d < x /\ x <= l)
    BY <1>1, <2>1
  <2>3. \A x \in S : ~(x <= d /\ d < x)
    BY <2>1
  <2> QED  BY <2>2, <2>3
<1>4. /\ Cardinality(Upto(l)) \in Nat
      /\ Cardinality(Upto(d)) \in Nat
      /\ Cardinality(T) \in Nat
  BY <1>2, FS_CardinalityType
<1>5. Cardinality(Upto(l)) = Cardinality(Upto(d)) + Cardinality(T)
  <2>1. Cardinality(Upto(d) \cap T) = 0
    BY <1>3, FS_EmptySet
  <2>2. Cardinality(Upto(d) \cup T) =
            Cardinality(Upto(d)) + Cardinality(T) - Cardinality(Upto(d) \cap T)
    BY <1>2, FS_Union
  <2>3. Cardinality(Upto(l)) = Cardinality(Upto(d) \cup T)
    BY <1>3
  <2> QED  BY <1>4, <2>1, <2>2, <2>3
<1>6. d \in LatestIsland(S) <=> Cardinality(T) = l - d
  <2>1. d \in LatestIsland(S) <=>
           d - Cardinality(Upto(d)) = l - Cardinality(Upto(l))
    BY DEF LatestIsland, Grp, RowNumber
  <2>2. d \in Int /\ l \in Int
    BY <1>1
  <2> QED  BY <1>4, <1>5, <2>1, <2>2
<1>0. d \in Int /\ l \in Int /\ d + 1 \in Int /\ \A x \in S : x \in Int
  <2>1. \A x \in S : x \in Int /\ x + 1 \in Int
    OBVIOUS
  <2> QED  BY <1>1, <2>1
<1>7. IsFiniteSet((d + 1) .. l) /\ Cardinality((d + 1) .. l) = l - d
  <2> HIDE DEF l
  <2>1. /\ IsFiniteSet((d + 1) .. l)
        /\ Cardinality((d + 1) .. l) = IF d + 1 > l THEN 0 ELSE l - (d + 1) + 1
    BY <1>0, FS_Interval
  <2> QED  BY <1>0, <1>1, <2>1
<1>8. T \in SUBSET ((d + 1) .. l)
  <2>1. \A x \in S : d < x /\ x <= l => x \in (d + 1) .. l
    BY <1>0
  <2> QED  BY <2>1
<1>9. Cardinality(T) = l - d <=> T = (d + 1) .. l
  BY <1>7, <1>8, FS_Subset
<1>10. T = (d + 1) .. l <=> d .. l \subseteq S
  <2> HIDE DEF l
  <2>1. \A x \in d .. l : x = d \/ x \in (d + 1) .. l
    BY <1>0
  <2>2. \A x \in (d + 1) .. l : x \in d .. l /\ d < x /\ x <= l
    BY <1>0
  <2> QED  BY <1>8, <2>1, <2>2
<1> QED  BY <1>6, <1>9, <1>10

\* The number the query returns is the length of that run: a streak of n > 0
\* days means that the n days up to the latest completed day were completed,
\* and the day before them was not; and it is n = 0 only when the latest
\* completed day is older than yesterday or there is none.
THEOREM StreakCountsRun ==
    ASSUME NEW S \in SUBSET Int, IsFiniteSet(S), NEW today \in Int
    PROVE  LET n == StreakDays(S, today)
               l == LastStudiedOn(S)
           IN  /\ n \in Nat
               /\ n > 0 => /\ l >= today - 1 /\ l \in S
                           /\ (l - n + 1) .. l \subseteq S
                           /\ l - n \notin S
               /\ n = 0 => S = {} \/ l < today - 1
<1> DEFINE n == StreakDays(S, today)
           l == LastStudiedOn(S)
           I == LatestIsland(S)
<1>0. l \in Int
  <2>1. S # {} => Max(S) \in Int
    BY MaxExists
  <2> QED  BY <2>1 DEF LastStudiedOn, NoDay
<1>1. CASE S = {} \/ l < today - 1
  BY <1>1 DEF StreakDays
<1>2. CASE S # {} /\ l >= today - 1
  <2>1. l = Max(S) /\ l \in S /\ (\A e \in S : e <= l) /\ l \in Int
    BY <1>2, MaxExists DEF LastStudiedOn
  <2>2. I \in SUBSET S /\ IsFiniteSet(I)
    BY FS_Subset DEF LatestIsland
  <2>3. n = Cardinality(I) /\ n \in Nat
    <3>1. ~(S = {} \/ LastStudiedOn(S) < today - 1)
      BY <1>2, <2>1
    <3>2. n = Cardinality(I)
      BY <3>1 DEF StreakDays
    <3> QED  BY <3>2, <2>2, FS_CardinalityType
  <2>4. \A d \in S : d \in I <=> d .. l \subseteq S
    BY <1>2, <2>1, IslandIsRun
  <2> HIDE DEF I, l, n
  <2>5. \A d \in I : d .. l \subseteq I
    BY <2>1, <2>2, <2>4
  <2>6. \A d \in I : d >= l - n + 1
    <3> TAKE d \in I
    <3>1. d \in Int /\ d <= l
      BY <2>1, <2>2
    <3>2. Cardinality(d .. l) = l - d + 1
      BY <3>1, <2>1, FS_Interval
    <3>3. Cardinality(d .. l) <= n
      BY <2>2, <2>3, <2>5, FS_Subset
    <3> QED  BY <2>1, <2>3, <3>1, <3>2, <3>3
  <2>7. l \in I
    BY <2>1, <2>4
  <2>8. I = (l - n + 1) .. l
    <3>1. n # 0
      BY <2>2, <2>3, <2>7, FS_EmptySet
    <3>2. IsFiniteSet((l - n + 1) .. l) /\ Cardinality((l - n + 1) .. l) = n
      <4>1. l \in Int /\ n \in Nat /\ l - n + 1 \in Int /\ ~(l - n + 1 > l)
        BY <2>1, <2>3, <3>1
      <4>2. /\ IsFiniteSet((l - n + 1) .. l)
            /\ Cardinality((l - n + 1) .. l) = l - (l - n + 1) + 1
        BY <4>1, FS_Interval
      <4> QED  BY <4>1, <4>2
    <3>3. I \in SUBSET ((l - n + 1) .. l)
      BY <2>1, <2>2, <2>6
    <3> QED  BY <2>3, <3>2, <3>3, FS_Subset
  <2>9. l - n \notin S
    <3> SUFFICES ASSUME l - n \in S PROVE FALSE
      OBVIOUS
    <3>1. (l - n) .. l \subseteq S
      <4>1. \A x \in (l - n) .. l : x = l - n \/ x \in (l - n + 1) .. l
        BY <2>1, <2>3
      <4> QED  BY <2>2, <2>8, <4>1
    <3>2. l - n \in I
      BY <2>4, <3>1
    <3> QED  BY <2>1, <2>3, <2>6, <3>2
  <2>10. n # 0
    BY <2>2, <2>3, <2>7, FS_EmptySet
  <2> QED  BY <1>2, <2>1, <2>2, <2>3, <2>8, <2>9, <2>10 DEF n, l
<1> QED  BY <1>1, <1>2, <1>0
=============================================================================
