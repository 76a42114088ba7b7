-------------------------- MODULE BoundedReadProofs --------------------------
(***************************************************************************)
(* Proofs about BoundedRead, for any number of concurrent reads, any       *)
(* collections, page size and memory, and any bounds.                      *)
(*                                                                         *)
(* What Kept does to a list is not a matter of expanding a definition: the *)
(* function of the list's prefixes it reads is shown to exist, and to be   *)
(* right, by its least counterexample (KeepingExists, Picks).              *)
(***************************************************************************)
EXTENDS BoundedRead, FiniteSetTheorems, SequenceTheorems, TLAPS

---------------------------------------------------------------------------
(* Keeping a part of a list *)

LEMMA LeastOf ==
    ASSUME NEW b \in Nat, NEW S \in SUBSET (0..b), S # {}
    PROVE  \E m \in S : \A y \in S : m <= y
<1> DEFINE Below(x) == {y \in S : y < x}
           T == {Below(x) : x \in S}
<1>1. IsFiniteSet(S)
  <2>1. IsFiniteSet(0..b)
    BY FS_Interval, 0 \in Int, b \in Int
  <2> QED
    BY <2>1, FS_Subset
<1>2. IsWellFoundedOn(StrictSubsetOrdering(S), FiniteSubsetsOf(S))
  BY FS_StrictSubsetOrderingWellFounded
<1>3. T \subseteq FiniteSubsetsOf(S) /\ T # {}
  <2>1. \A x \in S : Below(x) \in SUBSET S /\ IsFiniteSet(Below(x))
    BY <1>1, FS_Subset
  <2> QED BY <2>1 DEF FiniteSubsetsOf
<1>4. PICK A \in T : \A B \in T : ~ (<<B, A>> \in StrictSubsetOrdering(S))
  <2> HIDE DEF T
  <2> QED BY <1>2, <1>3, WFMin
<1>5. PICK m \in S : A = Below(m)
  BY <1>4
<1>6. \A y \in S : m <= y
  <2> SUFFICES ASSUME NEW y \in S, ~(m <= y) PROVE FALSE
    OBVIOUS
  <2>0. m \in Nat /\ y \in Nat /\ y < m
    OBVIOUS
  <2>1. Below(y) \in T
    OBVIOUS
  <2>2. Below(y) \subseteq A
    <3>1. \A z \in S : z < y => z < m
      BY <2>0
    <3> QED BY <1>5, <3>1
  <2>3. y \in A /\ y \notin Below(y)
    BY <1>5, <2>0
  <2>4. <<Below(y), A>> \in StrictSubsetOrdering(S)
    <3>1. Below(y) \in SUBSET S /\ A \in SUBSET S
      BY <1>5
    <3> HIDE DEF Below
    <3> QED
      BY <2>2, <2>3, <3>1 DEF StrictSubsetOrdering
  <2> QED BY <2>1, <2>4, <1>4
<1> QED
  BY <1>6

\* The function of prefixes that Keeping names, as far as the first n.
IsKeeping(t, list, set, n) ==
    t = [i \in 0..n |-> IF i = 0 THEN <<>>
                        ELSE IF list[i] \in set THEN Append(t[i - 1], list[i])
                             ELSE t[i - 1]]

LEMMA KeepingExists ==
    ASSUME NEW list, NEW set, NEW n \in Nat
    PROVE  \E t : IsKeeping(t, list, set, n)
<1> DEFINE Bad == {m \in 0..n : ~ \E t : IsKeeping(t, list, set, m)}
<1> SUFFICES ASSUME n \in Bad PROVE FALSE
  OBVIOUS
<1>1. PICK m \in Bad : \A y \in Bad : m <= y
  <2>1. Bad \in SUBSET (0..n) /\ Bad # {}
    OBVIOUS
  <2> HIDE DEF Bad
  <2> QED
    BY <2>1, LeastOf
<1>2. m \in 0..n /\ ~ \E t : IsKeeping(t, list, set, m)
  BY <1>1
<1>3. \A y \in 0..n : y < m => \E t : IsKeeping(t, list, set, y)
  BY <1>1
<1> HIDE DEF Bad
<1>4. m # 0
  <2>1. IsKeeping([i \in 0..0 |-> <<>>], list, set, 0)
    BY DEF IsKeeping
  <2> QED
    BY <1>2, <2>1
<1>5. m - 1 \in 0..n /\ m - 1 < m /\ m \in 1..n
  BY <1>2, <1>4
<1>6. PICK t : IsKeeping(t, list, set, m - 1)
  BY <1>3, <1>5
<1> DEFINE Step(b, i) == IF list[i] \in set THEN Append(b, list[i]) ELSE b
           u == [i \in 0..m |-> IF i = m THEN Step(t[m - 1], m) ELSE t[i]]
           v == [i \in 0..m |-> IF i = 0 THEN <<>> ELSE Step(u[i - 1], i)]
<1>7. \A i \in 0..m : u[i] = v[i]
  <2> HIDE DEF Step
  <2>1. /\ t[0] = <<>>
        /\ \A i \in 1..(m - 1) : t[i] = Step(t[i - 1], i)
    <3>1. t = [i \in 0..(m - 1) |-> IF i = 0 THEN <<>> ELSE Step(t[i - 1], i)]
      BY <1>6 DEF IsKeeping, Step
    <3>2. 0 \in 0..(m - 1) /\ \A i \in 1..(m - 1) : i \in 0..(m - 1) /\ i # 0
      BY <1>5
    <3> QED
      BY <3>1, <3>2
  <2> SUFFICES ASSUME NEW i \in 0..m PROVE u[i] = v[i]
    OBVIOUS
  <2>2. CASE i = 0
    BY <1>5, <2>1, <2>2
  <2>3. CASE i \in 1..(m - 1)
    BY <1>5, <2>1, <2>3
  <2>4. CASE i = m
    BY <1>5, <2>4
  <2> QED
    BY <1>5, <2>2, <2>3, <2>4
<1>8. IsKeeping(u, list, set, m)
  <2>1. u = v
    BY <1>7
  <2> QED
    BY <2>1 DEF IsKeeping
<1> QED
  BY <1>2, <1>8

LEMMA KeepingIs ==
    ASSUME NEW T, NEW list \in Seq(T), NEW set
    PROVE  /\ Keeping(list, set)[0] = <<>>
           /\ \A i \in 1..Len(list) :
                Keeping(list, set)[i] =
                  IF list[i] \in set THEN Append(Keeping(list, set)[i - 1], list[i])
                  ELSE Keeping(list, set)[i - 1]
<1> DEFINE n == Len(list)
<1>1. n \in Nat
  BY LenProperties
<1>2. \E t : IsKeeping(t, list, set, n)
  BY <1>1, KeepingExists
<1>3. Keeping(list, set) = CHOOSE t : IsKeeping(t, list, set, n)
  BY Zenon DEF Keeping, IsKeeping
<1>4. IsKeeping(Keeping(list, set), list, set, n)
  BY <1>2, <1>3
<1> DEFINE v == Keeping(list, set)
           Step(a, i) == IF list[i] \in set THEN Append(a, list[i]) ELSE a
<1>5. v = [i \in 0..n |-> IF i = 0 THEN <<>> ELSE Step(v[i - 1], i)]
  BY <1>4 DEF IsKeeping
<1> HIDE DEF v, n, Step
<1>6. 0 \in 0..n /\ \A i \in 1..n : i \in 0..n /\ i # 0
  BY <1>1
<1>7. v[0] = <<>> /\ \A i \in 1..n : v[i] = Step(v[i - 1], i)
  BY <1>5, <1>6
<1> QED
  BY <1>7 DEF v, n, Step

\* r holds, in their order, the elements of the first m that are in the set.
Picks(r, f, list, set, m) ==
    /\ f \in [1..Len(r) -> 1..m]
    /\ \A j, k \in 1..Len(r) : j < k => f[j] < f[k]
    /\ \A k \in 1..Len(r) : r[k] = list[f[k]] /\ list[f[k]] \in set
    /\ \A i \in 1..m : list[i] \in set => \E k \in 1..Len(r) : f[k] = i

LEMMA PicksMore ==
    ASSUME NEW T, NEW list \in Seq(T), NEW set, NEW m \in 1..Len(list),
           NEW r \in Seq(T), NEW f, Picks(r, f, list, set, m - 1)
    PROVE  /\ list[m] \notin set => \E g : Picks(r, g, list, set, m)
           /\ list[m] \in set => /\ Append(r, list[m]) \in Seq(T)
                                 /\ \E g : Picks(Append(r, list[m]), g, list, set, m)
<1>1. Len(list) \in Nat /\ list[m] \in T /\ Len(r) \in Nat
  BY LenProperties, ElementOfSeq
<1>2. /\ f \in [1..Len(r) -> 1..(m - 1)]
      /\ \A j, k \in 1..Len(r) : j < k => f[j] < f[k]
      /\ \A k \in 1..Len(r) : r[k] = list[f[k]] /\ list[f[k]] \in set
      /\ \A i \in 1..(m - 1) : list[i] \in set => \E k \in 1..Len(r) : f[k] = i
  BY DEF Picks
<1>3. CASE list[m] \notin set
  <2>1. Picks(r, f, list, set, m)
    <3>1. f \in [1..Len(r) -> 1..m]
      BY <1>1, <1>2
    <3>2. \A i \in 1..m : list[i] \in set => i \in 1..(m - 1)
      BY <1>1, <1>3
    <3> QED
      BY <1>2, <3>1, <3>2 DEF Picks
  <2> QED
    BY <1>3, <2>1
<1>4. CASE list[m] \in set
  <2> DEFINE q == Append(r, list[m])
             n == Len(r) + 1
             g == [k \in 1..n |-> IF k = n THEN m ELSE f[k]]
  <2>1. /\ q \in Seq(T) /\ Len(q) = n /\ q[n] = list[m]
        /\ \A k \in 1..Len(r) : q[k] = r[k]
    BY <1>1, AppendProperties
  <2>2. n \in Nat /\ n \in 1..n /\ \A k \in 1..n : k = n \/ k \in 1..Len(r)
    BY <1>1
  <2>3. /\ g[n] = m /\ \A k \in 1..Len(r) : /\ g[k] = f[k] /\ f[k] \in 1..(m - 1)
                                             /\ k # n /\ k \in 1..n
    BY <1>1, <1>2
  <2>4. g \in [1..n -> 1..m]
    BY <1>1, <1>2, <2>2
  <2> HIDE DEF g, n, q
  <2>5. \A j, k \in 1..n : j < k => g[j] < g[k]
    <3> SUFFICES ASSUME NEW j \in 1..n, NEW k \in 1..n, j < k PROVE g[j] < g[k]
      OBVIOUS
    <3>1. j # n
      BY <2>2
    <3>2. CASE k = n
      BY <1>1, <2>2, <2>3, <3>1, <3>2
    <3>3. CASE k \in 1..Len(r)
      BY <1>1, <1>2, <2>2, <2>3, <3>1, <3>3
    <3> QED
      BY <2>2, <3>2, <3>3
  <2>6. \A k \in 1..n : q[k] = list[g[k]] /\ list[g[k]] \in set
    BY <1>2, <1>4, <2>1, <2>2, <2>3
  <2>7. \A i \in 1..m : list[i] \in set => \E k \in 1..n : g[k] = i
    <3> SUFFICES ASSUME NEW i \in 1..m, list[i] \in set
                 PROVE  \E k \in 1..n : g[k] = i
      OBVIOUS
    <3>1. CASE i = m
      BY <2>2, <2>3, <3>1
    <3>2. CASE i \in 1..(m - 1)
      BY <1>2, <2>3, <3>2
    <3> QED
      BY <1>1, <3>1, <3>2
  <2>8. Picks(q, g, list, set, m)
    BY <2>1, <2>4, <2>5, <2>6, <2>7 DEF Picks
  <2> QED
    BY <1>4, <2>1, <2>8 DEF q
<1> QED
  BY <1>3, <1>4

LEMMA KeptIs ==
    ASSUME NEW T, NEW list \in Seq(T), NEW set
    PROVE  \E f : /\ Kept(list, set) \in Seq(T)
                  /\ Picks(Kept(list, set), f, list, set, Len(list))
<1> DEFINE n == Len(list)
           K(m) == Keeping(list, set)[m]
           P(m) == \E f : K(m) \in Seq(T) /\ Picks(K(m), f, list, set, m)
           Bad == {m \in 0..n : ~P(m)}
<1>1. n \in Nat
  BY LenProperties
<1>2. K(0) = <<>> /\ \A i \in 1..n : K(i) = IF list[i] \in set THEN Append(K(i - 1), list[i])
                                         ELSE K(i - 1)
  BY KeepingIs
<1> HIDE DEF K
<1>3. P(0)
  <2> DEFINE f == [k \in 1..0 |-> 0]
             e == <<>>
  <2>1. e \in Seq(T) /\ Len(e) = 0
    BY EmptySeq
  <2> HIDE DEF e
  <2>2. Picks(e, f, list, set, 0)
    BY <2>1 DEF Picks
  <2> QED
    BY <1>2, <2>1, <2>2 DEF e
<1>4. ASSUME NEW m \in 1..n, P(m - 1) PROVE P(m)
  <2>1. PICK f : K(m - 1) \in Seq(T) /\ Picks(K(m - 1), f, list, set, m - 1)
    BY <1>4
  <2>2. m \in 1..Len(list)
    OBVIOUS
  <2> DEFINE r == K(m - 1)
  <2>3. r \in Seq(T) /\ Picks(r, f, list, set, m - 1)
    BY <2>1
  <2> HIDE DEF r
  <2>4. /\ list[m] \notin set => \E g : Picks(r, g, list, set, m)
        /\ list[m] \in set => /\ Append(r, list[m]) \in Seq(T)
                              /\ \E g : Picks(Append(r, list[m]), g, list, set, m)
    BY <2>2, <2>3, PicksMore
  <2>5. K(m) = IF list[m] \in set THEN Append(r, list[m]) ELSE r
    BY <1>2 DEF r
  <2> QED
    BY <2>3, <2>4, <2>5
<1> HIDE DEF P
<1>5. Bad = {}
  <2> SUFFICES ASSUME Bad # {} PROVE FALSE
    OBVIOUS
  <2>1. PICK m \in Bad : \A y \in Bad : m <= y
    <3>1. Bad \in SUBSET (0..n)
      OBVIOUS
    <3> HIDE DEF Bad, n
    <3> QED
      BY <1>1, <3>1, LeastOf
  <2>2. m \in 0..n /\ ~P(m) /\ \A y \in 0..n : y < m => P(y)
    BY <2>1
  <2> HIDE DEF Bad
  <2>3. m \in 1..n /\ m - 1 \in 0..n /\ m - 1 < m
    BY <1>1, <1>3, <2>2
  <2> QED
    BY <1>4, <2>2, <2>3
<1>6. P(n)
  BY <1>1, <1>5
<1> QED
  BY <1>6 DEF P, K, Kept

---------------------------------------------------------------------------
(* Increasing lists of objects *)

LEMMA InSeq ==
    ASSUME NEW T, NEW s \in Seq(T)
    PROVE  /\ Len(s) \in Nat /\ DOMAIN s = 1..Len(s)
           /\ \A k \in 1..Len(s) : s[k] \in T
           /\ ToSet(s) = {s[k] : k \in 1..Len(s)} /\ ToSet(s) \subseteq T
<1>1. Len(s) \in Nat /\ DOMAIN s = 1..Len(s) /\ \A k \in 1..Len(s) : s[k] \in T
  BY LenProperties, ElementOfSeq
<1> QED
  BY <1>1 DEF ToSet

LEMMA SubSeqIs ==
    ASSUME NEW T, NEW s \in Seq(T), NEW a \in Nat \ {0}, NEW b \in 0..Len(s)
    PROVE  /\ SubSeq(s, a, b) \in Seq(T)
           /\ Len(SubSeq(s, a, b)) = IF a <= b THEN b - a + 1 ELSE 0
           /\ \A k \in 1..Len(SubSeq(s, a, b)) : SubSeq(s, a, b)[k] = s[a + k - 1]
<1>1. \A i \in a..b : s[i] \in T
  BY InSeq
<1>2. a \in Int /\ b \in Int /\ Len(s) \in Nat
  BY InSeq
<1>3. /\ SubSeq(s, a, b) \in Seq(T)
      /\ Len(SubSeq(s, a, b)) = IF a <= b THEN b - a + 1 ELSE 0
      /\ \A i \in 1..(b - a + 1) : SubSeq(s, a, b)[i] = s[a + i - 1]
  BY <1>1, <1>2, SubSeqProperties
<1>4. CASE a <= b
  BY <1>3, <1>4
<1>5. CASE ~(a <= b)
  BY <1>3, <1>5
<1> QED
  BY <1>4, <1>5

Increasing(s) == \A j, k \in 1..Len(s) : j < k => s[j] < s[k]

\* Increasing indices are never smaller than their place.
LEMMA AtLeast ==
    ASSUME NEW n \in Nat, NEW m \in Nat, NEW f \in [1..n -> 1..m],
           \A j, k \in 1..n : j < k => f[j] < f[k]
    PROVE  (\A k \in 1..n : k <= f[k]) /\ n <= m
<1> DEFINE Bad == {k \in 1..n : f[k] < k}
<1>0. \A k \in 1..n : f[k] \in 1..m
  OBVIOUS
<1>1. Bad = {}
  <2> SUFFICES ASSUME Bad # {} PROVE FALSE
    OBVIOUS
  <2>1. PICK k \in Bad : \A y \in Bad : k <= y
    <3>1. Bad \in SUBSET (0..n)
      OBVIOUS
    <3> HIDE DEF Bad
    <3> QED
      BY <3>1, LeastOf
  <2>2. k \in 1..n /\ f[k] < k /\ f[k] \in 1..m
    BY <1>0, <2>1
  <2>3. \A y \in 1..n : y < k => ~(f[y] < y)
    BY <2>1
  <2> HIDE DEF Bad
  <2> DEFINE h == k - 1
  <2>4. h \in 1..n /\ h < k
    BY <2>2
  <2>5. f[h] \in 1..m /\ ~(f[h] < h) /\ f[h] < f[k]
    BY <1>0, <2>2, <2>3, <2>4
  <2> QED
    BY <2>2, <2>5
<1>2. \A k \in 1..n : k <= f[k]
  BY <1>0, <1>1
<1>3. n <= m
  <2>1. CASE n = 0
    BY <2>1
  <2>2. CASE n # 0
    <3>1. n \in 1..n
      BY <2>2
    <3> QED
      BY <1>0, <1>2, <3>1
  <2> QED
    BY <2>1, <2>2
<1> QED
  BY <1>2, <1>3

LEMMA KeptFacts ==
    ASSUME NEW T \in SUBSET Int, NEW list \in Seq(T), NEW set, Increasing(list)
    PROVE  LET r == Kept(list, set) IN
           /\ r \in Seq(T) /\ Increasing(r)
           /\ Len(r) \in Nat /\ Len(r) <= Len(list)
           /\ ToSet(r) = ToSet(list) \cap set
<1> DEFINE r == Kept(list, set)
<1>1. PICK f : r \in Seq(T) /\ Picks(r, f, list, set, Len(list))
  BY KeptIs
<1> HIDE DEF r
<1> DEFINE n == Len(r)
           m == Len(list)
<1>2. /\ f \in [1..n -> 1..m]
      /\ \A j, k \in 1..n : j < k => f[j] < f[k]
      /\ \A k \in 1..n : r[k] = list[f[k]] /\ list[f[k]] \in set
      /\ \A i \in 1..m : list[i] \in set => \E k \in 1..n : f[k] = i
  BY <1>1 DEF Picks
<1>3. n \in Nat /\ m \in Nat
  BY <1>1, InSeq
<1>4. /\ ToSet(r) = {r[k] : k \in 1..n} /\ ToSet(list) = {list[k] : k \in 1..m}
      /\ \A j, k \in 1..m : j < k => list[j] < list[k]
  BY <1>1, InSeq DEF Increasing
<1> HIDE DEF n, m
<1>5. n <= m
  BY <1>2, <1>3, AtLeast
<1>6. \A j, k \in 1..n : j < k => r[j] < r[k]
  BY <1>2, <1>4
<1>7. {r[k] : k \in 1..n} = {list[k] : k \in 1..m} \cap set
  <2>1. \A k \in 1..n : r[k] \in {list[i] : i \in 1..m} /\ r[k] \in set
    BY <1>2
  <2>2. \A i \in 1..m : list[i] \in set => \E k \in 1..n : r[k] = list[i]
    BY <1>2
  <2> QED
    BY <2>1, <2>2
<1> QED
  BY <1>1, <1>3, <1>4, <1>5, <1>6, <1>7 DEF r, n, m, Increasing

LEMMA Parameters ==
    /\ NumObjects \in Nat /\ Objects \in SUBSET Int
    /\ PageSize \in Nat /\ PageSize > 0 /\ MaximumPages \in Nat /\ MaximumPages > 0
    /\ MaxItems \in Nat /\ MaxItems > 0 /\ MaxSeen \in Nat /\ MaxSeen > 0
    /\ MaxIds \in Nat /\ MaxIds > 0 /\ MaxChanges \in Nat
    /\ \A C \in Collections : C \subseteq Objects
  BY ParametersAssumption DEF Objects

\* The order of the collection.
LEMMA ListedIs ==
    ASSUME NEW objects \in SUBSET Objects
    PROVE  /\ Listed(objects) \in Seq(Objects) /\ Increasing(Listed(objects))
           /\ Len(Listed(objects)) \in Nat /\ ToSet(Listed(objects)) = objects
           /\ Len(Listed(objects)) = Cardinality(objects)
           /\ IsFiniteSet(objects)
<1> DEFINE all == [x \in Objects |-> x]
           r == Listed(objects)
<1>1. /\ all \in Seq(Objects) /\ Len(all) = NumObjects
      /\ \A k \in 1..Len(all) : all[k] = k
  BY Parameters, SeqDef DEF Objects
<1>2. Increasing(all) /\ ToSet(all) = Objects
  <2>1. ToSet(all) = {all[k] : k \in 1..Len(all)}
    BY <1>1, InSeq
  <2> HIDE DEF all
  <2> QED
    BY <1>1, <2>1, Parameters DEF Increasing, Objects
<1>3. /\ r \in Seq(Objects) /\ Increasing(r) /\ Len(r) \in Nat
      /\ ToSet(r) = Objects \cap objects
  <2>1. r = Kept(all, objects)
    BY DEF Listed
  <2> HIDE DEF all, r
  <2> QED
    BY <1>1, <1>2, <2>1, KeptFacts, Parameters
<1>4. /\ ToSet(r) = objects /\ ToSet(r) = {r[k] : k \in 1..Len(r)}
      /\ DOMAIN r = 1..Len(r)
  BY <1>3, InSeq
<1> HIDE DEF r
<1>5. r \in Bijection(1..Len(r), objects)
  <2>1. r \in [1..Len(r) -> objects]
    BY <1>3, <1>4, InSeq
  <2>0. \A k \in 1..Len(r) : r[k] \in Int
    BY <1>3, InSeq, Parameters
  <2>2. \A j, k \in 1..Len(r) : r[j] = r[k] => j = k
    <3> SUFFICES ASSUME NEW j \in 1..Len(r), NEW k \in 1..Len(r), r[j] = r[k], j # k
                 PROVE  FALSE
      OBVIOUS
    <3>1. r[j] \in Int /\ r[k] \in Int /\ (j < k \/ k < j)
      BY <1>3, <2>0
    <3> QED
      BY <1>3, <3>1 DEF Increasing
  <2>3. \A x \in objects : \E k \in 1..Len(r) : r[k] = x
    BY <1>4
  <2> QED
    BY <1>4, <2>1, <2>2, <2>3 DEF Bijection, Injection, Surjection, IsInjective
<1>6. Cardinality(objects) = Len(r)
  BY <1>3, <1>5, FS_CountingElements DEF ExistsBijection
<1>7. IsFiniteSet(objects)
  <2>1. IsFiniteSet(1..NumObjects)
    BY FS_Interval, Parameters
  <2> QED
    BY <2>1, FS_Subset DEF Objects
<1> QED
  BY <1>3, <1>4, <1>6, <1>7 DEF r

---------------------------------------------------------------------------
(* The pages of the collection *)

\* The first n elements.
Upto(list, n) == {list[k] : k \in {j \in 1..Len(list) : j <= n}}

LEMMA FirstOfIs ==
    ASSUME NEW T \in SUBSET Int, NEW s \in Seq(T), NEW n \in Nat, Increasing(s)
    PROVE  LET q == FirstOf(s, n) IN
           /\ q \in Seq(T) /\ Len(q) = Smaller(n, Len(s))
           /\ \A k \in 1..Len(q) : q[k] = s[k]
           /\ Increasing(q) /\ ToSet(q) = Upto(s, n)
<1> DEFINE q == FirstOf(s, n)
           m == Len(s)
           b == Smaller(n, m)
<1>1. m \in Nat
  BY InSeq
<1>2. b \in 0..m /\ b <= n /\ (\A k \in 1..m : k <= n <=> k <= b)
  BY <1>1 DEF Smaller
<1>3. q \in Seq(T) /\ Len(q) = b /\ \A k \in 1..b : q[k] = s[k]
  <2>1. q = SubSeq(s, 1, b)
    BY DEF FirstOf
  <2> HIDE DEF q, b
  <2>2. /\ q \in Seq(T) /\ Len(q) = IF 1 <= b THEN b - 1 + 1 ELSE 0
        /\ \A k \in 1..Len(q) : q[k] = s[1 + k - 1]
    BY <1>2, <2>1, SubSeqIs
  <2>3. Len(q) = b
    BY <1>1, <1>2, <2>2
  <2>4. \A k \in 1..b : 1 + k - 1 = k
    BY <1>2
  <2> QED
    BY <2>2, <2>3, <2>4
<1> HIDE DEF q, b
<1>4. Increasing(q)
  BY <1>1, <1>2, <1>3 DEF Increasing
<1>5. ToSet(q) = {q[k] : k \in 1..b}
  BY <1>3, InSeq
<1>6. ToSet(q) = Upto(s, n)
  <2>1. {j \in 1..m : j <= n} = 1..b
    BY <1>1, <1>2
  <2>2. {q[k] : k \in 1..b} = {s[k] : k \in 1..b}
    BY <1>3
  <2> QED
    BY <1>5, <2>1, <2>2 DEF Upto
<1> QED
  BY <1>3, <1>4, <1>6 DEF q, b

\* Pages add up.
LEMMA PagesAddUp ==
    ASSUME NEW p \in Nat \ {0}
    PROVE  /\ (p - 1) * PageSize \in Nat /\ p * PageSize \in Nat
           /\ (p - 1) * PageSize + PageSize = p * PageSize
           /\ p * PageSize = ((p + 1) - 1) * PageSize
<1>1. PageSize \in Nat
  BY Parameters
<1>2. (p - 1) \in Nat
  OBVIOUS
<1>3. (p - 1) * PageSize + PageSize = p * PageSize
  BY <1>1
<1> QED
  BY <1>1, <1>2, <1>3

\* EVE says how many pages there are: enough, and no fewer than one.
LEMMA TotalIs ==
    ASSUME eve \subseteq Objects, mode = "page"
    PROVE  /\ Total \in Nat /\ Total >= 1
           /\ \A p \in Nat : p >= Total => Cardinality(eve) <= p * PageSize
<1> DEFINE n == Cardinality(eve)
           d == (n + PageSize - 1) \div PageSize
<1>1. n \in Nat /\ PageSize \in Nat /\ PageSize > 0 /\ IsFiniteSet(eve)
  BY ListedIs, Parameters
<1>2. CASE eve = {}
  <2>1. n = 0
    BY <1>2, FS_EmptySet
  <2>2. Total = 1
    BY <1>2 DEF Total
  <2>3. \A p \in Nat : p * PageSize \in Nat
    BY <1>1
  <2> QED
    BY <2>1, <2>2, <2>3
<1>3. CASE eve # {}
  <2>1. Total = d
    BY <1>3 DEF Total
  <2>2. n >= 1
    BY <1>1, <1>3, FS_EmptySet
  <2> HIDE DEF n
  <2> DEFINE m == n + PageSize - 1
  <2>3. m \in Nat /\ m >= PageSize /\ m >= n
    BY <1>1, <2>2
  <2>4. d \in Int /\ d * PageSize <= m /\ m < (d + 1) * PageSize
    <3>1. d = m \div PageSize
      OBVIOUS
    <3> HIDE DEF m
    <3> QED
      BY <1>1, <2>3, <3>1
  <2> HIDE DEF d
  <2>5. (d + 1) * PageSize = d * PageSize + PageSize /\ d * PageSize \in Int
    BY <1>1, <2>4
  <2>6. n <= d * PageSize
    BY <1>1, <2>4, <2>5
  <2>7. d >= 1
    <3> SUFFICES ASSUME d <= 0 PROVE FALSE
      BY <2>4
    <3>1. d * PageSize <= 0
      BY <1>1, <2>4
    <3> QED
      BY <1>1, <2>2, <2>5, <2>6, <3>1
  <2>8. \A p \in Nat : p >= d => n <= p * PageSize
    <3> SUFFICES ASSUME NEW p \in Nat, p >= d PROVE n <= p * PageSize
      OBVIOUS
    <3>1. d * PageSize <= p * PageSize /\ p * PageSize \in Int
      BY <1>1, <2>4
    <3> QED
      BY <1>1, <2>5, <2>6, <3>1
  <2> QED
    BY <2>1, <2>4, <2>7, <2>8 DEF n
<1> QED
  BY <1>2, <1>3

\* A page by number: what follows the pages before it.
LEMMA NumberedPageIs ==
    ASSUME eve \subseteq Objects, mode = "page", NEW place \in Place
    PROVE  LET raw == PageOf(place)
               all == Listed(eve) IN
           /\ raw \in Seq(Objects) /\ Increasing(raw) /\ Len(raw) <= PageSize
           /\ ToSet(raw) \subseteq eve
           /\ Upto(all, place.page * PageSize)
                \subseteq Upto(all, (place.page - 1) * PageSize) \cup ToSet(raw)
<1> DEFINE raw == PageOf(place)
           all == Listed(eve)
           a == (place.page - 1) * PageSize
           n == Len(all)
           rest == SubSeq(all, a + 1, n)
<1>1. /\ all \in Seq(Objects) /\ Increasing(all) /\ n \in Nat /\ ToSet(all) = eve
      /\ n = Cardinality(eve)
  BY ListedIs
<1>2. a \in Nat /\ a + PageSize = place.page * PageSize /\ PageSize \in Nat
  <2>1. place.page \in Nat \ {0}
    BY Parameters DEF Place
  <2> QED
    BY <2>1, PagesAddUp, Parameters
<1>3. raw = FirstOf(rest, PageSize)
  BY <1>1 DEF PageOf
<1> HIDE DEF all, a
<1>4. /\ rest \in Seq(Objects) /\ Len(rest) = IF a + 1 <= n THEN n - (a + 1) + 1 ELSE 0
      /\ \A k \in 1..Len(rest) : rest[k] = all[(a + 1) + k - 1]
  BY <1>1, <1>2, SubSeqIs
<1> HIDE DEF rest
<1>5. \A k \in 1..Len(rest) : rest[k] = all[a + k] /\ a + k \in 1..n
  <2> SUFFICES ASSUME NEW k \in 1..Len(rest)
               PROVE  rest[k] = all[a + k] /\ a + k \in 1..n
    OBVIOUS
  <2>1. (a + 1) + k - 1 = a + k /\ a + k \in 1..n
    BY <1>1, <1>2, <1>4
  <2> QED
    BY <1>4, <2>1
<1>6. \A i \in (a + 1)..n : i - a \in 1..Len(rest) /\ rest[i - a] = all[i]
  <2> SUFFICES ASSUME NEW i \in (a + 1)..n
               PROVE  i - a \in 1..Len(rest) /\ rest[i - a] = all[i]
    OBVIOUS
  <2> DEFINE k == i - a
  <2>1. k \in 1..Len(rest) /\ a + k = i
    BY <1>1, <1>2, <1>4
  <2> HIDE DEF k
  <2>2. rest[k] = all[i]
    BY <1>5, <2>1
  <2> QED
    BY <2>1, <2>2 DEF k
<1>7. Increasing(rest)
  <2> SUFFICES ASSUME NEW j \in 1..Len(rest), NEW k \in 1..Len(rest), j < k
               PROVE  rest[j] < rest[k]
    BY DEF Increasing
  <2>1. a + j < a + k /\ a + j \in 1..n /\ a + k \in 1..n
    BY <1>2, <1>5
  <2> QED
    BY <1>1, <1>5, <2>1 DEF Increasing
<1>8. /\ raw \in Seq(Objects) /\ Len(raw) = Smaller(PageSize, Len(rest))
      /\ Increasing(raw) /\ ToSet(raw) = Upto(rest, PageSize)
  BY <1>2, <1>3, <1>4, <1>7, FirstOfIs, Parameters
<1> HIDE DEF raw
<1>9. Len(raw) <= PageSize
  BY <1>2, <1>4, <1>8, InSeq DEF Smaller
<1>10. ToSet(raw) \subseteq eve
  <2>1. ToSet(all) = {all[k] : k \in 1..n}
    BY <1>1, InSeq
  <2> QED
    BY <1>1, <1>5, <1>8, <2>1 DEF Upto
<1>11. Upto(all, a + PageSize) \subseteq Upto(all, a) \cup ToSet(raw)
  <2> SUFFICES ASSUME NEW i \in 1..n, i <= a + PageSize, ~(i <= a)
               PROVE  all[i] \in ToSet(raw)
    BY DEF Upto
  <2>1. i \in (a + 1)..n /\ i - a <= PageSize
    BY <1>1, <1>2
  <2> QED
    BY <1>6, <1>8, <2>1 DEF Upto
<1> QED
  BY <1>2, <1>8, <1>9, <1>10, <1>11 DEF raw, all, a

\* A page by cursor: the least of those after it.
LEMMA CursorPageIs ==
    ASSUME eve \subseteq Objects, mode # "page", NEW place \in Place
    PROVE  LET raw == PageOf(place) IN
           /\ raw \in Seq(Objects) /\ Increasing(raw) /\ Len(raw) <= PageSize
           /\ ToSet(raw) \subseteq eve
           /\ raw = <<>> => \A x \in eve : x <= place.after
           /\ raw # <<>> =>
                \A x \in eve : x <= Last(raw) => x <= place.after \/ x \in ToSet(raw)
<1> DEFINE raw == PageOf(place)
           later == {x \in eve : x > place.after}
           all == Listed(later)
           n == Len(all)
<1>0. Objects \in SUBSET Int /\ place.after \in Int
  <2>1. place.after \in Objects \cup {0} /\ 0 \in Int
    BY DEF Place
  <2> QED
    BY <2>1, Parameters
<1>1. /\ all \in Seq(Objects) /\ Increasing(all) /\ n \in Nat /\ ToSet(all) = later
  BY ListedIs
<1>2. raw = FirstOf(all, PageSize) /\ PageSize \in Nat /\ PageSize > 0
  BY Parameters DEF PageOf
<1> HIDE DEF all, raw
<1>3. /\ raw \in Seq(Objects) /\ Len(raw) = Smaller(PageSize, n)
      /\ \A k \in 1..Len(raw) : raw[k] = all[k]
      /\ Increasing(raw) /\ ToSet(raw) = Upto(all, PageSize)
  BY <1>0, <1>1, <1>2, FirstOfIs
<1>4. /\ ToSet(all) = {all[k] : k \in 1..n}
      /\ \A k \in 1..n : all[k] \in Int
  BY <1>0, <1>1, InSeq
<1>5. Len(raw) <= PageSize /\ Len(raw) <= n /\ Len(raw) \in Nat
  BY <1>1, <1>2, <1>3 DEF Smaller
<1>6. ToSet(raw) \subseteq eve
  BY <1>1, <1>3, <1>4 DEF Upto
<1>7. raw = <<>> => \A x \in eve : x <= place.after
  <2> SUFFICES ASSUME raw = <<>>, NEW x \in eve, x > place.after PROVE FALSE
    BY <1>0
  <2>1. Len(raw) = 0
    BY EmptySeq
  <2>2. n = 0
    BY <1>1, <1>2, <1>3, <2>1 DEF Smaller
  <2> QED
    BY <1>1, <1>4, <2>2
<1>8. ASSUME raw # <<>>, NEW x \in eve, x <= Last(raw)
      PROVE  x <= place.after \/ x \in ToSet(raw)
  <2> DEFINE m == Len(raw)
  <2>1. m \in 1..n
    <3>1. m # 0
      BY <1>3, <1>8, EmptySeq
    <3> QED
      BY <1>1, <1>5, <3>1
  <2>2. Last(raw) = all[m]
    BY <1>3, <1>5, <2>1 DEF Last
  <2> SUFFICES ASSUME x \in later PROVE x \in ToSet(raw)
    BY <1>0
  <2>3. PICK k \in 1..n : x = all[k]
    BY <1>1, <1>4
  <2>4. k <= m
    <3> SUFFICES ASSUME m < k PROVE FALSE
      BY <1>1, <2>1
    <3>1. all[m] < all[k]
      BY <1>1, <2>1 DEF Increasing
    <3> QED
      BY <1>4, <1>8, <2>1, <2>2, <2>3, <3>1
  <2>5. k <= PageSize
    BY <1>1, <1>2, <1>5, <2>1, <2>4
  <2> QED
    BY <1>3, <2>3, <2>5 DEF Upto
<1> QED
  BY <1>3, <1>5, <1>6, <1>7, <1>8 DEF raw

---------------------------------------------------------------------------
(* The parts of a page *)

\* What the answer of the executor has of a page.
IsPage(page) ==
    /\ page.list \in Seq(Objects) /\ Increasing(page.list)
    /\ Len(page.list) <= PageSize
    /\ page.total \in Nat /\ page.version \in Nat /\ page.version <= version

\* It is the page of the collection as it is now, if it is of this version.
Genuine(page, place) ==
    page.version = version =>
      page.list = PageOf(place) /\ page.total \in {0, Total}

\* What EVE has, without what is remembered.
Present(place) == Deduplicated(PageOf(place), place.seen)

\* EVE's pages are pages.
LEMMA PageIs ==
    ASSUME eve \subseteq Objects, NEW place \in Place
    PROVE  LET raw == PageOf(place) IN
           /\ raw \in Seq(Objects) /\ Increasing(raw) /\ Len(raw) <= PageSize
           /\ ToSet(raw) \subseteq eve
  BY NumberedPageIs, CursorPageIs

LEMMA ListIs ==
    ASSUME NEW raw \in Seq(Objects), Increasing(raw), Len(raw) <= PageSize,
           NEW place \in Place
    PROVE  LET list == Deduplicated(raw, place.seen) IN
           /\ list \in Seq(Objects) /\ Increasing(list)
           /\ Len(list) \in Nat /\ Len(list) <= PageSize
           /\ ToSet(list) = ToSet(raw) \ ToSet(place.seen)
<1> DEFINE list == Deduplicated(raw, place.seen)
<1>2. list = Kept(raw, Objects \ ToSet(place.seen))
  BY DEF Deduplicated
<1> HIDE DEF list
<1>3. /\ list \in Seq(Objects) /\ Increasing(list)
      /\ Len(list) \in Nat /\ Len(list) <= Len(raw)
      /\ ToSet(list) = ToSet(raw) \cap (Objects \ ToSet(place.seen))
  BY <1>2, KeptFacts, Parameters
<1>4. Len(list) <= PageSize
  BY <1>3, InSeq, Parameters
<1>5. ToSet(raw) \subseteq Objects
  BY InSeq
<1> QED
  BY <1>3, <1>4, <1>5 DEF list

LEMMA RememberIs ==
    ASSUME NEW seen \in Seq(Objects), NEW list \in Seq(Objects), Increasing(list)
    PROVE  /\ Remember(seen, list) \in Seq(Objects)
           /\ Len(Remember(seen, list)) <= MaxSeen
           /\ ToSet(Remember(seen, list)) \subseteq ToSet(seen) \cup ToSet(list)
<1> DEFINE more == Kept(list, Objects \ ToSet(seen))
           all == seen \o more
           m == Len(all)
           a == IF m > MaxSeen THEN m - MaxSeen + 1 ELSE 1
           r == Remember(seen, list)
<1>0. MaxSeen \in Nat /\ MaxSeen > 0
  BY Parameters
<1>1. r = SubSeq(all, a, m)
  BY DEF Remember
<1>2. /\ more \in Seq(Objects) /\ ToSet(more) \subseteq ToSet(list)
      /\ ToSet(more) = {more[k] : k \in 1..Len(more)}
  <2>1. /\ more \in Seq(Objects)
        /\ ToSet(more) = ToSet(list) \cap (Objects \ ToSet(seen))
    BY KeptFacts, Parameters
  <2> HIDE DEF more
  <2> QED
    BY <2>1, InSeq
<1> HIDE DEF more
<1>3. all \in Seq(Objects) /\ m = Len(seen) + Len(more)
      /\ \A k \in 1..m : all[k] = IF k <= Len(seen) THEN seen[k] ELSE more[k - Len(seen)]
  BY <1>2, ConcatProperties
<1>4. /\ Len(seen) \in Nat /\ Len(more) \in Nat /\ m \in Nat
      /\ ToSet(seen) = {seen[k] : k \in 1..Len(seen)}
  BY <1>2, <1>3, InSeq
<1> HIDE DEF all, r
<1>5. \A k \in 1..m : all[k] \in ToSet(seen) \cup ToSet(list)
  <2> SUFFICES ASSUME NEW k \in 1..m
               PROVE  all[k] \in ToSet(seen) \cup ToSet(list)
    OBVIOUS
  <2>1. CASE k <= Len(seen)
    <3>1. k \in 1..Len(seen)
      BY <1>4, <2>1
    <3> QED
      BY <1>3, <1>4, <2>1, <3>1
  <2>2. CASE ~(k <= Len(seen))
    <3>1. k - Len(seen) \in 1..Len(more)
      BY <1>3, <1>4, <2>2
    <3> QED
      BY <1>2, <1>3, <2>2, <3>1
  <2> QED
    BY <2>1, <2>2
<1>6. a \in Nat \ {0} /\ m \in 0..m /\ (a <= m => m - a + 1 <= MaxSeen)
      /\ \A k \in 1..(m - a + 1) : a + k - 1 \in 1..m
  BY <1>0, <1>4
<1> HIDE DEF a, m
<1>7. /\ r \in Seq(Objects) /\ Len(r) = IF a <= m THEN m - a + 1 ELSE 0
      /\ \A k \in 1..Len(r) : r[k] = all[a + k - 1]
  BY <1>1, <1>3, <1>6, SubSeqIs DEF m
<1>8. Len(r) <= MaxSeen /\ \A k \in 1..Len(r) : a + k - 1 \in 1..m
  BY <1>0, <1>4, <1>6, <1>7
<1>9. ToSet(r) = {r[k] : k \in 1..Len(r)}
  BY <1>7, InSeq
<1> QED
  BY <1>5, <1>7, <1>8, <1>9 DEF r

LEMMA PortionIs ==
    ASSUME NEW list \in Seq(Objects), Increasing(list), NEW o \in Nat,
           NEW n \in Nat \ {0}
    PROVE  LET part == Portion(list, o, n)
               stop == o + Len(part) IN
           /\ part \in Seq(Objects) /\ stop \in Nat /\ o <= stop
           /\ Upto(list, stop) = Upto(list, o) \cup ToSet(part)
           /\ Upto(list, o) \cap ToSet(part) = {}
           /\ Upto(list, stop) \subseteq ToSet(list)
           /\ stop < Len(list) => o < stop
           /\ ~(stop < Len(list)) => Upto(list, stop) = ToSet(list)
<1> DEFINE part == Portion(list, o, n)
           stop == o + Len(part)
           m == Len(list)
           b == Smaller(o + n, m)
<1>1. /\ m \in Nat /\ ToSet(list) = {list[k] : k \in 1..m}
      /\ \A k \in 1..m : list[k] \in Int
  BY InSeq, Parameters
<1>2. b \in 0..m /\ b <= o + n /\ (b = m \/ b = o + n)
  BY <1>1 DEF Smaller
<1>3. part = SubSeq(list, o + 1, b)
  BY DEF Portion
<1> HIDE DEF part, b
<1>4. /\ part \in Seq(Objects) /\ Len(part) = IF o + 1 <= b THEN b - (o + 1) + 1 ELSE 0
      /\ \A k \in 1..Len(part) : part[k] = list[(o + 1) + k - 1]
  BY <1>2, <1>3, SubSeqIs
<1>5. /\ stop = IF o + 1 <= b THEN b ELSE o
      /\ Len(part) \in Nat
  BY <1>1, <1>2, <1>4
<1>6. \A k \in 1..Len(part) : part[k] = list[o + k]
  <2> SUFFICES ASSUME NEW k \in 1..Len(part) PROVE part[k] = list[o + k]
    OBVIOUS
  <2>1. (o + 1) + k - 1 = o + k
    BY <1>5
  <2> QED
    BY <1>4, <2>1
<1> HIDE DEF stop
<1>7. stop \in Nat /\ o <= stop
  BY <1>2, <1>5
<1>8. ToSet(part) = {list[k] : k \in {j \in 1..m : o < j /\ j <= stop}}
  <2>1. ToSet(part) = {part[k] : k \in 1..Len(part)}
    BY <1>4, InSeq
  <2>2. \A k \in 1..Len(part) : o + k \in 1..m /\ o < o + k /\ o + k <= stop
    BY <1>1, <1>2, <1>4, <1>5
  <2>3. \A j \in 1..m : o < j /\ j <= stop => \E k \in 1..Len(part) : part[k] = list[j]
    <3> SUFFICES ASSUME NEW j \in 1..m, o < j, j <= stop
                 PROVE  \E k \in 1..Len(part) : part[k] = list[j]
      OBVIOUS
    <3> DEFINE k == j - o
    <3>1. k \in 1..Len(part) /\ o + k = j
      BY <1>1, <1>2, <1>4, <1>5
    <3> HIDE DEF k
    <3> QED
      BY <1>6, <3>1
  <2> QED
    <3>1. \A k \in 1..Len(part) : \E j \in 1..m : o < j /\ j <= stop /\ part[k] = list[j]
      BY <1>6, <2>2
    <3> DEFINE between == {j \in 1..m : o < j /\ j <= stop}
    <3>2. \A k \in 1..Len(part) : \E j \in between : part[k] = list[j]
      BY <3>1
    <3>3. \A j \in between : \E k \in 1..Len(part) : part[k] = list[j]
      BY <2>3
    <3> HIDE DEF between
    <3>4. {part[k] : k \in 1..Len(part)} = {list[j] : j \in between}
      BY <3>2, <3>3
    <3> QED
      BY <2>1, <3>4 DEF between
<1>9. Upto(list, stop) = Upto(list, o) \cup ToSet(part)
  BY <1>1, <1>7, <1>8 DEF Upto
<1>10. Upto(list, o) \cap ToSet(part) = {}
  <2> SUFFICES ASSUME NEW j \in 1..m, NEW k \in 1..m, j <= o, o < k, list[j] = list[k]
               PROVE  FALSE
    BY <1>8 DEF Upto
  <2>1. list[j] < list[k]
    BY <1>1 DEF Increasing
  <2> QED
    BY <1>1, <2>1
<1>11. Upto(list, stop) \subseteq ToSet(list)
  BY <1>1 DEF Upto
<1>12. stop < m => o < stop
  BY <1>1, <1>2, <1>5
<1>13. ~(stop < m) => Upto(list, stop) = ToSet(list)
  BY <1>1, <1>7 DEF Upto
<1> QED
  BY <1>4, <1>7, <1>9, <1>10, <1>11, <1>12, <1>13 DEF part, stop

\* EVE's total is a number, and no traversal by cursor has one.
LEMMA TotalNumber ==
    ASSUME eve \subseteq Objects, mode \in {"page", "cursor"}
    PROVE  Total \in Nat
<1>1. CASE mode = "page"
  BY <1>1, TotalIs
<1>2. CASE mode = "cursor"
  BY <1>2 DEF Total
<1> QED
  BY <1>1, <1>2

\* The total that goes on is the one that was told, whoever told it.
LEMMA EffectiveIs ==
    ASSUME NEW initial \in Nat, NEW total \in Nat
    PROVE  LET t == EffectiveTotal(initial, total) IN
           /\ t \in Nat
           /\ t = 0 <=> initial = 0 /\ total = 0
           /\ \A x \in Nat : initial \in {0, x} /\ total \in {0, x} => t \in {0, x}
  BY DEF EffectiveTotal, Smaller

---------------------------------------------------------------------------
(* A place, its trail and the next portion *)

\* What the properties keep of a traversal.
Trail == [got: SUBSET Objects, twice: SUBSET Objects, loose: SUBSET Objects,
          content: Seq(Objects), part: SUBSET Objects, portions: Nat, since: Nat,
          grant: Nat, late: BOOLEAN, capped: BOOLEAN, counted: BOOLEAN]

\* The names Deliver gives to the parts of its step.
ListOf(place, page)      == Deduplicated(page.list, place.seen)
PartOf(place, page, n)   == Portion(ListOf(place, page), place.offset, n)
StopOf(place, page, n)   == place.offset + Len(PartOf(place, page, n))
Within(place, page, n)   == StopOf(place, page, n) < Len(ListOf(place, page))
More(place, page)        == MorePages(place, page)
Goes(place, page, n)     ==
    Within(place, page, n) \/ (More(place, page) /\ MayGoOn(place))
TrailOf(place, trail, page, n) ==
    Noted(trail, place, page, PartOf(place, page, n), ListOf(place, page),
          Within(place, page, n), More(place, page))
PlaceOf(place, page, n) ==
    IF Within(place, page, n)
    THEN [place EXCEPT !.offset = StopOf(place, page, n),
                       !.total = EffectiveTotal(place.total, page.total)]
    ELSE NextPage(place, page, ListOf(place, page))

\* No more portions than there was room for before this place.
Forward(place, trail) ==
    /\ place.offset < PageSize
    /\ trail.portions <= (place.page - 1) * PageSize + place.offset

\* What was returned is remembered, or on this page before the offset, or
\* among the objects that may be returned again.
Once(place, trail) ==
    /\ trail.twice \subseteq trail.loose
    /\ trail.got \subseteq trail.loose \cup ToSet(place.seen) \cup trail.part
    /\ trail.part \subseteq trail.loose \cup Upto(trail.content, place.offset)

\* The objects of the collection before this place's page.
Passed(place) ==
    IF mode = "page" THEN Upto(Listed(eve), (place.page - 1) * PageSize)
    ELSE {x \in eve : x <= place.after}

\* As long as the collection does not change, everything before this place
\* was returned, and nothing else is remembered.
Whole(place, trail) ==
    trail.since = version =>
      /\ trail.got \subseteq eve
      /\ Passed(place) \subseteq trail.got
      /\ ToSet(place.seen) \subseteq trail.got
      /\ Upto(Present(place), place.offset) \subseteq trail.got
      /\ place.total \in {0, Total}

\* The number of pages that EVE has told is not forgotten.
Told(place, trail) == trail.counted => place.total # 0

Sane(place, trail) == /\ Forward(place, trail) /\ Once(place, trail)
                      /\ Whole(place, trail) /\ Told(place, trail)

ModeIs == mode \in {"page", "cursor"} /\ eve \subseteq Objects

LEMMA PlaceFields ==
    ASSUME NEW place \in Place
    PROVE  /\ place.page \in 1..MaximumPages /\ place.page \in Nat \ {0}
           /\ place.after \in Objects \cup {0}
           /\ place.offset \in 0..PageSize /\ place.offset \in Nat
           /\ place.total \in Nat /\ place.seen \in Seq(Objects)
           /\ ToSet(place.seen) \subseteq Objects
<1>1. /\ place.page \in 1..MaximumPages /\ place.after \in Objects \cup {0}
      /\ place.offset \in 0..PageSize /\ place.total \in Nat
      /\ place.seen \in Seq(Objects)
  BY DEF Place
<1> QED
  BY <1>1, InSeq, Parameters

LEMMA TrailFields ==
    ASSUME NEW trail \in Trail
    PROVE  /\ trail.got \subseteq Objects /\ trail.twice \subseteq Objects
           /\ trail.loose \subseteq Objects /\ trail.content \in Seq(Objects)
           /\ trail.part \subseteq Objects /\ trail.portions \in Nat
           /\ trail.since \in Nat /\ trail.grant \in Nat
           /\ trail.late \in BOOLEAN /\ trail.capped \in BOOLEAN
           /\ trail.counted \in BOOLEAN
  BY DEF Trail

\* What a portion is, and where it ends.
LEMMA PartIs ==
    ASSUME NEW place \in Place, NEW n \in Nat \ {0},
           NEW page, IsPage(page)
    PROVE  LET list == ListOf(place, page)
               part == PartOf(place, page, n)
               stop == StopOf(place, page, n) IN
           /\ list \in Seq(Objects) /\ Increasing(list)
           /\ Len(list) \in Nat /\ Len(list) <= PageSize
           /\ ToSet(list) = ToSet(page.list) \ ToSet(place.seen)
           /\ part \in Seq(Objects) /\ ToSet(part) \subseteq ToSet(list)
           /\ stop \in Nat /\ place.offset <= stop
           /\ Upto(list, stop) = Upto(list, place.offset) \cup ToSet(part)
           /\ Upto(list, place.offset) \cap ToSet(part) = {}
           /\ Within(place, page, n) <=> stop < Len(list)
           /\ Within(place, page, n) => place.offset < stop
           /\ ~Within(place, page, n) => Upto(list, stop) = ToSet(list)
<1> DEFINE list == ListOf(place, page)
           part == PartOf(place, page, n)
           stop == StopOf(place, page, n)
<1>1. /\ list \in Seq(Objects) /\ Increasing(list)
      /\ Len(list) \in Nat /\ Len(list) <= PageSize
      /\ ToSet(list) = ToSet(page.list) \ ToSet(place.seen)
  BY ListIs DEF ListOf, IsPage
<1>2. place.offset \in Nat
  BY PlaceFields
<1>3. part = Portion(list, place.offset, n) /\ stop = place.offset + Len(part)
  BY DEF PartOf, StopOf
<1>4. Within(place, page, n) <=> stop < Len(list)
  BY DEF Within
<1> HIDE DEF list, part, stop
<1>5. /\ part \in Seq(Objects) /\ stop \in Nat /\ place.offset <= stop
      /\ Upto(list, stop) = Upto(list, place.offset) \cup ToSet(part)
      /\ Upto(list, place.offset) \cap ToSet(part) = {}
      /\ Upto(list, stop) \subseteq ToSet(list)
      /\ stop < Len(list) => place.offset < stop
      /\ ~(stop < Len(list)) => Upto(list, stop) = ToSet(list)
  BY <1>1, <1>2, <1>3, PortionIs
<1>6. ToSet(part) \subseteq ToSet(list)
  BY <1>5
<1> QED
  BY <1>1, <1>4, <1>5, <1>6 DEF list, part, stop

\* The parts of Noted.
Given(place, page, n)     == ToSet(PartOf(place, page, n))
Known(place, page)        == ToSet(place.seen) \cup ToSet(ListOf(place, page))
Gone(place, page)         ==
    Known(place, page) \ ToSet(Remember(place.seen, ListOf(place, page)))
Moved(place, trail, page) == trail.part # {} /\ trail.content # ListOf(place, page)
Capped(place, page, n)    ==
    ~Within(place, page, n) /\ More(place, page) /\ place.page = MaximumPages

LEMMA TrailIs ==
    ASSUME NEW place \in Place, NEW trail \in Trail, NEW n \in Nat \ {0},
           NEW page, IsPage(page)
    PROVE  LET new == TrailOf(place, trail, page, n)
               part == Given(place, page, n) IN
           /\ new \in Trail
           /\ new.since = Smaller(trail.since, page.version)
           /\ (new.counted <=> trail.counted \/ page.total # 0)
           /\ new.grant = trail.grant
           /\ new.late = trail.late /\ new.portions = trail.portions + 1
           /\ new.got = trail.got \cup part
           /\ new.twice = trail.twice \cup (trail.got \cap part)
           /\ new.loose = trail.loose \cup (IF Within(place, page, n) THEN {} ELSE Gone(place, page))
                            \cup (IF Moved(place, trail, page) THEN trail.part \cup part ELSE {})
           /\ Within(place, page, n) => /\ new.part = trail.part \cup part
                                  /\ new.content = ListOf(place, page)
           /\ ~Within(place, page, n) => new.part = {} /\ new.content = <<>>
           /\ new.capped <=> Capped(place, page, n)
<1> DEFINE list  == ListOf(place, page)
           part  == Given(place, page, n)
           new   == TrailOf(place, trail, page, n)
           e     == <<>>
           g2 == trail.got \cup part
           t2 == trail.twice \cup (trail.got \cap part)
           l2 == trail.loose \cup (IF Within(place, page, n) THEN {} ELSE Gone(place, page))
                            \cup (IF Moved(place, trail, page) THEN trail.part \cup part ELSE {})
           p2 == IF Within(place, page, n) THEN trail.part \cup part ELSE {}
           c2 == IF Within(place, page, n) THEN list ELSE e
           k2 == Capped(place, page, n)
           q2 == trail.portions + 1
           s2 == Smaller(trail.since, page.version)
           n2 == trail.counted \/ page.total # 0
<1>1. /\ list \in Seq(Objects) /\ part \subseteq Objects /\ Gone(place, page) \subseteq Objects
  <2>1. list \in Seq(Objects) /\ PartOf(place, page, n) \in Seq(Objects)
    BY PartIs
  <2>2. ToSet(PartOf(place, page, n)) \subseteq Objects
    BY <2>1, InSeq
  <2>3. ToSet(list) \subseteq Objects
    <3> HIDE DEF list
    <3> QED
      BY <2>1, InSeq
  <2> QED
    BY <2>1, <2>2, <2>3, PlaceFields DEF Given, Gone, Known
<1>2. new = [trail EXCEPT !.got = g2, !.twice = t2, !.loose = l2, !.part = p2,
                          !.content = c2, !.portions = q2, !.since = s2,
                          !.counted = n2, !.capped = k2]
  BY DEF TrailOf, Noted, Given, Known, Gone, Moved, Capped
<1>3. e \in Seq(Objects)
  BY EmptySeq
<1>4. /\ g2 \subseteq Objects /\ t2 \subseteq Objects /\ p2 \subseteq Objects
      /\ l2 \subseteq Objects
  BY <1>1, TrailFields
<1>5. /\ c2 \in Seq(Objects) /\ k2 \in BOOLEAN /\ q2 \in Nat
      /\ s2 \in Nat /\ n2 \in BOOLEAN
  BY <1>1, <1>3, TrailFields DEF Capped, IsPage, Smaller
<1> HIDE DEF new, g2, t2, l2, p2, c2, k2, q2, s2, n2
<1>6. /\ new.since = s2 /\ (new.counted <=> n2) /\ new.grant = trail.grant /\ new.late = trail.late
      /\ new.portions = q2 /\ new.got = g2 /\ new.twice = t2
      /\ new.loose = l2 /\ new.part = p2 /\ new.content = c2 /\ (new.capped <=> k2)
  BY <1>2, Zenon DEF Trail
<1>7. new \in Trail
  BY <1>2, <1>4, <1>5, Zenon DEF Trail
<1> QED
  BY <1>6, <1>7 DEF new, g2, t2, l2, p2, c2, k2, q2, s2, n2

\* A traversal that has seen nothing older than the collection as it is now saw
\* nothing older before this portion, and nothing older in it.
LEMMA SinceIs ==
    ASSUME NEW place \in Place, NEW trail \in Trail, NEW n \in Nat \ {0},
           NEW page, IsPage(page), version \in Nat, trail.since <= version
    PROVE  LET new == TrailOf(place, trail, page, n) IN
           /\ new.since <= version
           /\ new.since = version => trail.since = version /\ page.version = version
<1>1. /\ TrailOf(place, trail, page, n).since = Smaller(trail.since, page.version)
      /\ trail.since \in Nat
  BY TrailIs, TrailFields
<1> QED
  BY <1>1 DEF Smaller, IsPage

---------------------------------------------------------------------------
(* A portion keeps its trail in order *)

LEMMA PlaceIs ==
    ASSUME NEW place \in Place, NEW n \in Nat \ {0},
           NEW page, IsPage(page)
    PROVE  LET new == PlaceOf(place, page, n)
               raw == page.list IN
           /\ new.total = EffectiveTotal(place.total, page.total) /\ new.total \in Nat
           /\ Within(place, page, n) =>
                /\ new.page = place.page /\ new.after = place.after
                /\ new.seen = place.seen /\ new.offset = StopOf(place, page, n)
           /\ ~Within(place, page, n) =>
                /\ new.page = place.page + 1 /\ new.offset = 0
                /\ new.after = IF raw = <<>> THEN place.after ELSE Last(raw)
                /\ new.seen = Remember(place.seen, ListOf(place, page))
           /\ Goes(place, page, n) => new \in Place
           /\ Len(place.seen) <= MaxSeen => Len(new.seen) <= MaxSeen
<1> DEFINE new == PlaceOf(place, page, n)
           raw == page.list
           t == EffectiveTotal(place.total, page.total)
           s == Remember(place.seen, ListOf(place, page))
           stop == StopOf(place, page, n)
           a == IF raw = <<>> THEN place.after ELSE Last(raw)
           p == place.page + 1
<1>1. t \in Nat
  BY EffectiveIs, PlaceFields DEF IsPage
<1>2. /\ ListOf(place, page) \in Seq(Objects) /\ Increasing(ListOf(place, page))
      /\ Within(place, page, n) => stop \in 0..PageSize
  BY PartIs, Parameters
<1>3. s \in Seq(Objects) /\ Len(s) <= MaxSeen
  BY <1>2, RememberIs, PlaceFields
<1>4. a \in Objects \cup {0}
  <2>1. raw \in Seq(Objects)
    BY DEF IsPage
  <2> HIDE DEF raw
  <2>2. raw # <<>> => Last(raw) \in Objects
    <3> SUFFICES ASSUME raw # <<>> PROVE Last(raw) \in Objects
      OBVIOUS
    <3>1. Len(raw) \in 1..Len(raw)
      BY <2>1, InSeq, EmptySeq
    <3> QED
      BY <2>1, <3>1, InSeq DEF Last
  <2> QED
    BY <2>2, PlaceFields
<1>5. Goes(place, page, n) /\ ~Within(place, page, n) => p \in 1..MaximumPages
  BY PlaceFields, Parameters DEF Goes, MayGoOn
<1>6. 0 \in 0..PageSize
  BY Parameters
<1>7. CASE Within(place, page, n)
  <2>1. new = [place EXCEPT !.offset = stop, !.total = t]
    BY <1>7 DEF PlaceOf
  <2> HIDE DEF new, stop, t
  <2>2. /\ new.page = place.page /\ new.after = place.after /\ new.seen = place.seen
        /\ new.offset = stop /\ new.total = t
    BY <2>1, Zenon DEF Place
  <2>3. new \in Place
    BY <1>1, <1>2, <1>7, <2>1, Zenon DEF Place
  <2> QED
    BY <1>1, <1>7, <2>2, <2>3 DEF new, stop, t
<1>8. CASE ~Within(place, page, n)
  <2>1. new = [page |-> p, offset |-> 0, after |-> a, total |-> t, seen |-> s]
    BY <1>8 DEF PlaceOf, NextPage
  <2> HIDE DEF new, p, a, t, s
  <2>2. /\ new.page = p /\ new.offset = 0 /\ new.after = a /\ new.total = t
        /\ new.seen = s
    BY <2>1
  <2>3. Goes(place, page, n) => new \in Place
    BY <1>1, <1>3, <1>4, <1>5, <1>6, <1>8, <2>1, Zenon DEF Place
  <2> QED
    BY <1>1, <1>3, <1>8, <2>2, <2>3 DEF new, p, a, t, s
<1> QED
  BY <1>7, <1>8

LEMMA ForwardKept ==
    ASSUME NEW place \in Place, NEW trail \in Trail, NEW n \in Nat \ {0},
           NEW page, IsPage(page),
           Forward(place, trail)
    PROVE  Forward(PlaceOf(place, page, n), TrailOf(place, trail, page, n))
<1> DEFINE new == PlaceOf(place, page, n)
           a == (place.page - 1) * PageSize
           stop == StopOf(place, page, n)
           k == TrailOf(place, trail, page, n).portions
<1>1. k = trail.portions + 1 /\ trail.portions \in Nat
  BY TrailIs, TrailFields
<1>2. place.offset < PageSize /\ trail.portions <= a + place.offset
  BY DEF Forward
<1>3. /\ a \in Nat /\ place.offset \in Nat /\ PageSize \in Nat /\ PageSize > 0
      /\ a + PageSize = ((place.page + 1) - 1) * PageSize
  BY PlaceFields, PagesAddUp, Parameters
<1> HIDE DEF new, a, stop, k
<1>4. CASE Within(place, page, n)
  <2>1. new.page = place.page /\ new.offset = stop
    BY <1>4, PlaceIs DEF new, stop
  <2>2. stop \in Nat /\ place.offset < stop /\ stop < PageSize
    <3>1. /\ stop \in Nat /\ place.offset < stop /\ stop < Len(ListOf(place, page))
          /\ Len(ListOf(place, page)) \in Nat /\ Len(ListOf(place, page)) <= PageSize
      BY <1>4, PartIs DEF stop
    <3> QED
      BY <1>3, <3>1
  <2>3. k <= a + stop
    BY <1>1, <1>2, <1>3, <2>2
  <2> QED
    BY <2>1, <2>2, <2>3 DEF Forward, new, a, k
<1>5. CASE ~Within(place, page, n)
  <2>1. new.page = place.page + 1 /\ new.offset = 0
    BY <1>5, PlaceIs DEF new
  <2>2. k <= a + PageSize
    BY <1>1, <1>2, <1>3
  <2>3. k <= (new.page - 1) * PageSize + 0
    BY <1>3, <2>1, <2>2
  <2> QED
    BY <1>3, <2>1, <2>3 DEF Forward, new, k
<1> QED
  BY <1>4, <1>5

LEMMA OnceKept ==
    ASSUME NEW place \in Place, NEW trail \in Trail, NEW n \in Nat \ {0},
           NEW page, IsPage(page),
           Once(place, trail)
    PROVE  Once(PlaceOf(place, page, n), TrailOf(place, trail, page, n))
<1> DEFINE new  == TrailOf(place, trail, page, n)
           list == ListOf(place, page)
           part == Given(place, page, n)
           seen == ToSet(place.seen)
           head == Upto(list, place.offset)
           past == Upto(trail.content, place.offset)
           next == ToSet(PlaceOf(place, page, n).seen)
<1>1. /\ trail.twice \subseteq trail.loose
      /\ trail.got \subseteq trail.loose \cup seen \cup trail.part
      /\ trail.part \subseteq trail.loose \cup past
  BY DEF Once
<1>2. /\ new.got = trail.got \cup part
      /\ new.twice = trail.twice \cup (trail.got \cap part)
      /\ new.loose = trail.loose \cup (IF Within(place, page, n) THEN {} ELSE Gone(place, page))
                       \cup (IF Moved(place, trail, page) THEN trail.part \cup part ELSE {})
      /\ Within(place, page, n) => new.part = trail.part \cup part /\ new.content = list
      /\ ~Within(place, page, n) => new.part = {}
  BY TrailIs
<1>3. /\ ToSet(list) \cap seen = {} /\ part \subseteq ToSet(list)
      /\ head \cap part = {} /\ head \cup part = Upto(list, StopOf(place, page, n))
      /\ head \subseteq ToSet(list)
  <2>1. /\ ToSet(list) = ToSet(page.list) \ seen /\ part \subseteq ToSet(list)
        /\ head \cap part = {} /\ Upto(list, StopOf(place, page, n)) = head \cup part
    BY PartIs DEF Given
  <2>2. list \in Seq(Objects)
    BY PartIs
  <2>3. head \subseteq ToSet(list)
    <3> HIDE DEF list
    <3>1. ToSet(list) = {list[k] : k \in 1..Len(list)}
      BY <2>2, InSeq
    <3> QED
      BY <3>1 DEF Upto
  <2> QED
    BY <2>1, <2>3
<1>4. trail.part # {} /\ ~Moved(place, trail, page) => past = head
  BY DEF Moved
<1>5. Moved(place, trail, page) => trail.part \cup part \subseteq new.loose
  BY <1>2
<1> HIDE DEF list, part, seen, head, past
<1>6. trail.got \cap part \subseteq new.loose
  <2> SUFFICES ASSUME NEW x \in trail.got, x \in part, x \notin new.loose PROVE FALSE
    OBVIOUS
  <2>1. x \notin trail.loose /\ x \notin seen
    BY <1>2, <1>3
  <2>2. x \in trail.part
    BY <1>1, <2>1
  <2>3. x \in past /\ ~Moved(place, trail, page)
    BY <1>1, <1>5, <2>1, <2>2
  <2> QED
    BY <1>3, <1>4, <2>2, <2>3
<1>7. trail.loose \subseteq new.loose
  BY <1>2
<1> HIDE DEF new, next
<1>8. CASE Within(place, page, n)
  <2>1. next = seen /\ PlaceOf(place, page, n).offset = StopOf(place, page, n)
    BY <1>8, PlaceIs DEF next, seen
  <2>2. new.got \subseteq new.loose \cup next \cup new.part
    BY <1>1, <1>2, <1>7, <1>8, <2>1
  <2>3. new.part \subseteq new.loose \cup head \cup part
    <3>1. trail.part \subseteq new.loose \cup head
      BY <1>1, <1>4, <1>5, <1>7
    <3> QED
      BY <1>2, <1>8, <3>1
  <2>4. new.content = list
    BY <1>2, <1>8
  <2>5. new.part \subseteq new.loose \cup Upto(new.content, PlaceOf(place, page, n).offset)
    BY <1>3, <2>1, <2>3, <2>4
  <2>6. new.twice \subseteq new.loose
    BY <1>1, <1>2, <1>6, <1>7
  <2> QED
    BY <2>2, <2>5, <2>6 DEF Once, new, next
<1>9. CASE ~Within(place, page, n)
  <2>1. next = ToSet(Remember(place.seen, list))
    BY <1>9, PlaceIs DEF next, list
  <2>2. seen \cup ToSet(list) \subseteq new.loose \cup next
    <3>1. Gone(place, page) = (seen \cup ToSet(list)) \ next
      BY <2>1 DEF Gone, Known, list, seen
    <3> QED
      BY <1>2, <1>9, <3>1
  <2>3. trail.part \subseteq new.loose \cup ToSet(list)
    BY <1>1, <1>3, <1>4, <1>5, <1>7
  <2>4. new.got \subseteq new.loose \cup next \cup new.part
    BY <1>1, <1>2, <1>3, <1>7, <2>2, <2>3
  <2>5. new.part = {}
    BY <1>2, <1>9
  <2>6. new.twice \subseteq new.loose
    BY <1>1, <1>2, <1>6, <1>7
  <2> QED
    BY <2>4, <2>5, <2>6 DEF Once, new, next
<1> QED
  BY <1>8, <1>9

---------------------------------------------------------------------------
(* A portion of a collection that does not change *)

\* What a traversal of a collection that does not change has read before a
\* portion and after it.
LEMMA ReadSoFar ==
    ASSUME ModeIs, NEW place \in Place, NEW trail \in Trail, NEW n \in Nat \ {0},
           NEW page, IsPage(page),
           Whole(place, trail), Genuine(page, place),
           trail.since = version, page.version = version
    PROVE  LET got == TrailOf(place, trail, page, n).got IN
           /\ got \subseteq eve /\ Passed(place) \subseteq got
           /\ ToSet(place.seen) \subseteq got
           /\ Upto(ListOf(place, page), StopOf(place, page, n)) \subseteq got
           /\ ~Within(place, page, n) =>
                ToSet(page.list) \cup ToSet(ListOf(place, page)) \subseteq got
<1> DEFINE got  == TrailOf(place, trail, page, n).got
           list == ListOf(place, page)
           raw  == page.list
           part == Given(place, page, n)
<1>1. got = trail.got \cup part
  BY TrailIs
<1>2. /\ trail.got \subseteq eve /\ Passed(place) \subseteq trail.got
      /\ ToSet(place.seen) \subseteq trail.got
      /\ Upto(list, place.offset) \subseteq trail.got
  BY DEF Whole, Genuine, Present, ListOf
<1>3. /\ ToSet(list) = ToSet(raw) \ ToSet(place.seen) /\ part \subseteq ToSet(list)
      /\ Upto(list, StopOf(place, page, n)) = Upto(list, place.offset) \cup part
      /\ ~Within(place, page, n) => Upto(list, StopOf(place, page, n)) = ToSet(list)
  BY PartIs DEF Given
<1>4. ToSet(raw) \subseteq eve
  BY PageIs DEF ModeIs, Genuine
<1> HIDE DEF got, list, raw, part
<1>5. got \subseteq eve
  BY <1>1, <1>2, <1>3, <1>4
<1>6. Upto(list, StopOf(place, page, n)) \subseteq got
  BY <1>1, <1>2, <1>3
<1>7. Passed(place) \subseteq got /\ ToSet(place.seen) \subseteq got
  BY <1>1, <1>2
<1>8. ~Within(place, page, n) => ToSet(raw) \subseteq got /\ ToSet(list) \subseteq got
  BY <1>3, <1>6, <1>7
<1> QED
  BY <1>5, <1>6, <1>7, <1>8 DEF got, list, raw

LEMMA UptoNone ==
    ASSUME NEW T, NEW list \in Seq(T)
    PROVE  Upto(list, 0) = {}
  BY InSeq DEF Upto

LEMMA WholeKept ==
    ASSUME ModeIs, NEW place \in Place, NEW trail \in Trail, NEW n \in Nat \ {0},
           NEW page, IsPage(page),
           Whole(place, trail), Genuine(page, place), Goes(place, page, n),
           version \in Nat, trail.since <= version
    PROVE  Whole(PlaceOf(place, page, n), TrailOf(place, trail, page, n))
<1> DEFINE new == PlaceOf(place, page, n)
           tr  == TrailOf(place, trail, page, n)
           raw == page.list
<1> SUFFICES ASSUME tr.since = version
             PROVE  /\ tr.got \subseteq eve
                    /\ Passed(new) \subseteq tr.got
                    /\ ToSet(new.seen) \subseteq tr.got
                    /\ Upto(Present(new), new.offset) \subseteq tr.got
                    /\ new.total \in {0, Total}
  BY DEF Whole
<1>1. /\ trail.since = version /\ page.version = version
      /\ raw = PageOf(place) /\ page.total \in {0, Total}
  BY SinceIs DEF Genuine
<1>2. /\ tr.got \subseteq eve /\ Passed(place) \subseteq tr.got
      /\ ToSet(place.seen) \subseteq tr.got
      /\ Upto(ListOf(place, page), StopOf(place, page, n)) \subseteq tr.got
      /\ ~Within(place, page, n) => ToSet(raw) \cup ToSet(ListOf(place, page)) \subseteq tr.got
  BY <1>1, ReadSoFar
<1>3. new.total \in {0, Total}
  <2>1. place.total \in {0, Total} /\ place.total \in Nat
    BY <1>1, PlaceFields DEF Whole
  <2>2. page.total \in Nat /\ Total \in Nat
    BY TotalNumber DEF ModeIs, IsPage
  <2>3. EffectiveTotal(place.total, page.total) \in {0, Total}
    BY <1>1, <2>1, <2>2, EffectiveIs
  <2> QED
    BY <2>3, PlaceIs
<1>4. new \in Place
  BY PlaceIs
<1>5. CASE Within(place, page, n)
  <2>1. /\ new.page = place.page /\ new.after = place.after
        /\ new.seen = place.seen /\ new.offset = StopOf(place, page, n)
    BY <1>5, PlaceIs
  <2> HIDE DEF new, tr
  <2>2. PageOf(new) = PageOf(place)
    BY <2>1 DEF PageOf
  <2>3. Present(new) = ListOf(place, page)
    BY <1>1, <2>1, <2>2 DEF Present, ListOf, raw
  <2>4. Passed(new) = Passed(place)
    BY <2>1 DEF Passed
  <2> QED
    BY <1>2, <1>3, <2>1, <2>3, <2>4
<1>6. CASE ~Within(place, page, n)
  <2>1. /\ new.page = place.page + 1 /\ new.offset = 0
        /\ new.after = IF raw = <<>> THEN place.after ELSE Last(raw)
        /\ new.seen = Remember(place.seen, ListOf(place, page))
    BY <1>6, PlaceIs
  <2> HIDE DEF new, tr, raw
  <2>2. Upto(Present(new), new.offset) = {}
    <3>1. Present(new) \in Seq(Objects)
      BY <1>4, PageIs, ListIs DEF ModeIs, Present
    <3> QED
      BY <2>1, <3>1, UptoNone
  <2>3. ToSet(new.seen) \subseteq tr.got
    <3>1. ToSet(new.seen) \subseteq ToSet(place.seen) \cup ToSet(ListOf(place, page))
      BY <2>1, RememberIs, PartIs, PlaceFields
    <3> QED
      BY <1>2, <1>6, <3>1
  <2>4. Passed(new) \subseteq tr.got
    <3>1. CASE mode = "page"
      <4>1. Upto(Listed(eve), place.page * PageSize)
              \subseteq Upto(Listed(eve), (place.page - 1) * PageSize) \cup ToSet(raw)
        BY <1>1, <3>1, NumberedPageIs DEF ModeIs
      <4>2. (new.page - 1) * PageSize = place.page * PageSize
        BY <2>1, PagesAddUp, PlaceFields
      <4>3. /\ Passed(new) = Upto(Listed(eve), place.page * PageSize)
            /\ Passed(place) = Upto(Listed(eve), (place.page - 1) * PageSize)
        BY <3>1, <4>2 DEF Passed
      <4> QED
        BY <1>2, <1>6, <4>1, <4>3
    <3>2. CASE mode # "page"
      <4>1. Passed(new) = {x \in eve : x <= new.after}
            /\ Passed(place) = {x \in eve : x <= place.after}
        BY <3>2 DEF Passed
      <4>2. raw # <<>> =>
              \A x \in eve : x <= Last(raw) => x <= place.after \/ x \in ToSet(raw)
        BY <1>1, <3>2, CursorPageIs DEF ModeIs
      <4>3. CASE raw = <<>>
        BY <1>2, <2>1, <4>1, <4>3
      <4>4. CASE raw # <<>>
        <5>1. new.after = Last(raw)
          BY <2>1, <4>4
        <5>2. Passed(new) \subseteq Passed(place) \cup ToSet(raw)
          BY <4>1, <4>2, <4>4, <5>1
        <5> QED
          BY <1>2, <1>6, <5>2
      <4> QED
        BY <4>3, <4>4
    <3> QED
      BY <3>1, <3>2
  <2> QED
    BY <1>2, <1>3, <2>2, <2>3, <2>4
<1> QED
  BY <1>5, <1>6

LEMMA WholeEnds ==
    ASSUME ModeIs, NEW place \in Place, NEW trail \in Trail, NEW n \in Nat \ {0},
           NEW page, IsPage(page),
           Whole(place, trail), Genuine(page, place), ~Goes(place, page, n),
           Told(place, trail), version \in Nat, trail.since <= version,
           TrailOf(place, trail, page, n).since = version,
           ~TrailOf(place, trail, page, n).capped,
           mode = "page" => TrailOf(place, trail, page, n).counted
    PROVE  TrailOf(place, trail, page, n).got = eve
<1> DEFINE got == TrailOf(place, trail, page, n).got
           raw == page.list
           all == Listed(eve)
<1>0. /\ trail.since = version /\ page.version = version
      /\ raw = PageOf(place) /\ page.total \in {0, Total}
  BY SinceIs DEF Genuine
<1>1. ~Within(place, page, n) /\ ~(More(place, page) /\ MayGoOn(place))
  BY DEF Goes
<1>2. /\ got \subseteq eve /\ Passed(place) \subseteq got
      /\ ToSet(raw) \subseteq got
  BY <1>0, <1>1, ReadSoFar
<1>3. ~More(place, page)
  <2>1. ~Capped(place, page, n)
    BY TrailIs
  <2>2. place.page \in 1..MaximumPages /\ MaximumPages \in Nat
    BY PlaceFields, Parameters
  <2> QED
    BY <1>1, <2>1, <2>2 DEF Capped, MayGoOn
<1> HIDE DEF got
<1>4. CASE mode = "page"
  <2>1. /\ EffectiveTotal(place.total, page.total) = Total
        /\ Total \in Nat /\ Total >= 1
    <3>1. place.total \in {0, Total} /\ place.total \in Nat /\ page.total \in Nat
      BY <1>0, PlaceFields DEF Whole, IsPage
    <3>2. place.total # 0 \/ page.total # 0
      BY <1>4, TrailIs DEF Told
    <3>3. Total \in Nat /\ Total >= 1
      BY <1>4, TotalIs DEF ModeIs
    <3>4. /\ EffectiveTotal(place.total, page.total) # 0
          /\ EffectiveTotal(place.total, page.total) \in {0, Total}
      BY <1>0, <3>1, <3>2, <3>3, EffectiveIs
    <3> QED
      BY <3>3, <3>4
  <2>2. place.page >= Total /\ place.page \in Nat
    BY <1>3, <1>4, <2>1, PlaceFields DEF More, MorePages
  <2>3. Cardinality(eve) <= place.page * PageSize
    BY <1>4, <2>2, TotalIs DEF ModeIs
  <2>4. /\ all \in Seq(Objects) /\ Len(all) = Cardinality(eve) /\ ToSet(all) = eve
        /\ Len(all) \in Nat
    BY ListedIs DEF ModeIs
  <2>5. Upto(all, place.page * PageSize)
          \subseteq Upto(all, (place.page - 1) * PageSize) \cup ToSet(raw)
    BY <1>0, <1>4, NumberedPageIs DEF ModeIs
  <2>6. Passed(place) = Upto(all, (place.page - 1) * PageSize)
    BY <1>4 DEF Passed
  <2>7. Upto(all, place.page * PageSize) = eve
    <3> DEFINE m == place.page * PageSize
    <3>1. m \in Nat /\ Len(all) <= m
      BY <2>3, <2>4, PagesAddUp, PlaceFields
    <3> HIDE DEF m, all
    <3>2. ToSet(all) = {all[k] : k \in 1..Len(all)}
      BY <2>4, InSeq
    <3>3. {j \in 1..Len(all) : j <= m} = 1..Len(all)
      BY <2>4, <3>1
    <3> QED
      BY <2>4, <3>2, <3>3 DEF Upto, m
  <2> QED
    BY <1>2, <2>5, <2>6, <2>7 DEF got
<1>5. CASE mode # "page"
  <2>1. raw = <<>>
    BY <1>3, <1>5 DEF More, MorePages
  <2>2. \A x \in eve : x <= place.after
    BY <1>0, <1>5, <2>1, CursorPageIs DEF ModeIs
  <2>3. Passed(place) = eve
    BY <1>5, <2>2 DEF Passed
  <2> QED
    BY <1>2, <2>3 DEF got
<1> QED
  BY <1>4, <1>5

---------------------------------------------------------------------------
(* The state of the calls and of the table *)

Record == [generation: Nat, place: Place, trail: Trail]
Call   == [pc: {"idle", "reading", "asking", "composing"}, resumed: Id \cup {0},
           given: Id \cup {0}, generation: Nat, grant: Nat, life: Nat,
           place: Place, trail: Trail, found: SUBSET Copy]

\* The types, of history too.
Shaped ==
    /\ mode \in {"page", "cursor"} /\ eve \subseteq Objects
    /\ row \in [status: {"connected", "removal_pending", "absent"}, generation: Nat]
    /\ store \in [Id -> Record] /\ calls \in [Calls -> Call]
    /\ held \subseteq Id
    /\ version \in Nat /\ stored \in 0..MaxIds
    /\ grants \in [last: Nat, life: Nat, ended: Nat]
    /\ cache \subseteq Copy
    /\ \A i \in Id : Len(store[i].place.seen) <= MaxSeen
    /\ \A c \in Calls : Len(calls[c].place.seen) <= MaxSeen

\* Deliver for a given portion, in those names.
Late(c)   == row.status # "connected" \/ calls[c].life # grants.life
NextRecord(c, page, n) ==
    [generation |-> calls[c].generation,
     place |-> PlaceOf(calls[c].place, page, n),
     trail |-> [TrailOf(calls[c].place, calls[c].trail, page, n)
                  EXCEPT !.late = @ \/ Late(c)]]

Delivered(c, page, n, composed) ==
    LET goes == Goes(calls[c].place, page, n) IN
    /\ goes => stored + 1 <= MaxIds
    /\ store' = [i \in Id |-> CASE goes /\ i = stored + 1  -> NextRecord(c, page, n)
                                [] i = calls[c].resumed    -> Absent
                                [] OTHER                   -> store[i]]
    /\ calls' = [calls EXCEPT ![c] =
         IF composed
         THEN [Idle EXCEPT !.pc = "composing", !.resumed = calls[c].resumed,
                           !.given = IF goes THEN stored + 1 ELSE 0]
         ELSE Idle]
    /\ answer' = [trail |-> TrailOf(calls[c].place, calls[c].trail, page, n),
                  given |-> IF goes THEN stored + 1 ELSE 0]
    /\ held' = IF goes /\ ~composed THEN held \cup {stored + 1} ELSE held
    /\ stored' = IF goes THEN stored + 1 ELSE stored
    /\ settled' = IF composed THEN settled ELSE Settle(calls[c].resumed)

\* A call gets a page, from wherever.
Delivers(c, page) ==
    /\ Underway(c) /\ Deliver(c, page)
    /\ IsPage(page) /\ Genuine(page, calls[c].place)

LEMMA DeliverIs ==
    ASSUME NEW c \in Calls, NEW page, Delivers(c, page)
    PROVE  /\ Underway(c) /\ UNCHANGED <<mode, eve, row, version, grants>>
           /\ IsPage(page) /\ Genuine(page, calls[c].place)
           /\ \E n \in 1..MaxItems, composed \in BOOLEAN :
                Delivered(c, page, n, composed)
  BY Zenon DEF Delivers, Deliver, Delivered, Goes, Within, StopOf, PartOf, ListOf,
    More, TrailOf, PlaceOf, NextRecord, Late

LEMMA Firsts ==
    /\ FirstPlace \in Place /\ FirstTrail \in Trail /\ Absent \in Record /\ Idle \in Call
    /\ Len(FirstPlace.seen) = 0
<1> DEFINE e == <<>>
<1>1. e \in Seq(Objects) /\ Len(e) = 0
  BY EmptySeq
<1>2. FirstPlace = [page |-> 1, after |-> 0, offset |-> 0, total |-> 0, seen |-> e]
  BY DEF FirstPlace
<1>3. FirstTrail = [got |-> {}, twice |-> {}, loose |-> {}, content |-> e,
                    part |-> {}, portions |-> 0, since |-> 0, grant |-> 0,
                    late |-> FALSE, capped |-> FALSE, counted |-> FALSE]
  BY DEF FirstTrail
<1>4. 1 \in 1..MaximumPages /\ 0 \in 0..PageSize
  BY Parameters
<1> HIDE DEF e
<1>5. FirstPlace \in Place /\ FirstPlace.seen = e
  BY <1>1, <1>2, <1>4 DEF Place
<1>6. FirstTrail \in Trail
  BY <1>1, <1>3 DEF Trail
<1>7. Absent \in Record
  BY <1>5, <1>6 DEF Absent, Record
<1>8. Idle \in Call
  BY <1>5, <1>6 DEF Idle, Call
<1> QED
  BY <1>1, <1>5, <1>6, <1>7, <1>8

LEMMA CallFields ==
    ASSUME Shaped, NEW c \in Calls
    PROVE  /\ calls[c] \in Call
           /\ calls[c].pc \in {"idle", "reading", "asking", "composing"}
           /\ calls[c].resumed \in Id \cup {0} /\ calls[c].given \in Id \cup {0}
           /\ calls[c].generation \in Nat /\ calls[c].grant \in Nat /\ calls[c].life \in Nat
           /\ calls[c].place \in Place /\ calls[c].trail \in Trail
           /\ calls[c].found \subseteq Copy
           /\ Len(calls[c].place.seen) <= MaxSeen
<1>1. calls[c] \in Call
  BY DEF Shaped
<1> QED
  BY <1>1 DEF Call, Shaped

LEMMA StoredFields ==
    ASSUME Shaped, NEW i \in Id
    PROVE  /\ store[i] \in Record /\ store[i].generation \in Nat
           /\ store[i].place \in Place /\ store[i].trail \in Trail
           /\ Len(store[i].place.seen) <= MaxSeen
<1>1. store[i] \in Record
  BY DEF Shaped
<1> QED
  BY <1>1 DEF Record, Shaped

\* One call's record is replaced.
LEMMA CallSet ==
    ASSUME Shaped, NEW c \in Calls, NEW x \in Call, Len(x.place.seen) <= MaxSeen,
           calls' = [calls EXCEPT ![c] = x]
    PROVE  /\ calls' \in [Calls -> Call] /\ calls'[c] = x
           /\ \A d \in Calls : d # c => calls'[d] = calls[d]
           /\ \A d \in Calls : Len(calls'[d].place.seen) <= MaxSeen
<1>1. calls \in [Calls -> Call] /\ \A d \in Calls : Len(calls[d].place.seen) <= MaxSeen
  BY DEF Shaped
<1> HIDE DEF Call
<1>2. /\ calls' \in [Calls -> Call] /\ calls'[c] = x
      /\ \A d \in Calls : d # c => calls'[d] = calls[d]
  BY <1>1
<1> QED
  BY <1>1, <1>2

LEMMA PutIs ==
    ASSUME Shaped, NEW c \in Calls, NEW n \in 1..MaxItems,
           NEW page, IsPage(page)
    PROVE  LET new == NextRecord(c, page, n)
               t   == TrailOf(calls[c].place, calls[c].trail, page, n) IN
           /\ n \in Nat \ {0} /\ ModeIs
           /\ new.generation = calls[c].generation
           /\ new.place = PlaceOf(calls[c].place, page, n)
           /\ new.trail.late <=> calls[c].trail.late \/ Late(c)
           /\ new.trail.grant = calls[c].trail.grant
           /\ new.trail.since = t.since /\ new.trail.counted = t.counted
           /\ new.trail.got = t.got /\ new.trail.twice = t.twice
           /\ new.trail.loose = t.loose /\ new.trail.part = t.part
           /\ new.trail.content = t.content /\ new.trail.portions = t.portions
           /\ new.trail \in Trail
           /\ Goes(calls[c].place, page, n) => new \in Record
           /\ Len(new.place.seen) <= MaxSeen
<1> DEFINE t == TrailOf(calls[c].place, calls[c].trail, page, n)
           p == PlaceOf(calls[c].place, page, n)
           l == t.late \/ Late(c)
           u == [t EXCEPT !.late = l]
           g == calls[c].generation
<1>1. n \in Nat \ {0} /\ ModeIs
  BY Parameters DEF Shaped, ModeIs
<1>2. /\ calls[c].place \in Place /\ calls[c].trail \in Trail /\ g \in Nat
      /\ Len(calls[c].place.seen) <= MaxSeen
  BY CallFields
<1>3. /\ t \in Trail /\ t.late = calls[c].trail.late
      /\ t.grant = calls[c].trail.grant
  BY <1>1, <1>2, TrailIs
<1>4. Goes(calls[c].place, page, n) => p \in Place
  BY <1>1, <1>2, PlaceIs
<1>5. Len(p.seen) <= MaxSeen
  BY <1>1, <1>2, PlaceIs
<1>6. NextRecord(c, page, n) = [generation |-> g, place |-> p, trail |-> u]
  BY DEF NextRecord
<1>7. l \in BOOLEAN /\ (l <=> calls[c].trail.late \/ Late(c))
  BY <1>3
<1> HIDE DEF t, p, l, g
<1>8. u \in Trail
  BY <1>3, <1>7, Zenon DEF Trail
<1>9. /\ u.late = l /\ u.since = t.since /\ u.grant = t.grant /\ u.got = t.got
      /\ u.twice = t.twice /\ u.loose = t.loose /\ u.part = t.part
      /\ u.content = t.content /\ u.portions = t.portions
      /\ u.counted = t.counted
  BY <1>3, Zenon DEF Trail
<1> HIDE DEF u
<1>10. /\ NextRecord(c, page, n).generation = g
       /\ NextRecord(c, page, n).place = p /\ NextRecord(c, page, n).trail = u
  BY <1>6
<1>11. Goes(calls[c].place, page, n) => NextRecord(c, page, n) \in Record
  BY <1>2, <1>4, <1>6, <1>8 DEF Record
<1> QED
  BY <1>1, <1>3, <1>5, <1>7, <1>8, <1>9, <1>10, <1>11 DEF t, p, g

---------------------------------------------------------------------------
(* What a call does *)

LEMMA EmptyIs ==
    /\ Idle.pc = "idle" /\ Idle.resumed = 0 /\ Idle.given = 0 /\ Idle.generation = 0
    /\ Idle.grant = 0 /\ Idle.life = 0 /\ Idle.place = FirstPlace
    /\ Idle.trail = FirstTrail /\ Idle.found = {}
    /\ Absent.generation = 0 /\ Absent.place = FirstPlace /\ Absent.trail = FirstTrail
    /\ FirstTrail.since = 0 /\ FirstTrail.grant = 0 /\ FirstTrail.portions = 0
    /\ FirstTrail.got = {} /\ FirstTrail.twice = {} /\ FirstTrail.loose = {}
    /\ FirstTrail.part = {} /\ FirstTrail.counted = FALSE
    /\ FirstPlace.page = 1 /\ FirstPlace.after = 0 /\ FirstPlace.offset = 0
    /\ FirstPlace.total = 0 /\ FirstPlace.seen = <<>>
  BY DEF Idle, Absent, FirstTrail, FirstPlace

\* What a call that begins is.
Begun(c, i, x) ==
    /\ x \in Call /\ Len(x.place.seen) <= MaxSeen
    /\ calls' = [calls EXCEPT ![c] = x]
    /\ x.pc = "reading" /\ x.resumed = i /\ x.given = 0 /\ x.found = {}
    /\ x.generation = row.generation /\ x.grant = grants.last /\ x.life = grants.life
    /\ i = 0 => /\ x.place = FirstPlace
                /\ x.trail = [FirstTrail EXCEPT !.since = version, !.grant = grants.last]
    /\ i # 0 => /\ store[i].generation = row.generation
                /\ x.place = store[i].place /\ x.trail = store[i].trail

LEMMA BeginIs ==
    ASSUME Shaped, NEW c \in Calls, Begin(c)
    PROVE  /\ At(c, "idle") /\ row.status = "connected" /\ store' = store
           /\ UNCHANGED <<mode, eve, row, cache, held, version, grants, stored, settled>>
           /\ answer' = NoAnswer
           /\ \E i \in held \cup {0}, x \in Call : Begun(c, i, x)
<1>1. PICK i \in held \cup {0} :
         /\ i # 0 => Resumable(i)
         /\ calls' = [calls EXCEPT ![c] =
              [Idle EXCEPT !.pc = "reading", !.resumed = i,
                 !.generation = row.generation,
                 !.grant = grants.last, !.life = grants.life,
                 !.place = IF i = 0 THEN FirstPlace ELSE store[i].place,
                 !.trail = IF i = 0 THEN [FirstTrail EXCEPT !.since = version,
                                            !.grant = grants.last]
                           ELSE store[i].trail]]
         /\ store' = AfterFind(i)
  BY Zenon DEF Begin
<1>2. /\ At(c, "idle") /\ row.status = "connected" /\ answer' = NoAnswer
      /\ UNCHANGED <<mode, eve, row, cache, held, version, grants, stored, settled>>
  BY DEF Begin, Silent, history
<1> DEFINE f == [FirstTrail EXCEPT !.since = version, !.grant = grants.last]
           p == IF i = 0 THEN FirstPlace ELSE store[i].place
           t == IF i = 0 THEN f ELSE store[i].trail
           g == row.generation
           a == grants.last
           l == grants.life
           x == [Idle EXCEPT !.pc = "reading", !.resumed = i, !.generation = g,
                             !.grant = a, !.life = l, !.place = p, !.trail = t]
<1>3. g \in Nat /\ a \in Nat /\ l \in Nat /\ version \in Nat
  BY DEF Shaped
<1>4. f \in Trail
  <2> HIDE DEF a
  <2> QED
    BY <1>3, Firsts, Zenon DEF Trail, a
<1>5. i # 0 => i \in Id
  BY DEF Shaped
<1>6. p \in Place /\ t \in Trail /\ Len(p.seen) <= MaxSeen
  <2>1. CASE i = 0
    BY <1>4, <2>1, Firsts, Parameters
  <2>2. CASE i # 0
    BY <1>5, <2>2, StoredFields
  <2> QED
    BY <2>1, <2>2
<1>7. calls' = [calls EXCEPT ![c] = x]
  BY <1>1
<1>8. i = 0 => p = FirstPlace /\ t = f
  OBVIOUS
<1>9. i # 0 => p = store[i].place /\ t = store[i].trail
  OBVIOUS
<1>10. i # 0 => store[i].generation = g
  BY <1>1 DEF Resumable
<1>11. i \in Id \cup {0} /\ "reading" \in {"idle", "reading", "asking", "composing"}
  BY <1>5
<1> HIDE DEF p, t, g, a, l
<1>12. x \in Call
  BY <1>3, <1>6, <1>11, Firsts, Zenon DEF Call
<1>13. /\ x.pc = "reading" /\ x.resumed = i /\ x.given = 0 /\ x.generation = g
       /\ x.grant = a /\ x.life = l /\ x.place = p /\ x.trail = t
       /\ x.found = {}
  BY Firsts, EmptyIs, Zenon DEF Call
<1> HIDE DEF x
<1>14. Begun(c, i, x)
  BY <1>6, <1>7, <1>8, <1>9, <1>10, <1>12, <1>13 DEF Begun, g, a, l
<1>15. store' = store
  BY <1>1 DEF AfterFind
<1> QED
  BY <1>2, <1>12, <1>14, <1>15

\* What a call is after its portion.
Ended(c, page, n, composed, x) ==
    /\ x \in Call /\ x.place = FirstPlace /\ x.trail = FirstTrail
    /\ x.generation = 0 /\ x.life = 0 /\ x.found = {}
    /\ calls' = [calls EXCEPT ![c] = x]
    /\ x.pc = IF composed THEN "composing" ELSE "idle"
    /\ x.resumed = IF composed THEN calls[c].resumed ELSE 0
    /\ x.given = IF composed /\ Goes(calls[c].place, page, n) THEN stored + 1 ELSE 0

LEMMA DeliveredIs ==
    ASSUME Shaped, NEW c \in Calls, NEW n \in 1..MaxItems,
           NEW composed \in BOOLEAN, NEW page, IsPage(page),
           Delivered(c, page, n, composed), calls[c].resumed <= stored
    PROVE  /\ \E x \in Call : Ended(c, page, n, composed, x)
           /\ \A i \in Id :
                /\ Goes(calls[c].place, page, n) /\ i = stored + 1 => store'[i] = NextRecord(c, page, n)
                /\ ~(Goes(calls[c].place, page, n) /\ i = stored + 1) =>
                     store'[i] = IF i = calls[c].resumed THEN Absent ELSE store[i]
           /\ store' \in [Id -> Record]
           /\ Goes(calls[c].place, page, n) => stored + 1 \in Id
           /\ stored' \in 0..MaxIds /\ stored <= stored'
           /\ held' \subseteq Id
<1> DEFINE goes == Goes(calls[c].place, page, n)
           next == stored + 1
           r == calls[c].resumed
           gv == IF goes THEN next ELSE 0
           x == IF composed
                THEN [Idle EXCEPT !.pc = "composing", !.resumed = r, !.given = gv]
                ELSE Idle
<1>1. /\ goes => next <= MaxIds
      /\ store' = [i \in Id |-> CASE goes /\ i = next -> NextRecord(c, page, n)
                                  [] i = r -> Absent
                                  [] OTHER -> store[i]]
      /\ calls' = [calls EXCEPT ![c] = x]
      /\ held' = IF goes /\ ~composed THEN held \cup {next} ELSE held
      /\ stored' = IF goes THEN next ELSE stored
  BY DEF Delivered
<1>2. stored \in 0..MaxIds /\ MaxIds \in Nat /\ held \subseteq Id /\ r \in Id \cup {0}
  BY CallFields, Parameters DEF Shaped
<1>3. (goes => next \in Id) /\ stored' \in 0..MaxIds /\ stored <= stored' /\ held' \subseteq Id
  BY <1>1, <1>2 DEF Id
<1>4. goes => NextRecord(c, page, n) \in Record
  BY PutIs
<1>5. \A i \in Id : store[i] \in Record
  BY StoredFields
<1>6. goes => r # next
  BY <1>2
<1>7. /\ \A i \in Id : goes /\ i = next => store'[i] = NextRecord(c, page, n)
      /\ \A i \in Id : ~(goes /\ i = next) =>
             store'[i] = IF i = r THEN Absent ELSE store[i]
  <2> HIDE DEF goes, next, r
  <2> QED
    BY <1>1, <1>6
<1>8. store' \in [Id -> Record]
  <2>1. store' = [i \in Id |-> store'[i]]
    BY <1>1
  <2>2. \A i \in Id : store'[i] \in Record
    <3> HIDE DEF goes, next, r
    <3> QED
      BY <1>4, <1>5, <1>7, Firsts
  <2> QED
    BY <2>1, <2>2
<1>9. gv \in Id \cup {0} /\ gv = IF goes THEN next ELSE 0
  BY <1>3
<1> HIDE DEF gv, r
<1>10. "composing" \in {"idle", "reading", "asking", "composing"}
  OBVIOUS
<1>11. CASE composed
  <2>1. x = [Idle EXCEPT !.pc = "composing", !.resumed = r, !.given = gv]
    BY <1>11
  <2> HIDE DEF x
  <2>2. x \in Call
    BY <1>2, <1>9, <1>10, <2>1, Firsts, Zenon DEF Call
  <2>3. /\ x.pc = "composing" /\ x.resumed = r /\ x.given = gv
        /\ x.place = Idle.place /\ x.trail = Idle.trail
        /\ x.generation = Idle.generation /\ x.life = Idle.life
        /\ x.found = Idle.found
    BY <2>1, Firsts, Zenon DEF Call
  <2>4. x.given = IF goes THEN next ELSE 0
    BY <1>9, <2>3
  <2>5. Ended(c, page, n, composed, x)
    BY <1>1, <1>11, <2>2, <2>3, <2>4, EmptyIs DEF Ended, r
  <2> QED
    BY <1>1, <1>3, <1>7, <1>8, <2>2, <2>5 DEF r
<1>12. CASE ~composed
  <2>1. Ended(c, page, n, composed, Idle)
    BY <1>1, <1>12, EmptyIs, Firsts DEF Ended
  <2> QED
    BY <1>1, <1>3, <1>7, <1>8, <2>1, Firsts DEF r
<1> QED
  BY <1>11, <1>12

---------------------------------------------------------------------------
(* Types and counters *)

\* Versions, lives and generations are not of the future.
CallCounted(c) ==
    /\ calls[c].life <= grants.life /\ calls[c].trail.since <= version
    /\ calls[c].generation <= MaxChanges + 1
    /\ Underway(c) => calls[c].generation >= 1

StoreCounted(i) ==
    /\ store[i].generation <= MaxChanges + 1 /\ store[i].trail.since <= version
    /\ store[i].generation = 0 => store[i] = Absent

RowCounted ==
    /\ version + grants.ended <= MaxChanges
    /\ row.generation <= grants.ended + 1
    /\ row.status # "absent" => row.generation >= 1

Counted == /\ RowCounted
           /\ \A c \in Calls : CallCounted(c)
           /\ \A i \in Id : StoreCounted(i)

\* A call resumes what was returned; what it is about to return nobody has.
Numbered ==
    /\ held \subseteq 1..stored
    /\ \A i \in Id : i > stored => store[i] = Absent
    /\ \A c \in Calls : /\ calls[c].resumed \in held \cup {0}
                        /\ calls[c].given <= stored /\ calls[c].given \notin held
                        /\ calls[c].given # 0 => At(c, "composing")
    /\ \A c, d \in Calls : calls[c].given = calls[d].given /\ calls[c].given # 0 => c = d

\* Shaped, by variables.
Others == /\ mode \in {"page", "cursor"} /\ eve \subseteq Objects
          /\ row \in [status: {"connected", "removal_pending", "absent"}, generation: Nat]
          /\ held \subseteq Id /\ version \in Nat /\ stored \in 0..MaxIds
          /\ grants \in [last: Nat, life: Nat, ended: Nat]
          /\ cache \subseteq Copy

StoreShaped == /\ store \in [Id -> Record]
               /\ \A i \in Id : Len(store[i].place.seen) <= MaxSeen
CallsShaped == /\ calls \in [Calls -> Call]
               /\ \A c \in Calls : Len(calls[c].place.seen) <= MaxSeen

LEMMA ShapedParts == Shaped <=> Others /\ StoreShaped /\ CallsShaped
  BY DEF Shaped, Others, StoreShaped, CallsShaped

LEMMA ShapedPartsNext == Shaped' <=> Others' /\ StoreShaped' /\ CallsShaped'
  BY DEF Shaped, Others, StoreShaped, CallsShaped

LEMMA CallSetShaped ==
    ASSUME Shaped, NEW c \in Calls, NEW x \in Call, Len(x.place.seen) <= MaxSeen,
           calls' = [calls EXCEPT ![c] = x]
    PROVE  CallsShaped'
  BY CallSet DEF CallsShaped

LEMMA CountedSet ==
    ASSUME Shaped, Counted, NEW c \in Calls, NEW x \in Call,
           Len(x.place.seen) <= MaxSeen,
           calls' = [calls EXCEPT ![c] = x], UNCHANGED <<grants, version>>,
           x.life <= grants.life, x.trail.since <= version,
           x.generation <= MaxChanges + 1, 
           x.pc \in {"reading", "asking"} => x.generation >= 1
    PROVE  \A d \in Calls : CallCounted(d)'
<1>1. calls'[c] = x /\ \A d \in Calls : d # c => calls'[d] = calls[d]
  BY CallSet
<1> SUFFICES ASSUME NEW d \in Calls PROVE CallCounted(d)'
  OBVIOUS
<1>2. CallCounted(d)
  BY DEF Counted
<1>3. CASE d = c
  BY <1>1, <1>3 DEF CallCounted, Underway
<1>4. CASE d # c
  BY <1>1, <1>2, <1>4 DEF CallCounted, Underway
<1> QED
  BY <1>3, <1>4

LEMMA Numbers ==
    ASSUME Shaped
    PROVE  /\ version \in Nat /\ grants.last \in Nat /\ grants.life \in Nat
           /\ grants.ended \in Nat /\ row.generation \in Nat /\ MaxChanges \in Nat
           /\ stored \in Nat /\ MaxIds \in Nat /\ stored <= MaxIds
           /\ 0 \notin Id /\ \A i \in Id : i \in Nat /\ i >= 1
  BY Parameters DEF Shaped, Id

LEMMA ResumedIs ==
    ASSUME Shaped, Numbered, NEW c \in Calls
    PROVE  calls[c].resumed <= stored
<1> DEFINE r == calls[c].resumed
<1>1. (r \in held \/ r = 0) /\ held \subseteq 1..stored
  BY DEF Numbered
<1>2. stored \in Nat
  BY Numbers
<1> HIDE DEF r
<1>3. r \in 1..stored \/ r = 0
  BY <1>1
<1>4. r <= stored
  BY <1>2, <1>3
<1> QED
  BY <1>4 DEF r

LEMMA BeginShaped ==
    ASSUME Shaped, Counted, NEW c \in Calls, Begin(c)
    PROVE  Shaped' /\ Counted'
<1>1. /\ At(c, "idle") /\ row.status = "connected" /\ store' = store
      /\ UNCHANGED <<mode, eve, row, cache, held, version, grants, stored, settled>>
  BY BeginIs
<1>2. PICK i \in held \cup {0}, x \in Call : Begun(c, i, x)
  BY BeginIs
<1>3. /\ Len(x.place.seen) <= MaxSeen /\ calls' = [calls EXCEPT ![c] = x]
      /\ x.generation = row.generation /\ x.life = grants.life
      /\ i = 0 => x.trail = [FirstTrail EXCEPT !.since = version, !.grant = grants.last]
      /\ i # 0 => x.trail = store[i].trail
  BY <1>2 DEF Begun
<1>4. Shaped'
  <2>1. CallsShaped'
    BY <1>3, CallSetShaped
  <2>2. Others' /\ StoreShaped'
    BY <1>1, ShapedParts DEF Others, StoreShaped
  <2> QED
    BY <2>1, <2>2, ShapedPartsNext
<1>5. RowCounted /\ \A j \in Id : StoreCounted(j)
  BY DEF Counted
<1>6. x.trail.since <= version
  <2>1. CASE i = 0
    <3>1. x.trail.since = version
      BY <1>3, <2>1, Firsts, Zenon DEF Trail
    <3> QED
      BY <3>1, Numbers
  <2>2. CASE i # 0
    BY <1>3, <1>5, <2>2 DEF StoreCounted, Shaped
  <2> QED
    BY <2>1, <2>2
<1>7. row.generation <= MaxChanges + 1 /\ row.generation >= 1
  BY <1>1, <1>5, Numbers DEF RowCounted
<1>8. \A d \in Calls : CallCounted(d)'
  <2>1. /\ x.life <= grants.life /\ x.generation <= MaxChanges + 1
        /\ x.generation >= 1
    BY <1>3, <1>7, Numbers
  <2>2. UNCHANGED <<grants, version>>
    BY <1>1
  <2> QED
    BY <1>3, <1>6, <2>1, <2>2, CountedSet
<1>9. RowCounted' /\ \A j \in Id : StoreCounted(j)'
  BY <1>1, <1>5 DEF RowCounted, StoreCounted
<1> QED
  BY <1>4, <1>8, <1>9 DEF Counted

LEMMA DeliverShaped ==
    ASSUME Shaped, Counted, Numbered, NEW c \in Calls, NEW page, Delivers(c, page),
           cache' \subseteq Copy
    PROVE  Shaped' /\ Counted'
<1>1. /\ Underway(c) /\ UNCHANGED <<mode, eve, row, version, grants>>
      /\ IsPage(page)
  BY DeliverIs
<1>2. PICK n \in 1..MaxItems, composed \in BOOLEAN : Delivered(c, page, n, composed)
  BY DeliverIs
<1>0. calls[c].resumed <= stored
  BY ResumedIs
<1> DEFINE goes == Goes(calls[c].place, page, n)
<1>3. /\ \A i \in Id :
           /\ goes /\ i = stored + 1 => store'[i] = NextRecord(c, page, n)
           /\ ~(goes /\ i = stored + 1) =>
                store'[i] = IF i = calls[c].resumed THEN Absent ELSE store[i]
      /\ store' \in [Id -> Record]
      /\ stored' \in 0..MaxIds /\ stored <= stored' /\ held' \subseteq Id
  BY <1>0, <1>1, <1>2, DeliveredIs
<1>4. PICK x \in Call : Ended(c, page, n, composed, x)
  BY <1>0, <1>1, <1>2, DeliveredIs
<1>5. /\ x.place = FirstPlace /\ x.trail = FirstTrail /\ x.generation = 0 /\ x.life = 0
      /\ calls' = [calls EXCEPT ![c] = x] /\ x.pc \notin {"reading", "asking"}
  BY <1>4 DEF Ended
<1>6. Len(x.place.seen) <= MaxSeen /\ x.trail.since = 0
  BY <1>5, Firsts, EmptyIs, Parameters
<1>7. /\ NextRecord(c, page, n).generation = calls[c].generation
      /\ NextRecord(c, page, n).trail.since <= version
      /\ Len(NextRecord(c, page, n).place.seen) <= MaxSeen
  <2>1. /\ version \in Nat /\ calls[c].trail.since <= version
        /\ calls[c].place \in Place /\ calls[c].trail \in Trail
    BY Numbers, CallFields DEF Counted, CallCounted
  <2>2. n \in Nat \ {0}
    BY <1>1, PutIs
  <2>3. TrailOf(calls[c].place, calls[c].trail, page, n).since <= version
    BY <1>1, <2>1, <2>2, SinceIs
  <2> QED
    BY <1>1, <2>3, PutIs
<1> HIDE DEF goes
<1>8. Shaped'
  <2>1. CallsShaped'
    BY <1>5, <1>6, CallSetShaped
  <2>2. Others'
    BY <1>1, <1>3, ShapedParts DEF Others
  <2>3. StoreShaped'
    <3>1. \A i \in Id : Len(store'[i].place.seen) <= MaxSeen
      <4> SUFFICES ASSUME NEW i \in Id PROVE Len(store'[i].place.seen) <= MaxSeen
        OBVIOUS
      <4>1. store'[i] = NextRecord(c, page, n) \/ store'[i] = Absent \/ store'[i] = store[i]
        BY <1>3
      <4> QED
        BY <1>7, <4>1, EmptyIs, Firsts, Parameters, StoredFields
    <3> QED
      BY <1>3, <3>1 DEF StoreShaped
  <2> QED
    BY <2>1, <2>2, <2>3, ShapedPartsNext
<1>9. RowCounted /\ CallCounted(c) /\ \A j \in Id : StoreCounted(j)
  BY DEF Counted
<1>10. \A d \in Calls : CallCounted(d)'
  <2>1. x.life <= grants.life /\ x.trail.since <= version /\ x.generation <= MaxChanges + 1
    BY <1>5, <1>6, Numbers
  <2> QED
    BY <1>1, <1>5, <1>6, <2>1, CountedSet
<1>11. \A j \in Id : StoreCounted(j)'
  <2> SUFFICES ASSUME NEW j \in Id PROVE StoreCounted(j)'
    OBVIOUS
  <2>1. CASE store'[j] = NextRecord(c, page, n)
    <3>1. /\ calls[c].generation <= MaxChanges + 1 /\ calls[c].generation >= 1
          /\ calls[c].generation \in Nat
      BY <1>1, <1>9, CallFields DEF CallCounted
    <3> QED
      BY <1>1, <1>7, <2>1, <3>1 DEF StoreCounted
  <2>2. CASE store'[j] = Absent
    BY <1>1, <2>2, EmptyIs, Numbers DEF StoreCounted
  <2>3. CASE store'[j] = store[j]
    BY <1>1, <1>9, <2>3 DEF StoreCounted
  <2> QED
    BY <1>3, <2>1, <2>2, <2>3
<1>12. RowCounted'
  BY <1>1, <1>9 DEF RowCounted
<1> QED
  BY <1>8, <1>10, <1>11, <1>12 DEF Counted

\* A call is over.
LEMMA IdleShaped ==
    ASSUME Shaped, Counted, NEW c \in Calls,
           Fail(c) \/ Answer(c) \/ FailLater(c), held' \subseteq Id,
           cache' \subseteq Copy
    PROVE  Shaped' /\ Counted'
<1>1. /\ calls' = [calls EXCEPT ![c] = Idle] /\ cache' \subseteq Copy
      /\ UNCHANGED <<mode, eve, row, store, version, grants, stored>>
  BY DEF Fail, Answer, FailLater, history
<1>2. Idle \in Call /\ Len(Idle.place.seen) <= MaxSeen
  BY Firsts, EmptyIs, Parameters
<1>3. Shaped'
  <2>1. CallsShaped'
    BY <1>1, <1>2, CallSetShaped
  <2>2. Others' /\ StoreShaped'
    BY <1>1, ShapedParts DEF Others, StoreShaped
  <2> QED
    BY <2>1, <2>2, ShapedPartsNext
<1>4. \A d \in Calls : CallCounted(d)'
  <2>1. /\ Idle.life <= grants.life /\ Idle.trail.since <= version
        /\ Idle.generation <= MaxChanges + 1 /\ Idle.pc \notin {"reading", "asking"}
    BY EmptyIs, Numbers
  <2> QED
    BY <1>1, <1>2, <2>1, CountedSet
<1>5. RowCounted' /\ \A j \in Id : StoreCounted(j)'
  BY <1>1 DEF Counted, RowCounted, StoreCounted
<1> QED
  BY <1>3, <1>4, <1>5 DEF Counted

\* What the world around the calls does to them, their continuations and the
\* cache.
Around == Change \/ (\E i \in Id : Expire(i)) \/ Reauthorize \/ BeginRemoval
          \/ CompleteRemoval \/ Connect \/ Evict

LEMMA AskIs ==
    ASSUME Shaped, NEW c \in Calls, Ask(c)
    PROVE  /\ At(c, "reading") /\ store' = store /\ answer' = NoAnswer
           /\ UNCHANGED <<mode, eve, row, cache, held, version, grants, stored, settled>>
           /\ calls' \in [Calls -> Call]
           /\ \A d \in Calls : d # c => calls'[d] = calls[d]
           /\ calls'[c].pc = "asking" /\ calls'[c].found = Cached(KeyOf(c))
           /\ calls'[c].resumed = calls[c].resumed /\ calls'[c].given = calls[c].given
           /\ calls'[c].generation = calls[c].generation
           /\ calls'[c].grant = calls[c].grant /\ calls'[c].life = calls[c].life
           /\ calls'[c].place = calls[c].place /\ calls'[c].trail = calls[c].trail
<1> DEFINE f == Cached(KeyOf(c))
           x == [calls[c] EXCEPT !.pc = "asking", !.found = f]
<1>1. /\ At(c, "reading") /\ store' = store /\ answer' = NoAnswer
      /\ UNCHANGED <<mode, eve, row, cache, held, version, grants, stored, settled>>
      /\ calls' = [calls EXCEPT ![c].pc = "asking", ![c].found = f]
  BY DEF Ask, Silent, history
<1>2. calls \in [Calls -> Call] /\ calls[c] \in Call
  BY DEF Shaped
<1>3. f \in SUBSET Copy /\ "asking" \in {"idle", "reading", "asking", "composing"}
  BY DEF Cached, Shaped
<1> HIDE DEF f
<1>4. calls' = [calls EXCEPT ![c] = x]
  <2> HIDE DEF Call
  <2> QED
    BY <1>1, <1>2, Zenon
<1>5. /\ x \in Call /\ x.pc = "asking" /\ x.found = f
      /\ x.resumed = calls[c].resumed /\ x.given = calls[c].given
      /\ x.generation = calls[c].generation
      /\ x.grant = calls[c].grant /\ x.life = calls[c].life
      /\ x.place = calls[c].place /\ x.trail = calls[c].trail
  BY <1>2, <1>3, Zenon DEF Call
<1> HIDE DEF x, Call
<1>6. /\ calls' \in [Calls -> Call] /\ calls'[c] = x
      /\ \A d \in Calls : d # c => calls'[d] = calls[d]
  BY <1>2, <1>4, <1>5
<1> QED
  BY <1>1, <1>5, <1>6 DEF f

LEMMA AskShaped ==
    ASSUME Shaped, Counted, NEW c \in Calls, Ask(c)
    PROVE  Shaped' /\ Counted'
<1>1. /\ At(c, "reading") /\ store' = store
      /\ UNCHANGED <<mode, eve, row, cache, held, version, grants, stored, settled>>
      /\ calls' \in [Calls -> Call]
      /\ \A d \in Calls : d # c => calls'[d] = calls[d]
      /\ calls'[c].generation = calls[c].generation /\ calls'[c].life = calls[c].life
      /\ calls'[c].place = calls[c].place /\ calls'[c].trail = calls[c].trail
  BY AskIs
<1>2. /\ \A d \in Calls : /\ calls'[d].generation = calls[d].generation
                          /\ calls'[d].life = calls[d].life
                          /\ calls'[d].place = calls[d].place
                          /\ calls'[d].trail = calls[d].trail
      /\ \A d \in Calls : Underway(d)' => Underway(d)
  BY <1>1 DEF Underway, At
<1>3. Shaped'
  <2>1. CallsShaped'
    BY <1>1, <1>2, ShapedParts DEF CallsShaped
  <2>2. Others' /\ StoreShaped'
    BY <1>1, ShapedParts DEF Others, StoreShaped
  <2> QED
    BY <2>1, <2>2, ShapedPartsNext
<1>4. Counted'
  BY <1>1, <1>2 DEF Counted, CallCounted, RowCounted, StoreCounted
<1> QED
  BY <1>3, <1>4

LEMMA AroundIs ==
    ASSUME Shaped, Around
    PROVE  /\ calls' = calls /\ held' = held /\ stored' = stored /\ mode' = mode
           /\ answer' = NoAnswer
           /\ store' \in [Id -> Record] /\ cache' \subseteq cache
           /\ \A i \in Id : \/ store'[i] = store[i] /\ (i \in settled => i \in settled')
                            \/ store'[i] = Absent /\ (i \in settled' \/ store[i] = Absent)
           /\ settled \subseteq settled'
<1>1. /\ calls' = calls /\ held' = held /\ stored' = stored /\ mode' = mode
      /\ answer' = NoAnswer
  BY DEF Around, Change, Expire, Reauthorize, BeginRemoval, CompleteRemoval,
    Connect, Evict, Silent, history
<1>0. cache' \subseteq cache
  BY DEF Around, Change, Expire, Reauthorize, BeginRemoval, CompleteRemoval,
    Connect, Evict, Forget
<1>2. store \in [Id -> Record] /\ Absent \in Record
  BY Firsts DEF Shaped
<1>3. CASE Change \/ CompleteRemoval \/ Connect \/ Evict
  <2>1. store' = store /\ settled' = settled
    BY <1>3 DEF Change, CompleteRemoval, Connect, Evict, history
  <2> QED
    BY <1>0, <1>1, <1>2, <2>1
<1>4. CASE Reauthorize \/ BeginRemoval
  <2>1. Forget
    BY <1>4 DEF Reauthorize, BeginRemoval
  <2> HIDE DEF Absent
  <2> QED
    BY <1>0, <1>1, <1>2, <2>1 DEF Forget
<1>5. CASE \E i \in Id : Expire(i)
  <2>1. PICK i \in Id : store' = [store EXCEPT ![i] = Absent]
                        /\ settled' = settled \cup ({i} \ {0})
    BY <1>5 DEF Expire, Settle
  <2>2. i # 0
    BY Numbers
  <2> HIDE DEF Absent
  <2> QED
    BY <1>0, <1>1, <1>2, <2>1, <2>2
<1> QED
  BY <1>0, <1>3, <1>4, <1>5 DEF Around

LEMMA AroundShaped ==
    ASSUME Shaped, Counted, Around
    PROVE  Shaped' /\ Counted' /\ grants.life <= grants.life' /\ version <= version'
<1>1. /\ calls' = calls /\ held' = held /\ stored' = stored /\ mode' = mode
      /\ store' \in [Id -> Record] /\ cache' \subseteq cache
      /\ \A i \in Id : store'[i] = store[i] \/ store'[i] = Absent
  BY AroundIs
<1>2. /\ version \in Nat /\ grants.last \in Nat /\ grants.life \in Nat
      /\ grants.ended \in Nat /\ row.generation \in Nat /\ MaxChanges \in Nat
      /\ eve \subseteq Objects /\ version + grants.ended <= MaxChanges
      /\ row.generation <= grants.ended + 1
      /\ row.status # "absent" => row.generation >= 1
      /\ row \in [status: {"connected", "removal_pending", "absent"}, generation: Nat]
      /\ grants \in [last: Nat, life: Nat, ended: Nat]
  BY Numbers DEF Shaped, Counted, RowCounted
<1>3. /\ eve' \subseteq Objects /\ version' \in Nat /\ version <= version'
      /\ row' \in [status: {"connected", "removal_pending", "absent"}, generation: Nat]
      /\ grants' \in [last: Nat, life: Nat, ended: Nat]
      /\ grants.life <= grants'.life
      /\ RowCounted'
  <2>1. CASE Change
    <3>1. /\ version + grants.ended < MaxChanges /\ eve' \subseteq Objects
          /\ version' = version + 1 /\ UNCHANGED <<row, grants>>
      BY <1>2, <2>1, ParametersAssumption DEF Change
    <3> QED
      BY <1>2, <3>1 DEF RowCounted
  <2>2. CASE \E i \in Id : Expire(i)
    <3>1. UNCHANGED <<row, grants, eve, version>>
      BY <2>2 DEF Expire
    <3> QED
      BY <1>2, <3>1 DEF RowCounted
  <2>3. CASE Reauthorize
    <3>1. /\ row.status # "absent" /\ version + grants.ended < MaxChanges
          /\ row' = [status |-> "connected", generation |-> row.generation + 1]
          /\ grants' = [grants EXCEPT !.last = @ + 1, !.ended = @ + 1]
          /\ UNCHANGED <<eve, version>>
      BY <2>3 DEF Reauthorize
    <3>2. /\ grants'.ended = grants.ended + 1 /\ grants'.life = grants.life
          /\ grants' \in [last: Nat, life: Nat, ended: Nat]
      <4> DEFINE a == grants.last + 1
                 b == grants.ended + 1
      <4>1. a \in Nat /\ b \in Nat /\ grants' = [grants EXCEPT !.last = a, !.ended = b]
        BY <1>2, <3>1
      <4> HIDE DEF a, b
      <4>2. /\ grants'.ended = b /\ grants'.life = grants.life
            /\ grants' \in [last: Nat, life: Nat, ended: Nat]
        BY <1>2, <4>1, Zenon
      <4> QED
        BY <4>2 DEF b
    <3> QED
      BY <1>2, <3>1, <3>2 DEF RowCounted
  <2>4. CASE BeginRemoval
    <3>1. /\ row.status # "absent" /\ version + grants.ended < MaxChanges
          /\ row' = [status |-> "removal_pending", generation |-> row.generation + 1]
          /\ grants' = [grants EXCEPT !.ended = @ + 1]
          /\ UNCHANGED <<eve, version>>
      BY <2>4 DEF BeginRemoval
    <3>2. /\ grants'.ended = grants.ended + 1 /\ grants'.life = grants.life
          /\ grants' \in [last: Nat, life: Nat, ended: Nat]
      BY <1>2, <3>1
    <3> QED
      BY <1>2, <3>1, <3>2 DEF RowCounted
  <2>5. CASE CompleteRemoval
    <3>1. /\ row' = [status |-> "absent", generation |-> 0]
          /\ UNCHANGED <<eve, version, grants>>
      BY <2>5 DEF CompleteRemoval, history
    <3> QED
      BY <1>2, <3>1 DEF RowCounted
  <2>6. CASE Connect
    <3>1. /\ row' = [status |-> "connected", generation |-> 1]
          /\ grants' = [grants EXCEPT !.last = @ + 1, !.life = @ + 1]
          /\ UNCHANGED <<eve, version>>
      BY <2>6 DEF Connect
    <3>2. /\ grants'.ended = grants.ended /\ grants'.life = grants.life + 1
          /\ grants' \in [last: Nat, life: Nat, ended: Nat]
      <4> DEFINE a == grants.last + 1
                 b == grants.life + 1
      <4>1. a \in Nat /\ b \in Nat /\ grants' = [grants EXCEPT !.last = a, !.life = b]
        BY <1>2, <3>1
      <4> HIDE DEF a, b
      <4>2. /\ grants'.ended = grants.ended /\ grants'.life = b
            /\ grants' \in [last: Nat, life: Nat, ended: Nat]
        BY <1>2, <4>1, Zenon
      <4> QED
        BY <4>2 DEF b
    <3> QED
      BY <1>2, <3>1, <3>2 DEF RowCounted
  <2>7. CASE Evict
    <3>1. UNCHANGED <<row, grants, eve, version>>
      BY <2>7 DEF Evict, history
    <3> QED
      BY <1>2, <3>1 DEF RowCounted
  <2> QED
    BY <2>1, <2>2, <2>3, <2>4, <2>5, <2>6, <2>7 DEF Around
<1>4. StoreShaped'
  <2> SUFFICES ASSUME NEW i \in Id PROVE Len(store'[i].place.seen) <= MaxSeen
    BY <1>1 DEF StoreShaped
  <2> QED
    BY <1>1, EmptyIs, Firsts, Parameters, StoredFields
<1>5. Shaped'
  <2>1. Others' /\ CallsShaped'
    BY <1>1, <1>3, ShapedParts, Numbers DEF Others, CallsShaped
  <2> QED
    BY <1>4, <2>1, ShapedPartsNext
<1>6. \A c \in Calls : CallCounted(c)'
  <2> SUFFICES ASSUME NEW c \in Calls PROVE CallCounted(c)'
    OBVIOUS
  <2>1. CallCounted(c)
    BY DEF Counted
  <2>2. /\ calls[c].life \in Nat /\ calls[c].trail.since \in Nat /\ grants'.life \in Nat
    BY <1>3, CallFields, TrailFields
  <2> QED
    BY <1>1, <1>2, <1>3, <2>1, <2>2 DEF CallCounted, Underway
<1>7. \A i \in Id : StoreCounted(i)'
  <2> SUFFICES ASSUME NEW i \in Id PROVE StoreCounted(i)'
    OBVIOUS
  <2>1. StoreCounted(i)
    BY DEF Counted
  <2>2. store[i].trail.since \in Nat
    BY StoredFields, TrailFields
  <2>3. CASE store'[i] = store[i]
    BY <1>2, <1>3, <2>1, <2>2, <2>3 DEF StoreCounted
  <2>4. CASE store'[i] = Absent
    BY <1>2, <1>3, <2>4, EmptyIs DEF StoreCounted
  <2> QED
    BY <1>1, <2>3, <2>4
<1> QED
  BY <1>3, <1>5, <1>6, <1>7 DEF Counted

---------------------------------------------------------------------------
(* Tokens *)

\* What a call is about to return is still there, or settled.
GivenKept ==
    \A c \in Calls : calls[c].given # 0 /\ store[calls[c].given] = Absent
                     => calls[c].given \in settled

Tokens == Numbered /\ GivenKept /\ TokenKept

CallNumbered(c) ==
    /\ calls[c].resumed \in held \cup {0}
    /\ calls[c].given <= stored /\ calls[c].given \notin held
    /\ calls[c].given # 0 => At(c, "composing")

LEMMA NumberedParts ==
    ASSUME Shaped, Numbered
    PROVE  /\ held \subseteq 1..stored /\ held \subseteq Id /\ 0 \notin held
           /\ \A i \in Id : i > stored => store[i] = Absent
           /\ \A c \in Calls : CallNumbered(c)
           /\ \A c, d \in Calls :
                calls[c].given = calls[d].given /\ calls[c].given # 0 => c = d
           /\ \A c \in Calls : calls[c].resumed \in Id \/ calls[c].resumed = 0
           /\ \A c \in Calls : calls[c].given \in Id \/ calls[c].given = 0
<1>1. held \subseteq 1..stored /\ held \subseteq Id
  BY DEF Numbered, Shaped
<1>2. \A c \in Calls : CallNumbered(c)
  BY DEF Numbered, CallNumbered
<1>3. /\ \A i \in Id : i > stored => store[i] = Absent
      /\ \A c, d \in Calls :
           calls[c].given = calls[d].given /\ calls[c].given # 0 => c = d
  BY DEF Numbered
<1>4. \A c \in Calls : /\ calls[c].resumed \in Id \/ calls[c].resumed = 0
                       /\ calls[c].given \in Id \/ calls[c].given = 0
  BY CallFields
<1> QED
  BY <1>1, <1>2, <1>3, <1>4

LEMMA GivenIs ==
    ASSUME Shaped, Numbered, NEW d \in Calls
    PROVE  calls[d].given \in Nat /\ calls[d].given <= stored
<1>1. calls[d].given \in Id \/ calls[d].given = 0
  BY CallFields
<1>2. calls[d].given \in Nat
  <2>1. \A i \in Id : i \in Nat
    BY Numbers
  <2>2. CASE calls[d].given \in Id
    BY <2>1, <2>2
  <2>3. CASE calls[d].given = 0
    BY <2>3
  <2> QED
    BY <1>1, <2>2, <2>3
<1>3. calls[d].given <= stored
  BY DEF Numbered
<1> QED
  BY <1>2, <1>3

LEMMA BeginTokens ==
    ASSUME Shaped, Tokens, NEW c \in Calls, Begin(c)
    PROVE  Tokens'
<1>1. /\ At(c, "idle") /\ store' = store
      /\ UNCHANGED <<held, stored, settled>>
  BY BeginIs
<1>2. PICK i \in held \cup {0}, x \in Call : Begun(c, i, x)
  BY BeginIs
<1>3. x.pc = "reading" /\ x.resumed = i /\ x.given = 0
  BY <1>2 DEF Begun
<1>4. calls'[c] = x /\ \A d \in Calls : d # c => calls'[d] = calls[d]
  BY <1>2, CallSet DEF Begun
<1>5. /\ held \subseteq 1..stored /\ 0 \notin held /\ stored \in Nat
      /\ \A j \in Id : j > stored => store[j] = Absent
      /\ \A d \in Calls : CallNumbered(d)
      /\ \A d, e \in Calls :
           calls[d].given = calls[e].given /\ calls[d].given # 0 => d = e
  BY NumberedParts, Numbers DEF Tokens
<1>6. Numbered'
  <2>1. \A d \in Calls : CallNumbered(d)'
    <3> SUFFICES ASSUME NEW d \in Calls PROVE CallNumbered(d)'
      OBVIOUS
    <3>1. CASE d = c
      BY <1>1, <1>3, <1>4, <1>5, <3>1 DEF CallNumbered, At
    <3>2. CASE d # c
      BY <1>1, <1>4, <1>5, <3>2 DEF CallNumbered, At
    <3> QED
      BY <3>1, <3>2
  <2>2. \A d, e \in Calls :
          calls'[d].given = calls'[e].given /\ calls'[d].given # 0 => d = e
    BY <1>3, <1>4, <1>5
  <2> QED
    BY <1>1, <1>5, <2>1, <2>2 DEF Numbered, CallNumbered
<1>7. GivenKept'
  BY <1>1, <1>3, <1>4 DEF GivenKept, Tokens
<1>8. TokenKept'
  <2> SUFFICES ASSUME NEW j \in held, store[j] = Absent, j \notin settled
               PROVE  \E d \in Calls : At(d, "composing")' /\ calls'[d].resumed = j
    BY <1>1 DEF TokenKept
  <2>1. PICK d \in Calls : At(d, "composing") /\ calls[d].resumed = j
    BY DEF TokenKept, Tokens
  <2>2. d # c
    BY <1>1, <2>1 DEF At
  <2> QED
    BY <1>4, <2>1, <2>2 DEF At
<1> QED
  BY <1>6, <1>7, <1>8 DEF Tokens

LEMMA AskTokens ==
    ASSUME Shaped, Tokens, NEW c \in Calls, Ask(c)
    PROVE  Tokens'
<1>1. /\ At(c, "reading") /\ UNCHANGED <<store, held, stored, settled>>
      /\ \A d \in Calls : /\ calls'[d].resumed = calls[d].resumed
                          /\ calls'[d].given = calls[d].given
      /\ \A d \in Calls : At(d, "composing") => At(d, "composing")'
  BY AskIs DEF At
<1>2. Numbered'
  BY <1>1 DEF Tokens, Numbered
<1>3. GivenKept'
  BY <1>1 DEF Tokens, GivenKept
<1>4. TokenKept'
  <2> SUFFICES ASSUME NEW j \in held, store[j] = Absent, j \notin settled
               PROVE  \E d \in Calls : At(d, "composing")' /\ calls'[d].resumed = j
    BY <1>1 DEF TokenKept
  <2>1. PICK d \in Calls : At(d, "composing") /\ calls[d].resumed = j
    BY DEF TokenKept, Tokens
  <2> QED
    BY <1>1, <2>1
<1> QED
  BY <1>2, <1>3, <1>4 DEF Tokens

LEMMA DeliverTokens ==
    ASSUME Shaped, Counted, Tokens, NEW c \in Calls, NEW page, Delivers(c, page)
    PROVE  Tokens'
<1>1. Underway(c) /\ IsPage(page)
  BY DeliverIs
<1>2. PICK n \in 1..MaxItems, composed \in BOOLEAN : Delivered(c, page, n, composed)
  BY DeliverIs
<1>0. calls[c].resumed <= stored
  BY ResumedIs DEF Tokens
<1> DEFINE goes == Goes(calls[c].place, page, n)
           new == stored + 1
           r == calls[c].resumed
<1>3. /\ \A i \in Id :
           /\ goes /\ i = new => store'[i] = NextRecord(c, page, n)
           /\ ~(goes /\ i = new) => store'[i] = IF i = r THEN Absent ELSE store[i]
      /\ goes => new \in Id
  BY <1>0, <1>1, <1>2, DeliveredIs
<1>4. PICK x \in Call : Ended(c, page, n, composed, x)
  BY <1>0, <1>1, <1>2, DeliveredIs
<1>5. /\ x.pc = IF composed THEN "composing" ELSE "idle"
      /\ x.resumed = IF composed THEN r ELSE 0
      /\ x.given = IF composed /\ goes THEN new ELSE 0
      /\ x.place = FirstPlace /\ calls' = [calls EXCEPT ![c] = x]
  BY <1>4 DEF Ended
<1>6. calls'[c] = x /\ \A d \in Calls : d # c => calls'[d] = calls[d]
  <2>1. Len(x.place.seen) <= MaxSeen
    BY <1>5, Firsts, Parameters
  <2> QED
    BY <1>5, <2>1, CallSet
<1>7. /\ held' = IF goes /\ ~composed THEN held \cup {new} ELSE held
      /\ stored' = IF goes THEN new ELSE stored
      /\ settled' = IF composed THEN settled ELSE settled \cup ({r} \ {0})
  BY <1>2 DEF Delivered, Settle
<1>8. /\ held \subseteq 1..stored /\ held \subseteq Id /\ 0 \notin held /\ stored \in Nat
      /\ \A j \in Id : j > stored => store[j] = Absent
      /\ \A d \in Calls : CallNumbered(d)
      /\ \A d, e \in Calls :
           calls[d].given = calls[e].given /\ calls[d].given # 0 => d = e
      /\ \A d \in Calls : calls[d].given \in Id \/ calls[d].given = 0
  BY NumberedParts, Numbers DEF Tokens
<1>9. new \notin held /\ new \in Nat /\ new > stored /\ r # new /\ new # 0
  BY <1>0, <1>8, CallFields
<1>10. NextRecord(c, page, n) # Absent
  <2>1. /\ NextRecord(c, page, n).generation = calls[c].generation
        /\ calls[c].generation >= 1
    BY <1>1, PutIs DEF Counted, CallCounted
  <2> QED
    BY <2>1, EmptyIs
<1>11. CallNumbered(c) /\ r \in held \cup {0} /\ calls[c].given = 0
  BY <1>1, <1>8 DEF CallNumbered, At, Underway
<1> HIDE DEF goes, new, r
<1>12. Numbered'
  <2>1. held' \subseteq 1..stored'
    BY <1>7, <1>8, <1>9 DEF new
  <2>2. \A i \in Id : i > stored' => store'[i] = Absent
    <3> SUFFICES ASSUME NEW i \in Id, i > stored' PROVE store'[i] = Absent
      OBVIOUS
    <3>1. i \in Nat
      BY Numbers
    <3>2. i > stored /\ ~(goes /\ i = new)
      BY <1>7, <1>8, <1>9, <3>1
    <3> QED
      BY <1>3, <1>8, <3>2
  <2>3. \A d \in Calls : CallNumbered(d)'
    <3> SUFFICES ASSUME NEW d \in Calls PROVE CallNumbered(d)'
      OBVIOUS
    <3>1. CASE d = c
      <4>1. x.resumed \in held' \cup {0}
        BY <1>5, <1>7, <1>11
      <4>2. x.given \notin held' /\ x.given <= stored'
        BY <1>5, <1>7, <1>8, <1>9
      <4>3. x.given # 0 => x.pc = "composing"
        BY <1>5
      <4> QED
        BY <1>6, <3>1, <4>1, <4>2, <4>3 DEF CallNumbered, At
    <3>2. CASE d # c
      <4>1. /\ calls[d].resumed \in held \cup {0} /\ calls[d].given <= stored
            /\ calls[d].given \notin held /\ (calls[d].given # 0 => At(d, "composing"))
        BY <1>8 DEF CallNumbered
      <4>2. calls[d].given \in Nat
        BY GivenIs DEF Tokens
      <4>3. calls[d].given # new /\ calls[d].given <= stored'
        BY <1>7, <1>8, <1>9, <4>1, <4>2
      <4>4. calls[d].resumed \in held' \cup {0} /\ calls[d].given \notin held'
        BY <1>7, <4>1, <4>3
      <4> QED
        BY <1>6, <3>2, <4>1, <4>3, <4>4 DEF CallNumbered, At
    <3> QED
      BY <3>1, <3>2
  <2>4. \A d, e \in Calls :
          calls'[d].given = calls'[e].given /\ calls'[d].given # 0 => d = e
    <3>1. \A d \in Calls : calls[d].given # new
      <4> SUFFICES ASSUME NEW d \in Calls PROVE calls[d].given # new
        OBVIOUS
      <4>1. calls[d].given <= stored /\ calls[d].given \in Nat
        BY GivenIs DEF Tokens
      <4> QED
        BY <1>8, <1>9, <4>1
    <3>2. x.given = new \/ x.given = 0
      BY <1>5
    <3> QED
      BY <1>6, <1>8, <3>1, <3>2
  <2> QED
    BY <2>1, <2>2, <2>3, <2>4 DEF Numbered, CallNumbered
<1>13. GivenKept'
  <2> SUFFICES ASSUME NEW d \in Calls, calls'[d].given # 0,
                      store'[calls'[d].given] = Absent
               PROVE  calls'[d].given \in settled'
    BY DEF GivenKept
  <2>1. CASE d = c
    <3>1. goes /\ calls'[d].given = new
      BY <1>5, <1>6, <2>1
    <3>2. store'[new] = NextRecord(c, page, n)
      BY <1>3, <3>1
    <3> QED
      BY <1>10, <3>1, <3>2
  <2>2. CASE d # c
    <3> DEFINE g == calls[d].given
    <3>1. calls'[d].given = g
      BY <1>6, <2>2
    <3>2. g \in Id /\ g \notin held /\ g <= stored
      BY <1>8, <3>1 DEF CallNumbered
    <3> HIDE DEF g
    <3>3. g # r
      BY <1>11, <3>1, <3>2
    <3>4. store'[g] = store[g]
      BY <1>3, <1>8, <1>9, <3>2, <3>3, Numbers
    <3>5. g \in settled
      BY <3>1, <3>4 DEF GivenKept, Tokens, g
    <3> QED
      BY <1>7, <3>1, <3>5
  <2> QED
    BY <2>1, <2>2
<1>14. TokenKept'
  <2> SUFFICES ASSUME NEW j \in held', store'[j] = Absent, j \notin settled'
               PROVE  \E d \in Calls : At(d, "composing")' /\ calls'[d].resumed = j
    BY DEF TokenKept
  <2>1. ~(goes /\ j = new)
    BY <1>3, <1>10
  <2>2. j \in held /\ j \in Id
    BY <1>7, <1>8, <2>1
  <2>3. CASE j = r
    <3>1. j # 0
      BY <1>8, <2>2
    <3>2. composed
      BY <1>7, <2>3, <3>1
    <3> QED
      BY <1>5, <1>6, <2>3, <3>2 DEF At
  <2>4. CASE j # r
    <3>1. store[j] = Absent /\ j \notin settled
      BY <1>3, <1>7, <2>1, <2>2, <2>4
    <3>2. PICK d \in Calls : At(d, "composing") /\ calls[d].resumed = j
      BY <2>2, <3>1 DEF TokenKept, Tokens
    <3>3. d # c
      BY <1>1, <3>2 DEF At, Underway
    <3> QED
      BY <1>6, <3>2, <3>3 DEF At
  <2> QED
    BY <2>3, <2>4
<1> QED
  BY <1>12, <1>13, <1>14 DEF Tokens

LEMMA LeaveTokens ==
    ASSUME Shaped, Tokens, NEW c \in Calls, Fail(c) \/ Answer(c) \/ FailLater(c)
    PROVE  Tokens' /\ held' \subseteq Id
<1> DEFINE g == calls[c].given
           r == calls[c].resumed
<1>1. /\ calls' = [calls EXCEPT ![c] = Idle] /\ UNCHANGED <<store, stored>>
      /\ held' = held \/ (held' = held \cup ({g} \ {0}) /\ At(c, "composing"))
      /\ \/ settled' = settled /\ Underway(c)
         \/ settled' = settled \cup ({r} \ {0}) /\ At(c, "composing")
  BY DEF Fail, Answer, FailLater, history, Settle
<1>2. calls'[c] = Idle /\ \A d \in Calls : d # c => calls'[d] = calls[d]
  <2>1. Idle \in Call /\ Len(Idle.place.seen) <= MaxSeen
    BY Firsts, EmptyIs, Parameters
  <2> HIDE DEF Idle
  <2> QED
    BY <1>1, <2>1, CallSet
<1>3. /\ held \subseteq 1..stored /\ held \subseteq Id /\ 0 \notin held /\ stored \in Nat
      /\ \A j \in Id : j > stored => store[j] = Absent
      /\ \A d \in Calls : CallNumbered(d)
      /\ \A d, e \in Calls :
           calls[d].given = calls[e].given /\ calls[d].given # 0 => d = e
      /\ \A d \in Calls : calls[d].given \in Id \/ calls[d].given = 0
  BY NumberedParts, Numbers DEF Tokens
<1>4. Idle.resumed = 0 /\ Idle.given = 0 /\ Idle.pc = "idle"
  BY EmptyIs
<1>5. g \in Nat /\ g <= stored /\ (g # 0 => g \in Id /\ g \in 1..stored)
  <2>1. g \in Nat /\ g <= stored
    BY GivenIs DEF Tokens
  <2>2. g \in Id \/ g = 0
    BY <1>3
  <2> HIDE DEF g
  <2> QED
    BY <1>3, <2>1, <2>2
<1>6. \A d \in Calls : d # c /\ g # 0 => calls[d].given # g
  BY <1>3
<1> HIDE DEF g, r
<1>7. held' \subseteq 1..stored /\ held' \subseteq Id /\ held \subseteq held'
  <2>1. {g} \ {0} \subseteq 1..stored /\ {g} \ {0} \subseteq Id
    BY <1>5
  <2> QED
    BY <1>1, <1>3, <2>1
<1>8. Numbered'
  <2>1. \A d \in Calls : CallNumbered(d)'
    <3> SUFFICES ASSUME NEW d \in Calls PROVE CallNumbered(d)'
      OBVIOUS
    <3>1. CASE d = c
      BY <1>1, <1>2, <1>3, <1>4, <1>7, <3>1 DEF CallNumbered, At, Underway
    <3>2. CASE d # c
      <4>1. /\ calls[d].resumed \in held \cup {0} /\ calls[d].given <= stored
            /\ calls[d].given \notin held /\ (calls[d].given # 0 => At(d, "composing"))
        BY <1>3 DEF CallNumbered
      <4>2. calls[d].given \notin held'
        BY <1>1, <1>6, <3>2, <4>1
      <4> QED
        BY <1>1, <1>2, <1>7, <3>2, <4>1, <4>2 DEF CallNumbered, At, Underway
    <3> QED
      BY <3>1, <3>2
  <2>2. \A d, e \in Calls :
          calls'[d].given = calls'[e].given /\ calls'[d].given # 0 => d = e
    BY <1>2, <1>3, <1>4
  <2> QED
    BY <1>1, <1>3, <1>7, <2>1, <2>2 DEF Numbered, CallNumbered
<1>9. GivenKept'
  <2>1. settled \subseteq settled'
    BY <1>1
  <2> QED
    BY <1>1, <1>2, <1>4, <2>1 DEF GivenKept, Tokens
<1>10. TokenKept'
  <2> SUFFICES ASSUME NEW j \in held', store[j] = Absent, j \notin settled'
               PROVE  \E d \in Calls : At(d, "composing")' /\ calls'[d].resumed = j
    BY <1>1 DEF TokenKept
  <2>0. j \notin settled
    BY <1>1
  <2>1. j # 0
    BY <1>7
  <2>2. j \in held
    <3> SUFFICES ASSUME j = g PROVE FALSE
      BY <1>1
    <3>1. g \in settled
      BY <2>1 DEF GivenKept, Tokens, g
    <3> QED
      BY <2>0, <3>1
  <2>3. PICK d \in Calls : At(d, "composing") /\ calls[d].resumed = j
    BY <2>0, <2>2 DEF TokenKept, Tokens
  <2>4. d # c
    BY <1>1, <2>1, <2>3 DEF At, Underway, r
  <2> QED
    BY <1>2, <2>3, <2>4 DEF At
<1> QED
  BY <1>7, <1>8, <1>9, <1>10 DEF Tokens

LEMMA AroundTokens ==
    ASSUME Shaped, Tokens, Around
    PROVE  Tokens'
<1>1. /\ calls' = calls /\ held' = held /\ stored' = stored
      /\ \A i \in Id : \/ store'[i] = store[i] /\ (i \in settled => i \in settled')
                       \/ store'[i] = Absent /\ (i \in settled' \/ store[i] = Absent)
      /\ settled \subseteq settled'
  BY AroundIs
<1>2. /\ held \subseteq Id
      /\ \A j \in Id : j > stored => store[j] = Absent
      /\ \A d \in Calls : calls[d].given \in Id \/ calls[d].given = 0
  BY NumberedParts DEF Tokens
<1>3. Numbered'
  <2>1. \A j \in Id : j > stored => store'[j] = Absent
    BY <1>1, <1>2
  <2> QED
    BY <1>1, <2>1 DEF Numbered, Tokens, At
<1>4. GivenKept'
  <2> SUFFICES ASSUME NEW d \in Calls, calls[d].given # 0,
                      store'[calls[d].given] = Absent
               PROVE  calls[d].given \in settled'
    BY <1>1 DEF GivenKept
  <2>1. calls[d].given \in Id
    BY <1>2
  <2> QED
    BY <1>1, <2>1 DEF GivenKept, Tokens
<1>5. TokenKept'
  <2> SUFFICES ASSUME NEW j \in held, store'[j] = Absent, j \notin settled'
               PROVE  \E d \in Calls : At(d, "composing") /\ calls[d].resumed = j
    BY <1>1 DEF TokenKept, At
  <2>1. store[j] = Absent /\ j \notin settled
    BY <1>1, <1>2
  <2> QED
    BY <2>1 DEF TokenKept, Tokens
<1> QED
  BY <1>3, <1>4, <1>5 DEF Tokens

---------------------------------------------------------------------------
(* Authorizations *)

\* What is stored in time belongs to the authorization of its generation,
StoreAuthorized(i) ==
    store[i].generation >= 1 /\ ~store[i].trail.late =>
      /\ row.status = "connected"
      /\ store[i].generation = row.generation => store[i].trail.grant = grants.last

\* and a call of this life of the character to the one of its own.
CallAuthorized(c) ==
    Underway(c) /\ calls[c].life = grants.life =>
      /\ row.status # "absent" => calls[c].generation <= row.generation
      /\ row.status = "connected" /\ calls[c].generation = row.generation
           => calls[c].grant = grants.last

OneGrant(c) ==
    Underway(c) /\ calls[c].trail.grant # calls[c].grant => calls[c].trail.late

Authorized == /\ \A i \in Id : StoreAuthorized(i)
              /\ \A c \in Calls : CallAuthorized(c) /\ OneGrant(c)

LEMMA AbsentAuthorized ==
    ASSUME NEW i \in Id, store'[i] = Absent
    PROVE  StoreAuthorized(i)'
  BY EmptyIs DEF StoreAuthorized

\* A call's record is replaced, and nothing else that matters here.
LEMMA CallSetAuthorized ==
    ASSUME Shaped, Authorized, NEW c \in Calls, NEW x \in Call,
           Len(x.place.seen) <= MaxSeen,
           calls' = [calls EXCEPT ![c] = x], UNCHANGED <<grants, row>>,
           x.pc \in {"reading", "asking"} =>
             /\ x.generation = row.generation /\ x.grant = grants.last
             /\ (x.trail.grant # x.grant => x.trail.late)
    PROVE  \A d \in Calls : CallAuthorized(d)' /\ OneGrant(d)'
<1>1. calls'[c] = x /\ \A d \in Calls : d # c => calls'[d] = calls[d]
  BY CallSet
<1> SUFFICES ASSUME NEW d \in Calls PROVE CallAuthorized(d)' /\ OneGrant(d)'
  OBVIOUS
<1>2. CallAuthorized(d) /\ OneGrant(d)
  BY DEF Authorized
<1>3. CASE d = c
  BY <1>1, <1>3, Numbers DEF CallAuthorized, OneGrant, Underway
<1>4. CASE d # c
  BY <1>1, <1>2, <1>4 DEF CallAuthorized, OneGrant, Underway
<1> QED
  BY <1>3, <1>4

LEMMA BeginAuthorized ==
    ASSUME Shaped, Counted, Authorized, NEW c \in Calls, Begin(c)
    PROVE  Authorized'
<1>1. /\ row.status = "connected" /\ store' = store
      /\ UNCHANGED <<row, held, grants>>
  BY BeginIs
<1>2. PICK i \in held \cup {0}, x \in Call : Begun(c, i, x)
  BY BeginIs
<1>3. /\ Len(x.place.seen) <= MaxSeen /\ calls' = [calls EXCEPT ![c] = x]
      /\ x.generation = row.generation /\ x.grant = grants.last
      /\ i = 0 => x.trail = [FirstTrail EXCEPT !.since = version, !.grant = grants.last]
      /\ i # 0 => store[i].generation = row.generation /\ x.trail = store[i].trail
  BY <1>2 DEF Begun
<1>4. x.trail.grant # x.grant => x.trail.late
  <2>1. CASE i = 0
    <3> DEFINE a == grants.last
    <3>1. x.trail = [FirstTrail EXCEPT !.since = version, !.grant = a]
      BY <1>3, <2>1
    <3> HIDE DEF a
    <3>2. x.trail.grant = a
      BY <3>1, Firsts, Zenon DEF Trail
    <3> QED
      BY <1>3, <3>2 DEF a
  <2>2. CASE i # 0
    <3>1. i \in Id
      BY <2>2 DEF Shaped
    <3>2. StoreAuthorized(i)
      BY <3>1 DEF Authorized
    <3>3. row.generation >= 1
      BY <1>1 DEF Counted, RowCounted
    <3> QED
      BY <1>1, <1>3, <2>2, <3>2, <3>3 DEF StoreAuthorized
  <2> QED
    BY <2>1, <2>2
<1>5. \A d \in Calls : CallAuthorized(d)' /\ OneGrant(d)'
  BY <1>1, <1>3, <1>4, CallSetAuthorized
<1>6. \A j \in Id : StoreAuthorized(j)'
  BY <1>1 DEF Authorized, StoreAuthorized
<1> QED
  BY <1>5, <1>6 DEF Authorized

LEMMA DeliverAuthorized ==
    ASSUME Shaped, Counted, Numbered, Authorized, NEW c \in Calls,
           NEW page, Delivers(c, page)
    PROVE  Authorized'
<1>1. Underway(c) /\ IsPage(page) /\ UNCHANGED <<row, grants>>
  BY DeliverIs
<1>2. PICK n \in 1..MaxItems, composed \in BOOLEAN : Delivered(c, page, n, composed)
  BY DeliverIs
<1>0. calls[c].resumed <= stored
  BY ResumedIs
<1>3. \A i \in Id : \/ store'[i] = NextRecord(c, page, n)
                    \/ store'[i] = Absent
                    \/ store'[i] = store[i]
  <2>1. \A i \in Id :
           /\ Goes(calls[c].place, page, n) /\ i = stored + 1 => store'[i] = NextRecord(c, page, n)
           /\ ~(Goes(calls[c].place, page, n) /\ i = stored + 1) =>
                store'[i] = IF i = calls[c].resumed THEN Absent ELSE store[i]
    BY <1>0, <1>1, <1>2, DeliveredIs
  <2> QED
    BY <2>1
<1>4. PICK x \in Call : Ended(c, page, n, composed, x)
  BY <1>0, <1>1, <1>2, DeliveredIs
<1>5. /\ x.place = FirstPlace /\ calls' = [calls EXCEPT ![c] = x] /\ x.pc \notin {"reading", "asking"}
  BY <1>4 DEF Ended
<1>6. Len(x.place.seen) <= MaxSeen
  BY <1>5, Firsts, Parameters
<1>7. \A d \in Calls : CallAuthorized(d)' /\ OneGrant(d)'
  BY <1>1, <1>5, <1>6, CallSetAuthorized
<1>8. \A i \in Id : StoreAuthorized(i)'
  <2> SUFFICES ASSUME NEW i \in Id PROVE StoreAuthorized(i)'
    OBVIOUS
  <2>1. CASE store'[i] = NextRecord(c, page, n)
    <3>1. /\ store'[i].generation = calls[c].generation
          /\ store'[i].trail.late <=> calls[c].trail.late \/ Late(c)
          /\ store'[i].trail.grant = calls[c].trail.grant
      BY <1>1, <2>1, PutIs
    <3>2. CallAuthorized(c) /\ OneGrant(c)
      BY DEF Authorized
    <3>3. SUFFICES ASSUME ~store'[i].trail.late
                   PROVE  /\ row.status = "connected"
                          /\ calls[c].generation = row.generation
                               => calls[c].trail.grant = grants.last
      BY <1>1, <3>1 DEF StoreAuthorized
    <3>4. row.status = "connected" /\ calls[c].life = grants.life /\ ~calls[c].trail.late
      BY <3>1, <3>3 DEF Late
    <3> QED
      BY <1>1, <3>2, <3>4 DEF CallAuthorized, OneGrant
  <2>2. CASE store'[i] = Absent
    BY <2>2, AbsentAuthorized
  <2>3. CASE store'[i] = store[i]
    <3>1. StoreAuthorized(i)
      BY DEF Authorized
    <3> QED
      BY <1>1, <2>3, <3>1 DEF StoreAuthorized
  <2> QED
    BY <1>3, <2>1, <2>2, <2>3
<1> QED
  BY <1>7, <1>8 DEF Authorized

LEMMA AskAuthorized ==
    ASSUME Shaped, Authorized, NEW c \in Calls, Ask(c)
    PROVE  Authorized'
<1>1. /\ UNCHANGED <<store, row, grants>>
      /\ \A d \in Calls : /\ calls'[d].generation = calls[d].generation
                          /\ calls'[d].grant = calls[d].grant
                          /\ calls'[d].life = calls[d].life
                          /\ calls'[d].trail = calls[d].trail
      /\ \A d \in Calls : Underway(d)' => Underway(d)
  BY AskIs DEF At, Underway
<1> QED
  BY <1>1 DEF Authorized, StoreAuthorized, CallAuthorized, OneGrant

LEMMA LeaveAuthorized ==
    ASSUME Shaped, Authorized, NEW c \in Calls,
           Fail(c) \/ Answer(c) \/ FailLater(c)
    PROVE  Authorized'
<1>1. calls' = [calls EXCEPT ![c] = Idle] /\ UNCHANGED <<store, row, grants>>
  BY DEF Fail, Answer, FailLater, history
<1>2. Idle \in Call /\ Len(Idle.place.seen) <= MaxSeen /\ Idle.pc \notin {"reading", "asking"}
  BY Firsts, EmptyIs, Parameters
<1> HIDE DEF Idle
<1>3. \A d \in Calls : CallAuthorized(d)' /\ OneGrant(d)'
  BY <1>1, <1>2, CallSetAuthorized
<1>4. \A i \in Id : StoreAuthorized(i)'
  BY <1>1 DEF Authorized, StoreAuthorized
<1> QED
  BY <1>3, <1>4 DEF Authorized

LEMMA AroundAuthorized ==
    ASSUME Shaped, Counted, Authorized, Around
    PROVE  Authorized'
<1>1. /\ calls' = calls
      /\ \A i \in Id : store'[i] = store[i] \/ store'[i] = Absent
  BY AroundIs
<1>2. /\ grants.last \in Nat /\ grants.life \in Nat /\ grants.ended \in Nat
      /\ row.generation \in Nat /\ grants \in [last: Nat, life: Nat, ended: Nat]
  BY Numbers DEF Shaped
<1>3. \A c \in Calls : OneGrant(c)'
  BY <1>1 DEF Authorized, OneGrant, Underway
<1>4. \A c \in Calls : /\ CallAuthorized(c) /\ calls[c].life <= grants.life
                       /\ calls[c].life \in Nat /\ calls[c].generation \in Nat
  BY CallFields DEF Authorized, Counted, CallCounted
<1>5. \A i \in Id : StoreAuthorized(i)
  BY DEF Authorized
<1>6. CASE Change \/ Evict \/ \E i \in Id : Expire(i)
  <2>1. UNCHANGED <<row, grants>>
    BY <1>6 DEF Change, Expire, Evict, history
  <2>2. \A i \in Id : StoreAuthorized(i)'
    <3> SUFFICES ASSUME NEW i \in Id PROVE StoreAuthorized(i)'
      OBVIOUS
    <3>1. CASE store'[i] = Absent
      BY <3>1, AbsentAuthorized
    <3>2. CASE store'[i] = store[i]
      BY <1>5, <2>1, <3>2 DEF StoreAuthorized
    <3> QED
      BY <1>1, <3>1, <3>2
  <2>3. \A c \in Calls : CallAuthorized(c)'
    BY <1>1, <1>4, <2>1 DEF CallAuthorized, Underway
  <2> QED
    BY <1>3, <2>2, <2>3 DEF Authorized
<1>7. CASE Reauthorize \/ BeginRemoval
  <2>1. /\ row.status # "absent" /\ row'.generation = row.generation + 1
        /\ grants'.life = grants.life /\ Forget
    <3>1. /\ row.status # "absent" /\ row'.generation = row.generation + 1 /\ Forget
          /\ \/ grants' = [grants EXCEPT !.last = @ + 1, !.ended = @ + 1]
             \/ grants' = [grants EXCEPT !.ended = @ + 1]
      BY <1>7 DEF Reauthorize, BeginRemoval
    <3>2. grants'.life = grants.life
      BY <1>2, <3>1
    <3> QED
      BY <3>1, <3>2
  <2>2. \A i \in Id : StoreAuthorized(i)'
    <3>1. \A i \in Id : store'[i] = Absent
      BY <2>1 DEF Forget
    <3> QED
      BY <3>1, AbsentAuthorized
  <2>3. \A c \in Calls : CallAuthorized(c)'
    <3> SUFFICES ASSUME NEW c \in Calls, Underway(c), calls[c].life = grants.life
                 PROVE  calls[c].generation < row'.generation
      BY <1>1, <1>2, <1>4, <2>1 DEF CallAuthorized, Underway
    <3>1. calls[c].generation <= row.generation
      BY <1>4, <2>1 DEF CallAuthorized
    <3> QED
      BY <1>2, <1>4, <2>1, <3>1
  <2> QED
    BY <1>3, <2>2, <2>3 DEF Authorized
<1>8. CASE CompleteRemoval
  <2>1. /\ row.status = "removal_pending" /\ row'.status = "absent" /\ store' = store
    BY <1>8 DEF CompleteRemoval
  <2>2. \A i \in Id : StoreAuthorized(i)'
    BY <1>5, <2>1 DEF StoreAuthorized
  <2>3. \A c \in Calls : CallAuthorized(c)'
    BY <2>1 DEF CallAuthorized
  <2> QED
    BY <1>3, <2>2, <2>3 DEF Authorized
<1>9. CASE Connect
  <2>1. row.status = "absent" /\ store' = store /\ grants'.life = grants.life + 1
    <3>1. /\ row.status = "absent" /\ store' = store
          /\ grants' = [grants EXCEPT !.last = @ + 1, !.life = @ + 1]
      BY <1>9 DEF Connect
    <3>2. grants'.life = grants.life + 1
      BY <1>2, <3>1
    <3> QED
      BY <3>1, <3>2
  <2>2. \A i \in Id : StoreAuthorized(i)'
    BY <1>5, <2>1 DEF StoreAuthorized
  <2>3. \A c \in Calls : CallAuthorized(c)'
    BY <1>1, <1>2, <1>4, <2>1 DEF CallAuthorized
  <2> QED
    BY <1>3, <2>2, <2>3 DEF Authorized
<1> QED
  BY <1>6, <1>7, <1>8, <1>9 DEF Around

---------------------------------------------------------------------------
(* Traversals *)

\* Every stored place and every one that is being read is in order.
StoreSane(i) == Sane(store[i].place, store[i].trail)
CallSane(c)  == Sane(calls[c].place, calls[c].trail)

Traversals == (\A i \in Id : StoreSane(i)) /\ (\A c \in Calls : CallSane(c))

\* The properties look at a trail's fields but late, grant and capped.
LEMMA SaneSame ==
    ASSUME NEW place, NEW t, NEW u, Sane(place, t),
           u.got = t.got, u.twice = t.twice, u.loose = t.loose, u.part = t.part,
           u.content = t.content, u.portions = t.portions, u.since = t.since,
           u.counted = t.counted
    PROVE  Sane(place, u)
  BY DEF Sane, Forward, Once, Whole, Told

LEMMA FirstSane ==
    ASSUME ModeIs, NEW t, t.got = {}, t.twice = {}, t.loose = {}, t.part = {},
           t.portions = 0, t.counted = FALSE
    PROVE  Sane(FirstPlace, t)
<1>1. /\ FirstPlace \in Place /\ FirstPlace.page = 1 /\ FirstPlace.after = 0
      /\ FirstPlace.offset = 0 /\ FirstPlace.total = 0 /\ FirstPlace.seen = <<>>
  BY Firsts, EmptyIs
<1>2. PageSize \in Nat /\ PageSize > 0
  BY Parameters
<1>3. Forward(FirstPlace, t)
  <2>1. (1 - 1) * PageSize + 0 = 0
    BY <1>2
  <2> QED
    BY <1>1, <1>2, <2>1 DEF Forward
<1>4. Once(FirstPlace, t)
  BY DEF Once
<1>5. Passed(FirstPlace) = {}
  <2>1. CASE mode = "page"
    <3>1. Listed(eve) \in Seq(Objects)
      BY ListedIs DEF ModeIs
    <3>2. (FirstPlace.page - 1) * PageSize = 0
      BY <1>1, <1>2
    <3>3. Upto(Listed(eve), 0) = {}
      BY <3>1, UptoNone
    <3> QED
      BY <2>1, <3>2, <3>3 DEF Passed
  <2>2. CASE mode # "page"
    <3>1. \A x \in eve : x \in Nat /\ x > 0
      BY Parameters DEF ModeIs, Objects
    <3> QED
      BY <1>1, <2>2, <3>1 DEF Passed
  <2> QED
    BY <2>1, <2>2
<1>6. ToSet(FirstPlace.seen) = {}
  <2> DEFINE e == <<>>
  <2>1. e \in Seq(Objects) /\ Len(e) = 0
    BY EmptySeq
  <2>2. ToSet(e) = {e[k] : k \in 1..Len(e)}
    <3> HIDE DEF e
    <3> QED
      BY <2>1, InSeq
  <2> HIDE DEF e
  <2>3. ToSet(e) = {}
    BY <2>1, <2>2
  <2> QED
    BY <1>1, <2>3 DEF e
<1>7. Upto(Present(FirstPlace), FirstPlace.offset) = {}
  <2>1. Present(FirstPlace) \in Seq(Objects)
    BY <1>1, PageIs, ListIs DEF ModeIs, Present
  <2> QED
    BY <1>1, <2>1, UptoNone
<1>8. Whole(FirstPlace, t)
  <2> HIDE DEF FirstPlace
  <2> QED
    BY <1>1, <1>5, <1>6, <1>7 DEF Whole
<1> QED
  BY <1>3, <1>4, <1>8 DEF Sane, Told

LEMMA SanePut ==
    ASSUME NEW i \in Id, NEW p, NEW t, Sane(p, t), store'[i].place = p,
           store'[i].trail = t, mode' = mode, eve' = eve, version' = version
    PROVE  StoreSane(i)'
  BY DEF StoreSane, Sane, Forward, Once, Whole, Told, Passed, Present, PageOf, Total

LEMMA SaneCalled ==
    ASSUME NEW c \in Calls, NEW p, NEW t, Sane(p, t), calls'[c].place = p,
           calls'[c].trail = t, mode' = mode, eve' = eve, version' = version
    PROVE  CallSane(c)'
  BY DEF CallSane, Sane, Forward, Once, Whole, Told, Passed, Present, PageOf, Total

\* Nothing but a change of the collection matters to a place and its trail,
\* and what began before a change is held to nothing any more.
LEMMA SaneStays ==
    ASSUME Traversals, mode' = mode, eve' = eve, version' = version
    PROVE  /\ \A i \in Id : store'[i] = store[i] => StoreSane(i)'
           /\ \A c \in Calls : calls'[c] = calls[c] => CallSane(c)'
<1>1. \A i \in Id : Sane(store[i].place, store[i].trail)
  BY DEF Traversals, StoreSane
<1>2. \A c \in Calls : Sane(calls[c].place, calls[c].trail)
  BY DEF Traversals, CallSane
<1> QED
  BY <1>1, <1>2, SanePut, SaneCalled

LEMMA SaneChanged ==
    ASSUME Shaped, Counted, Traversals, store' = store, calls' = calls,
           version' = version + 1
    PROVE  Traversals'
<1>1. \A i \in Id : store[i].trail.since # version'
  BY StoredFields, TrailFields, Numbers DEF Counted, StoreCounted
<1>2. \A c \in Calls : calls[c].trail.since # version'
  BY CallFields, TrailFields, Numbers DEF Counted, CallCounted
<1>3. \A i \in Id : /\ Forward(store[i].place, store[i].trail)
                 /\ Once(store[i].place, store[i].trail)
                 /\ Told(store[i].place, store[i].trail)
  BY DEF Traversals, StoreSane, Sane
<1>4. \A c \in Calls : /\ Forward(calls[c].place, calls[c].trail)
                    /\ Once(calls[c].place, calls[c].trail)
                    /\ Told(calls[c].place, calls[c].trail)
  BY DEF Traversals, CallSane, Sane
<1>5. \A i \in Id : StoreSane(i)'
  BY <1>1, <1>3 DEF StoreSane, Sane, Whole, Told, Forward, Once
<1>6. \A c \in Calls : CallSane(c)'
  BY <1>2, <1>4 DEF CallSane, Sane, Whole, Told, Forward, Once
<1> QED
  BY <1>5, <1>6 DEF Traversals

LEMMA AbsentSane ==
    ASSUME Shaped, NEW i \in Id, store'[i] = Absent,
           mode' = mode, eve' = eve, version' = version
    PROVE  StoreSane(i)'
<1>1. Sane(FirstPlace, FirstTrail)
  BY FirstSane, EmptyIs DEF Shaped, ModeIs
<1>2. store'[i].place = FirstPlace /\ store'[i].trail = FirstTrail
  BY EmptyIs
<1> QED
  BY <1>1, <1>2, SanePut

\* A call's record is replaced.
LEMMA CallSetSane ==
    ASSUME Shaped, Traversals, NEW c \in Calls, NEW x \in Call,
           Len(x.place.seen) <= MaxSeen, Sane(x.place, x.trail),
           calls' = [calls EXCEPT ![c] = x],
           mode' = mode, eve' = eve, version' = version
    PROVE  \A d \in Calls : CallSane(d)'
<1>1. calls'[c] = x /\ \A d \in Calls : d # c => calls'[d] = calls[d]
  BY CallSet
<1>2. CallSane(c)'
  BY <1>1, SaneCalled
<1> QED
  BY <1>1, <1>2, SaneStays

LEMMA BeginSane ==
    ASSUME Shaped, Counted, Traversals, NEW c \in Calls, Begin(c)
    PROVE  Traversals'
<1>1. store' = store /\ mode' = mode /\ eve' = eve /\ version' = version
      /\ held' = held
  BY BeginIs
<1>2. PICK i \in held \cup {0}, x \in Call : Begun(c, i, x)
  BY BeginIs
<1>3. /\ Len(x.place.seen) <= MaxSeen /\ calls' = [calls EXCEPT ![c] = x]
      /\ i = 0 => x.place = FirstPlace
      /\ i = 0 => x.trail = [FirstTrail EXCEPT !.since = version, !.grant = grants.last]
      /\ i # 0 => x.place = store[i].place /\ x.trail = store[i].trail
  BY <1>2 DEF Begun
<1>4. Sane(x.place, x.trail)
  <2>1. CASE i = 0
    <3> DEFINE a == grants.last
    <3>1. x.trail = [FirstTrail EXCEPT !.since = version, !.grant = a]
      BY <1>3, <2>1
    <3> HIDE DEF a
    <3>2. /\ x.trail.got = FirstTrail.got /\ x.trail.twice = FirstTrail.twice
          /\ x.trail.loose = FirstTrail.loose /\ x.trail.part = FirstTrail.part
          /\ x.trail.portions = FirstTrail.portions
          /\ x.trail.counted = FirstTrail.counted
      BY <3>1, Firsts, Zenon DEF Trail
    <3>3. Sane(FirstPlace, x.trail)
      BY <3>2, EmptyIs, FirstSane DEF Shaped, ModeIs
    <3> QED
      BY <1>3, <2>1, <3>3
  <2>2. CASE i # 0
    <3>1. i \in Id
      BY <2>2 DEF Shaped
    <3> QED
      BY <1>3, <2>2, <3>1 DEF Traversals, StoreSane
  <2> QED
    BY <2>1, <2>2
<1>5. \A d \in Calls : CallSane(d)'
  BY <1>1, <1>3, <1>4, CallSetSane
<1>6. \A j \in Id : StoreSane(j)'
  BY <1>1, SaneStays
<1> QED
  BY <1>5, <1>6 DEF Traversals

LEMMA PutSane ==
    ASSUME Shaped, Counted, Traversals, NEW c \in Calls, NEW n \in 1..MaxItems,
           NEW page, IsPage(page), Genuine(page, calls[c].place)
    PROVE  LET new   == NextRecord(c, page, n)
               trail == TrailOf(calls[c].place, calls[c].trail, page, n) IN
           /\ Once(new.place, trail)
           /\ Goes(calls[c].place, page, n) => Sane(new.place, new.trail)
<1> DEFINE p == calls[c].place
           t == calls[c].trail
           u == TrailOf(p, t, page, n)
           q == NextRecord(c, page, n)
<1>1. /\ n \in Nat \ {0} /\ ModeIs /\ p \in Place /\ t \in Trail
      /\ version \in Nat /\ t.since <= version
  BY PutIs, CallFields, Numbers DEF Counted, CallCounted
<1>2. /\ q.place = PlaceOf(p, page, n)
      /\ q.trail.got = u.got /\ q.trail.twice = u.twice /\ q.trail.loose = u.loose
      /\ q.trail.part = u.part /\ q.trail.content = u.content
      /\ q.trail.portions = u.portions /\ q.trail.since = u.since
      /\ q.trail.counted = u.counted
  BY PutIs
<1>3. Forward(p, t) /\ Once(p, t) /\ Whole(p, t) /\ Told(p, t)
  BY DEF Traversals, CallSane, Sane
<1>4. Forward(PlaceOf(p, page, n), u) /\ Once(PlaceOf(p, page, n), u)
  BY <1>1, <1>3, ForwardKept, OnceKept
<1>5. Goes(p, page, n) => Whole(PlaceOf(p, page, n), u)
  BY <1>1, <1>3, WholeKept
<1>6. Told(PlaceOf(p, page, n), u)
  <2>1. /\ p.total \in Nat /\ page.total \in Nat
        /\ PlaceOf(p, page, n).total = EffectiveTotal(p.total, page.total)
        /\ u.counted <=> t.counted \/ page.total # 0
    BY <1>1, PlaceFields, PlaceIs, TrailIs DEF IsPage
  <2> QED
    BY <1>3, <2>1, EffectiveIs DEF Told
<1> HIDE DEF p, t, u, q
<1>7. Goes(p, page, n) => Sane(q.place, u)
  BY <1>2, <1>4, <1>5, <1>6 DEF Sane
<1>8. Goes(p, page, n) => Sane(q.place, q.trail)
  BY <1>2, <1>7, SaneSame
<1> QED
  BY <1>2, <1>4, <1>8 DEF p, t, u, q

LEMMA AskSane ==
    ASSUME Shaped, Traversals, NEW c \in Calls, Ask(c)
    PROVE  Traversals'
<1>1. /\ mode' = mode /\ eve' = eve /\ version' = version /\ store' = store
      /\ \A d \in Calls : /\ calls'[d].place = calls[d].place
                          /\ calls'[d].trail = calls[d].trail
  BY AskIs
<1>2. \A d \in Calls : Sane(calls[d].place, calls[d].trail)
  BY DEF Traversals, CallSane
<1>3. \A d \in Calls : CallSane(d)'
  BY <1>1, <1>2, SaneCalled
<1>4. \A i \in Id : StoreSane(i)'
  BY <1>1, SaneStays
<1> QED
  BY <1>3, <1>4 DEF Traversals

LEMMA DeliverSane ==
    ASSUME Shaped, Counted, Numbered, Traversals, NEW c \in Calls,
           NEW page, Delivers(c, page)
    PROVE  Traversals'
<1>1. /\ mode' = mode /\ eve' = eve /\ version' = version
      /\ IsPage(page) /\ Genuine(page, calls[c].place)
  BY DeliverIs
<1>2. PICK n \in 1..MaxItems, composed \in BOOLEAN : Delivered(c, page, n, composed)
  BY DeliverIs
<1>0. calls[c].resumed <= stored
  BY ResumedIs
<1>3. \A i \in Id : \/ store'[i] = NextRecord(c, page, n) /\ Goes(calls[c].place, page, n)
                    \/ store'[i] = Absent
                    \/ store'[i] = store[i]
  <2>1. \A i \in Id :
           /\ Goes(calls[c].place, page, n) /\ i = stored + 1 => store'[i] = NextRecord(c, page, n)
           /\ ~(Goes(calls[c].place, page, n) /\ i = stored + 1) =>
                store'[i] = IF i = calls[c].resumed THEN Absent ELSE store[i]
    BY <1>0, <1>1, <1>2, DeliveredIs
  <2> QED
    BY <2>1
<1>4. PICK x \in Call : Ended(c, page, n, composed, x)
  BY <1>0, <1>1, <1>2, DeliveredIs
<1>5. x.place = FirstPlace /\ x.trail = FirstTrail /\ calls' = [calls EXCEPT ![c] = x]
  BY <1>4 DEF Ended
<1>6. Len(x.place.seen) <= MaxSeen /\ Sane(x.place, x.trail)
  <2>1. Sane(FirstPlace, FirstTrail)
    BY FirstSane, EmptyIs DEF Shaped, ModeIs
  <2> QED
    BY <1>5, <2>1, Firsts, Parameters
<1>7. \A d \in Calls : CallSane(d)'
  BY <1>1, <1>5, <1>6, CallSetSane
<1>8. \A i \in Id : StoreSane(i)'
  <2> SUFFICES ASSUME NEW i \in Id PROVE StoreSane(i)'
    OBVIOUS
  <2>1. CASE store'[i] = NextRecord(c, page, n) /\ Goes(calls[c].place, page, n)
    BY <1>1, <2>1, PutSane, SanePut
  <2>2. CASE store'[i] = Absent
    BY <1>1, <2>2, AbsentSane
  <2>3. CASE store'[i] = store[i]
    BY <1>1, <2>3, SaneStays
  <2> QED
    BY <1>3, <2>1, <2>2, <2>3
<1> QED
  BY <1>7, <1>8 DEF Traversals

LEMMA LeaveSane ==
    ASSUME Shaped, Traversals, NEW c \in Calls,
           Fail(c) \/ Answer(c) \/ FailLater(c)
    PROVE  Traversals'
<1>1. /\ calls' = [calls EXCEPT ![c] = Idle] /\ store' = store
      /\ mode' = mode /\ eve' = eve /\ version' = version
  BY DEF Fail, Answer, FailLater, history
<1>2. /\ Idle \in Call /\ Len(Idle.place.seen) <= MaxSeen
      /\ Sane(Idle.place, Idle.trail)
  <2>1. Sane(FirstPlace, FirstTrail)
    BY FirstSane, EmptyIs DEF Shaped, ModeIs
  <2> QED
    BY <2>1, Firsts, EmptyIs, Parameters
<1> HIDE DEF Idle
<1>3. \A d \in Calls : CallSane(d)'
  BY <1>1, <1>2, CallSetSane
<1>4. \A i \in Id : StoreSane(i)'
  BY <1>1, SaneStays
<1> QED
  BY <1>3, <1>4 DEF Traversals

LEMMA AroundSane ==
    ASSUME Shaped, Counted, Traversals, Around
    PROVE  Traversals'
<1>1. /\ calls' = calls /\ mode' = mode
      /\ \A i \in Id : store'[i] = store[i] \/ store'[i] = Absent
  BY AroundIs
<1>2. CASE Change
  <2>1. store' = store /\ version' = version + 1
    BY <1>2 DEF Change
  <2> QED
    BY <1>1, <2>1, SaneChanged
<1>3. CASE ~Change
  <2>1. eve' = eve /\ version' = version
    BY <1>3 DEF Around, Expire, Reauthorize, BeginRemoval, CompleteRemoval,
      Connect, Evict, history
  <2>2. \A i \in Id : StoreSane(i)'
    BY <1>1, <2>1, AbsentSane, SaneStays
  <2>3. \A c \in Calls : CallSane(c)'
    BY <1>1, <2>1, SaneStays
  <2> QED
    BY <2>2, <2>3 DEF Traversals
<1> QED
  BY <1>2, <1>3

\* What an answer says of its traversal.
AnswerSane == NothingTwice /\ NothingMissed

LEMMA SilentSane ==
    ASSUME answer' = NoAnswer
    PROVE  AnswerSane'
<1>1. NoAnswer.trail = FirstTrail /\ NoAnswer.given = 1
  BY DEF NoAnswer
<1> QED
  BY <1>1, EmptyIs DEF AnswerSane, NothingTwice, NothingMissed

LEMMA DeliverAnswers ==
    ASSUME Shaped, Counted, Traversals, NEW c \in Calls, NEW page, Delivers(c, page)
    PROVE  AnswerSane'
<1>1. /\ eve' = eve /\ version' = version /\ mode' = mode
      /\ IsPage(page) /\ Genuine(page, calls[c].place)
  BY DeliverIs
<1>2. PICK n \in 1..MaxItems, composed \in BOOLEAN : Delivered(c, page, n, composed)
  BY DeliverIs
<1> DEFINE p == calls[c].place
           t == calls[c].trail
           u == TrailOf(p, t, page, n)
<1>3. answer' = [trail |-> u, given |-> IF Goes(p, page, n) THEN stored + 1 ELSE 0]
  BY <1>2 DEF Delivered
<1>4. u.twice \subseteq u.loose
  BY <1>1, PutSane DEF Once
<1>5. /\ n \in Nat \ {0} /\ ModeIs /\ p \in Place /\ t \in Trail
      /\ version \in Nat /\ t.since <= version
  BY <1>1, PutIs, CallFields, Numbers DEF Counted, CallCounted
<1>6. Whole(p, t) /\ Told(p, t)
  BY DEF Traversals, CallSane, Sane
<1>7. /\ ~Goes(p, page, n) /\ ~u.capped /\ u.since = version
      /\ mode = "page" => u.counted
      => u.got = eve
  BY <1>1, <1>5, <1>6, WholeEnds
<1>8. stored + 1 # 0
  BY Numbers
<1> HIDE DEF p, t, u
<1>9. answer'.trail = u /\ (answer'.given = 0 => ~Goes(p, page, n))
  BY <1>3, <1>8
<1> QED
  BY <1>1, <1>4, <1>7, <1>9 DEF AnswerSane, NothingTwice, NothingMissed

---------------------------------------------------------------------------
(* The cache *)

\* The part of a key that names the page.
MarkOf(place) == IF mode = "page" THEN place.page ELSE place.after

\* A copy is a page, and one of this version is the page it is the copy of.
CopyIs(copy) ==
    /\ copy \in Copy /\ IsPage(copy)
    /\ copy.version = version =>
         \A place \in Place : MarkOf(place) = copy.key.at => copy.list = PageOf(place)

CacheSane ==
    /\ \A copy \in cache : CopyIs(copy)
    /\ \A c \in Calls : \A copy \in calls[c].found :
         CopyIs(copy) /\ copy.key = KeyOf(c)

\* A copy can stand in for the page that is asked for.
LEMMA CopyStands ==
    ASSUME Shaped, NEW c \in Calls, NEW copy, CopyIs(copy), copy.key = KeyOf(c)
    PROVE  IsPage(copy) /\ Genuine(copy, calls[c].place)
<1>1. calls[c].place \in Place /\ copy.key.at = MarkOf(calls[c].place)
  BY CallFields DEF KeyOf, MarkOf
<1>2. copy.total = 0
  BY DEF CopyIs, Copy
<1> QED
  BY <1>1, <1>2 DEF CopyIs, Genuine

\* What EVE answers is the page, and what is stored of it is a copy of it.
LEMMA FreshIs ==
    ASSUME Shaped, NEW c \in Calls
    PROVE  /\ IsPage(Fresh(c)) /\ Genuine(Fresh(c), calls[c].place)
           /\ IsPage(Stored(Fresh(c))) /\ Genuine(Stored(Fresh(c)), calls[c].place)
           /\ CopyIs(Stored(Fresh(c)))
<1> DEFINE place == calls[c].place
           page == Fresh(c)
           copy == Stored(page)
<1>1. /\ place \in Place /\ calls[c].generation \in Nat /\ version \in Nat
      /\ eve \subseteq Objects /\ mode \in {"page", "cursor"}
  BY CallFields DEF Shaped
<1>2. /\ page.key = KeyOf(c) /\ page.list = PageOf(place) /\ page.total = Total
      /\ page.version = version
      /\ copy = [key |-> KeyOf(c), list |-> PageOf(place), total |-> 0,
                 version |-> version]
  BY DEF Fresh, Stored
<1>3. Total \in Nat
  BY <1>1, TotalNumber
<1>4. /\ PageOf(place) \in Seq(Objects) /\ Increasing(PageOf(place))
      /\ Len(PageOf(place)) <= PageSize
  BY <1>1, PageIs
<1>5. IsPage(page) /\ Genuine(page, place)
  BY <1>1, <1>2, <1>3, <1>4 DEF IsPage, Genuine
<1>6. IsPage(copy) /\ Genuine(copy, place)
  BY <1>1, <1>2, <1>4 DEF IsPage, Genuine
<1>7. KeyOf(c) \in [generation: Nat, at: Nat] /\ KeyOf(c).at = MarkOf(place)
  <2>1. /\ place.page \in Nat /\ (place.after \in Nat)
    BY <1>1, PlaceFields, Parameters DEF Objects
  <2> QED
    BY <1>1, <2>1 DEF KeyOf, MarkOf
<1>8. copy \in Copy
  BY <1>1, <1>2, <1>4, <1>7 DEF Copy
<1>9. \A other \in Place : MarkOf(other) = MarkOf(place) => PageOf(other) = PageOf(place)
  BY DEF MarkOf, PageOf
<1>10. CopyIs(copy)
  BY <1>2, <1>6, <1>7, <1>8, <1>9 DEF CopyIs
<1> QED
  BY <1>5, <1>6, <1>10

\* What the cache has after an answer of EVE.
LEMMA CachedIs ==
    ASSUME Shaped, CacheSane, NEW c \in Calls,
           cache' = cache \/ cache' = Put(Fresh(c)) \/ cache' \in Pruned(Fresh(c))
    PROVE  \A copy \in cache' : CopyIs(copy)
<1>1. cache' \subseteq cache \cup {Stored(Fresh(c))}
  BY DEF Put, Pruned, kSubset
<1> QED
  BY <1>1, FreshIs DEF CacheSane

\* Wherever a page comes from, the call gets it.
Page(c) == Hit(c) \/ Fetched(c) \/ Revalidated(c) \/ Stale(c)

LEMMA PageDelivers ==
    ASSUME Shaped, CacheSane, NEW c \in Calls, Page(c)
    PROVE  /\ \E page : Delivers(c, page)
           /\ \A copy \in cache' : CopyIs(copy)
<1>1. CASE Hit(c)
  <2>1. PICK copy \in Cached(KeyOf(c)) : Deliver(c, copy)
    BY <1>1 DEF Hit
  <2>2. CopyIs(copy) /\ copy.key = KeyOf(c)
    BY <2>1 DEF Cached, CacheSane
  <2>3. Delivers(c, copy)
    BY <1>1, <2>1, <2>2, CopyStands DEF Delivers, Hit, Underway, At
  <2> QED
    BY <1>1, <2>3, CachedIs DEF Hit
<1>2. CASE Fetched(c)
  <2>1. Delivers(c, Fresh(c))
    BY <1>2, FreshIs DEF Delivers, Fetched, Underway, At
  <2> QED
    BY <1>2, <2>1, CachedIs DEF Fetched
<1>3. CASE Revalidated(c)
  <2>1. Delivers(c, Stored(Fresh(c)))
    BY <1>3, FreshIs DEF Delivers, Revalidated, Underway, At
  <2> QED
    BY <1>3, <2>1, CachedIs DEF Revalidated
<1>4. CASE Stale(c)
  <2>1. PICK copy \in calls[c].found : Deliver(c, copy)
    BY <1>4 DEF Stale
  <2>2. CopyIs(copy) /\ copy.key = KeyOf(c)
    BY <2>1 DEF CacheSane
  <2>3. Delivers(c, copy)
    BY <1>4, <2>1, <2>2, CopyStands DEF Delivers, Stale, Underway, At
  <2> QED
    BY <1>4, <2>3, CachedIs DEF Stale
<1> QED
  BY <1>1, <1>2, <1>3, <1>4 DEF Page

\* A copy stays one as long as the collection does not change; once it has
\* changed, the copy is an old one.
LEMMA CopyStays ==
    ASSUME mode' = mode, version \in Nat, NEW copy, CopyIs(copy),
           \/ eve' = eve /\ version' = version
           \/ version' = version + 1
    PROVE  CopyIs(copy)'
<1>1. CASE eve' = eve /\ version' = version
  BY <1>1 DEF CopyIs, IsPage, MarkOf, PageOf
<1>2. CASE version' = version + 1
  <2>1. copy.version \in Nat /\ copy.version <= version
    BY DEF CopyIs, IsPage
  <2>2. copy.version <= version' /\ copy.version # version'
    BY <1>2, <2>1
  <2> QED
    BY <2>2 DEF CopyIs, IsPage
<1> QED
  BY <1>1, <1>2

\* One call's record is replaced, by one that has found nothing.
LEMMA CallSetCache ==
    ASSUME Shaped, CacheSane, NEW c \in Calls, NEW x \in Call,
           Len(x.place.seen) <= MaxSeen, x.found = {},
           calls' = [calls EXCEPT ![c] = x],
           mode' = mode, eve' = eve, version' = version,
           \A copy \in cache' : CopyIs(copy)
    PROVE  CacheSane'
<1>1. calls'[c] = x /\ \A d \in Calls : d # c => calls'[d] = calls[d]
  BY CallSet
<1>2. version \in Nat
  BY Numbers
<1>3. \A copy \in cache' : CopyIs(copy)'
  BY <1>2, CopyStays
<1>4. ASSUME NEW d \in Calls, NEW copy \in calls'[d].found
      PROVE  CopyIs(copy)' /\ copy.key = KeyOf(d)'
  <2>1. d # c /\ copy \in calls[d].found /\ calls'[d] = calls[d]
    BY <1>1, <1>4
  <2>2. CopyIs(copy) /\ copy.key = KeyOf(d)
    BY <2>1 DEF CacheSane
  <2>3. KeyOf(d)' = KeyOf(d)
    BY <2>1 DEF KeyOf
  <2> QED
    BY <1>2, <2>2, <2>3, CopyStays
<1> QED
  BY <1>3, <1>4 DEF CacheSane

LEMMA BeginCache ==
    ASSUME Shaped, CacheSane, NEW c \in Calls, Begin(c)
    PROVE  CacheSane'
<1>1. UNCHANGED <<mode, eve, cache, version>>
  BY BeginIs
<1>2. PICK i \in held \cup {0}, x \in Call : Begun(c, i, x)
  BY BeginIs
<1>3. /\ Len(x.place.seen) <= MaxSeen /\ x.found = {}
      /\ calls' = [calls EXCEPT ![c] = x]
  BY <1>2 DEF Begun
<1>4. \A copy \in cache' : CopyIs(copy)
  BY <1>1 DEF CacheSane
<1> QED
  BY <1>1, <1>3, <1>4, CallSetCache

LEMMA AskCache ==
    ASSUME Shaped, CacheSane, NEW c \in Calls, Ask(c)
    PROVE  CacheSane'
<1>1. /\ UNCHANGED <<mode, eve, cache, version>> /\ version \in Nat
      /\ \A d \in Calls : d # c => calls'[d] = calls[d]
      /\ calls'[c].found = Cached(KeyOf(c))
      /\ calls'[c].generation = calls[c].generation
      /\ calls'[c].place = calls[c].place
  BY AskIs, Numbers
<1>2. \A d \in Calls : KeyOf(d)' = KeyOf(d)
  BY <1>1 DEF KeyOf
<1>3. \A copy \in cache' : CopyIs(copy)'
  BY <1>1, CopyStays DEF CacheSane
<1>4. ASSUME NEW d \in Calls, NEW copy \in calls'[d].found
      PROVE  CopyIs(copy)' /\ copy.key = KeyOf(d)'
  <2>1. CopyIs(copy) /\ copy.key = KeyOf(d)
    <3>1. CASE d = c
      BY <1>1, <1>4, <3>1 DEF Cached, CacheSane
    <3>2. CASE d # c
      <4>1. copy \in calls[d].found
        BY <1>1, <1>4, <3>2
      <4> QED
        BY <4>1 DEF CacheSane
    <3> QED
      BY <3>1, <3>2
  <2> QED
    BY <1>1, <1>2, <2>1, CopyStays
<1> QED
  BY <1>3, <1>4 DEF CacheSane

LEMMA DeliverCache ==
    ASSUME Shaped, Numbered, CacheSane, NEW c \in Calls, NEW page, Delivers(c, page),
           \A copy \in cache' : CopyIs(copy)
    PROVE  CacheSane'
<1>1. IsPage(page) /\ UNCHANGED <<mode, eve, version>>
  BY DeliverIs
<1>2. PICK n \in 1..MaxItems, composed \in BOOLEAN : Delivered(c, page, n, composed)
  BY DeliverIs
<1>3. calls[c].resumed <= stored
  BY ResumedIs
<1>4. PICK x \in Call : Ended(c, page, n, composed, x)
  BY <1>1, <1>2, <1>3, DeliveredIs
<1>5. /\ x.place = FirstPlace /\ x.found = {} /\ calls' = [calls EXCEPT ![c] = x]
  BY <1>4 DEF Ended
<1>6. Len(x.place.seen) <= MaxSeen
  BY <1>5, Firsts, Parameters
<1> QED
  BY <1>1, <1>5, <1>6, CallSetCache

LEMMA LeaveCache ==
    ASSUME Shaped, CacheSane, NEW c \in Calls,
           Fail(c) \/ Answer(c) \/ FailLater(c)
    PROVE  CacheSane' /\ cache' \subseteq Copy
<1>1. /\ calls' = [calls EXCEPT ![c] = Idle]
      /\ UNCHANGED <<mode, eve, version>>
      /\ cache' = cache \/ cache' = Put(Fresh(c)) \/ cache' \in Pruned(Fresh(c))
  BY DEF Fail, Answer, FailLater, history
<1>2. Idle \in Call /\ Len(Idle.place.seen) <= MaxSeen /\ Idle.found = {}
  BY Firsts, EmptyIs, Parameters
<1>3. \A copy \in cache' : CopyIs(copy)
  BY <1>1, CachedIs
<1>4. cache' \subseteq Copy
  BY <1>3 DEF CopyIs
<1> HIDE DEF Idle
<1> QED
  BY <1>1, <1>2, <1>3, <1>4, CallSetCache

LEMMA AroundCache ==
    ASSUME Shaped, CacheSane, Around
    PROVE  CacheSane'
<1>1. /\ calls' = calls /\ mode' = mode /\ cache' \subseteq cache /\ version \in Nat
  BY AroundIs, Numbers
<1>2. (eve' = eve /\ version' = version) \/ version' = version + 1
  BY DEF Around, Change, Expire, Reauthorize, BeginRemoval, CompleteRemoval,
    Connect, Evict, history
<1>3. \A copy : CopyIs(copy) => CopyIs(copy)'
  BY <1>1, <1>2, CopyStays
<1>4. \A d \in Calls : KeyOf(d)' = KeyOf(d)
  BY <1>1 DEF KeyOf
<1> QED
  BY <1>1, <1>3, <1>4 DEF CacheSane

---------------------------------------------------------------------------
(* The invariant *)

\* The inductive invariant.
IInv == Shaped /\ Counted /\ Tokens /\ Authorized /\ Traversals /\ AnswerSane
        /\ CacheSane

LEMMA InitIInv == Init => IInv
<1> SUFFICES ASSUME Init PROVE IInv
  OBVIOUS
<1>1. /\ mode \in {"page", "cursor"} /\ eve \in Collections
      /\ row = [status |-> "connected", generation |-> 1]
      /\ store = [i \in Id |-> Absent] /\ calls = [c \in Calls |-> Idle] /\ held = {}
      /\ answer = NoAnswer /\ version = 0 /\ cache = {} /\ stored = 0
      /\ grants = [last |-> 1, life |-> 1, ended |-> 0]
  BY DEF Init
<1>2. /\ Absent \in Record /\ Idle \in Call /\ Len(Absent.place.seen) <= MaxSeen
      /\ Len(Idle.place.seen) <= MaxSeen
  BY Firsts, EmptyIs, Parameters
<1>3. /\ Collections \subseteq SUBSET Objects /\ MaxChanges \in Nat /\ MaxIds \in Nat
  BY Parameters
<1>4. \A c \in Calls : calls[c] = Idle
  BY <1>1
<1>5. \A i \in Id : store[i] = Absent
  BY <1>1
<1>6. Shaped
  <2> HIDE DEF Absent, Idle
  <2> QED
    BY <1>1, <1>2, <1>3 DEF Shaped
<1>7. Counted
  <2>1. RowCounted
    BY <1>1, <1>3 DEF RowCounted
  <2>2. \A c \in Calls : CallCounted(c)
    BY <1>1, <1>3, <1>4, EmptyIs DEF CallCounted, Underway
  <2>3. \A i \in Id : StoreCounted(i)
    BY <1>1, <1>3, <1>5, EmptyIs DEF StoreCounted
  <2> QED
    BY <2>1, <2>2, <2>3 DEF Counted
<1>8. Tokens
  BY <1>1, <1>4, <1>5, EmptyIs DEF Tokens, Numbered, GivenKept, TokenKept
<1>9. Authorized
  <2>1. \A i \in Id : StoreAuthorized(i)
    BY <1>5, EmptyIs DEF StoreAuthorized
  <2>2. \A c \in Calls : CallAuthorized(c) /\ OneGrant(c)
    BY <1>4, EmptyIs DEF CallAuthorized, OneGrant, Underway
  <2> QED
    BY <2>1, <2>2 DEF Authorized
<1>10. Traversals
  <2>1. Sane(FirstPlace, FirstTrail)
    BY <1>6, FirstSane, EmptyIs DEF Shaped, ModeIs
  <2> QED
    BY <1>4, <1>5, <2>1, EmptyIs DEF Traversals, StoreSane, CallSane
<1>11. AnswerSane
  <2>1. NoAnswer.trail = FirstTrail /\ NoAnswer.given = 1
    BY DEF NoAnswer
  <2> QED
    BY <1>1, <2>1, EmptyIs DEF AnswerSane, NothingTwice, NothingMissed
<1>12. CacheSane
  BY <1>1, <1>4, EmptyIs DEF CacheSane
<1> QED
  BY <1>6, <1>7, <1>8, <1>9, <1>10, <1>11, <1>12 DEF IInv

LEMMA NextIInv == IInv /\ [Next]_vars => IInv'
<1> SUFFICES ASSUME IInv, [Next]_vars PROVE IInv'
  OBVIOUS
<1>1. /\ Shaped /\ Counted /\ Tokens /\ Authorized /\ Traversals /\ AnswerSane
      /\ Numbered /\ CacheSane
  BY DEF IInv, Tokens
<1>2. ASSUME NEW c \in Calls, Begin(c) PROVE IInv'
  <2>1. Shaped' /\ Counted'
    BY <1>1, <1>2, BeginShaped
  <2>2. Tokens'
    BY <1>1, <1>2, BeginTokens
  <2>3. Authorized'
    BY <1>1, <1>2, BeginAuthorized
  <2>4. Traversals'
    BY <1>1, <1>2, BeginSane
  <2>5. AnswerSane'
    BY <1>1, <1>2, BeginIs, SilentSane
  <2>6. CacheSane'
    BY <1>1, <1>2, BeginCache
  <2> QED
    BY <2>1, <2>2, <2>3, <2>4, <2>5, <2>6 DEF IInv
<1>3. ASSUME NEW c \in Calls, Page(c) PROVE IInv'
  <2>1. PICK page : Delivers(c, page)
    BY <1>1, <1>3, PageDelivers
  <2>2. \A copy \in cache' : CopyIs(copy)
    BY <1>1, <1>3, PageDelivers
  <2>3. cache' \subseteq Copy
    BY <2>2 DEF CopyIs
  <2>4. Shaped' /\ Counted'
    BY <1>1, <2>1, <2>3, DeliverShaped
  <2>5. Tokens'
    BY <1>1, <2>1, DeliverTokens
  <2>6. Authorized'
    BY <1>1, <2>1, DeliverAuthorized
  <2>7. Traversals'
    BY <1>1, <2>1, DeliverSane
  <2>8. AnswerSane'
    BY <1>1, <2>1, DeliverAnswers
  <2>9. CacheSane'
    BY <1>1, <2>1, <2>2, DeliverCache
  <2> QED
    BY <2>4, <2>5, <2>6, <2>7, <2>8, <2>9 DEF IInv
<1>4. ASSUME NEW c \in Calls, Ask(c) PROVE IInv'
  <2>1. Shaped' /\ Counted'
    BY <1>1, <1>4, AskShaped
  <2>2. Tokens'
    BY <1>1, <1>4, AskTokens
  <2>3. Authorized'
    BY <1>1, <1>4, AskAuthorized
  <2>4. Traversals'
    BY <1>1, <1>4, AskSane
  <2>5. AnswerSane'
    BY <1>1, <1>4, AskIs, SilentSane
  <2>6. CacheSane'
    BY <1>1, <1>4, AskCache
  <2> QED
    BY <2>1, <2>2, <2>3, <2>4, <2>5, <2>6 DEF IInv
<1>5. ASSUME NEW c \in Calls, Fail(c) \/ Answer(c) \/ FailLater(c) PROVE IInv'
  <2>1. Tokens' /\ held' \subseteq Id
    BY <1>1, <1>5, LeaveTokens
  <2>2. Shaped' /\ Counted'
    BY <1>1, <1>5, <2>1, LeaveCache, IdleShaped
  <2>3. Authorized'
    BY <1>1, <1>5, LeaveAuthorized
  <2>4. Traversals'
    BY <1>1, <1>5, LeaveSane
  <2>5. AnswerSane'
    <3>1. answer' = NoAnswer
      BY <1>5 DEF Fail, Answer, FailLater, Silent
    <3> QED
      BY <3>1, SilentSane
  <2>6. CacheSane'
    BY <1>1, <1>5, LeaveCache
  <2> QED
    BY <2>1, <2>2, <2>3, <2>4, <2>5, <2>6 DEF IInv
<1>6. ASSUME Around PROVE IInv'
  <2>1. Shaped' /\ Counted'
    BY <1>1, <1>6, AroundShaped
  <2>2. Tokens'
    BY <1>1, <1>6, AroundTokens
  <2>3. Authorized'
    BY <1>1, <1>6, AroundAuthorized
  <2>4. Traversals'
    BY <1>1, <1>6, AroundSane
  <2>5. AnswerSane'
    BY <1>1, <1>6, AroundIs, SilentSane
  <2>6. CacheSane'
    BY <1>1, <1>6, AroundCache
  <2> QED
    BY <2>1, <2>2, <2>3, <2>4, <2>5, <2>6 DEF IInv
<1>7. ASSUME UNCHANGED vars PROVE IInv'
  <2>1. /\ mode' = mode /\ eve' = eve /\ row' = row /\ store' = store /\ calls' = calls
        /\ held' = held /\ answer' = answer /\ version' = version /\ grants' = grants
        /\ stored' = stored /\ settled' = settled /\ cache' = cache
    BY <1>7 DEF vars, history
  <2>2. Shaped' /\ Counted'
    BY <1>1, <2>1 DEF Shaped, Counted, RowCounted, CallCounted, StoreCounted,
      Underway
  <2>3. Tokens'
    BY <1>1, <2>1 DEF Tokens, Numbered, GivenKept, TokenKept, At
  <2>4. Authorized'
    BY <1>1, <2>1 DEF Authorized, StoreAuthorized, CallAuthorized, OneGrant,
      Underway
  <2>5. Traversals'
    BY <1>1, <2>1, SaneStays DEF Traversals
  <2>6. AnswerSane'
    BY <1>1, <2>1 DEF AnswerSane, NothingTwice, NothingMissed
  <2>7. CacheSane'
    BY <1>1, <2>1 DEF CacheSane, CopyIs, IsPage, MarkOf, PageOf, KeyOf
  <2> QED
    BY <2>2, <2>3, <2>4, <2>5, <2>6, <2>7 DEF IInv
<1> QED
  BY <1>2, <1>3, <1>4, <1>5, <1>6, <1>7 DEF Next, Around, Page

LEMMA IInvTypes == IInv => TypeOK
<1> SUFFICES ASSUME IInv PROVE TypeOK
  OBVIOUS
<1>1. Shaped /\ Counted
  BY DEF IInv
<1>2. /\ mode \in {"page", "cursor"} /\ eve \subseteq Objects /\ held \subseteq Id
      /\ cache \subseteq Copy
  BY <1>1 DEF Shaped
<1>3. row \in [status: {"connected", "removal_pending", "absent"},
               generation: 0..MaxChanges + 1]
  <2>1. row.generation \in 0..MaxChanges + 1
    BY <1>1, Numbers DEF Counted, RowCounted
  <2>2. row \in [status: {"connected", "removal_pending", "absent"}, generation: Nat]
    BY <1>1 DEF Shaped
  <2> QED
    BY <2>1, <2>2
<1>4. \A i \in Id : /\ store[i].generation \in 0..MaxChanges + 1
                    /\ store[i].place \in Place
                    /\ Len(store[i].place.seen) <= MaxSeen
  <2> SUFFICES ASSUME NEW i \in Id
               PROVE  /\ store[i].generation \in 0..MaxChanges + 1
                      /\ store[i].place \in Place
                      /\ Len(store[i].place.seen) <= MaxSeen
    OBVIOUS
  <2>1. store[i].generation <= MaxChanges + 1
    BY <1>1 DEF Counted, StoreCounted
  <2> QED
    BY <1>1, <2>1, StoredFields, Numbers
<1>5. \A c \in Calls :
         /\ calls[c].pc \in {"idle", "reading", "asking", "composing"}
         /\ calls[c].found \subseteq Copy
         /\ calls[c].place \in Place
         /\ calls[c].resumed \in Id \cup {0} /\ calls[c].given \in Id \cup {0}
  BY <1>1, CallFields
<1> QED
  BY <1>2, <1>3, <1>4, <1>5 DEF TypeOK

LEMMA IInvEnds == IInv => TraversalEnds
  BY DEF IInv, Traversals, StoreSane, Sane, Forward, TraversalEnds

\* The strengthened invariant holds in every reachable state.
THEOREM InductiveInvariant == Spec => []IInv
  BY InitIInv, NextIInv, PTL DEF Spec

\* Every variable keeps its type: a place never leaves the pages, the memory
\* of fingerprints its limit, a generation the number of authorizations.
THEOREM TypeCorrect == Spec => []TypeOK
  BY InductiveInvariant, IInvTypes, PTL

\* No object is returned twice along a chain of continuations, but for those
\* whose page changed while it was being read or which were forgotten.
THEOREM PortionsDoNotOverlap == Spec => []NothingTwice
<1>1. IInv => NothingTwice
  BY DEF IInv, AnswerSane
<1> QED
  BY <1>1, InductiveInvariant, PTL

\* A traversal whose pages, from EVE or from the cache, all were of the
\* collection as it is when it ends has returned all of it: the cursor and the
\* number of pages that EVE told it once carry it to the end.  Not proved, since
\* it is not so (README, section 4): that of a traversal by page numbers
\* which no answer of EVE ever told how many there are.
THEOREM PortionsCoverEverything == Spec => []NothingMissed
<1>1. IInv => NothingMissed
  BY DEF IInv, AnswerSane
<1> QED
  BY <1>1, InductiveInvariant, PTL

\* Every portion brings a traversal forward, whatever happens to the
\* collection: nothing can be resumed for ever.
THEOREM PortionsAreFinite == Spec => []TraversalEnds
  BY IInvEnds, InductiveInvariant, PTL

\* A failed call does not use up the token it was made with, but for a read
\* whose other components still have to succeed.
THEOREM TokensAreKept == Spec => []TokenKept
<1>1. IInv => TokenKept
  BY DEF IInv, Tokens
<1> QED
  BY <1>1, InductiveInvariant, PTL

\* A chain is read under one authorization, but for a continuation stored
\* after a removal of the character began.
THEOREM ChainsHaveOneAuthorization == Spec => []OneAuthorization
<1>1. IInv => OneAuthorization
  BY DEF IInv, Authorized, OneGrant, OneAuthorization, Underway
<1> QED
  BY <1>1, InductiveInvariant, PTL

=============================================================================
