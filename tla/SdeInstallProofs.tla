-------------------------- MODULE SdeInstallProofs --------------------------
(***************************************************************************)
(* Proofs about SdeInstall, for any number of installers, builds and       *)
(* failures; and about RequirementClosure, which reads the data that it    *)
(* puts in place, for any graph of requirements and any limits.            *)
(***************************************************************************)
EXTENDS SdeInstall, RequirementClosure, FiniteSetTheorems, SequenceTheorems,
        TLAPS

Changes(i) == installers[i].pc \in Changing

\* What the locals of an installer hold by the time they are used.
Shaped ==
    \A i \in Installers :
      /\ installers[i].pc \in Pc \ {"idle", "asking"} => New(i) \in Build
      /\ At(i, "deleting") => installers[i].surplus # <<>>

\* An installer that takes itself for alone is; only such ones change things
\* while no two have met; and after the last install nobody has begun to.
Lone ==
    /\ \A i \in Installers : Changes(i) /\ installers[i].alone => Others(i) = {}
    /\ ~raced => \A i \in Installers : Changes(i) => installers[i].alone
    /\ settled => \A i \in Installers : ~Changes(i)

\* What an installer that is alone has done so far, whatever it found.
Placed(i) ==
    installers[i].alone =>
      /\ installers[i].pc \in {"activating", "pointing", "listing", "unlinking",
                               "deleting"} => New(i) \in files
      /\ installers[i].pc \in {"pointing", "listing", "unlinking", "deleting"} =>
           recent # <<>> /\ recent[1] = New(i) /\ active = New(i)
      /\ installers[i].pc \in {"listing", "unlinking", "deleting"} =>
           pointer = New(i)
      /\ installers[i].pc \in {"unlinking", "deleting"} =>
           installers[i].surplus = SubSeq(recent, 3, Len(recent))

Progress == \A i \in Installers : Placed(i)

\* A file has a row, or its installer is about to write one.
Owned ==
    \A b \in files : \/ b \in Rows \cup orphans
                     \/ \E i \in Installers : At(i, "activating") /\ New(i) = b

IInv == /\ TypeOK /\ Shaped /\ Lone /\ Progress /\ Owned
        /\ ReadersAreServed /\ InstallEndsWell

---------------------------------------------------------------------------
(* Sequences without repetitions *)

LEMMA DomainIs ==
    ASSUME NEW T, NEW s \in Seq(T)
    PROVE  /\ Len(s) \in Nat /\ DOMAIN s = 1..Len(s)
           /\ Range(s) = {s[k] : k \in 1..Len(s)} /\ Range(s) \subseteq T
           /\ s # <<>> <=> Len(s) >= 1
<1>1. Len(s) \in Nat /\ DOMAIN s = 1..Len(s)
  BY LenProperties
<1>2. \A k \in 1..Len(s) : s[k] \in T
  BY ElementOfSeq
<1>3. s # <<>> => Len(s) # 0
  BY EmptySeq
<1>4. Len(<<>>) = 0
  BY EmptySeq
<1> QED
  BY <1>1, <1>2, <1>3, <1>4 DEF Range

\* Taking out the k-th of distinct elements.
LEMMA RemovedIs ==
    ASSUME NEW T, NEW s \in Seq(T), IsInjective(s), NEW k \in 1..Len(s)
    PROVE  LET t == RemoveFirst(s, s[k]) IN
           /\ t \in Seq(T) /\ Len(t) = Len(s) - 1
           /\ \A j \in 1..(k - 1) : t[j] = s[j]
           /\ \A j \in k..(Len(s) - 1) : t[j] = s[j + 1]
<1> DEFINE n == Len(s)
           front == SubSeq(s, 1, k - 1)
           rest == SubSeq(s, k + 1, n)
<1>1. n \in Nat /\ DOMAIN s = 1..n /\ k \in Int /\ 1 <= k /\ k <= n
  BY DomainIs
<1>2. RemoveFirst(s, s[k]) = front \o rest
  <2>1. {i \in 1..n : s[i] = s[k]} = {k}
    BY <1>1 DEF IsInjective
  <2>2. Min({k}) = k
    BY DEF Min
  <2>3. SelectInSeq(s, LAMBDA v : v = s[k]) = k
    BY <2>1, <2>2 DEF SelectInSeq
  <2>4. \E i \in 1..n : s[i] = s[k]
    OBVIOUS
  <2> QED
    BY <2>3, <2>4 DEF RemoveFirst, RemoveAt
<1>3. \A i \in 1..n : s[i] \in T
  BY ElementOfSeq
<1>4. /\ front \in Seq(T) /\ Len(front) = k - 1
      /\ \A i \in 1..(k - 1) : front[i] = s[i]
  <2>1. \A i \in 1..(k - 1) : s[i] \in T
    BY <1>1, <1>3
  <2> DEFINE m == k - 1
  <2>3. m \in Int /\ 1 \in Int
    BY <1>1
  <2> HIDE DEF m
  <2>4. /\ SubSeq(s, 1, m) \in Seq(T)
        /\ Len(SubSeq(s, 1, m)) = IF 1 <= m THEN m - 1 + 1 ELSE 0
        /\ \A i \in 1..(m - 1 + 1) : SubSeq(s, 1, m)[i] = s[1 + i - 1]
    BY <2>1, <2>3, SubSeqProperties DEF m
  <2>5. front = SubSeq(s, 1, m) /\ m = k - 1
    BY DEF m
  <2> HIDE DEF front
  <2>6. Len(front) = k - 1
    BY <1>1, <2>4, <2>5
  <2>7. ASSUME NEW i \in 1..(k - 1)
        PROVE  front[i] = s[i]
    <3>1. i \in 1..(m - 1 + 1) /\ 1 + i - 1 = i
      BY <1>1, <2>5
    <3> QED
      BY <2>4, <2>5, <3>1
  <2> QED
    BY <2>4, <2>5, <2>6, <2>7
<1>5. /\ rest \in Seq(T) /\ Len(rest) = n - k
      /\ \A i \in 1..(n - k) : rest[i] = s[k + i]
  <2>1. \A i \in (k + 1)..n : s[i] \in T
    BY <1>1, <1>3
  <2> DEFINE m == k + 1
  <2>3. m \in Int /\ n \in Int
    BY <1>1
  <2> HIDE DEF m
  <2>4. /\ SubSeq(s, m, n) \in Seq(T)
        /\ Len(SubSeq(s, m, n)) = IF m <= n THEN n - m + 1 ELSE 0
        /\ \A i \in 1..(n - m + 1) : SubSeq(s, m, n)[i] = s[m + i - 1]
    BY <2>1, <2>3, SubSeqProperties DEF m
  <2>5. rest = SubSeq(s, m, n) /\ m = k + 1
    BY DEF m
  <2> HIDE DEF rest, n
  <2>6. Len(rest) = n - k
    <3>1. CASE m <= n
      BY <1>1, <2>4, <2>5, <3>1
    <3>2. CASE ~(m <= n)
      BY <1>1, <2>4, <2>5, <3>2
    <3> QED
      BY <3>1, <3>2
  <2>7. ASSUME NEW i \in 1..(n - k)
        PROVE  rest[i] = s[k + i]
    <3>1. i \in 1..(n - m + 1) /\ m + i - 1 = k + i
      BY <1>1, <2>5
    <3> QED
      BY <2>4, <2>5, <3>1
  <2> QED
    BY <2>4, <2>5, <2>6, <2>7
<1> HIDE DEF front, rest, n
<1>6. /\ front \o rest \in Seq(T) /\ Len(front \o rest) = (k - 1) + (n - k)
      /\ \A i \in 1..((k - 1) + (n - k)) :
           (front \o rest)[i] = IF i <= k - 1 THEN front[i] ELSE rest[i - (k - 1)]
  <2>1. /\ front \o rest \in Seq(T) /\ Len(front \o rest) = Len(front) + Len(rest)
        /\ \A i \in 1..(Len(front) + Len(rest)) :
             (front \o rest)[i] =
               IF i <= Len(front) THEN front[i] ELSE rest[i - Len(front)]
    BY <1>4, <1>5, ConcatProperties
  <2> QED
    BY <1>4, <1>5, <2>1
<1>7. \A j \in 1..(k - 1) : (front \o rest)[j] = s[j]
  BY <1>1, <1>4, <1>6
<1>8. \A j \in k..(n - 1) : (front \o rest)[j] = s[j + 1]
  <2> TAKE j \in k..(n - 1)
  <2>1. j - (k - 1) \in 1..(n - k) /\ k + (j - (k - 1)) = j + 1
    BY <1>1
  <2>2. rest[j - (k - 1)] = s[j + 1]
    BY <1>5, <2>1
  <2> QED
    BY <1>1, <1>6, <2>2, SMTT(60)
<1> QED
  BY <1>1, <1>2, <1>6, <1>7, <1>8 DEF n

\* The third is removed: the first two stay, the others move up.
LEMMA ThirdRemoved ==
    ASSUME NEW T, NEW s \in Seq(T), IsInjective(s), 3 \in 1..Len(s),
           NEW t, t = RemoveFirst(s, s[3])
    PROVE  /\ Len(t) = Len(s) - 1
           /\ \A j \in 1..(3 - 1) : t[j] = s[j]
           /\ \A j \in 3..(Len(s) - 1) : t[j] = s[j + 1]
BY RemovedIs

LEMMA RemovedRange ==
    ASSUME NEW T, NEW s \in Seq(T), IsInjective(s), NEW e
    PROVE  LET t == RemoveFirst(s, e) IN
           /\ t \in Seq(T) /\ IsInjective(t)
           /\ Range(t) = Range(s) \ {e}
           /\ e \notin Range(s) => t = s
<1> DEFINE t == RemoveFirst(s, e)
<1>1. Len(s) \in Nat /\ DOMAIN s = 1..Len(s) /\ Range(s) = {s[k] : k \in 1..Len(s)}
  BY DomainIs
<1>2. CASE e \notin Range(s)
  <2>1. t = s
    BY <1>1, <1>2 DEF RemoveFirst
  <2> QED
    BY <1>2, <2>1
<1>3. CASE e \in Range(s)
  <2>1. PICK k \in 1..Len(s) : s[k] = e
    BY <1>1, <1>3
  <2>2. /\ t \in Seq(T) /\ Len(t) = Len(s) - 1
        /\ \A j \in 1..(k - 1) : t[j] = s[j]
        /\ \A j \in k..(Len(s) - 1) : t[j] = s[j + 1]
    BY <2>1, RemovedIs
  <2> HIDE DEF t
  <2>3. DOMAIN t = 1..(Len(s) - 1) /\ Range(t) = {t[j] : j \in 1..(Len(s) - 1)}
    BY <2>2, DomainIs
  <2>4. \A j \in 1..(Len(s) - 1) :
          \E m \in 1..Len(s) : t[j] = s[m] /\ m # k /\ m = IF j < k THEN j ELSE j + 1
    BY <1>1, <2>2
  <2>5. IsInjective(t)
    <3> SUFFICES ASSUME NEW a \in 1..(Len(s) - 1), NEW b \in 1..(Len(s) - 1), t[a] = t[b]
                 PROVE  a = b
      BY <2>3 DEF IsInjective
    <3>1. PICK ma \in 1..Len(s) : t[a] = s[ma] /\ ma = IF a < k THEN a ELSE a + 1
      BY <2>4
    <3>2. PICK mb \in 1..Len(s) : t[b] = s[mb] /\ mb = IF b < k THEN b ELSE b + 1
      BY <2>4
    <3>3. ma = mb
      BY <1>1, <3>1, <3>2 DEF IsInjective
    <3> QED
      BY <1>1, <3>1, <3>2, <3>3
  <2>6. Range(t) \subseteq Range(s) \ {e}
    BY <1>1, <2>1, <2>3, <2>4 DEF IsInjective
  <2>7. ASSUME NEW m \in 1..Len(s), s[m] # e
        PROVE  s[m] \in Range(t)
    <3>1. CASE m < k
      <4>1. m \in 1..(k - 1) /\ m \in 1..(Len(s) - 1)
        BY <1>1, <3>1
      <4> QED
        BY <2>2, <2>3, <4>1
    <3>2. CASE m > k
      <4>1. m - 1 \in k..(Len(s) - 1) /\ m - 1 \in 1..(Len(s) - 1) /\ (m - 1) + 1 = m
        BY <1>1, <3>2
      <4> QED
        BY <2>2, <2>3, <4>1
    <3> QED
      BY <1>1, <2>1, <2>7, <3>1, <3>2
  <2> QED
    BY <1>1, <1>3, <2>2, <2>5, <2>6, <2>7 DEF t
<1> QED
  BY <1>2, <1>3

\* Putting an element first, from wherever it may have been.
LEMMA PromotedIs ==
    ASSUME NEW T, NEW s \in Seq(T), IsInjective(s), NEW e \in T
    PROVE  LET t == <<e>> \o RemoveFirst(s, e) IN
           /\ t \in Seq(T) /\ IsInjective(t) /\ Range(t) = Range(s) \cup {e}
           /\ t # <<>> /\ t[1] = e
           /\ 2 \in DOMAIN t => \E m \in 1..2 \cap DOMAIN s : t[2] = s[m]
<1> DEFINE r == RemoveFirst(s, e)
           t == <<e>> \o r
<1>1. r \in Seq(T) /\ IsInjective(r) /\ Range(r) = Range(s) \ {e}
  BY RemovedRange
<1>2. r = s \/ \E k \in 1..Len(s) :
        /\ Len(r) = Len(s) - 1
        /\ \A j \in 1..(k - 1) : r[j] = s[j]
        /\ \A j \in k..(Len(s) - 1) : r[j] = s[j + 1]
  <2>1. CASE e \in Range(s)
    <3>1. PICK k \in 1..Len(s) : s[k] = e
      BY <2>1, DomainIs
    <3> QED
      BY <3>1, RemovedIs
  <2>2. CASE e \notin Range(s)
    BY <2>2, RemovedRange
  <2> QED
    BY <2>1, <2>2
<1> HIDE DEF r
<1>3. /\ Len(r) \in Nat /\ DOMAIN r = 1..Len(r) /\ Range(r) = {r[k] : k \in 1..Len(r)}
      /\ Len(s) \in Nat /\ DOMAIN s = 1..Len(s)
  BY <1>1, DomainIs
<1>4. <<e>> \in Seq(T) /\ Len(<<e>>) = 1 /\ <<e>>[1] = e
  OBVIOUS
<1>5. /\ t \in Seq(T) /\ Len(t) = 1 + Len(r)
      /\ \A i \in 1..(1 + Len(r)) : t[i] = IF i <= 1 THEN <<e>>[i] ELSE r[i - 1]
  BY <1>1, <1>4, ConcatProperties
<1> HIDE DEF t
<1>6. /\ DOMAIN t = 1..(1 + Len(r)) /\ Range(t) = {t[i] : i \in 1..(1 + Len(r))}
      /\ t # <<>>
  BY <1>3, <1>5, DomainIs
<1>7. t[1] = e /\ \A i \in 2..(1 + Len(r)) : i - 1 \in 1..Len(r) /\ t[i] = r[i - 1]
  BY <1>3, <1>4, <1>5
<1>8. \A j \in 1..Len(r) : j + 1 \in 2..(1 + Len(r)) /\ t[j + 1] = r[j]
  <2> TAKE j \in 1..Len(r)
  <2>1. j + 1 \in 2..(1 + Len(r)) /\ (j + 1) - 1 = j
    BY <1>3
  <2> QED
    BY <1>7, <2>1
<1>9. IsInjective(t)
  <2> SUFFICES ASSUME NEW a \in 1..(1 + Len(r)), NEW b \in 1..(1 + Len(r)), t[a] = t[b]
               PROVE  a = b
    BY <1>6 DEF IsInjective
  <2>1. \A i \in 2..(1 + Len(r)) : t[i] # e
    BY <1>1, <1>3, <1>7
  <2>2. CASE a = 1 \/ b = 1
    BY <1>3, <1>7, <2>1, <2>2
  <2>3. CASE a # 1 /\ b # 1
    <3>1. a \in 2..(1 + Len(r)) /\ b \in 2..(1 + Len(r))
      BY <1>3, <2>3
    <3>2. r[a - 1] = r[b - 1] /\ a - 1 \in 1..Len(r) /\ b - 1 \in 1..Len(r)
      BY <1>7, <3>1
    <3>3. a - 1 = b - 1
      BY <1>1, <1>3, <3>2 DEF IsInjective
    <3> QED
      BY <3>1, <3>3
  <2> QED
    BY <2>2, <2>3
<1>10. Range(t) = Range(s) \cup {e}
  <2>1. Range(t) \subseteq Range(r) \cup {e}
    BY <1>3, <1>6, <1>7
  <2>2. Range(r) \cup {e} \subseteq Range(t)
    BY <1>3, <1>6, <1>7, <1>8
  <2> QED
    BY <1>1, <2>1, <2>2
<1>11. ASSUME 2 \in DOMAIN t
       PROVE  \E m \in 1..2 \cap DOMAIN s : t[2] = s[m]
  <2>1. Len(r) >= 1 /\ t[2] = r[1]
    BY <1>3, <1>6, <1>7, <1>11
  <2>2. CASE r = s
    BY <1>3, <2>1, <2>2
  <2>3. CASE r # s
    <3>1. PICK k \in 1..Len(s) :
            /\ Len(r) = Len(s) - 1
            /\ \A j \in 1..(k - 1) : r[j] = s[j]
            /\ \A j \in k..(Len(s) - 1) : r[j] = s[j + 1]
      BY <1>2, <2>3
    <3>2. Len(s) >= 2 /\ 1 \in DOMAIN s /\ 2 \in DOMAIN s
      BY <1>3, <2>1, <3>1
    <3>3. CASE k = 1
      <4>1. 1 \in k..(Len(s) - 1)
        BY <3>2, <3>3, <1>3
      <4>2. r[1] = s[1 + 1]
        BY <3>1, <4>1
      <4> QED
        BY <2>1, <3>2, <4>2
    <3>4. CASE k # 1
      <4>1. 1 \in 1..(k - 1)
        BY <3>1, <3>4
      <4>2. r[1] = s[1]
        BY <3>1, <4>1
      <4> QED
        BY <2>1, <3>2, <4>2
    <3> QED
      BY <3>3, <3>4
  <2> QED
    BY <2>2, <2>3
<1> QED
  BY <1>5, <1>6, <1>7, <1>9, <1>10, <1>11 DEF t, r

---------------------------------------------------------------------------
(* What the steps of an installer do to the state of the installers *)

Unmoved(i) == \A j \in Installers \ {i} : installers'[j] = installers[j]

LEMMA Moved ==
    ASSUME installers \in [Installers -> InstallerState], NEW i \in Installers,
           NEW pc \in Pc, Goto(i, pc)
    PROVE  /\ installers' \in [Installers -> InstallerState] /\ Unmoved(i)
           /\ installers'[i].pc = pc /\ installers'[i].build = installers[i].build
           /\ installers'[i].surplus = installers[i].surplus
           /\ installers'[i].alone = installers[i].alone
<1>1. installers' = [installers EXCEPT ![i] = [@ EXCEPT !.pc = pc]]
  BY DEF Goto
<1>2. installers[i] \in InstallerState
  OBVIOUS
<1>3. [installers[i] EXCEPT !.pc = pc] \in InstallerState
  BY <1>2 DEF InstallerState
<1> QED
  BY <1>1, <1>2, <1>3 DEF Unmoved, InstallerState

LEMMA IdleIs ==
    Idle \in InstallerState /\ Idle.pc = "idle" /\ Idle.alone
<1>1. <<>> \in Seq(Build)
  OBVIOUS
<1> QED
  BY <1>1 DEF Idle, InstallerState, Pc

LEMMA Left ==
    ASSUME installers \in [Installers -> InstallerState], NEW i \in Installers,
           Leave(i)
    PROVE  /\ installers' \in [Installers -> InstallerState] /\ Unmoved(i)
           /\ installers'[i].pc = "idle"
BY IdleIs DEF Leave, Unmoved

\* A lone installer that changes things stays alone while others stay away.
LEMMA LoneKept ==
    ASSUME Lone, NEW i \in Installers, Unmoved(i),
           Changes(i)' => Changes(i) /\ installers'[i].alone = installers[i].alone,
           raced' = raced,
           settled' => settled \/ (Others(i) = {} /\ ~Changes(i)')
    PROVE  Lone'
<1>1. \A j \in Installers : Changes(j)' => Changes(j) /\ installers'[j].alone = installers[j].alone
  BY DEF Unmoved, Changes
<1>2. \A j \in Installers : Others(j)' \subseteq Others(j)
  BY <1>1 DEF Others, Changes
<1>3. ASSUME settled', NEW j \in Installers, Changes(j)'
      PROVE  FALSE
  <2>1. ~settled
    BY <1>1, <1>3 DEF Lone
  <2>2. j # i /\ Changes(j) /\ Others(i) = {}
    BY <1>1, <1>3, <2>1
  <2> QED
    BY <2>2 DEF Others, Changes
<1> QED
  BY <1>1, <1>2, <1>3 DEF Lone

\* While one installer changes things, no other takes itself for alone.
LEMMA OthersPlaced ==
    ASSUME Lone, NEW i \in Installers, Changes(i), Unmoved(i), Placed(i)'
    PROVE  Progress'
<1> SUFFICES ASSUME NEW j \in Installers, j # i PROVE Placed(j)'
  BY DEF Progress
<1>1. installers'[j] = installers[j]
  BY DEF Unmoved
<1>2. ~(Changes(j) /\ installers[j].alone)
  BY DEF Lone, Others, Changes
<1> QED
  BY <1>1, <1>2 DEF Placed, Changes, Changing, Pc

\* An installer that changes nothing yet, or none at all.
LEMMA QuietStep ==
    ASSUME IInv, TypeOK', Shaped', NEW i \in Installers, Unmoved(i),
           ~Changes(i), ~Changes(i)',
           UNCHANGED <<files, table, pointer, settled, torn, orphans, raced>>
    PROVE  IInv'
<1> USE DEF IInv, table
<1>1. Lone'
  BY LoneKept
<1>2. Progress'
  <2> SUFFICES ASSUME NEW j \in Installers PROVE Placed(j)'
    BY DEF Progress
  <2>1. CASE j = i
    BY <2>1 DEF Placed, Changes, Changing, Pc
  <2>2. CASE j # i
    <3>1. installers'[j] = installers[j] /\ Placed(j)
      BY <2>2 DEF Unmoved, Progress
    <3> QED
      BY <3>1 DEF Placed, New
  <2> QED
    BY <2>1, <2>2
<1>3. \A b : Replaced(b)' <=> Replaced(b)
  BY DEF Replaced, At, New, Unmoved, Changes, Changing, Pc
<1>4. Owned'
  BY DEF Owned, At, New, Unmoved, Changes, Changing, Pc, Rows
<1>5. ReadersAreServed'
  BY <1>3 DEF ReadersAreServed, PointerServes, LastTwoServe
<1>6. InstallEndsWell'
  BY DEF InstallEndsWell, Agreement, TwoBuildsKept, Rows
<1> QED
  BY <1>1, <1>2, <1>4, <1>5, <1>6

\* While an installer changes things no install has just ended, and if no two
\* have met it is alone.
LEMMA Unsettled ==
    ASSUME Lone, NEW i \in Installers, Changes(i)
    PROVE  ~settled /\ (~raced => installers[i].alone)
BY DEF Lone

---------------------------------------------------------------------------
(* The steps *)

LEMMA StepStart ==
    ASSUME IInv, NEW i \in Installers, Start(i)
    PROVE  IInv'
<1>1. [Idle EXCEPT !.pc = "asking", !.current = Status] \in InstallerState
  <2>1. Status \in Build \cup {0}
    BY DEF Status, IInv, TypeOK
  <2> QED
    BY <2>1, IdleIs DEF InstallerState, Pc
<1>2. TypeOK'
  BY <1>1 DEF IInv, TypeOK, Start, table, notes, Rows
<1>3. /\ Unmoved(i) /\ At(i, "idle") /\ installers'[i].pc = "asking"
      /\ installers'[i].build = 0
  BY IdleIs DEF IInv, TypeOK, Start, Unmoved, Idle, InstallerState
<1>4. ~Changes(i) /\ ~Changes(i)'
  BY <1>3 DEF Changes, Changing, At
<1>5. Shaped'
  BY <1>3 DEF IInv, Shaped, Unmoved, At, New
<1> QED
  BY QuietStep, <1>2, <1>3, <1>4, <1>5 DEF Start, table, notes

LEMMA StepAlreadyCurrent ==
    ASSUME IInv, NEW i \in Installers, AlreadyCurrent(i)
    PROVE  IInv'
<1>1. /\ installers' \in [Installers -> InstallerState] /\ Unmoved(i)
      /\ installers'[i].pc = "idle"
  BY Left DEF IInv, TypeOK, AlreadyCurrent
<1>2. TypeOK'
  BY <1>1 DEF IInv, TypeOK, AlreadyCurrent, table, notes, Rows
<1>3. ~Changes(i) /\ ~Changes(i)'
  BY <1>1 DEF AlreadyCurrent, Changes, Changing, At
<1>4. Shaped'
  BY <1>1 DEF IInv, Shaped, Unmoved, At, New
<1> QED
  BY QuietStep, <1>1, <1>2, <1>3, <1>4 DEF AlreadyCurrent, table, notes

LEMMA StepImport ==
    ASSUME IInv, NEW i \in Installers, Import(i)
    PROVE  IInv'
<1>1. /\ installers' \in [Installers -> InstallerState] /\ Unmoved(i)
      /\ installers'[i].pc = "importing" /\ installers'[i].build \in Build
  <2>1. installers' = [installers EXCEPT ![i] =
                         [@ EXCEPT !.pc = "importing", !.build = latest]]
    BY DEF Import
  <2>2. installers[i] \in InstallerState /\ latest \in Build
    BY DEF IInv, TypeOK
  <2>3. [installers[i] EXCEPT !.pc = "importing", !.build = latest] \in InstallerState
    BY <2>2 DEF InstallerState, Pc
  <2> QED
    BY <2>1, <2>2, <2>3 DEF IInv, TypeOK, Unmoved, InstallerState
<1>2. TypeOK'
  BY <1>1 DEF IInv, TypeOK, Import, table, notes, Rows
<1>3. ~Changes(i) /\ ~Changes(i)'
  BY <1>1 DEF Import, Changes, Changing, At
<1>4. Shaped'
  BY <1>1 DEF IInv, Shaped, Unmoved, At, New
<1> QED
  BY QuietStep, <1>1, <1>2, <1>3, <1>4 DEF Import, table, notes

\* From here on the installer changes what others read.
LEMMA StepImported ==
    ASSUME IInv, NEW i \in Installers, Imported(i)
    PROVE  IInv'
<1> DEFINE mine == [installers[i] EXCEPT !.pc = "replacing",
                                         !.alone = Others(i) = {}]
           theirs(j) == [installers[j] EXCEPT !.alone = FALSE]
<1>1. \A j \in Installers : installers[j] \in InstallerState
  BY DEF IInv, TypeOK
<1>2. mine \in InstallerState /\ \A j \in Installers : theirs(j) \in InstallerState
  BY <1>1 DEF InstallerState, Pc
<1>3. /\ installers' \in [Installers -> InstallerState]
      /\ installers'[i] = mine
      /\ \A j \in Installers \ {i} : installers'[j] = theirs(j)
  BY <1>2 DEF Imported
<1>4. /\ installers'[i].pc = "replacing" /\ installers'[i].build = New(i)
      /\ installers'[i].alone = (Others(i) = {})
  BY <1>1, <1>3 DEF InstallerState, New
<1>5. \A j \in Installers \ {i} :
        /\ installers'[j].pc = installers[j].pc /\ installers'[j].build = installers[j].build
        /\ installers'[j].surplus = installers[j].surplus /\ installers'[j].alone = FALSE
  BY <1>1, <1>3 DEF InstallerState
<1> HIDE DEF mine, theirs
<1>6. TypeOK'
  BY <1>3 DEF IInv, TypeOK, Imported, table, Rows
<1>7. Shaped'
  BY <1>4, <1>5, ZenonT(60) DEF IInv, Shaped, Imported, At, New, Pc
<1>8. Lone'
  <2>1. \A j \in Installers : Others(j)' = {k \in Installers \ {j} : installers'[k].pc \in Changing}
    BY DEF Others
  <2>2. Others(i)' = Others(i)
    BY <1>5, <2>1 DEF Others
  <2>3. \A j \in Installers : Changes(j)' /\ installers'[j].alone => Others(j)' = {}
    BY <1>4, <1>5, <2>2
  <2>4. ~raced' => \A j \in Installers : Changes(j)' => installers'[j].alone
    BY <1>4, <1>5 DEF Imported, Others, Changes
  <2> QED
    BY <2>3, <2>4 DEF Lone, Imported
<1>9. Progress'
  <2> SUFFICES ASSUME NEW j \in Installers PROVE Placed(j)'
    BY DEF Progress
  <2> QED
    BY <1>4, <1>5 DEF Placed
<1>10. Owned'
  <2> SUFFICES ASSUME NEW b \in files, b \notin Rows \cup orphans
               PROVE  \E j \in Installers : installers'[j].pc = "activating" /\ installers'[j].build = b
    BY DEF Owned, Imported, table, Rows, At, New
  <2>1. PICK j \in Installers : installers[j].pc = "activating" /\ installers[j].build = b
    BY DEF IInv, Owned, At, New
  <2>2. j # i
    BY <2>1 DEF Imported, At
  <2> QED
    BY <1>5, <2>1, <2>2
<1>11. \A b : Replaced(b) => Replaced(b)'
  BY <1>4, <1>5 DEF Replaced, Imported, At, New
<1>12. ReadersAreServed'
  BY <1>11 DEF IInv, ReadersAreServed, PointerServes, LastTwoServe, Imported, table
<1>13. InstallEndsWell'
  BY DEF InstallEndsWell, Agreement, TwoBuildsKept, Imported
<1> QED
  BY <1>6, <1>7, <1>8, <1>9, <1>10, <1>12, <1>13 DEF IInv

LEMMA StepReplace ==
    ASSUME IInv, NEW i \in Installers, Replace(i)
    PROVE  IInv'
<1>1. /\ installers' \in [Installers -> InstallerState] /\ Unmoved(i)
      /\ installers'[i].pc = "renaming" /\ installers'[i].build = installers[i].build
      /\ installers'[i].alone = installers[i].alone
  BY Moved DEF IInv, TypeOK, Replace, Pc
<1>2. TypeOK'
  BY <1>1 DEF IInv, TypeOK, Replace, table, notes, Rows
<1>3. Shaped'
  BY <1>1 DEF IInv, Shaped, Replace, Unmoved, At, New, Pc
<1>4. Changes(i)
  BY DEF Replace, At, Changes, Changing, Pc
<1>5. Lone'
  <2>1. raced' = raced /\ settled' = settled
    BY DEF Replace, notes
  <2> QED
    BY <1>1, <1>4, <2>1, LoneKept DEF IInv
<1>6. Progress'
  BY <1>1, <1>4, OthersPlaced DEF IInv, Placed
<1>7. Owned'
  BY <1>1 DEF IInv, Owned, Replace, Unmoved, At, New, table, notes, Rows
<1>8. Replaced(New(i))' /\ New(i)' = New(i) /\ \A b : Replaced(b) => Replaced(b)'
  BY <1>1 DEF Replaced, Replace, Unmoved, At, New, notes
<1>9. ReadersAreServed'
  BY <1>8 DEF IInv, ReadersAreServed, PointerServes, LastTwoServe, Replace, table, notes
<1>10. InstallEndsWell'
  BY <1>4, Unsettled DEF IInv, InstallEndsWell, Agreement, TwoBuildsKept, Replace, notes
<1> QED
  BY <1>2, <1>3, <1>5, <1>6, <1>7, <1>9, <1>10 DEF IInv

LEMMA StepRename ==
    ASSUME IInv, NEW i \in Installers, Rename(i)
    PROVE  IInv'
<1>1. /\ installers' \in [Installers -> InstallerState] /\ Unmoved(i)
      /\ installers'[i].pc = "activating" /\ installers'[i].build = installers[i].build
      /\ installers'[i].alone = installers[i].alone
  BY Moved DEF IInv, TypeOK, Rename, Pc
<1>2. Changes(i) /\ New(i) \in Build
  BY DEF IInv, Shaped, Rename, At, Changes, Changing, Pc
<1>3. TypeOK'
  BY <1>1, <1>2 DEF IInv, TypeOK, Rename, table, Rows
<1>4. Shaped'
  BY <1>1, <1>2 DEF IInv, Shaped, Unmoved, At, New
<1>5. Lone'
  <2>1. raced' = raced /\ settled' = settled
    BY DEF Rename
  <2> QED
    BY <1>1, <1>2, <2>1, LoneKept DEF IInv
<1>6. Progress'
  <2>1. Placed(i)'
    BY <1>1 DEF Placed, Rename, New
  <2> QED
    BY <1>1, <1>2, <2>1, OthersPlaced DEF IInv
<1>7. Owned'
  BY <1>1 DEF IInv, Owned, Rename, Unmoved, At, New, table, Rows
<1>8. \A b : Replaced(b) => Replaced(b)' \/ b = New(i)
  BY <1>1 DEF Replaced, Rename, Unmoved, At, New
<1>9. ReadersAreServed'
  BY <1>8 DEF IInv, ReadersAreServed, PointerServes, LastTwoServe, Rename, table
<1>10. InstallEndsWell'
  BY <1>2, Unsettled DEF IInv, InstallEndsWell, Agreement, TwoBuildsKept, Rename
<1> QED
  BY <1>3, <1>4, <1>5, <1>6, <1>7, <1>9, <1>10 DEF IInv

LEMMA StepActivate ==
    ASSUME IInv, NEW i \in Installers, Activate(i)
    PROVE  IInv'
<1>1. /\ installers' \in [Installers -> InstallerState] /\ Unmoved(i)
      /\ installers'[i].pc = "pointing" /\ installers'[i].build = installers[i].build
      /\ installers'[i].alone = installers[i].alone
  BY Moved DEF IInv, TypeOK, Activate, Pc
<1>2. Changes(i) /\ New(i) \in Build /\ At(i, "activating")
  BY DEF IInv, Shaped, Activate, At, Changes, Changing, Pc
<1>3. /\ recent' \in Seq(Build) /\ IsInjective(recent')
      /\ Range(recent') = Range(recent) \cup {New(i)}
      /\ recent' # <<>> /\ recent'[1] = New(i)
      /\ 2 \in DOMAIN recent' => \E m \in 1..2 \cap DOMAIN recent : recent'[2] = recent[m]
  BY <1>2, PromotedIs DEF IInv, TypeOK, Activate
<1>4. TypeOK'
  BY <1>1, <1>2, <1>3 DEF IInv, TypeOK, Activate, Rows
<1>5. Shaped'
  BY <1>1, <1>2 DEF IInv, Shaped, Unmoved, At, New
<1>6. Lone'
  <2>1. raced' = raced /\ settled' = settled
    BY DEF Activate
  <2> QED
    BY <1>1, <1>2, <2>1, LoneKept DEF IInv
<1>7. installers[i].alone => New(i) \in files
  BY <1>2 DEF IInv, Progress, Placed, At
<1>8. Progress'
  <2>1. Placed(i)'
    BY <1>1, <1>3, <1>7 DEF Placed, Activate, New
  <2> QED
    BY <1>1, <1>2, <2>1, OthersPlaced DEF IInv
<1>9. Owned'
  <2> SUFFICES ASSUME NEW b \in files,
                      b \notin Range(recent) \cup {New(i)}, b \notin orphans \ {New(i)}
               PROVE  \E j \in Installers : installers'[j].pc = "activating" /\ installers'[j].build = b
    BY <1>3 DEF Owned, Activate, Rows, At, New
  <2>1. PICK j \in Installers : installers[j].pc = "activating" /\ installers[j].build = b
    BY DEF IInv, Owned, At, New, Rows
  <2>2. j # i
    BY <2>1 DEF New
  <2> QED
    BY <1>1, <2>1, <2>2 DEF Unmoved
<1>10. \A b : Replaced(b) => Replaced(b)'
  BY <1>1, <1>2 DEF Replaced, Activate, Unmoved, At, New
<1>11. PointerServes'
  BY <1>10 DEF IInv, ReadersAreServed, PointerServes, Activate
<1>12. LastTwoServe'
  <2> DEFINE Away(b) == \/ b \in torn'
                        \/ \E j \in Installers : /\ installers'[j].pc = "renaming"
                                                 /\ installers'[j].build = b
  <2> SUFFICES ASSUME ~raced, NEW n \in 1..2, n \in DOMAIN recent'
               PROVE  recent'[n] \in files \/ Away(recent'[n])
    BY DEF LastTwoServe, Activate, Replaced, At, New
  <2>1. New(i) \in files
    BY <1>2, <1>7, Unsettled DEF IInv
  <2>2. CASE n = 1
    BY <1>3, <2>1, <2>2
  <2>3. CASE n = 2
    <3>1. PICK m \in 1..2 \cap DOMAIN recent : recent'[2] = recent[m]
      BY <1>3, <2>3
    <3>2. recent[m] \in files \/ Replaced(recent[m])
      BY DEF IInv, ReadersAreServed, LastTwoServe
    <3>3. Replaced(recent[m]) => Away(recent[m])
      BY <1>1, <1>2 DEF Replaced, Activate, Unmoved, At, New
    <3> HIDE DEF Away
    <3> QED
      BY <2>3, <3>1, <3>2, <3>3
  <2> QED
    BY <2>2, <2>3
<1>13. InstallEndsWell'
  BY <1>2, Unsettled DEF IInv, InstallEndsWell, Agreement, TwoBuildsKept, Activate
<1> QED
  BY <1>4, <1>5, <1>6, <1>8, <1>9, <1>11, <1>12, <1>13 DEF IInv, ReadersAreServed

LEMMA StepPoint ==
    ASSUME IInv, NEW i \in Installers, Point(i)
    PROVE  IInv'
<1>1. /\ installers' \in [Installers -> InstallerState] /\ Unmoved(i)
      /\ installers'[i].pc = "listing" /\ installers'[i].build = installers[i].build
      /\ installers'[i].alone = installers[i].alone
  BY Moved DEF IInv, TypeOK, Point, Pc
<1>2. Changes(i) /\ New(i) \in Build /\ At(i, "pointing")
  BY DEF IInv, Shaped, Point, At, Changes, Changing, Pc
<1>3. TypeOK'
  BY <1>1, <1>2 DEF IInv, TypeOK, Point, table, notes, Rows
<1>4. Shaped'
  BY <1>1, <1>2 DEF IInv, Shaped, Unmoved, At, New
<1>5. Lone'
  <2>1. raced' = raced /\ settled' = settled
    BY DEF Point, notes
  <2> QED
    BY <1>1, <1>2, <2>1, LoneKept DEF IInv
<1>6. installers[i].alone =>
        New(i) \in files /\ recent # <<>> /\ recent[1] = New(i) /\ active = New(i)
  BY <1>2 DEF IInv, Progress, Placed, At
<1>7. Progress'
  <2>1. Placed(i)'
    BY <1>1, <1>6 DEF Placed, Point, New, table
  <2> QED
    BY <1>1, <1>2, <2>1, OthersPlaced DEF IInv
<1>8. Owned'
  BY <1>1, <1>2 DEF IInv, Owned, Point, Unmoved, At, New, table, notes, Rows
<1>9. \A b : Replaced(b) => Replaced(b)'
  BY <1>1, <1>2 DEF Replaced, Point, Unmoved, At, New, notes
<1>10. PointerServes'
  <2>1. ~raced => New(i) \in files
    BY <1>2, <1>6, Unsettled DEF IInv
  <2> QED
    BY <2>1 DEF PointerServes, Point, notes
<1>11. LastTwoServe'
  BY <1>9 DEF IInv, ReadersAreServed, LastTwoServe, Point, table, notes
<1>12. InstallEndsWell'
  BY <1>2, Unsettled DEF IInv, InstallEndsWell, Agreement, TwoBuildsKept, Point, notes
<1> QED
  BY <1>3, <1>4, <1>5, <1>7, <1>8, <1>10, <1>11, <1>12 DEF IInv, ReadersAreServed

\* What #retainTwoBuilds deletes: from the third on.
LEMMA FromThird ==
    ASSUME NEW r \in Seq(Build)
    PROVE  LET q == SubSeq(r, 3, Len(r)) IN
           /\ q \in Seq(Build)
           /\ Len(q) = IF 3 <= Len(r) THEN Len(r) - 2 ELSE 0
           /\ \A n \in 1..(Len(r) - 2) : q[n] = r[n + 2]
<1> DEFINE m == 3
           n == Len(r)
           q == SubSeq(r, 3, Len(r))
<1>1. n \in Nat /\ DOMAIN r = 1..n
  BY DomainIs
<1>2. \A k \in 1..n : r[k] \in Build
  BY ElementOfSeq
<1>3. m \in Int /\ n \in Int /\ \A k \in m..n : r[k] \in Build
  BY <1>1, <1>2
<1> HIDE DEF m, n
<1>4. /\ SubSeq(r, m, n) \in Seq(Build)
      /\ Len(SubSeq(r, m, n)) = IF m <= n THEN n - m + 1 ELSE 0
      /\ \A k \in 1..(n - m + 1) : SubSeq(r, m, n)[k] = r[m + k - 1]
  BY <1>3, SubSeqProperties
<1>5. m = 3 /\ q = SubSeq(r, m, n)
  BY DEF m, n
<1> HIDE DEF q
<1>6. q \in Seq(Build) /\ Len(q) = IF 3 <= n THEN n - 2 ELSE 0
  <2>1. CASE m <= n
    BY <1>1, <1>4, <1>5, <2>1
  <2>2. CASE ~(m <= n)
    BY <1>1, <1>4, <1>5, <2>2
  <2> QED
    BY <2>1, <2>2
<1>7. ASSUME NEW k \in 1..(n - 2)
      PROVE  q[k] = r[k + 2]
  <2>1. k \in 1..(n - m + 1) /\ m + k - 1 = k + 2
    BY <1>1, <1>5
  <2> QED
    BY <1>4, <1>5, <2>1
<1> QED
  BY <1>6, <1>7 DEF n, q

LEMMA SurplusIs ==
    ASSUME recent \in Seq(Build)
    PROVE  /\ Surplus \in Seq(Build)
           /\ Len(Surplus) = IF 3 <= Len(recent) THEN Len(recent) - 2 ELSE 0
           /\ \A n \in 1..(Len(recent) - 2) : Surplus[n] = recent[n + 2]
BY FromThird DEF Surplus

LEMMA StepList ==
    ASSUME IInv, NEW i \in Installers, List(i)
    PROVE  IInv'
<1>1. /\ installers' \in [Installers -> InstallerState] /\ Unmoved(i)
      /\ installers'[i].pc = "unlinking" /\ installers'[i].build = installers[i].build
      /\ installers'[i].alone = installers[i].alone
      /\ installers'[i].surplus = Surplus
  <2>1. installers' = [installers EXCEPT ![i] =
                         [@ EXCEPT !.pc = "unlinking", !.surplus = Surplus]]
    BY DEF List
  <2>2. installers[i] \in InstallerState /\ Surplus \in Seq(Build)
    BY SurplusIs DEF IInv, TypeOK
  <2>3. [installers[i] EXCEPT !.pc = "unlinking", !.surplus = Surplus] \in InstallerState
    BY <2>2 DEF InstallerState, Pc
  <2> QED
    BY <2>1, <2>2, <2>3 DEF IInv, TypeOK, Unmoved, InstallerState
<1>2. Changes(i) /\ New(i) \in Build /\ At(i, "listing")
  BY DEF IInv, Shaped, List, At, Changes, Changing, Pc
<1>3. TypeOK'
  BY <1>1, <1>2 DEF IInv, TypeOK, List, table, notes, Rows
<1>4. Shaped'
  BY <1>1, <1>2 DEF IInv, Shaped, Unmoved, At, New
<1>5. Lone'
  <2>1. raced' = raced /\ settled' = settled
    BY DEF List, notes
  <2> QED
    BY <1>1, <1>2, <2>1, LoneKept DEF IInv
<1>6. Progress'
  <2>1. Placed(i)'
    BY <1>1, <1>2 DEF IInv, Progress, Placed, List, At, New, Surplus, table
  <2> QED
    BY <1>1, <1>2, <2>1, OthersPlaced DEF IInv
<1>7. Owned'
  BY <1>1, <1>2 DEF IInv, Owned, List, Unmoved, At, New, table, notes, Rows
<1>8. \A b : Replaced(b) => Replaced(b)'
  BY <1>1, <1>2 DEF Replaced, List, Unmoved, At, New, notes
<1>9. ReadersAreServed'
  BY <1>8 DEF IInv, ReadersAreServed, PointerServes, LastTwoServe, List, table, notes
<1>10. InstallEndsWell'
  BY <1>2, Unsettled DEF IInv, InstallEndsWell, Agreement, TwoBuildsKept, List, notes
<1> QED
  BY <1>3, <1>4, <1>5, <1>6, <1>7, <1>9, <1>10 DEF IInv

\* The next build to delete is the third; the first two are not it.
LEMMA NextSurplus ==
    ASSUME recent \in Seq(Build), IsInjective(recent),
           NEW q, q = Surplus, q # <<>>
    PROVE  /\ Len(recent) >= 3 /\ 3 \in 1..Len(recent) /\ Head(q) = recent[3]
           /\ \A n \in 1..2 : n \in DOMAIN recent /\ recent[n] # Head(q)
<1>1. /\ q \in Seq(Build) /\ Len(q) = IF 3 <= Len(recent) THEN Len(recent) - 2 ELSE 0
      /\ \A n \in 1..(Len(recent) - 2) : q[n] = recent[n + 2]
  BY SurplusIs
<1>2. Len(recent) \in Nat /\ DOMAIN recent = 1..Len(recent)
  BY DomainIs
<1>3. Len(q) >= 1 /\ Head(q) = q[1]
  BY <1>1, DomainIs, HeadTailProperties
<1>4. Len(recent) >= 3
  <2>1. CASE 3 <= Len(recent)
    BY <1>2, <2>1
  <2>2. CASE ~(3 <= Len(recent))
    BY <1>1, <1>3, <2>2
  <2> QED
    BY <2>1, <2>2
<1>5. 1 \in 1..(Len(recent) - 2) /\ 1 + 2 = 3
  BY <1>2, <1>4
<1>6. Head(q) = recent[3]
  BY <1>1, <1>3, <1>5
<1>7. 1 \in DOMAIN recent /\ 2 \in DOMAIN recent /\ 3 \in DOMAIN recent
  BY <1>2, <1>4
<1> QED
  BY <1>2, <1>4, <1>6, <1>7 DEF IsInjective

LEMMA StepUnlink ==
    ASSUME IInv, NEW i \in Installers, Unlink(i)
    PROVE  IInv'
<1> DEFINE b == Head(installers[i].surplus)
<1>1. /\ installers' \in [Installers -> InstallerState] /\ Unmoved(i)
      /\ installers'[i].pc = "deleting" /\ installers'[i].build = installers[i].build
      /\ installers'[i].surplus = installers[i].surplus
      /\ installers'[i].alone = installers[i].alone
  BY Moved DEF IInv, TypeOK, Unlink, Pc
<1>2. /\ Changes(i) /\ New(i) \in Build /\ At(i, "unlinking")
      /\ installers[i].surplus # <<>>
  BY DEF IInv, Shaped, Unlink, At, Changes, Changing, Pc
<1>3. TypeOK'
  BY <1>1, <1>2 DEF IInv, TypeOK, Unlink, table, notes, Rows
<1>4. Shaped'
  BY <1>1, <1>2 DEF IInv, Shaped, Unmoved, At, New
<1>5. Lone'
  <2>1. raced' = raced /\ settled' = settled
    BY DEF Unlink, notes
  <2> QED
    BY <1>1, <1>2, <2>1, LoneKept DEF IInv
<1>6. installers[i].alone =>
        /\ New(i) \in files /\ recent # <<>> /\ recent[1] = New(i)
        /\ active = New(i) /\ pointer = New(i) /\ installers[i].surplus = Surplus
  BY <1>2 DEF IInv, Progress, Placed, At, Surplus
<1>7. installers[i].alone =>
        \A n \in 1..2 : n \in DOMAIN recent /\ recent[n] # b
  BY <1>2, <1>6, NextSurplus DEF IInv, TypeOK
<1>8. files \ {b} \subseteq files' /\ files' \subseteq files
  BY DEF Unlink
<1>9. Progress'
  <2>1. installers[i].alone => New(i) \in files'
    BY <1>6, <1>7, <1>8
  <2>2. Placed(i)'
    BY <1>1, <1>6, <2>1 DEF Placed, Unlink, New, Surplus, table
  <2> QED
    BY <1>1, <1>2, <2>2, OthersPlaced DEF IInv
<1>10. Owned'
  BY <1>1, <1>2, <1>8 DEF IInv, Owned, Unlink, Unmoved, At, New, table, notes, Rows
<1>11. \A c : Replaced(c) => Replaced(c)'
  BY <1>1, <1>2 DEF Replaced, Unlink, Unmoved, At, New, notes
<1>12. ~raced => pointer = recent[1] /\ \A n \in 1..2 : n \in DOMAIN recent /\ recent[n] # b
  BY <1>2, <1>6, <1>7, Unsettled DEF IInv
<1>13. ReadersAreServed'
  BY <1>8, <1>11, <1>12 DEF IInv, ReadersAreServed, PointerServes, LastTwoServe, Unlink, table, notes
<1>14. InstallEndsWell'
  BY <1>2, Unsettled DEF IInv, InstallEndsWell, Agreement, TwoBuildsKept, Unlink, notes
<1> QED
  BY <1>3, <1>4, <1>5, <1>9, <1>10, <1>13, <1>14 DEF IInv

LEMMA StepDeleteRow ==
    ASSUME IInv, NEW i \in Installers, DeleteRow(i)
    PROVE  IInv'
<1> DEFINE q == installers[i].surplus
           b == Head(q)
<1>1. /\ Changes(i) /\ New(i) \in Build /\ At(i, "deleting") /\ q # <<>>
      /\ q \in Seq(Build)
  BY DEF IInv, TypeOK, InstallerState, Shaped, DeleteRow, At, Changes, Changing, Pc
<1>2. /\ b \in Build /\ Tail(q) \in Seq(Build) /\ Len(q) \in Nat /\ Len(q) >= 1
      /\ Len(Tail(q)) = Len(q) - 1
      /\ \A k \in 1..Len(Tail(q)) : Tail(q)[k] = q[k + 1]
  BY <1>1, DomainIs, HeadTailProperties
<1>3. /\ installers' \in [Installers -> InstallerState] /\ Unmoved(i)
      /\ installers'[i].pc = "unlinking" /\ installers'[i].build = installers[i].build
      /\ installers'[i].surplus = Tail(q)
      /\ installers'[i].alone = installers[i].alone
  <2>1. installers' = [installers EXCEPT ![i] =
                         [@ EXCEPT !.pc = "unlinking", !.surplus = Tail(q)]]
    BY DEF DeleteRow
  <2>2. installers[i] \in InstallerState
    BY DEF IInv, TypeOK
  <2>3. [installers[i] EXCEPT !.pc = "unlinking", !.surplus = Tail(q)] \in InstallerState
    BY <1>2, <2>2 DEF InstallerState, Pc
  <2> QED
    BY <2>1, <2>2, <2>3 DEF IInv, TypeOK, Unmoved, InstallerState
<1>4. recent' = RemoveFirst(recent, b) /\ recent \in Seq(Build) /\ IsInjective(recent)
  BY DEF IInv, TypeOK, DeleteRow
<1>5. recent' \in Seq(Build) /\ IsInjective(recent') /\ Range(recent') = Range(recent) \ {b}
  BY <1>4, RemovedRange
<1>6. installers[i].alone =>
        /\ New(i) \in files /\ recent # <<>> /\ recent[1] = New(i)
        /\ active = New(i) /\ pointer = New(i) /\ q = Surplus
  BY <1>1 DEF IInv, Progress, Placed, At, Surplus
<1>7. ASSUME installers[i].alone
      PROVE  /\ Len(recent) >= 3 /\ b = recent[3]
             /\ \A n \in 1..2 : n \in DOMAIN recent /\ recent[n] # b
             /\ Len(recent') = Len(recent) - 1
             /\ recent'[1] = recent[1] /\ recent'[2] = recent[2]
             /\ \A j \in 3..(Len(recent) - 1) : recent'[j] = recent[j + 1]
  <2>1. /\ Len(recent) >= 3 /\ 3 \in 1..Len(recent) /\ b = recent[3]
        /\ \A n \in 1..2 : n \in DOMAIN recent /\ recent[n] # b
    BY <1>1, <1>4, <1>6, <1>7, NextSurplus
  <2>2. /\ Len(recent') = Len(recent) - 1
        /\ \A j \in 1..(3 - 1) : recent'[j] = recent[j]
        /\ \A j \in 3..(Len(recent) - 1) : recent'[j] = recent[j + 1]
    <3>1. recent' = RemoveFirst(recent, recent[3])
      BY <1>4, <2>1
    <3>2. Len(recent) \in Nat /\ recent \in Seq(Build) /\ IsInjective(recent)
      BY <1>4, DomainIs
    <3> QED
      BY <2>1, <3>1, <3>2, ThirdRemoved
  <2>3. 1 \in 1..(3 - 1) /\ 2 \in 1..(3 - 1)
    OBVIOUS
  <2> QED
    BY <2>1, <2>2, <2>3
<1>8. ASSUME installers[i].alone
      PROVE  Tail(q) = Surplus'
  <2> DEFINE n == Len(recent)
  <2>1. n \in Nat /\ n >= 3 /\ Len(recent') = n - 1
    BY <1>4, <1>7, <1>8, DomainIs
  <2>2. /\ Len(q) = n - 2 /\ \A k \in 1..(n - 2) : q[k] = recent[k + 2]
    BY <1>4, <1>6, <1>8, <2>1, SurplusIs
  <2>3. /\ Surplus' \in Seq(Build)
        /\ Len(Surplus') = IF 3 <= Len(recent') THEN Len(recent') - 2 ELSE 0
        /\ \A k \in 1..(Len(recent') - 2) : Surplus'[k] = recent'[k + 2]
    BY <1>5, FromThird DEF Surplus
  <2> HIDE DEF n, q
  <2>4. Len(Surplus') = n - 3 /\ Len(Tail(q)) = n - 3
    BY <1>2, <2>1, <2>2, <2>3
  <2>5. ASSUME NEW k \in 1..(n - 3)
        PROVE  Tail(q)[k] = Surplus'[k]
    <3>1. /\ k \in 1..Len(Tail(q)) /\ k + 1 \in 1..(n - 2) /\ (k + 1) + 2 = k + 3
          /\ k \in 1..(Len(recent') - 2) /\ k + 2 \in 3..(n - 1) /\ (k + 2) + 1 = k + 3
      BY <2>1, <2>4
    <3>2. Tail(q)[k] = recent[k + 3]
      BY <1>2, <2>2, <3>1
    <3>3. Surplus'[k] = recent[k + 3]
      BY <1>7, <1>8, <2>3, <3>1 DEF n
    <3> QED
      BY <3>2, <3>3
  <2> QED
    BY <1>2, <2>3, <2>4, <2>5, SeqEqual
<1>9. TypeOK'
  BY <1>2, <1>3, <1>5 DEF IInv, TypeOK, DeleteRow, Rows
<1>10. Shaped'
  BY <1>1, <1>3 DEF IInv, Shaped, Unmoved, At, New
<1>11. Lone'
  <2>1. raced' = raced /\ settled' = settled
    BY DEF DeleteRow
  <2> QED
    BY <1>1, <1>3, <2>1, LoneKept DEF IInv
<1>12. Progress'
  <2>1. installers[i].alone => recent' # <<>> /\ recent'[1] = New(i) /\ active' = New(i)
    BY <1>4, <1>5, <1>6, <1>7, DomainIs DEF DeleteRow
  <2>2. Placed(i)'
    BY <1>3, <1>6, <1>8, <2>1 DEF Placed, DeleteRow, New, Surplus
  <2> QED
    BY <1>1, <1>3, <2>2, OthersPlaced DEF IInv
<1>13. Owned'
  BY <1>1, <1>3, <1>5 DEF IInv, Owned, DeleteRow, Unmoved, At, New, Rows
<1>14. \A c : Replaced(c) => Replaced(c)'
  BY <1>1, <1>3 DEF Replaced, DeleteRow, Unmoved, At, New
<1>15. PointerServes'
  BY <1>14 DEF IInv, ReadersAreServed, PointerServes, DeleteRow
<1>16. LastTwoServe'
  <2>1. ~raced => \A n \in 1..2 : n \in DOMAIN recent /\ recent'[n] = recent[n]
    BY <1>1, <1>7, Unsettled DEF IInv
  <2> DEFINE Away(c) == \/ c \in torn
                        \/ \E j \in Installers : /\ installers'[j].pc = "renaming"
                                                 /\ installers'[j].build = c
  <2> SUFFICES ASSUME ~raced, NEW n \in 1..2
               PROVE  recent'[n] \in files \/ Away(recent'[n])
    BY DEF LastTwoServe, DeleteRow, Replaced, At, New
  <2>2. recent'[n] = recent[n] /\ (recent[n] \in files \/ Replaced(recent[n]))
    BY <2>1 DEF IInv, ReadersAreServed, LastTwoServe
  <2>3. Replaced(recent[n]) => Away(recent[n])
    BY <1>1, <1>3 DEF Replaced, DeleteRow, Unmoved, At, New
  <2> HIDE DEF Away
  <2> QED
    BY <2>2, <2>3
<1>17. InstallEndsWell'
  BY <1>1, Unsettled DEF IInv, InstallEndsWell, Agreement, TwoBuildsKept, DeleteRow
<1> QED
  BY <1>9, <1>10, <1>11, <1>12, <1>13, <1>15, <1>16, <1>17 DEF IInv, ReadersAreServed

LEMMA StepDone ==
    ASSUME IInv, NEW i \in Installers, Done(i)
    PROVE  IInv'
<1>1. /\ installers' \in [Installers -> InstallerState] /\ Unmoved(i)
      /\ installers'[i].pc = "idle"
  BY Left DEF IInv, TypeOK, Done
<1>2. /\ Changes(i) /\ ~Changes(i)' /\ At(i, "unlinking")
      /\ installers[i].surplus = <<>> /\ installers[i].alone \in BOOLEAN
  BY <1>1 DEF IInv, TypeOK, InstallerState, Done, At, Changes, Changing, Pc
<1>3. TypeOK'
  BY <1>1, <1>2 DEF IInv, TypeOK, Done, table, Rows
<1>4. Shaped'
  BY <1>1 DEF IInv, Shaped, Unmoved, At, New
<1>5. settled' => Others(i) = {} /\ installers[i].alone
  BY <1>2 DEF IInv, Lone, Done
<1>6. Lone'
  <2>1. raced' = raced
    BY DEF Done
  <2> QED
    BY <1>1, <1>2, <1>5, <2>1, LoneKept DEF IInv
<1>7. Progress'
  <2>1. Placed(i)'
    BY <1>1 DEF Placed
  <2> QED
    BY <1>1, <1>2, <2>1, OthersPlaced DEF IInv
<1>8. Owned'
  BY <1>1, <1>2 DEF IInv, Owned, Done, Unmoved, At, New, table, Rows
<1>9. \A b : Replaced(b) => Replaced(b)'
  BY <1>1, <1>2 DEF Replaced, Done, Unmoved, At, New
<1>10. ReadersAreServed'
  BY <1>9 DEF IInv, ReadersAreServed, PointerServes, LastTwoServe, Done, table
<1>11. InstallEndsWell'
  <2> SUFFICES ASSUME settled'
               PROVE  /\ active = pointer /\ (active # 0 => active \in files)
                      /\ Len(recent) <= 2 /\ files \subseteq Rows \cup orphans
    BY DEF InstallEndsWell, Agreement, TwoBuildsKept, Done, table, Rows
  <2>1. /\ New(i) \in files /\ active = New(i) /\ pointer = New(i)
        /\ installers[i].surplus = Surplus
    BY <1>2, <1>5 DEF IInv, Progress, Placed, At, Surplus
  <2>2. Len(recent) <= 2
    <3> DEFINE n == Len(recent)
               m == Len(Surplus)
    <3>1. m = 0 /\ n \in Nat /\ m = IF 3 <= n THEN n - 2 ELSE 0
      BY <1>2, <2>1, DomainIs, EmptySeq, SurplusIs DEF IInv, TypeOK
    <3> HIDE DEF n, m
    <3>2. n <= 2
      BY <3>1
    <3> QED
      BY <3>2 DEF n
  <2>3. \A j \in Installers : ~At(j, "activating")
    BY <1>2, <1>5 DEF Others, Changing, Pc, At
  <2> QED
    BY <2>1, <2>2, <2>3 DEF IInv, Owned
<1> QED
  BY <1>3, <1>4, <1>6, <1>7, <1>8, <1>10, <1>11 DEF IInv

LEMMA StepStop ==
    ASSUME IInv, NEW i \in Installers, Stop(i)
    PROVE  IInv'
<1>1. /\ installers' \in [Installers -> InstallerState] /\ Unmoved(i)
      /\ installers'[i].pc = "idle"
  BY Left DEF IInv, TypeOK, Stop
<1>2. ~Changes(i)'
  BY <1>1 DEF Changes, Changing
<1>3. Changes(i) => New(i) \in Build
  BY DEF IInv, Shaped, Changes, Changing, Pc
<1>4. TypeOK'
  <2>1. torn' \subseteq Build /\ orphans' \subseteq Build
    BY <1>3 DEF IInv, TypeOK, Stop, At, Changes, Changing, Pc
  <2>2. faults' \in 0..MaxFaults
    BY ParametersAssumption DEF IInv, TypeOK, Stop
  <2> QED
    BY <1>1, <2>1, <2>2 DEF IInv, TypeOK, Stop, table, Rows
<1>5. Shaped'
  BY <1>1 DEF IInv, Shaped, Unmoved, At, New
<1>6. CASE ~Changes(i)
  <2>1. torn' = torn /\ orphans' = orphans
    BY <1>6 DEF Stop, At, Changes, Changing, Pc
  <2> QED
    BY <1>1, <1>2, <1>4, <1>5, <1>6, <2>1, QuietStep DEF Stop, table
<1>7. CASE Changes(i)
  <2>1. Lone'
    <3>1. raced' = raced /\ settled' = settled
      BY DEF Stop
    <3> QED
      BY <1>1, <1>2, <3>1, LoneKept DEF IInv
  <2>2. Progress'
    <3>1. Placed(i)'
      BY <1>1 DEF Placed
    <3> QED
      BY <1>1, <1>7, <3>1, OthersPlaced DEF IInv
  <2>3. Owned'
    <3> SUFFICES ASSUME NEW b \in files, b \notin Rows, b \notin orphans'
                 PROVE  \E j \in Installers : installers'[j].pc = "activating" /\ installers'[j].build = b
      BY DEF Owned, Stop, table, Rows, At, New
    <3>1. orphans \subseteq orphans' /\ (At(i, "activating") => New(i) \in Rows \cup orphans')
      BY DEF Stop
    <3>2. PICK j \in Installers : At(j, "activating") /\ New(j) = b
      BY <3>1 DEF IInv, Owned
    <3>3. j # i
      BY <3>1, <3>2
    <3> QED
      BY <1>1, <3>2, <3>3 DEF Unmoved, At, New
  <2>4. \A b : Replaced(b) => Replaced(b)'
    <3> SUFFICES ASSUME NEW b, Replaced(b)
                 PROVE  b \in torn' \/ \E j \in Installers : At(j, "renaming")' /\ New(j)' = b
      BY DEF Replaced
    <3>1. torn \subseteq torn' /\ (At(i, "renaming") => New(i) \in torn')
      BY DEF Stop
    <3>2. CASE b \in torn
      BY <3>1, <3>2
    <3>3. ASSUME NEW j \in Installers, At(j, "renaming"), New(j) = b, j # i
          PROVE  At(j, "renaming")' /\ New(j)' = b
      BY <1>1, <3>3 DEF Unmoved, At, New
    <3> QED
      BY <3>1, <3>2, <3>3 DEF Replaced
  <2>5. ReadersAreServed'
    BY <2>4 DEF IInv, ReadersAreServed, PointerServes, LastTwoServe, Stop, table
  <2>6. InstallEndsWell'
    BY <1>7, Unsettled DEF IInv, InstallEndsWell, Agreement, TwoBuildsKept, Stop
  <2> QED
    BY <1>4, <1>5, <2>1, <2>2, <2>3, <2>5, <2>6 DEF IInv
<1> QED
  BY <1>6, <1>7

\* A step that leaves all but the metadata alone.
LEMMA StepPublish ==
    ASSUME IInv, latest' \in Build,
           UNCHANGED <<files, table, pointer, installers, notes>>
    PROVE  IInv'
<1> USE DEF table, notes
<1>1. TypeOK'
  BY DEF IInv, TypeOK, Rows
<1>2. Shaped' /\ Lone'
  BY DEF IInv, Shaped, Lone, Changes, Others, At, New
<1>3. Progress'
  BY DEF IInv, Progress, Placed, New
<1>4. Owned'
  BY DEF IInv, Owned, Rows, At, New
<1>5. ReadersAreServed'
  BY DEF IInv, ReadersAreServed, PointerServes, LastTwoServe, Replaced, At, New
<1>6. InstallEndsWell'
  BY DEF IInv, InstallEndsWell, Agreement, TwoBuildsKept, Rows
<1> QED
  BY <1>1, <1>2, <1>3, <1>4, <1>5, <1>6 DEF IInv

---------------------------------------------------------------------------
(* The invariant, and what follows from it *)

LEMMA InitIInv ==
    ASSUME Init
    PROVE  IInv
<1>1. PICK b \in {0, 1} :
        /\ files = {b} \ {0} /\ recent = IF b = 0 THEN <<>> ELSE <<b>>
        /\ active = b /\ pointer = b
  BY DEF Init
<1>2. 1 \in Build /\ MaxFaults \in Nat
  BY ParametersAssumption DEF Build
<1>3. /\ recent \in Seq(Build) /\ IsInjective(recent) /\ Range(recent) = {b} \ {0}
      /\ Len(recent) <= 2 /\ \A n \in DOMAIN recent : recent[n] = b /\ b = 1
  <2>1. CASE b = 0
    <3>1. recent = <<>>
      BY <1>1, <2>1
    <3> QED
      BY <2>1, <3>1 DEF IsInjective, Range
  <2>2. CASE b = 1
    <3>1. recent = <<1>>
      BY <1>1, <2>2
    <3>2. DOMAIN recent = {1} /\ recent[1] = 1 /\ Len(recent) = 1
      BY <3>1
    <3> QED
      BY <1>2, <2>2, <3>1, <3>2 DEF IsInjective, Range
  <2> QED
    BY <2>1, <2>2
<1>4. \A i \in Installers : installers[i] = Idle /\ installers[i].pc = "idle"
  BY IdleIs DEF Init
<1>5. TypeOK
  <2>1. latest \in Build /\ files \subseteq Build /\ pointer \in Build \cup {0}
    BY <1>1, <1>2 DEF Init
  <2>2. active \in Rows \cup {0} /\ obsolete \subseteq Rows
    BY <1>1, <1>3 DEF Init, Rows
  <2>3. installers \in [Installers -> InstallerState]
    BY IdleIs DEF Init
  <2>4. faults \in 0..MaxFaults
    BY <1>2 DEF Init
  <2>5. settled \in BOOLEAN /\ raced \in BOOLEAN /\ torn \subseteq Build /\ orphans \subseteq Build
    BY DEF Init
  <2> QED
    BY <1>3, <2>1, <2>2, <2>3, <2>4, <2>5 DEF TypeOK
<1>6. Shaped /\ Lone /\ Progress
  BY <1>4 DEF Init, Shaped, Lone, Progress, Placed, At, New, Changes, Changing
<1>7. Owned
  BY <1>1, <1>3 DEF Owned, Rows
<1>8. ReadersAreServed
  BY <1>1, <1>3 DEF ReadersAreServed, PointerServes, LastTwoServe
<1>9. InstallEndsWell
  BY <1>1, <1>3 DEF InstallEndsWell, Agreement, TwoBuildsKept, Rows
<1> QED
  BY <1>5, <1>6, <1>7, <1>8, <1>9 DEF IInv

LEMMA NextIInv ==
    ASSUME IInv, [Next]_vars
    PROVE  IInv'
<1>1. ASSUME NEW i \in Installers, Install(i)
      PROVE  IInv'
  BY <1>1, StepStart, StepAlreadyCurrent, StepImport, StepImported, StepReplace,
     StepRename, StepActivate, StepPoint, StepList, StepUnlink, StepDeleteRow,
     StepDone, StepStop DEF Install
<1>2. CASE Publish
  <2>1. latest' \in Build
    BY <1>2, ParametersAssumption DEF IInv, TypeOK, Build, Publish
  <2> QED
    BY <1>2, <2>1, StepPublish DEF Publish
<1>3. CASE UNCHANGED vars
  BY <1>3, StepPublish DEF vars, IInv, TypeOK
<1> QED
  BY <1>1, <1>2, <1>3 DEF Next

\* However many installs run, fail and interleave, the files, the rows and
\* the pointer stay as the invariant says.
THEOREM InductiveInvariant == Spec => []IInv
<1>1. Init => IInv
  BY InitIInv
<1>2. IInv /\ [Next]_vars => IInv'
  BY NextIInv
<1> QED
  BY <1>1, <1>2, PTL DEF Spec

\* Every variable keeps its type; no build ever has two rows.
THEOREM TypeCorrect == Spec => []TypeOK
<1>1. IInv => TypeOK
  BY DEF IInv
<1> QED
  BY <1>1, InductiveInvariant, PTL

\* While no two installs have met, no failed install takes the database from
\* under the readers, neither the one the pointer names nor the one before.
THEOREM ReadersAreAlwaysServed == Spec => []ReadersAreServed
<1>1. IInv => ReadersAreServed
  BY DEF IInv
<1> QED
  BY <1>1, InductiveInvariant, PTL

\* An install that runs alone to its end leaves row, pointer and file in
\* agreement and two builds at most, whatever earlier installs left behind.
THEOREM InstallsEndWell == Spec => []InstallEndsWell
<1>1. IInv => InstallEndsWell
  BY DEF IInv
<1> QED
  BY <1>1, InductiveInvariant, PTL

---------------------------------------------------------------------------
(* The resolution of requirements: RequirementClosure *)

\* The way down from the target: which rows every type on it has left, and
\* that nothing is missing of a type that is complete.
ClosurePath ==
    /\ phase = "visiting" => stack # <<>>
    /\ phase \in {"measuring", "ordering", "done"} => stack = <<>>
    /\ \A i \in DOMAIN stack :
         /\ visitState[stack[i].type] = "visiting"
         /\ stack[i].rows \subseteq RowsOf(stack[i].type)
         /\ RowsOf(stack[i].type) \ stack[i].rows \subseteq rawEdges
    /\ \A i, j \in DOMAIN stack : stack[i].type = stack[j].type => i = j
    /\ \A t \in Type : visitState[t] = "visiting" =>
         \E i \in DOMAIN stack : stack[i].type = t
    /\ \A t \in Type : visitState[t] = "complete" => RowsOf(t) \subseteq rawEdges

\* What the rows found so far are worth.
ClosureEvidence ==
    /\ \A e \in rawEdges :
         /\ Valid(e) /\ e.source # e.skill
         /\ visitState[e.source] # "new"
         /\ Follows(e) => visitState[e.skill] # "new"
    /\ visitState[Target] # "new"
    /\ \A t \in Type : visitState[t] # "new" => t \in Followed
    /\ Cardinality(rawEdges) <= MaxEdges /\ Cardinality(Nodes) <= MaxNodes
    /\ phase = "invalid" => \E e \in Relevant : ~Valid(e)

\* The places given so far: the counters are exact, and whoever has a place
\* has it after all that it requires itself.
ClosureOrder ==
    /\ phase \in {"visiting", "measuring"} => ordered = <<>>
    /\ ToSet(ordered) \subseteq Nodes
    /\ IsInjective(ordered)
    /\ \A i \in DOMAIN ordered : ordered[i] # Target =>
         \A c \in Children(ordered[i]) : \E k \in 1..(i - 1) : ordered[k] = c
    /\ phase = "ordering" =>
         /\ available \subseteq Nodes \ ToSet(ordered)
         /\ \A t \in Nodes \ {Target} :
              indegree[t] = Cardinality(Children(t) \ ToSet(ordered))
         /\ \A t \in available \ {Target} : Children(t) \subseteq ToSet(ordered)
    /\ phase = "done" => Len(ordered) = Cardinality(Nodes)

ClosureIInv == ClosureTypeOK /\ ClosurePath /\ ClosureEvidence /\ ClosureOrder

\* A resolution that succeeds has found exactly the rows of the types that the
\* target leads to, all valid, none from a skill to itself, and within both
\* limits; one refused as invalid has met such a row.
EvidenceIsExact ==
    /\ phase = "done" =>
         /\ rawEdges = Relevant
         /\ \A e \in Relevant : Valid(e) /\ e.source # e.skill
         /\ Cardinality(Relevant) <= MaxEdges
         /\ Cardinality(Skills(Relevant)) <= MaxNodes
    /\ phase = "invalid" => \E e \in Relevant : ~Valid(e)
---------------------------------------------------------------------------
(* Facts about the model's operators *)

\* What the end of a sequence and the rest of it are.
LEMMA LastAndFront ==
    ASSUME NEW S, NEW s \in Seq(S), s # <<>>
    PROVE  /\ Len(s) \in Nat \ {0} /\ DOMAIN s = 1..Len(s)
           /\ Last(s) = s[Len(s)] /\ Last(s) \in S
           /\ Front(s) \in Seq(S) /\ Len(Front(s)) = Len(s) - 1
           /\ \A i \in 1..(Len(s) - 1) : Front(s)[i] = s[i]
<1>1. Len(s) \in Nat \ {0} /\ DOMAIN s = 1..Len(s) /\ s \in [1..Len(s) -> S]
  BY EmptySeq, LenProperties
<1>2. \A i \in 1..(Len(s) - 1) : s[i] \in S
  BY <1>1
<1>3. /\ Front(s) \in Seq(S) /\ Len(Front(s)) = Len(s) - 1
      /\ \A i \in 1..(Len(s) - 1) : Front(s)[i] = s[i]
  BY <1>1, <1>2, SubSeqProperties DEF Front
<1> QED
  BY <1>1, <1>3 DEF Last

\* One and two are s with x in its last place, and two has y after it.
EndsWith(S, s, x, y, one, two) ==
    /\ one \in Seq(S) /\ DOMAIN one = 1..Len(s)
    /\ \A i \in 1..(Len(s) - 1) : one[i] = s[i]
    /\ one[Len(s)] = x
    /\ two \in Seq(S) /\ DOMAIN two = 1..(Len(s) + 1)
    /\ \A i \in 1..(Len(s) - 1) : two[i] = s[i]
    /\ two[Len(s)] = x /\ two[Len(s) + 1] = y

LEMMA EndReplaced ==
    ASSUME NEW S, NEW s \in Seq(S), s # <<>>, NEW x \in S, NEW y \in S,
           NEW one, one = Append(Front(s), x), NEW two, two = Append(one, y)
    PROVE  EndsWith(S, s, x, y, one, two)
<1> DEFINE f == Front(s)
<1>1. /\ Len(s) \in Nat \ {0} /\ f \in Seq(S) /\ Len(f) = Len(s) - 1
      /\ \A i \in 1..(Len(s) - 1) : f[i] = s[i]
  BY LastAndFront
<1> HIDE DEF f
<1>2. /\ one \in Seq(S) /\ Len(one) = Len(s)
      /\ \A i \in 1..(Len(s) - 1) : one[i] = s[i]
      /\ one[Len(s)] = x
  <2>1. one = Append(f, x)
    BY DEF f
  <2>2. /\ one \in Seq(S) /\ Len(one) = Len(f) + 1
        /\ \A i \in 1..Len(f) : one[i] = f[i]
        /\ one[Len(f) + 1] = x
    BY <1>1, <2>1, AppendProperties
  <2> QED
    BY <1>1, <2>2
<1>3. /\ two \in Seq(S) /\ Len(two) = Len(one) + 1
      /\ \A i \in 1..Len(one) : two[i] = one[i]
      /\ two[Len(one) + 1] = y
  BY <1>2, AppendProperties
<1>4. DOMAIN one = 1..Len(one) /\ DOMAIN two = 1..Len(two)
  BY <1>2, <1>3, LenProperties
<1> QED
  BY <1>1, <1>2, <1>3, <1>4 DEF EndsWith

\* Types are finitely many, and so are rows.
LEMMA FinitelyMany ==
    /\ IsFiniteSet(Type)
    /\ \A S \in SUBSET Type : IsFiniteSet(S) /\ Cardinality(S) \in Nat
<1>1. IsFiniteSet(Type)
  BY FS_Interval, ClosureAssumption DEF Type
<1> QED
  BY <1>1, FS_Subset, FS_CardinalityType

\* Rows are finitely many.
LEMMA RowsFinite ==
    /\ IsFiniteSet(Edge)
    /\ \A S \in SUBSET Edge : IsFiniteSet(S) /\ Cardinality(S) \in Nat
<1> DEFINE Levels == 0..6
           Pairs  == Type \X Type
           f      == [e \in Edge |-> <<<<e.source, e.skill>>, e.level>>]
<1>1. IsFiniteSet(Pairs \X Levels)
  <2>1. IsFiniteSet(0..6)
    BY FS_Interval, 0 \in Int, 6 \in Int, Zenon
  <2>2. IsFiniteSet(Pairs)
    BY FinitelyMany, FS_Product
  <2> QED
    BY <2>1, <2>2, FS_Product
<1>2. f \in Injection(Edge, Pairs \X Levels)
  BY DEF Edge, Injection, IsInjective
<1>3. IsFiniteSet(Edge)
  BY <1>1, <1>2, FS_Injection
<1> QED
  BY <1>3, FS_Subset, FS_CardinalityType

\* The target is followed, and so is what a followed type requires.
LEMMA FollowedOnward ==
    /\ Target \in Followed
    /\ \A e \in graph : e \in Edge /\ e.source \in Followed /\ e.level \in 1..5
         => e.skill \in Followed
<1>1. Target \in Followed
  BY ClosureAssumption DEF Followed, Closed
<1>2. ASSUME NEW e \in graph, e \in Edge, e.source \in Followed, e.level \in 1..5
      PROVE  e.skill \in Followed
  <2>1. e.skill \in Requires(e.source)
    BY <1>2 DEF Requires
  <2>2. ASSUME NEW S \in SUBSET Type, Closed(S) PROVE e.skill \in S
    <3>1. e.source \in S
      BY <1>2, <2>2 DEF Followed
    <3> QED
      BY <2>1, <2>2, <3>1 DEF Closed
  <2>3. e.skill \in Type
    BY <1>2 DEF Edge
  <2> QED
    BY <2>2, <2>3 DEF Followed
<1> QED
  BY <1>1, <1>2

\* A set that has the target and is closed has all that is followed.
LEMMA FollowedIsLeast ==
    ASSUME NEW S \in SUBSET Type, Closed(S)
    PROVE  Followed \subseteq S
BY DEF Followed

\* The rows stay, and so does what they lead to.
LEMMA GraphStays ==
    ASSUME graph' = graph
    PROVE  /\ Followed' = Followed /\ Relevant' = Relevant
           /\ \A t : RowsOf(t)' = RowsOf(t)
<1>1. \A t : Requires(t)' = Requires(t)
  BY DEF Requires
<1>2. \A S : Closed(S)' = Closed(S)
  BY <1>1 DEF Closed
<1>3. Followed' = Followed
  BY <1>2 DEF Followed
<1> QED
  BY <1>3 DEF Relevant, RowsOf

\* A skill whose last row was not the target's is found with the others.
LEMMA ChildrenAreNodes ==
    ASSUME ClosureTypeOK
    PROVE  /\ Nodes \in SUBSET Type
           /\ \A t : Children(t) \in SUBSET Type /\ Children(t) \subseteq Nodes
<1>1. \A e \in rawEdges : e \in Edge
  BY DEF ClosureTypeOK
<1>2. \A e \in rawEdges : e.skill \in Type
  BY <1>1 DEF Edge
<1> QED
  BY <1>2 DEF Nodes, Skills, Children

\* A set of numbers up to b has a least one: of the sets of smaller members a
\* least one is that of a member with none below it.
LEMMA LeastOf ==
    ASSUME NEW b \in Nat, NEW S \in SUBSET (0..b), S # {}
    PROVE  \E m \in S : \A y \in S : m <= y
<1> DEFINE Below(x) == {y \in S : y < x}
           T == {Below(x) : x \in S}
<1>1. IsFiniteSet(S)
  <2>1. IsFiniteSet(0..b)
    BY FS_Interval, 0 \in Int, b \in Int
  <2> QED
    BY <2>1, FS_Subset
<1>2. IsWellFoundedOn(StrictSubsetOrdering(S), FiniteSubsetsOf(S))
  BY FS_StrictSubsetOrderingWellFounded
<1>3. T \subseteq FiniteSubsetsOf(S) /\ T # {}
  <2>1. \A x \in S : Below(x) \in SUBSET S /\ IsFiniteSet(Below(x))
    BY <1>1, FS_Subset
  <2> QED BY <2>1 DEF FiniteSubsetsOf
<1>4. PICK A \in T : \A B \in T : ~ (<<B, A>> \in StrictSubsetOrdering(S))
  <2> HIDE DEF T
  <2> QED BY <1>2, <1>3, WFMin
<1>5. PICK m \in S : A = Below(m)
  BY <1>4
<1>6. \A y \in S : m <= y
  <2> SUFFICES ASSUME NEW y \in S, ~(m <= y) PROVE FALSE
    OBVIOUS
  <2>0. m \in Nat /\ y \in Nat /\ y < m
    OBVIOUS
  <2>1. Below(y) \in T
    OBVIOUS
  <2>2. Below(y) \subseteq A
    <3>1. \A z \in S : z < y => z < m
      BY <2>0
    <3> QED BY <1>5, <3>1
  <2>3. y \in A /\ y \notin Below(y)
    BY <1>5, <2>0
  <2>4. <<Below(y), A>> \in StrictSubsetOrdering(S)
    <3>1. Below(y) \in SUBSET S /\ A \in SUBSET S
      BY <1>5
    <3> HIDE DEF Below
    <3> QED
      BY <2>2, <2>3, <3>1 DEF StrictSubsetOrdering
  <2> QED BY <2>1, <2>4, <1>4
<1> QED
  BY <1>6

\* One of the types that are available is the first.
LEMMA FirstOf ==
    ASSUME NEW S \in SUBSET Type, S # {}
    PROVE  \E t \in S : \A s \in S : t <= s
<1>1. NumTypes \in Nat /\ S \subseteq 0..NumTypes
  BY ClosureAssumption DEF Type
<1> QED
  BY <1>1, LeastOf

---------------------------------------------------------------------------
(* The invariant at the start *)

\* Before any place is given there is nothing to show about them.
LEMMA NothingInPlace ==
    /\ ordered = <<>> /\ phase \notin {"ordering", "done"} => ClosureOrder
    /\ ordered' = <<>> /\ phase' \notin {"ordering", "done"} => ClosureOrder'
BY DEF ClosureOrder, ToSet, IsInjective

LEMMA ClosureAtStart == ClosureInit => ClosureIInv
<1> SUFFICES ASSUME ClosureInit PROVE ClosureIInv
  OBVIOUS
<1>1. graph \subseteq Edge /\ \A t : RowsOf(t) \subseteq graph
  BY ClosureAssumption DEF ClosureInit, RowsOf
<1>2. /\ stack \in Seq([type: Type, rows: SUBSET graph])
      /\ DOMAIN stack = 1..1 /\ stack # <<>>
      /\ stack[1].type = Target /\ stack[1].rows = RowsOf(Target)
  <2>1. [type |-> Target, rows |-> RowsOf(Target)] \in [type: Type, rows: SUBSET graph]
    BY <1>1, ClosureAssumption
  <2> QED
    BY <2>1 DEF ClosureInit
<1>3. ClosureTypeOK
  <2>1. visitState \in [Type -> {"new", "visiting", "complete"}]
    BY DEF ClosureInit
  <2>2. queue \in Seq(Type) /\ ordered \in Seq(Type)
    BY EmptySeq DEF ClosureInit
  <2>3. depths \in [Type -> Nat \cup {-1}] /\ indegree \in [Type -> Nat]
    BY DEF ClosureInit
  <2> QED
    BY <1>1, <1>2, <2>1, <2>2, <2>3 DEF ClosureTypeOK, ClosureInit
<1>4. ClosurePath
  <2>1. /\ visitState[Target] = "visiting"
        /\ \A t \in Type : visitState[t] # "new" => t = Target /\ visitState[t] = "visiting"
    BY ClosureAssumption DEF ClosureInit
  <2> QED
    BY <1>2, <2>1 DEF ClosurePath, ClosureInit
<1>5. ClosureEvidence
  <2>1. Cardinality(rawEdges) = 0 /\ Cardinality(Nodes) = 0
    BY FS_EmptySet DEF ClosureInit, Nodes, Skills
  <2>2. MaxEdges \in Nat /\ MaxNodes \in Nat
    BY ClosureAssumption
  <2>3. /\ visitState[Target] # "new"
        /\ \A t \in Type : visitState[t] # "new" => t \in Followed
    BY FollowedOnward, ClosureAssumption DEF ClosureInit
  <2> QED
    BY <2>1, <2>2, <2>3 DEF ClosureEvidence, ClosureInit
<1>6. ClosureOrder
  BY NothingInPlace DEF ClosureInit
<1> QED
  BY <1>3, <1>4, <1>5, <1>6 DEF ClosureIInv

---------------------------------------------------------------------------
(* One step of each kind *)

\* What a row at hand is, and what its type has besides it.
LEMMA TopOfPath ==
    ASSUME ClosureIInv, phase = "visiting"
    PROVE  /\ Len(stack) \in Nat \ {0} /\ DOMAIN stack = 1..Len(stack)
           /\ Top = stack[Len(stack)] /\ Top.type \in Type /\ Top.rows \subseteq graph
           /\ visitState[Top.type] = "visiting"
           /\ Top = [type |-> Top.type, rows |-> Top.rows]
           /\ Top.rows \subseteq RowsOf(Top.type)
           /\ RowsOf(Top.type) \ Top.rows \subseteq rawEdges
           /\ Popped \in Seq([type: Type, rows: SUBSET graph])
           /\ Len(Popped) = Len(stack) - 1
           /\ \A i \in 1..(Len(stack) - 1) : Popped[i] = stack[i]
<1>1. stack \in Seq([type: Type, rows: SUBSET graph]) /\ stack # <<>>
  BY DEF ClosureIInv, ClosureTypeOK, ClosurePath
<1>2. /\ Len(stack) \in Nat \ {0} /\ DOMAIN stack = 1..Len(stack)
      /\ Top = stack[Len(stack)] /\ Top \in [type: Type, rows: SUBSET graph]
      /\ Popped \in Seq([type: Type, rows: SUBSET graph])
      /\ Len(Popped) = Len(stack) - 1
      /\ \A i \in 1..(Len(stack) - 1) : Popped[i] = stack[i]
  BY <1>1, LastAndFront DEF Top, Popped
<1>3. Len(stack) \in DOMAIN stack
  BY <1>2
<1>4. /\ visitState[Top.type] = "visiting"
      /\ Top.rows \subseteq RowsOf(Top.type)
      /\ RowsOf(Top.type) \ Top.rows \subseteq rawEdges
  BY <1>2, <1>3 DEF ClosureIInv, ClosurePath
<1> QED
  BY <1>2, <1>4

\* A row that is refused ends the resolution; an invalid one matters.
LEMMA FollowRefused ==
    ASSUME ClosureIInv, phase = "visiting", NEW e \in Top.rows, ErrorOf(e) # "none",
           phase' = ErrorOf(e),
           UNCHANGED <<stack, visitState, rawEdges, graph, measures, order>>
    PROVE  ClosureIInv'
<1>1. phase' \in Errors
  BY DEF ErrorOf, Errors
<1>2. ClosureTypeOK'
  BY <1>1 DEF ClosureIInv, ClosureTypeOK, measures, order
<1>3. /\ Followed' = Followed /\ Relevant' = Relevant
      /\ \A t : RowsOf(t)' = RowsOf(t) /\ Children(t)' = Children(t)
      /\ Nodes' = Nodes
  BY GraphStays DEF Children, Nodes
<1>4. ClosurePath'
  BY <1>1, <1>3, Zenon DEF ClosureIInv, ClosurePath, Errors
<1>5. ASSUME phase' = "invalid" PROVE \E f \in Relevant : ~Valid(f)
  <2>1. ~Valid(e)
    BY <1>5 DEF ErrorOf
  <2>2. e \in RowsOf(Top.type) /\ visitState[Top.type] # "new" /\ Top.type \in Type
    BY TopOfPath
  <2>3. e \in graph /\ e.source \in Followed
    BY <2>2 DEF ClosureIInv, ClosureEvidence, RowsOf
  <2> QED
    BY <2>1, <2>3 DEF Relevant
<1>6. ClosureEvidence'
  BY <1>3, <1>5 DEF ClosureIInv, ClosureEvidence, Valid, Follows
<1>7. ClosureOrder'
  BY <1>1, <1>3 DEF ClosureIInv, ClosureOrder, order, Errors
<1> QED
  BY <1>2, <1>4, <1>6, <1>7 DEF ClosureIInv

\* A skill that is met for the first time.
Met(e) == Follows(e) /\ visitState[e.skill] = "new"

\* Row e is taken; a skill met for the first time is the new end of the way.
Taken(e) ==
    /\ phase = "visiting" /\ e \in Top.rows /\ ErrorOf(e) = "none"
    /\ rawEdges' = rawEdges \cup {e}
    /\ Met(e) =>
         /\ stack' = Append(Append(Popped, [Top EXCEPT !.rows = @ \ {e}]),
                            [type |-> e.skill, rows |-> RowsOf(e.skill)])
         /\ visitState' = [visitState EXCEPT ![e.skill] = "visiting"]
    /\ ~Met(e) => /\ stack' = Append(Popped, [Top EXCEPT !.rows = @ \ {e}])
                  /\ UNCHANGED visitState
    /\ UNCHANGED <<phase, graph, measures, order>>

\* What such a row is, and what the way is with it.
LEMMA RowTaken ==
    ASSUME ClosureIInv, NEW e, Taken(e)
    PROVE  /\ e \in graph /\ e \in Edge /\ e.source = Top.type /\ e.source \in Type
           /\ e.skill \in Type /\ Valid(e) /\ e.source # e.skill
           /\ Cardinality(rawEdges \cup {e}) <= MaxEdges
           /\ Cardinality(Skills(rawEdges \cup {e})) <= MaxNodes
           /\ Follows(e) => visitState[e.skill] # "visiting"
           /\ Len(stack) \in Nat \ {0} /\ DOMAIN stack = 1..Len(stack)
           /\ Top = stack[Len(stack)]
           /\ stack' \in Seq([type: Type, rows: SUBSET graph])
           /\ Met(e) => DOMAIN stack' = 1..(Len(stack) + 1)
           /\ ~Met(e) => DOMAIN stack' = 1..Len(stack)
           /\ \A i \in 1..Len(stack) : stack'[i].type = stack[i].type
           /\ \A i \in 1..(Len(stack) - 1) : stack'[i].rows = stack[i].rows
           /\ stack'[Len(stack)].rows = Top.rows \ {e}
           /\ Met(e) => /\ stack'[Len(stack) + 1].type = e.skill
                        /\ stack'[Len(stack) + 1].rows = RowsOf(e.skill)
           /\ visitState' \in [Type -> {"new", "visiting", "complete"}]
           /\ \A t \in Type : t # e.skill => visitState'[t] = visitState[t]
           /\ Met(e) => visitState'[e.skill] = "visiting"
           /\ ~Met(e) => visitState'[e.skill] = visitState[e.skill]
<1> DEFINE n    == Len(stack)
           met  == Met(e)
           row  == [type: Type, rows: SUBSET graph]
           last == [type |-> Top.type, rows |-> Top.rows \ {e}]
           end  == [type |-> e.skill, rows |-> RowsOf(e.skill)]
<1>0. /\ phase = "visiting" /\ e \in Top.rows /\ ErrorOf(e) = "none"
      /\ met => /\ stack' = Append(Append(Popped, [Top EXCEPT !.rows = @ \ {e}]), end)
                /\ visitState' = [visitState EXCEPT ![e.skill] = "visiting"]
      /\ ~met => /\ stack' = Append(Popped, [Top EXCEPT !.rows = @ \ {e}])
                 /\ UNCHANGED visitState
  BY DEF Taken
<1>1. /\ e \in graph /\ e \in Edge /\ e.source = Top.type /\ e.source \in Type
      /\ e.skill \in Type /\ Valid(e) /\ e.source # e.skill
      /\ Cardinality(rawEdges \cup {e}) <= MaxEdges
      /\ Cardinality(Skills(rawEdges \cup {e})) <= MaxNodes
      /\ Follows(e) => visitState[e.skill] # "visiting"
  <2>1. e \in RowsOf(Top.type)
    BY <1>0, TopOfPath
  <2>2. e \in graph /\ e.source = Top.type /\ e \in Edge
    BY <2>1 DEF RowsOf, ClosureIInv, ClosureTypeOK
  <2>3. Valid(e) /\ e.source # e.skill
    BY <1>0 DEF ErrorOf
  <2>4. /\ Cardinality(rawEdges \cup {e}) <= MaxEdges
        /\ Cardinality(Skills(rawEdges \cup {e})) <= MaxNodes
        /\ Follows(e) => visitState[e.skill] # "visiting"
    <3>1. /\ ~(Cardinality(rawEdges \cup {e}) > MaxEdges)
          /\ ~(Cardinality(Skills(rawEdges \cup {e})) > MaxNodes)
          /\ Follows(e) => visitState[e.skill] # "visiting"
      BY <1>0, <2>3 DEF ErrorOf
    <3>2. Cardinality(rawEdges \cup {e}) \in Nat
      <4>1. IsFiniteSet(Edge)
        BY RowsFinite
      <4> QED
        BY <4>1, <2>2, FS_Subset, FS_CardinalityType DEF ClosureIInv, ClosureTypeOK
    <3>3. Cardinality(Skills(rawEdges \cup {e})) \in Nat
      <4>1. Skills(rawEdges \cup {e}) \in SUBSET Type
        BY <2>2 DEF ClosureIInv, ClosureTypeOK, Skills, Edge
      <4> QED
        BY <4>1, FinitelyMany
    <3> QED
      BY <3>1, <3>2, <3>3, ClosureAssumption
  <2>5. e.skill \in Type /\ e.source \in Type
    BY <2>2 DEF Edge
  <2> QED
    BY <2>2, <2>3, <2>4, <2>5
<1>2. [Top EXCEPT !.rows = @ \ {e}] = last
  <2>1. \A r \in [type: Type, rows: SUBSET graph], x \in SUBSET graph :
          [r EXCEPT !.rows = x] = [type |-> r.type, rows |-> x]
    BY SMT
  <2>2. Top \in [type: Type, rows: SUBSET graph] /\ Top.rows \ {e} \in SUBSET graph
    BY <1>0, TopOfPath
  <2> QED
    BY <2>1, <2>2, Zenon
<1>3. n \in Nat \ {0} /\ DOMAIN stack = 1..n /\ Top = stack[n]
  BY <1>0, TopOfPath
<1>4. last \in row /\ end \in row
  BY <1>0, <1>1, TopOfPath DEF RowsOf
<1>5. /\ met => /\ stack' \in Seq(row) /\ DOMAIN stack' = 1..(n + 1)
                /\ stack'[n + 1] = end
      /\ ~met => /\ stack' \in Seq(row) /\ DOMAIN stack' = 1..n
      /\ \A i \in 1..(n - 1) : stack'[i] = stack[i]
      /\ stack'[n] = last
  <2> DEFINE one == Append(Front(stack), last)
             two == Append(one, end)
  <2>1. stack \in Seq(row) /\ stack # <<>>
    BY <1>0 DEF ClosureIInv, ClosureTypeOK, ClosurePath
  <2>2. (met => stack' = two) /\ (~met => stack' = one)
    BY <1>0, <1>2 DEF Popped
  <2> HIDE DEF last, end, row, met
  <2>3. one = Append(Front(stack), last) /\ two = Append(one, end)
    OBVIOUS
  <2> HIDE DEF one, two
  <2>4. EndsWith(row, stack, last, end, one, two)
    BY <1>4, <2>1, <2>3, EndReplaced, Zenon
  <2> QED
    BY <2>2, <2>4 DEF EndsWith
<1>6. /\ \A i \in 1..n : stack'[i].type = stack[i].type
      /\ \A i \in 1..(n - 1) : stack'[i].rows = stack[i].rows
      /\ stack'[n].rows = Top.rows \ {e}
      /\ met => stack'[n + 1].type = e.skill /\ stack'[n + 1].rows = RowsOf(e.skill)
  BY <1>3, <1>5
<1>7. /\ visitState' \in [Type -> {"new", "visiting", "complete"}]
      /\ \A t \in Type : t # e.skill => visitState'[t] = visitState[t]
      /\ met => visitState'[e.skill] = "visiting"
      /\ ~met => visitState'[e.skill] = visitState[e.skill]
  BY <1>0, <1>1 DEF ClosureIInv, ClosureTypeOK
<1>8. stack' \in Seq(row)
  BY <1>5
<1> HIDE DEF last, end
<1> QED
  BY <1>1, <1>3, <1>5, <1>6, <1>7, <1>8

\* A row is taken; a skill met for the first time is the new end of the way.
LEMMA FollowTaken ==
    ASSUME ClosureIInv, NEW e, Taken(e)
    PROVE  ClosureIInv'
<1> DEFINE n   == Len(stack)
           met == Met(e)
<1>. /\ phase = "visiting" /\ e \in Top.rows /\ rawEdges' = rawEdges \cup {e}
     /\ UNCHANGED <<phase, graph, measures, order>>
  BY DEF Taken
<1>1. /\ e \in graph /\ e \in Edge /\ e.source = Top.type /\ e.source \in Type
      /\ e.skill \in Type /\ Valid(e) /\ e.source # e.skill
      /\ Cardinality(rawEdges \cup {e}) <= MaxEdges
      /\ Cardinality(Skills(rawEdges \cup {e})) <= MaxNodes
      /\ Follows(e) => visitState[e.skill] # "visiting"
  BY RowTaken
<1>3. n \in Nat \ {0} /\ DOMAIN stack = 1..n /\ Top = stack[n]
  BY RowTaken
<1>5. /\ stack' \in Seq([type: Type, rows: SUBSET graph])
      /\ met => DOMAIN stack' = 1..(n + 1)
      /\ ~met => DOMAIN stack' = 1..n
  BY RowTaken
<1>6. /\ \A i \in 1..n : stack'[i].type = stack[i].type
      /\ \A i \in 1..(n - 1) : stack'[i].rows = stack[i].rows
      /\ stack'[n].rows = Top.rows \ {e}
      /\ met => stack'[n + 1].type = e.skill /\ stack'[n + 1].rows = RowsOf(e.skill)
  BY RowTaken
<1>7. /\ visitState' \in [Type -> {"new", "visiting", "complete"}]
      /\ \A t \in Type : t # e.skill => visitState'[t] = visitState[t]
      /\ met => visitState'[e.skill] = "visiting"
      /\ ~met => visitState'[e.skill] = visitState[e.skill]
      /\ met => Follows(e) /\ visitState[e.skill] = "new"
  BY RowTaken DEF Met
<1>8. /\ Followed' = Followed /\ Relevant' = Relevant
      /\ \A t : RowsOf(t)' = RowsOf(t)
  BY GraphStays
<1>9. ClosureTypeOK'
  <2>1. stack' \in Seq([type: Type, rows: SUBSET graph'])
    BY <1>5
  <2>2. rawEdges' \subseteq graph'
    BY <1>1 DEF ClosureIInv, ClosureTypeOK
  <2> QED
    BY <1>7, <2>1, <2>2 DEF ClosureIInv, ClosureTypeOK, measures, order
<1>10. ClosurePath'
  <2>1. stack' # <<>>
    <3>1. n \in DOMAIN stack'
      BY <1>3, <1>5
    <3> QED
      BY <3>1
  <2>2. ASSUME NEW i \in DOMAIN stack'
        PROVE  /\ visitState'[stack'[i].type] = "visiting"
               /\ stack'[i].rows \subseteq RowsOf(stack'[i].type)
               /\ RowsOf(stack'[i].type) \ stack'[i].rows \subseteq rawEdges'
    <3>1. CASE i \in 1..n
      <4>1. /\ visitState[stack[i].type] = "visiting"
            /\ stack[i].rows \subseteq RowsOf(stack[i].type)
            /\ RowsOf(stack[i].type) \ stack[i].rows \subseteq rawEdges
            /\ stack[i].type \in Type
        <5>1. stack \in [1..n -> [type: Type, rows: SUBSET graph]]
          BY LenProperties DEF ClosureIInv, ClosureTypeOK
        <5> QED
          BY <1>3, <3>1, <5>1 DEF ClosureIInv, ClosurePath
      <4>2. /\ i = n => stack'[i].rows = stack[i].rows \ {e}
            /\ i # n => stack'[i].rows = stack[i].rows
        BY <1>3, <1>6, <3>1
      <4>3. visitState'[stack[i].type] = "visiting"
        BY <1>7, <4>1
      <4> QED
        BY <1>6, <3>1, <4>1, <4>2, <4>3
    <3>2. CASE i \notin 1..n
      <4>1. met /\ i = n + 1
        BY <1>3, <1>5, <3>2
      <4> QED
        BY <1>6, <1>7, <4>1
    <3> QED
      BY <3>1, <3>2
  <2>3. \A i, j \in DOMAIN stack' : stack'[i].type = stack'[j].type => i = j
    <3>1. \A i, j \in 1..n : stack'[i].type = stack'[j].type => i = j
      BY <1>3, <1>6 DEF ClosureIInv, ClosurePath
    <3>2. ASSUME met, NEW i \in 1..n PROVE stack'[i].type # e.skill
      BY <1>3, <1>6, <3>2 DEF Met, ClosureIInv, ClosurePath
    <3>3. ASSUME NEW i \in DOMAIN stack', i \notin 1..n
          PROVE  i = n + 1 /\ met /\ stack'[i].type = e.skill
      BY <1>3, <1>5, <1>6, <3>3
    <3> HIDE DEF n, met
    <3> QED
      BY <3>1, <3>2, <3>3
  <2>4. ASSUME NEW t \in Type, visitState'[t] = "visiting"
        PROVE  \E i \in DOMAIN stack' : stack'[i].type = t
    <3>1. CASE visitState[t] = "visiting"
      <4>1. PICK i \in 1..n : stack[i].type = t
        BY <1>3, <3>1 DEF ClosureIInv, ClosurePath
      <4>2. i \in DOMAIN stack'
        BY <1>3, <1>5
      <4> QED
        BY <1>6, <4>1, <4>2
    <3>2. CASE visitState[t] # "visiting"
      <4>1. met /\ t = e.skill
        BY <1>7, <2>4, <3>2
      <4>2. n + 1 \in DOMAIN stack'
        BY <1>3, <1>5, <4>1
      <4> QED
        BY <1>6, <4>1, <4>2
    <3> QED
      BY <3>1, <3>2
  <2>5. ASSUME NEW t \in Type, visitState'[t] = "complete"
        PROVE  RowsOf(t) \subseteq rawEdges'
    <3>1. visitState[t] = "complete"
      BY <1>7, <2>5
    <3> QED
      BY <3>1 DEF ClosureIInv, ClosurePath
  <2>6. phase' = "visiting"
    OBVIOUS
  <2>7. \A t : RowsOf(t)' = RowsOf(t)
    BY <1>8
  <2> QED
    BY <2>1, <2>2, <2>3, <2>4, <2>5, <2>6, <2>7, Zenon DEF ClosurePath
<1>11. ClosureEvidence'
  <2>1. \A t \in Type : visitState[t] # "new" => visitState'[t] # "new"
    BY <1>7
  <2>2. ASSUME NEW f \in rawEdges'
        PROVE  /\ Valid(f) /\ f.source # f.skill /\ visitState'[f.source] # "new"
               /\ Follows(f) => visitState'[f.skill] # "new"
    <3>1. CASE f \in rawEdges
      <4>1. f.source \in Type /\ f.skill \in Type
        BY <3>1 DEF ClosureIInv, ClosureTypeOK, Edge
      <4> QED
        BY <2>1, <3>1, <4>1 DEF ClosureIInv, ClosureEvidence
    <3>2. CASE f = e
      <4>1. visitState[e.source] # "new"
        BY <1>1, TopOfPath
      <4>2. Follows(e) => visitState'[e.skill] # "new"
        BY <1>7 DEF Met
      <4> QED
        BY <1>1, <2>1, <3>2, <4>1, <4>2
    <3> QED
      BY <3>1, <3>2
  <2>3. visitState'[Target] # "new"
    BY <2>1, ClosureAssumption DEF ClosureIInv, ClosureEvidence
  <2>4. ASSUME NEW t \in Type, visitState'[t] # "new" PROVE t \in Followed'
    <3>1. CASE visitState[t] # "new"
      BY <1>8, <3>1 DEF ClosureIInv, ClosureEvidence
    <3>2. CASE visitState[t] = "new"
      <4>1. t = e.skill /\ Follows(e)
        BY <1>7, <2>4, <3>2
      <4>2. e.source \in Followed
        BY <1>1, TopOfPath DEF ClosureIInv, ClosureEvidence
      <4>3. e.level \in 1..5
        BY <1>1, <4>1 DEF Edge, Follows, Valid
      <4> QED
        BY <1>1, <1>8, <4>1, <4>2, <4>3, FollowedOnward
    <3> QED
      BY <3>1, <3>2
  <2>5. Cardinality(rawEdges') <= MaxEdges /\ Cardinality(Nodes') <= MaxNodes
    BY <1>1 DEF Nodes, Skills
  <2>6. phase' # "invalid"
    OBVIOUS
  <2> QED
    BY <2>2, <2>3, <2>4, <2>5, <2>6, Zenon DEF ClosureEvidence, Valid, Follows
<1>12. ClosureOrder'
  <2>1. ordered' = <<>> /\ phase' = "visiting"
    BY DEF ClosureIInv, ClosureOrder, order
  <2> QED
    BY <2>1, Zenon, NothingInPlace
<1> QED
  BY <1>9, <1>10, <1>11, <1>12 DEF ClosureIInv

\* A type is left: all its rows are there, and the way is one type shorter.
LEMMA ClosureCompletes == ClosureIInv /\ Complete => ClosureIInv'
<1> SUFFICES ASSUME ClosureIInv, Complete PROVE ClosureIInv'
  OBVIOUS
<1> DEFINE n == Len(stack)
<1>1. phase = "visiting"
  BY DEF Complete
<1>2. /\ n \in Nat \ {0} /\ DOMAIN stack = 1..n /\ Top = stack[n]
      /\ Top.type \in Type /\ visitState[Top.type] = "visiting"
      /\ stack' \in Seq([type: Type, rows: SUBSET graph]) /\ DOMAIN stack' = 1..(n - 1)
      /\ \A i \in 1..(n - 1) : stack'[i] = stack[i]
  <2>1. stack' = Popped
    BY DEF Complete
  <2> QED
    BY <1>1, <2>1, TopOfPath, LenProperties
<1>3. /\ visitState' \in [Type -> {"new", "visiting", "complete"}]
      /\ \A t \in Type : t # Top.type => visitState'[t] = visitState[t]
      /\ visitState'[Top.type] = "complete"
  BY <1>2 DEF ClosureIInv, ClosureTypeOK, Complete
<1>4. /\ phase' = "visiting" => stack' # <<>> /\ UNCHANGED measures
      /\ phase' = "measuring" => /\ stack' = <<>> /\ queue' = <<Target>>
                                 /\ depths' = [depths EXCEPT ![Target] = 0]
      /\ phase' = "limit" => UNCHANGED measures
      /\ phase' \in {"visiting", "measuring", "limit"}
  BY <1>1 DEF Complete
<1>5. RowsOf(Top.type) \subseteq rawEdges
  BY <1>1, TopOfPath DEF Complete
<1>6. UNCHANGED <<graph, rawEdges, order>>
  BY DEF Complete
<1>7. /\ Followed' = Followed /\ Relevant' = Relevant /\ Nodes' = Nodes
      /\ \A t : RowsOf(t)' = RowsOf(t)
  BY <1>6, GraphStays DEF Nodes
<1>8. ClosureTypeOK'
  <2>1. queue' \in Seq(Type) /\ depths' \in [Type -> Nat \cup {-1}]
    <3>1. /\ queue \in Seq(Type) /\ depths \in [Type -> Nat \cup {-1}]
          /\ Target \in Type
      BY ClosureAssumption DEF ClosureIInv, ClosureTypeOK
    <3>2. CASE phase' = "measuring"
      <4>1. queue' = <<Target>> /\ depths' = [depths EXCEPT ![Target] = 0]
        BY <1>4, <3>2
      <4>2. <<Target>> \in Seq(Type)
        BY <3>1
      <4>3. [depths EXCEPT ![Target] = 0] \in [Type -> Nat \cup {-1}]
        BY <3>1
      <4> QED
        BY <4>1, <4>2, <4>3
    <3>3. CASE phase' # "measuring"
      BY <1>4, <3>1, <3>3 DEF measures
    <3> QED
      BY <3>2, <3>3
  <2>2. phase' \in {"visiting", "measuring", "ordering", "done"} \cup Errors
    BY <1>4 DEF Errors
  <2> QED
    BY <1>2, <1>3, <1>6, <2>1, <2>2 DEF ClosureIInv, ClosureTypeOK, order
<1>9. ClosurePath'
  <2>1. /\ phase' = "visiting" => stack' # <<>>
        /\ phase' \in {"measuring", "ordering", "done"} => stack' = <<>>
    BY <1>4
  <2>2. ASSUME NEW i \in DOMAIN stack'
        PROVE  /\ visitState'[stack'[i].type] = "visiting"
               /\ stack'[i].rows \subseteq RowsOf(stack'[i].type)
               /\ RowsOf(stack'[i].type) \ stack'[i].rows \subseteq rawEdges'
    <3>1. i \in 1..n /\ i # n /\ n \in 1..n /\ stack'[i] = stack[i]
      BY <1>2
    <3>2. stack[i].type # stack[n].type /\ visitState[stack[i].type] = "visiting"
      BY <1>2, <3>1 DEF ClosureIInv, ClosurePath
    <3>3. stack[i].type \in Type
      <4>1. stack \in [1..n -> [type: Type, rows: SUBSET graph]]
        BY LenProperties DEF ClosureIInv, ClosureTypeOK
      <4> QED
        BY <3>1, <4>1
    <3>4. visitState'[stack[i].type] = "visiting"
      BY <1>2, <1>3, <3>2, <3>3
    <3> QED
      BY <1>2, <1>6, <3>1, <3>4 DEF ClosureIInv, ClosurePath
  <2>3. \A i, j \in DOMAIN stack' : stack'[i].type = stack'[j].type => i = j
    BY <1>2 DEF ClosureIInv, ClosurePath
  <2>4. ASSUME NEW t \in Type, visitState'[t] = "visiting"
        PROVE  \E i \in DOMAIN stack' : stack'[i].type = t
    <3>1. visitState[t] = "visiting" /\ t # Top.type
      BY <1>3, <2>4
    <3>2. PICK i \in 1..n : stack[i].type = t
      BY <1>2, <3>1 DEF ClosureIInv, ClosurePath
    <3>3. i # n
      BY <1>2, <3>1, <3>2
    <3>4. i \in 1..(n - 1)
      <4>1. n \in Nat \ {0}
        BY <1>2
      <4> HIDE DEF n
      <4> QED
        BY <3>2, <3>3, <4>1
    <3>5. i \in DOMAIN stack' /\ stack'[i] = stack[i]
      BY <1>2, <3>4
    <3> QED
      BY <3>2, <3>5
  <2>5. ASSUME NEW t \in Type, visitState'[t] = "complete"
        PROVE  RowsOf(t) \subseteq rawEdges'
    BY <1>3, <1>5, <1>6, <2>5 DEF ClosureIInv, ClosurePath
  <2> QED
    BY <1>7, <2>1, <2>2, <2>3, <2>4, <2>5, Zenon DEF ClosurePath
<1>10. ClosureEvidence'
  <2>1. \A t \in Type : visitState'[t] # "new" <=> visitState[t] # "new"
    BY <1>2, <1>3
  <2>2. \A e \in rawEdges : e.source \in Type /\ e.skill \in Type
    BY DEF ClosureIInv, ClosureTypeOK, Edge
  <2>3. phase' # "invalid"
    BY <1>4
  <2> QED
    BY <1>6, <1>7, <2>1, <2>2, <2>3, ClosureAssumption
    DEF ClosureIInv, ClosureEvidence, Valid, Follows
<1>11. ClosureOrder'
  <2>1. ordered' = <<>> /\ phase' \notin {"ordering", "done"}
    BY <1>1, <1>4, <1>6 DEF ClosureIInv, ClosureOrder, order
  <2> QED
    BY <2>1, Zenon, NothingInPlace
<1> QED
  BY <1>8, <1>9, <1>10, <1>11 DEF ClosureIInv

\* Measuring changes distances and the queue, nothing else.
LEMMA ClosureMeasures == ClosureIInv /\ Measure => ClosureIInv'
<1> SUFFICES ASSUME ClosureIInv, Measure PROVE ClosureIInv'
  OBVIOUS
<1> DEFINE depth  == depths[Head(queue)] + 1
           better == {t \in Children(Head(queue)) : Improves(t, depth)}
<1>1. /\ phase = "measuring" /\ queue # <<>> /\ queue \in Seq(Type)
      /\ depths \in [Type -> Nat \cup {-1}]
      /\ UNCHANGED <<graph, phase, stack, visitState, rawEdges, order>>
  BY DEF ClosureIInv, ClosureTypeOK, Measure
<1>2. depths' = [t \in Type |-> IF t \in better THEN depth ELSE depths[t]]
  BY DEF Measure
<1>3. \E joining \in [1..Cardinality(better) -> better] :
         queue' = Tail(queue) \o joining
  BY DEF Measure
<1>4. Head(queue) \in Type /\ Tail(queue) \in Seq(Type)
  BY <1>1, HeadTailProperties
<1>5. better \in SUBSET Type
  BY ChildrenAreNodes DEF ClosureIInv
<1>6. depth \in Nat
  BY <1>1, <1>4
<1> HIDE DEF depth, better
<1>7. depths' \in [Type -> Nat \cup {-1}]
  BY <1>1, <1>2, <1>6
<1>8. queue' \in Seq(Type)
  <2>1. PICK joining \in [1..Cardinality(better) -> better] :
          queue' = Tail(queue) \o joining
    BY <1>3
  <2>2. Cardinality(better) \in Nat
    BY <1>5, FinitelyMany
  <2>3. joining \in Seq(Type)
    BY <1>5, <2>2
  <2> QED
    BY <1>4, <2>1, <2>3, ConcatProperties
<1>9. ClosureTypeOK'
  BY <1>1, <1>7, <1>8 DEF ClosureIInv, ClosureTypeOK, order
<1>10. /\ Followed' = Followed /\ Relevant' = Relevant /\ Nodes' = Nodes
       /\ \A t : RowsOf(t)' = RowsOf(t)
  BY <1>1, GraphStays DEF Nodes
<1>11. ClosurePath'
  BY <1>1, <1>10 DEF ClosureIInv, ClosurePath
<1>12. ClosureEvidence'
  BY <1>1, <1>10 DEF ClosureIInv, ClosureEvidence, Valid, Follows
<1>13. ClosureOrder'
  <2>1. ordered' = <<>> /\ phase' \notin {"ordering", "done"}
    BY <1>1 DEF ClosureIInv, ClosureOrder, order
  <2> QED
    BY <2>1, Zenon, NothingInPlace
<1> QED
  BY <1>9, <1>11, <1>12, <1>13 DEF ClosureIInv

\* From the ordering on, only the places change: the rest of the invariant.
LEMMA RestStays ==
    ASSUME ClosureIInv, phase \in {"measuring", "ordering"},
           phase' \in {"ordering", "done", "cycle"},
           UNCHANGED <<graph, stack, visitState, rawEdges, measures>>
    PROVE  /\ ClosurePath' /\ ClosureEvidence'
           /\ Nodes' = Nodes /\ \A t : Children(t)' = Children(t)
           /\ available' \subseteq Type /\ indegree' \in [Type -> Nat]
              /\ ordered' \in Seq(Type) => ClosureTypeOK'
<1>1. /\ Followed' = Followed /\ Relevant' = Relevant /\ Nodes' = Nodes
      /\ \A t : RowsOf(t)' = RowsOf(t) /\ Children(t)' = Children(t)
  BY GraphStays DEF Nodes, Children
<1>2. ClosurePath'
  BY <1>1 DEF ClosureIInv, ClosurePath
<1>3. ClosureEvidence'
  BY <1>1 DEF ClosureIInv, ClosureEvidence, Valid, Follows
<1>4. /\ available' \subseteq Type /\ indegree' \in [Type -> Nat]
         /\ ordered' \in Seq(Type) => ClosureTypeOK'
  BY DEF ClosureIInv, ClosureTypeOK, measures, Errors
<1> QED
  BY <1>1, <1>2, <1>3, <1>4

\* The counters start at what each skill requires.
LEMMA ClosureStartsOrdering == ClosureIInv /\ StartOrdering => ClosureIInv'
<1> SUFFICES ASSUME ClosureIInv, StartOrdering PROVE ClosureIInv'
  OBVIOUS
<1>1. /\ phase = "measuring" /\ phase' = "ordering" /\ ordered' = ordered
      /\ UNCHANGED <<graph, stack, visitState, rawEdges, measures>>
      /\ indegree' = [t \in Type |-> IF t \in Nodes \ {Target} THEN Indegree(t) ELSE 0]
      /\ available' = {t \in Nodes : indegree'[t] = 0}
  BY DEF StartOrdering, Ready
<1>2. ordered = <<>> /\ ordered \in Seq(Type) /\ DOMAIN ordered = {}
  BY <1>1 DEF ClosureIInv, ClosureOrder, ClosureTypeOK
<1>3. /\ ClosurePath' /\ ClosureEvidence'
      /\ Nodes' = Nodes /\ \A t : Children(t)' = Children(t)
      /\ available' \subseteq Type /\ indegree' \in [Type -> Nat]
         /\ ordered' \in Seq(Type) => ClosureTypeOK'
  BY <1>1, RestStays
<1>4. /\ Nodes \in SUBSET Type
      /\ \A t : IsFiniteSet(Children(t)) /\ Indegree(t) \in Nat
  BY ChildrenAreNodes, FinitelyMany DEF ClosureIInv, Indegree
<1>5. indegree' \in [Type -> Nat]
  BY <1>1, <1>4
<1>6. \A t \in Nodes \ {Target} : indegree'[t] = Cardinality(Children(t))
  BY <1>1, <1>4 DEF Indegree
<1>7. \A t \in available' \ {Target} : Children(t) = {}
  BY <1>1, <1>4, <1>6, FS_EmptySet
<1>8. ToSet(ordered') = {}
  BY <1>1, <1>2 DEF ToSet
<1>9. ClosureOrder'
  <2>1. \A t : Children(t) \ ToSet(ordered') = Children(t)
    BY <1>8
  <2>2. /\ available' \subseteq Nodes \ ToSet(ordered')
        /\ \A t \in Nodes \ {Target} :
             indegree'[t] = Cardinality(Children(t) \ ToSet(ordered'))
        /\ \A t \in available' \ {Target} : Children(t) \subseteq ToSet(ordered')
    BY <1>1, <1>6, <1>7, <1>8, <2>1
  <2>3. IsInjective(ordered') /\ ToSet(ordered') \subseteq Nodes
    BY <1>1, <1>2, <1>8 DEF IsInjective
  <2> QED
    BY <1>1, <1>2, <1>3, <2>2, <2>3 DEF ClosureOrder
<1> QED
  BY <1>1, <1>2, <1>3, <1>4, <1>5, <1>9 DEF ClosureIInv

\* The next place goes to a skill that has none yet and whose requirements
\* all have one; only counters that count it go down, and stay exact.
LEMMA ClosureTakesNext == ClosureIInv /\ TakeNext => ClosureIInv'
<1> SUFFICES ASSUME ClosureIInv, TakeNext PROVE ClosureIInv'
  OBVIOUS
<1> DEFINE next       == CHOOSE t \in available : \A s \in available : t <= s
           dependents == {t \in Nodes \ {Target} : next \in Children(t)}
           n          == Len(ordered)
<1>1. /\ phase = "ordering" /\ phase' = "ordering" /\ available # {}
      /\ UNCHANGED <<graph, stack, visitState, rawEdges, measures>>
      /\ ordered' = Append(ordered, next)
      /\ indegree' = [t \in Type |-> IF t \in dependents THEN indegree[t] - 1
                                     ELSE indegree[t]]
      /\ available' = (available \ {next}) \cup {t \in dependents : indegree'[t] = 0}
  BY DEF TakeNext, Ready
<1>2. next \in available
  <2>1. available \in SUBSET Type
    BY DEF ClosureIInv, ClosureTypeOK
  <2>2. \E t \in available : \A s \in available : t <= s
    BY <1>1, <2>1, FirstOf
  <2> QED
    BY <2>2
<1> HIDE DEF next
<1>3. /\ ClosurePath' /\ ClosureEvidence'
      /\ Nodes' = Nodes /\ \A t : Children(t)' = Children(t)
      /\ available' \subseteq Type /\ indegree' \in [Type -> Nat]
         /\ ordered' \in Seq(Type) => ClosureTypeOK'
  BY <1>1, RestStays
<1>4. /\ Nodes \in SUBSET Type
      /\ \A t : /\ Children(t) \in SUBSET Type /\ Children(t) \subseteq Nodes
                /\ t \notin Children(t)
  BY ChildrenAreNodes DEF ClosureIInv, ClosureEvidence, Children
<1>5. /\ available \subseteq Nodes \ ToSet(ordered)
      /\ \A t \in Nodes \ {Target} :
           indegree[t] = Cardinality(Children(t) \ ToSet(ordered))
      /\ \A t \in available \ {Target} : Children(t) \subseteq ToSet(ordered)
      /\ ToSet(ordered) \subseteq Nodes /\ IsInjective(ordered)
      /\ \A i \in DOMAIN ordered : ordered[i] # Target =>
           \A c \in Children(ordered[i]) : \E k \in 1..(i - 1) : ordered[k] = c
      /\ ordered \in Seq(Type) /\ indegree \in [Type -> Nat]
  BY <1>1 DEF ClosureIInv, ClosureOrder, ClosureTypeOK
<1>6. /\ n \in Nat /\ DOMAIN ordered = 1..n
      /\ ordered' \in Seq(Type) /\ DOMAIN ordered' = 1..(n + 1)
      /\ \A i \in 1..n : ordered'[i] = ordered[i]
      /\ ordered'[n + 1] = next
  BY <1>1, <1>2, <1>4, <1>5, AppendProperties, LenProperties
<1>7. ToSet(ordered') = ToSet(ordered) \cup {next}
  BY <1>6 DEF ToSet
<1>8. \A t : IsFiniteSet(Children(t) \ ToSet(ordered))
             /\ Cardinality(Children(t) \ ToSet(ordered)) \in Nat
  BY <1>4, FinitelyMany
<1>9. next \in Nodes /\ next \notin ToSet(ordered)
  BY <1>2, <1>5
<1>10. ASSUME NEW t \in dependents
       PROVE  /\ t \in Nodes \ {Target} /\ t # next /\ t \notin ToSet(ordered)
              /\ indegree'[t] = Cardinality(Children(t) \ ToSet(ordered'))
              /\ indegree'[t] \in Nat
  <2>1. t \in Nodes \ {Target} /\ next \in Children(t) /\ t # next
    BY <1>4
  <2>2. t \notin ToSet(ordered)
    <3>1. ASSUME NEW i \in 1..n, ordered[i] = t PROVE FALSE
      <4>0. /\ i \in DOMAIN ordered /\ ordered[i] # Target
            /\ next \in Children(ordered[i])
        BY <1>6, <2>1, <3>1
      <4>1. PICK k \in 1..(i - 1) : ordered[k] = next
        BY <1>5, <4>0, Zenon
      <4>2. k \in DOMAIN ordered
        BY <1>6, <4>1
      <4> QED
        BY <1>9, <4>1, <4>2 DEF ToSet
    <3> QED
      BY <1>6, <3>1 DEF ToSet
  <2> DEFINE open == Children(t) \ ToSet(ordered)
  <2>3. /\ next \in open /\ IsFiniteSet(open)
        /\ Children(t) \ ToSet(ordered') = open \ {next}
    BY <1>7, <1>8, <1>9, <2>1
  <2>4. indegree[t] = Cardinality(open) /\ indegree'[t] = indegree[t] - 1
    BY <1>1, <1>4, <1>5, <2>1
  <2> HIDE DEF open
  <2>5. Cardinality(open \ {next}) = Cardinality(open) - 1
    BY <2>3, FS_RemoveElement
  <2>6. Cardinality(open \ {next}) \in Nat
    BY <2>3, FS_RemoveElement, FS_CardinalityType
  <2> QED
    BY <2>1, <2>2, <2>3, <2>4, <2>5, <2>6
<1>11. ASSUME NEW t \in Type, t \notin dependents PROVE indegree'[t] = indegree[t]
  BY <1>1, <1>11
<1>12. indegree' \in [Type -> Nat]
  <2>1. \A t \in Type : indegree'[t] \in Nat
    BY <1>5, <1>10, <1>11
  <2> QED
    BY <1>1, <2>1
<1>13. ASSUME NEW t \in Nodes \ {Target}
       PROVE  indegree'[t] = Cardinality(Children(t) \ ToSet(ordered'))
  <2>1. CASE t \in dependents
    BY <1>10, <2>1
  <2>2. CASE t \notin dependents
    <3>1. Children(t) \ ToSet(ordered') = Children(t) \ ToSet(ordered)
      BY <1>7, <2>2
    <3> QED
      BY <1>4, <1>5, <1>11, <2>2, <3>1
  <2> QED
    BY <2>1, <2>2
<1>14. available' \subseteq Nodes \ ToSet(ordered')
  BY <1>1, <1>5, <1>7, <1>10
<1>15. ASSUME NEW t \in available' \ {Target}
       PROVE  Children(t) \subseteq ToSet(ordered')
  <2>1. CASE t \in available
    BY <1>5, <1>7, <2>1
  <2>2. CASE t \notin available
    <3>1. t \in dependents /\ indegree'[t] = 0
      BY <1>1, <2>2
    <3>2. Cardinality(Children(t) \ ToSet(ordered')) = 0
      BY <1>10, <3>1
    <3>3. IsFiniteSet(Children(t) \ ToSet(ordered'))
      BY <1>4, FinitelyMany
    <3>4. Children(t) \ ToSet(ordered') = {}
      BY <3>2, <3>3, FS_EmptySet
    <3> QED
      BY <3>4
  <2> QED
    BY <2>1, <2>2
<1>16. IsInjective(ordered')
  <2>1. \A i \in 1..n : ordered[i] # next
    BY <1>6, <1>9 DEF ToSet
  <2>2. ASSUME NEW i \in 1..(n + 1), NEW j \in 1..(n + 1), ordered'[i] = ordered'[j]
        PROVE  i = j
    <3>1. CASE i \in 1..n /\ j \in 1..n
      BY <1>5, <1>6, <2>2, <3>1 DEF IsInjective
    <3>2. CASE i \notin 1..n \/ j \notin 1..n
      <4>1. \A k \in 1..(n + 1) : k \notin 1..n => k = n + 1
        BY <1>6
      <4> HIDE DEF n
      <4> QED
        BY <1>6, <2>1, <2>2, <3>2, <4>1
    <3> QED
      BY <3>1, <3>2
  <2> QED
    BY <1>6, <2>2 DEF IsInjective
<1>17. ASSUME NEW i \in DOMAIN ordered', ordered'[i] # Target,
              NEW c \in Children(ordered'[i])
       PROVE  \E k \in 1..(i - 1) : ordered'[k] = c
  <2>1. CASE i \in 1..n
    <3>1. PICK k \in 1..(i - 1) : ordered[k] = c
      BY <1>5, <1>6, <1>17, <2>1
    <3>2. k \in 1..n
      BY <1>6, <2>1, <3>1
    <3> QED
      BY <1>6, <3>1, <3>2
  <2>2. CASE i \notin 1..n
    <3>1. i = n + 1
      BY <1>6, <2>2
    <3>2. c \in ToSet(ordered)
      BY <1>2, <1>5, <1>6, <1>17, <3>1
    <3>3. PICK k \in 1..n : ordered[k] = c
      BY <1>6, <3>2 DEF ToSet
    <3>4. k \in 1..(i - 1)
      BY <1>6, <3>1, <3>3
    <3> QED
      BY <1>6, <3>3, <3>4
  <2> QED
    BY <2>1, <2>2
<1>18. ClosureOrder'
  <2>1. ToSet(ordered') \subseteq Nodes
    BY <1>5, <1>7, <1>9
  <2>2. phase' = "ordering"
    BY <1>1
  <2> QED
    BY <1>3, <1>13, <1>14, <1>15, <1>16, <1>17, <2>1, <2>2 DEF ClosureOrder
<1>19. ClosureTypeOK'
  BY <1>3, <1>4, <1>6, <1>12, <1>14
<1> QED
  BY <1>3, <1>18, <1>19 DEF ClosureIInv

\* The list is complete when it is as long as there are skills.
LEMMA ClosureFinishes == ClosureIInv /\ Finish => ClosureIInv'
<1> SUFFICES ASSUME ClosureIInv, Finish PROVE ClosureIInv'
  OBVIOUS
<1>1. /\ phase = "ordering" /\ phase' \in {"done", "cycle"}
      /\ phase' = "done" => Len(ordered) = Cardinality(Nodes)
      /\ UNCHANGED <<graph, stack, visitState, rawEdges, measures, order>>
  BY DEF Finish
<1>2. /\ ClosurePath' /\ ClosureEvidence'
      /\ Nodes' = Nodes /\ \A t : Children(t)' = Children(t)
      /\ available' \subseteq Type /\ indegree' \in [Type -> Nat]
         /\ ordered' \in Seq(Type) => ClosureTypeOK'
  BY <1>1, RestStays
<1>3. ClosureTypeOK'
  BY <1>1, <1>2 DEF ClosureIInv, ClosureTypeOK, order
<1>4. ClosureOrder'
  BY <1>1, <1>2 DEF ClosureIInv, ClosureOrder, order
<1> QED
  BY <1>2, <1>3, <1>4 DEF ClosureIInv

---------------------------------------------------------------------------
(* The theorems *)

\* A row is refused or taken.
FollowsRow(e) ==
    /\ phase = "visiting" /\ UNCHANGED <<graph, measures, order>>
    /\ ErrorOf(e) # "none" => phase' = ErrorOf(e)
                              /\ UNCHANGED <<stack, visitState, rawEdges>>
    /\ ErrorOf(e) = "none" => Taken(e)

\* Every turn of the loop is one or the other.
LEMMA FollowIs == Follow => \E e \in Top.rows : FollowsRow(e)
<1> SUFFICES ASSUME Follow PROVE \E e \in Top.rows : FollowsRow(e)
  OBVIOUS
<1> DEFINE left(e) == Append(Popped, [Top EXCEPT !.rows = @ \ {e}])
           end(e)  == [type |-> e.skill, rows |-> RowsOf(e.skill)]
<1>1. /\ phase = "visiting" /\ UNCHANGED <<graph, measures, order>>
      /\ \E e \in Top.rows :
           IF ErrorOf(e) # "none"
           THEN phase' = ErrorOf(e) /\ UNCHANGED <<stack, visitState, rawEdges>>
           ELSE /\ rawEdges' = rawEdges \cup {e}
                /\ IF Met(e)
                   THEN /\ stack' = Append(left(e), end(e))
                        /\ visitState' = [visitState EXCEPT ![e.skill] = "visiting"]
                   ELSE stack' = left(e) /\ UNCHANGED visitState
                /\ UNCHANGED phase
  BY Zenon DEF Follow, Met
<1>2. PICK e \in Top.rows :
           IF ErrorOf(e) # "none"
           THEN phase' = ErrorOf(e) /\ UNCHANGED <<stack, visitState, rawEdges>>
           ELSE /\ rawEdges' = rawEdges \cup {e}
                /\ IF Met(e)
                   THEN /\ stack' = Append(left(e), end(e))
                        /\ visitState' = [visitState EXCEPT ![e.skill] = "visiting"]
                   ELSE stack' = left(e) /\ UNCHANGED visitState
                /\ UNCHANGED phase
  BY <1>1, Zenon
<1>3. ErrorOf(e) = "none" => Taken(e)
  BY <1>1, <1>2, Zenon DEF Taken
<1>4. FollowsRow(e)
  BY <1>1, <1>2, <1>3, Zenon DEF FollowsRow
<1> QED
  BY <1>4

\* Every step keeps the invariant.
LEMMA ClosureSteps == ClosureIInv /\ [ClosureNext]_closureVars => ClosureIInv'
<1> SUFFICES ASSUME ClosureIInv, [ClosureNext]_closureVars PROVE ClosureIInv'
  OBVIOUS
<1>1. CASE Follow
  <2>1. PICK e \in Top.rows : FollowsRow(e)
    BY <1>1, FollowIs
  <2>2. CASE ErrorOf(e) # "none"
    BY <2>1, <2>2, FollowRefused DEF FollowsRow
  <2>3. CASE ErrorOf(e) = "none"
    <3>1. Taken(e)
      BY <2>1, <2>3 DEF FollowsRow
    <3> QED
      BY <3>1, FollowTaken
  <2> QED
    BY <2>2, <2>3
<1>2. CASE Complete
  BY <1>2, ClosureCompletes
<1>3. CASE Measure
  BY <1>3, ClosureMeasures
<1>4. CASE StartOrdering
  BY <1>4, ClosureStartsOrdering
<1>5. CASE TakeNext
  BY <1>5, ClosureTakesNext
<1>6. CASE Finish
  BY <1>6, ClosureFinishes
<1>7. CASE UNCHANGED closureVars
  <2>1. /\ Followed' = Followed /\ Relevant' = Relevant /\ Nodes' = Nodes
        /\ \A t : RowsOf(t)' = RowsOf(t) /\ Children(t)' = Children(t)
    BY <1>7, GraphStays DEF closureVars, Nodes, Children
  <2>2. ClosureTypeOK' /\ ClosurePath'
    BY <1>7, <2>1 DEF closureVars, ClosureIInv, ClosureTypeOK, ClosurePath
  <2>3. ClosureEvidence' /\ ClosureOrder'
    BY <1>7, <2>1
    DEF closureVars, ClosureIInv, ClosureEvidence, ClosureOrder, Valid, Follows
  <2> QED
    BY <2>2, <2>3 DEF ClosureIInv
<1> QED
  BY <1>1, <1>2, <1>3, <1>4, <1>5, <1>6, <1>7 DEF ClosureNext

\* The way down, the evidence and the places given are what they should be in
\* every state of a resolution, for any graph and any limits.
THEOREM ClosureInductiveInvariant == ClosureSpec => []ClosureIInv
<1>1. ClosureInit => ClosureIInv
  BY ClosureAtStart
<1>2. ClosureIInv /\ [ClosureNext]_closureVars => ClosureIInv'
  BY ClosureSteps
<1> QED
  BY <1>1, <1>2, PTL DEF ClosureSpec

\* The state of a resolution keeps its types: no counter goes below zero, and
\* no row is on the way that is not in the data.
THEOREM ClosureTypeCorrect == ClosureSpec => []ClosureTypeOK
<1>1. ClosureIInv => ClosureTypeOK
  BY DEF ClosureIInv
<1> QED
  BY <1>1, ClosureInductiveInvariant, PTL

\* Once the way is empty, what was visited is what is followed, and the rows
\* found are the rows that matter.
LEMMA VisitedIsFollowed ==
    ASSUME ClosureIInv, phase \in {"measuring", "ordering", "done"}
    PROVE  rawEdges = Relevant
<1> DEFINE visited == {t \in Type : visitState[t] # "new"}
<1>1. graph \subseteq Edge /\ rawEdges \subseteq graph
      /\ visitState \in [Type -> {"new", "visiting", "complete"}]
  BY DEF ClosureIInv, ClosureTypeOK
<1>2. ASSUME NEW t \in visited PROVE RowsOf(t) \subseteq rawEdges
  <2>1. stack = <<>>
    BY DEF ClosureIInv, ClosurePath
  <2>2. visitState[t] # "visiting"
    BY <2>1 DEF ClosureIInv, ClosurePath
  <2>3. visitState[t] = "complete"
    BY <1>1, <2>2
  <2> QED
    BY <2>3 DEF ClosureIInv, ClosurePath
<1>3. Closed(visited)
  <2>1. Target \in visited
    BY ClosureAssumption DEF ClosureIInv, ClosureEvidence
  <2>2. ASSUME NEW t \in visited, NEW s \in Requires(t) PROVE s \in visited
    <3>1. PICK e \in graph : e.source = t /\ e.level \in 1..5 /\ s = e.skill
      BY DEF Requires
    <3>2. e \in rawEdges /\ Follows(e)
      BY <1>2, <3>1 DEF RowsOf, Follows
    <3>3. e.skill \in Type
      BY <1>1 DEF Edge
    <3> QED
      BY <3>1, <3>2, <3>3 DEF ClosureIInv, ClosureEvidence
  <2> QED
    BY <2>1, <2>2 DEF Closed
<1>4. Followed \subseteq visited
  BY <1>3, FollowedIsLeast
<1>5. Relevant \subseteq rawEdges
  BY <1>2, <1>4 DEF Relevant, RowsOf
<1>6. ASSUME NEW e \in rawEdges PROVE e \in Relevant
  <2>1. e.source \in Type
    BY <1>1 DEF Edge
  <2> QED
    BY <1>1, <2>1 DEF ClosureIInv, ClosureEvidence, Relevant
<1> QED
  BY <1>5, <1>6

\* A resolution that succeeds has found exactly the rows of the types that the
\* target leads to, whatever the order in which rows were followed; they are
\* valid, none leads from a skill to itself, and they are within both limits.
\* One refused as invalid has met an invalid row.
THEOREM EvidenceIsFound == ClosureSpec => []EvidenceIsExact
<1>1. ASSUME ClosureIInv PROVE EvidenceIsExact
  <2>1. ASSUME phase = "done"
        PROVE  /\ rawEdges = Relevant
               /\ \A e \in Relevant : Valid(e) /\ e.source # e.skill
               /\ Cardinality(Relevant) <= MaxEdges
               /\ Cardinality(Skills(Relevant)) <= MaxNodes
    <3>1. rawEdges = Relevant
      BY <1>1, <2>1, VisitedIsFollowed
    <3> QED
      BY <1>1, <3>1 DEF ClosureIInv, ClosureEvidence, Nodes
  <2>2. phase = "invalid" => \E e \in Relevant : ~Valid(e)
    BY <1>1 DEF ClosureIInv, ClosureEvidence
  <2> QED
    BY <2>1, <2>2 DEF EvidenceIsExact
<1> QED
  BY <1>1, ClosureInductiveInvariant, PTL

\* A resolution that succeeds lists every required skill once, after the
\* skills it requires itself.
THEOREM ListIsUsable == ClosureSpec => []OrderIsUsable
<1>1. ASSUME ClosureIInv PROVE OrderIsUsable
  <2> SUFFICES ASSUME phase = "done"
               PROVE  /\ ToSet(ordered) = Skills(Relevant) /\ IsInjective(ordered)
                      /\ \A i, j \in DOMAIN ordered :
                           /\ ordered[i] \in Followed \ {Target}
                           /\ ordered[j] \in Requires(ordered[i])
                           => j < i
    BY DEF OrderIsUsable
  <2>1. rawEdges = Relevant
    BY <1>1, VisitedIsFollowed
  <2>2. /\ ordered \in Seq(Type) /\ IsInjective(ordered)
        /\ ToSet(ordered) \subseteq Nodes /\ Len(ordered) = Cardinality(Nodes)
    BY <1>1 DEF ClosureIInv, ClosureTypeOK, ClosureOrder
  <2>3. /\ Len(ordered) \in Nat /\ DOMAIN ordered = 1..Len(ordered)
        /\ ordered \in [1..Len(ordered) -> Type]
    BY <2>2, LenProperties
  <2>4. ToSet(ordered) = Nodes
    <3>1. IsFiniteSet(Nodes)
      BY <1>1, ChildrenAreNodes, FinitelyMany DEF ClosureIInv
    <3>2. ordered \in Injection(1..Len(ordered), Nodes)
      BY <2>2, <2>3 DEF ToSet, Injection, IsInjective
    <3>3. Cardinality(1..Len(ordered)) = Cardinality(Nodes)
      BY <2>2, <2>3, FS_Interval
    <3>4. ordered \in Surjection(1..Len(ordered), Nodes)
      BY <3>1, <3>2, <3>3, FS_Injection
    <3> QED
      BY <2>2, <2>3, <3>4 DEF Surjection, ToSet
  <2>5. ASSUME NEW i \in DOMAIN ordered, NEW j \in DOMAIN ordered,
               ordered[i] \in Followed \ {Target}, ordered[j] \in Requires(ordered[i])
        PROVE  j < i
    <3>1. ordered[j] \in Children(ordered[i])
      <4>1. PICK e \in graph : /\ e.source = ordered[i] /\ e.level \in 1..5
                               /\ ordered[j] = e.skill
        BY <2>5 DEF Requires
      <4>2. e \in rawEdges /\ e.level > 0
        BY <2>1, <2>5, <4>1 DEF Relevant
      <4> QED
        BY <4>1, <4>2 DEF Children
    <3>2. PICK k \in 1..(i - 1) : ordered[k] = ordered[j]
      BY <1>1, <2>5, <3>1 DEF ClosureIInv, ClosureOrder
    <3>3. k \in DOMAIN ordered /\ k < i
      BY <2>3, <3>2
    <3>4. k = j
      BY <2>2, <3>2, <3>3 DEF IsInjective
    <3> QED
      BY <3>3, <3>4
  <2> QED
    BY <2>1, <2>2, <2>4, <2>5 DEF Nodes
<1> QED
  BY <1>1, ClosureInductiveInvariant, PTL

---------------------------------------------------------------------------
(* Which graphs are resolved *)

\* The way down is one of rows that are followed; what else its types have
\* been found to require is complete; and what is complete has no cycle.
ClosureWay ==
    /\ phase = "visiting" => stack[1].type = Target
    /\ \A i \in 2..Len(stack) : stack[i].type \in Children(stack[i - 1].type)
    /\ \A e \in rawEdges : Follows(e) =>
         \/ visitState[e.skill] = "complete"
         \/ \E i \in 2..Len(stack) : stack[i - 1].type = e.source
                                     /\ stack[i].type = e.skill
    /\ \A S \in SUBSET {t \in Type : visitState[t] = "complete"} :
         S # {} => \E t \in S : Children(t) \cap S = {}

\* Distances are those of some way, and as short as the row before allows
\* where the queue has been; no way is too long by then.
ClosureDistance ==
    /\ phase = "visiting" => queue = <<>> /\ \A t \in Type : depths[t] = -1
    /\ phase \in {"measuring", "ordering", "done"} =>
         /\ Ways(MaxDepth + 1, Target) = {}
         /\ depths[Target] = 0
         /\ \A t \in ToSet(queue) : depths[t] # -1
         /\ \A t \in Type : depths[t] # -1 =>
              /\ LeadsTo(depths[t], t)
              /\ \/ t \in ToSet(queue)
                 \/ \A c \in Children(t) : depths[c] # -1 /\ depths[c] <= depths[t] + 1
    /\ phase \in {"ordering", "done"} => queue = <<>>

\* Nothing that could take its place is overlooked, and no error is unfounded.
ClosureVerdict ==
    /\ phase = "ordering" =>
         /\ indegree[Target] = 0
         /\ \A t \in Nodes \ ToSet(ordered) : indegree[t] = 0 => t \in available
    /\ phase \in Errors => ~Sound

ClosureXInv == ClosureIInv /\ ClosureWay /\ ClosureDistance /\ ClosureVerdict

\* Where the way is empty, everything that is followed is complete.
LEMMA FollowedIsComplete ==
    ClosureIInv /\ stack = <<>> =>
      /\ Followed = {t \in Type : visitState[t] = "complete"}
      /\ \A t \in Followed : /\ Children(t) = Requires(t)
                             /\ Children(t) \subseteq Followed
      /\ \A t \in Type \ Followed : Children(t) = {}
<1> SUFFICES ASSUME ClosureIInv, stack = <<>>
             PROVE  /\ Followed = {t \in Type : visitState[t] = "complete"}
                    /\ \A t \in Followed : /\ Children(t) = Requires(t)
                                           /\ Children(t) \subseteq Followed
                    /\ \A t \in Type \ Followed : Children(t) = {}
  OBVIOUS
<1> DEFINE complete == {t \in Type : visitState[t] = "complete"}
<1>1. /\ graph \subseteq Edge /\ rawEdges \subseteq graph
      /\ \A t \in Type : visitState[t] # "new" <=> visitState[t] = "complete"
  <2>1. visitState \in [Type -> {"new", "visiting", "complete"}]
    BY DEF ClosureIInv, ClosureTypeOK
  <2>2. \A t \in Type : visitState[t] # "visiting"
    BY DEF ClosureIInv, ClosurePath
  <2> QED
    BY <2>1, <2>2 DEF ClosureIInv, ClosureTypeOK
<1>2. \A e \in rawEdges : /\ e.source \in complete /\ e.level <= 5
                          /\ e.level > 0 => e.skill \in complete
  <2>1. ASSUME NEW e \in rawEdges
        PROVE  /\ e.source \in complete /\ e.level <= 5
               /\ e.level > 0 => e.skill \in complete
    <3>1. e.source \in Type /\ e.skill \in Type
      BY <1>1 DEF Edge
    <3> QED
      BY <1>1, <3>1 DEF ClosureIInv, ClosureEvidence, Valid, Follows
  <2> QED
    BY <2>1
<1>3. \A t \in complete : RowsOf(t) \subseteq rawEdges
  BY DEF ClosureIInv, ClosurePath
<1>4. \A t \in complete : Children(t) = Requires(t) /\ Children(t) \subseteq complete
  <2>1. ASSUME NEW t \in complete, NEW c \in Children(t)
        PROVE  c \in Requires(t) /\ c \in complete
    <3>1. PICK e \in rawEdges : e.source = t /\ e.level > 0 /\ c = e.skill
      BY DEF Children
    <3>2. e.level \in 1..5 /\ e \in graph
      BY <1>1, <1>2, <3>1 DEF Edge
    <3> QED
      BY <1>2, <3>1, <3>2 DEF Requires
  <2>2. ASSUME NEW t \in complete, NEW c \in Requires(t) PROVE c \in Children(t)
    <3>1. PICK e \in graph : e.source = t /\ e.level \in 1..5 /\ c = e.skill
      BY DEF Requires
    <3>2. e \in rawEdges /\ e.level > 0
      BY <1>3, <3>1 DEF RowsOf
    <3> QED
      BY <3>1, <3>2 DEF Children
  <2> QED
    BY <2>1, <2>2
<1>5. complete \subseteq Followed
  BY <1>1 DEF ClosureIInv, ClosureEvidence
<1>6. Followed \subseteq complete
  <2>1. Target \in complete
    BY <1>1, ClosureAssumption DEF ClosureIInv, ClosureEvidence
  <2>2. Closed(complete)
    <3> HIDE DEF complete
    <3> QED
      BY <1>4, <2>1 DEF Closed
  <2> QED
    BY <2>2, FollowedIsLeast
<1>7. \A t \in Type \ complete : Children(t) = {}
  BY <1>2 DEF Children
<1> QED
  BY <1>4, <1>5, <1>6, <1>7

\* Then nothing that can be reached has a cycle.
LEMMA CompleteIsAcyclic ==
    ClosureIInv /\ ClosureWay /\ stack = <<>> =>
      /\ WithoutCycles
      /\ \A S \in SUBSET Type : S # {} => \E t \in S : Children(t) \cap S = {}
<1> SUFFICES ASSUME ClosureIInv, ClosureWay, stack = <<>>
             PROVE  /\ WithoutCycles
                    /\ \A S \in SUBSET Type : S # {} =>
                         \E t \in S : Children(t) \cap S = {}
  OBVIOUS
<1>1. /\ Followed = {t \in Type : visitState[t] = "complete"}
      /\ \A t \in Followed : Children(t) = Requires(t)
      /\ \A t \in Type \ Followed : Children(t) = {}
  BY FollowedIsComplete
<1>2. \A S \in SUBSET Followed : S # {} => \E t \in S : Children(t) \cap S = {}
  BY <1>1 DEF ClosureWay
<1>3. WithoutCycles
  BY <1>1, <1>2 DEF WithoutCycles
<1>4. ASSUME NEW S \in SUBSET Type, S # {}
      PROVE  \E t \in S : Children(t) \cap S = {}
  <2>1. CASE S \subseteq Followed
    BY <1>2, <1>4, <2>1
  <2>2. CASE ~(S \subseteq Followed)
    BY <1>1, <2>2
  <2> QED
    BY <2>1, <2>2
<1> QED
  BY <1>3, <1>4

\* Of finitely many types one has the largest number.
LEMMA LargestOf ==
    ASSUME NEW S \in SUBSET Type, S # {}, NEW f, \A t \in S : f[t] \in Nat
    PROVE  \E t \in S : \A s \in S : f[s] <= f[t]
<1> DEFINE Above(t) == {s \in S : f[s] > f[t]}
           D        == {Cardinality(Above(t)) : t \in S}
<1>1. \A t \in S : /\ IsFiniteSet(Above(t)) /\ Cardinality(Above(t)) \in Nat
                   /\ Cardinality(Above(t)) <= NumTypes
  <2>1. NumTypes \in Nat /\ Cardinality(Type) = NumTypes
    BY FS_Interval, ClosureAssumption DEF Type
  <2> QED
    BY <2>1, FinitelyMany, FS_Subset
<1>2. \E m \in D : \A y \in D : m <= y
  <2>1. D \in SUBSET (0..NumTypes) /\ D # {} /\ NumTypes \in Nat
    <3>1. NumTypes \in Nat
      BY ClosureAssumption
    <3> HIDE DEF Above
    <3> QED
      BY <1>1, <3>1
  <2> HIDE DEF D
  <2> QED
    BY <2>1, LeastOf
<1>3. PICK t \in S : \A s \in S : Cardinality(Above(t)) <= Cardinality(Above(s))
  <2> HIDE DEF Above
  <2> QED
    BY <1>2
<1>4. ASSUME NEW s \in S, ~(f[s] <= f[t]) PROVE FALSE
  <2>1. s \in Above(t) /\ s \notin Above(s) /\ Above(s) \subseteq Above(t)
    BY <1>4
  <2> HIDE DEF Above
  <2>2. /\ Cardinality(Above(s)) <= Cardinality(Above(t))
        /\ Cardinality(Above(s)) = Cardinality(Above(t)) => Above(s) = Above(t)
    BY <1>1, <2>1, FS_Subset
  <2> QED
    BY <1>1, <1>3, <2>1, <2>2
<1> QED
  BY <1>4

\* One more than the largest that f has in S, or 0.
Deepest(f, S) ==
    LET below == {f[t] : t \in S}
    IN IF below = {} THEN 0 ELSE 1 + CHOOSE n \in below : \A m \in below : m <= n

LEMMA DeepestIs ==
    ASSUME NEW S \in SUBSET Type, NEW f, \A t \in S : f[t] \in Nat
    PROVE  /\ Deepest(f, S) \in Nat
           /\ \A t \in S : Deepest(f, S) >= f[t] + 1
           /\ Deepest(f, S) > 0 => \E t \in S : Deepest(f, S) = f[t] + 1
<1> DEFINE below == {f[t] : t \in S}
           n     == CHOOSE k \in below : \A m \in below : m <= k
<1>1. CASE S = {}
  BY <1>1 DEF Deepest
<1>2. CASE S # {}
  <2>1. \E k \in below : \A m \in below : m <= k
    <3>1. PICK t \in S : \A s \in S : f[s] <= f[t]
      BY <1>2, LargestOf
    <3> QED
      BY <3>1
  <2>2. n \in below /\ \A m \in below : m <= n
    <3> HIDE DEF below
    <3> QED
      BY <2>1
  <2>3. below # {} /\ Deepest(f, S) = 1 + n
    <3>1. below # {}
      BY <1>2
    <3> QED
      BY <3>1 DEF Deepest
  <2> HIDE DEF n
  <2>4. PICK t \in S : n = f[t]
    BY <2>2
  <2>5. \A s \in S : f[s] <= n
    BY <2>2
  <2> DEFINE d == Deepest(f, S)
  <2>6. n \in Nat /\ d = 1 + n
    BY <2>3, <2>4
  <2> HIDE DEF d
  <2>7. d \in Nat /\ d = f[t] + 1
    BY <2>4, <2>6
  <2>8. \A s \in S : d >= f[s] + 1
    BY <2>5, <2>6
  <2> QED
    BY <2>7, <2>8 DEF d
<1> QED
  BY <1>1, <1>2

\* It depends on what f is in S.
LEMMA DeepestSame ==
    ASSUME NEW S, NEW f, NEW g, \A t \in S : f[t] = g[t]
    PROVE  Deepest(f, S) = Deepest(g, S)
<1> DEFINE A == {f[t] : t \in S}
           B == {g[t] : t \in S}
           P(b) == IF b = {} THEN 0 ELSE 1 + CHOOSE n \in b : \A m \in b : m <= n
<1>1. A = B
  OBVIOUS
<1>2. Deepest(f, S) = P(A) /\ Deepest(g, S) = P(B)
  BY DEF Deepest
<1> HIDE DEF A, B, P
<1> QED
  BY <1>1, <1>2

\* The depth of each type follows from those of the types it requires.
IsLongest(S, f) ==
    /\ f \in [S -> Nat]
    /\ \A t \in S : /\ Children(t) \subseteq S
                    /\ f[t] = Deepest(f, Children(t))

\* Without cycles there are such depths: a largest set of types that has them
\* is not without some type, or it could have one more.
LEMMA LongestExists ==
    ASSUME ClosureTypeOK,
           \A S \in SUBSET Type : S # {} => \E t \in S : Children(t) \cap S = {}
    PROVE  \E f : IsLongest(Type, f)
<1> DEFINE Has(S) == \E f : IsLongest(S, f)
           D      == {m \in 0..NumTypes :
                        \E S \in SUBSET Type : Has(S) /\ m = Cardinality(Type \ S)}
<1>1. \A S \in SUBSET Type : /\ IsFiniteSet(Type \ S)
                             /\ Cardinality(Type \ S) \in 0..NumTypes
  <2>1. NumTypes \in Nat /\ Cardinality(Type) = NumTypes
    BY FS_Interval, ClosureAssumption DEF Type
  <2> QED
    BY <2>1, FinitelyMany, FS_Subset
<1>2. Has({})
  <2>1. IsLongest({}, [x \in {} |-> 0])
    BY DEF IsLongest
  <2> QED
    BY <2>1
<1>3. \E m \in D : \A y \in D : m <= y
  <2>1. Cardinality(Type \ {}) \in D
    <3> HIDE DEF Has
    <3> QED
      BY <1>1, <1>2
  <2>2. NumTypes \in Nat /\ D \in SUBSET (0..NumTypes)
    BY ClosureAssumption
  <2> HIDE DEF D
  <2> QED
    BY <2>1, <2>2, LeastOf
<1>4. PICK S \in SUBSET Type :
        /\ Has(S)
        /\ \A R \in SUBSET Type :
             Has(R) => Cardinality(Type \ S) <= Cardinality(Type \ R)
  <2> HIDE DEF Has
  <2>1. PICK m \in D : \A y \in D : m <= y
    BY <1>3
  <2>2. PICK S \in SUBSET Type : Has(S) /\ m = Cardinality(Type \ S)
    BY <2>1
  <2>3. ASSUME NEW R \in SUBSET Type, Has(R)
        PROVE  Cardinality(Type \ S) <= Cardinality(Type \ R)
    <3>1. Cardinality(Type \ R) \in D
      BY <1>1, <2>3
    <3> HIDE DEF D
    <3> QED
      BY <2>1, <2>2, <3>1
  <2> QED
    BY <2>2, <2>3
<1>5. ASSUME Type \ S # {} PROVE FALSE
  <2>1. PICK t \in Type \ S : Children(t) \cap (Type \ S) = {}
    BY <1>5
  <2>2. Children(t) \subseteq S
    BY <2>1, ChildrenAreNodes
  <2>3. PICK f : IsLongest(S, f)
    BY <1>4
  <2> DEFINE d == Deepest(f, Children(t))
             R == S \cup {t}
             g == [x \in R |-> IF x = t THEN d ELSE f[x]]
  <2>4. d \in Nat
    <3>1. Children(t) \in SUBSET Type /\ \A s \in Children(t) : f[s] \in Nat
      BY <2>2, <2>3 DEF IsLongest
    <3> QED
      BY <3>1, DeepestIs
  <2>5. /\ g \in [R -> Nat] /\ g[t] = d /\ \A x \in S : g[x] = f[x]
        /\ S \subseteq R /\ t \in R
    <3> HIDE DEF d
    <3> QED
      BY <2>1, <2>3, <2>4 DEF IsLongest
  <2>6. ASSUME NEW x \in R
        PROVE  /\ Children(x) \subseteq R
               /\ g[x] = Deepest(g, Children(x))
    <3>1. Children(x) \subseteq S
      BY <2>2, <2>3 DEF IsLongest
    <3>2. Deepest(g, Children(x)) = Deepest(f, Children(x))
      <4>1. \A s \in Children(x) : g[s] = f[s]
        <5> HIDE DEF g
        <5> QED
          BY <2>5, <3>1
      <4> HIDE DEF g
      <4> QED
        BY <4>1, DeepestSame
    <3>3. g[x] = Deepest(f, Children(x))
      <4>1. CASE x = t
        BY <2>5, <4>1
      <4>2. CASE x # t
        <5>1. x \in S
          BY <4>2
        <5> HIDE DEF g
        <5> QED
          BY <2>3, <2>5, <5>1 DEF IsLongest
      <4> QED
        BY <4>1, <4>2
    <3> QED
      BY <2>5, <3>1, <3>2, <3>3
  <2>7. Has(R)
    <3> HIDE DEF g, R
    <3>1. IsLongest(R, g)
      BY <2>5, <2>6 DEF IsLongest
    <3> QED
      BY <3>1
  <2>8. Cardinality(Type \ R) = Cardinality(Type \ S) - 1
    <3> DEFINE W == Type \ S
    <3>1. Type \ R = W \ {t} /\ t \in W /\ IsFiniteSet(W)
      BY <1>1, <2>1
    <3> HIDE DEF W, R
    <3>2. Cardinality(W \ {t}) = Cardinality(W) - 1
      BY <3>1, FS_RemoveElement
    <3> QED
      BY <3>1, <3>2 DEF W
  <2>9. R \in SUBSET Type /\ Cardinality(Type \ S) \in Nat
    BY <1>1, <2>1
  <2> HIDE DEF Has, R
  <2> QED
    BY <1>4, <2>7, <2>8, <2>9
<1>6. S = Type
  BY <1>5
<1> QED
  BY <1>4, <1>6

\* What longestRequirementDepth computes, where there is no cycle.
LEMMA LongestIs ==
    ASSUME ClosureTypeOK,
           \A S \in SUBSET Type : S # {} => \E t \in S : Children(t) \cap S = {}
    PROVE  IsLongest(Type, LongestFrom)
<1> DEFINE Deeper(f) == [t \in Type |-> Deepest(f, Children(t))]
<1>1. LongestFrom = CHOOSE f : f = Deeper(f)
  BY DEF LongestFrom, Deepest
<1>2. \E f : f = Deeper(f)
  <2>1. PICK f : IsLongest(Type, f)
    BY LongestExists
  <2>2. f = Deeper(f)
    BY <2>1 DEF IsLongest
  <2> QED
    BY <2>2
<1>3. LongestFrom = Deeper(LongestFrom)
  <2> HIDE DEF Deeper
  <2> QED
    BY <1>1, <1>2
<1> DEFINE g == LongestFrom
           B == {t \in Type : g[t] \notin Nat}
<1>4. \A t \in Type : g[t] = Deepest(g, Children(t))
  BY <1>3
<1>5. \A t \in Type : Children(t) \subseteq Type
  BY ChildrenAreNodes
<1>6. ASSUME B # {} PROVE FALSE
  <2>1. PICK t \in B : Children(t) \cap B = {}
    BY <1>6
  <2>2. \A s \in Children(t) : g[s] \in Nat
    BY <1>5, <2>1
  <2>3. Deepest(g, Children(t)) \in Nat
    <3>1. Children(t) \in SUBSET Type /\ \A s \in Children(t) : g[s] \in Nat
      BY <1>5, <2>1, <2>2
    <3> HIDE DEF g
    <3> QED
      BY <3>1, DeepestIs
  <2> QED
    BY <1>4, <2>1, <2>3
<1>7. \A t \in Type : g[t] \in Nat
  BY <1>6
<1>8. g \in [Type -> Nat]
  <2>1. g = [t \in Type |-> g[t]]
    BY <1>3
  <2> QED
    BY <1>7, <2>1
<1> QED
  BY <1>4, <1>5, <1>8 DEF IsLongest

\* What is required is a type.
LEMMA RequiresTypes ==
    ASSUME ClosureTypeOK
    PROVE  \A t : Requires(t) \in SUBSET Type
<1>1. \A e \in graph : e.skill \in Type
  BY DEF ClosureTypeOK, Edge
<1> QED
  BY <1>1 DEF Requires

\* What has been found of a type is required by it.
LEMMA ChildrenAreRequired ==
    ASSUME ClosureIInv
    PROVE  \A t : Children(t) \subseteq Requires(t)
<1>1. ASSUME NEW f \in rawEdges, f.level > 0
      PROVE  f \in graph /\ f.level \in 1..5
  <2>1. f \in graph /\ f \in Edge /\ Valid(f)
    BY DEF ClosureIInv, ClosureTypeOK, ClosureEvidence
  <2> QED
    BY <1>1, <2>1 DEF Valid, Edge
<1> QED
  BY <1>1 DEF Children, Requires

\* A way of no rows; one with a row in front; and one without its first row.
LEMMA WaysFrom ==
    ASSUME NEW t \in Type
    PROVE  /\ Ways(0, t) # {}
           /\ \A n \in Nat : \A s \in Requires(t) :
                Ways(n, s) # {} => Ways(n + 1, t) # {}
           /\ \A n \in Nat \ {0} :
                Ways(n, t) # {} => \E s \in Requires(t) : Ways(n - 1, s) # {}
<1>1. Ways(0, t) # {}
  <2>1. [i \in 0..0 |-> t] \in Ways(0, t)
    BY DEF Ways
  <2> QED
    BY <2>1
<1>2. ASSUME NEW n \in Nat, NEW s \in Requires(t), Ways(n, s) # {}
      PROVE  Ways(n + 1, t) # {}
  <2>1. PICK q \in [0..n -> Type] :
          q[0] = s /\ \A i \in 1..n : q[i] \in Requires(q[i - 1])
    BY <1>2 DEF Ways
  <2> DEFINE p == [i \in 0..(n + 1) |-> IF i = 0 THEN t ELSE q[i - 1]]
  <2>2. p \in [0..(n + 1) -> Type] /\ p[0] = t
    BY <2>1
  <2>3. \A i \in 1..(n + 1) : p[i] = q[i - 1]
    OBVIOUS
  <2>4. ASSUME NEW i \in 1..(n + 1) PROVE p[i] \in Requires(p[i - 1])
    <3>1. CASE i = 1
      BY <2>1, <2>2, <2>3, <3>1
    <3>2. CASE i # 1
      <4>1. i - 1 \in 1..n /\ i - 1 \in 1..(n + 1) /\ p[i] = q[i - 1]
        BY <3>2
      <4>2. p[i - 1] = q[i - 1 - 1]
        BY <4>1
      <4> HIDE DEF p
      <4> QED
        BY <2>1, <4>1, <4>2
    <3> QED
      BY <3>1, <3>2
  <2>5. p \in Ways(n + 1, t)
    <3> HIDE DEF p
    <3> QED
      BY <2>2, <2>4 DEF Ways
  <2> QED
    BY <2>5
<1>3. ASSUME NEW n \in Nat \ {0}, Ways(n, t) # {}
      PROVE  \E s \in Requires(t) : Ways(n - 1, s) # {}
  <2>1. PICK p \in [0..n -> Type] :
          p[0] = t /\ \A i \in 1..n : p[i] \in Requires(p[i - 1])
    BY <1>3 DEF Ways
  <2> DEFINE q == [i \in 0..(n - 1) |-> p[i + 1]]
  <2>2. q \in [0..(n - 1) -> Type] /\ q[0] = p[1]
    BY <2>1
  <2>3. ASSUME NEW i \in 1..(n - 1) PROVE q[i] \in Requires(q[i - 1])
    <3>1. i + 1 \in 1..n /\ (i + 1) - 1 = i /\ q[i] = p[i + 1] /\ q[i - 1] = p[i]
      OBVIOUS
    <3>2. p[i + 1] \in Requires(p[(i + 1) - 1])
      BY <2>1, <3>1
    <3> HIDE DEF q
    <3> QED
      BY <3>1, <3>2
  <2>4. q \in Ways(n - 1, p[1])
    <3> HIDE DEF q
    <3> QED
      BY <2>2, <2>3 DEF Ways
  <2>5. p[1] \in Requires(t)
    <3>1. 1 \in 1..n /\ 1 - 1 = 0
      OBVIOUS
    <3> QED
      BY <2>1, <3>1
  <2> QED
    BY <2>4, <2>5
<1> QED
  BY <1>1, <1>2, <1>3

\* From a type of depth n there are ways of up to n rows and no more.
LEMMA DepthIsLongestWay ==
    ClosureIInv /\ ClosureWay /\ stack = <<>> =>
      \A n \in Nat, t \in Followed : LongestFrom[t] >= n <=> Ways(n, t) # {}
<1> SUFFICES ASSUME ClosureIInv, ClosureWay, stack = <<>>
             PROVE  \A n \in Nat, t \in Followed :
                      LongestFrom[t] >= n <=> Ways(n, t) # {}
  OBVIOUS
<1>1. IsLongest(Type, LongestFrom)
  BY CompleteIsAcyclic, LongestIs DEF ClosureIInv
<1>2. /\ Followed \subseteq Type
      /\ \A t \in Followed : /\ Children(t) = Requires(t)
                             /\ Requires(t) \subseteq Followed
  BY FollowedIsComplete DEF Followed
<1>3. /\ \A t \in Type : LongestFrom[t] \in Nat
      /\ \A t \in Followed : \A s \in Requires(t) : LongestFrom[t] >= LongestFrom[s] + 1
      /\ \A t \in Followed : LongestFrom[t] > 0 =>
           \E s \in Requires(t) : LongestFrom[t] = LongestFrom[s] + 1
  <2>1. \A t \in Type : /\ LongestFrom[t] \in Nat
                        /\ Children(t) \in SUBSET Type
                        /\ LongestFrom[t] = Deepest(LongestFrom, Children(t))
    BY <1>1 DEF IsLongest
  <2>2. ASSUME NEW t \in Followed
        PROVE  /\ \A s \in Children(t) : LongestFrom[t] >= LongestFrom[s] + 1
               /\ LongestFrom[t] > 0 =>
                    \E s \in Children(t) : LongestFrom[t] = LongestFrom[s] + 1
    <3>1. /\ Children(t) \in SUBSET Type
          /\ \A s \in Children(t) : LongestFrom[s] \in Nat
          /\ LongestFrom[t] = Deepest(LongestFrom, Children(t))
      BY <1>2, <2>1
    <3>2. /\ \A s \in Children(t) :
               Deepest(LongestFrom, Children(t)) >= LongestFrom[s] + 1
          /\ Deepest(LongestFrom, Children(t)) > 0 =>
               \E s \in Children(t) :
                  Deepest(LongestFrom, Children(t)) = LongestFrom[s] + 1
      BY <3>1, DeepestIs
    <3> QED
      BY <3>1, <3>2
  <2> QED
    BY <1>2, <2>1, <2>2
<1> DEFINE Right(n) == \A t \in Followed : LongestFrom[t] >= n <=> Ways(n, t) # {}
<1>4. ASSUME NEW N \in Nat, ~Right(N) PROVE FALSE
  <2> DEFINE Bad == {n \in 0..N : ~Right(n)}
  <2>1. PICK m \in Bad : \A y \in Bad : m <= y
    <3> HIDE DEF Right
    <3>1. Bad \in SUBSET (0..N) /\ Bad # {}
      BY <1>4
    <3> HIDE DEF Bad
    <3> QED
      BY <3>1, LeastOf
  <2>2. m \in Nat /\ ~Right(m) /\ \A y \in 0..N : y < m => Right(y)
    BY <2>1
  <2> HIDE DEF Bad
  <2>3. m # 0
    <3>1. Right(0)
      BY <1>2, <1>3, WaysFrom
    <3> QED
      BY <2>2, <3>1
  <2>4. Right(m - 1) /\ m - 1 \in Nat /\ m \in Nat \ {0} /\ (m - 1) + 1 = m
    <3> HIDE DEF Right
    <3>1. m - 1 \in 0..N /\ m - 1 < m
      BY <2>1, <2>2, <2>3 DEF Bad
    <3> QED
      BY <2>2, <2>3, <3>1
  <2>5. ASSUME NEW t \in Followed, LongestFrom[t] >= m PROVE Ways(m, t) # {}
    <3>1. t \in Type /\ LongestFrom[t] \in Nat /\ LongestFrom[t] > 0
      BY <1>2, <1>3, <2>4, <2>5
    <3>2. PICK s \in Requires(t) : LongestFrom[t] = LongestFrom[s] + 1
      BY <1>3, <3>1
    <3>3. s \in Followed /\ LongestFrom[s] \in Nat
      BY <1>2, <1>3, <3>2
    <3>4. LongestFrom[s] >= m - 1
      BY <2>4, <2>5, <3>2, <3>3
    <3>5. Ways(m - 1, s) # {}
      BY <2>4, <3>3, <3>4
    <3> QED
      BY <2>4, <3>1, <3>2, <3>5, WaysFrom
  <2>6. ASSUME NEW t \in Followed, Ways(m, t) # {} PROVE LongestFrom[t] >= m
    <3>1. t \in Type
      BY <1>2
    <3>2. PICK s \in Requires(t) : Ways(m - 1, s) # {}
      BY <2>4, <2>6, <3>1, WaysFrom
    <3>3. s \in Followed /\ LongestFrom[s] >= m - 1
      BY <1>2, <2>4, <3>2
    <3>4. LongestFrom[t] >= LongestFrom[s] + 1 /\ LongestFrom[s] \in Nat
          /\ LongestFrom[t] \in Nat
      BY <1>2, <1>3, <3>1, <3>2, <3>3
    <3> QED
      BY <2>4, <3>3, <3>4
  <2> QED
    BY <2>2, <2>5, <2>6
<1> QED
  BY <1>4

\* Ways from the target: those of no rows, and one row more or less.
LEMMA LeadsOn ==
    ASSUME NEW n \in Nat, NEW t, LeadsTo(n, t), NEW c \in Requires(t), c \in Type
    PROVE  LeadsTo(n + 1, c)
<1>1. PICK p \in [0..n -> Type] : /\ p[0] = Target /\ p[n] = t
                                  /\ \A i \in 1..n : p[i] \in Requires(p[i - 1])
  BY DEF LeadsTo, Ways
<1> DEFINE q == [i \in 0..(n + 1) |-> IF i = n + 1 THEN c ELSE p[i]]
<1>2. /\ q \in [0..(n + 1) -> Type] /\ q[n + 1] = c
      /\ \A i \in 0..n : q[i] = p[i]
  BY <1>1
<1> HIDE DEF q
<1>3. ASSUME NEW i \in 1..(n + 1) PROVE q[i] \in Requires(q[i - 1])
  <2>1. CASE i = n + 1
    <3>1. i - 1 = n /\ n \in 0..n
      BY <2>1
    <3> QED
      BY <1>1, <1>2, <2>1, <3>1
  <2>2. CASE i # n + 1
    <3>1. i \in 1..n /\ i \in 0..n /\ i - 1 \in 0..n
      BY <2>2
    <3> QED
      BY <1>1, <1>2, <3>1
  <2> QED
    BY <2>1, <2>2
<1>4. q[0] = Target
  BY <1>1, <1>2
<1>5. q \in Ways(n + 1, Target)
  BY <1>2, <1>3, <1>4 DEF Ways
<1> QED
  BY <1>2, <1>5 DEF LeadsTo

\* What a way of some rows leads to is required by what one row less leads to.
LEMMA LeadsFrom ==
    ASSUME NEW n \in Nat \ {0}, NEW c, LeadsTo(n, c)
    PROVE  \E t \in Type : LeadsTo(n - 1, t) /\ c \in Requires(t)
<1>1. PICK p \in [0..n -> Type] : /\ p[0] = Target /\ p[n] = c
                                  /\ \A i \in 1..n : p[i] \in Requires(p[i - 1])
  BY DEF LeadsTo, Ways
<1> DEFINE q == [i \in 0..(n - 1) |-> p[i]]
<1>2. q \in [0..(n - 1) -> Type] /\ \A i \in 0..(n - 1) : q[i] = p[i]
  BY <1>1
<1> HIDE DEF q
<1>3. q[0] = Target /\ q[n - 1] = p[n - 1] /\ p[n - 1] \in Type
  BY <1>1, <1>2
<1>4. \A i \in 1..(n - 1) : q[i] \in Requires(q[i - 1])
  BY <1>1, <1>2
<1>5. q \in Ways(n - 1, Target)
  BY <1>2, <1>3, <1>4 DEF Ways
<1>6. c \in Requires(p[n - 1])
  BY <1>1
<1> QED
  BY <1>3, <1>5, <1>6 DEF LeadsTo

\* A way of no rows leads nowhere else.
LEMMA LeadsAtStart == \A t : LeadsTo(0, t) <=> t = Target
<1>1. LeadsTo(0, Target)
  <2>1. [i \in 0..0 |-> Target] \in Ways(0, Target)
    BY ClosureAssumption DEF Ways
  <2> QED
    BY <2>1 DEF LeadsTo
<1>2. ASSUME NEW t, LeadsTo(0, t) PROVE t = Target
  BY <1>2 DEF LeadsTo, Ways
<1> QED
  BY <1>1, <1>2

\* Where the target leads to is followed.
LEMMA LeadsToFollowed ==
    ASSUME ClosureTypeOK
    PROVE  \A n \in Nat : \A t : LeadsTo(n, t) => t \in Followed
<1> DEFINE Right(n) == \A t : LeadsTo(n, t) => t \in Followed
<1>1. ASSUME NEW N \in Nat, ~Right(N) PROVE FALSE
  <2> DEFINE Bad == {n \in 0..N : ~Right(n)}
  <2>1. PICK m \in Bad : \A y \in Bad : m <= y
    <3> HIDE DEF Right
    <3>1. Bad \in SUBSET (0..N) /\ Bad # {}
      BY <1>1
    <3> HIDE DEF Bad
    <3> QED
      BY <3>1, LeastOf
  <2>2. m \in 0..N /\ ~Right(m) /\ \A y \in 0..N : y < m => Right(y)
    BY <2>1
  <2> HIDE DEF Bad
  <2>3. PICK c : LeadsTo(m, c) /\ c \notin Followed
    BY <2>2
  <2>4. m # 0
    BY <2>3, LeadsAtStart, FollowedOnward
  <2>5. PICK t \in Type : LeadsTo(m - 1, t) /\ c \in Requires(t)
    BY <2>2, <2>3, <2>4, LeadsFrom
  <2>6. t \in Followed
    <3> HIDE DEF Right
    <3>1. Right(m - 1)
      BY <2>2, <2>4
    <3> QED
      BY <2>5, <3>1 DEF Right
  <2>7. c \in Followed
    <3>1. PICK e \in graph : e.source = t /\ e.level \in 1..5 /\ c = e.skill
      BY <2>5 DEF Requires
    <3> QED
      BY <2>6, <3>1, FollowedOnward DEF ClosureTypeOK
  <2> QED
    BY <2>3, <2>7
<1> QED
  BY <1>1

\* When the queue is empty, every distance is a shortest one.
LEMMA DistancesAreShortest ==
    ASSUME ClosureIInv, ClosureDistance, stack = <<>>, queue = <<>>,
           phase \in {"measuring", "ordering", "done"}
    PROVE  \A t \in Type : IF t \in Followed
                           THEN depths[t] \in Nat /\ Distance(depths[t], t)
                           ELSE depths[t] = -1
<1>1. /\ depths \in [Type -> Nat \cup {-1}] /\ depths[Target] = 0 /\ Target \in Type
      /\ \A t \in Type : depths[t] # -1 =>
           /\ LeadsTo(depths[t], t)
           /\ \A c \in Children(t) : depths[c] # -1 /\ depths[c] <= depths[t] + 1
  <2>1. ToSet(queue) = {}
    BY DEF ToSet
  <2> QED
    BY <2>1, ClosureAssumption DEF ClosureIInv, ClosureTypeOK, ClosureDistance
<1>2. /\ Followed \subseteq Type
      /\ \A t \in Followed : Children(t) = Requires(t) /\ Requires(t) \in SUBSET Type
  BY FollowedIsComplete, RequiresTypes DEF Followed, ClosureIInv
<1>3. \A t \in Type : depths[t] # -1 => depths[t] \in Nat /\ t \in Followed
  BY <1>1, LeadsToFollowed DEF ClosureIInv
<1> DEFINE Right(n) == \A t : LeadsTo(n, t) => depths[t] # -1 /\ depths[t] <= n
<1>4. ASSUME NEW N \in Nat, ~Right(N) PROVE FALSE
  <2> DEFINE Bad == {n \in 0..N : ~Right(n)}
  <2>1. PICK m \in Bad : \A y \in Bad : m <= y
    <3> HIDE DEF Right
    <3>1. Bad \in SUBSET (0..N) /\ Bad # {}
      BY <1>4
    <3> HIDE DEF Bad
    <3> QED
      BY <3>1, LeastOf
  <2>2. m \in 0..N /\ ~Right(m) /\ \A y \in 0..N : y < m => Right(y)
    BY <2>1
  <2> HIDE DEF Bad
  <2>3. PICK c : LeadsTo(m, c) /\ ~(depths[c] # -1 /\ depths[c] <= m)
    BY <2>2
  <2>4. m # 0
    BY <1>1, <2>3, LeadsAtStart
  <2>5. PICK t \in Type : LeadsTo(m - 1, t) /\ c \in Requires(t)
    BY <2>2, <2>3, <2>4, LeadsFrom
  <2>6. depths[t] # -1 /\ depths[t] <= m - 1
    <3> HIDE DEF Right
    <3>1. Right(m - 1)
      BY <2>2, <2>4
    <3> QED
      BY <2>5, <3>1 DEF Right
  <2>7. t \in Followed /\ depths[t] \in Nat
    BY <1>3, <2>5, <2>6
  <2>8. c \in Type /\ depths[c] # -1 /\ depths[c] <= depths[t] + 1
    BY <1>1, <1>2, <2>5, <2>6, <2>7
  <2>9. depths[c] \in Nat
    BY <1>3, <2>8
  <2> QED
    BY <2>2, <2>3, <2>6, <2>7, <2>8, <2>9
<1>5. \A n \in Nat : Right(n)
  BY <1>4
<1>6. Followed \subseteq {t \in Type : depths[t] # -1}
  <2> DEFINE D == {t \in Type : depths[t] # -1}
  <2>1. Target \in D
    BY <1>1
  <2>2. ASSUME NEW t \in D, NEW c \in Requires(t) PROVE c \in D
    BY <1>1, <1>2, <1>3
  <2>3. Closed(D)
    <3> HIDE DEF D
    <3> QED
      BY <2>1, <2>2 DEF Closed
  <2> QED
    BY <2>3, FollowedIsLeast
<1>7. ASSUME NEW t \in Followed PROVE depths[t] \in Nat /\ Distance(depths[t], t)
  <2>1. t \in Type /\ depths[t] # -1
    BY <1>6
  <2>2. depths[t] \in Nat /\ LeadsTo(depths[t], t)
    BY <1>1, <1>3, <2>1
  <2>3. ASSUME NEW m \in 0..(depths[t] - 1), LeadsTo(m, t) PROVE FALSE
    <3>1. m \in Nat /\ ~(depths[t] <= m)
      BY <2>2
    <3> QED
      BY <1>5, <2>3, <3>1
  <2> QED
    BY <2>2, <2>3 DEF Distance
<1>8. ASSUME NEW t \in Type, t \notin Followed PROVE depths[t] = -1
  BY <1>3, <1>8
<1> QED
  BY <1>7, <1>8

\* The rows stay, and so does what is said of them.
LEMMA SoundStays ==
    ASSUME graph' = graph
    PROVE  /\ Sound' = Sound /\ \A n, t : LeadsTo(n, t)' = LeadsTo(n, t)
           /\ \A n, t : Ways(n, t)' = Ways(n, t)
<1>1. \A t : Requires(t)' = Requires(t)
  BY DEF Requires
<1>2. \A n, t : Ways(n, t)' = Ways(n, t)
  BY <1>1 DEF Ways
<1>3. Followed' = Followed /\ Relevant' = Relevant
  BY GraphStays
<1>4. WithoutCycles' = WithoutCycles
  BY <1>1, <1>3 DEF WithoutCycles
<1>5. Sound' = Sound
  BY <1>2, <1>3, <1>4 DEF Sound, Valid
<1> QED
  BY <1>2, <1>5 DEF LeadsTo

---------------------------------------------------------------------------
(* The steps *)

\* Nothing is found yet.
LEMMA ExactAtStart == ClosureInit => ClosureXInv
<1> SUFFICES ASSUME ClosureInit PROVE ClosureXInv
  OBVIOUS
<1>1. ClosureIInv
  BY ClosureAtStart
<1>2. ClosureWay
  BY DEF ClosureInit, ClosureWay
<1>3. ClosureDistance
  BY DEF ClosureInit, ClosureDistance
<1>4. ClosureVerdict
  BY DEF ClosureInit, ClosureVerdict, Errors
<1> QED
  BY <1>1, <1>2, <1>3, <1>4 DEF ClosureXInv

\* A row that is refused shows that the graph is not sound.
LEMMA RefusedIsUnsound ==
    ASSUME ClosureXInv, phase = "visiting", NEW e \in Top.rows, ErrorOf(e) # "none"
    PROVE  ~Sound
<1> DEFINE n == Len(stack)
<1>1. ClosureIInv /\ ClosureWay
  BY DEF ClosureXInv
<1>2. /\ n \in Nat \ {0} /\ DOMAIN stack = 1..n /\ Top = stack[n]
      /\ stack \in [1..n -> [type: Type, rows: SUBSET graph]]
  <2>1. stack \in Seq([type: Type, rows: SUBSET graph])
    BY <1>1 DEF ClosureIInv, ClosureTypeOK
  <2> QED
    BY <1>1, <2>1, TopOfPath, LenProperties
<1>3. e \in Edge /\ e \in graph /\ e.source = Top.type
  <2>1. e \in RowsOf(Top.type)
    BY <1>1, TopOfPath
  <2> QED
    BY <1>1, <2>1 DEF RowsOf, ClosureIInv, ClosureTypeOK
<1>4. /\ \A i \in 1..n : stack[i].type \in Type /\ stack[i].type \in Followed
      /\ Followed \subseteq Type
  <2>1. \A i \in 1..n : stack[i].type \in Type
    BY <1>2
  <2>2. \A i \in 1..n : visitState[stack[i].type] # "new"
    BY <1>1, <1>2 DEF ClosureIInv, ClosurePath
  <2> QED
    BY <1>1, <2>1, <2>2 DEF ClosureIInv, ClosureEvidence, Followed
<1>5. e \in Relevant
  <2>1. n \in 1..n
    BY <1>2
  <2> QED
    BY <1>2, <1>3, <1>4, <2>1 DEF Relevant
<1>6. CASE ~Valid(e) \/ e.source = e.skill
  BY <1>5, <1>6 DEF Sound
<1>7. ASSUME Valid(e), e.source # e.skill PROVE ~Sound
  <2>1. /\ rawEdges \cup {e} \subseteq Relevant
        /\ Relevant \subseteq Edge
    <3>1. /\ graph \subseteq Edge /\ rawEdges \subseteq graph
          /\ \A f \in rawEdges : f.source \in Type
      BY <1>1 DEF ClosureIInv, ClosureTypeOK, Edge
    <3> QED
      BY <1>1, <1>5, <3>1 DEF ClosureIInv, ClosureEvidence, Relevant
  <2>2. CASE Cardinality(rawEdges \cup {e}) > MaxEdges
    <3>1. Cardinality(rawEdges \cup {e}) <= Cardinality(Relevant)
      BY <2>1, RowsFinite, FS_Subset
    <3>2. /\ Cardinality(rawEdges \cup {e}) \in Nat /\ Cardinality(Relevant) \in Nat
          /\ MaxEdges \in Nat
      BY <2>1, RowsFinite, ClosureAssumption
    <3>3. ~(Cardinality(Relevant) <= MaxEdges)
      BY <2>2, <3>1, <3>2
    <3> QED
      BY <3>3 DEF Sound
  <2>3. CASE Cardinality(Skills(rawEdges \cup {e})) > MaxNodes
    <3>1. /\ Skills(rawEdges \cup {e}) \subseteq Skills(Relevant)
          /\ Skills(Relevant) \subseteq Type
      BY <2>1 DEF Skills, Edge
    <3>2. Cardinality(Skills(rawEdges \cup {e})) <= Cardinality(Skills(Relevant))
      BY <3>1, FinitelyMany, FS_Subset
    <3>3. /\ Cardinality(Skills(rawEdges \cup {e})) \in Nat
          /\ Cardinality(Skills(Relevant)) \in Nat /\ MaxNodes \in Nat
      BY <3>1, FinitelyMany, ClosureAssumption
    <3>4. ~(Cardinality(Skills(Relevant)) <= MaxNodes)
      BY <2>3, <3>2, <3>3
    <3> QED
      BY <3>4 DEF Sound
  <2>4. /\ \A i \in 2..n : stack[i].type \in Requires(stack[i - 1].type)
        /\ Follows(e) => e.skill \in Requires(Top.type) /\ e.skill \in Type
    <3>1. \A t : Children(t) \subseteq Requires(t)
      BY <1>1, ChildrenAreRequired
    <3>2. \A i \in 2..n : stack[i].type \in Requires(stack[i - 1].type)
      BY <1>1, <3>1 DEF ClosureWay
    <3>3. Follows(e) => e.skill \in Requires(Top.type) /\ e.skill \in Type
      BY <1>3, <1>7 DEF Follows, Valid, Requires, Edge
    <3> QED
      BY <3>2, <3>3
  <2>5. CASE Follows(e) /\ visitState[e.skill] = "visiting"
    <3>1. PICK j \in 1..n : stack[j].type = e.skill
      BY <1>1, <1>2, <2>4, <2>5 DEF ClosureIInv, ClosurePath
    <3> DEFINE S == {stack[k].type : k \in j..n}
    <3>2. S \in SUBSET Followed /\ S # {}
      BY <1>2, <1>4, <3>1
    <3>3. ASSUME NEW t \in S PROVE Requires(t) \cap S # {}
      <4>1. PICK k \in j..n : t = stack[k].type
        OBVIOUS
      <4>2. CASE k = n
        BY <1>2, <2>4, <2>5, <3>1, <4>1, <4>2
      <4>3. CASE k # n
        <5>1. k + 1 \in 2..n /\ (k + 1) - 1 = k /\ k + 1 \in j..n
          BY <1>2, <3>1, <4>1, <4>3
        <5>2. stack[k + 1].type \in Requires(t) /\ stack[k + 1].type \in S
          BY <2>4, <4>1, <5>1
        <5> QED
          BY <5>2
      <4> QED
        BY <4>2, <4>3
    <3>4. ~WithoutCycles
      <4> HIDE DEF S
      <4> QED
        BY <3>2, <3>3 DEF WithoutCycles
    <3> QED
      BY <3>4 DEF Sound
  <2>6. CASE Follows(e) /\ n > MaxDepth
    <3> DEFINE d == MaxDepth + 1
               p == [i \in 0..d |-> IF i < n THEN stack[i + 1].type ELSE e.skill]
    <3>1. d \in Nat \ {0} /\ d <= n
      BY <1>2, <2>6, ClosureAssumption
    <3>2. p \in [0..d -> Type] /\ p[0] = Target
      <4>1. \A i \in 0..d : p[i] \in Type
        BY <1>2, <1>4, <2>4, <2>6, <3>1
      <4>2. p[0] = stack[1].type
        BY <1>2, <3>1
      <4>3. stack[1].type = Target
        BY <1>1 DEF ClosureWay
      <4> QED
        BY <4>1, <4>2, <4>3
    <3>3. ASSUME NEW i \in 1..d PROVE p[i] \in Requires(p[i - 1])
      <4>1. i - 1 \in 0..d /\ i - 1 < n /\ (i - 1) + 1 = i
        BY <1>2, <3>1
      <4>2. p[i - 1] = stack[i].type
        BY <4>1
      <4>3. CASE i < n
        <5>1. p[i] = stack[i + 1].type /\ i + 1 \in 2..n /\ (i + 1) - 1 = i
          BY <1>2, <3>1, <4>3
        <5> HIDE DEF p
        <5> QED
          BY <2>4, <4>2, <5>1
      <4>4. CASE ~(i < n)
        <5>1. i = n /\ p[i] = e.skill
          <6>1. p[i] = e.skill
            BY <4>4
          <6> HIDE DEF n, d, p
          <6> QED
            BY <1>2, <3>1, <4>4, <6>1
        <5> HIDE DEF p
        <5> QED
          BY <1>2, <2>4, <2>6, <4>2, <5>1
      <4> QED
        BY <4>3, <4>4
    <3>4. p \in Ways(d, Target)
      <4> HIDE DEF p, d
      <4> QED
        BY <3>2, <3>3 DEF Ways
    <3> QED
      BY <3>4 DEF Sound
  <2>7. \/ Cardinality(rawEdges \cup {e}) > MaxEdges
        \/ Cardinality(Skills(rawEdges \cup {e})) > MaxNodes
        \/ Follows(e) /\ n > MaxDepth
        \/ Follows(e) /\ visitState[e.skill] = "visiting"
    BY <1>7 DEF ErrorOf
  <2> QED
    BY <2>2, <2>3, <2>5, <2>6, <2>7
<1> QED
  BY <1>6, <1>7

\* A row that is taken is on the way down, or leads to what is complete.
LEMMA ExactTaken ==
    ASSUME ClosureXInv, NEW e, Taken(e)
    PROVE  ClosureWay' /\ ClosureDistance' /\ ClosureVerdict'
<1> DEFINE n   == Len(stack)
           m   == Len(stack')
           met == Met(e)
           After(t) == {f.skill : f \in {g \in rawEdges' : g.source = t /\ g.level > 0}}
<1>1. /\ phase = "visiting" /\ phase' = "visiting" /\ e \in Top.rows
      /\ rawEdges' = rawEdges \cup {e} /\ graph' = graph
      /\ queue' = queue /\ depths' = depths
      /\ ClosureIInv /\ ClosureWay /\ ClosureDistance
  BY DEF Taken, measures, ClosureXInv
<1>2. /\ e.source = Top.type /\ e.source \in Type /\ e.skill \in Type
      /\ Follows(e) => visitState[e.skill] # "visiting"
      /\ n \in Nat \ {0} /\ DOMAIN stack = 1..n /\ Top = stack[n]
      /\ visitState[e.source] = "visiting"
  BY <1>1, RowTaken, TopOfPath
<1>3. /\ \A i \in 1..n : stack'[i].type = stack[i].type
      /\ met => m = n + 1 /\ stack'[n + 1].type = e.skill
      /\ ~met => m = n
  <2>1. /\ stack' \in Seq([type: Type, rows: SUBSET graph])
        /\ met => DOMAIN stack' = 1..(n + 1) /\ stack'[n + 1].type = e.skill
        /\ ~met => DOMAIN stack' = 1..n
        /\ \A i \in 1..n : stack'[i].type = stack[i].type
    BY <1>1, RowTaken
  <2>2. m \in Nat /\ DOMAIN stack' = 1..m
    BY <2>1, LenProperties
  <2> HIDE DEF met, m, n
  <2> QED
    BY <1>2, <2>1, <2>2
<1>4. /\ visitState \in [Type -> {"new", "visiting", "complete"}]
      /\ \A t \in Type : visitState'[t] = "complete" <=> visitState[t] = "complete"
  <2>1. /\ \A t \in Type : t # e.skill => visitState'[t] = visitState[t]
        /\ met => visitState'[e.skill] = "visiting" /\ visitState[e.skill] = "new"
        /\ ~met => visitState'[e.skill] = visitState[e.skill]
    BY <1>1, RowTaken DEF Met
  <2> QED
    BY <1>1, <2>1 DEF ClosureIInv, ClosureTypeOK
<1>5. /\ \A t : Children(t) \subseteq After(t)
      /\ \A t : t # e.source => After(t) = Children(t)
      /\ Follows(e) => e.skill \in After(e.source)
  BY <1>1 DEF Children, Follows
<1> HIDE DEF After
<1>6. stack'[1].type = Target
  BY <1>1, <1>2, <1>3 DEF ClosureWay
<1>7. ASSUME NEW i \in 2..m
      PROVE  stack'[i].type \in After(stack'[i - 1].type)
  <2>1. CASE i \in 2..n
    <3>1. i \in 1..n /\ i - 1 \in 1..n
      BY <1>2, <2>1
    <3>2. stack[i].type \in Children(stack[i - 1].type)
      BY <1>1, <2>1 DEF ClosureWay
    <3> QED
      BY <1>3, <1>5, <3>1, <3>2
  <2>2. CASE i \notin 2..n
    <3>1. met /\ i = n + 1 /\ i - 1 = n /\ n \in 1..n
      BY <1>2, <1>3, <2>2
    <3>2. e.skill \in After(e.source)
      BY <1>5, <3>1 DEF Met
    <3> QED
      BY <1>2, <1>3, <3>1, <3>2
  <2> QED
    BY <2>1, <2>2
<1>8. ASSUME NEW f \in rawEdges', Follows(f)
      PROVE  \/ visitState'[f.skill] = "complete"
             \/ \E i \in 2..m : stack'[i - 1].type = f.source /\ stack'[i].type = f.skill
  <2>1. CASE f \in rawEdges
    <3>1. f.skill \in Type
      BY <1>1, <2>1 DEF ClosureIInv, ClosureTypeOK, Edge
    <3>2. CASE visitState[f.skill] = "complete"
      BY <1>4, <3>1, <3>2
    <3>3. CASE visitState[f.skill] # "complete"
      <4>1. PICK i \in 2..n : stack[i - 1].type = f.source /\ stack[i].type = f.skill
        BY <1>1, <1>8, <2>1, <3>3 DEF ClosureWay
      <4>2. i \in 2..m /\ i \in 1..n /\ i - 1 \in 1..n
        BY <1>2, <1>3
      <4> QED
        BY <1>3, <4>1, <4>2
    <3> QED
      BY <3>2, <3>3
  <2>2. CASE f = e
    <3>1. CASE met
      <4>1. n + 1 \in 2..m /\ (n + 1) - 1 = n /\ n \in 1..n
        BY <1>2, <1>3, <3>1
      <4> QED
        BY <1>2, <1>3, <2>2, <3>1, <4>1
    <3>2. CASE ~met
      <4>1. visitState[e.skill] = "complete"
        BY <1>2, <1>4, <1>8, <2>2, <3>2 DEF Met
      <4> QED
        BY <1>2, <1>4, <2>2, <4>1
    <3> QED
      BY <3>1, <3>2
  <2> QED
    BY <1>1, <2>1, <2>2
<1>9. ASSUME NEW S \in SUBSET {t \in Type : visitState'[t] = "complete"}, S # {}
      PROVE  \E t \in S : After(t) \cap S = {}
  <2>1. S \in SUBSET {t \in Type : visitState[t] = "complete"}
    BY <1>4
  <2>2. PICK t \in S : Children(t) \cap S = {}
    BY <1>1, <1>9, <2>1 DEF ClosureWay
  <2>3. t # e.source
    BY <1>2, <2>1
  <2> QED
    BY <1>5, <2>2, <2>3
<1>10. ClosureWay'
  <2> HIDE DEF met, n
  <2> QED
    BY <1>6, <1>7, <1>8, <1>9, Zenon DEF ClosureWay, Follows, Children, After
<1>11. ClosureDistance'
  BY <1>1 DEF ClosureDistance
<1>12. ClosureVerdict'
  BY <1>1 DEF ClosureVerdict, Errors
<1> QED
  BY <1>10, <1>11, <1>12

\* A row that is refused changes nothing else.
LEMMA ExactRefused ==
    ASSUME ClosureXInv, phase = "visiting", NEW e \in Top.rows, ErrorOf(e) # "none",
           phase' = ErrorOf(e),
           UNCHANGED <<stack, visitState, rawEdges, graph, measures, order>>
    PROVE  ClosureWay' /\ ClosureDistance' /\ ClosureVerdict'
<1>1. phase' \in Errors
  BY DEF ErrorOf, Errors
<1>2. \A t : Children(t)' = Children(t)
  BY DEF Children
<1>3. ClosureWay'
  BY <1>1, <1>2 DEF ClosureXInv, ClosureWay, Errors, Follows
<1>4. ClosureDistance'
  BY <1>1 DEF ClosureXInv, ClosureDistance, Errors
<1>5. ~Sound'
  BY RefusedIsUnsound, SoundStays
<1>6. ClosureVerdict'
  BY <1>1, <1>5 DEF ClosureVerdict, Errors
<1> QED
  BY <1>3, <1>4, <1>6

\* The same of the next state.
LEMMA DepthIsLongestWayNext ==
    (ClosureIInv /\ ClosureWay /\ stack = <<>> =>
       \A n \in Nat, t \in Followed : LongestFrom[t] >= n <=> Ways(n, t) # {})'
BY DepthIsLongestWay, PTL

\* Depths are numbers, in this state and in the next.
LEMMA DepthsAreNumbers ==
    ClosureIInv /\ ClosureWay /\ stack = <<>> => LongestFrom \in [Type -> Nat]
BY CompleteIsAcyclic, LongestIs DEF ClosureIInv, IsLongest

\* In the next state too.
LEMMA DepthsAreNumbersNext ==
    (ClosureIInv /\ ClosureWay /\ stack = <<>> => LongestFrom \in [Type -> Nat])'
BY DepthsAreNumbers, PTL

\* A type whose rows are done is complete without a cycle.
LEMMA CompleteKeepsWay == ClosureXInv /\ Complete => ClosureWay'
<1> SUFFICES ASSUME ClosureXInv, Complete PROVE ClosureWay'
  OBVIOUS
<1> DEFINE n == Len(stack)
<1>1. /\ phase = "visiting" /\ stack' = Popped /\ rawEdges' = rawEdges
      /\ phase' = "visiting" => stack' # <<>>
      /\ ClosureIInv /\ ClosureWay
  BY DEF Complete, ClosureXInv
<1>2. /\ n \in Nat \ {0} /\ DOMAIN stack = 1..n /\ Top = stack[n]
      /\ Top.type \in Type /\ visitState[Top.type] = "visiting"
      /\ Len(stack') = n - 1 /\ \A i \in 1..(n - 1) : stack'[i] = stack[i]
      /\ \A i \in 1..n : visitState[stack[i].type] = "visiting"
  <2>1. \A i \in DOMAIN stack : visitState[stack[i].type] = "visiting"
    BY <1>1 DEF ClosureIInv, ClosurePath
  <2> QED
    BY <1>1, <2>1, TopOfPath
<1>3. /\ visitState \in [Type -> {"new", "visiting", "complete"}]
      /\ \A t \in Type : t # Top.type => visitState'[t] = visitState[t]
      /\ visitState'[Top.type] = "complete"
  BY <1>2 DEF ClosureXInv, ClosureIInv, ClosureTypeOK, Complete
<1>4. \A t : Children(t)' = Children(t)
  BY <1>1 DEF Children
<1>5. \A f \in rawEdges : f.source \in Type /\ f.skill \in Type /\ f.source # f.skill
  BY <1>1 DEF ClosureIInv, ClosureTypeOK, ClosureEvidence, Edge
<1>6. ASSUME phase' = "visiting" PROVE stack'[1].type = Target
  <2>1. n - 1 # 0
    <3>1. stack' \in Seq([type: Type, rows: SUBSET graph])
      BY <1>1, TopOfPath
    <3> QED
      BY <1>1, <1>2, <1>6, <3>1, EmptySeq
  <2>2. 1 \in 1..(n - 1)
    BY <1>2, <2>1
  <2> QED
    BY <1>1, <1>2, <2>2 DEF ClosureWay
<1>7. ASSUME NEW i \in 2..Len(stack')
      PROVE  stack'[i].type \in Children(stack'[i - 1].type)
  <2>1. i \in 1..(n - 1) /\ i - 1 \in 1..(n - 1) /\ i \in 2..n
    BY <1>2
  <2> QED
    BY <1>1, <1>2, <2>1 DEF ClosureWay
<1>8. ASSUME NEW f \in rawEdges, Follows(f)
      PROVE  \/ visitState'[f.skill] = "complete"
             \/ \E i \in 2..Len(stack') : stack'[i - 1].type = f.source
                                          /\ stack'[i].type = f.skill
  <2>1. CASE visitState[f.skill] = "complete"
    BY <1>2, <1>3, <1>5, <2>1
  <2>2. CASE visitState[f.skill] # "complete"
    <3>1. PICK i \in 2..n : stack[i - 1].type = f.source /\ stack[i].type = f.skill
      BY <1>1, <1>8, <2>2 DEF ClosureWay
    <3>2. CASE i = n
      BY <1>2, <1>3, <3>1, <3>2
    <3>3. CASE i # n
      <4>1. i \in 2..(n - 1) /\ i \in 1..(n - 1) /\ i - 1 \in 1..(n - 1)
        <5>1. n \in Nat
          BY <1>2
        <5> HIDE DEF n
        <5> QED
          BY <3>3, <5>1
      <4> QED
        BY <1>2, <3>1, <4>1
    <3> QED
      BY <3>2, <3>3
  <2> QED
    BY <2>1, <2>2
<1>9. ASSUME NEW S \in SUBSET {t \in Type : visitState'[t] = "complete"}, S # {}
      PROVE  \E t \in S : Children(t) \cap S = {}
  <2> DEFINE R == S \ {Top.type}
  <2>1. R \in SUBSET {t \in Type : visitState[t] = "complete"}
    BY <1>3
  <2>2. CASE R = {}
    <3>1. S = {Top.type}
      BY <1>9, <2>2
    <3>2. Top.type \notin Children(Top.type)
      BY <1>5 DEF Children
    <3> QED
      BY <3>1, <3>2
  <2>3. CASE R # {}
    <3>1. PICK t \in R : Children(t) \cap R = {}
      <4> HIDE DEF R
      <4> QED
        BY <1>1, <2>1, <2>3 DEF ClosureWay
    <3>2. visitState[t] = "complete"
      BY <2>1
    <3>3. ASSUME Top.type \in Children(t) PROVE FALSE
      <4>1. PICK f \in rawEdges : f.source = t /\ Follows(f) /\ f.skill = Top.type
        BY <3>3 DEF Children, Follows
      <4>2. visitState[f.skill] # "complete"
        BY <1>2, <4>1
      <4>3. PICK i \in 2..n : stack[i - 1].type = f.source
        BY <1>1, <4>1, <4>2 DEF ClosureWay
      <4>4. i - 1 \in 1..n
        BY <1>2
      <4> QED
        BY <1>2, <3>2, <4>1, <4>3, <4>4
    <3> QED
      BY <3>1, <3>3
  <2> QED
    BY <2>2, <2>3
<1> HIDE DEF n
<1> QED
  BY <1>1, <1>4, <1>6, <1>7, <1>8, <1>9 DEF ClosureWay, Follows

\* When the way is empty, the longest way decides.
LEMMA ExactCompletes ==
    ClosureXInv /\ Complete => ClosureWay' /\ ClosureDistance' /\ ClosureVerdict'
<1> SUFFICES ASSUME ClosureXInv, Complete
             PROVE  ClosureWay' /\ ClosureDistance' /\ ClosureVerdict'
  OBVIOUS
<1>1. /\ phase = "visiting" /\ stack' = Popped /\ rawEdges' = rawEdges /\ graph' = graph
      /\ Popped # <<>> => UNCHANGED <<phase, measures>>
      /\ Popped = <<>> /\ TooDeep => phase' = "limit"
      /\ Popped = <<>> /\ ~TooDeep => /\ phase' = "measuring"
                                      /\ queue' = <<Target>>
                                      /\ depths' = [depths EXCEPT ![Target] = 0]
      /\ ClosureIInv /\ ClosureDistance
  BY DEF Complete, ClosureXInv
<1>2. ClosureWay' /\ ClosureIInv'
  BY CompleteKeepsWay, ClosureCompletes DEF ClosureXInv
<1>3. /\ queue = <<>> /\ \A t \in Type : depths[t] = -1
      /\ depths \in [Type -> Nat \cup {-1}] /\ Target \in Type /\ MaxDepth \in Nat
  BY <1>1, ClosureAssumption DEF ClosureDistance, ClosureIInv, ClosureTypeOK
<1>4. CASE Popped # <<>>
  <2>1. phase' = "visiting" /\ queue' = queue /\ depths' = depths
    BY <1>1, <1>4 DEF measures
  <2> QED
    BY <1>2, <1>3, <2>1 DEF ClosureDistance, ClosureVerdict, Errors
<1>5. CASE Popped = <<>>
  <2>1. TooDeep <=> Ways(MaxDepth + 1, Target) # {}
    <3>1. stack' = <<>>
      BY <1>1, <1>5
    <3>2. LongestFrom' = LongestFrom /\ Followed' = Followed
      BY <1>1, GraphStays DEF LongestFrom, Children
    <3>3. \A n \in Nat, t \in Followed : LongestFrom[t] >= n <=> Ways(n, t)' # {}
      BY <1>2, <3>1, <3>2, DepthIsLongestWayNext
    <3>4. LongestFrom[Target] >= MaxDepth + 1 <=> Ways(MaxDepth + 1, Target) # {}
      <4>1. MaxDepth + 1 \in Nat /\ Target \in Followed
        BY <1>3, FollowedOnward
      <4>2. Ways(MaxDepth + 1, Target)' = Ways(MaxDepth + 1, Target)
        BY <1>1, SoundStays
      <4> QED
        BY <3>3, <4>1, <4>2
    <3>5. LongestFrom[Target] \in Nat
      BY <1>2, <1>3, <3>1, <3>2, DepthsAreNumbersNext
    <3> QED
      BY <1>3, <3>4, <3>5 DEF TooDeep
  <2>2. CASE TooDeep
    <3>1. ~Sound'
      BY <1>1, <2>1, <2>2, SoundStays DEF Sound
    <3> QED
      BY <1>1, <1>2, <1>5, <2>2, <3>1 DEF ClosureDistance, ClosureVerdict
  <2>3. CASE ~TooDeep
    <3>1. /\ phase' = "measuring" /\ queue' = <<Target>>
          /\ depths' = [depths EXCEPT ![Target] = 0]
      BY <1>1, <1>5, <2>3
    <3>2. depths'[Target] = 0 /\ \A t \in Type : depths'[t] # -1 => t = Target
      BY <1>3, <3>1
    <3>3. ToSet(queue') = {Target}
      BY <3>1 DEF ToSet
    <3>4. \A n, t : LeadsTo(n, t)' = LeadsTo(n, t)
      BY <1>1, SoundStays
    <3>5. Ways(MaxDepth + 1, Target)' = {}
      BY <1>1, <2>1, <2>3, SoundStays
    <3>6. ASSUME NEW t \in Type, depths'[t] # -1
          PROVE  t \in ToSet(queue') /\ LeadsTo(depths[t], t)'
      <4>1. t = Target /\ depths'[t] = 0
        BY <3>2, <3>6
      <4>2. LeadsTo(0, t)'
        BY <3>4, <4>1, LeadsAtStart
      <4>3. LeadsTo(depths[t], t)'
        BY <4>1, <4>2
      <4> QED
        BY <3>3, <4>1, <4>3
    <3>7. ClosureDistance'
      BY <3>1, <3>2, <3>3, <3>5, <3>6 DEF ClosureDistance
    <3>8. ClosureVerdict'
      BY <3>1 DEF ClosureVerdict, Errors
    <3> QED
      BY <1>2, <3>7, <3>8
  <2> QED
    BY <2>2, <2>3
<1> QED
  BY <1>4, <1>5

\* What is in the queue when its head is taken and others join it.
LEMMA QueueMoves ==
    ASSUME NEW S, NEW q \in Seq(S), q # <<>>, NEW joining \in Seq(S)
    PROVE  /\ ToSet(q) = {Head(q)} \cup ToSet(Tail(q))
           /\ ToSet(Tail(q) \o joining) = ToSet(Tail(q)) \cup ToSet(joining)
<1> DEFINE t == Tail(q)
           b == Len(joining)
<1>1. /\ Len(q) \in Nat \ {0} /\ DOMAIN q = 1..Len(q) /\ Head(q) = q[1]
      /\ t \in Seq(S) /\ Len(t) = Len(q) - 1
      /\ \A i \in 1..Len(t) : t[i] = q[i + 1]
  BY EmptySeq, LenProperties, HeadTailProperties
<1>2. DOMAIN t = 1..Len(t) /\ Len(t) \in Nat
  BY <1>1, LenProperties
<1>3. b \in Nat /\ DOMAIN joining = 1..b
  BY LenProperties
<1> HIDE DEF t
<1>4. ToSet(q) = {Head(q)} \cup ToSet(t)
  <2>1. ASSUME NEW i \in 1..Len(q) PROVE q[i] = Head(q) \/ \E k \in 1..Len(t) : t[k] = q[i]
    <3>1. CASE i = 1
      BY <1>1, <3>1
    <3>2. CASE i # 1
      <4>1. i - 1 \in 1..Len(t) /\ (i - 1) + 1 = i
        BY <1>1, <3>2
      <4> QED
        BY <1>1, <4>1
    <3> QED
      BY <3>1, <3>2
  <2>2. ASSUME NEW k \in 1..Len(t) PROVE k + 1 \in 1..Len(q)
    BY <1>1
  <2>3. 1 \in 1..Len(q)
    BY <1>1
  <2>4. ASSUME NEW x \in ToSet(q) PROVE x \in {Head(q)} \cup ToSet(t)
    <3>1. PICK i \in 1..Len(q) : x = q[i]
      BY <1>1 DEF ToSet
    <3>2. CASE \E k \in 1..Len(t) : t[k] = x
      <4>1. x \in ToSet(t)
        BY <1>2, <3>2, Zenon DEF ToSet
      <4> QED
        BY <4>1
    <3> QED
      BY <2>1, <3>1, <3>2
  <2>5. ASSUME NEW x \in ToSet(t) PROVE x \in ToSet(q)
    <3>1. PICK k \in 1..Len(t) : x = t[k]
      BY <1>2 DEF ToSet
    <3> QED
      BY <1>1, <2>2, <3>1 DEF ToSet
  <2>6. Head(q) \in ToSet(q)
    BY <1>1, <2>3 DEF ToSet
  <2> QED
    BY <2>4, <2>5, <2>6
<1> DEFINE both == t \o joining
<1>5. /\ both \in Seq(S) /\ Len(both) = Len(t) + b
      /\ \A i \in 1..(Len(t) + b) :
           both[i] = IF i <= Len(t) THEN t[i] ELSE joining[i - Len(t)]
  BY <1>1, ConcatProperties
<1> HIDE DEF b
<1>6. DOMAIN both = 1..(Len(t) + b)
  BY <1>5, LenProperties
<1> HIDE DEF both
<1>7. \A i \in 1..Len(t) : i \in 1..(Len(t) + b) /\ both[i] = t[i]
  BY <1>2, <1>3, <1>5
<1>8. \A i \in 1..b : Len(t) + i \in 1..(Len(t) + b) /\ both[Len(t) + i] = joining[i]
  <2>1. ASSUME NEW i \in 1..b
        PROVE  Len(t) + i \in 1..(Len(t) + b) /\ both[Len(t) + i] = joining[i]
    <3>1. /\ Len(t) + i \in 1..(Len(t) + b) /\ ~(Len(t) + i <= Len(t))
          /\ (Len(t) + i) - Len(t) = i
      BY <1>2, <1>3
    <3> QED
      BY <1>5, <3>1
  <2> QED
    BY <2>1
<1>9. ASSUME NEW i \in 1..(Len(t) + b)
      PROVE  \/ i \in 1..Len(t)
             \/ \E k \in 1..b : i = Len(t) + k
  <2>1. CASE i <= Len(t)
    BY <1>2, <2>1
  <2>2. CASE ~(i <= Len(t))
    <3>1. i - Len(t) \in 1..b /\ i = Len(t) + (i - Len(t))
      BY <1>2, <1>3, <2>2
    <3> QED
      BY <3>1
  <2> QED
    BY <2>1, <2>2
<1>10. ToSet(both) = ToSet(t) \cup ToSet(joining)
  <2>1. ASSUME NEW i \in 1..(Len(t) + b)
        PROVE  both[i] \in ToSet(t) \cup ToSet(joining)
    <3>1. CASE i \in 1..Len(t)
      BY <1>2, <1>7, <3>1 DEF ToSet
    <3>2. CASE \E k \in 1..b : i = Len(t) + k
      BY <1>3, <1>8, <3>2 DEF ToSet
    <3> QED
      BY <1>9, <3>1, <3>2
  <2>2. ASSUME NEW i \in 1..Len(t) PROVE t[i] \in ToSet(both)
    BY <1>6, <1>7 DEF ToSet
  <2>3. ASSUME NEW i \in 1..b PROVE joining[i] \in ToSet(both)
    BY <1>6, <1>8 DEF ToSet
  <2> QED
    BY <1>2, <1>3, <1>6, <2>1, <2>2, <2>3 DEF ToSet
<1> QED
  BY <1>4, <1>10 DEF t, both

\* Whom a shorter way leads to is queued; everyone else keeps their distance.
LEMMA ExactMeasures ==
    ClosureXInv /\ Measure => ClosureWay' /\ ClosureDistance' /\ ClosureVerdict'
<1> SUFFICES ASSUME ClosureXInv, Measure
             PROVE  ClosureWay' /\ ClosureDistance' /\ ClosureVerdict'
  OBVIOUS
<1> DEFINE h      == Head(queue)
           depth  == depths[h] + 1
           better == {t \in Children(h) : Improves(t, depth)}
<1>1. /\ phase = "measuring" /\ queue # <<>> /\ queue \in Seq(Type)
      /\ depths \in [Type -> Nat \cup {-1}]
      /\ phase' = phase /\ graph' = graph /\ rawEdges' = rawEdges
      /\ stack' = stack /\ visitState' = visitState
      /\ ClosureIInv /\ ClosureWay /\ ClosureDistance
  BY DEF ClosureXInv, ClosureIInv, ClosureTypeOK, Measure
<1>2. depths' = [t \in Type |-> IF t \in better THEN depth ELSE depths[t]]
  BY DEF Measure
<1>3. PICK joining \in [1..Cardinality(better) -> better] :
        ToSet(joining) = better /\ queue' = Tail(queue) \o joining
  BY DEF Measure
<1>4. \A t : Children(t)' = Children(t)
  BY <1>1 DEF Children
<1>5. better \in SUBSET Type /\ Cardinality(better) \in Nat
  BY <1>1, ChildrenAreNodes, FinitelyMany DEF ClosureIInv
<1>6. /\ ToSet(queue) = {h} \cup ToSet(Tail(queue))
      /\ ToSet(queue') = ToSet(Tail(queue)) \cup better
  <2>1. joining \in Seq(Type)
    <3> HIDE DEF better
    <3> QED
      BY <1>3, <1>5
  <2>2. /\ ToSet(queue) = {Head(queue)} \cup ToSet(Tail(queue))
        /\ ToSet(Tail(queue) \o joining) = ToSet(Tail(queue)) \cup ToSet(joining)
    BY <1>1, <2>1, QueueMoves
  <2> HIDE DEF better
  <2> QED
    BY <1>3, <2>2
<1>7. h \in Type /\ h \in ToSet(queue) /\ Target \in Type
  BY <1>1, <1>6, HeadTailProperties, ClosureAssumption
<1>8. /\ depths[h] \in Nat /\ depth \in Nat \ {0} /\ LeadsTo(depths[h], h)
      /\ depths[Target] = 0
  BY <1>1, <1>7 DEF ClosureDistance
<1>9. /\ \A t \in better : depths[t] = -1 \/ depth < depths[t]
      /\ \A t \in Children(h) : t \in better \/ (depths[t] # -1 /\ depths[t] <= depth)
      /\ better \subseteq Children(h)
  <2>1. \A t \in Children(h) : t \in Type
    BY <1>1, ChildrenAreNodes DEF ClosureIInv
  <2> QED
    BY <1>1, <1>8, <2>1 DEF Improves
<1>10. h \notin better
  <2>1. h \notin Children(h)
    BY <1>1 DEF Children, ClosureIInv, ClosureEvidence
  <2> QED
    BY <1>9, <2>1
<1>11. \A t \in better : LeadsTo(depth, t)
  BY <1>1, <1>5, <1>8, <1>9, LeadsOn, ChildrenAreRequired
<1> HIDE DEF depth, better, h
<1>12. /\ \A t \in better : depths'[t] = depth
       /\ \A t \in Type : t \notin better => depths'[t] = depths[t]
  BY <1>2, <1>5
<1>13. Target \notin better
  BY <1>8, <1>9
<1>14. ASSUME NEW t \in Type, depths[t] # -1
       PROVE  depths'[t] # -1 /\ depths'[t] <= depths[t]
  BY <1>1, <1>8, <1>9, <1>12, <1>14
<1>15. \A t \in Type : depths'[t] # -1 => LeadsTo(depths'[t], t)
  BY <1>1, <1>11, <1>12 DEF ClosureDistance
<1>16. ASSUME NEW t \in Type, depths'[t] # -1, t \notin ToSet(queue')
       PROVE  \A c \in Children(t) : depths'[c] # -1 /\ depths'[c] <= depths'[t] + 1
  <2> SUFFICES ASSUME NEW c \in Children(t)
               PROVE  depths'[c] # -1 /\ depths'[c] <= depths'[t] + 1
    OBVIOUS
  <2>1. c \in Type /\ t \notin better /\ depths'[t] = depths[t] /\ depths[t] \in Nat
    BY <1>1, <1>6, <1>12, <1>16, ChildrenAreNodes DEF ClosureIInv
  <2>2. CASE t = h
    <3>1. CASE c \in better
      BY <1>8, <1>12, <2>1, <2>2, <3>1 DEF depth
    <3>2. CASE c \notin better
      <4>1. depths[c] # -1 /\ depths[c] <= depth
        BY <1>9, <2>2, <3>2
      <4> QED
        BY <1>12, <2>1, <2>2, <3>2, <4>1 DEF depth
    <3> QED
      BY <3>1, <3>2
  <2>3. CASE t # h
    <3>1. t \notin ToSet(queue)
      BY <1>6, <1>16, <2>3
    <3>2. depths[c] # -1 /\ depths[c] <= depths[t] + 1
      BY <1>1, <1>16, <2>1, <3>1 DEF ClosureDistance
    <3>3. depths'[c] # -1 /\ depths'[c] <= depths[c] /\ depths[c] \in Nat
      BY <1>1, <1>14, <2>1, <3>2
    <3>4. depths'[c] \in Int
      BY <1>1, <1>8, <1>12, <2>1
    <3> QED
      BY <2>1, <3>2, <3>3, <3>4
  <2> QED
    BY <2>2, <2>3
<1>17. \A t \in ToSet(queue') : depths'[t] # -1
  <2>1. \A t \in ToSet(queue) : t \in Type /\ depths[t] # -1
    <3>1. DOMAIN queue = 1..Len(queue) /\ queue \in [1..Len(queue) -> Type]
      BY <1>1, LenProperties
    <3> QED
      BY <1>1, <3>1 DEF ClosureDistance, ToSet
  <2>2. \A t \in better : depths'[t] # -1
    BY <1>8, <1>12
  <2> QED
    BY <1>6, <1>14, <2>1, <2>2
<1>18. ClosureWay'
  BY <1>1, <1>4 DEF ClosureWay, Follows
<1>19. ClosureDistance'
  <2>1. \A t : Ways(MaxDepth + 1, t)' = Ways(MaxDepth + 1, t)
    BY <1>1, SoundStays
  <2>2. Ways(MaxDepth + 1, Target)' = {}
    BY <1>1, <2>1 DEF ClosureDistance
  <2>3. \A n, t : LeadsTo(n, t)' = LeadsTo(n, t)
    BY <1>1, SoundStays
  <2>4. \A t \in Type : depths'[t] # -1 => LeadsTo(depths[t], t)'
    BY <1>15, <2>3
  <2>5. depths'[Target] = 0
    BY <1>7, <1>8, <1>12, <1>13
  <2> QED
    BY <1>1, <1>4, <1>16, <1>17, <2>2, <2>4, <2>5 DEF ClosureDistance
<1>20. ClosureVerdict'
  BY <1>1 DEF ClosureVerdict, Errors
<1> QED
  BY <1>18, <1>19, <1>20

\* From the ordering on, only the places change.
LEMMA RestOfExactStays ==
    ASSUME ClosureXInv, phase \in {"measuring", "ordering"},
           phase = "measuring" => queue = <<>>,
           phase' \in {"ordering", "done"},
           UNCHANGED <<graph, stack, visitState, rawEdges, measures>>
    PROVE  ClosureWay' /\ ClosureDistance'
<1>1. \A t : Children(t)' = Children(t)
  BY DEF Children
<1>2. ClosureWay'
  BY <1>1 DEF ClosureXInv, ClosureWay, Follows
<1>3. queue' = queue /\ depths' = depths /\ queue = <<>>
  BY DEF measures, ClosureXInv, ClosureDistance
<1>4. /\ \A n, t : LeadsTo(n, t)' = LeadsTo(n, t)
      /\ \A n, t : Ways(n, t)' = Ways(n, t)
  BY SoundStays
<1>5. \A t \in Type : LeadsTo(depths[t], t)' = LeadsTo(depths[t], t)
  BY <1>3, <1>4
<1>6. Ways(MaxDepth + 1, Target)' = Ways(MaxDepth + 1, Target)
  BY <1>4
<1>7. ClosureDistance'
  BY <1>1, <1>3, <1>5, <1>6 DEF ClosureXInv, ClosureDistance
<1> QED
  BY <1>2, <1>7

\* Every skill that requires none is available.
LEMMA ExactStartsOrdering ==
    ClosureXInv /\ StartOrdering => ClosureWay' /\ ClosureDistance' /\ ClosureVerdict'
<1> SUFFICES ASSUME ClosureXInv, StartOrdering
             PROVE  ClosureWay' /\ ClosureDistance' /\ ClosureVerdict'
  OBVIOUS
<1>1. /\ phase = "measuring" /\ phase' = "ordering" /\ queue = <<>>
      /\ UNCHANGED <<graph, stack, visitState, rawEdges, measures>>
      /\ indegree' = [t \in Type |-> IF t \in Nodes \ {Target} THEN Indegree(t) ELSE 0]
      /\ available' = {t \in Nodes : indegree'[t] = 0}
  BY DEF StartOrdering, Ready
<1>2. ClosureWay' /\ ClosureDistance'
  BY <1>1, RestOfExactStays
<1>3. indegree'[Target] = 0
  BY <1>1, ClosureAssumption
<1>4. Nodes' = Nodes
  BY <1>1 DEF Nodes
<1>5. ClosureVerdict'
  BY <1>1, <1>3, <1>4 DEF ClosureVerdict, Errors
<1> QED
  BY <1>2, <1>5

\* A counter that becomes 0 makes its skill available.
LEMMA ExactTakesNext ==
    ClosureXInv /\ TakeNext => ClosureWay' /\ ClosureDistance' /\ ClosureVerdict'
<1> SUFFICES ASSUME ClosureXInv, TakeNext
             PROVE  ClosureWay' /\ ClosureDistance' /\ ClosureVerdict'
  OBVIOUS
<1> DEFINE next       == CHOOSE t \in available : \A s \in available : t <= s
           dependents == {t \in Nodes \ {Target} : next \in Children(t)}
<1>1. /\ phase = "ordering" /\ phase' = "ordering"
      /\ UNCHANGED <<graph, stack, visitState, rawEdges, measures>>
      /\ ordered' = Append(ordered, next)
      /\ indegree' = [t \in Type |-> IF t \in dependents THEN indegree[t] - 1
                                     ELSE indegree[t]]
      /\ available' = (available \ {next}) \cup {t \in dependents : indegree'[t] = 0}
  BY DEF TakeNext, Ready
<1> HIDE DEF next
<1>2. ClosureWay' /\ ClosureDistance'
  BY <1>1, RestOfExactStays
<1>3. /\ indegree[Target] = 0 /\ Target \in Type /\ Nodes \in SUBSET Type
      /\ \A t \in Nodes \ ToSet(ordered) : indegree[t] = 0 => t \in available
      /\ ordered \in Seq(Type) /\ ClosureIInv
  BY <1>1, ClosureAssumption, ChildrenAreNodes
  DEF ClosureXInv, ClosureVerdict, ClosureIInv, ClosureTypeOK
<1>4. indegree'[Target] = 0
  BY <1>1, <1>3
<1>5. ToSet(ordered) \cup {next} \subseteq ToSet(ordered')
  <2>1. /\ ordered' \in Seq(Type \cup {next}) /\ Len(ordered') = Len(ordered) + 1
        /\ \A i \in 1..Len(ordered) : ordered'[i] = ordered[i]
        /\ ordered'[Len(ordered) + 1] = next
    <3>1. ordered \in Seq(Type \cup {next})
      BY <1>3
    <3> QED
      BY <1>1, <3>1, AppendProperties
  <2>2. DOMAIN ordered' = 1..(Len(ordered) + 1) /\ DOMAIN ordered = 1..Len(ordered)
        /\ Len(ordered) \in Nat
    BY <1>3, <2>1, LenProperties
  <2>3. \A i \in DOMAIN ordered : i \in DOMAIN ordered' /\ ordered'[i] = ordered[i]
    BY <2>1, <2>2
  <2>4. Len(ordered) + 1 \in DOMAIN ordered'
    BY <2>2
  <2>5. ASSUME NEW x \in ToSet(ordered) PROVE x \in ToSet(ordered')
    <3>1. PICK i \in DOMAIN ordered : x = ordered[i]
      BY DEF ToSet
    <3> QED
      BY <2>3, <3>1 DEF ToSet
  <2>6. next \in ToSet(ordered')
    <3>1. ordered'[Len(ordered) + 1] \in ToSet(ordered')
      BY <2>4, Zenon DEF ToSet
    <3> QED
      BY <2>1, <3>1
  <2> QED
    BY <2>5, <2>6
<1>6. ASSUME NEW t \in Nodes, t \notin ToSet(ordered'), indegree'[t] = 0
      PROVE  t \in available'
  <2>1. CASE t \in dependents
    BY <1>1, <1>6, <2>1
  <2>2. CASE t \notin dependents
    <3>1. indegree[t] = 0 /\ t # next /\ t \notin ToSet(ordered)
      BY <1>1, <1>3, <1>5, <1>6, <2>2
    <3> QED
      BY <1>1, <1>3, <3>1
  <2> QED
    BY <2>1, <2>2
<1>7. Nodes' = Nodes
  BY <1>1 DEF Nodes
<1>8. ClosureVerdict'
  BY <1>1, <1>4, <1>6, <1>7 DEF ClosureVerdict, Errors
<1> QED
  BY <1>2, <1>8

\* The order has every skill, for of those without a place one would be next.
LEMMA ExactFinishes ==
    ClosureXInv /\ Finish => ClosureWay' /\ ClosureDistance' /\ ClosureVerdict'
<1> SUFFICES ASSUME ClosureXInv, Finish
             PROVE  ClosureWay' /\ ClosureDistance' /\ ClosureVerdict'
  OBVIOUS
<1>1. /\ phase = "ordering" /\ available = {}
      /\ phase' = IF Len(ordered) = Cardinality(Nodes) THEN "done" ELSE "cycle"
      /\ UNCHANGED <<graph, stack, visitState, rawEdges, measures, order>>
      /\ ClosureIInv /\ ClosureWay /\ ClosureVerdict
  BY DEF Finish, ClosureXInv
<1>2. /\ Nodes \in SUBSET Type /\ IsFiniteSet(Nodes)
      /\ \A t : Children(t) \in SUBSET Type /\ Children(t) \subseteq Nodes
  BY <1>1, ChildrenAreNodes, FinitelyMany DEF ClosureIInv
<1>3. /\ ordered \in Seq(Type) /\ IsInjective(ordered) /\ ToSet(ordered) \subseteq Nodes
      /\ stack = <<>>
      /\ \A t \in Nodes \ {Target} :
           indegree[t] = Cardinality(Children(t) \ ToSet(ordered))
      /\ indegree[Target] = 0
      /\ \A t \in Nodes \ ToSet(ordered) : indegree[t] # 0
  BY <1>1 DEF ClosureIInv, ClosureTypeOK, ClosurePath, ClosureOrder, ClosureVerdict
<1>4. Nodes \subseteq ToSet(ordered)
  <2> DEFINE open == Nodes \ ToSet(ordered)
  <2> SUFFICES ASSUME open # {} PROVE FALSE
    OBVIOUS
  <2>1. open \in SUBSET Type
    BY <1>2
  <2>2. PICK t \in open : Children(t) \cap open = {}
    <3> HIDE DEF open
    <3> QED
      BY <1>1, <1>3, <2>1, CompleteIsAcyclic
  <2>3. Children(t) \ ToSet(ordered) = {}
    BY <1>2, <2>2
  <2>4. t # Target
    BY <1>3
  <2>5. indegree[t] = 0
    BY <1>3, <2>3, <2>4, FS_EmptySet
  <2> QED
    BY <1>3, <2>5
<1>5. Len(ordered) = Cardinality(Nodes)
  <2> DEFINE n == Len(ordered)
  <2>1. n \in Nat /\ DOMAIN ordered = 1..n /\ ordered \in [1..n -> Type]
    BY <1>3, LenProperties
  <2>2. ordered \in Injection(1..n, Nodes)
    BY <1>3, <2>1 DEF ToSet, Injection, IsInjective
  <2>3. ordered \in Surjection(1..n, Nodes)
    <3>1. \A t \in Nodes : \E i \in 1..n : ordered[i] = t
      BY <1>4, <2>1 DEF ToSet
    <3> QED
      BY <2>2, <3>1 DEF Surjection, Injection
  <2>4. IsFiniteSet(1..n) /\ Cardinality(1..n) = n
    BY <2>1, FS_Interval
  <2>5. Cardinality(Nodes) <= Cardinality(1..n)
    BY <2>3, <2>4, FS_Surjection
  <2>6. Cardinality(1..n) <= Cardinality(Nodes)
    BY <1>2, <2>2, FS_Injection
  <2>7. Cardinality(Nodes) \in Nat
    BY <1>2, FS_CardinalityType
  <2> QED
    BY <2>1, <2>4, <2>5, <2>6, <2>7
<1>6. phase' = "done"
  BY <1>1, <1>5
<1>7. ClosureWay' /\ ClosureDistance'
  BY <1>1, <1>6, RestOfExactStays
<1>8. ClosureVerdict'
  BY <1>6 DEF ClosureVerdict, Errors
<1> QED
  BY <1>7, <1>8

\* Every step keeps the invariant.
LEMMA ExactSteps == ClosureXInv /\ [ClosureNext]_closureVars => ClosureXInv'
<1> SUFFICES ASSUME ClosureXInv, [ClosureNext]_closureVars PROVE ClosureXInv'
  OBVIOUS
<1>1. ClosureIInv'
  BY ClosureSteps DEF ClosureXInv
<1> SUFFICES ClosureWay' /\ ClosureDistance' /\ ClosureVerdict'
  BY <1>1 DEF ClosureXInv
<1>2. CASE Follow
  <2>1. PICK e \in Top.rows : FollowsRow(e)
    BY <1>2, FollowIs
  <2>2. CASE ErrorOf(e) # "none"
    BY <2>1, <2>2, ExactRefused DEF FollowsRow
  <2>3. CASE ErrorOf(e) = "none"
    <3>1. Taken(e)
      BY <2>1, <2>3 DEF FollowsRow
    <3> QED
      BY <3>1, ExactTaken
  <2> QED
    BY <2>2, <2>3
<1>3. CASE Complete
  BY <1>3, ExactCompletes
<1>4. CASE Measure
  BY <1>4, ExactMeasures
<1>5. CASE StartOrdering
  BY <1>5, ExactStartsOrdering
<1>6. CASE TakeNext
  BY <1>6, ExactTakesNext
<1>7. CASE Finish
  BY <1>7, ExactFinishes
<1>8. CASE UNCHANGED closureVars
  <2>1. /\ graph' = graph /\ phase' = phase /\ stack' = stack /\ rawEdges' = rawEdges
        /\ visitState' = visitState /\ queue' = queue /\ depths' = depths
        /\ available' = available /\ indegree' = indegree /\ ordered' = ordered
    BY <1>8 DEF closureVars
  <2>2. /\ \A t : Children(t)' = Children(t)
        /\ Nodes' = Nodes
    BY <2>1 DEF Children, Nodes
  <2>3. /\ Sound' = Sound
        /\ \A n, t : LeadsTo(n, t)' = LeadsTo(n, t)
        /\ \A n, t : Ways(n, t)' = Ways(n, t)
    BY <2>1, SoundStays
  <2>4. /\ \A t \in Type : LeadsTo(depths[t], t)' = LeadsTo(depths[t], t)
        /\ Ways(MaxDepth + 1, Target)' = Ways(MaxDepth + 1, Target)
    BY <2>1, <2>3
  <2>5. ClosureWay'
    BY <2>1, <2>2 DEF ClosureXInv, ClosureWay, Follows
  <2>6. ClosureDistance'
    BY <2>1, <2>2, <2>4 DEF ClosureXInv, ClosureDistance
  <2>7. ClosureVerdict'
    BY <2>1, <2>2, <2>3 DEF ClosureXInv, ClosureVerdict
  <2> QED
    BY <2>5, <2>6, <2>7
<1> QED
  BY <1>2, <1>3, <1>4, <1>5, <1>6, <1>7, <1>8 DEF ClosureNext

\* What has been visited has no cycle, the distances are those of some way,
\* and no error is unfounded, in every state of a resolution.
THEOREM ExactInvariant == ClosureSpec => []ClosureXInv
<1>1. ClosureInit => ClosureXInv
  BY ExactAtStart
<1>2. ClosureXInv /\ [ClosureNext]_closureVars => ClosureXInv'
  BY ExactSteps
<1> QED
  BY <1>1, <1>2, PTL DEF ClosureSpec

\* A resolution succeeds exactly for the graphs that are sound, for any rows,
\* any limits and any order in which rows are followed: an error means that
\* the graph has an invalid row, a cycle or too much of something, a success
\* that it has none of them, and that every distance is a shortest one.
THEOREM ResolutionsAreExact == ClosureSpec => []ResolvesExactly
<1>1. ASSUME ClosureXInv PROVE ResolvesExactly
  <2> USE <1>1 DEF ClosureXInv
  <2>1. phase \in Errors => ~Sound
    BY DEF ClosureVerdict
  <2>2. ASSUME phase = "done"
        PROVE  /\ Sound
               /\ rawEdges = Relevant
               /\ \A t \in Type : IF t \in Followed
                                 THEN depths[t] \in Nat /\ Distance(depths[t], t)
                                 ELSE depths[t] = -1
    <3>1. stack = <<>> /\ queue = <<>>
      BY <2>2 DEF ClosureIInv, ClosurePath, ClosureDistance
    <3>2. rawEdges = Relevant
      BY <2>2, VisitedIsFollowed
    <3>3. /\ \A e \in Relevant : Valid(e) /\ e.source # e.skill
          /\ Cardinality(Relevant) <= MaxEdges
          /\ Cardinality(Skills(Relevant)) <= MaxNodes
      BY <3>2 DEF ClosureIInv, ClosureEvidence, Nodes
    <3>4. WithoutCycles
      BY <3>1, CompleteIsAcyclic
    <3>5. Ways(MaxDepth + 1, Target) = {}
      BY <2>2 DEF ClosureDistance
    <3>6. Sound
      BY <3>3, <3>4, <3>5 DEF Sound
    <3>7. \A t \in Type : IF t \in Followed
                          THEN depths[t] \in Nat /\ Distance(depths[t], t)
                          ELSE depths[t] = -1
      BY <2>2, <3>1, DistancesAreShortest
    <3> QED
      BY <3>2, <3>6, <3>7
  <2> QED
    BY <2>1, <2>2 DEF ResolvesExactly
<1> QED
  BY <1>1, ExactInvariant, PTL

=============================================================================
