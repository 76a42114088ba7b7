--------------------------- MODULE RateLimitProofs ---------------------------
(***************************************************************************)
(* Proofs about RateLimit, for any number of calls and any policy.         *)
(***************************************************************************)
EXTENDS RateLimit, FiniteSetTheorems, SequenceTheorems, WellFoundedInduction,
        TLAPS

\* The window holds the requests in the order in which they expire.
InOrder ==
    \A i, j \in DOMAIN sent : i <= j => sent[i].left <= sent[j].left

\* A call that may still add a request to the window has room for it.
Owing == {c \in Calls : \/ At(c, "waiting")
                        \/ At(c, "sent") /\ ~calls[c].metered}

Room == Len(sent) + Cardinality(Owing) <= MaxEvents

\* The coordinator remembers no block for less time than EVE announced it.
Remembered == \A s \in Scopes : closed[s] <= blocked[s]

\* A call waits as long as the blocks that were announced before it did.
Patient ==
    \A c \in Calls : At(c, "waiting") /\ ~calls[c].overtaken =>
      /\ closed["all"] <= calls[c].left
      /\ calls[c].metered => closed["bucket"] <= calls[c].left

IInv == TypeOK /\ InOrder /\ Room /\ Remembered /\ Patient /\ BlocksHeeded
---------------------------------------------------------------------------
(* Numbers and sequences *)

\* A set of numbers up to b has a least one: of the sets of smaller members a
\* smallest one is empty.
LEMMA MinIsMember ==
    ASSUME NEW b \in Nat, NEW S \in SUBSET (0..b), S # {}
    PROVE  Min(S) \in S /\ \A y \in S : Min(S) <= y
<1> DEFINE Below(x) == {y \in S : y < x}
           T == {Below(x) : x \in S}
<1>1. IsFiniteSet(S)
  <2>1. IsFiniteSet(0..b)
    BY FS_Interval, 0 \in Int, b \in Int
  <2> QED
    BY <2>1, FS_Subset
<1>2. IsWellFoundedOn(StrictSubsetOrdering(S), FiniteSubsetsOf(S))
  BY FS_StrictSubsetOrderingWellFounded
<1>3. T \subseteq FiniteSubsetsOf(S) /\ T # {}
  <2>1. \A x \in S : Below(x) \in SUBSET S /\ IsFiniteSet(Below(x))
    BY <1>1, FS_Subset
  <2> QED BY <2>1 DEF FiniteSubsetsOf
<1>4. PICK A \in T : \A B \in T : ~ (<<B, A>> \in StrictSubsetOrdering(S))
  <2> HIDE DEF T
  <2> QED BY <1>2, <1>3, WFMin
<1>5. PICK m \in S : A = Below(m)
  BY <1>4
<1>6. \A y \in S : m <= y
  <2> SUFFICES ASSUME NEW y \in S, ~(m <= y) PROVE FALSE
    OBVIOUS
  <2>0. m \in Nat /\ y \in Nat /\ y < m
    OBVIOUS
  <2>1. Below(y) \in T
    OBVIOUS
  <2>2. Below(y) \subseteq A
    <3>1. \A z \in S : z < y => z < m
      BY <2>0
    <3> QED BY <1>5, <3>1
  <2>3. y \in A /\ y \notin Below(y)
    BY <1>5, <2>0
  <2>4. <<Below(y), A>> \in StrictSubsetOrdering(S)
    <3>1. Below(y) \in SUBSET S /\ A \in SUBSET S
      BY <1>5
    <3> HIDE DEF Below
    <3> QED
      BY <2>2, <2>3, <3>1 DEF StrictSubsetOrdering
  <2> QED BY <2>1, <2>4, <1>4
<1> QED
  BY <1>6 DEF Min

LEMMA Parameters ==
    /\ None \notin Calls /\ IsFiniteSet(Calls)
    /\ MaxTokens \in Nat /\ MaxTokens >= 10
    /\ Window \in Nat /\ Window > 0 /\ Cap \in Nat /\ Cap > 0
    /\ MaxEvents \in Nat /\ \A b \in Blocks : b \in 1..Cap
  BY ParametersAssumption

\* What is left of a sequence without the expired events at its head.
LEMMA PrunedIs ==
    ASSUME NEW T, NEW events \in Seq(T),
           \A i \in DOMAIN events : events[i].left \in Nat
    PROVE  /\ Pruned(events) \in Seq(T)
           /\ Len(Pruned(events)) <= Len(events)
           /\ \E k \in 0..Len(events) :
                /\ Len(Pruned(events)) = Len(events) - k
                /\ \A i \in DOMAIN Pruned(events) :
                     i + k \in DOMAIN events /\ Pruned(events)[i] = events[i + k]
                /\ Pruned(events) # <<>> => events[1 + k].left > 0
                /\ \A i \in 1..k : events[i].left = 0
<1> DEFINE live == {i \in DOMAIN events : events[i].left > 0}
           n == Len(events)
<1>1. n \in Nat /\ DOMAIN events = 1..n
  BY LenProperties
<1>2. CASE live = {}
  <2>1. Pruned(events) = <<>>
    BY <1>2 DEF Pruned
  <2>2. <<>> \in Seq(T) /\ Len(<<>>) = 0 /\ DOMAIN <<>> = {}
    BY EmptySeq
  <2>3. \A i \in 1..n : events[i].left = 0
    BY <1>1, <1>2
  <2>4. n \in 0..n /\ Len(Pruned(events)) = n - n /\ DOMAIN Pruned(events) = {}
    BY <1>1, <2>1, <2>2
  <2>5. \E k \in 0..n :
           /\ Len(Pruned(events)) = n - k
           /\ \A i \in DOMAIN Pruned(events) :
                i + k \in DOMAIN events /\ Pruned(events)[i] = events[i + k]
           /\ Pruned(events) # <<>> => events[1 + k].left > 0
           /\ \A i \in 1..k : events[i].left = 0
    <3> HIDE DEF live
    <3> WITNESS n \in 0..n
    <3> QED
      BY <2>1, <2>3, <2>4
  <2>6. Len(Pruned(events)) <= n
    BY <1>1, <2>1, <2>2
  <2> QED
    BY <2>1, <2>2, <2>5, <2>6
<1>3. CASE live # {}
  <2> DEFINE m == Min(live)
  <2>1. live \in SUBSET (0..n)
    BY <1>1
  <2>2. m \in live /\ \A i \in live : m <= i
    <3> HIDE DEF live
    <3> QED
      BY <1>1, <1>3, <2>1, MinIsMember
  <2>3. m \in 1..n /\ events[m].left > 0
    BY <1>1, <2>2
  <2>4. Pruned(events) = SubSeq(events, m, n)
    BY <1>3 DEF Pruned
  <2>11. \A i \in 1..(m - 1) : events[i].left = 0
    <3>1. \A i \in DOMAIN events : events[i].left # 0 => m <= i
      BY <2>2
    <3> HIDE DEF m, live
    <3>2. \A i \in 1..(m - 1) : i \in DOMAIN events /\ ~(m <= i)
      BY <1>1, <2>3
    <3> QED
      BY <3>1, <3>2
  <2> HIDE DEF m, live
  <2>5. /\ SubSeq(events, m, n) \in Seq(T)
        /\ Len(SubSeq(events, m, n)) = n - m + 1
        /\ \A i \in 1..(n - m + 1) : SubSeq(events, m, n)[i] = events[m + i - 1]
    BY <1>1, <2>3, SubSeqProperties
  <2>6. DOMAIN SubSeq(events, m, n) = 1..(n - m + 1)
    BY <2>5, LenProperties
  <2>7. m - 1 \in 0..n /\ 1 + (m - 1) = m /\ n - m + 1 = n - (m - 1)
    BY <1>1, <2>3
  <2>8. \A i \in 1..(n - m + 1) :
          i + (m - 1) \in 1..n /\ m + i - 1 = i + (m - 1)
    BY <1>1, <2>3
  <2>9. \A i \in DOMAIN Pruned(events) :
          i + (m - 1) \in DOMAIN events /\ Pruned(events)[i] = events[i + (m - 1)]
    BY <1>1, <2>4, <2>5, <2>6, <2>8
  <2>10. Len(Pruned(events)) <= n
    BY <1>1, <2>3, <2>4, <2>5
  <2> QED
    BY <2>3, <2>4, <2>5, <2>7, <2>9, <2>10, <2>11
<1> QED
  BY <1>2, <1>3

LEMMA AppendIs ==
    ASSUME NEW T, NEW events \in Seq(T), NEW e \in T
    PROVE  /\ Append(events, e) \in Seq(T)
           /\ Len(Append(events, e)) = Len(events) + 1
           /\ DOMAIN Append(events, e) = 1..(Len(events) + 1)
           /\ \A i \in 1..Len(events) : Append(events, e)[i] = events[i]
           /\ Append(events, e)[Len(events) + 1] = e
<1>1. /\ Append(events, e) \in Seq(T)
      /\ Len(Append(events, e)) = Len(events) + 1
      /\ \A i \in 1..Len(events) : Append(events, e)[i] = events[i]
      /\ Append(events, e)[Len(events) + 1] = e
  BY AppendProperties
<1> QED
  BY <1>1, LenProperties

\* A sequence made element by element from another one.
LEMMA MappedIs ==
    ASSUME NEW T, NEW U, NEW events \in Seq(T), NEW new,
           new = [i \in DOMAIN events |-> new[i]],
           \A i \in DOMAIN events : new[i] \in U
    PROVE  new \in Seq(U) /\ Len(new) = Len(events) /\ DOMAIN new = DOMAIN events
<1>1. Len(events) \in Nat /\ DOMAIN events = 1..Len(events)
  BY LenProperties
<1>2. new \in [1..Len(events) -> U]
  BY <1>1
<1>3. new \in Seq(U)
  BY <1>1, <1>2, SeqDef
<1>4. DOMAIN new = 1..Len(new) /\ Len(new) \in Nat
  BY <1>3, LenProperties
<1>5. Len(new) = Len(events)
  BY <1>1, <1>2, <1>4
<1> QED
  BY <1>2, <1>3, <1>5, <1>1

LEMMA LessIs ==
    /\ \A n \in Nat : Less(n) \in Nat /\ Less(n) <= n
    /\ \A n, m \in Nat : n <= m => Less(n) <= Less(m)
    /\ \A n, m \in Nat : Less(Larger(n, m)) \in Nat
  BY DEF Less, Larger

LEMMA LargerIs ==
    \A n, m \in Nat : Larger(n, m) \in Nat /\ n <= Larger(n, m)
                        /\ m <= Larger(n, m) /\ Larger(n, m) \in {n, m}
  BY DEF Larger

\* The events of the bucket and the requests of the window lose their age.
LEMMA LeftIs ==
    /\ \A e \in Event : e.left \in 0..Window /\ e.left \in Nat
         /\ e.owner \in Calls \cup {None} /\ e.cost \in 0..ReservedCost
    /\ \A r \in Request : r.left \in 1..Window /\ r.left \in Nat
         /\ r.owner \in Calls \cup {None} /\ r.cost \in 0..ReservedCost
         /\ r.blind \in BOOLEAN
  BY Parameters DEF Event, Request

LEMMA RequiredWaitIs ==
    ASSUME NEW events \in Seq(Event)
    PROVE  RequiredWait(events) \in Nat
<1> DEFINE Fits(n) == SumCosts(SubSeq(events, n + 1, Len(events))) + ReservedCost
                        <= Limit
           enough  == {n \in 0..Len(events) : Fits(n)}
<1>1. Len(events) \in Nat /\ DOMAIN events = 1..Len(events)
      /\ \A i \in 1..Len(events) : events[i] \in Event
  BY LenProperties, ElementOfSeq
<1>2. RequiredWait(events) =
        CASE enough = {}  -> Window
          [] 0 \in enough -> 0
          [] OTHER -> events[Min(enough)].left
  BY DEF RequiredWait
<1>3. enough \in SUBSET (0..Len(events))
  OBVIOUS
<1> HIDE DEF enough, Fits
<1>4. CASE enough = {}
  BY <1>2, <1>4, Parameters
<1>5. CASE 0 \in enough
  BY <1>2, <1>5
<1>6. CASE enough # {} /\ 0 \notin enough
  <2>1. Min(enough) \in enough
    BY <1>1, <1>3, <1>6, MinIsMember
  <2>2. Min(enough) \in 1..Len(events)
    <3>1. Min(enough) \in 0..Len(events) /\ Min(enough) # 0
      BY <1>3, <1>6, <2>1
    <3> HIDE DEF enough
    <3> QED
      BY <1>1, <3>1
  <2> QED
    BY <1>1, <1>2, <1>6, <2>2, LeftIs
<1> QED
  BY <1>4, <1>5, <1>6

---------------------------------------------------------------------------
(* Facts the steps share *)

LEMMA StateFacts ==
    ASSUME TypeOK
    PROVE  /\ calls \in [Calls -> CallState]
           /\ \A c \in Calls : /\ calls[c] \in CallState
                               /\ calls[c].pc \in {"idle", "waiting", "sent"}
                               /\ calls[c].left \in 0..Cap /\ calls[c].left \in Nat
                               /\ calls[c].metered \in BOOLEAN
                               /\ calls[c].overtaken \in BOOLEAN
                               /\ calls[c].trespassing \in BOOLEAN
           /\ \A s \in Scopes : /\ blocked[s] \in 0..Cap /\ blocked[s] \in Nat
                                /\ closed[s] \in 0..Cap /\ closed[s] \in Nat
           /\ Len(sent) \in Nat /\ Len(bucket) \in Nat
           /\ known \in BOOLEAN
           /\ "all" \in Scopes /\ "bucket" \in Scopes
<1>1. \A c \in Calls : calls[c] \in CallState
  BY DEF TypeOK
<1>2. \A r \in CallState : /\ r.pc \in {"idle", "waiting", "sent"}
                           /\ r.left \in 0..Cap /\ r.left \in Nat
                           /\ r.metered \in BOOLEAN /\ r.overtaken \in BOOLEAN
                           /\ r.trespassing \in BOOLEAN
  BY Parameters DEF CallState
<1>3. \A s \in Scopes : blocked[s] \in 0..Cap /\ closed[s] \in 0..Cap
  BY DEF TypeOK
<1>4. \A n \in 0..Cap : n \in Nat
  BY Parameters
<1>5. Len(sent) \in Nat /\ Len(bucket) \in Nat
  BY LenProperties DEF TypeOK
<1> HIDE DEF CallState
<1> QED
  BY <1>1, <1>2, <1>3, <1>4, <1>5 DEF TypeOK, Scopes

LEMMA SetFields ==
    ASSUME NEW r \in CallState
    PROVE  /\ \A pc \in {"idle", "waiting", "sent"} : [r EXCEPT !.pc = pc] \in CallState
           /\ \A n \in 0..Cap : [r EXCEPT !.left = n] \in CallState
           /\ \A b \in BOOLEAN : [r EXCEPT !.metered = b] \in CallState
           /\ \A b \in BOOLEAN : [r EXCEPT !.overtaken = b] \in CallState
           /\ \A b \in BOOLEAN : [r EXCEPT !.trespassing = b] \in CallState
  BY DEF CallState

LEMMA IdleIs ==
    Idle \in CallState /\ Idle.pc = "idle" /\ Idle.left = 0
      /\ Idle.overtaken = FALSE /\ Idle.trespassing = FALSE
  BY Parameters DEF Idle, CallState

\* Calls other than c are left alone.
Others(c) ==
    /\ calls' \in [Calls -> CallState]
    /\ \A d \in Calls \ {c} : calls'[d] = calls[d]

LEMMA RecordIs ==
    ASSUME TypeOK, NEW c \in Calls, NEW new \in CallState,
           calls' = [calls EXCEPT ![c] = new]
    PROVE  Others(c) /\ calls'[c] = new
<1>1. calls \in [Calls -> CallState]
  BY DEF TypeOK
<1> HIDE DEF CallState
<1> QED
  BY <1>1 DEF Others

\* How many calls owe a request before and after a step.
LEMMA OwingFinite ==
    ASSUME NEW S \in SUBSET Calls
    PROVE  IsFiniteSet(S) /\ Cardinality(S) \in Nat
  BY Parameters, FS_Subset, FS_CardinalityType

LEMMA OwingGrows ==
    ASSUME NEW S \in SUBSET Calls, NEW T \in SUBSET Calls, S \subseteq T
    PROVE  Cardinality(S) <= Cardinality(T)
  BY OwingFinite, FS_Subset

LEMMA OwingAdds ==
    ASSUME NEW S \in SUBSET Calls, NEW c \in Calls, NEW T \in SUBSET (S \cup {c})
    PROVE  Cardinality(T) <= Cardinality(S) + 1
<1>1. IsFiniteSet(S) /\ Cardinality(S \cup {c}) <= Cardinality(S) + 1
  <2>1. Cardinality(S \cup {c}) = IF c \in S THEN Cardinality(S) ELSE Cardinality(S) + 1
    BY OwingFinite, FS_AddElement
  <2> QED
    BY <2>1, OwingFinite
<1>2. Cardinality(T) <= Cardinality(S \cup {c})
  BY OwingGrows
<1> QED
  BY <1>1, <1>2, OwingFinite

LEMMA OwingShrinks ==
    ASSUME NEW S \in SUBSET Calls, NEW c \in S, NEW T \in SUBSET (S \ {c})
    PROVE  Cardinality(T) + 1 <= Cardinality(S)
<1>1. Cardinality(S \ {c}) = Cardinality(S) - 1
  BY OwingFinite, FS_RemoveElement
<1>2. Cardinality(T) <= Cardinality(S \ {c})
  BY OwingGrows
<1> QED
  BY <1>1, <1>2, OwingFinite

LEMMA WaitIs ==
    ASSUME IInv
    PROVE  /\ WaitMs \in Nat /\ Delay \in 0..Cap
           /\ blocked["all"] <= WaitMs /\ (known => blocked["bucket"] <= WaitMs)
           /\ closed["all"] <= Delay /\ (known => closed["bucket"] <= Delay)
           /\ WaitMs = 0 => closed["all"] = 0 /\ (known => closed["bucket"] = 0)
<1>1. Pruned(bucket) \in Seq(Event)
  <2>1. bucket \in Seq(Event)
    BY DEF IInv, TypeOK
  <2>2. \A i \in DOMAIN bucket : bucket[i].left \in Nat
    BY <2>1, ElementOfSeq, LenProperties, LeftIs
  <2> QED
    BY <2>1, <2>2, PrunedIs
<1>2. RequiredWait(Pruned(bucket)) \in Nat
  BY <1>1, RequiredWaitIs
<1>3. /\ blocked["all"] \in Nat /\ blocked["bucket"] \in Nat
      /\ closed["all"] \in 0..Cap /\ closed["bucket"] \in 0..Cap
      /\ closed["all"] <= blocked["all"] /\ closed["bucket"] <= blocked["bucket"]
  BY StateFacts DEF IInv, Remembered
<1> DEFINE r == RequiredWait(Pruned(bucket))
           l == Larger(blocked["bucket"], r)
<1>4. l \in Nat /\ blocked["bucket"] <= l
  <2> HIDE DEF r
  <2> QED BY <1>2, <1>3, LargerIs DEF r
<1>5. WaitMs = IF known THEN Larger(blocked["all"], l) ELSE blocked["all"]
  BY DEF WaitMs
<1> HIDE DEF r, l
<1>6. /\ WaitMs \in Nat /\ blocked["all"] <= WaitMs
      /\ known => blocked["bucket"] <= WaitMs
  <2>1. Larger(blocked["all"], l) \in Nat /\ blocked["all"] <= Larger(blocked["all"], l)
        /\ l <= Larger(blocked["all"], l)
    BY <1>3, <1>4, LargerIs
  <2>2. CASE known
    BY <1>3, <1>4, <1>5, <2>1, <2>2
  <2>3. CASE ~known
    BY <1>3, <1>5, <2>3
  <2> QED
    BY <2>2, <2>3
<1>7. Delay \in 0..Cap /\ (\A n \in 0..Cap : n <= WaitMs => n <= Delay)
  BY <1>6, Parameters DEF Delay, Smaller
<1>8. closed["all"] <= WaitMs
  BY <1>3, <1>6, Parameters
<1>9. known => closed["bucket"] <= WaitMs
  BY <1>3, <1>6, Parameters
<1>10. WaitMs = 0 => closed["all"] = 0
  BY <1>3, <1>8, Parameters
<1>11. WaitMs = 0 => (known => closed["bucket"] = 0)
  <2>1. ASSUME WaitMs = 0, known PROVE closed["bucket"] = 0
    BY <1>3, <1>9, <2>1, Parameters
  <2> QED
    BY <2>1
<1>12. known => closed["bucket"] <= Delay
  BY <1>3, <1>7, <1>9
<1> QED
  BY <1>3, <1>6, <1>7, <1>8, <1>10, <1>11, <1>12

---------------------------------------------------------------------------
(* acquire *)

\* A request that joins the window expires last.
LEMMA Lengthened ==
    ASSUME IInv, Len(sent) \in Nat, DOMAIN sent = 1..Len(sent),
           DOMAIN sent' = 1..(Len(sent) + 1),
           \A i \in 1..Len(sent) : sent'[i] = sent[i],
           sent'[Len(sent) + 1].left = Window,
           \A i \in 1..Len(sent) : sent[i].left \in Nat /\ sent[i].left <= Window
    PROVE  InOrder'
<1>1. ASSUME NEW i \in DOMAIN sent', NEW j \in DOMAIN sent', i <= j
      PROVE  sent'[i].left <= sent'[j].left
  <2>1. CASE j \in 1..Len(sent)
    <3>1. i \in 1..Len(sent)
      BY <1>1, <2>1
    <3> QED
      BY <1>1, <2>1, <3>1 DEF IInv, InOrder
  <2>2. CASE j = Len(sent) + 1
    <3>1. CASE i = Len(sent) + 1
      BY <2>2, <3>1, Parameters
    <3>2. CASE i \in 1..Len(sent)
      BY <2>2, <3>2
    <3> QED
      BY <3>1, <3>2
  <2> QED
    BY <2>1, <2>2
<1> QED
  BY <1>1 DEF InOrder

\* The call takes its slot: there is room for it, and it is no trespass unless
\* the block came when the call was waiting.
LEMMA SlotTaken ==
    ASSUME IInv, NEW c \in Calls, NEW metered \in BOOLEAN, NEW blind \in BOOLEAN,
           NEW events \in Seq(Event), TakeSlot(c, metered, blind, events),
           UNCHANGED <<known, blocked, closed>>,
           Len(sent) + 1 + Cardinality(Owing \ {c}) <= MaxEvents,
           Len(sent) + Cardinality(Owing \cup {c}) <= MaxEvents,
           closed["all"] > 0 \/ (metered /\ closed["bucket"] > 0)
             => calls[c].overtaken
    PROVE  IInv'
<1> DEFINE shut == closed["all"] > 0 \/ (metered /\ closed["bucket"] > 0)
           e  == [owner |-> c, cost |-> ReservedCost, left |-> Window]
           q  == [owner |-> c, cost |-> ReservedCost, left |-> Window,
                  blind |-> blind]
           r0 == calls[c]
           r1 == [r0 EXCEPT !.pc = "sent"]
           r2 == [r1 EXCEPT !.left = 0]
           r3 == [r2 EXCEPT !.metered = metered]
           r4 == [r3 EXCEPT !.trespassing = shut]
<1>1. /\ bucket' = IF metered THEN Append(events, e) ELSE events
      /\ sent' = IF metered THEN Append(sent, q) ELSE sent
      /\ calls' = [calls EXCEPT ![c] = r4]
  BY DEF TakeSlot
<1>2. e \in Event /\ q \in Request /\ q.left = Window
  BY Parameters DEF Event, Request, ReservedCost
<1>3. r0 \in CallState /\ "sent" \in {"idle", "waiting", "sent"} /\ 0 \in 0..Cap
      /\ shut \in BOOLEAN
  BY StateFacts, Parameters DEF IInv
<1> HIDE DEF e, q, r0, shut
<1>4. r1 \in CallState /\ r1.pc = "sent" /\ r1.overtaken = r0.overtaken
  BY <1>3, SetFields DEF CallState
<1> HIDE DEF r1
<1>5. r2 \in CallState /\ r2.pc = "sent" /\ r2.overtaken = r0.overtaken
  BY <1>3, <1>4, SetFields, SMTT(60) DEF CallState
<1> HIDE DEF r2
<1>6. r3 \in CallState /\ r3.pc = "sent" /\ r3.overtaken = r0.overtaken
      /\ r3.metered = metered
  BY <1>5, SetFields DEF CallState
<1> HIDE DEF r3
<1>7. r4 \in CallState /\ r4.pc = "sent" /\ r4.overtaken = r0.overtaken
      /\ r4.metered = metered /\ r4.trespassing = shut
  BY <1>3, <1>6, SetFields DEF CallState
<1> HIDE DEF r4
<1>8. /\ Others(c) /\ calls'[c].pc = "sent" /\ calls'[c].metered = metered
      /\ calls'[c].overtaken = calls[c].overtaken
      /\ calls'[c].trespassing = shut
  BY <1>1, <1>7, RecordIs DEF IInv, r0
<1>9. sent \in Seq(Request) /\ Len(sent) \in Nat /\ DOMAIN sent = 1..Len(sent)
      /\ \A i \in 1..Len(sent) : sent[i] \in Request
  BY LenProperties, ElementOfSeq DEF IInv, TypeOK
<1>10. /\ bucket' \in Seq(Event) /\ sent' \in Seq(Request)
       /\ Len(sent') = IF metered THEN Len(sent) + 1 ELSE Len(sent)
  BY <1>1, <1>2, <1>9, AppendIs
<1>11. Owing' = IF metered THEN Owing \ {c} ELSE Owing \cup {c}
  BY <1>8 DEF Owing, At, Others
<1>12. Room' /\ Len(sent') <= MaxEvents
  <2>1. /\ Cardinality(Owing \ {c}) \in Nat /\ Cardinality(Owing \cup {c}) \in Nat
    <3>1. Owing \ {c} \in SUBSET Calls /\ Owing \cup {c} \in SUBSET Calls
      BY DEF Owing
    <3> QED
      BY <3>1, OwingFinite
  <2>2. CASE metered
    BY <1>9, <1>10, <1>11, <2>1, <2>2, Parameters DEF Room
  <2>3. CASE ~metered
    BY <1>9, <1>10, <1>11, <2>1, <2>3, Parameters DEF Room
  <2> QED
    BY <2>2, <2>3
<1>13. TypeOK'
  BY <1>8, <1>10, <1>12 DEF IInv, TypeOK, Others
<1>14. InOrder'
  <2>1. CASE metered
    <3>1. /\ DOMAIN sent' = 1..(Len(sent) + 1)
          /\ \A i \in 1..Len(sent) : sent'[i] = sent[i]
          /\ sent'[Len(sent) + 1].left = Window
      BY <1>1, <1>2, <1>9, <2>1, AppendIs
    <3>2. \A i \in 1..Len(sent) : sent[i].left \in Nat /\ sent[i].left <= Window
      BY <1>9, LeftIs, Parameters
    <3> QED
      BY <1>9, <3>1, <3>2, Lengthened
  <2>2. CASE ~metered
    BY <1>1, <2>2 DEF IInv, InOrder
  <2> QED
    BY <2>1, <2>2
<1>15. Remembered'
  BY DEF IInv, Remembered
<1>16. Patient'
  BY <1>8 DEF IInv, Patient, At, Others
<1>17. BlocksHeeded'
  <2>1. shut => calls[c].overtaken
    BY DEF shut
  <2> QED
    BY <1>8, <2>1 DEF IInv, BlocksHeeded, Others
<1> QED
  BY <1>12, <1>13, <1>14, <1>15, <1>16, <1>17 DEF IInv

\* Calls change places, the window and the blocks stay.
LEMMA WindowStays ==
    ASSUME IInv, NEW c \in Calls, Others(c), bucket' \in Seq(Event),
           UNCHANGED <<known, blocked, sent, closed>>,
           Len(sent) + Cardinality(Owing') <= MaxEvents,
           calls'[c].trespassing => calls'[c].overtaken,
           calls'[c].pc = "waiting" =>
             /\ closed["all"] <= calls'[c].left
             /\ calls'[c].metered => closed["bucket"] <= calls'[c].left
    PROVE  IInv'
<1>1. TypeOK' /\ InOrder' /\ Room' /\ Remembered'
  BY DEF IInv, TypeOK, Others, InOrder, Room, Remembered
<1>2. Patient'
  BY DEF IInv, Patient, At, Others
<1>3. BlocksHeeded'
  BY DEF IInv, BlocksHeeded, Others
<1> QED
  BY <1>1, <1>2, <1>3 DEF IInv

LEMMA PrunedBucket ==
    ASSUME TypeOK
    PROVE  Pruned(bucket) \in Seq(Event) /\ bucket \in Seq(Event)
<1>1. bucket \in Seq(Event)
  BY DEF TypeOK
<1>2. \A i \in DOMAIN bucket : bucket[i].left \in Nat
  BY <1>1, ElementOfSeq, LenProperties, LeftIs
<1> QED
  BY <1>1, <1>2, PrunedIs

LEMMA AcquireStep ==
    ASSUME IInv, NEW c \in Calls, Acquire(c)
    PROVE  IInv'
<1>1. /\ calls[c].pc = "idle" /\ Len(sent) + Cardinality(Active) < MaxEvents
      /\ UNCHANGED <<known, blocked, closed>>
  BY DEF Acquire, At
<1>2. /\ Len(sent) \in Nat /\ known \in BOOLEAN
      /\ Cardinality(Owing) \in Nat /\ Cardinality(Active) \in Nat
      /\ Cardinality(Owing) <= Cardinality(Active)
  <2>1. Owing \subseteq Active /\ Active \in SUBSET Calls /\ Owing \in SUBSET Calls
    BY DEF Owing, Active, At
  <2> QED
    BY <2>1, OwingFinite, OwingGrows, StateFacts DEF IInv
<1>3. /\ Len(sent) + 1 + Cardinality(Owing \ {c}) <= MaxEvents
      /\ Len(sent) + Cardinality(Owing \cup {c}) <= MaxEvents
      /\ \A S \in SUBSET (Owing \cup {c}) : Len(sent) + Cardinality(S) <= MaxEvents
  <2>1. Owing \in SUBSET Calls /\ Owing \cup {c} \in SUBSET Calls
    BY DEF Owing
  <2>2. /\ Cardinality(Owing \ {c}) <= Cardinality(Owing)
        /\ Cardinality(Owing \ {c}) \in Nat
    BY <2>1, OwingGrows, OwingFinite
  <2>3. \A S \in SUBSET (Owing \cup {c}) :
          Cardinality(S) <= Cardinality(Owing) + 1 /\ Cardinality(S) \in Nat
    BY <2>1, OwingAdds, OwingFinite
  <2>4. Cardinality(Owing \cup {c}) <= Cardinality(Owing) + 1
        /\ Cardinality(Owing \cup {c}) \in Nat
    BY <2>3
  <2>5. MaxEvents \in Nat
    BY Parameters
  <2> DEFINE n == Len(sent)
             o == Cardinality(Owing)
  <2>6. n \in Nat /\ o \in Nat /\ n + o < MaxEvents
    BY <1>1, <1>2, <2>5
  <2>7. \A k \in Nat : k <= o + 1 => n + k <= MaxEvents
    <3> HIDE DEF n, o
    <3> QED
      BY <2>5, <2>6
  <2>8. \A k \in Nat : k <= o => n + 1 + k <= MaxEvents
    <3> HIDE DEF n, o
    <3> QED
      BY <2>5, <2>6
  <2> QED
    BY <2>2, <2>3, <2>4, <2>7, <2>8
<1>4. CASE WaitMs = 0
  <2>1. TakeSlot(c, known, FALSE, IF known THEN Pruned(bucket) ELSE bucket)
    BY <1>4 DEF Acquire
  <2>2. (IF known THEN Pruned(bucket) ELSE bucket) \in Seq(Event)
    BY PrunedBucket DEF IInv
  <2>3. ~(closed["all"] > 0 \/ (known /\ closed["bucket"] > 0))
    BY <1>4, WaitIs
  <2> QED
    BY <1>1, <1>2, <1>3, <2>1, <2>2, <2>3, SlotTaken
<1>5. CASE WaitMs # 0
  <2> DEFINE r1  == [Idle EXCEPT !.pc = "waiting"]
             n   == Delay
             r2  == [r1 EXCEPT !.left = n]
             new == [r2 EXCEPT !.metered = known]
  <2>1. /\ calls' = [calls EXCEPT ![c] = new] /\ UNCHANGED sent
        /\ bucket' = IF known THEN Pruned(bucket) ELSE bucket
    BY <1>5 DEF Acquire, Prune
  <2>2. n \in 0..Cap /\ closed["all"] <= n /\ (known => closed["bucket"] <= n)
    BY WaitIs
  <2> HIDE DEF n
  <2>3. r1 \in CallState /\ r1.pc = "waiting" /\ r1.trespassing = FALSE
    <3>1. "waiting" \in {"idle", "waiting", "sent"} /\ Idle \in CallState
          /\ Idle.trespassing = FALSE
      BY IdleIs
    <3> HIDE DEF Idle
    <3>2. r1 \in CallState /\ r1.pc = "waiting" /\ r1.trespassing = Idle.trespassing
      BY <3>1, SetFields DEF CallState
    <3> QED
      BY <3>1, <3>2
  <2> HIDE DEF r1
  <2>4. r2 \in CallState /\ r2.pc = "waiting" /\ r2.trespassing = FALSE
        /\ r2.left = n
    BY <2>2, <2>3, SetFields DEF CallState
  <2> HIDE DEF r2
  <2>5. new \in CallState /\ new.pc = "waiting" /\ new.trespassing = FALSE
        /\ new.left = n /\ new.metered = known
    BY <1>2, <2>4, SetFields DEF CallState
  <2> HIDE DEF new
  <2>6. Others(c) /\ calls'[c] = new
    BY <2>1, <2>5, RecordIs DEF IInv
  <2>7. bucket' \in Seq(Event)
    BY <2>1, PrunedBucket DEF IInv
  <2>8. Owing' \in SUBSET (Owing \cup {c})
    BY <2>6 DEF Owing, At, Others
  <2> QED
    BY <1>1, <1>3, <2>1, <2>2, <2>5, <2>6, <2>7, <2>8, WindowStays
<1> QED
  BY <1>4, <1>5

LEMMA WakeStep ==
    ASSUME IInv, NEW c \in Calls, Wake(c)
    PROVE  IInv'
<1>1. /\ calls[c].pc = "waiting" /\ calls[c].left = 0
      /\ TakeSlot(c, calls[c].metered, TRUE,
                  IF calls[c].metered THEN Pruned(bucket) ELSE bucket)
      /\ UNCHANGED <<known, blocked, closed>>
  BY DEF Wake, At
<1>2. calls[c].metered \in BOOLEAN
  BY StateFacts DEF IInv
<1>3. (IF calls[c].metered THEN Pruned(bucket) ELSE bucket) \in Seq(Event)
  BY PrunedBucket DEF IInv
<1>4. /\ Len(sent) + 1 + Cardinality(Owing \ {c}) <= MaxEvents
      /\ Len(sent) + Cardinality(Owing \cup {c}) <= MaxEvents
  <2>1. c \in Owing /\ Owing \in SUBSET Calls /\ Owing \cup {c} = Owing
    BY <1>1 DEF Owing, At
  <2>2. Cardinality(Owing \ {c}) + 1 <= Cardinality(Owing)
    BY <2>1, OwingShrinks
  <2>3. Cardinality(Owing \ {c}) \in Nat /\ Cardinality(Owing) \in Nat
        /\ Len(sent) \in Nat
    BY <2>1, OwingFinite, StateFacts DEF IInv
  <2>4. Len(sent) + Cardinality(Owing) <= MaxEvents /\ MaxEvents \in Nat
    BY Parameters DEF IInv, Room
  <2> HIDE DEF Owing
  <2>5. Len(sent) + 1 + Cardinality(Owing \ {c}) <= MaxEvents
    BY <2>2, <2>3, <2>4
  <2> QED
    BY <2>1, <2>4, <2>5
<1>5. closed["all"] > 0 \/ (calls[c].metered /\ closed["bucket"] > 0)
        => calls[c].overtaken
  <2>1. ASSUME ~calls[c].overtaken
        PROVE  closed["all"] <= 0 /\ (calls[c].metered => closed["bucket"] <= 0)
    BY <1>1, <2>1 DEF IInv, Patient, At
  <2>2. closed["all"] \in Nat /\ closed["bucket"] \in Nat
    BY StateFacts DEF IInv
  <2> QED
    BY <2>1, <2>2
<1> QED
  BY <1>1, <1>2, <1>3, <1>4, <1>5, SlotTaken

LEMMA GiveUpStep ==
    ASSUME IInv, NEW c \in Calls, GiveUp(c)
    PROVE  IInv'
<1>1. calls' = [calls EXCEPT ![c] = Idle]
      /\ UNCHANGED <<known, bucket, blocked, sent, closed>>
  BY DEF GiveUp, history
<1>2. Others(c) /\ calls'[c] = Idle
  BY <1>1, IdleIs, RecordIs DEF IInv
<1>3. Owing' \in SUBSET Owing /\ Owing \in SUBSET Calls
  BY <1>2, IdleIs DEF Owing, At, Others
<1>4. Len(sent) + Cardinality(Owing') <= MaxEvents
  <2>1. Cardinality(Owing') <= Cardinality(Owing)
        /\ Cardinality(Owing') \in Nat /\ Cardinality(Owing) \in Nat
    BY <1>3, OwingGrows, OwingFinite
  <2> QED
    BY <2>1, StateFacts, Parameters DEF IInv, Room
<1>5. bucket' \in Seq(Event)
  BY <1>1, PrunedBucket DEF IInv
<1> QED
  BY <1>1, <1>2, <1>4, <1>5, IdleIs, WindowStays

---------------------------------------------------------------------------
(* observe, and the clock *)

LEMMA SettledIs ==
    ASSUME TypeOK, NEW c \in Calls, NEW cost \in 0..ReservedCost
    PROVE  /\ Settled(bucket, c, cost) \in Seq(Event)
           /\ Settled(sent, c, cost) \in Seq(Request)
           /\ Len(Settled(sent, c, cost)) = Len(sent)
           /\ DOMAIN Settled(sent, c, cost) = DOMAIN sent
           /\ \A i \in DOMAIN sent : Settled(sent, c, cost)[i].left = sent[i].left
<1>1. /\ bucket \in Seq(Event) /\ sent \in Seq(Request)
      /\ \A i \in DOMAIN bucket : bucket[i] \in Event
      /\ \A i \in DOMAIN sent : sent[i] \in Request
  BY LenProperties, ElementOfSeq DEF TypeOK
<1> DEFINE b == Settled(bucket, c, cost)
           s == Settled(sent, c, cost)
<1>2. \A i \in DOMAIN bucket : b[i] \in Event
  BY <1>1 DEF Settled, Event
<1>3. \A i \in DOMAIN sent : s[i] \in Request /\ s[i].left = sent[i].left
  BY <1>1 DEF Settled, Request
<1>4. b = [i \in DOMAIN bucket |-> b[i]] /\ s = [i \in DOMAIN sent |-> s[i]]
  BY DEF Settled
<1> HIDE DEF b, s
<1>5. b \in Seq(Event)
  BY <1>1, <1>2, <1>4, MappedIs
<1>6. s \in Seq(Request) /\ Len(s) = Len(sent) /\ DOMAIN s = DOMAIN sent
  BY <1>1, <1>3, <1>4, MappedIs
<1> QED
  BY <1>3, <1>5, <1>6 DEF b, s

LEMMA CostIs ==
    ASSUME NEW status \in Statuses
    PROVE  ResponseCost(status) \in 0..ReservedCost
  BY DEF ResponseCost, Statuses, ReservedCost

\* fetch throws.
LEMMA ThrowStep ==
    ASSUME IInv, NEW c \in Calls, Throw(c)
    PROVE  IInv'
<1>1. /\ calls' = [calls EXCEPT ![c] = Idle]
      /\ bucket' = Settled(bucket, c, ReservedCost)
      /\ sent' = Settled(sent, c, ReservedCost)
      /\ UNCHANGED <<known, blocked, closed>>
  BY DEF Throw
<1>2. Others(c) /\ calls'[c] = Idle
  BY <1>1, IdleIs, RecordIs DEF IInv
<1>3. /\ bucket' \in Seq(Event) /\ sent' \in Seq(Request)
      /\ Len(sent') = Len(sent) /\ DOMAIN sent' = DOMAIN sent
      /\ \A i \in DOMAIN sent : sent'[i].left = sent[i].left
  <2>1. ReservedCost \in 0..ReservedCost
    BY DEF ReservedCost
  <2> QED
    BY <1>1, <2>1, SettledIs DEF IInv
<1>4. TypeOK'
  BY <1>1, <1>2, <1>3 DEF IInv, TypeOK, Others
<1>5. InOrder'
  BY <1>3 DEF IInv, InOrder
<1>6. Room'
  <2>1. Owing' \in SUBSET Owing /\ Owing \in SUBSET Calls
    BY <1>2, IdleIs DEF Owing, At, Others
  <2>2. Cardinality(Owing') <= Cardinality(Owing)
        /\ Cardinality(Owing') \in Nat /\ Cardinality(Owing) \in Nat
    BY <2>1, OwingGrows, OwingFinite
  <2>3. Len(sent) + Cardinality(Owing) <= MaxEvents /\ MaxEvents \in Nat
        /\ Len(sent) \in Nat
    BY StateFacts, Parameters DEF IInv, Room
  <2>4. Len(sent) + Cardinality(Owing') <= MaxEvents
    <3> HIDE DEF Owing
    <3> QED
      BY <2>2, <2>3
  <2> QED
    BY <1>3, <2>4 DEF Room
<1>7. Remembered'
  BY <1>1 DEF IInv, Remembered
<1>8. Patient' /\ BlocksHeeded'
  BY <1>1, <1>2, IdleIs DEF IInv, Patient, BlocksHeeded, At, Others
<1> QED
  BY <1>4, <1>5, <1>6, <1>7, <1>8 DEF IInv

LEMMA SnapshotStep ==
    ASSUME IInv, Snapshot
    PROVE  IInv'
<1>1. bucket' = Pruned(bucket) /\ UNCHANGED <<known, blocked, calls, sent, closed>>
  BY DEF Snapshot, history
<1>2. bucket' \in Seq(Event)
  BY <1>1, PrunedBucket DEF IInv
<1> QED
  BY <1>1, <1>2 DEF IInv, TypeOK, InOrder, Room, Owing, Remembered, Patient,
                    BlocksHeeded, At

\* An answer may teach the policy, announce blocks, and settle the request.
LEMMA AnswerStep ==
    ASSUME IInv, NEW c \in Calls, Answer(c)
    PROVE  IInv'
<1>0. calls[c].pc = "sent" /\ calls[c].metered \in BOOLEAN
  BY StateFacts DEF Answer, At, IInv
<1>1. PICK status \in Statuses, teaches \in BOOLEAN, after \in Blocks,
           reset \in Blocks \cup {0} :
         LET cost      == ResponseCost(status)
             new       == [owner |-> None, cost |-> cost, left |-> Window]
             adds      == ~calls[c].metered /\ teaches /\ cost > 0
             banned    == IF status = "banned" THEN after ELSE 0
             announced == [all    |-> Larger(banned, reset),
                           bucket |-> IF /\ status = "limited"
                                         /\ calls[c].metered \/ teaches
                                      THEN after ELSE 0]
         IN /\ status \in {"banned", "limited"}
               \/ after = CHOOSE b \in Blocks : TRUE
            /\ known' = (known \/ teaches)
            /\ bucket' = IF adds THEN Append(bucket, new)
                         ELSE Settled(bucket, c, cost)
            /\ sent' = IF adds THEN Append(sent, [owner |-> None,
                              cost |-> cost, left |-> Window, blind |-> TRUE])
                       ELSE Settled(sent, c, cost)
            /\ blocked' = [all |-> BlockFor(BlockFor(blocked.all, banned), reset),
                           bucket |-> BlockFor(blocked.bucket, announced.bucket)]
            /\ closed' = [s \in Scopes |-> Larger(closed[s], announced[s])]
            /\ calls' = [d \in Calls |->
                 IF d = c THEN Idle
                 ELSE [calls[d] EXCEPT !.overtaken =
                         @ \/ \E s \in Scopes : /\ At(d, "waiting")
                                                /\ announced[s] > 0]]
  BY Zenon DEF Answer
<1> DEFINE cost == ResponseCost(status)
           adds == ~calls[c].metered /\ teaches /\ cost > 0
           new  == [owner |-> None, cost |-> cost, left |-> Window]
           q    == [owner |-> None, cost |-> cost, left |-> Window, blind |-> TRUE]
           banned == IF status = "banned" THEN after ELSE 0
           limited == IF /\ status = "limited"
                         /\ calls[c].metered \/ teaches
                      THEN after ELSE 0
           announced == [all |-> Larger(banned, reset), bucket |-> limited]
           hit(d) == \E s \in Scopes : At(d, "waiting") /\ announced[s] > 0
<1>2. /\ bucket' = IF adds THEN Append(bucket, new) ELSE Settled(bucket, c, cost)
      /\ sent' = IF adds THEN Append(sent, q) ELSE Settled(sent, c, cost)
      /\ blocked' = [all |-> BlockFor(BlockFor(blocked.all, banned), reset),
                     bucket |-> BlockFor(blocked.bucket, announced.bucket)]
      /\ closed' = [s \in Scopes |-> Larger(closed[s], announced[s])]
      /\ calls' = [d \in Calls |->
                     IF d = c THEN Idle
                     ELSE [calls[d] EXCEPT !.overtaken = @ \/ hit(d)]]
  BY <1>1
<1>3. /\ cost \in 0..ReservedCost /\ new \in Event /\ q \in Request
      /\ q.left = Window
  <2>1. cost \in 0..ReservedCost
    BY CostIs
  <2> HIDE DEF cost
  <2> QED
    BY <2>1, Parameters DEF Event, Request
<1>4. /\ banned \in 0..Cap /\ reset \in 0..Cap /\ limited \in 0..Cap
  BY Parameters
<1>5. /\ announced["all"] = Larger(banned, reset) /\ announced["bucket"] = limited
      /\ Larger(banned, reset) \in 0..Cap /\ banned <= Larger(banned, reset)
      /\ reset <= Larger(banned, reset)
  BY <1>4, Parameters DEF Larger
<1> HIDE DEF cost, new, q, banned, limited, announced, adds
\* The calls: the one answered is done, those that wait are overtaken.
<1>6. /\ calls' \in [Calls -> CallState] /\ calls'[c] = Idle
      /\ \A d \in Calls \ {c} :
           /\ calls'[d].pc = calls[d].pc /\ calls'[d].left = calls[d].left
           /\ calls'[d].metered = calls[d].metered
           /\ calls'[d].trespassing = calls[d].trespassing
           /\ calls'[d].overtaken = (calls[d].overtaken \/ hit(d))
  <2>1. \A d \in Calls : hit(d) \in BOOLEAN
    OBVIOUS
  <2> HIDE DEF hit
  <2> DEFINE o(d) == calls[d].overtaken \/ hit(d)
             x(d) == [calls[d] EXCEPT !.overtaken = o(d)]
  <2>2. ASSUME NEW d \in Calls
        PROVE  /\ x(d) \in CallState
               /\ x(d).pc = calls[d].pc /\ x(d).left = calls[d].left
               /\ x(d).metered = calls[d].metered
               /\ x(d).trespassing = calls[d].trespassing
               /\ x(d).overtaken = o(d)
    <3>1. calls[d] \in CallState /\ o(d) \in BOOLEAN
      BY <2>1, StateFacts DEF IInv
    <3> HIDE DEF o
    <3> QED
      BY <3>1 DEF CallState
  <2>3. \A d \in Calls : calls'[d] = IF d = c THEN Idle ELSE x(d)
    BY <1>2
  <2> HIDE DEF x, o
  <2>4. \A d \in Calls : calls'[d] \in CallState
    <3> HIDE DEF Idle, CallState
    <3> QED
      BY <2>2, <2>3, IdleIs
  <2>5. calls' = [d \in Calls |-> calls'[d]]
    BY <1>2
  <2>6. calls' \in [Calls -> CallState]
    <3> HIDE DEF CallState
    <3> QED
      BY <2>4, <2>5
  <2>7. calls'[c] = Idle
    BY <2>3
  <2>8. \A d \in Calls \ {c} :
           /\ calls'[d].pc = calls[d].pc /\ calls'[d].left = calls[d].left
           /\ calls'[d].metered = calls[d].metered
           /\ calls'[d].trespassing = calls[d].trespassing
           /\ calls'[d].overtaken = o(d)
    BY <2>2, <2>3
  <2> QED
    BY <2>6, <2>7, <2>8 DEF o
\* The blocks: none is forgotten or shortened.
<1>7. /\ blocked' \in [Scopes -> 0..Cap] /\ closed' \in [Scopes -> 0..Cap]
      /\ \A s \in Scopes : closed'[s] <= blocked'[s]
      /\ \A s \in Scopes : announced[s] = 0 => closed'[s] = closed[s]
      /\ \A s \in Scopes : announced[s] \in Nat
  <2>1. /\ blocked["all"] \in 0..Cap /\ blocked["bucket"] \in 0..Cap
        /\ closed["all"] \in 0..Cap /\ closed["bucket"] \in 0..Cap
        /\ closed["all"] <= blocked["all"] /\ closed["bucket"] <= blocked["bucket"]
    BY StateFacts DEF IInv, Remembered
  <2>2. /\ blocked' = [all |-> BlockFor(BlockFor(blocked["all"], banned), reset),
                       bucket |-> BlockFor(blocked["bucket"], limited)]
        /\ DOMAIN closed' = Scopes
        /\ closed' = [s \in Scopes |-> closed'[s]]
        /\ closed'["all"] = Larger(closed["all"], Larger(banned, reset))
        /\ closed'["bucket"] = Larger(closed["bucket"], limited)
    BY <1>2, <1>5, StateFacts DEF IInv
  <2>3. /\ BlockFor(BlockFor(blocked["all"], banned), reset) \in 0..Cap
        /\ BlockFor(blocked["bucket"], limited) \in 0..Cap
        /\ closed'["all"] \in 0..Cap /\ closed'["bucket"] \in 0..Cap
        /\ closed'["all"] <= BlockFor(BlockFor(blocked["all"], banned), reset)
        /\ closed'["bucket"] <= BlockFor(blocked["bucket"], limited)
    <3>1. \A x, y \in 0..Cap : Larger(x, y) \in 0..Cap
      BY Parameters DEF Larger
    <3>2. \A x, y \in 0..Cap : x <= Larger(x, y) /\ y <= Larger(x, y)
      BY Parameters DEF Larger
    <3>3. \A x, y, z \in 0..Cap : x <= z /\ y <= z => Larger(x, y) <= z
      BY Parameters DEF Larger
    <3>4. \A x, y, z \in 0..Cap : x <= y /\ y <= z => x <= z
      BY Parameters
    <3> DEFINE u == Larger(blocked["all"], banned)
               v == Larger(u, reset)
               w == Larger(banned, reset)
               z == Larger(blocked["bucket"], limited)
    <3>5. u \in 0..Cap /\ blocked["all"] <= u /\ banned <= u
      BY <1>4, <2>1, <3>1, <3>2
    <3>6. v \in 0..Cap /\ u <= v /\ reset <= v /\ z \in 0..Cap
          /\ blocked["bucket"] <= z /\ limited <= z /\ w \in 0..Cap
      <4> HIDE DEF u
      <4> QED
        BY <1>4, <2>1, <3>1, <3>2, <3>5
    <3> HIDE DEF u, v, w, z
    <3>7. closed["all"] <= v /\ banned <= v
      BY <1>4, <2>1, <3>4, <3>5, <3>6
    <3>8. w <= v
      BY <1>4, <3>3, <3>6, <3>7 DEF w
    <3>9. Larger(closed["all"], w) \in 0..Cap /\ Larger(closed["all"], w) <= v
      BY <2>1, <3>1, <3>3, <3>6, <3>7, <3>8
    <3>10. closed["bucket"] <= z
      BY <2>1, <3>4, <3>6
    <3>11. Larger(closed["bucket"], limited) \in 0..Cap
           /\ Larger(closed["bucket"], limited) <= z
      BY <1>4, <2>1, <3>1, <3>3, <3>6, <3>10
    <3>12. /\ BlockFor(BlockFor(blocked["all"], banned), reset) = v
           /\ BlockFor(blocked["bucket"], limited) = z
      BY DEF BlockFor, u, v, z
    <3> QED
      BY <2>2, <3>6, <3>9, <3>11, <3>12 DEF w
  <2>4. blocked'["all"] = BlockFor(BlockFor(blocked["all"], banned), reset)
        /\ blocked'["bucket"] = BlockFor(blocked["bucket"], limited)
        /\ blocked' = [s \in Scopes |-> blocked'[s]]
    BY <2>2 DEF Scopes
  <2>5. \A s \in Scopes : /\ blocked'[s] \in 0..Cap /\ closed'[s] \in 0..Cap
                          /\ closed'[s] <= blocked'[s]
    BY <2>3, <2>4 DEF Scopes
  <2>6. blocked' \in [Scopes -> 0..Cap] /\ closed' \in [Scopes -> 0..Cap]
    BY <2>2, <2>4, <2>5
  <2>7. \A s \in Scopes : closed[s] \in Nat /\ announced[s] \in Nat
    BY <1>4, <1>5, StateFacts, Parameters DEF IInv, Scopes
  <2>8. \A s \in Scopes : announced[s] = 0 => closed'[s] = closed[s]
    BY <1>2, <2>7 DEF Larger
  <2> QED
    BY <2>5, <2>6, <2>7, <2>8
<1>8. sent \in Seq(Request) /\ bucket \in Seq(Event)
      /\ Len(sent) \in Nat /\ DOMAIN sent = 1..Len(sent)
      /\ \A i \in 1..Len(sent) : sent[i] \in Request
  BY LenProperties, ElementOfSeq DEF IInv, TypeOK
<1>9. /\ bucket' \in Seq(Event) /\ sent' \in Seq(Request)
      /\ Len(sent') = IF adds THEN Len(sent) + 1 ELSE Len(sent)
  BY <1>2, <1>3, <1>8, AppendIs, SettledIs DEF IInv
<1>10. Room' /\ Len(sent') <= MaxEvents
  <2>1. Owing' \in SUBSET (Owing \ {c}) /\ Owing \in SUBSET Calls
        /\ Owing' \in SUBSET Calls
    BY <1>6, IdleIs DEF Owing, At
  <2>2. Cardinality(Owing') <= Cardinality(Owing)
        /\ Cardinality(Owing') \in Nat /\ Cardinality(Owing) \in Nat
    BY <2>1, OwingGrows, OwingFinite
  <2>3. adds => Cardinality(Owing') + 1 <= Cardinality(Owing)
    <3>1. adds => c \in Owing
      BY <1>0 DEF adds, Owing, At
    <3> QED
      BY <2>1, <3>1, OwingShrinks
  <2>4. Len(sent) + Cardinality(Owing) <= MaxEvents /\ MaxEvents \in Nat
    BY Parameters DEF IInv, Room
  <2> DEFINE n == Len(sent)
             m == Len(sent')
             o == Cardinality(Owing)
             p == Cardinality(Owing')
  <2>5. n \in Nat /\ o \in Nat /\ p \in Nat /\ n + o <= MaxEvents /\ p <= o
        /\ (adds => p + 1 <= o) /\ m = IF adds THEN n + 1 ELSE n
    BY <1>8, <1>9, <2>2, <2>3, <2>4
  <2>6. m + p <= MaxEvents /\ m <= MaxEvents
    <3> HIDE DEF n, m, o, p
    <3> QED
      BY <2>4, <2>5
  <2> QED
    BY <2>6 DEF Room
<1>11. TypeOK'
  <2>1. known' \in BOOLEAN
    BY <1>1
  <2> QED
    BY <1>6, <1>7, <1>9, <1>10, <2>1 DEF TypeOK
<1>12. InOrder'
  <2>1. CASE adds
    <3>1. /\ DOMAIN sent' = 1..(Len(sent) + 1)
          /\ \A i \in 1..Len(sent) : sent'[i] = sent[i]
          /\ sent'[Len(sent) + 1].left = Window
      BY <1>2, <1>3, <1>8, <2>1, AppendIs
    <3>2. \A i \in 1..Len(sent) : sent[i].left \in Nat /\ sent[i].left <= Window
      BY <1>8, LeftIs, Parameters
    <3> QED
      BY <1>8, <3>1, <3>2, Lengthened
  <2>2. CASE ~adds
    <3>1. DOMAIN sent' = DOMAIN sent
          /\ \A i \in DOMAIN sent : sent'[i].left = sent[i].left
      BY <1>2, <1>3, <2>2, SettledIs DEF IInv
    <3> QED
      BY <3>1 DEF IInv, InOrder
  <2> QED
    BY <2>1, <2>2
<1>13. Remembered'
  BY <1>7 DEF Remembered
<1>14. Patient'
  <2> SUFFICES ASSUME NEW d \in Calls, calls'[d].pc = "waiting",
                      ~calls'[d].overtaken
               PROVE  /\ closed'["all"] <= calls'[d].left
                      /\ calls'[d].metered => closed'["bucket"] <= calls'[d].left
    BY DEF Patient, At
  <2>1. d # c /\ d \in Calls \ {c}
    BY <1>6, IdleIs
  <2>2. calls[d].pc = "waiting" /\ ~calls[d].overtaken /\ ~hit(d)
    BY <1>6, <2>1
  <2>3. announced["all"] = 0 /\ announced["bucket"] = 0
    BY <1>7, <2>2, StateFacts DEF At, IInv
  <2>4. closed'["all"] = closed["all"] /\ closed'["bucket"] = closed["bucket"]
    BY <1>7, <2>3, StateFacts DEF IInv
  <2> QED
    BY <1>6, <2>1, <2>2, <2>4 DEF IInv, Patient, At
<1>15. BlocksHeeded'
  <2> SUFFICES ASSUME NEW d \in Calls, calls'[d].trespassing
               PROVE  calls'[d].overtaken
    BY DEF BlocksHeeded
  <2>1. d \in Calls \ {c}
    BY <1>6, IdleIs
  <2> QED
    BY <1>6, <2>1 DEF IInv, BlocksHeeded
<1> QED
  BY <1>10, <1>11, <1>12, <1>13, <1>14, <1>15 DEF IInv


LEMMA TickStep ==
    ASSUME IInv, Tick
    PROVE  IInv'
<1> DEFINE b == Passed(bucket)
           s == Passed(sent)
<1>1. /\ bucket' = b
      /\ blocked' = [k \in Scopes |-> Less(blocked[k])]
      /\ closed' = [k \in Scopes |-> Less(closed[k])]
      /\ calls' = [c \in Calls |-> [calls[c] EXCEPT !.left = Less(@)]]
      /\ sent' = Pruned(s) /\ UNCHANGED known
  BY DEF Tick
<1>2. /\ bucket \in Seq(Event) /\ sent \in Seq(Request)
      /\ \A i \in DOMAIN bucket : bucket[i] \in Event
      /\ \A i \in DOMAIN sent : sent[i] \in Request
      /\ Len(sent) \in Nat /\ DOMAIN sent = 1..Len(sent)
  BY LenProperties, ElementOfSeq DEF IInv, TypeOK
<1>3. \A n \in 0..Window : Less(n) \in 0..Window
  BY Parameters DEF Less
<1>4. b \in Seq(Event)
  <2>1. \A i \in DOMAIN bucket : b[i] \in Event
    <3>1. \A e \in Event, n \in 0..Window : [e EXCEPT !.left = n] \in Event
      BY DEF Event
    <3> QED
      BY <1>2, <1>3, <3>1, LeftIs DEF Passed
  <2>2. b = [i \in DOMAIN bucket |-> b[i]]
    BY DEF Passed
  <2> HIDE DEF b
  <2> QED
    BY <1>2, <2>1, <2>2, MappedIs
\* The window: requests of age zero are at its head, and go.
<1> DEFINE Aged == [owner: Calls \cup {None}, cost: 0..ReservedCost,
                    left: 0..Window, blind: BOOLEAN]
<1>5. /\ s \in Seq(Aged) /\ Len(s) = Len(sent) /\ DOMAIN s = DOMAIN sent
      /\ \A i \in DOMAIN sent : s[i].left = Less(sent[i].left)
  <2>1. \A i \in DOMAIN sent : s[i] \in Aged /\ s[i].left = Less(sent[i].left)
    <3>1. \A r \in Request, n \in 0..Window :
            [r EXCEPT !.left = n] \in Aged /\ [r EXCEPT !.left = n].left = n
      BY DEF Request
    <3>2. \A i \in DOMAIN sent : Less(sent[i].left) \in 0..Window
      <4>1. \A r \in Request : r.left \in 0..Window
        BY Parameters DEF Request
      <4> QED
        BY <1>2, <1>3, <4>1
    <3> QED
      BY <1>2, <3>1, <3>2 DEF Passed
  <2>2. s = [i \in DOMAIN sent |-> s[i]]
    BY DEF Passed
  <2> HIDE DEF s, Aged
  <2> QED
    BY <1>2, <2>1, <2>2, MappedIs
<1>6. /\ \A i \in DOMAIN s : s[i].left \in Nat
      /\ \A i, j \in DOMAIN s : i <= j => s[i].left <= s[j].left
  <2>1. \A i \in DOMAIN sent : sent[i].left \in Nat
    BY <1>2, LeftIs
  <2>2. \A i, j \in DOMAIN sent : i <= j => sent[i].left <= sent[j].left
    BY DEF IInv, InOrder
  <2> HIDE DEF s, Aged
  <2>3. \A i \in DOMAIN s : s[i].left = Less(sent[i].left) /\ i \in DOMAIN sent
    BY <1>5
  <2>4. \A i, j \in DOMAIN s : i <= j => Less(sent[i].left) <= Less(sent[j].left)
    BY <2>1, <2>2, <2>3, LessIs
  <2> QED
    BY <2>1, <2>3, <2>4, LessIs
<1>7. /\ sent' \in Seq(Aged) /\ Len(sent') <= Len(s)
      /\ \E k \in 0..Len(s) :
           /\ \A i \in DOMAIN sent' : i + k \in DOMAIN s /\ sent'[i] = s[i + k]
           /\ sent' # <<>> => s[1 + k].left > 0
  <2> HIDE DEF s, Aged
  <2> QED
    BY <1>1, <1>5, <1>6, PrunedIs
<1>8. PICK k \in 0..Len(s) :
        /\ \A i \in DOMAIN sent' : i + k \in DOMAIN s /\ sent'[i] = s[i + k]
        /\ sent' # <<>> => s[1 + k].left > 0
  BY <1>7
<1>9. /\ Len(sent') \in Nat /\ DOMAIN sent' = 1..Len(sent')
      /\ \A i \in DOMAIN sent' : sent'[i] \in Aged
  <2> HIDE DEF Aged
  <2> QED
    BY <1>7, LenProperties, ElementOfSeq
<1>22. k \in Nat
  BY <1>2, <1>5, <1>8
<1> HIDE DEF s
<1>10. ASSUME NEW i \in DOMAIN sent', NEW j \in DOMAIN sent', i <= j
       PROVE  sent'[i].left <= sent'[j].left
  <2>1. i + k \in DOMAIN s /\ j + k \in DOMAIN s /\ i + k <= j + k
    BY <1>8, <1>9, <1>10, <1>22
  <2> QED
    BY <1>6, <1>8, <1>10, <2>1
<1>11. ASSUME NEW i \in DOMAIN sent'
       PROVE  sent'[i] \in Request
  <2>1. 1 \in DOMAIN sent' /\ 1 <= i /\ sent' # <<>>
    BY <1>9, <1>11
  <2>2. sent'[1] = s[1 + k] /\ sent'[1].left > 0
    BY <1>8, <2>1
  <2>3. sent'[1].left <= sent'[i].left
    BY <1>10, <1>11, <2>1
  <2>4. sent'[i].left \in 1..Window
    BY <1>9, <1>11, <2>1, <2>2, <2>3, Parameters
  <2> QED
    BY <1>9, <2>4 DEF Request
<1>12. sent' \in Seq(Request)
  <2>1. \A i \in 1..Len(sent') : sent'[i] \in Request
    BY <1>9, <1>11
  <2>2. sent' = [i \in 1..Len(sent') |-> sent'[i]]
    <3> HIDE DEF Aged
    <3> QED
      BY <1>7, <1>9, LenProperties
  <2>3. sent' \in [1..Len(sent') -> Request]
    BY <2>1, <2>2
  <2> QED
    BY <1>9, <2>3, SeqDef
\* The calls.
<1>13. ASSUME NEW c \in Calls
       PROVE  /\ calls'[c] \in CallState
              /\ calls'[c].pc = calls[c].pc
              /\ calls'[c].metered = calls[c].metered
              /\ calls'[c].overtaken = calls[c].overtaken
              /\ calls'[c].trespassing = calls[c].trespassing
              /\ calls'[c].left = Less(calls[c].left)
  <2> DEFINE n == Less(calls[c].left)
             x == [calls[c] EXCEPT !.left = n]
  <2>1. calls[c] \in CallState /\ n \in 0..Cap
    <3>1. \A m \in 0..Cap : Less(m) \in 0..Cap
      BY Parameters DEF Less
    <3> QED
      BY <3>1, StateFacts DEF IInv
  <2>2. calls'[c] = x
    BY <1>1
  <2> HIDE DEF n
  <2>3. /\ x \in CallState /\ x.pc = calls[c].pc
        /\ x.metered = calls[c].metered /\ x.overtaken = calls[c].overtaken
        /\ x.trespassing = calls[c].trespassing /\ x.left = n
    BY <2>1 DEF CallState
  <2> HIDE DEF x
  <2> QED
    BY <2>2, <2>3 DEF n
<1>14. calls' \in [Calls -> CallState]
  <2>1. calls' = [c \in Calls |-> calls'[c]]
    BY <1>1
  <2> HIDE DEF CallState
  <2> QED
    BY <1>13, <2>1
\* The blocks.
<1>15. /\ blocked' \in [Scopes -> 0..Cap] /\ closed' \in [Scopes -> 0..Cap]
       /\ \A k2 \in Scopes : closed'[k2] <= blocked'[k2]
       /\ \A k2 \in Scopes : closed'[k2] = Less(closed[k2])
  <2>1. \A m \in 0..Cap : Less(m) \in 0..Cap
    BY Parameters DEF Less
  <2>2. \A k2 \in Scopes : closed[k2] <= blocked[k2]
    BY DEF IInv, Remembered
  <2>3. \A k2 \in Scopes : blocked[k2] \in 0..Cap /\ closed[k2] \in 0..Cap
                           /\ blocked[k2] \in Nat /\ closed[k2] \in Nat
    BY StateFacts DEF IInv
  <2> QED
    BY <1>1, <2>1, <2>2, <2>3, LessIs
<1>16. Room' /\ Len(sent') <= MaxEvents
  <2>1. Owing' = Owing
    BY <1>13 DEF Owing, At
  <2>2. Owing \in SUBSET Calls
    BY DEF Owing
  <2>3. Cardinality(Owing) \in Nat
    BY <2>2, OwingFinite
  <2>4. Len(sent) + Cardinality(Owing) <= MaxEvents /\ MaxEvents \in Nat
    BY Parameters DEF IInv, Room
  <2>5. Len(sent') <= Len(sent)
    BY <1>5, <1>7
  <2> HIDE DEF Owing
  <2>6. Len(sent') + Cardinality(Owing) <= MaxEvents /\ Len(sent') <= MaxEvents
    BY <1>2, <1>9, <2>3, <2>4, <2>5
  <2> QED
    BY <2>1, <2>6 DEF Room
<1>17. TypeOK'
  BY <1>1, <1>4, <1>12, <1>14, <1>15, <1>16 DEF IInv, TypeOK
<1>18. InOrder'
  BY <1>10 DEF InOrder
<1>19. Remembered'
  BY <1>15 DEF Remembered
<1>20. Patient'
  <2> SUFFICES ASSUME NEW c \in Calls, calls'[c].pc = "waiting",
                      ~calls'[c].overtaken
               PROVE  /\ closed'["all"] <= calls'[c].left
                      /\ calls'[c].metered => closed'["bucket"] <= calls'[c].left
    BY DEF Patient, At
  <2>1. /\ closed["all"] <= calls[c].left
        /\ calls[c].metered => closed["bucket"] <= calls[c].left
    BY <1>13 DEF IInv, Patient, At
  <2>2. /\ closed["all"] \in Nat /\ closed["bucket"] \in Nat
        /\ calls[c].left \in Nat /\ "all" \in Scopes /\ "bucket" \in Scopes
    BY StateFacts DEF IInv
  <2> QED
    BY <1>13, <1>15, <2>1, <2>2, LessIs
<1>21. BlocksHeeded'
  BY <1>13 DEF IInv, BlocksHeeded
<1> QED
  BY <1>16, <1>17, <1>18, <1>19, <1>20, <1>21 DEF IInv
---------------------------------------------------------------------------
(* The specification *)

LEMMA InitInv == Init => IInv
<1> SUFFICES ASSUME Init PROVE IInv
  OBVIOUS
<1>1. \A c \in Calls : calls[c] = Idle
  BY DEF Init
<1>2. \A c \in Calls : calls[c].pc = "idle" /\ ~calls[c].trespassing
  BY <1>1, IdleIs
<1>3. sent = <<>> /\ bucket = <<>> /\ Len(sent) = 0 /\ DOMAIN sent = {}
      /\ sent \in Seq(Request) /\ bucket \in Seq(Event)
  BY EmptySeq DEF Init
<1>4. \A s \in Scopes : blocked[s] = 0 /\ closed[s] = 0
  BY DEF Init
<1>5. TypeOK
  <2>1. calls \in [Calls -> CallState]
    <3>1. calls = [c \in Calls |-> Idle] /\ Idle \in CallState
      BY IdleIs DEF Init
    <3> HIDE DEF CallState, Idle
    <3> QED
      BY <3>1
  <2>2. 0 \in 0..Cap /\ 0 <= MaxEvents
    BY Parameters
  <2> QED
    BY <1>3, <2>1, <2>2 DEF TypeOK, Init
<1>6. Room
  <2>1. Owing = {}
    BY <1>2 DEF Owing, At
  <2>2. Cardinality(Owing) = 0
    BY <2>1, FS_EmptySet
  <2> QED
    BY <1>3, <2>2, Parameters DEF Room
<1>7. InOrder /\ Remembered /\ Patient /\ BlocksHeeded
  BY <1>2, <1>3, <1>4 DEF InOrder, Remembered, Patient, BlocksHeeded, At
<1> QED
  BY <1>5, <1>6, <1>7 DEF IInv

LEMMA NextInv == IInv /\ [Next]_vars => IInv'
<1> SUFFICES ASSUME IInv, [Next]_vars PROVE IInv'
  OBVIOUS
<1>1. CASE UNCHANGED vars
  BY <1>1 DEF vars, history, IInv, TypeOK, InOrder, Room, Owing, Remembered,
              Patient, BlocksHeeded, At
<1>2. CASE Snapshot
  BY <1>2, SnapshotStep
<1>3. CASE Tick
  BY <1>3, TickStep
<1>4. ASSUME NEW c \in Calls,
             Acquire(c) \/ Wake(c) \/ GiveUp(c) \/ Answer(c) \/ Throw(c)
      PROVE  IInv'
  BY <1>4, AcquireStep, WakeStep, GiveUpStep, AnswerStep, ThrowStep
<1> QED
  BY <1>1, <1>2, <1>3, <1>4 DEF Next

\* The strengthening: there is room in the window for whoever may still join
\* it, which expires in order; no block is remembered for too short a time, and
\* who waits has waited for the blocks announced before.
THEOREM InductiveInvariant == Spec => []IInv
<1>1. Init => IInv
  BY InitInv
<1>2. IInv /\ [Next]_vars => IInv'
  BY NextInv
<1> QED
  BY <1>1, <1>2, PTL DEF Spec

\* Every variable keeps its type; in particular no delay exceeds Cap and no
\* request outlives its window.
THEOREM TypeCorrect == Spec => []TypeOK
<1>1. IInv => TypeOK
  BY DEF IInv
<1> QED
  BY <1>1, InductiveInvariant, PTL

\* observe, acquire: whatever the order of the answers, nothing goes out during
\* a block but calls that were waiting already.
THEOREM NothingCrossesABlock == Spec => []BlocksHeeded
<1>1. IInv => BlocksHeeded
  BY DEF IInv
<1> QED
  BY <1>1, InductiveInvariant, PTL

---------------------------------------------------------------------------
(* The costs of a sequence of events.  What Totals computes is proved by the *)
(* least counterexample: of the indices for which it were wrong there would  *)
(* be a first one, and the one before it is right.                           *)

\* t is the function that Totals names.
IsTotals(t, events, n) ==
    /\ t \in [0..n -> Int]
    /\ t[0] = 0
    /\ \A i \in 1..n : t[i] = t[i - 1] + events[i].cost

\* It sums up the first n events at least.
Adds(t, events, n) ==
    /\ \A i \in 0..n : t[i] \in Int
    /\ t[0] = 0
    /\ \A i \in 1..n : t[i] = t[i - 1] + events[i].cost

\* It exists: the first n for which it did not would follow one for which it
\* does.
LEMMA TotalsExist ==
    ASSUME NEW events, NEW n \in Nat, \A i \in 1..n : events[i].cost \in Nat
    PROVE  \E t : IsTotals(t, events, n)
<1> DEFINE Bad == {m \in 0..n : ~ \E t : IsTotals(t, events, m)}
<1> SUFFICES ASSUME n \in Bad PROVE FALSE
  OBVIOUS
<1>1. Min(Bad) \in Bad /\ \A y \in Bad : Min(Bad) <= y
  <2>1. Bad \in SUBSET (0..n) /\ Bad # {}
    OBVIOUS
  <2> HIDE DEF Bad
  <2> QED
    BY <2>1, MinIsMember
<1> DEFINE m == Min(Bad)
<1>2. m \in 0..n /\ ~ \E t : IsTotals(t, events, m)
  BY <1>1
<1>3. \A y \in 0..n : y < m => \E t : IsTotals(t, events, y)
  BY <1>1
<1> HIDE DEF m, Bad
<1>4. m # 0
  <2>1. IsTotals([i \in 0..0 |-> 0], events, 0)
    BY DEF IsTotals
  <2> QED
    BY <1>2, <2>1
<1>5. m - 1 \in 0..n /\ m - 1 < m /\ m \in 1..n
  BY <1>2, <1>4
<1>6. PICK t : IsTotals(t, events, m - 1)
  BY <1>3, <1>5
<1> DEFINE u == [i \in 0..m |-> IF i = m THEN t[m - 1] + events[m].cost ELSE t[i]]
<1>7. IsTotals(u, events, m)
  <2>1. /\ t \in [0..(m - 1) -> Int] /\ t[0] = 0
        /\ \A i \in 1..(m - 1) : t[i] = t[i - 1] + events[i].cost
    BY <1>6 DEF IsTotals
  <2>2. events[m].cost \in Nat
    BY <1>5
  <2>3. \A i \in 0..m : u[i] \in Int
    BY <1>5, <2>1, <2>2
  <2>4. u \in [0..m -> Int] /\ u[0] = 0
    BY <1>5, <2>1, <2>3
  <2>5. \A i \in 1..m : u[i] = u[i - 1] + events[i].cost
    BY <1>5, <2>1, <2>2
  <2> HIDE DEF u
  <2> QED
    BY <2>4, <2>5 DEF IsTotals
<1> QED
  BY <1>2, <1>7

\* Two such functions of sequences with the same costs, or smaller ones.
LEMMA TotalsCompare ==
    ASSUME NEW e1, NEW e2, NEW n \in Nat, NEW t1, NEW t2, NEW h \in Nat, NEW g \in Nat,
           Adds(t1, e1, n + h), Adds(t2, e2, n + g),
           \A i \in 1..n : /\ e1[i + h].cost \in Int /\ e2[i + g].cost \in Int
                           /\ e1[i + h].cost <= e2[i + g].cost
    PROVE  \A i \in 0..n : t1[n + h] - t1[i + h] <= t2[n + g] - t2[i + g]
<1> DEFINE P(m) == t1[n + h] - t1[n - m + h] <= t2[n + g] - t2[n - m + g]
           Bad == {m \in 0..n : ~P(m)}
<1>1. Bad = {}
  <2> SUFFICES ASSUME Bad # {} PROVE FALSE
    OBVIOUS
  <2>1. Min(Bad) \in Bad /\ \A y \in Bad : Min(Bad) <= y
    <3>1. Bad \in SUBSET (0..n) /\ Bad # {}
      OBVIOUS
    <3> HIDE DEF Bad
    <3> QED
      BY <3>1, MinIsMember
  <2> DEFINE m == Min(Bad)
  <2>2. m \in 0..n /\ ~P(m)
    BY <2>1
  <2>3. \A y \in 0..n : y < m => P(y)
    BY <2>1
  <2> HIDE DEF m, Bad
  <2>4. /\ \A i \in 0..(n + h) : t1[i] \in Int
        /\ \A i \in 0..(n + g) : t2[i] \in Int
        /\ \A i \in 1..(n + h) : t1[i] = t1[i - 1] + e1[i].cost
        /\ \A i \in 1..(n + g) : t2[i] = t2[i - 1] + e2[i].cost
    BY DEF Adds
  <2>5. m # 0
    <3> SUFFICES ASSUME m = 0 PROVE P(0)
      BY <2>2
    <3>1. t1[n + h] \in Int /\ t2[n + g] \in Int
      BY <2>4
    <3> QED
      BY <3>1
  <2> DEFINE k == n - m + 1
  <2>6. /\ k \in 1..n /\ m - 1 \in 0..n /\ m - 1 < m
        /\ n - (m - 1) = k /\ n - m = k - 1
    BY <2>2, <2>5
  <2> HIDE DEF k
  <2>7. t1[n + h] - t1[k + h] <= t2[n + g] - t2[k + g]
    BY <2>3, <2>6
  <2>8. t1[k + h] = t1[k - 1 + h] + e1[k + h].cost
        /\ t2[k + g] = t2[k - 1 + g] + e2[k + g].cost
    <3>1. /\ k + h \in 1..(n + h) /\ k + g \in 1..(n + g)
          /\ (k + h) - 1 = k - 1 + h /\ (k + g) - 1 = k - 1 + g
      BY <2>6
    <3> DEFINE x == k + h
               y == k + g
    <3>2. t1[x] = t1[x - 1] + e1[x].cost /\ t2[y] = t2[y - 1] + e2[y].cost
      <4>1. x \in 1..(n + h) /\ y \in 1..(n + g)
        BY <3>1
      <4> HIDE DEF x, y
      <4> QED
        BY <2>4, <4>1
    <3>3. x - 1 = k - 1 + h /\ y - 1 = k - 1 + g
      BY <3>1
    <3> QED
      BY <3>2, <3>3
  <2>9. /\ t1[n + h] \in Int /\ t2[n + g] \in Int /\ t1[k - 1 + h] \in Int
        /\ t2[k - 1 + g] \in Int /\ t1[k + h] \in Int /\ t2[k + g] \in Int
    <3>1. k - 1 + h \in 0..(n + h) /\ k - 1 + g \in 0..(n + g) /\ k + h \in 0..(n + h)
          /\ k + g \in 0..(n + g) /\ n + h \in 0..(n + h) /\ n + g \in 0..(n + g)
      BY <2>6
    <3> QED
      BY <2>4, <3>1
  <2>10. e1[k + h].cost <= e2[k + g].cost /\ e1[k + h].cost \in Int
         /\ e2[k + g].cost \in Int
    BY <2>6
  <2>11. t1[n + h] - t1[k - 1 + h] <= t2[n + g] - t2[k - 1 + g]
    BY <2>7, <2>8, <2>9, <2>10
  <2> QED
    BY <2>2, <2>6, <2>11
<1>2. ASSUME NEW i \in 0..n
      PROVE  t1[n + h] - t1[i + h] <= t2[n + g] - t2[i + g]
  <2>1. n - i \in 0..n /\ n - (n - i) = i
    OBVIOUS
  <2>2. P(n - i)
    BY <1>1, <2>1
  <2> QED
    BY <2>1, <2>2
<1> QED
  BY <1>2

LEMMA TotalsIs ==
    ASSUME NEW events, Len(events) \in Nat,
           \A i \in 1..Len(events) : events[i].cost \in Nat
    PROVE  IsTotals(Totals(events), events, Len(events))
<1> DEFINE n == Len(events)
           IsRec(t) == t = [m \in 0..n |-> IF m = 0 THEN 0
                                           ELSE t[m - 1] + events[m].cost]
<1>1. PICK t : IsTotals(t, events, n)
  BY TotalsExist
<1>2. \A u : IsTotals(u, events, n) => IsRec(u)
  BY DEF IsTotals
<1>3. \E u : IsRec(u)
  BY <1>1, <1>2
<1>4. Totals(events) = CHOOSE u : IsRec(u)
  BY DEF Totals
<1>5. IsRec(Totals(events))
  BY <1>3, <1>4
<1> DEFINE v == Totals(events)
<1>6. /\ DOMAIN v = 0..n /\ v[0] = 0
      /\ \A i \in 1..n : v[i] = v[i - 1] + events[i].cost
  <2> HIDE DEF v
  <2>1. v = [m \in 0..n |-> IF m = 0 THEN 0 ELSE v[m - 1] + events[m].cost]
    BY <1>5 DEF v
  <2> QED
    BY <2>1
<1> HIDE DEF v
<1>7. v = t
  <2> DEFINE Bad == {m \in 0..n : v[m] # t[m]}
  <2>1. /\ t \in [0..n -> Int] /\ t[0] = 0
        /\ \A i \in 1..n : t[i] = t[i - 1] + events[i].cost
    BY <1>1 DEF IsTotals
  <2>2. Bad = {}
    <3> SUFFICES ASSUME Bad # {} PROVE FALSE
      OBVIOUS
    <3>1. Min(Bad) \in Bad /\ \A y \in Bad : Min(Bad) <= y
      <4>1. Bad \in SUBSET (0..n) /\ Bad # {}
        OBVIOUS
      <4> HIDE DEF Bad
      <4> QED
        BY <4>1, MinIsMember
    <3> DEFINE m == Min(Bad)
    <3>2. m \in 0..n /\ v[m] # t[m]
      BY <3>1
    <3>4. \A y \in 0..n : y < m => v[y] = t[y]
      BY <3>1, <3>2
    <3> HIDE DEF m, Bad
    <3>3. m \in 1..n /\ m - 1 \in 0..n /\ m - 1 < m
      BY <1>6, <2>1, <3>2
    <3> QED
      BY <1>6, <2>1, <3>2, <3>3, <3>4
  <2>3. v = [i \in 0..n |-> v[i]]
    <3>1. v = [m \in 0..n |-> IF m = 0 THEN 0 ELSE v[m - 1] + events[m].cost]
      BY <1>5 DEF v
    <3> QED
      BY <3>1
  <2> QED
    BY <2>1, <2>2, <2>3
<1> QED
  BY <1>1, <1>7 DEF v

\* What the events after the first k cost.
CostAfter(events, k) == SumCosts(events) - Totals(events)[k]

LEMMA CostsAdd ==
    ASSUME NEW T, NEW events \in Seq(T), \A e \in T : e.cost \in Nat
    PROVE  /\ Len(events) \in Nat /\ DOMAIN events = 1..Len(events)
           /\ \A i \in 1..Len(events) : events[i] \in T /\ events[i].cost \in Nat
           /\ Adds(Totals(events), events, Len(events))
           /\ \A k \in 0..Len(events) : CostAfter(events, k) \in Int
           /\ CostAfter(events, Len(events)) = 0
           /\ CostAfter(events, 0) = SumCosts(events)
<1>1. /\ Len(events) \in Nat /\ DOMAIN events = 1..Len(events)
      /\ \A i \in 1..Len(events) : events[i] \in T
  BY LenProperties, ElementOfSeq
<1>2. \A i \in 1..Len(events) : events[i].cost \in Nat
  BY <1>1
<1>3. IsTotals(Totals(events), events, Len(events))
  BY <1>1, <1>2, TotalsIs
<1>4. Adds(Totals(events), events, Len(events))
  BY <1>3 DEF IsTotals, Adds
<1>5. 0 \in 0..Len(events) /\ Len(events) \in 0..Len(events)
  BY <1>1
<1> QED
  BY <1>1, <1>2, <1>4, <1>5 DEF Adds, CostAfter, SumCosts

\* Where the events after the first g of one sequence cost no more than those
\* after the first h of another one, every rest of them does.
LEMMA CostsCompare ==
    ASSUME NEW T1, NEW s1 \in Seq(T1), \A e \in T1 : e.cost \in Nat,
           NEW T2, NEW s2 \in Seq(T2), \A e \in T2 : e.cost \in Nat,
           NEW n \in Nat, NEW h \in Nat, NEW g \in Nat,
           Len(s1) = n + h, Len(s2) = n + g,
           \A i \in 1..n : s1[i + h].cost <= s2[i + g].cost
    PROVE  \A i \in 0..n : CostAfter(s1, i + h) <= CostAfter(s2, i + g)
<1>1. /\ Adds(Totals(s1), s1, n + h) /\ Adds(Totals(s2), s2, n + g)
      /\ \A i \in 1..(n + h) : s1[i].cost \in Nat
      /\ \A i \in 1..(n + g) : s2[i].cost \in Nat
  BY CostsAdd
<1>2. \A i \in 1..n : /\ s1[i + h].cost \in Int /\ s2[i + g].cost \in Int
                      /\ s1[i + h].cost <= s2[i + g].cost
  <2>1. \A i \in 1..n : i + h \in 1..(n + h) /\ i + g \in 1..(n + g)
    OBVIOUS
  <2> QED
    BY <1>1, <2>1
<1>3. \A i \in 0..n : Totals(s1)[n + h] - Totals(s1)[i + h]
                        <= Totals(s2)[n + g] - Totals(s2)[i + g]
  BY <1>1, <1>2, TotalsCompare
<1> QED
  BY <1>3 DEF CostAfter, SumCosts

LEMMA CostsAppend ==
    ASSUME NEW T, NEW events \in Seq(T), NEW e \in T, \A x \in T : x.cost \in Nat
    PROVE  /\ \A k \in 0..Len(events) :
                CostAfter(Append(events, e), k) = CostAfter(events, k) + e.cost
           /\ CostAfter(Append(events, e), Len(events) + 1) = 0
<1> DEFINE new == Append(events, e)
           n   == Len(events)
           t   == Totals(events)
           u   == Totals(new)
<1>1. /\ new \in Seq(T) /\ Len(new) = n + 1
      /\ \A i \in 1..n : new[i] = events[i]
      /\ new[n + 1] = e
  BY AppendIs
<1>2. /\ n \in Nat /\ \A i \in 1..n : events[i].cost \in Nat
      /\ Adds(t, events, n)
  BY CostsAdd
<1> HIDE DEF new
<1>3. Adds(u, new, n + 1) /\ CostAfter(new, n + 1) = 0
  BY <1>1, CostsAdd
<1> HIDE DEF t, u, n
<1>4. Adds(u, new, n) /\ u[n + 1] = u[n] + e.cost
  <2>1. /\ \A i \in 0..n : i \in 0..(n + 1)
        /\ \A i \in 1..n : i \in 1..(n + 1)
        /\ n + 1 \in 1..(n + 1) /\ (n + 1) - 1 = n
    BY <1>2
  <2>2. /\ \A i \in 0..(n + 1) : u[i] \in Int
        /\ u[0] = 0
        /\ \A i \in 1..(n + 1) : u[i] = u[i - 1] + new[i].cost
    BY <1>3 DEF Adds
  <2>3. u[n + 1] = u[(n + 1) - 1] + new[n + 1].cost
    <3> DEFINE m == n + 1
    <3>1. m \in 1..m
      BY <2>1
    <3>2. \A i \in 1..m : u[i] = u[i - 1] + new[i].cost
      BY <2>2
    <3> HIDE DEF m
    <3>3. u[m] = u[m - 1] + new[m].cost
      BY <3>1, <3>2
    <3> QED
      BY <3>3 DEF m
  <2>4. Adds(u, new, n)
    BY <2>1, <2>2 DEF Adds
  <2> QED
    BY <1>1, <2>1, <2>3, <2>4
<1>5. \A i \in 0..n : u[n + 0] - u[i + 0] <= t[n + 0] - t[i + 0]
  <2>1. \A i \in 1..n : /\ new[i + 0].cost \in Int /\ events[i + 0].cost \in Int
                        /\ new[i + 0].cost <= events[i + 0].cost
    BY <1>1, <1>2
  <2>2. Adds(u, new, n + 0) /\ Adds(t, events, n + 0)
    BY <1>2, <1>4
  <2> QED
    BY <1>2, <2>1, <2>2, TotalsCompare
<1>6. \A i \in 0..n : t[n + 0] - t[i + 0] <= u[n + 0] - u[i + 0]
  <2>1. \A i \in 1..n : /\ new[i + 0].cost \in Int /\ events[i + 0].cost \in Int
                        /\ events[i + 0].cost <= new[i + 0].cost
    BY <1>1, <1>2
  <2>2. Adds(u, new, n + 0) /\ Adds(t, events, n + 0)
    BY <1>2, <1>4
  <2> QED
    BY <1>2, <2>1, <2>2, TotalsCompare
<1>7. ASSUME NEW k \in 0..n
      PROVE  CostAfter(new, k) = CostAfter(events, k) + e.cost
  <2>1. k + 0 = k /\ n + 0 = n /\ n \in 0..n
    BY <1>2
  <2>2. u[n] - u[k] <= t[n] - t[k] /\ t[n] - t[k] <= u[n] - u[k]
    BY <1>5, <1>6, <2>1
  <2>3. u[n] \in Int /\ u[k] \in Int /\ t[n] \in Int /\ t[k] \in Int
    BY <1>2, <1>4, <2>1 DEF Adds
  <2>4. e.cost \in Nat
    OBVIOUS
  <2>5. u[n + 1] - u[k] = t[n] - t[k] + e.cost
    <3> DEFINE a == u[n]
               b == u[k]
               x == t[n]
               y == t[k]
               z == e.cost
               w == u[n + 1]
    <3>1. /\ a \in Int /\ b \in Int /\ x \in Int /\ y \in Int /\ z \in Nat
          /\ w = a + z /\ a - b <= x - y /\ x - y <= a - b
      BY <1>4, <2>2, <2>3, <2>4
    <3> HIDE DEF a, b, x, y, z, w
    <3>2. w - b = x - y + z
      BY <3>1
    <3> QED
      BY <3>2 DEF a, b, x, y, z, w
  <2> QED
    BY <1>1, <2>5 DEF CostAfter, SumCosts, t, u, n
<1> QED
  BY <1>3, <1>7 DEF new, n

\* The later one begins, the less it is.
LEMMA CostsFall ==
    ASSUME NEW T, NEW events \in Seq(T), \A x \in T : x.cost \in Nat
    PROVE  \A k \in 0..Len(events) : CostAfter(events, k) <= CostAfter(events, 0)
<1> DEFINE n == Len(events)
           t == Totals(events)
           Bad == {k \in 0..n : ~(t[0] <= t[k])}
<1>1. /\ n \in Nat /\ \A i \in 1..n : events[i].cost \in Nat
      /\ Adds(t, events, n)
  BY CostsAdd
<1>2. Bad = {}
  <2> SUFFICES ASSUME Bad # {} PROVE FALSE
    OBVIOUS
  <2>1. Min(Bad) \in Bad /\ \A y \in Bad : Min(Bad) <= y
    <3>1. Bad \in SUBSET (0..n)
      OBVIOUS
    <3> HIDE DEF Bad
    <3> QED
      BY <1>1, <3>1, MinIsMember
  <2> DEFINE m == Min(Bad)
  <2>2. m \in 0..n /\ ~(t[0] <= t[m])
    BY <2>1
  <2>3. \A y \in 0..n : y < m => t[0] <= t[y]
    BY <2>1, <2>2
  <2> HIDE DEF m, Bad, t, n
  <2>4. m # 0
    BY <1>1, <2>2 DEF Adds
  <2>5. m - 1 \in 0..n /\ m - 1 < m /\ m \in 1..n
    BY <1>1, <2>2, <2>4
  <2>6. /\ t[m] = t[m - 1] + events[m].cost /\ events[m].cost \in Nat
        /\ t[m - 1] \in Int /\ t[0] \in Int /\ t[0] <= t[m - 1]
    BY <1>1, <2>3, <2>5 DEF Adds
  <2> QED
    BY <2>2, <2>6
<1>3. ASSUME NEW k \in 0..n
      PROVE  t[n] - t[k] <= t[n] - t[0]
  <2>1. t[0] <= t[k]
    BY <1>2
  <2>2. t[0] \in Int /\ t[k] \in Int /\ t[n] \in Int
    BY <1>1 DEF Adds
  <2> HIDE DEF t
  <2> QED
    BY <2>1, <2>2
<1> QED
  BY <1>3 DEF CostAfter, SumCosts

---------------------------------------------------------------------------
(* The budget of a window *)

\* The blind requests after the first k.
BlindAfter(requests, k) == {i \in (k + 1)..Len(requests) : requests[i].blind}

\* However many of the oldest requests have left the window, the others keep
\* within the budget.
SuffixesKept ==
    \A k \in 0..Len(sent) :
      CostAfter(sent, k)
        <= Limit + ReservedCost * Cardinality(BlindAfter(sent, k))

\* A request that has not been answered has its full reservation.
Reserved ==
    \A i \in 1..Len(sent) : sent[i].owner # None => sent[i].cost = ReservedCost

\* The events are those of the requests, after some that have expired.
Mirrors(events, requests) ==
    LET n == Len(events) - Len(requests) IN
    /\ n \in Nat
    /\ \A i \in 1..n : events[i].left = 0
    /\ \A i \in 1..Len(requests) : /\ events[i + n].owner = requests[i].owner
                                   /\ events[i + n].cost = requests[i].cost
                                   /\ events[i + n].left = requests[i].left

BudgetInv == SuffixesKept /\ Reserved /\ Mirrors(bucket, sent)

LEMMA LimitIs == Limit \in Nat
<1>1. \A m \in Nat : m >= 10 =>
        (m * 2 + 99) \div 100 \in Nat /\ (m * 2 + 99) \div 100 <= m
  <2> SUFFICES ASSUME NEW m \in Nat, m >= 10
               PROVE  (m * 2 + 99) \div 100 \in Nat /\ (m * 2 + 99) \div 100 <= m
    OBVIOUS
  <2> QED
    OBVIOUS
<1>2. (MaxTokens * 2 + 99) \div 100 \in Nat /\ (MaxTokens * 2 + 99) \div 100 <= MaxTokens
      /\ MaxTokens \in Nat /\ MaxTokens >= 10
  BY <1>1, Parameters
<1> DEFINE d == (MaxTokens * 2 + 99) \div 100
<1> HIDE DEF d
<1> QED
  BY <1>2 DEF Limit, Larger, ReservedCost, d

LEMMA BlindFinite ==
    ASSUME NEW s \in Seq(Request), NEW k \in 0..Len(s)
    PROVE  IsFiniteSet(BlindAfter(s, k)) /\ Cardinality(BlindAfter(s, k)) \in Nat
<1>1. Len(s) \in Nat
  BY LenProperties
<1>2. IsFiniteSet((k + 1)..Len(s))
  BY <1>1, FS_Interval
<1>3. BlindAfter(s, k) \subseteq (k + 1)..Len(s)
  BY DEF BlindAfter
<1> QED
  BY <1>2, <1>3, FS_Subset, FS_CardinalityType

\* The blind requests of a sequence that has lost its first h.
LEMMA BlindShift ==
    ASSUME NEW T, NEW s1 \in Seq(T), NEW T2, NEW s2 \in Seq(T2),
           NEW h \in Nat, Len(s2) = Len(s1) + h,
           \A i \in 1..Len(s1) : s1[i].blind = s2[i + h].blind,
           NEW k \in 0..Len(s1)
    PROVE  Cardinality(BlindAfter(s1, k)) = Cardinality(BlindAfter(s2, k + h))
<1> DEFINE A == BlindAfter(s1, k)
           B == BlindAfter(s2, k + h)
           f == [i \in A |-> i + h]
<1>1. Len(s1) \in Nat /\ IsFiniteSet(A)
  <2>1. Len(s1) \in Nat
    BY LenProperties
  <2>2. IsFiniteSet((k + 1)..Len(s1)) /\ A \subseteq (k + 1)..Len(s1)
    BY <2>1, FS_Interval DEF BlindAfter
  <2> QED
    BY <2>1, <2>2, FS_Subset
<1>2. A \subseteq Nat /\ B \subseteq Nat
  BY <1>1 DEF BlindAfter
<1>3. \A i \in A : i + h \in B
  BY <1>1 DEF BlindAfter
<1>4. \A j \in B : j - h \in A /\ (j - h) + h = j
  BY <1>1 DEF BlindAfter
<1> HIDE DEF A, B
<1>5. f \in [A -> B]
  BY <1>3
<1>6. \A i, j \in A : f[i] = f[j] => i = j
  BY <1>2
<1>7. \A j \in B : \E i \in A : f[i] = j
  BY <1>4
<1>8. f \in Bijection(A, B)
  <2>1. DOMAIN f = A
    OBVIOUS
  <2> HIDE DEF f
  <2>2. IsInjective(f)
    BY <1>6, <2>1 DEF IsInjective
  <2> QED
    BY <1>5, <1>7, <2>2 DEF Bijection, Injection, Surjection
<1>9. Cardinality(B) = Cardinality(A)
  BY <1>1, <1>8, FS_Bijection DEF ExistsBijection
<1> QED
  BY <1>9 DEF A, B

LEMMA WindowFacts ==
    ASSUME TypeOK
    PROVE  /\ sent \in Seq(Request) /\ bucket \in Seq(Event)
           /\ Len(sent) \in Nat /\ Len(bucket) \in Nat
           /\ DOMAIN sent = 1..Len(sent) /\ DOMAIN bucket = 1..Len(bucket)
           /\ \A i \in 1..Len(sent) :
                /\ sent[i] \in Request /\ sent[i].left \in 1..Window
                /\ sent[i].cost \in 0..ReservedCost
           /\ \A i \in 1..Len(bucket) :
                /\ bucket[i] \in Event /\ bucket[i].left \in Nat
                /\ bucket[i].cost \in 0..ReservedCost
           /\ \A e \in Event : e.cost \in Nat
           /\ \A r \in Request : r.cost \in Nat
<1>1. sent \in Seq(Request) /\ bucket \in Seq(Event)
  BY DEF TypeOK
<1>2. /\ Len(sent) \in Nat /\ Len(bucket) \in Nat
      /\ DOMAIN sent = 1..Len(sent) /\ DOMAIN bucket = 1..Len(bucket)
      /\ \A i \in 1..Len(sent) : sent[i] \in Request
      /\ \A i \in 1..Len(bucket) : bucket[i] \in Event
  BY <1>1, LenProperties, ElementOfSeq
<1>3. /\ \A e \in Event : e.left \in Nat /\ e.cost \in 0..ReservedCost
      /\ \A r \in Request : r.left \in 1..Window /\ r.cost \in 0..ReservedCost
  BY LeftIs
<1>4. \A m \in 0..ReservedCost : m \in Nat
  BY DEF ReservedCost
<1> HIDE DEF Event, Request
<1> QED
  BY <1>1, <1>2, <1>3, <1>4

\* What pruning leaves of the bucket is the window.
LEMMA PrunedMirrors ==
    ASSUME TypeOK, Mirrors(bucket, sent)
    PROVE  /\ Pruned(bucket) \in Seq(Event)
           /\ Len(Pruned(bucket)) = Len(sent)
           /\ \A i \in 1..Len(sent) : Pruned(bucket)[i] \in Event
           /\ \A i \in 1..Len(sent) : /\ Pruned(bucket)[i].owner = sent[i].owner
                                      /\ Pruned(bucket)[i].cost = sent[i].cost
                                      /\ Pruned(bucket)[i].left = sent[i].left
<1> DEFINE p == Pruned(bucket)
           n == Len(bucket) - Len(sent)
<1>1. /\ n \in Nat
      /\ \A i \in 1..n : bucket[i].left = 0
      /\ \A i \in 1..Len(sent) : /\ bucket[i + n].owner = sent[i].owner
                                 /\ bucket[i + n].cost = sent[i].cost
                                 /\ bucket[i + n].left = sent[i].left
  BY DEF Mirrors
<1>2. p \in Seq(Event) /\ Len(p) \in Nat /\ DOMAIN p = 1..Len(p)
      /\ \A i \in 1..Len(p) : p[i] \in Event
  BY WindowFacts, PrunedIs, LenProperties, ElementOfSeq
<1>3. PICK k \in 0..Len(bucket) :
        /\ Len(p) = Len(bucket) - k
        /\ \A i \in DOMAIN p : i + k \in DOMAIN bucket /\ p[i] = bucket[i + k]
        /\ p # <<>> => bucket[1 + k].left > 0
        /\ \A i \in 1..k : bucket[i].left = 0
  BY WindowFacts, PrunedIs
<1>4. Len(sent) \in Nat /\ Len(bucket) \in Nat /\ n = Len(bucket) - Len(sent)
  BY WindowFacts
<1> HIDE DEF p, n
<1>5. ~(k < n)
  <2> SUFFICES ASSUME k < n PROVE FALSE
    OBVIOUS
  <2>1. Len(p) > 0 /\ 1 + k \in 1..n
    BY <1>1, <1>3, <1>4
  <2>2. p # <<>>
    BY <2>1, EmptySeq
  <2> QED
    BY <1>1, <1>3, <2>1, <2>2
<1>6. ~(n < k)
  <2> SUFFICES ASSUME n < k PROVE FALSE
    OBVIOUS
  <2>1. k \in 1..k /\ k - n \in 1..Len(sent) /\ (k - n) + n = k
    BY <1>1, <1>3, <1>4
  <2>2. bucket[k].left = 0
    BY <1>3, <2>1
  <2>3. bucket[k].left = sent[k - n].left
    BY <1>1, <2>1
  <2> QED
    BY <2>1, <2>2, <2>3, WindowFacts
<1>7. k = n /\ Len(p) = Len(sent)
  <2>1. k \in Nat /\ n \in Nat
    BY <1>1, <1>4
  <2>2. k = n
    BY <1>5, <1>6, <2>1
  <2> QED
    BY <1>3, <1>4, <2>2
<1>8. \A i \in 1..Len(sent) : p[i] = bucket[i + n]
  BY <1>2, <1>3, <1>7
<1> QED
  BY <1>1, <1>2, <1>7, <1>8 DEF p

\* A window without expired events that makes nobody wait has room for another
\* request.
LEMMA RoomIfNoWait ==
    ASSUME NEW events \in Seq(Event), RequiredWait(events) = 0,
           \A i \in 1..Len(events) : events[i].left \in 1..Window
    PROVE  SumCosts(events) + ReservedCost <= Limit
<1> DEFINE Fits(n) == SumCosts(SubSeq(events, n + 1, Len(events))) + ReservedCost
                        <= Limit
           enough  == {n \in 0..Len(events) : Fits(n)}
<1>1. Len(events) \in Nat
  BY LenProperties
<1>2. RequiredWait(events) =
        CASE enough = {}  -> Window
          [] 0 \in enough -> 0
          [] OTHER -> events[Min(enough)].left
  BY DEF RequiredWait
<1>3. enough \in SUBSET (0..Len(events)) /\ (0 \in enough => Fits(0))
  OBVIOUS
<1> HIDE DEF enough
<1>4. CASE enough = {}
  BY <1>2, <1>4, Parameters
<1>5. CASE 0 \in enough
  <2>1. SubSeq(events, 1, Len(events)) = events /\ 0 + 1 = 1
    BY SubSeqFull
  <2> QED
    BY <1>3, <1>5, <2>1
<1>6. CASE enough # {} /\ 0 \notin enough
  <2>1. Min(enough) \in enough
    BY <1>1, <1>3, <1>6, MinIsMember
  <2>2. Min(enough) \in 1..Len(events)
    <3>1. Min(enough) \in 0..Len(events) /\ Min(enough) # 0
      BY <1>3, <1>6, <2>1
    <3> QED
      BY <1>1, <3>1
  <2>3. events[Min(enough)].left = 0
    BY <1>2, <1>6
  <2> QED
    BY <2>2, <2>3
<1> QED
  BY <1>4, <1>5, <1>6

\* A call that need not wait and knows the policy finds room in the window.
LEMMA RoomIfAcquired ==
    ASSUME IInv, Mirrors(bucket, sent), known, WaitMs = 0
    PROVE  SumCosts(sent) + ReservedCost <= Limit
<1> DEFINE p == Pruned(bucket)
           r == RequiredWait(p)
<1>0. TypeOK
  BY DEF IInv
<1>1. /\ p \in Seq(Event) /\ Len(p) = Len(sent)
      /\ \A i \in 1..Len(sent) : p[i].cost = sent[i].cost
      /\ \A i \in 1..Len(sent) : p[i].left = sent[i].left
  BY <1>0, PrunedMirrors
<1>2. r \in Nat
  BY <1>1, RequiredWaitIs
<1>3. r = 0
  <2>1. /\ blocked["all"] \in Nat /\ blocked["bucket"] \in Nat
    BY <1>0, StateFacts
  <2>2. WaitMs = Larger(blocked["all"], Larger(blocked["bucket"], r))
    BY DEF WaitMs
  <2> HIDE DEF r
  <2>3. Larger(blocked["bucket"], r) \in Nat /\ r <= Larger(blocked["bucket"], r)
    BY <1>2, <2>1, LargerIs
  <2>4. Larger(blocked["bucket"], r) <= WaitMs
    BY <2>1, <2>2, <2>3, LargerIs
  <2> QED
    BY <1>2, <2>3, <2>4
<1> HIDE DEF p
<1>4. SumCosts(p) + ReservedCost <= Limit
  BY <1>0, <1>1, <1>3, RoomIfNoWait, WindowFacts
<1>5. SumCosts(p) = SumCosts(sent)
  <2> DEFINE n == Len(sent)
  <2>1. /\ n \in Nat /\ sent \in Seq(Request)
        /\ \A e \in Event : e.cost \in Nat
        /\ \A e \in Request : e.cost \in Nat
        /\ \A i \in 1..n : sent[i].cost \in Nat
    BY <1>0, WindowFacts DEF ReservedCost
  <2>2. /\ Len(p) = n + 0 /\ Len(sent) = n + 0
        /\ \A i \in 1..n : p[i + 0].cost <= sent[i + 0].cost
        /\ \A i \in 1..n : sent[i + 0].cost <= p[i + 0].cost
    BY <1>1, <2>1
  <2> HIDE DEF n
  <2>3. \A i \in 0..n : CostAfter(p, i + 0) <= CostAfter(sent, i + 0)
    BY <1>1, <2>1, <2>2, CostsCompare
  <2>4. \A i \in 0..n : CostAfter(sent, i + 0) <= CostAfter(p, i + 0)
    BY <1>1, <2>1, <2>2, CostsCompare
  <2>5. /\ CostAfter(sent, 0) = SumCosts(sent) /\ CostAfter(p, 0) = SumCosts(p)
        /\ CostAfter(sent, 0) \in Int /\ CostAfter(p, 0) \in Int
    <3>1. 0 \in 0..Len(sent) /\ 0 \in 0..Len(p)
      BY <1>1, <2>1, <2>2
    <3> QED
      BY <1>1, <2>1, <3>1, CostsAdd
  <2>6. 0 \in 0..n /\ 0 + 0 = 0
    BY <2>1
  <2> QED
    BY <2>3, <2>4, <2>5, <2>6
<1> QED
  BY <1>4, <1>5

\* A request joins the window, and its event the bucket.
LEMMA RequestAdded ==
    ASSUME TypeOK, SuffixesKept, Reserved,
           NEW events \in Seq(Event), Mirrors(events, sent),
           NEW q \in Request, NEW e \in Event,
           q.owner = e.owner, q.cost = e.cost, q.left = e.left,
           q.owner # None => q.cost = ReservedCost,
           q.blind \/ SumCosts(sent) + ReservedCost <= Limit,
           sent' = Append(sent, q), bucket' = Append(events, e)
    PROVE  BudgetInv'
<1> DEFINE n == Len(sent)
<1>1. /\ sent \in Seq(Request) /\ n \in Nat
      /\ \A r \in Request : r.cost \in Nat
      /\ q.cost \in 0..ReservedCost
  BY WindowFacts, LeftIs
<1>2. /\ sent' \in Seq(Request) /\ Len(sent') = n + 1
      /\ \A i \in 1..n : sent'[i] = sent[i]
      /\ sent'[n + 1] = q
  BY <1>1, AppendIs
<1>3. Reserved'
  BY <1>1, <1>2 DEF Reserved
<1>4. Mirrors(bucket', sent')
  <2> DEFINE m == Len(events) - Len(sent)
  <2>1. /\ Len(events) \in Nat /\ Len(bucket') = Len(events) + 1
        /\ \A i \in 1..Len(events) : bucket'[i] = events[i]
        /\ bucket'[Len(events) + 1] = e
    BY AppendIs, LenProperties
  <2>2. /\ m \in Nat
        /\ \A i \in 1..m : events[i].left = 0
        /\ \A i \in 1..n : /\ events[i + m].owner = sent[i].owner
                           /\ events[i + m].cost = sent[i].cost
                           /\ events[i + m].left = sent[i].left
    BY DEF Mirrors
  <2>3. Len(bucket') - Len(sent') = m /\ Len(events) = n + m
    BY <1>1, <1>2, <2>1
  <2> HIDE DEF m
  <2>4. \A i \in 1..m : bucket'[i].left = 0
    BY <1>1, <2>1, <2>2, <2>3
  <2>5. \A i \in 1..n : bucket'[i + m] = events[i + m] /\ sent'[i] = sent[i]
    BY <1>1, <1>2, <2>1, <2>2, <2>3
  <2>6. bucket'[n + 1 + m] = e /\ sent'[n + 1] = q
    <3>1. n + 1 + m = Len(events) + 1
      BY <1>1, <2>2, <2>3
    <3> QED
      BY <1>2, <2>1, <3>1
  <2>7. \A i \in 1..(n + 1) : /\ bucket'[i + m].owner = sent'[i].owner
                              /\ bucket'[i + m].cost = sent'[i].cost
                              /\ bucket'[i + m].left = sent'[i].left
    <3> TAKE i \in 1..(n + 1)
    <3>1. CASE i \in 1..n
      BY <2>2, <2>5, <3>1
    <3>2. CASE i = n + 1
      <4>1. bucket'[i + m] = e /\ sent'[i] = q
        BY <2>6, <3>2
      <4> QED
        BY <4>1
    <3>3. i \in 1..n \/ i = n + 1
      <4>1. n \in Nat
        BY <1>1
      <4> HIDE DEF n
      <4> QED
        BY <4>1
    <3> QED
      BY <3>1, <3>2, <3>3
  <2> HIDE DEF n
  <2> QED
    BY <1>2, <2>2, <2>3, <2>4, <2>7 DEF Mirrors
<1>5. SuffixesKept'
  <2> SUFFICES ASSUME NEW k \in 0..Len(sent')
               PROVE  CostAfter(sent', k) <=
                        Limit + ReservedCost * Cardinality(BlindAfter(sent', k))
    BY DEF SuffixesKept
  <2> DEFINE B == BlindAfter(sent, k)
             C == BlindAfter(sent', k)
  <2>1. CASE k = n + 1
    <3>1. CostAfter(sent', k) = 0
      BY <1>1, <2>1, CostsAppend
    <3>2. Cardinality(C) \in Nat
      BY <1>2, BlindFinite
    <3> HIDE DEF C
    <3> QED
      BY <3>1, <3>2, LimitIs DEF ReservedCost, C
  <2>2. CASE k \in 0..n
    <3>1. CostAfter(sent', k) = CostAfter(sent, k) + q.cost
          /\ CostAfter(sent, k) \in Int
      BY <1>1, <2>2, CostsAppend, CostsAdd
    <3>2. CostAfter(sent, k) <= Limit + ReservedCost * Cardinality(B)
      BY <2>2 DEF SuffixesKept
    <3>3. /\ IsFiniteSet(B) /\ Cardinality(B) \in Nat
      BY <1>1, <2>2, BlindFinite
    <3>4. CASE q.blind
      <4>1. C = B \cup {n + 1} /\ n + 1 \notin B
        BY <1>1, <1>2, <2>2, <3>4 DEF BlindAfter
      <4> HIDE DEF B, C
      <4>2. Cardinality(C) = Cardinality(B) + 1
        BY <3>3, <4>1, FS_AddElement
      <4> DEFINE x == Cardinality(B)
                 y == CostAfter(sent, k)
                 z == q.cost
      <4>3. y + z <= Limit + ReservedCost * (x + 1)
        <5>1. x \in Nat /\ y \in Int /\ z \in 0..5 /\ y <= Limit + 5 * x
          BY <1>1, <3>1, <3>2, <3>3 DEF ReservedCost, B
        <5> HIDE DEF x, y, z
        <5> QED
          BY <5>1, LimitIs DEF ReservedCost
      <4> QED
        BY <3>1, <4>2, <4>3 DEF C
    <3>5. CASE ~q.blind
      <4>1. C = B
        BY <1>1, <1>2, <2>2, <3>5 DEF BlindAfter
      <4>2. CostAfter(sent, k) <= SumCosts(sent)
        <5>1. Adds(Totals(sent), sent, n)
          BY <1>1, CostsAdd
        <5>2. CostAfter(sent, k) <= CostAfter(sent, 0)
          BY <1>1, <2>2, CostsFall
        <5> QED
          BY <1>1, <5>2, CostsAdd
      <4>3. SumCosts(sent) \in Int
        <5>1. 0 \in 0..Len(sent)
          BY <1>1
        <5> QED
          BY <1>1, <5>1, CostsAdd
      <4> DEFINE x == CostAfter(sent', k)
                 y == CostAfter(sent, k)
                 z == SumCosts(sent)
      <4>4. x <= Limit /\ x \in Int
        <5>1. /\ x = y + q.cost /\ y \in Int /\ q.cost \in 0..ReservedCost
              /\ y <= z /\ z \in Int /\ z + ReservedCost <= Limit
          BY <1>1, <3>1, <3>5, <4>2, <4>3
        <5> HIDE DEF x, y, z
        <5> QED
          BY <5>1, LimitIs DEF ReservedCost
      <4>5. x <= Limit + ReservedCost * Cardinality(C)
        <5> HIDE DEF B, C, x
        <5> QED
          BY <3>3, <4>1, <4>4, LimitIs DEF ReservedCost
      <4> QED
        BY <4>5
    <3> QED
      BY <3>4, <3>5
  <2> QED
    BY <1>1, <1>2, <2>1, <2>2
<1> QED
  BY <1>3, <1>4, <1>5 DEF BudgetInv

LEMMA SettledFields ==
    ASSUME TypeOK, NEW c \in Calls, NEW cost \in 0..ReservedCost
    PROVE  /\ Len(Settled(bucket, c, cost)) = Len(bucket)
           /\ \A i \in 1..Len(bucket) :
                LET e == Settled(bucket, c, cost)[i] IN
                /\ e.owner = IF bucket[i].owner = c THEN None ELSE bucket[i].owner
                /\ e.cost = IF bucket[i].owner = c THEN cost ELSE bucket[i].cost
                /\ e.left = bucket[i].left
           /\ \A i \in 1..Len(sent) :
                LET r == Settled(sent, c, cost)[i] IN
                /\ r.owner = IF sent[i].owner = c THEN None ELSE sent[i].owner
                /\ r.cost = IF sent[i].owner = c THEN cost ELSE sent[i].cost
                /\ r.left = sent[i].left /\ r.blind = sent[i].blind
<1>1. /\ DOMAIN sent = 1..Len(sent) /\ DOMAIN bucket = 1..Len(bucket)
      /\ \A i \in 1..Len(sent) : sent[i] \in Request
      /\ \A i \in 1..Len(bucket) : bucket[i] \in Event
      /\ Len(bucket) \in Nat
  BY WindowFacts
<1>2. \A e \in Event : [e EXCEPT !.owner = None, !.cost = cost].owner = None
        /\ [e EXCEPT !.owner = None, !.cost = cost].cost = cost
        /\ [e EXCEPT !.owner = None, !.cost = cost].left = e.left
  BY DEF Event
<1>3. \A e \in Request : [e EXCEPT !.owner = None, !.cost = cost].owner = None
        /\ [e EXCEPT !.owner = None, !.cost = cost].cost = cost
        /\ [e EXCEPT !.owner = None, !.cost = cost].left = e.left
        /\ [e EXCEPT !.owner = None, !.cost = cost].blind = e.blind
  BY DEF Request
<1>4. Len(Settled(bucket, c, cost)) = Len(bucket)
  <2> DEFINE b == Settled(bucket, c, cost)
  <2>1. DOMAIN b = 1..Len(bucket) /\ b \in Seq(Event)
    BY <1>1, SettledIs DEF Settled
  <2> HIDE DEF b
  <2> QED
    BY <1>1, <2>1, LenProperties DEF b
<1>5. \A i \in 1..Len(bucket) :
        Settled(bucket, c, cost)[i] =
          IF bucket[i].owner = c
          THEN [bucket[i] EXCEPT !.owner = None, !.cost = cost] ELSE bucket[i]
  BY <1>1 DEF Settled
<1>6. \A i \in 1..Len(sent) :
        Settled(sent, c, cost)[i] =
          IF sent[i].owner = c
          THEN [sent[i] EXCEPT !.owner = None, !.cost = cost] ELSE sent[i]
  BY <1>1 DEF Settled
<1> HIDE DEF Event, Request
<1>7. ASSUME NEW i \in 1..Len(bucket)
      PROVE  LET e == Settled(bucket, c, cost)[i] IN
             /\ e.owner = IF bucket[i].owner = c THEN None ELSE bucket[i].owner
             /\ e.cost = IF bucket[i].owner = c THEN cost ELSE bucket[i].cost
             /\ e.left = bucket[i].left
  <2> DEFINE x == bucket[i]
             e == Settled(bucket, c, cost)[i]
             y == [x EXCEPT !.owner = None, !.cost = cost]
  <2>1. y.owner = None /\ y.cost = cost /\ y.left = x.left
    BY <1>1, <1>2, <1>7
  <2>2. e = IF x.owner = c THEN y ELSE x
    BY <1>5, <1>7
  <2> HIDE DEF x, y, e
  <2>3. /\ e.owner = IF x.owner = c THEN None ELSE x.owner
        /\ e.cost = IF x.owner = c THEN cost ELSE x.cost
        /\ e.left = x.left
    BY <2>1, <2>2
  <2> QED
    BY <2>3 DEF e, x
<1>8. ASSUME NEW i \in 1..Len(sent)
      PROVE  LET r == Settled(sent, c, cost)[i] IN
             /\ r.owner = IF sent[i].owner = c THEN None ELSE sent[i].owner
             /\ r.cost = IF sent[i].owner = c THEN cost ELSE sent[i].cost
             /\ r.left = sent[i].left /\ r.blind = sent[i].blind
  <2> DEFINE x == sent[i]
             e == Settled(sent, c, cost)[i]
             y == [x EXCEPT !.owner = None, !.cost = cost]
  <2>1. y.owner = None /\ y.cost = cost /\ y.left = x.left /\ y.blind = x.blind
    BY <1>1, <1>3, <1>8
  <2>2. e = IF x.owner = c THEN y ELSE x
    BY <1>6, <1>8
  <2> HIDE DEF x, y, e
  <2>3. /\ e.owner = IF x.owner = c THEN None ELSE x.owner
        /\ e.cost = IF x.owner = c THEN cost ELSE x.cost
        /\ e.left = x.left /\ e.blind = x.blind
    BY <2>1, <2>2
  <2> QED
    BY <2>3 DEF e, x
<1> QED
  BY <1>4, <1>7, <1>8

\* An answer only lowers the cost of a request that has its full reservation.
LEMMA RequestSettled ==
    ASSUME TypeOK, BudgetInv, NEW c \in Calls, NEW cost \in 0..ReservedCost,
           bucket' = Settled(bucket, c, cost), sent' = Settled(sent, c, cost)
    PROVE  BudgetInv'
<1> DEFINE n == Len(sent)
           m == Len(bucket) - n
<1>1. /\ sent \in Seq(Request) /\ sent' \in Seq(Request) /\ Len(sent') = n
      /\ Len(bucket') = Len(bucket) /\ n \in Nat /\ Len(bucket) \in Nat
      /\ \A r \in Request : r.cost \in Nat
      /\ \A i \in 1..n : sent[i].cost \in 0..ReservedCost
  BY SettledIs, SettledFields, WindowFacts
<1>2. \A i \in 1..n :
        /\ sent'[i].owner = IF sent[i].owner = c THEN None ELSE sent[i].owner
        /\ sent'[i].cost = IF sent[i].owner = c THEN cost ELSE sent[i].cost
        /\ sent'[i].left = sent[i].left /\ sent'[i].blind = sent[i].blind
  BY SettledFields
<1>3. \A i \in 1..Len(bucket) :
        /\ bucket'[i].owner = IF bucket[i].owner = c THEN None ELSE bucket[i].owner
        /\ bucket'[i].cost = IF bucket[i].owner = c THEN cost ELSE bucket[i].cost
        /\ bucket'[i].left = bucket[i].left
  BY SettledFields
<1>4. \A i \in 1..n : sent[i].owner # None => sent[i].cost = ReservedCost
  BY DEF BudgetInv, Reserved
<1>5. Reserved'
  BY <1>1, <1>2, <1>4 DEF Reserved
<1>6. Mirrors(bucket', sent')
  <2>1. /\ m \in Nat
        /\ \A i \in 1..m : bucket[i].left = 0
        /\ \A i \in 1..n : /\ bucket[i + m].owner = sent[i].owner
                           /\ bucket[i + m].cost = sent[i].cost
                           /\ bucket[i + m].left = sent[i].left
    BY DEF BudgetInv, Mirrors
  <2>2. Len(bucket) = n + m /\ Len(bucket') - Len(sent') = m
    BY <1>1
  <2> HIDE DEF n, m
  <2>3. \A i \in 1..m : i \in 1..Len(bucket)
    BY <1>1, <2>1, <2>2
  <2>4. \A i \in 1..n : i + m \in 1..Len(bucket)
    BY <1>1, <2>1, <2>2
  <2>5. \A i \in 1..m : bucket'[i].left = 0
    BY <1>3, <2>1, <2>3
  <2>6. \A i \in 1..n : /\ bucket'[i + m].owner = sent'[i].owner
                        /\ bucket'[i + m].cost = sent'[i].cost
                        /\ bucket'[i + m].left = sent'[i].left
    BY <1>2, <1>3, <2>1, <2>4
  <2> QED
    BY <1>1, <2>1, <2>2, <2>5, <2>6 DEF Mirrors
<1>7. SuffixesKept'
  <2>1. \A i \in 1..n : sent'[i + 0].cost <= sent[i + 0].cost
    <3> SUFFICES ASSUME NEW i \in 1..n PROVE sent'[i].cost <= sent[i].cost
      BY <1>1
    <3>1. CASE sent[i].owner = c
      <4>1. sent[i].cost = ReservedCost /\ sent'[i].cost = cost
        BY <1>2, <1>4, <3>1, Parameters
      <4> QED
        BY <4>1
    <3>2. CASE sent[i].owner # c
      BY <1>1, <1>2, <3>2
    <3> QED
      BY <3>1, <3>2
  <2> HIDE DEF n
  <2>2. \A i \in 0..n : CostAfter(sent', i + 0) <= CostAfter(sent, i + 0)
    <3>1. Len(sent') = n + 0 /\ Len(sent) = n + 0 /\ n \in Nat /\ 0 \in Nat
      BY <1>1 DEF n
    <3> QED
      BY <1>1, <2>1, <3>1, CostsCompare
  <2>3. ASSUME NEW k \in 0..n
        PROVE  CostAfter(sent', k) <=
                 Limit + ReservedCost * Cardinality(BlindAfter(sent', k))
    <3> DEFINE B == BlindAfter(sent, k)
               x == CostAfter(sent', k)
               y == CostAfter(sent, k)
               z == Limit + ReservedCost * Cardinality(B)
    <3>1. BlindAfter(sent', k) = B
      BY <1>1, <1>2, <2>3 DEF BlindAfter, n
    <3>2. y <= z /\ x <= y
      <4>1. k + 0 = k /\ k \in 0..Len(sent)
        BY <1>1 DEF n
      <4> QED
        BY <2>2, <4>1 DEF BudgetInv, SuffixesKept
    <3>3. x \in Int /\ y \in Int /\ z \in Int
      <4>1. x \in Int /\ y \in Int
        BY <1>1, CostsAdd DEF n
      <4>2. Cardinality(B) \in Nat
        BY <1>1, BlindFinite DEF n
      <4> HIDE DEF B
      <4> QED
        BY <4>1, <4>2, LimitIs DEF ReservedCost
    <3> HIDE DEF x, y, z, B
    <3>4. x <= z
      BY <3>2, <3>3
    <3> QED
      BY <3>1, <3>4 DEF x, z
  <2> QED
    BY <1>1, <2>3 DEF SuffixesKept, n
<1> QED
  BY <1>5, <1>6, <1>7 DEF BudgetInv

\* Time passes: the requests that leave the window are at its head.
LEMMA WindowMoves ==
    ASSUME TypeOK, TypeOK', BudgetInv, Tick
    PROVE  BudgetInv'
<1> DEFINE s == Passed(sent)
           n == Len(sent)
           b == Len(bucket)
           m == b - n
           n2 == Len(sent')
<1>1. bucket' = Passed(bucket) /\ sent' = Pruned(s)
  BY DEF Tick
<1>2. /\ sent \in Seq(Request) /\ DOMAIN sent = 1..n /\ n \in Nat
      /\ DOMAIN bucket = 1..b /\ b \in Nat
      /\ \A i \in 1..n : sent[i] \in Request
      /\ \A i \in 1..b : bucket[i] \in Event
      /\ \A r \in Request : r.cost \in Nat
      /\ \A i \in 1..n : sent[i].left \in Nat
  BY WindowFacts, LeftIs
<1>3. sent' \in Seq(Request) /\ bucket' \in Seq(Event) /\ n2 \in Nat
      /\ DOMAIN sent' = 1..n2 /\ DOMAIN bucket' = 1..Len(bucket')
      /\ Len(bucket') \in Nat
  <2>1. sent' \in Seq(Request) /\ bucket' \in Seq(Event)
    BY DEF TypeOK
  <2> QED
    BY <2>1, LenProperties
<1>4. \A i \in 1..n : /\ s[i].owner = sent[i].owner /\ s[i].cost = sent[i].cost
                      /\ s[i].left = Less(sent[i].left)
                      /\ s[i].blind = sent[i].blind
  <2> TAKE i \in 1..n
  <2> DEFINE r == sent[i]
             l == Less(r.left)
  <2>1. r \in Request /\ s[i] = [r EXCEPT !.left = l]
    BY <1>2 DEF Passed
  <2> HIDE DEF r, l, s
  <2>2. /\ s[i].owner = r.owner /\ s[i].cost = r.cost
        /\ s[i].left = l /\ s[i].blind = r.blind
    BY <2>1 DEF Request
  <2> QED
    BY <2>2 DEF r, l
<1>5. /\ Len(bucket') = b
      /\ \A i \in 1..b : /\ bucket'[i].owner = bucket[i].owner
                         /\ bucket'[i].cost = bucket[i].cost
                         /\ bucket'[i].left = Less(bucket[i].left)
  <2>1. ASSUME NEW i \in 1..b
        PROVE  /\ bucket'[i].owner = bucket[i].owner
               /\ bucket'[i].cost = bucket[i].cost
               /\ bucket'[i].left = Less(bucket[i].left)
    <3> DEFINE r == bucket[i]
               l == Less(r.left)
               x == bucket'[i]
    <3>1. r \in Event /\ x = [r EXCEPT !.left = l]
      BY <1>1, <1>2, <2>1 DEF Passed
    <3> HIDE DEF r, l, x
    <3>2. x.owner = r.owner /\ x.cost = r.cost /\ x.left = l
      BY <3>1 DEF Event
    <3> QED
      BY <3>2 DEF r, l, x
  <2>2. Len(bucket') = Len(bucket)
    <3>1. bucket' = [i \in DOMAIN bucket |-> bucket'[i]]
      BY <1>1 DEF Passed
    <3>2. \A i \in DOMAIN bucket : bucket'[i] \in Event
      <4>1. DOMAIN bucket' = DOMAIN bucket
        BY <1>1 DEF Passed
      <4> QED
        BY <1>3, <4>1, ElementOfSeq
    <3> QED
      BY <3>1, <3>2, MappedIs, WindowFacts
  <2> QED
    BY <2>1, <2>2
<1>6. /\ s \in Seq([owner: Calls \cup {None}, cost: 0..ReservedCost,
                    left: 0..Window, blind: BOOLEAN])
      /\ Len(s) = n /\ DOMAIN s = 1..n
      /\ \A i \in 1..n : s[i].left \in Nat
  <2> DEFINE Aged == [owner: Calls \cup {None}, cost: 0..ReservedCost,
                      left: 0..Window, blind: BOOLEAN]
  <2>1. \A i \in 1..n : s[i] \in Aged
    <3>1. \A r \in Request, l \in 0..Window : [r EXCEPT !.left = l] \in Aged
      BY DEF Request
    <3>2. \A i \in 1..n : Less(sent[i].left) \in 0..Window
      <4>1. \A l \in 1..Window : Less(l) \in 0..Window
        BY Parameters DEF Less
      <4> QED
        BY <4>1, WindowFacts
    <3> QED
      BY <1>2, <3>1, <3>2 DEF Passed
  <2>2. s = [i \in DOMAIN sent |-> s[i]]
    BY DEF Passed
  <2>3. \A i \in 1..n : s[i].left \in Nat
    BY <1>2, <1>4, LessIs
  <2> HIDE DEF s, Aged
  <2>4. s \in Seq(Aged) /\ Len(s) = n /\ DOMAIN s = 1..n
    BY <1>2, <2>1, <2>2, MappedIs
  <2> QED
    BY <2>3, <2>4 DEF Aged
<1>7. PICK k \in 0..n :
        /\ n2 = n - k
        /\ \A i \in DOMAIN sent' : i + k \in DOMAIN s /\ sent'[i] = s[i + k]
        /\ sent' # <<>> => s[1 + k].left > 0
        /\ \A i \in 1..k : s[i].left = 0
  <2> HIDE DEF s
  <2> QED
    BY <1>1, <1>6, PrunedIs
<1>8. /\ k \in Nat /\ n = n2 + k
      /\ \A i \in 1..n2 : i + k \in 1..n /\ sent'[i] = s[i + k]
      /\ \A i \in 1..k : i \in 1..n
  <2>1. k \in Nat /\ k <= n
    BY <1>2
  <2> HIDE DEF n, n2, s
  <2>2. n = n2 + k
    BY <1>2, <1>3, <1>7, <2>1
  <2>3. \A i \in 1..k : i \in 1..n
    BY <1>2, <2>1
  <2>4. \A i \in 1..n2 : i + k \in 1..n /\ sent'[i] = s[i + k]
    BY <1>3, <1>6, <1>7 DEF n2
  <2> QED
    BY <2>1, <2>2, <2>3, <2>4
<1>9. \A i \in 1..n2 : /\ sent'[i].owner = sent[i + k].owner
                       /\ sent'[i].cost = sent[i + k].cost
                       /\ sent'[i].left = Less(sent[i + k].left)
                       /\ sent'[i].blind = sent[i + k].blind
  BY <1>4, <1>8
<1> HIDE DEF s, n, b, n2
<1>10. Reserved'
  <2>1. \A i \in 1..n : sent[i].owner # None => sent[i].cost = ReservedCost
    BY DEF BudgetInv, Reserved, n
  <2> QED
    BY <1>8, <1>9, <2>1 DEF Reserved, n2
<1>11. Mirrors(bucket', sent')
  <2>1. /\ m \in Nat
        /\ \A i \in 1..m : bucket[i].left = 0
        /\ \A i \in 1..n : /\ bucket[i + m].owner = sent[i].owner
                           /\ bucket[i + m].cost = sent[i].cost
                           /\ bucket[i + m].left = sent[i].left
    BY DEF BudgetInv, Mirrors, n, b
  <2>2. b = n + m /\ Len(bucket') - Len(sent') = m + k
    BY <1>2, <1>5, <1>8 DEF n2
  <2> HIDE DEF m
  <2>3. \A i \in 1..(m + k) : bucket'[i].left = 0
    <3> SUFFICES ASSUME NEW i \in 1..(m + k) PROVE bucket'[i].left = 0
      OBVIOUS
    <3>1. i \in 1..b
      BY <1>2, <1>8, <2>1, <2>2
    <3>2. CASE i \in 1..m
      BY <1>5, <2>1, <3>1, <3>2 DEF Less
    <3>3. CASE i \notin 1..m
      <4>1. i - m \in 1..k /\ (i - m) + m = i
        BY <1>8, <2>1, <3>3
      <4>2. i - m \in 1..n
        BY <1>8, <4>1
      <4>3. s[i - m].left = 0
        BY <1>7, <4>1
      <4>4. Less(sent[i - m].left) = 0 /\ bucket[i].left = sent[i - m].left
        <5>1. bucket[(i - m) + m].left = sent[i - m].left
          BY <2>1, <4>2
        <5> QED
          BY <1>4, <4>1, <4>2, <4>3, <5>1
      <4> QED
        BY <1>5, <3>1, <4>4
    <3> QED
      BY <3>2, <3>3
  <2>4. \A i \in 1..n2 : /\ bucket'[i + (m + k)].owner = sent'[i].owner
                         /\ bucket'[i + (m + k)].cost = sent'[i].cost
                         /\ bucket'[i + (m + k)].left = sent'[i].left
    <3> TAKE i \in 1..n2
    <3>1. /\ i + k \in 1..n /\ (i + k) + m = i + (m + k) /\ i + (m + k) \in 1..b
      BY <1>2, <1>3, <1>8, <2>1, <2>2
    <3>2. /\ bucket[i + (m + k)].owner = sent[i + k].owner
          /\ bucket[i + (m + k)].cost = sent[i + k].cost
          /\ bucket[i + (m + k)].left = sent[i + k].left
      <4>1. /\ bucket[(i + k) + m].owner = sent[i + k].owner
            /\ bucket[(i + k) + m].cost = sent[i + k].cost
            /\ bucket[(i + k) + m].left = sent[i + k].left
        BY <2>1, <3>1
      <4> QED
        BY <3>1, <4>1
    <3> QED
      BY <1>5, <1>9, <3>1, <3>2
  <2>5. m + k \in Nat
    BY <1>8, <2>1
  <2> QED
    BY <2>2, <2>3, <2>4, <2>5 DEF Mirrors, n2
<1>12. SuffixesKept'
  <2>1. \A i \in 0..n2 : CostAfter(sent', i + 0) <= CostAfter(sent, i + k)
    <3>1. /\ Len(sent') = n2 + 0 /\ Len(sent) = n2 + k /\ n2 \in Nat /\ 0 \in Nat
          /\ \A i \in 1..n2 : sent'[i + 0].cost <= sent[i + k].cost
      <4>1. \A i \in 1..n2 : i + 0 = i /\ sent'[i].cost = sent[i + k].cost
                             /\ sent[i + k].cost \in Nat
        BY <1>2, <1>3, <1>8, <1>9
      <4>2. \A i \in 1..n2 : sent'[i + 0].cost <= sent[i + k].cost
        BY <4>1
      <4> QED
        BY <1>3, <1>8, <4>2 DEF n, n2
    <3> QED
      BY <1>2, <1>3, <1>8, <3>1, CostsCompare
  <2>2. ASSUME NEW j \in 0..n2
        PROVE  CostAfter(sent', j) <=
                 Limit + ReservedCost * Cardinality(BlindAfter(sent', j))
    <3> DEFINE B == BlindAfter(sent, j + k)
               x == CostAfter(sent', j)
               y == CostAfter(sent, j + k)
               z == Limit + ReservedCost * Cardinality(B)
    <3>1. j + 0 = j /\ j + k \in 0..Len(sent) /\ j \in 0..Len(sent')
      BY <1>3, <1>8 DEF n, n2
    <3>2. Cardinality(BlindAfter(sent', j)) = Cardinality(B)
      <4>1. /\ Len(sent) = Len(sent') + k
            /\ \A i \in 1..Len(sent') : sent'[i].blind = sent[i + k].blind
        BY <1>8, <1>9 DEF n, n2
      <4>2. k \in Nat /\ sent \in Seq(Request) /\ sent' \in Seq(Request)
        BY <1>2, <1>3, <1>8
      <4> HIDE DEF Request
      <4> QED
        BY <3>1, <4>1, <4>2, BlindShift
    <3>3. y <= z /\ x <= y
      BY <2>1, <3>1 DEF BudgetInv, SuffixesKept
    <3>4. x \in Int /\ y \in Int /\ z \in Int
      <4>1. x \in Int /\ y \in Int
        BY <1>2, <1>3, <3>1, CostsAdd
      <4>2. Cardinality(B) \in Nat
        BY <1>2, <3>1, BlindFinite
      <4> HIDE DEF B
      <4> QED
        BY <4>1, <4>2, LimitIs DEF ReservedCost
    <3> HIDE DEF x, y, z, B
    <3>5. x <= z
      BY <3>3, <3>4
    <3> QED
      BY <3>2, <3>5 DEF x, z
  <2> QED
    BY <2>2 DEF SuffixesKept, n2
<1> QED
  BY <1>10, <1>11, <1>12 DEF BudgetInv

\* The bucket is pruned at most.
LEMMA WindowKept ==
    ASSUME TypeOK, BudgetInv, sent' = sent,
           bucket' = bucket \/ bucket' = Pruned(bucket)
    PROVE  BudgetInv'
<1>1. Mirrors(bucket', sent')
  <2>1. CASE bucket' = bucket
    BY <2>1 DEF BudgetInv
  <2>2. CASE bucket' = Pruned(bucket)
    <3> DEFINE p == Pruned(bucket)
    <3>1. /\ Len(p) = Len(sent)
          /\ \A i \in 1..Len(sent) : /\ p[i].owner = sent[i].owner
                                     /\ p[i].cost = sent[i].cost
                                     /\ p[i].left = sent[i].left
      BY PrunedMirrors DEF BudgetInv
    <3>2. Len(sent) \in Nat
      BY WindowFacts
    <3> HIDE DEF p
    <3>3. Mirrors(p, sent)
      <4>1. Len(p) - Len(sent) = 0
        BY <3>1, <3>2
      <4> QED
        BY <3>1, <3>2, <4>1 DEF Mirrors
    <3> QED
      BY <2>2, <3>3 DEF p
  <2> QED
    BY <2>1, <2>2
<1> QED
  BY <1>1 DEF BudgetInv, SuffixesKept, Reserved

LEMMA SlotInWindow ==
    ASSUME IInv, BudgetInv, NEW c \in Calls, NEW metered \in BOOLEAN,
           NEW blind \in BOOLEAN,
           TakeSlot(c, metered, blind,
                    IF metered THEN Pruned(bucket) ELSE bucket),
           metered => blind \/ SumCosts(sent) + ReservedCost <= Limit
    PROVE  BudgetInv'
<1> DEFINE events == IF metered THEN Pruned(bucket) ELSE bucket
           e == [owner |-> c, cost |-> ReservedCost, left |-> Window]
           q == [owner |-> c, cost |-> ReservedCost, left |-> Window,
                 blind |-> blind]
<1>0. TypeOK
  BY DEF IInv
<1>1. CASE metered
  <2>1. bucket' = Append(Pruned(bucket), e) /\ sent' = Append(sent, q)
    BY <1>1 DEF TakeSlot
  <2>2. /\ e \in Event /\ q \in Request /\ q.owner = e.owner /\ q.cost = e.cost
        /\ q.left = e.left /\ q.cost = ReservedCost /\ q.blind = blind
    BY Parameters DEF Event, Request, ReservedCost
  <2> HIDE DEF e, q
  <2>3. Pruned(bucket) \in Seq(Event) /\ Mirrors(Pruned(bucket), sent)
    <3> DEFINE p == Pruned(bucket)
    <3>1. /\ p \in Seq(Event) /\ Len(p) = Len(sent)
          /\ \A i \in 1..Len(sent) : /\ p[i].owner = sent[i].owner
                                     /\ p[i].cost = sent[i].cost
                                     /\ p[i].left = sent[i].left
      BY <1>0, PrunedMirrors DEF BudgetInv
    <3>2. Len(sent) \in Nat
      BY <1>0, WindowFacts
    <3> HIDE DEF p
    <3>3. Mirrors(p, sent)
      <4>1. Len(p) - Len(sent) = 0
        BY <3>1, <3>2
      <4> QED
        BY <3>1, <3>2, <4>1 DEF Mirrors
    <3> QED
      BY <3>1, <3>3 DEF p
  <2> QED
    BY <1>0, <1>1, <2>1, <2>2, <2>3, RequestAdded DEF BudgetInv
<1>2. CASE ~metered
  <2>1. bucket' = bucket /\ sent' = sent
    BY <1>2 DEF TakeSlot
  <2> QED
    BY <1>0, <2>1, WindowKept
<1> QED
  BY <1>1, <1>2

LEMMA AnswerInWindow ==
    ASSUME IInv, BudgetInv, NEW c \in Calls, Answer(c)
    PROVE  BudgetInv'
<1>0. TypeOK
  BY DEF IInv
<1>1. PICK status \in Statuses, teaches \in BOOLEAN, after \in Blocks,
           reset \in Blocks \cup {0} :
         LET cost      == ResponseCost(status)
             new       == [owner |-> None, cost |-> cost, left |-> Window]
             adds      == ~calls[c].metered /\ teaches /\ cost > 0
             banned    == IF status = "banned" THEN after ELSE 0
             announced == [all    |-> Larger(banned, reset),
                           bucket |-> IF /\ status = "limited"
                                         /\ calls[c].metered \/ teaches
                                      THEN after ELSE 0]
         IN /\ status \in {"banned", "limited"}
               \/ after = CHOOSE b \in Blocks : TRUE
            /\ known' = (known \/ teaches)
            /\ bucket' = IF adds THEN Append(bucket, new)
                         ELSE Settled(bucket, c, cost)
            /\ sent' = IF adds THEN Append(sent, [owner |-> None,
                              cost |-> cost, left |-> Window, blind |-> TRUE])
                       ELSE Settled(sent, c, cost)
            /\ blocked' = [all |-> BlockFor(BlockFor(blocked.all, banned), reset),
                           bucket |-> BlockFor(blocked.bucket, announced.bucket)]
            /\ closed' = [s \in Scopes |-> Larger(closed[s], announced[s])]
            /\ calls' = [d \in Calls |->
                 IF d = c THEN Idle
                 ELSE [calls[d] EXCEPT !.overtaken =
                         @ \/ \E s \in Scopes : /\ At(d, "waiting")
                                                /\ announced[s] > 0]]
  BY Zenon DEF Answer
<1> DEFINE cost == ResponseCost(status)
           adds == ~calls[c].metered /\ teaches /\ cost > 0
           e == [owner |-> None, cost |-> cost, left |-> Window]
           q == [owner |-> None, cost |-> cost, left |-> Window, blind |-> TRUE]
<1>2. /\ bucket' = IF adds THEN Append(bucket, e) ELSE Settled(bucket, c, cost)
      /\ sent' = IF adds THEN Append(sent, q) ELSE Settled(sent, c, cost)
  BY <1>1
<1>3. cost \in 0..ReservedCost
  BY CostIs
<1> HIDE DEF cost
<1>4. /\ e \in Event /\ q \in Request /\ q.owner = e.owner /\ q.cost = e.cost
      /\ q.left = e.left /\ q.owner = None /\ q.blind = TRUE
  BY <1>3, Parameters DEF Event, Request, ReservedCost
<1> HIDE DEF e, q, adds
<1>5. CASE adds
  <2>1. bucket \in Seq(Event) /\ Mirrors(bucket, sent)
    BY <1>0, WindowFacts DEF BudgetInv
  <2> QED
    BY <1>0, <1>2, <1>4, <1>5, <2>1, RequestAdded DEF BudgetInv
<1>6. CASE ~adds
  BY <1>0, <1>2, <1>3, <1>6, RequestSettled
<1> QED
  BY <1>5, <1>6

LEMMA BudgetStep ==
    ASSUME IInv, IInv', BudgetInv, [Next]_vars
    PROVE  BudgetInv'
<1>0. TypeOK /\ TypeOK'
  BY DEF IInv
<1>1. CASE UNCHANGED vars
  BY <1>1 DEF vars, history, BudgetInv, SuffixesKept, Reserved
<1>2. CASE Snapshot
  BY <1>0, <1>2, WindowKept DEF Snapshot, history
<1>3. CASE Tick
  BY <1>0, <1>3, WindowMoves
<1>4. ASSUME NEW c \in Calls, Acquire(c)
      PROVE  BudgetInv'
  <2>1. CASE WaitMs = 0
    <3>1. TakeSlot(c, known, FALSE, IF known THEN Pruned(bucket) ELSE bucket)
      BY <1>4, <2>1 DEF Acquire
    <3>2. known => SumCosts(sent) + ReservedCost <= Limit
      BY <2>1, RoomIfAcquired DEF BudgetInv
    <3>3. known \in BOOLEAN /\ FALSE \in BOOLEAN
      BY <1>0, StateFacts
    <3> QED
      BY <3>1, <3>2, <3>3, SlotInWindow
  <2>2. CASE WaitMs # 0
    <3>1. sent' = sent /\ bucket' = IF known THEN Pruned(bucket) ELSE bucket
      BY <1>4, <2>2 DEF Acquire, Prune
    <3> QED
      BY <1>0, <3>1, WindowKept
  <2> QED
    BY <2>1, <2>2
<1>5. ASSUME NEW c \in Calls, Wake(c)
      PROVE  BudgetInv'
  <2>1. TakeSlot(c, calls[c].metered, TRUE,
                 IF calls[c].metered THEN Pruned(bucket) ELSE bucket)
    BY <1>5 DEF Wake
  <2>2. calls[c].metered \in BOOLEAN
    BY <1>0, StateFacts
  <2> QED
    BY <2>1, <2>2, SlotInWindow
<1>6. ASSUME NEW c \in Calls, GiveUp(c)
      PROVE  BudgetInv'
  BY <1>0, <1>6, WindowKept DEF GiveUp, history
<1>7. ASSUME NEW c \in Calls, Answer(c)
      PROVE  BudgetInv'
  BY <1>7, AnswerInWindow
<1>8. ASSUME NEW c \in Calls, Throw(c)
      PROVE  BudgetInv'
  <2>1. ReservedCost \in 0..ReservedCost
    BY DEF ReservedCost
  <2> QED
    BY <1>0, <1>8, <2>1, RequestSettled DEF Throw
<1> QED
  BY <1>1, <1>2, <1>3, <1>4, <1>5, <1>6, <1>7, <1>8 DEF Next

LEMMA BudgetInit == Init => BudgetInv
<1> SUFFICES ASSUME Init PROVE BudgetInv
  OBVIOUS
<1>1. sent = <<>> /\ bucket = <<>> /\ Len(sent) = 0 /\ Len(bucket) = 0
      /\ sent \in Seq(Request)
  BY EmptySeq DEF Init
<1>2. Reserved /\ Mirrors(bucket, sent)
  BY <1>1 DEF Reserved, Mirrors
<1>3. SuffixesKept
  <2>1. \A r \in Request : r.cost \in Nat
    <3>1. \A m \in 0..ReservedCost : m \in Nat
      BY DEF ReservedCost
    <3> QED
      BY <3>1, LeftIs
  <2>2. CostAfter(sent, 0) = 0
    BY <1>1, <2>1, CostsAdd
  <2>3. Cardinality(BlindAfter(sent, 0)) \in Nat
    <3>1. 0 \in 0..Len(sent)
      BY <1>1
    <3> QED
      BY <1>1, <3>1, BlindFinite
  <2>4. CostAfter(sent, 0) <=
          Limit + ReservedCost * Cardinality(BlindAfter(sent, 0))
    BY <2>2, <2>3, LimitIs DEF ReservedCost
  <2>5. \A k \in 0..Len(sent) : k = 0
    BY <1>1
  <2> QED
    BY <2>4, <2>5 DEF SuffixesKept
<1> QED
  BY <1>2, <1>3 DEF BudgetInv

\* acquire: the requests of a window cost no more than the policy allows, but
\* for one reservation for each that was sent without a look at the window -
\* for any policy and any number of calls.  The invariant says it of every
\* rest of the window, since the oldest requests leave it first.
THEOREM WindowWithinBudget == Spec => []BudgetKept
<1>1. Init => BudgetInv
  BY BudgetInit
<1>2. IInv /\ IInv' /\ BudgetInv /\ [Next]_vars => BudgetInv'
  BY BudgetStep
<1>3. IInv /\ BudgetInv => BudgetKept
  <2> SUFFICES ASSUME IInv, BudgetInv PROVE BudgetKept
    OBVIOUS
  <2>1. /\ sent \in Seq(Request) /\ DOMAIN sent = 1..Len(sent) /\ Len(sent) \in Nat
        /\ \A r \in Request : r.cost \in Nat
    BY WindowFacts DEF IInv
  <2>2. 0 \in 0..Len(sent) /\ CostAfter(sent, 0) = SumCosts(sent)
    BY <2>1, CostsAdd
  <2>3. BlindAfter(sent, 0) = {i \in DOMAIN sent : sent[i].blind}
    BY <2>1 DEF BlindAfter
  <2> QED
    BY <2>2, <2>3 DEF BudgetInv, SuffixesKept, BudgetKept
<1> QED
  BY <1>1, <1>2, <1>3, InductiveInvariant, PTL DEF Spec

=============================================================================
