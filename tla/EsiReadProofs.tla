--------------------------- MODULE EsiReadProofs ---------------------------
(***************************************************************************)
(* Proofs about EsiRead for any sets of calls and values and any bounds.   *)
(***************************************************************************)
EXTENDS EsiRead, TLAPS

---------------------------------------------------------------------------
(* The inductive invariant *)

\* A row has a generation; connections are authorizations, too.
Counted ==
    /\ row.status # "absent" => row.generation >= 1
    /\ life <= grant

\* What the stage of a call says about its own fields.
Placed(c) ==
    /\ ~At(c, "idle") => calls[c].grant >= 1
    /\ calls[c].grant <= grant /\ calls[c].life <= life
    /\ At(c, "authorizing") \/ At(c, "requesting") => calls[c].attempts < 3
    /\ At(c, "unchanged") => calls[c].cached # Nothing
    /\ At(c, "receiving") => calls[c].answer # Nothing

Types == TypeOK /\ Counted /\ \A c \in Calls : Placed(c)

\* A validator stands for the payload it is stored with.
Paired(e) == e.validator # None => e.validator = e.value

\* What a read may present as current it has seen at EVE.
Current(c) ==
    /\ Paired(calls[c].cached) /\ Paired(calls[c].answer)
    /\ At(c, "requesting") => eve \in calls[c].seen
    /\ At(c, "unchanged") => calls[c].cached.value \in calls[c].seen
    /\ At(c, "receiving") => calls[c].answer.value \in calls[c].seen
    /\ At(c, "answered") /\ calls[c].how \in {"miss", "revalidated"}
       => calls[c].answer.value \in calls[c].seen

Pairs == /\ \A k \in Key : Paired(cache[k])
         /\ \A c \in Calls : Current(c)

\* An entry stands in for failures only.
Last(c) ==
    At(c, "failing") \/ (At(c, "answered") /\ calls[c].how = "stale") =>
      /\ calls[c].failure \in {"outage", "odd", "refused"}
      /\ calls[c].failure = "outage" => calls[c].attempts = 3
      /\ At(c, "answered") => calls[c].failure # "refused"

\* A read that is under way, and one of the present connection.
Under(c) == calls[c].pc \notin {"idle", "answered"}
Ours(c)  == Under(c) /\ calls[c].life = life

\* An entry that nothing is to be said against.
Good(e) == e # Nothing /\ ~e.late

\* Within one connection a generation names one authorization, in calls and
\* entries alike, and the newest names the newest.
Named(key, g) ==
    /\ row.status # "absent" => key <= row.generation
    /\ row.status = "connected" /\ key = row.generation => g = grant

OneName ==
    /\ \A c \in Calls : Ours(c) => Named(calls[c].key, calls[c].grant)
    /\ \A k \in Key : Good(cache[k]) => /\ Named(k, cache[k].grant)
                                        /\ cache[k].grant <= grant
    /\ \A c, d \in Calls : Ours(c) /\ Ours(d) /\ calls[c].key = calls[d].key
                           => calls[c].grant = calls[d].grant
    /\ \A c \in Calls : Ours(c) /\ Good(cache[calls[c].key])
                        => calls[c].grant = cache[calls[c].key].grant

\* The reads of earlier connections have earlier authorizations.
Earlier ==
    \A c \in Calls : Under(c) /\ calls[c].life # life =>
      /\ \A d \in Calls : Ours(d) => calls[c].grant <= calls[d].grant
      /\ \A k \in Key : Good(cache[k]) => calls[c].grant <= cache[k].grant

\* The entry a read has found is not older than its authorization.
Found ==
    \A c \in Calls :
      /\ calls[c].pc \in {"requesting", "unchanged", "failing"}
      /\ Good(calls[c].cached)
      => /\ calls[c].grant <= calls[c].cached.grant
         /\ calls[c].life = life => calls[c].grant = calls[c].cached.grant

\* What a read presents or is about to store is its own.
Own == \A c \in Calls :
         At(c, "receiving") => calls[c].answer.grant = calls[c].grant

Apart == OneName /\ Earlier /\ Found /\ Own

IInv == /\ Types /\ Pairs /\ (\A c \in Calls : Last(c))
        /\ RemovedIsForgotten /\ Apart /\ PrivateStaysApart

---------------------------------------------------------------------------
(* What a step does to the local state of its call *)

Kept(c) == \A d \in Calls \ {c} : calls'[d] = calls[d]

LEMMA NothingType == Nothing \in Entry
BY DEF Entry

LEMMA IdleType == Idle \in CallState
BY NothingType, ParametersAssumption DEF Idle, CallState, Key, Pc, Failure, How

\* A record keeps its type when one of its fields is set.
LEMMA SetFields ==
    ASSUME NEW r \in CallState
    PROVE  /\ \A pc \in Pc : [r EXCEPT !.pc = pc] \in CallState
           /\ \A n \in 0..MaxGrants : [r EXCEPT !.life = n] \in CallState
           /\ \A e \in Entry : [r EXCEPT !.cached = e] \in CallState
           /\ \A n \in 0..3 : [r EXCEPT !.attempts = n] \in CallState
           /\ \A x \in SUBSET Values : [r EXCEPT !.seen = x] \in CallState
           /\ \A f \in Failure : [r EXCEPT !.failure = f] \in CallState
           /\ \A h \in How : [r EXCEPT !.how = h] \in CallState
           /\ \A e \in Entry : [r EXCEPT !.answer = e] \in CallState
BY DEF CallState

LEMMA LeaveFacts ==
    ASSUME calls \in [Calls -> CallState], NEW c \in Calls, Leave(c)
    PROVE  calls' \in [Calls -> CallState] /\ Kept(c) /\ calls'[c] = Idle
BY IdleType DEF Leave, Kept

\* A call gets a new record, and the others keep theirs.
LEMMA RecordFacts ==
    ASSUME calls \in [Calls -> CallState], NEW c \in Calls,
           NEW new \in CallState, calls' = [calls EXCEPT ![c] = new]
    PROVE  calls' \in [Calls -> CallState] /\ Kept(c) /\ calls'[c] = new
BY DEF Kept

LEMMA StartFacts ==
    ASSUME Types, NEW c \in Calls, Start(c)
    PROVE  /\ calls' \in [Calls -> CallState] /\ Kept(c)
           /\ calls'[c] = [Idle EXCEPT !.pc = "authorizing",
                             !.key = row.generation, !.grant = grant, !.life = life]
<1> DEFINE new == [Idle EXCEPT !.pc = "authorizing", !.key = row.generation,
                               !.grant = grant, !.life = life]
<1>1. calls' = [calls EXCEPT ![c] = new]
  BY DEF Start
<1>2. row.generation \in Key /\ grant \in 0..MaxGrants /\ life \in 0..MaxGrants
  BY DEF Start, Types, TypeOK, Counted, Key
<1>3. new \in CallState
  BY <1>2, IdleType DEF CallState, Pc, Failure, How
<1> QED
  BY <1>1, <1>3, RecordFacts DEF Types, TypeOK

LEMMA AnswerFacts ==
    ASSUME Types, NEW c \in Calls,
           NEW how \in How,
           NEW entry \in Entry, Answer(c, how, entry)
    PROVE  /\ calls' \in [Calls -> CallState] /\ Kept(c)
           /\ calls'[c].pc = "answered"
           /\ calls'[c].life = 0
           /\ calls'[c].cached = Nothing
           /\ calls'[c].how = how
           /\ calls'[c].answer = entry
           /\ calls'[c].key = calls[c].key
           /\ calls'[c].grant = calls[c].grant
           /\ calls'[c].attempts = calls[c].attempts
           /\ calls'[c].seen = calls[c].seen
           /\ calls'[c].failure = calls[c].failure
<1> DEFINE new == [calls[c] EXCEPT !.pc = "answered", !.how = how,
                             !.answer = entry, !.cached = Nothing, !.life = 0]
<1>1. calls' = [calls EXCEPT ![c] = new]
  BY Zenon DEF Answer
<1>2. calls[c] \in CallState
  BY DEF Types, TypeOK
<1>3. new \in CallState
  <2> DEFINE r1 == [calls[c] EXCEPT !.pc = "answered"]
             r2 == [r1 EXCEPT !.how = how]
             r3 == [r2 EXCEPT !.answer = entry]
             r4 == [r3 EXCEPT !.cached = Nothing]
  <2>1. r1 \in CallState
    BY <1>2, SetFields DEF Pc
  <2>2. r2 \in CallState
    BY <2>1, SetFields
  <2>3. r3 \in CallState
    BY <2>2, SetFields
  <2>4. r4 \in CallState
    BY <2>3, SetFields, NothingType
  <2>5. 0 \in 0..MaxGrants
    BY ParametersAssumption
  <2>6. [r4 EXCEPT !.life = 0] \in CallState
    BY <2>4, <2>5, SetFields
  <2> QED
    BY <2>6
<1>9. /\ new.pc = "answered"
      /\ new.life = 0
      /\ new.cached = Nothing
      /\ new.how = how
      /\ new.answer = entry
      /\ new.key = calls[c].key
      /\ new.grant = calls[c].grant
      /\ new.attempts = calls[c].attempts
      /\ new.seen = calls[c].seen
      /\ new.failure = calls[c].failure
  BY <1>2 DEF CallState
<1> QED
  BY <1>9, <1>1, <1>3, RecordFacts DEF Types, TypeOK

LEMMA LookupFacts ==
    ASSUME Types, NEW c \in Calls, Lookup(c)
    PROVE  /\ calls' \in [Calls -> CallState] /\ Kept(c)
           /\ calls'[c].pc = "requesting"
           /\ calls'[c].cached = cache[calls[c].key]
           /\ calls'[c].seen = {eve}
           /\ calls'[c].key = calls[c].key
           /\ calls'[c].grant = calls[c].grant
           /\ calls'[c].life = calls[c].life
           /\ calls'[c].attempts = calls[c].attempts
           /\ calls'[c].failure = calls[c].failure
           /\ calls'[c].how = calls[c].how
           /\ calls'[c].answer = calls[c].answer
<1> DEFINE new == [calls[c] EXCEPT !.pc = "requesting",
                             !.cached = cache[calls[c].key], !.seen = {eve}]
<1>1. calls' = [calls EXCEPT ![c] = new]
  BY Zenon DEF Lookup, KeyOf
<1>2. calls[c] \in CallState /\ eve \in Values /\ cache \in [Key -> Entry]
  BY DEF Types, TypeOK
<1>3. new \in CallState
  BY <1>2 DEF CallState, Pc
<1>9. /\ new.pc = "requesting"
      /\ new.cached = cache[calls[c].key]
      /\ new.seen = {eve}
      /\ new.key = calls[c].key
      /\ new.grant = calls[c].grant
      /\ new.life = calls[c].life
      /\ new.attempts = calls[c].attempts
      /\ new.failure = calls[c].failure
      /\ new.how = calls[c].how
      /\ new.answer = calls[c].answer
  BY <1>2 DEF CallState
<1> QED
  BY <1>9, <1>1, <1>3, RecordFacts DEF Types, TypeOK

LEMMA NotModifiedFacts ==
    ASSUME Types, NEW c \in Calls, NotModified(c)
    PROVE  /\ calls' \in [Calls -> CallState] /\ Kept(c)
           /\ calls'[c].pc = "unchanged"
           /\ calls'[c].attempts = 0
           /\ calls'[c].failure = "none"
           /\ calls'[c].key = calls[c].key
           /\ calls'[c].grant = calls[c].grant
           /\ calls'[c].life = calls[c].life
           /\ calls'[c].cached = calls[c].cached
           /\ calls'[c].seen = calls[c].seen
           /\ calls'[c].how = calls[c].how
           /\ calls'[c].answer = calls[c].answer
<1> DEFINE new == [calls[c] EXCEPT !.pc = "unchanged", !.attempts = 0,
                                   !.failure = "none"]
<1>1. calls' = [calls EXCEPT ![c] = new]
  BY Zenon DEF NotModified
<1>2. calls[c] \in CallState
  BY DEF Types, TypeOK
<1>3. new \in CallState
  <2> DEFINE r1 == [calls[c] EXCEPT !.pc = "unchanged"]
             r2 == [r1 EXCEPT !.attempts = 0]
  <2>1. r1 \in CallState
    BY <1>2, SetFields DEF Pc
  <2>2. r2 \in CallState
    <3>1. 0 \in 0..3
      OBVIOUS
    <3> HIDE DEF r1
    <3> QED
      BY <2>1, <3>1, SetFields
  <2>3. [r2 EXCEPT !.failure = "none"] \in CallState
    BY <2>2, SetFields DEF Failure
  <2> QED
    BY <2>3
<1>9. /\ new.pc = "unchanged"
      /\ new.attempts = 0
      /\ new.failure = "none"
      /\ new.key = calls[c].key
      /\ new.grant = calls[c].grant
      /\ new.life = calls[c].life
      /\ new.cached = calls[c].cached
      /\ new.seen = calls[c].seen
      /\ new.how = calls[c].how
      /\ new.answer = calls[c].answer
  BY <1>2 DEF CallState
<1> QED
  BY <1>9, <1>1, <1>3, RecordFacts DEF Types, TypeOK

LEMMA SendFacts ==
    ASSUME Types, NEW c \in Calls, Send(c)
    PROVE  \E validator \in {eve, None} :
             /\ calls' \in [Calls -> CallState] /\ Kept(c)
             /\ calls'[c].pc = "receiving"
             /\ calls'[c].cached = Nothing
             /\ calls'[c].attempts = 0
             /\ calls'[c].failure = "none"
             /\ calls'[c].answer = [value |-> eve, validator |-> validator,
                   fresh |-> TRUE, grant |-> calls[c].grant, late |-> FALSE]
             /\ calls'[c].key = calls[c].key
             /\ calls'[c].grant = calls[c].grant
             /\ calls'[c].life = calls[c].life
             /\ calls'[c].seen = calls[c].seen
             /\ calls'[c].how = calls[c].how
<1>1. PICK validator \in {eve, None} :
         calls' = [calls EXCEPT ![c].pc = "receiving", ![c].attempts = 0,
                     ![c].failure = "none", ![c].cached = Nothing,
                     ![c].answer = [value |-> eve, validator |-> validator,
                                    fresh |-> TRUE, grant |-> calls[c].grant,
                                    late |-> FALSE]]
  BY Zenon DEF Send
<1> DEFINE entry == [value |-> eve, validator |-> validator, fresh |-> TRUE,
                     grant |-> calls[c].grant, late |-> FALSE]
           new == [calls[c] EXCEPT !.pc = "receiving", !.attempts = 0,
                     !.failure = "none", !.cached = Nothing, !.answer = entry]
<1>2. calls' = [calls EXCEPT ![c] = new]
  BY <1>1, Zenon
<1>3. calls[c] \in CallState /\ eve \in Values
  BY DEF Types, TypeOK
<1>4. calls[c].grant \in 1..MaxGrants
  <2>1. At(c, "requesting") /\ Placed(c)
    BY DEF Send, Types
  <2> QED
    BY <2>1, <1>3, ParametersAssumption DEF Placed, At, CallState
<1>5. entry \in Entry
  BY <1>3, <1>4 DEF Entry
<1>6. new \in CallState
  <2> HIDE DEF entry
  <2> DEFINE r1 == [calls[c] EXCEPT !.pc = "receiving"]
             r2 == [r1 EXCEPT !.attempts = 0]
             r3 == [r2 EXCEPT !.failure = "none"]
             r4 == [r3 EXCEPT !.cached = Nothing]
  <2>1. r1 \in CallState
    BY <1>3, SetFields DEF Pc
  <2>2. r2 \in CallState
    <3>1. 0 \in 0..3
      OBVIOUS
    <3> HIDE DEF r1
    <3> QED
      BY <2>1, <3>1, SetFields
  <2>3. r3 \in CallState
    BY <2>2, SetFields DEF Failure
  <2>4. r4 \in CallState
    BY <2>3, SetFields, NothingType
  <2>5. [r4 EXCEPT !.answer = entry] \in CallState
    BY <1>5, <2>4, SetFields
  <2> QED
    BY <2>5
<1>9. /\ new.pc = "receiving"
      /\ new.cached = Nothing
      /\ new.attempts = 0
      /\ new.failure = "none"
      /\ new.answer = entry
      /\ new.key = calls[c].key
      /\ new.grant = calls[c].grant
      /\ new.life = calls[c].life
      /\ new.seen = calls[c].seen
      /\ new.how = calls[c].how
  BY <1>3 DEF CallState
<1> QED
  BY <1>9, <1>2, <1>6, RecordFacts DEF Types, TypeOK

LEMMA OutageFacts ==
    ASSUME Types, NEW c \in Calls, Outage(c)
    PROVE  /\ calls' \in [Calls -> CallState] /\ Kept(c)
           /\ calls'[c].pc = IF calls[c].attempts < 2 THEN "requesting" ELSE "failing"
           /\ calls'[c].attempts = calls[c].attempts + 1
           /\ calls'[c].failure = "outage"
           /\ calls'[c].key = calls[c].key
           /\ calls'[c].grant = calls[c].grant
           /\ calls'[c].life = calls[c].life
           /\ calls'[c].cached = calls[c].cached
           /\ calls'[c].seen = calls[c].seen
           /\ calls'[c].how = calls[c].how
           /\ calls'[c].answer = calls[c].answer
<1> DEFINE new == [calls[c] EXCEPT !.attempts = @ + 1, !.failure = "outage",
                   !.pc = IF calls[c].attempts < 2 THEN "requesting"
                          ELSE "failing"]
<1>1. calls' = [calls EXCEPT ![c] = new]
  BY Zenon DEF Outage
<1>2. calls[c] \in CallState
  BY DEF Types, TypeOK
<1>3. calls[c].attempts \in 0..2
  BY <1>2 DEF Types, Placed, Outage, CallState
<1>4. new \in CallState
  <2>1. /\ calls[c].attempts + 1 \in 0..3
        /\ (IF calls[c].attempts < 2 THEN "requesting" ELSE "failing")
             \in {"requesting", "failing"}
    BY <1>3
  <2>2. new = [calls[c] EXCEPT
                 !.attempts = calls[c].attempts + 1, !.failure = "outage",
                 !.pc = IF calls[c].attempts < 2 THEN "requesting" ELSE "failing"]
    BY <1>2 DEF CallState
  <2> HIDE DEF new
  <2> QED
    BY <1>2, <2>1, <2>2 DEF CallState, Pc, Failure
<1>9. /\ new.pc = IF calls[c].attempts < 2 THEN "requesting" ELSE "failing"
      /\ new.attempts = calls[c].attempts + 1
      /\ new.failure = "outage"
      /\ new.key = calls[c].key
      /\ new.grant = calls[c].grant
      /\ new.life = calls[c].life
      /\ new.cached = calls[c].cached
      /\ new.seen = calls[c].seen
      /\ new.how = calls[c].how
      /\ new.answer = calls[c].answer
  BY <1>2 DEF CallState
<1> QED
  BY <1>9, <1>1, <1>4, RecordFacts DEF Types, TypeOK

LEMMA DeclineFacts ==
    ASSUME Types, NEW c \in Calls, Decline(c)
    PROVE  \E failure \in {"refused", "odd"} :
             /\ calls' \in [Calls -> CallState] /\ Kept(c)
             /\ calls'[c].pc = "failing"
             /\ calls'[c].failure = failure
             /\ calls'[c].key = calls[c].key
             /\ calls'[c].grant = calls[c].grant
             /\ calls'[c].life = calls[c].life
             /\ calls'[c].cached = calls[c].cached
             /\ calls'[c].attempts = calls[c].attempts
             /\ calls'[c].seen = calls[c].seen
             /\ calls'[c].how = calls[c].how
             /\ calls'[c].answer = calls[c].answer
<1>1. PICK failure \in {"refused", "odd"} :
        calls' = [calls EXCEPT ![c].pc = "failing", ![c].failure = failure]
  BY Zenon DEF Decline
<1> DEFINE new == [calls[c] EXCEPT !.pc = "failing", !.failure = failure]
<1>2. calls' = [calls EXCEPT ![c] = new]
  BY <1>1, Zenon
<1>3. calls[c] \in CallState
  BY DEF Types, TypeOK
<1>4. new \in CallState
  BY <1>3 DEF CallState, Pc, Failure
<1>9. /\ new.pc = "failing"
      /\ new.failure = failure
      /\ new.key = calls[c].key
      /\ new.grant = calls[c].grant
      /\ new.life = calls[c].life
      /\ new.cached = calls[c].cached
      /\ new.attempts = calls[c].attempts
      /\ new.seen = calls[c].seen
      /\ new.how = calls[c].how
      /\ new.answer = calls[c].answer
  BY <1>3 DEF CallState
<1> QED
  BY <1>9, <1>2, <1>4, RecordFacts DEF Types, TypeOK

\* The entries that Store and Revalidate put into the table and present.
Stored(c)  == [calls[c].answer EXCEPT !.late = Late(c)]
Renewed(c) == [calls[c].cached EXCEPT !.fresh = TRUE, !.late = @ \/ Late(c)]

LEMMA StoredType ==
    ASSUME Types, NEW c \in Calls, At(c, "receiving")
    PROVE  /\ Stored(c) \in Entry /\ Stored(c) # Nothing
           /\ Stored(c).late = Late(c)
           /\ Stored(c).grant = calls[c].answer.grant
           /\ Stored(c).value = calls[c].answer.value
           /\ Stored(c).validator = calls[c].answer.validator
<1>1. calls[c].answer \in Entry /\ calls[c].answer # Nothing
  BY DEF Types, TypeOK, CallState, Placed
<1>2. Late(c) \in BOOLEAN
  BY DEF Late
<1>3. calls[c].answer \in [value: Values, validator: Values \cup {None},
                           fresh: BOOLEAN, grant: 1..MaxGrants, late: BOOLEAN]
  BY <1>1 DEF Entry
<1> HIDE DEF Types
<1> QED
  BY <1>2, <1>3, ParametersAssumption DEF Stored, Entry, Nothing

LEMMA RenewedType ==
    ASSUME Types, NEW c \in Calls, At(c, "unchanged")
    PROVE  /\ Renewed(c) \in Entry /\ Renewed(c) # Nothing
           /\ Renewed(c).late = (calls[c].cached.late \/ Late(c))
           /\ Renewed(c).grant = calls[c].cached.grant
           /\ Renewed(c).value = calls[c].cached.value
           /\ Renewed(c).validator = calls[c].cached.validator
<1>1. calls[c].cached \in Entry /\ calls[c].cached # Nothing
  BY DEF Types, TypeOK, CallState, Placed
<1>2. Late(c) \in BOOLEAN
  BY DEF Late
<1>3. calls[c].cached \in [value: Values, validator: Values \cup {None},
                           fresh: BOOLEAN, grant: 1..MaxGrants, late: BOOLEAN]
  BY <1>1 DEF Entry
<1> QED
  BY <1>2, <1>3, ParametersAssumption DEF Renewed, Entry, Nothing

LEMMA StoreFacts ==
    ASSUME Types, NEW c \in Calls, Store(c)
    PROVE  /\ Answer(c, "miss", Stored(c))
           /\ cache' \in [Key -> Entry]
           /\ \A k \in Key : cache'[k] \in
                {Nothing, cache[k], IF k = calls[c].key THEN Stored(c) ELSE Nothing}
<1>1. PICK gone \in SUBSET Key :
         cache' = [k \in Key |-> IF k \in gone THEN Nothing
                                 ELSE Put(KeyOf(c), Stored(c))[k]]
  BY DEF Store, Stored
<1>2. cache \in [Key -> Entry] /\ Stored(c) \in Entry /\ Nothing \in Entry
      /\ calls[c].key \in Key
  BY StoredType, NothingType DEF Store, Types, TypeOK, CallState
<1>3. \A k \in Key : Put(KeyOf(c), Stored(c))[k]
                       = IF k = calls[c].key THEN Stored(c) ELSE cache[k]
  BY <1>2 DEF Put, KeyOf
<1>4. \A k \in Key : cache'[k] = IF k \in gone THEN Nothing
                       ELSE IF k = calls[c].key THEN Stored(c) ELSE cache[k]
  BY <1>1, <1>3
<1>5. cache' \in [Key -> Entry]
  BY <1>1, <1>2, <1>3
<1> QED
  BY <1>4, <1>5 DEF Store, Stored

LEMMA RevalidateFacts ==
    ASSUME Types, NEW c \in Calls, Revalidate(c)
    PROVE  /\ Answer(c, "revalidated", Renewed(c))
           /\ cache' \in [Key -> Entry]
           /\ \A k \in Key : cache'[k] =
                IF k = calls[c].key THEN Renewed(c) ELSE cache[k]
<1>1. cache' = Put(KeyOf(c), Renewed(c)) /\ Answer(c, "revalidated", Renewed(c))
  BY DEF Revalidate, Renewed
<1>2. cache \in [Key -> Entry] /\ Renewed(c) \in Entry /\ calls[c].key \in Key
  BY RenewedType DEF Revalidate, Types, TypeOK, CallState
<1> QED
  BY <1>1, <1>2 DEF Put, KeyOf

---------------------------------------------------------------------------
(* Types *)

LEMMA TypesInitially == Init => Types
BY NothingType, IdleType, ParametersAssumption
   DEF Init, Types, TypeOK, Counted, Placed, At, Idle, Key

\* Only the call's own record changes, and the others stay well placed.
LEMMA OwnRecord ==
    ASSUME Types, NEW c \in Calls, calls' \in [Calls -> CallState], Kept(c),
           UNCHANGED <<eve, row, history>>, cache' \in [Key -> Entry], Placed(c)'
    PROVE  Types'
BY DEF Types, TypeOK, Counted, Placed, At, Kept, history

LEMMA PlacedAfter ==
    ASSUME Types, NEW c \in Calls, UNCHANGED history, ~At(c, "idle"),
           calls'[c].grant = calls[c].grant,
           calls'[c].life \in {0, calls[c].life},
           calls'[c].pc \in {"authorizing", "requesting"} => calls'[c].attempts < 3,
           calls'[c].pc = "unchanged" => calls'[c].cached # Nothing,
           calls'[c].pc = "receiving" => calls'[c].answer # Nothing
    PROVE  Placed(c)'
<1>1. Placed(c) /\ calls[c] \in CallState /\ life \in Nat
  BY ParametersAssumption DEF Types, TypeOK
<1>2. calls[c].grant \in Nat /\ calls[c].life \in Nat
  BY <1>1, ParametersAssumption DEF CallState
<1> HIDE DEF Types
<1> QED
  BY <1>1, <1>2 DEF Placed, At, history

LEMMA ReadTypes ==
    ASSUME Types, NEW c \in Calls, Read(c)
    PROVE  Types'
<1>0. /\ calls[c] \in CallState /\ Placed(c) /\ cache \in [Key -> Entry]
      /\ calls[c].key \in Key
  BY DEF Types, TypeOK, CallState
<1>1. CASE Start(c)
  <2>1. Placed(c)'
    BY <1>1, StartFacts, ParametersAssumption
       DEF Start, Types, TypeOK, Placed, At, Idle, history
  <2> QED
    BY <1>0, <1>1, <2>1, StartFacts, OwnRecord DEF Start
<1>2. CASE Hit(c)
  <2>1. Answer(c, "hit", cache[calls[c].key]) /\ UNCHANGED <<eve, row, cache, history>>
        /\ cache[calls[c].key] \in Entry /\ At(c, "authorizing")
    BY <1>0, <1>2 DEF Hit, KeyOf
  <2>2. Placed(c)'
    BY <2>1, AnswerFacts, PlacedAfter DEF How, At
  <2> QED
    BY <1>0, <2>1, <2>2, AnswerFacts, OwnRecord DEF How
<1>3. CASE Lookup(c)
  <2>1. Placed(c)'
    <3>1. At(c, "authorizing") /\ UNCHANGED history /\ calls[c].attempts < 3
      BY <1>0, <1>3 DEF Lookup, Placed
    <3> QED
      BY <1>3, <3>1, LookupFacts, PlacedAfter DEF At
  <2> QED
    BY <1>0, <1>3, <2>1, LookupFacts, OwnRecord DEF Lookup
<1>4. CASE NotModified(c)
  <2>1. calls[c].cached # Nothing
    BY <1>4, ParametersAssumption DEF NotModified, Nothing, Types, TypeOK
  <2>2. Placed(c)'
    <3>1. At(c, "requesting") /\ UNCHANGED history
      BY <1>4 DEF NotModified
    <3> QED
      BY <1>4, <2>1, <3>1, NotModifiedFacts, PlacedAfter DEF At
  <2> QED
    BY <1>0, <1>4, <2>2, NotModifiedFacts, OwnRecord DEF NotModified
<1>5. CASE Send(c)
  <2>1. Placed(c)'
    <3>1. At(c, "requesting") /\ UNCHANGED history /\ eve # None
      BY <1>5, ParametersAssumption DEF Send, Types, TypeOK
    <3>2. calls'[c].answer # Nothing
      <4>1. PICK validator \in {eve, None} :
              calls'[c].answer = [value |-> eve, validator |-> validator,
                    fresh |-> TRUE, grant |-> calls[c].grant, late |-> FALSE]
        BY <1>5, SendFacts
      <4> QED
        BY <3>1, <4>1 DEF Nothing
    <3> QED
      BY <1>5, <3>1, <3>2, SendFacts, PlacedAfter DEF At
  <2> QED
    BY <1>0, <1>5, <2>1, SendFacts, OwnRecord DEF Send
<1>6. CASE Outage(c)
  <2>1. Placed(c)'
    <3>1. At(c, "requesting") /\ UNCHANGED history
      BY <1>6 DEF Outage
    <3>2. calls[c].attempts \in Nat
      BY <1>0 DEF CallState
    <3> QED
      BY <1>6, <3>1, <3>2, OutageFacts, PlacedAfter DEF At
  <2> QED
    BY <1>0, <1>6, <2>1, OutageFacts, OwnRecord DEF Outage
<1>7. CASE Decline(c)
  <2>1. Placed(c)'
    <3>1. At(c, "requesting") /\ UNCHANGED history
      BY <1>7 DEF Decline
    <3> QED
      BY <1>7, <3>1, DeclineFacts, PlacedAfter DEF At
  <2> QED
    BY <1>0, <1>7, <2>1, DeclineFacts, OwnRecord DEF Decline
<1>8. CASE Store(c)
  <2>1. At(c, "receiving") /\ Stored(c) \in Entry
    BY <1>8, StoredType DEF Store
  <2>2. Placed(c)'
    <3>1. UNCHANGED history /\ Answer(c, "miss", Stored(c))
      BY <1>8, StoreFacts DEF Store
    <3> QED
      BY <2>1, <3>1, AnswerFacts, PlacedAfter DEF How, At
  <2> QED
    BY <1>0, <1>8, <2>1, <2>2, StoreFacts, AnswerFacts, OwnRecord DEF Store, How
<1>9. CASE Revalidate(c)
  <2>1. At(c, "unchanged") /\ Renewed(c) \in Entry
    BY <1>9, RenewedType DEF Revalidate
  <2>2. Placed(c)'
    <3>1. UNCHANGED history /\ Answer(c, "revalidated", Renewed(c))
      BY <1>9, RevalidateFacts DEF Revalidate
    <3> QED
      BY <2>1, <3>1, AnswerFacts, PlacedAfter DEF How, At
  <2> QED
    BY <1>0, <1>9, <2>1, <2>2, RevalidateFacts, AnswerFacts, OwnRecord
       DEF Revalidate, How
<1>10. CASE StandIn(c)
  <2>1. Answer(c, "stale", calls[c].cached) /\ UNCHANGED <<eve, row, cache, history>>
        /\ calls[c].cached \in Entry /\ At(c, "failing")
    BY <1>0, <1>10 DEF StandIn, CallState
  <2>2. Placed(c)'
    BY <2>1, AnswerFacts, PlacedAfter DEF How, At
  <2> QED
    BY <1>0, <2>1, <2>2, AnswerFacts, OwnRecord DEF How
<1>11. CASE End(c)
  <2>1. Placed(c)'
    BY <1>11, LeaveFacts DEF End, Placed, At, Idle, history, Types, TypeOK
  <2> QED
    BY <1>0, <1>11, <2>1, LeaveFacts, OwnRecord DEF End, Types, TypeOK
<1> QED
  BY <1>1, <1>2, <1>3, <1>4, <1>5, <1>6, <1>7, <1>8, <1>9, <1>10, <1>11 DEF Read

\* What happens around the reads.
Around ==
    \/ Change \/ \E k \in Key : FreshnessEnds(k)
    \/ Reauthorize \/ BeginRemoval \/ CompleteRemoval \/ Connect

\* EVE's data change: the reads that wait may see this or that.
LEMMA ChangeFacts ==
    ASSUME Types, Change
    PROVE  /\ eve' \in Values
           /\ calls' \in [Calls -> CallState]
           /\ \A c \in Calls :
                \/ ~At(c, "requesting") /\ calls'[c] = calls[c]
                \/ /\ At(c, "requesting")
                   /\ calls'[c] = [calls[c] EXCEPT !.seen = @ \cup {eve'}]
<1>1. eve' \in Values /\ calls' = [c \in Calls |->
              IF At(c, "requesting")
              THEN [calls[c] EXCEPT !.seen = @ \cup {eve'}] ELSE calls[c]]
  BY DEF Change
<1>2. ASSUME NEW c \in Calls PROVE calls'[c] \in CallState
  <2>1. calls[c] \in CallState
    BY DEF Types, TypeOK
  <2>2. [calls[c] EXCEPT !.seen = @ \cup {eve'}] \in CallState
    BY <1>1, <2>1 DEF CallState
  <2> QED
    BY <1>1, <2>1, <2>2
<1> QED
  BY <1>1, <1>2

\* An entry grows old.
LEMMA FreshnessFacts ==
    ASSUME Types, NEW k \in Key, FreshnessEnds(k)
    PROVE  /\ cache' \in [Key -> Entry]
           /\ \A j \in Key :
                \/ cache'[j] = cache[j]
                \/ cache[j] # Nothing /\ cache'[j] = [cache[j] EXCEPT !.fresh = FALSE]
<1>1. cache[k] \in Entry /\ cache[k] # Nothing
  BY DEF FreshnessEnds, Nothing, Types, TypeOK
<1>2. [cache[k] EXCEPT !.fresh = FALSE] \in Entry
  BY <1>1 DEF Entry
<1> QED
  BY <1>1, <1>2 DEF FreshnessEnds, Types, TypeOK

LEMMA AroundTypes ==
    ASSUME Types, Around
    PROVE  Types'
<1>1. CASE Change
  <2>1. calls' \in [Calls -> CallState] /\ eve' \in Values
    BY <1>1, ChangeFacts
  <2>2. ASSUME NEW c \in Calls PROVE Placed(c)'
    <3>1. Placed(c) /\ calls[c] \in CallState
      BY DEF Types, TypeOK
    <3>2. CASE calls'[c] = calls[c]
      BY <1>1, <3>1, <3>2 DEF Change, Placed, At, history
    <3>3. CASE calls'[c] = [calls[c] EXCEPT !.seen = @ \cup {eve'}]
      BY <1>1, <3>1, <3>3 DEF Change, Placed, At, history, CallState
    <3> QED
      BY <1>1, <3>2, <3>3, ChangeFacts
  <2> QED
    BY <1>1, <2>1, <2>2 DEF Change, Types, TypeOK, Counted, history
<1>2. ASSUME NEW k \in Key, FreshnessEnds(k) PROVE Types'
  BY <1>2, FreshnessFacts DEF FreshnessEnds, Types, TypeOK, Counted, Placed, At, history
<1>3. CASE Reauthorize
  <2>1. cache' \in [Key -> Entry]
    BY <1>3, NothingType DEF Reauthorize, Forget
  <2>2. /\ row'.status = "connected" /\ row'.generation = row.generation + 1
        /\ row' \in [status: {"connected", "removal_pending", "absent"},
                    generation: 0..MaxGeneration]
        /\ grant' = grant + 1 /\ grant' \in 1..MaxGrants
        /\ row.generation \in Nat /\ UNCHANGED <<eve, calls, life>>
    BY <1>3, ParametersAssumption DEF Reauthorize, Types, TypeOK
  <2>3. ASSUME NEW c \in Calls PROVE Placed(c)'
    <3>1. Placed(c) /\ calls[c].grant \in Nat /\ grant \in Nat
      BY ParametersAssumption DEF Types, TypeOK, CallState
    <3> QED
      BY <2>2, <3>1 DEF Placed, At
  <2>4. life \in 1..MaxGrants /\ grant \in Nat /\ life <= grant
        /\ eve \in Values /\ calls \in [Calls -> CallState]
    BY ParametersAssumption DEF Types, TypeOK, Counted
  <2> QED
    BY <2>1, <2>2, <2>3, <2>4 DEF Types, TypeOK, Counted
<1>4. CASE BeginRemoval
  BY <1>4, NothingType, ParametersAssumption
     DEF BeginRemoval, Forget, Types, TypeOK, Counted, Placed, At
<1>5. CASE CompleteRemoval
  BY <1>5, ParametersAssumption
     DEF CompleteRemoval, Types, TypeOK, Counted, Placed, At, history
<1>6. CASE Connect
  BY <1>6, ParametersAssumption
     DEF Connect, Types, TypeOK, Counted, Placed, At, CallState
<1> QED
  BY <1>1, <1>2, <1>3, <1>4, <1>5, <1>6 DEF Around

---------------------------------------------------------------------------
(* Validators and payloads *)

LEMMA PairsInitially == Init => Pairs
BY DEF Init, Pairs, Paired, Current, At, Idle, Nothing

LEMMA PairsOfRead ==
    ASSUME Types, Pairs, NEW c \in Calls, Kept(c), UNCHANGED eve, Current(c)',
           \A k \in Key : Paired(cache'[k])
    PROVE  Pairs'
<1>1. ASSUME NEW d \in Calls PROVE Current(d)'
  <2>1. CASE d = c
    BY <2>1
  <2>2. CASE d # c
    BY <2>2 DEF Kept, Pairs, Current, At
  <2> QED
    BY <2>1, <2>2
<1> QED
  BY <1>1 DEF Pairs

LEMMA ReadPairs ==
    ASSUME Types, Pairs, NEW c \in Calls, Read(c)
    PROVE  Pairs'
<1>0. /\ calls[c].key \in Key /\ Current(c)
      /\ \A k \in Key : Paired(cache[k])
      /\ Paired(Nothing)
  BY DEF Types, TypeOK, CallState, Pairs, Paired, Nothing
<1>1. CASE Start(c)
  <2>1. Current(c)'
    <3>1. /\ calls'[c].pc = "authorizing" /\ calls'[c].cached = Nothing
          /\ calls'[c].answer = Nothing
      BY <1>1, StartFacts, ZenonT(60) DEF Idle
    <3> QED
      BY <1>0, <3>1 DEF Current, At
  <2> QED
    BY <1>0, <1>1, <2>1, StartFacts, PairsOfRead DEF Start
<1>2. CASE Hit(c)
  <2>1. Answer(c, "hit", cache[calls[c].key]) /\ UNCHANGED <<eve, cache>>
        /\ cache[calls[c].key] \in Entry
    BY <1>0, <1>2 DEF Hit, KeyOf, Types, TypeOK
  <2>2. Current(c)'
    BY <1>0, <2>1, AnswerFacts DEF Current, At, How
  <2> QED
    BY <1>0, <2>1, <2>2, AnswerFacts, PairsOfRead DEF How
<1>3. CASE Lookup(c)
  <2>1. Current(c)'
    <3>1. /\ calls'[c].pc = "requesting" /\ eve' \in calls'[c].seen
          /\ Paired(calls'[c].cached) /\ calls'[c].answer = calls[c].answer
      BY <1>0, <1>3, LookupFacts DEF Lookup
    <3> QED
      BY <1>0, <3>1 DEF Current, At
  <2> QED
    BY <1>0, <1>3, <2>1, LookupFacts, PairsOfRead DEF Lookup
<1>4. CASE NotModified(c)
  <2>1. calls[c].cached.value \in calls[c].seen
    BY <1>0, <1>4, ParametersAssumption
       DEF NotModified, Current, Paired, Types, TypeOK
  <2>2. Current(c)'
    BY <1>0, <1>4, <2>1, NotModifiedFacts DEF Current, At
  <2> QED
    BY <1>0, <1>4, <2>2, NotModifiedFacts, PairsOfRead DEF NotModified
<1>5. CASE Send(c)
  <2>1. PICK validator \in {eve, None} :
             /\ Kept(c) /\ calls'[c].pc = "receiving"
             /\ calls'[c].cached = Nothing /\ calls'[c].seen = calls[c].seen
             /\ calls'[c].answer = [value |-> eve, validator |-> validator,
                   fresh |-> TRUE, grant |-> calls[c].grant, late |-> FALSE]
    BY <1>5, SendFacts
  <2>2. eve \in calls[c].seen
    BY <1>0, <1>5 DEF Send, Current
  <2>3. Paired(calls'[c].answer) /\ calls'[c].answer.value = eve
    BY <2>1 DEF Paired
  <2>4. Current(c)'
    BY <1>0, <2>1, <2>2, <2>3 DEF Current, At
  <2> QED
    BY <1>0, <1>5, <2>1, <2>4, PairsOfRead DEF Send
<1>6. CASE Outage(c)
  <2>1. Current(c)'
    <3>1. /\ calls'[c].pc \in {"requesting", "failing"} /\ eve' \in calls'[c].seen
          /\ calls'[c].cached = calls[c].cached /\ calls'[c].answer = calls[c].answer
      BY <1>0, <1>6, OutageFacts, ZenonT(60) DEF Current, Outage
    <3> QED
      BY <1>0, <3>1 DEF Current, At
  <2> QED
    BY <1>0, <1>6, <2>1, OutageFacts, PairsOfRead DEF Outage
<1>7. CASE Decline(c)
  <2>1. Current(c)'
    BY <1>0, <1>7, DeclineFacts DEF Current, At, Decline
  <2> QED
    BY <1>0, <1>7, <2>1, DeclineFacts, PairsOfRead DEF Decline
<1>8. CASE Store(c)
  <2>1. At(c, "receiving") /\ Stored(c) \in Entry /\ Paired(Stored(c))
        /\ Stored(c).value \in calls[c].seen
    BY <1>0, <1>8, StoredType DEF Store, Current, Paired
  <2>2. Current(c)'
    BY <1>0, <1>8, <2>1, StoreFacts, AnswerFacts DEF Current, At, How
  <2>3. \A k \in Key : Paired(cache'[k])
    BY <1>0, <1>8, <2>1, StoreFacts
  <2> QED
    BY <1>8, <2>1, <2>2, <2>3, StoreFacts, AnswerFacts, PairsOfRead DEF Store, How
<1>9. CASE Revalidate(c)
  <2>1. At(c, "unchanged") /\ Renewed(c) \in Entry /\ Paired(Renewed(c))
        /\ Renewed(c).value \in calls[c].seen
    BY <1>0, <1>9, RenewedType DEF Revalidate, Current, Paired
  <2>2. Current(c)'
    BY <1>0, <1>9, <2>1, RevalidateFacts, AnswerFacts DEF Current, At, How
  <2>3. \A k \in Key : Paired(cache'[k])
    BY <1>0, <1>9, <2>1, RevalidateFacts
  <2> QED
    BY <1>9, <2>1, <2>2, <2>3, RevalidateFacts, AnswerFacts, PairsOfRead
       DEF Revalidate, How
<1>10. CASE StandIn(c)
  <2>1. Answer(c, "stale", calls[c].cached) /\ UNCHANGED <<eve, cache>>
        /\ calls[c].cached \in Entry
    BY <1>10 DEF StandIn, Types, TypeOK, CallState
  <2>2. Current(c)'
    BY <1>0, <2>1, AnswerFacts DEF Current, At, How
  <2> QED
    BY <1>0, <2>1, <2>2, AnswerFacts, PairsOfRead DEF How
<1>11. CASE End(c)
  <2>1. Current(c)' /\ Kept(c)
    BY <1>11, LeaveFacts DEF End, Current, At, Idle, Paired, Nothing, Types, TypeOK
  <2> QED
    BY <1>0, <1>11, <2>1, PairsOfRead DEF End
<1> QED
  BY <1>1, <1>2, <1>3, <1>4, <1>5, <1>6, <1>7, <1>8, <1>9, <1>10, <1>11 DEF Read

LEMMA AroundPairs ==
    ASSUME Types, Pairs, Around
    PROVE  Pairs'
<1>1. CASE Change
  <2>1. ASSUME NEW c \in Calls PROVE Current(c)'
    <3>1. Current(c) /\ calls[c] \in CallState
      BY DEF Types, TypeOK, Pairs
    <3>2. CASE ~At(c, "requesting") /\ calls'[c] = calls[c]
      BY <3>1, <3>2 DEF Current, At
    <3>3. CASE /\ At(c, "requesting")
               /\ calls'[c] = [calls[c] EXCEPT !.seen = @ \cup {eve'}]
      <4>1. /\ calls'[c].pc = "requesting" /\ eve' \in calls'[c].seen
            /\ calls'[c].cached = calls[c].cached
            /\ calls'[c].answer = calls[c].answer
        BY <3>1, <3>3 DEF At, CallState
      <4> QED
        BY <3>1, <4>1 DEF Current, At
    <3> QED
      BY <1>1, <3>2, <3>3, ChangeFacts
  <2> QED
    BY <1>1, <2>1 DEF Change, Pairs
<1>2. ASSUME NEW k \in Key, FreshnessEnds(k) PROVE Pairs'
  <2>1. ASSUME NEW j \in Key PROVE Paired(cache'[j])
    <3>1. cache[j] \in Entry /\ Paired(cache[j])
      BY DEF Types, TypeOK, Pairs
    <3>2. CASE cache'[j] = [cache[j] EXCEPT !.fresh = FALSE]
      BY <3>1, <3>2 DEF Paired, Entry, Nothing
    <3> QED
      BY <1>2, <3>1, <3>2, FreshnessFacts
  <2> QED
    BY <1>2, <2>1 DEF FreshnessEnds, Pairs, Current, At
<1>3. CASE Reauthorize \/ BeginRemoval
  BY <1>3 DEF Reauthorize, BeginRemoval, Forget, Pairs, Current, At, Paired, Nothing
<1>4. CASE CompleteRemoval \/ Connect
  BY <1>4 DEF CompleteRemoval, Connect, Pairs, Current, At
<1> QED
  BY <1>1, <1>2, <1>3, <1>4 DEF Around

---------------------------------------------------------------------------
(* Entries that stand in for failures *)

LEMMA LastInitially == Init => \A c \in Calls : Last(c)
BY DEF Init, Last, At, Idle

LEMMA ReadLast ==
    ASSUME Types, NEW c \in Calls, Last(c), Read(c)
    PROVE  Last(c)'
<1>0. calls[c] \in CallState /\ cache \in [Key -> Entry] /\ Placed(c)
  BY DEF Types, TypeOK
<1>1. CASE Start(c)
  BY <1>1, StartFacts, ZenonT(60) DEF Last, At, Idle
<1>2. CASE Hit(c)
  <2>1. Answer(c, "hit", cache[calls[c].key]) /\ cache[calls[c].key] \in Entry
    BY <1>0, <1>2 DEF Hit, KeyOf, CallState
  <2> QED
    BY <2>1, AnswerFacts DEF Last, At, How
<1>3. CASE Lookup(c)
  BY <1>3, LookupFacts DEF Last, At
<1>4. CASE NotModified(c)
  BY <1>4, NotModifiedFacts DEF Last, At
<1>5. CASE Send(c)
  BY <1>5, SendFacts DEF Last, At
<1>6. CASE Outage(c)
  <2>1. calls[c].attempts \in 0..3 /\ calls[c].attempts < 3
    BY <1>0, <1>6 DEF Outage, Placed, CallState
  <2> QED
    BY <1>6, <2>1, OutageFacts DEF Last, At
<1>7. CASE Decline(c)
  BY <1>7, DeclineFacts DEF Last, At
<1>8. CASE Store(c)
  BY <1>8, StoredType, StoreFacts, AnswerFacts DEF Last, At, Store, How
<1>9. CASE Revalidate(c)
  BY <1>9, RenewedType, RevalidateFacts, AnswerFacts DEF Last, At, Revalidate, How
<1>10. CASE StandIn(c)
  <2>1. Answer(c, "stale", calls[c].cached) /\ calls[c].cached \in Entry
        /\ At(c, "failing") /\ calls[c].failure \in {"outage", "odd"}
    BY <1>0, <1>10 DEF StandIn, Presentable, CallState
  <2> QED
    BY <2>1, AnswerFacts DEF Last, At, How
<1>11. CASE End(c)
  BY <1>11, LeaveFacts DEF End, Last, At, Idle, Types, TypeOK
<1> QED
  BY <1>1, <1>2, <1>3, <1>4, <1>5, <1>6, <1>7, <1>8, <1>9, <1>10, <1>11 DEF Read

\* A step of a read leaves the other reads alone.
LEMMA ReadKeeps ==
    ASSUME Types, NEW c \in Calls, Read(c)
    PROVE  Kept(c) /\ UNCHANGED <<eve, row, history>>
<1>0. calls[c] \in CallState /\ cache \in [Key -> Entry]
  BY DEF Types, TypeOK
<1>1. CASE Start(c)
  BY <1>1, StartFacts DEF Start
<1>2. CASE Hit(c)
  <2>1. Answer(c, "hit", cache[calls[c].key]) /\ cache[calls[c].key] \in Entry
    BY <1>0, <1>2 DEF Hit, KeyOf, CallState
  <2> QED
    BY <1>2, <2>1, AnswerFacts DEF Hit, How
<1>3. CASE Lookup(c)
  BY <1>3, LookupFacts DEF Lookup
<1>4. CASE NotModified(c)
  BY <1>4, NotModifiedFacts DEF NotModified
<1>5. CASE Send(c)
  BY <1>5, SendFacts DEF Send
<1>6. CASE Outage(c)
  BY <1>6, OutageFacts DEF Outage
<1>7. CASE Decline(c)
  BY <1>7, DeclineFacts DEF Decline
<1>8. CASE Store(c)
  BY <1>8, StoredType, StoreFacts, AnswerFacts DEF Store, How
<1>9. CASE Revalidate(c)
  BY <1>9, RenewedType, RevalidateFacts, AnswerFacts DEF Revalidate, How
<1>10. CASE StandIn(c)
  <2>1. Answer(c, "stale", calls[c].cached) /\ calls[c].cached \in Entry
    BY <1>0, <1>10 DEF StandIn, CallState
  <2> QED
    BY <1>10, <2>1, AnswerFacts DEF StandIn, How
<1>11. CASE End(c)
  BY <1>11, LeaveFacts DEF End, Types, TypeOK
<1> QED
  BY <1>1, <1>2, <1>3, <1>4, <1>5, <1>6, <1>7, <1>8, <1>9, <1>10, <1>11 DEF Read

\* What happens around the reads changes nothing of a call but what it may see.
LEMMA AroundKeeps ==
    ASSUME Types, Around, NEW c \in Calls
    PROVE  /\ calls'[c].pc = calls[c].pc /\ calls'[c].key = calls[c].key
           /\ calls'[c].grant = calls[c].grant /\ calls'[c].life = calls[c].life
           /\ calls'[c].cached = calls[c].cached
           /\ calls'[c].attempts = calls[c].attempts
           /\ calls'[c].failure = calls[c].failure /\ calls'[c].how = calls[c].how
           /\ calls'[c].answer = calls[c].answer
<1>1. CASE Change
  <2>1. calls[c] \in CallState
    BY DEF Types, TypeOK
  <2> QED
    BY <1>1, <2>1, ChangeFacts DEF CallState
<1>2. CASE ~Change
  BY <1>2 DEF Around, FreshnessEnds, Reauthorize, BeginRemoval, CompleteRemoval,
              Connect, history
<1> QED
  BY <1>1, <1>2

LEMMA StepLast ==
    ASSUME Types, \A c \in Calls : Last(c), Next, NEW d \in Calls
    PROVE  Last(d)'
<1>1. ASSUME NEW c \in Calls, Read(c) PROVE Last(d)'
  <2>1. CASE d = c
    BY <1>1, <2>1, ReadLast
  <2>2. CASE d # c
    BY <1>1, <2>2, ReadKeeps DEF Kept, Last, At
  <2> QED
    BY <2>1, <2>2
<1>2. ASSUME Around PROVE Last(d)'
  BY <1>2, AroundKeeps DEF Last, At
<1> QED
  BY <1>1, <1>2 DEF Next, Around

---------------------------------------------------------------------------
(* What a removal leaves behind *)

LEMMA ForgottenInitially == Init => RemovedIsForgotten
BY DEF Init, RemovedIsForgotten

\* A read puts its own entry at its own key, or nothing.
LEMMA TableOfRead ==
    ASSUME Types, NEW c \in Calls, Read(c), NEW k \in Key
    PROVE  \/ cache'[k] \in {cache[k], Nothing}
           \/ /\ k = calls[c].key /\ At(c, "receiving") /\ cache'[k] = Stored(c)
           \/ /\ k = calls[c].key /\ At(c, "unchanged") /\ cache'[k] = Renewed(c)
<1>1. CASE Store(c)
  BY <1>1, StoreFacts DEF Store
<1>2. CASE Revalidate(c)
  BY <1>2, RevalidateFacts DEF Revalidate
<1>3. CASE ~Store(c) /\ ~Revalidate(c)
  BY <1>3 DEF Read, Start, Hit, Lookup, NotModified, Send, Outage, Decline,
              StandIn, End
<1> QED
  BY <1>1, <1>2, <1>3

LEMMA StepForgets ==
    ASSUME Types, RemovedIsForgotten, Next
    PROVE  RemovedIsForgotten'
<1>1. ASSUME NEW c \in Calls, Read(c) PROVE RemovedIsForgotten'
  <2>1. row' = row
    BY <1>1, ReadKeeps
  <2>2. SUFFICES ASSUME row.status # "connected", NEW k \in Key,
                        cache'[k] # Nothing
                 PROVE  cache'[k].late
    BY <2>1 DEF RemovedIsForgotten
  <2>3. Late(c) = TRUE
    BY <2>2 DEF Late
  <2>4. CASE cache'[k] \in {cache[k], Nothing}
    BY <2>2, <2>4 DEF RemovedIsForgotten
  <2>5. CASE At(c, "receiving") /\ cache'[k] = Stored(c)
    BY <2>3, <2>5, StoredType
  <2>6. CASE At(c, "unchanged") /\ cache'[k] = Renewed(c)
    BY <2>3, <2>6, RenewedType
  <2> QED
    BY <1>1, <2>4, <2>5, <2>6, TableOfRead
<1>2. CASE Change
  BY <1>2 DEF Change, RemovedIsForgotten
<1>3. ASSUME NEW k \in Key, FreshnessEnds(k) PROVE RemovedIsForgotten'
  <2>1. SUFFICES ASSUME row.status # "connected", NEW j \in Key,
                        cache'[j] # Nothing
                 PROVE  cache'[j].late
    BY <1>3 DEF FreshnessEnds, RemovedIsForgotten
  <2>2. CASE cache'[j] = cache[j]
    BY <2>1, <2>2 DEF RemovedIsForgotten
  <2>3. CASE cache[j] # Nothing /\ cache'[j] = [cache[j] EXCEPT !.fresh = FALSE]
    <3>1. cache[j] \in Entry
      BY DEF Types, TypeOK
    <3>2. cache[j].late
      BY <2>1, <2>3 DEF RemovedIsForgotten
    <3> QED
      BY <2>3, <3>1, <3>2 DEF Entry
  <2> QED
    BY <1>3, <2>2, <2>3, FreshnessFacts
<1>4. CASE Reauthorize \/ BeginRemoval \/ CompleteRemoval \/ Connect
  BY <1>4 DEF Reauthorize, BeginRemoval, CompleteRemoval, Connect, Forget,
              RemovedIsForgotten
<1> QED
  BY <1>1, <1>2, <1>3, <1>4 DEF Next

---------------------------------------------------------------------------
(* Authorizations *)

LEMMA ApartInitially == Init => Apart /\ PrivateStaysApart
BY DEF Init, Apart, OneName, Earlier, Found, Own, PrivateStaysApart, Ours, Under,
       Good, At, Idle, Nothing

\* A read that goes on is the read it was.
SameRead(c) == Under(c)' => /\ Under(c) /\ calls'[c].key = calls[c].key
                            /\ calls'[c].grant = calls[c].grant
                            /\ calls'[c].life = calls[c].life

\* An entry is the one that was there, or is put by a read of its connection.
SameEntry(k) == Good(cache'[k]) =>
    \/ Good(cache[k]) /\ cache'[k].grant = cache[k].grant
    \/ \E c \in Calls : /\ Ours(c) /\ k = calls[c].key
                        /\ cache'[k].grant = calls[c].grant

LEMMA StandingKept ==
    ASSUME Types, OneName, Earlier, UNCHANGED <<row, history>>,
           \A c \in Calls : SameRead(c), \A k \in Key : SameEntry(k)
    PROVE  OneName' /\ Earlier'
<1>0. /\ row' = row /\ grant' = grant /\ life' = life
      /\ \A c \in Calls : calls[c].grant <= grant /\ calls[c].key \in Key
  BY DEF history, Types, TypeOK, Placed, CallState
<1>1. \A c \in Calls : Ours(c)' => /\ Ours(c) /\ calls'[c].key = calls[c].key
                                   /\ calls'[c].grant = calls[c].grant
  BY <1>0 DEF Ours, SameRead
<1>2. ASSUME NEW c \in Calls, Ours(c)' PROVE Named(calls[c].key, calls[c].grant)'
  BY <1>0, <1>1, <1>2 DEF OneName, Named
<1>3. ASSUME NEW k \in Key, Good(cache'[k])
      PROVE  Named(k, cache[k].grant)' /\ cache'[k].grant <= grant'
  <2>1. CASE Good(cache[k]) /\ cache'[k].grant = cache[k].grant
    BY <1>0, <2>1 DEF OneName, Named
  <2>2. ASSUME NEW c \in Calls, Ours(c), k = calls[c].key,
               cache'[k].grant = calls[c].grant
        PROVE  Named(k, cache[k].grant)' /\ cache'[k].grant <= grant'
    BY <1>0, <2>2 DEF OneName, Named
  <2> QED
    BY <1>3, <2>1, <2>2 DEF SameEntry
<1>4. ASSUME NEW c \in Calls, NEW d \in Calls, Ours(c)', Ours(d)',
             calls'[c].key = calls'[d].key
      PROVE  calls'[c].grant = calls'[d].grant
  BY <1>1, <1>4 DEF OneName
<1>5. ASSUME NEW c \in Calls, Ours(c)', Good(cache'[calls'[c].key])
      PROVE  calls'[c].grant = cache'[calls'[c].key].grant
  <2>1. calls[c].key \in Key /\ SameEntry(calls[c].key) /\ Ours(c)
        /\ calls'[c].key = calls[c].key /\ calls'[c].grant = calls[c].grant
    BY <1>0, <1>1, <1>5
  <2> QED
    BY <1>5, <2>1 DEF SameEntry, OneName
<1>6. ASSUME NEW c \in Calls, Under(c)', calls'[c].life # life'
      PROVE  /\ \A d \in Calls : Ours(d)' => calls'[c].grant <= calls'[d].grant
             /\ \A k \in Key : Good(cache'[k]) => calls'[c].grant <= cache'[k].grant
  <2>1. /\ Under(c) /\ calls[c].life # life /\ calls'[c].grant = calls[c].grant
    BY <1>0, <1>6 DEF SameRead
  <2>2. /\ \A d \in Calls : Ours(d) => calls[c].grant <= calls[d].grant
        /\ \A k \in Key : Good(cache[k]) => calls[c].grant <= cache[k].grant
    BY <2>1 DEF Earlier
  <2> QED
    BY <1>1, <2>1, <2>2 DEF SameEntry
<1> QED
  BY <1>2, <1>3, <1>4, <1>5, <1>6 DEF OneName, Earlier

LEMMA StartStanding ==
    ASSUME Types, OneName, Earlier, NEW c \in Calls, Start(c)
    PROVE  OneName' /\ Earlier'
<1>0. /\ row' = row /\ cache' = cache /\ grant' = grant /\ life' = life
      /\ row.status = "connected" /\ row.generation \in Key \cap Nat
      /\ \A d \in Calls : calls[d].grant <= grant
      /\ grant \in Nat
  BY ParametersAssumption
     DEF Start, history, Types, TypeOK, Counted, Placed, Key
<1>1. /\ Kept(c) /\ calls'[c].key = row.generation /\ calls'[c].grant = grant
      /\ calls'[c].life = life
  BY StartFacts, ZenonT(60) DEF Idle
<1>2. ASSUME NEW d \in Calls
      PROVE  /\ Ours(d)' => Named(calls[d].key, calls[d].grant)'
             /\ Under(d)' /\ calls'[d].life # life => d # c /\ Under(d)
             /\ Ours(d)' => d = c \/ Ours(d)
  <2>1. CASE d = c
    <3>1. Named(calls[d].key, calls[d].grant)'
      BY <1>0, <1>1, <2>1 DEF Named
    <3> QED
      BY <1>0, <1>1, <2>1, <3>1
  <2>2. CASE d # c
    <3>1. calls'[d] = calls[d]
      BY <1>1, <2>2 DEF Kept
    <3>2. Under(d)' = Under(d) /\ Ours(d)' = Ours(d)
      BY <1>0, <3>1 DEF Under, Ours
    <3>3. Ours(d) => Named(calls[d].key, calls[d].grant)'
      BY <1>0, <3>1 DEF OneName, Named
    <3> QED
      BY <2>2, <3>2, <3>3
  <2> QED
    BY <2>1, <2>2
<1>3. \A k \in Key : Good(cache[k]) => Named(k, cache[k].grant)'
                                       /\ cache[k].grant <= grant
  BY <1>0 DEF OneName, Named
<1>4. ASSUME NEW d \in Calls, NEW e \in Calls, Ours(d)', Ours(e)',
             calls'[d].key = calls'[e].key
      PROVE  calls'[d].grant = calls'[e].grant
  BY <1>0, <1>1, <1>2, <1>4 DEF Kept, OneName, Named
<1>5. ASSUME NEW d \in Calls, Ours(d)', Good(cache'[calls'[d].key])
      PROVE  calls'[d].grant = cache'[calls'[d].key].grant
  BY <1>0, <1>1, <1>2, <1>5 DEF Kept, OneName, Named
<1>6. ASSUME NEW d \in Calls, Under(d)', calls'[d].life # life'
      PROVE  /\ \A e \in Calls : Ours(e)' => calls'[d].grant <= calls'[e].grant
             /\ \A k \in Key : Good(cache'[k]) => calls'[d].grant <= cache'[k].grant
  <2>1. d # c /\ Under(d) /\ calls'[d] = calls[d] /\ calls[d].life # life
    BY <1>0, <1>1, <1>2, <1>6 DEF Kept
  <2> QED
    BY <1>0, <1>1, <1>2, <2>1 DEF Kept, Earlier
<1> QED
  BY <1>0, <1>2, <1>3, <1>4, <1>5, <1>6 DEF OneName, Earlier

\* What a call of the present connection stores is its own; all else is late.
LEMMA PutStanding ==
    ASSUME Types, Apart, NEW c \in Calls, Read(c), NEW k \in Key
    PROVE  SameEntry(k)
<1>1. CASE cache'[k] \in {cache[k], Nothing}
  BY <1>1 DEF SameEntry, Good
<1>2. CASE k = calls[c].key /\ At(c, "receiving") /\ cache'[k] = Stored(c)
  <2>1. SUFFICES ASSUME Good(cache'[k])
                 PROVE  Ours(c) /\ cache'[k].grant = calls[c].grant
    BY <1>2 DEF SameEntry
  <2>2. ~Late(c)
    BY <1>2, <2>1, StoredType DEF Good
  <2> QED
    BY <1>2, <2>2, StoredType DEF Late, Ours, Under, At, Apart, Own
<1>3. CASE k = calls[c].key /\ At(c, "unchanged") /\ cache'[k] = Renewed(c)
  <2>1. SUFFICES ASSUME Good(cache'[k])
                 PROVE  Ours(c) /\ cache'[k].grant = calls[c].grant
    BY <1>3 DEF SameEntry
  <2>2. ~Late(c) /\ ~calls[c].cached.late /\ calls[c].cached # Nothing
    BY <1>3, <2>1, RenewedType DEF Good, Types, Placed
  <2>3. Ours(c) /\ Good(calls[c].cached)
    BY <1>3, <2>2 DEF Late, Ours, Under, At, Good
  <2> QED
    BY <1>3, <2>3, RenewedType DEF At, Ours, Apart, Found
<1> QED
  BY <1>1, <1>2, <1>3, TableOfRead

LEMMA ReadStanding ==
    ASSUME Types, Apart, NEW c \in Calls, Read(c)
    PROVE  OneName' /\ Earlier'
<1>0. /\ Kept(c) /\ UNCHANGED <<row, history>> /\ calls[c] \in CallState
      /\ \A k \in Key : SameEntry(k)
      /\ OneName /\ Earlier /\ cache \in [Key -> Entry]
  BY ReadKeeps, PutStanding DEF Types, TypeOK, Apart
<1>1. CASE Start(c)
  BY <1>0, <1>1, StartStanding
<1>2. ASSUME SameRead(c) PROVE OneName' /\ Earlier'
  <2>1. ASSUME NEW d \in Calls PROVE SameRead(d)
    BY <1>0, <1>2 DEF Kept, SameRead, Under
  <2> QED
    BY <1>0, <2>1, StandingKept
<1>3. CASE Lookup(c)
  BY <1>2, <1>3, LookupFacts DEF Lookup, SameRead, Under, At
<1>4. CASE NotModified(c)
  BY <1>2, <1>4, NotModifiedFacts DEF NotModified, SameRead, Under, At
<1>5. CASE Send(c)
  BY <1>2, <1>5, SendFacts DEF Send, SameRead, Under, At
<1>6. CASE Outage(c)
  BY <1>2, <1>6, OutageFacts DEF Outage, SameRead, Under, At
<1>7. CASE Decline(c)
  BY <1>2, <1>7, DeclineFacts DEF Decline, SameRead, Under, At
<1>8. CASE Hit(c) \/ Store(c) \/ Revalidate(c) \/ StandIn(c)
  <2>1. calls'[c].pc = "answered"
    <3>1. CASE Hit(c)
      <4>1. Answer(c, "hit", cache[calls[c].key]) /\ cache[calls[c].key] \in Entry
        BY <1>0, <3>1 DEF Hit, KeyOf, CallState
      <4> QED
        BY <4>1, AnswerFacts DEF How
    <3>2. CASE Store(c)
      BY <3>2, StoredType, StoreFacts, AnswerFacts DEF Store, How
    <3>3. CASE Revalidate(c)
      BY <3>3, RenewedType, RevalidateFacts, AnswerFacts DEF Revalidate, How
    <3>4. CASE StandIn(c)
      <4>1. Answer(c, "stale", calls[c].cached) /\ calls[c].cached \in Entry
        BY <1>0, <3>4 DEF StandIn, CallState
      <4> QED
        BY <4>1, AnswerFacts DEF How
    <3> QED
      BY <1>8, <3>1, <3>2, <3>3, <3>4
  <2> QED
    BY <1>2, <2>1 DEF SameRead, Under
<1>9. CASE End(c)
  <2>1. calls'[c].pc = "idle"
    BY <1>9, LeaveFacts DEF End, Idle, Types, TypeOK
  <2> QED
    BY <1>2, <2>1 DEF SameRead, Under
<1> QED
  BY <1>1, <1>3, <1>4, <1>5, <1>6, <1>7, <1>8, <1>9 DEF Read

LEMMA AroundStanding ==
    ASSUME Types, Apart, RemovedIsForgotten, Around
    PROVE  OneName' /\ Earlier'
<1>0. /\ OneName /\ Earlier /\ row.generation \in Nat /\ grant \in Nat /\ life \in Nat
      /\ \A c \in Calls : /\ calls[c].key \in Nat /\ calls[c].grant <= grant
                          /\ calls[c].life \in Nat /\ calls[c].life <= life
                          /\ calls[c].grant \in Nat
      /\ \A c \in Calls : /\ Under(c)' = Under(c) /\ calls'[c].key = calls[c].key
                          /\ calls'[c].grant = calls[c].grant
                          /\ calls'[c].life = calls[c].life
      /\ Key \subseteq Nat
  BY AroundKeeps, ParametersAssumption
     DEF Apart, Types, TypeOK, CallState, Placed, Under, Key
<1>1. CASE Change \/ \E k \in Key : FreshnessEnds(k)
  <2>1. ASSUME NEW k \in Key PROVE SameEntry(k)
    <3>1. cache[k] \in Entry
      BY DEF Types, TypeOK
    <3>2. CASE cache'[k] = cache[k]
      BY <3>2 DEF SameEntry
    <3>3. CASE cache[k] # Nothing /\ cache'[k] = [cache[k] EXCEPT !.fresh = FALSE]
      <4>1. cache'[k].late = cache[k].late /\ cache'[k].grant = cache[k].grant
        BY <3>1, <3>3 DEF Entry
      <4> QED
        BY <3>3, <4>1 DEF SameEntry, Good
    <3> QED
      BY <1>1, <3>2, <3>3, FreshnessFacts DEF Change
  <2>2. UNCHANGED <<row, history>>
    BY <1>1 DEF Change, FreshnessEnds
  <2>3. \A c \in Calls : SameRead(c)
    BY <1>0 DEF SameRead
  <2> QED
    BY <1>0, <2>1, <2>2, <2>3, StandingKept
<1>2. CASE Reauthorize \/ BeginRemoval
  <2>1. /\ \A k \in Key : cache'[k] = Nothing
        /\ row'.generation = row.generation + 1 /\ row.status # "absent"
        /\ row'.status # "absent" /\ life' = life
    BY <1>2 DEF Reauthorize, BeginRemoval, Forget, Types, TypeOK
  <2>2. \A c \in Calls : Ours(c)' = Ours(c)
    BY <1>0, <2>1 DEF Ours
  <2>3. ASSUME NEW c \in Calls, Ours(c) PROVE Named(calls[c].key, calls[c].grant)'
    <3>1. calls[c].key <= row.generation
      BY <1>0, <2>1, <2>3 DEF OneName, Named
    <3> QED
      BY <1>0, <2>1, <3>1 DEF Named
  <2>4. \A k \in Key : ~Good(cache'[k])
    BY <2>1 DEF Good
  <2>5. \A c \in Calls : Ours(c)' => calls'[c].key \in Key
    BY <1>0 DEF Types, TypeOK, CallState
  <2>6. OneName'
    BY <1>0, <2>2, <2>3, <2>4, <2>5 DEF OneName
  <2>7. Earlier'
    BY <1>0, <2>1, <2>2, <2>4 DEF Earlier
  <2> QED
    BY <2>6, <2>7
<1>3. CASE CompleteRemoval
  <2>1. row'.status = "absent" /\ cache' = cache /\ grant' = grant /\ life' = life
    BY <1>3 DEF CompleteRemoval, history
  <2>2. \A c \in Calls : Ours(c)' = Ours(c)
    BY <1>0, <2>1 DEF Ours
  <2>3. OneName'
    BY <1>0, <2>1, <2>2 DEF OneName, Named
  <2>4. Earlier'
    BY <1>0, <2>1, <2>2 DEF Earlier
  <2> QED
    BY <2>3, <2>4
<1>4. CASE Connect
  <2>1. cache' = cache /\ life' = life + 1 /\ row.status = "absent"
    BY <1>4 DEF Connect
  <2>2. \A c \in Calls : ~Ours(c)'
    BY <1>0, <2>1 DEF Ours
  <2>3. \A k \in Key : ~Good(cache'[k])
    BY <2>1 DEF Good, RemovedIsForgotten
  <2> QED
    BY <1>0, <2>2, <2>3 DEF OneName, Earlier, Types, TypeOK, CallState
<1> QED
  BY <1>1, <1>2, <1>3, <1>4 DEF Around

LEMMA ReadFound ==
    ASSUME Types, Apart, NEW c \in Calls, Read(c)
    PROVE  Found' /\ Own'
<1>0. /\ Kept(c) /\ UNCHANGED <<row, history>> /\ calls[c] \in CallState
      /\ OneName /\ Earlier /\ Found /\ Own /\ cache \in [Key -> Entry]
      /\ life' = life
  BY ReadKeeps DEF Types, TypeOK, Apart, history
<1> DEFINE Mine == /\ /\ calls[c].pc \in {"requesting", "unchanged", "failing"}
                      /\ Good(calls[c].cached)
                      => /\ calls[c].grant <= calls[c].cached.grant
                         /\ calls[c].life = life => calls[c].grant = calls[c].cached.grant
                   /\ At(c, "receiving") => calls[c].answer.grant = calls[c].grant
<1>a. SUFFICES Mine'
  BY <1>0 DEF Kept, Found, Own, At
<1>b. Mine
  BY <1>0 DEF Found, Own
<1>1. CASE Start(c)
  <2>1. calls'[c].pc = "authorizing"
    BY <1>1, StartFacts DEF Idle
  <2> QED
    BY <2>1 DEF At
<1>2. CASE Lookup(c)
  <2>1. At(c, "authorizing") /\ Under(c) /\ calls[c].key \in Key
    BY <1>0, <1>2 DEF Lookup, At, Under, CallState
  <2>2. Good(cache[calls[c].key]) =>
          /\ calls[c].grant <= cache[calls[c].key].grant
          /\ calls[c].life = life => calls[c].grant = cache[calls[c].key].grant
    <3>1. CASE calls[c].life = life
      <4>1. Good(cache[calls[c].key]) => calls[c].grant = cache[calls[c].key].grant
        BY <1>0, <2>1, <3>1 DEF Ours, OneName
      <4>2. calls[c].grant \in Nat
        BY <1>0, ParametersAssumption DEF CallState
      <4> QED
        BY <3>1, <4>1, <4>2
    <3>2. CASE calls[c].life # life
      BY <1>0, <2>1, <3>2 DEF Earlier
    <3> QED
      BY <3>1, <3>2
  <2> QED
    BY <1>0, <1>2, <2>2, LookupFacts DEF At
<1>3. CASE NotModified(c)
  BY <1>0, <1>b, <1>3, NotModifiedFacts DEF NotModified, At
<1>4. CASE Send(c)
  <2>1. calls'[c].answer.grant = calls'[c].grant /\ calls'[c].pc = "receiving"
    <3>1. PICK validator \in {eve, None} :
            /\ calls'[c].answer = [value |-> eve, validator |-> validator,
                   fresh |-> TRUE, grant |-> calls[c].grant, late |-> FALSE]
            /\ calls'[c].grant = calls[c].grant /\ calls'[c].pc = "receiving"
      BY <1>4, SendFacts
    <3> QED
      BY <3>1
  <2> QED
    BY <2>1 DEF At
<1>5. CASE Outage(c)
  <2>1. calls'[c].pc \in {"requesting", "failing"}
    BY <1>5, OutageFacts
  <2> QED
    BY <1>0, <1>b, <1>5, <2>1, OutageFacts DEF Outage, At
<1>6. CASE Decline(c)
  BY <1>0, <1>b, <1>6, DeclineFacts DEF Decline, At
<1>7. CASE Hit(c) \/ Store(c) \/ Revalidate(c) \/ StandIn(c) \/ End(c)
  <2>1. CASE Hit(c)
    <3>1. Answer(c, "hit", cache[calls[c].key]) /\ cache[calls[c].key] \in Entry
      BY <1>0, <2>1 DEF Hit, KeyOf, CallState
    <3> QED
      BY <3>1, AnswerFacts DEF How, At
  <2>2. CASE Store(c)
    BY <2>2, StoredType, StoreFacts, AnswerFacts DEF Store, How, At
  <2>3. CASE Revalidate(c)
    BY <2>3, RenewedType, RevalidateFacts, AnswerFacts DEF Revalidate, How, At
  <2>4. CASE StandIn(c)
    <3>1. Answer(c, "stale", calls[c].cached) /\ calls[c].cached \in Entry
      BY <1>0, <2>4 DEF StandIn, CallState
    <3> QED
      BY <3>1, AnswerFacts DEF How, At
  <2>5. CASE End(c)
    BY <2>5, LeaveFacts DEF End, Idle, Types, TypeOK, At
  <2> QED
    BY <1>7, <2>1, <2>2, <2>3, <2>4, <2>5
<1> QED
  BY <1>1, <1>2, <1>3, <1>4, <1>5, <1>6, <1>7 DEF Read

LEMMA AroundFound ==
    ASSUME Types, Apart, PrivateStaysApart, Around
    PROVE  Found' /\ Own' /\ PrivateStaysApart'
<1>1. /\ Found /\ Own /\ life' \in {life, life + 1} /\ life \in Nat
      /\ \A c \in Calls : calls[c].life \in Nat /\ calls[c].life <= life
  BY ParametersAssumption
     DEF Apart, Around, Change, FreshnessEnds, Reauthorize, BeginRemoval,
         CompleteRemoval, Connect, history, Types, TypeOK, Placed, CallState
<1>2. \A c \in Calls : calls[c].life = life' => calls[c].life = life
  BY <1>1
<1> QED
  BY <1>1, <1>2, AroundKeeps DEF Found, Own, PrivateStaysApart, At

\* An answered read has its own authorization's answer, or a late one.
LEMMA ReadApart ==
    ASSUME Types, Apart, PrivateStaysApart, NEW c \in Calls, Read(c)
    PROVE  PrivateStaysApart'
<1>0. /\ Kept(c) /\ calls[c] \in CallState /\ cache \in [Key -> Entry]
      /\ Found /\ Own /\ calls[c].grant \in Nat
      /\ \A e \in Entry : e.grant \in Nat
  BY ReadKeeps, ParametersAssumption
     DEF Types, TypeOK, Apart, CallState, Entry, Nothing
<1>a. SUFFICES ASSUME calls'[c].pc = "answered",
                      calls'[c].answer.grant < calls'[c].grant
               PROVE  calls'[c].answer.late
  BY <1>0 DEF Kept, PrivateStaysApart, At
<1>1. CASE Hit(c)
  <2>1. /\ Answer(c, "hit", cache[calls[c].key]) /\ cache[calls[c].key] \in Entry
        /\ cache[calls[c].key].fresh /\ Under(c) /\ calls[c].key \in Key
    BY <1>0, <1>1 DEF Hit, KeyOf, CallState, At, Under
  <2>2. calls'[c].answer = cache[calls[c].key] /\ calls'[c].grant = calls[c].grant
    BY <2>1, AnswerFacts DEF How
  <2>3. Good(cache[calls[c].key]) => calls[c].grant <= cache[calls[c].key].grant
    BY <1>0, <2>1 DEF Apart, OneName, Earlier, Ours
  <2>4. cache[calls[c].key] # Nothing
    BY <2>1 DEF Nothing
  <2> QED
    BY <1>0, <1>a, <2>1, <2>2, <2>3, <2>4 DEF Good
<1>2. CASE Store(c)
  <2>1. /\ Answer(c, "miss", Stored(c)) /\ Stored(c) \in Entry
        /\ Stored(c).grant = calls[c].grant
    BY <1>0, <1>2, StoredType, StoreFacts DEF Store, Own
  <2>2. calls'[c].answer = Stored(c) /\ calls'[c].grant = calls[c].grant
    BY <2>1, AnswerFacts DEF How
  <2> QED
    BY <1>0, <1>a, <2>1, <2>2
<1>3. CASE Revalidate(c)
  <2>1. /\ Answer(c, "revalidated", Renewed(c)) /\ Renewed(c) \in Entry
        /\ Renewed(c).grant = calls[c].cached.grant
        /\ Renewed(c).late = (calls[c].cached.late \/ Late(c))
        /\ At(c, "unchanged")
    BY <1>3, RenewedType, RevalidateFacts DEF Revalidate
  <2>2. calls'[c].answer = Renewed(c) /\ calls'[c].grant = calls[c].grant
    BY <2>1, AnswerFacts DEF How
  <2>3. calls[c].cached # Nothing /\ calls[c].cached \in Entry
    BY <1>0, <2>1 DEF Types, Placed, CallState
  <2>4. Good(calls[c].cached) => calls[c].grant <= calls[c].cached.grant
    BY <1>0, <2>1 DEF Found, At
  <2>5. ~(calls[c].grant <= calls[c].cached.grant)
    BY <1>0, <1>a, <2>1, <2>2, <2>3
  <2>6. calls[c].cached.late
    BY <2>3, <2>4, <2>5 DEF Good
  <2> QED
    BY <2>1, <2>2, <2>6
<1>4. CASE StandIn(c)
  <2>1. /\ Answer(c, "stale", calls[c].cached) /\ calls[c].cached \in Entry
        /\ At(c, "failing") /\ calls[c].cached # Nothing
    BY <1>0, <1>4 DEF StandIn, Presentable, CallState
  <2>2. calls'[c].answer = calls[c].cached /\ calls'[c].grant = calls[c].grant
    BY <2>1, AnswerFacts DEF How
  <2>3. Good(calls[c].cached) => calls[c].grant <= calls[c].cached.grant
    BY <1>0, <2>1 DEF Found, At
  <2> QED
    BY <1>0, <1>a, <2>1, <2>2, <2>3 DEF Good
<1>5. CASE Start(c) \/ End(c)
  <2>1. CASE Start(c)
    <3>1. calls'[c].pc = "authorizing"
      BY <2>1, StartFacts DEF Idle
    <3> QED
      BY <1>a, <3>1
  <2>2. CASE End(c)
    <3>1. calls'[c].pc = "idle"
      BY <2>2, LeaveFacts DEF End, Idle, Types, TypeOK
    <3> QED
      BY <1>a, <3>1
  <2> QED
    BY <1>5, <2>1, <2>2
<1>6. CASE Lookup(c) \/ NotModified(c) \/ Send(c) \/ Outage(c) \/ Decline(c)
  <2>1. calls'[c].pc \in {"requesting", "unchanged", "receiving", "failing"}
    BY <1>6, LookupFacts, NotModifiedFacts, SendFacts, OutageFacts, DeclineFacts
  <2> QED
    BY <1>a, <2>1
<1> QED
  BY <1>1, <1>2, <1>3, <1>4, <1>5, <1>6 DEF Read

---------------------------------------------------------------------------
(* The theorems *)

LEMMA InvariantInitially == Init => IInv
BY TypesInitially, PairsInitially, LastInitially, ForgottenInitially,
   ApartInitially DEF IInv

LEMMA InvariantStep == IInv /\ [Next]_vars => IInv'
<1> SUFFICES ASSUME IInv, [Next]_vars PROVE IInv'
  OBVIOUS
<1>1. CASE Next
  <2>1. ASSUME NEW c \in Calls, Read(c) PROVE IInv'
    BY <1>1, <2>1, ReadTypes, ReadPairs, StepLast, StepForgets, ReadStanding,
       ReadFound, ReadApart DEF IInv, Apart
  <2>2. ASSUME Around PROVE IInv'
    BY <1>1, <2>2, AroundTypes, AroundPairs, StepLast, StepForgets,
       AroundStanding, AroundFound DEF IInv, Apart
  <2> QED
    BY <1>1, <2>1, <2>2 DEF Next, Around
<1>2. CASE UNCHANGED vars
  BY <1>2 DEF vars, history, IInv, Types, TypeOK, Counted, Placed, Pairs, Paired,
     Current, Last, RemovedIsForgotten, Apart, OneName, Named, Earlier, Found, Own,
     PrivateStaysApart, Ours, Under, Good, At
<1> QED
  BY <1>1, <1>2

\* The inductive invariant holds of every run.
THEOREM InductiveInvariant == Spec => []IInv
BY InvariantInitially, InvariantStep, PTL DEF Spec

\* Every variable has its type, and no request is tried more than three times.
THEOREM TypeCorrect == Spec => []TypeOK
<1>1. IInv => TypeOK
  BY DEF IInv, Types
<1> QED
  BY <1>1, InductiveInvariant, PTL

\* What a read fetches or has confirmed is what EVE had during the read.
THEOREM AnswersAreCurrent == Spec => []AnswerIsCurrent
<1>1. IInv => AnswerIsCurrent
  BY DEF IInv, Pairs, Current, AnswerIsCurrent
<1> QED
  BY <1>1, InductiveInvariant, PTL

\* An old entry stands in for outages and odd answers, never for a refusal.
THEOREM StaleIsLast == Spec => []StaleIsLastResort
<1>1. IInv => StaleIsLastResort
  BY DEF IInv, Last, StaleIsLastResort
<1> QED
  BY <1>1, InductiveInvariant, PTL

\* No read is served another authorization's data, but for what came in late.
THEOREM AuthorizationsStayApart == Spec => []PrivateStaysApart
<1>1. IInv => PrivateStaysApart
  BY DEF IInv
<1> QED
  BY <1>1, InductiveInvariant, PTL

\* The table holds nothing of a removed character but what came in late.
THEOREM RemovedIsGone == Spec => []RemovedIsForgotten
<1>1. IInv => RemovedIsForgotten
  BY DEF IInv
<1> QED
  BY <1>1, InductiveInvariant, PTL

=============================================================================
