------------------------- MODULE TokenRefreshProofs -------------------------
(***************************************************************************)
(* Proofs about TokenRefresh for any sets of calls and references and any  *)
(* bounds.                                                                 *)
(***************************************************************************)
EXTENDS TokenRefresh, TLAPS

---------------------------------------------------------------------------
(* The inductive invariant *)

\* A call that is under way names the grant it is about.
Named(c) == calls[c].pc \notin {"idle", "releasing"} => Ref(c) # None

Types == TypeOK /\ \A c \in Calls : Named(c)

\* Every grant anybody names has been issued by EVE.
Issued ==
    /\ row.status # "absent" => valid[row.reference] >= 1
    /\ \A g \in doomed : valid[g] >= 1
    /\ \A c \in Calls : Ref(c) # None => valid[Ref(c)] >= 1

\* The grant of a character that is not being removed is in the store.
Current == row.status \in {"connected", "reauthorization_required"}

Held == Current => row.reference \notin doomed /\ stored[row.reference].held

\* Until a lease is taken from a living call, the lease excludes.
Exclusive == ~overtaken => \A c \in Calls : Holding(c) => lease.owner = c

\* EVE's answer is on its way to the store.
InFlight(c) == calls[c].pc \in {"received", "replacing", "writing"}

\* What the store and the calls know of a family's refresh token: the newest
\* one is in the store or on its way there.
Known(g) ==
    /\ (\A c \in Calls : Ref(c) = g => ~InFlight(c))
       => (stored[g].held => stored[g].token = valid[g])
    /\ \A c \in Calls : Ref(c) = g =>
         /\ InFlight(c) => calls[c].next = valid[g]
         /\ At(c, "refreshing") => calls[c].token = valid[g]
         /\ At(c, "received") /\ stored[g].held
            => stored[g].token = calls[c].token

Tokens == ~overtaken => \A g \in References \ spoiled : Known(g)

\* A call that is going to mark a row has a cause, or will not find the row.
Cause(g) == g \in spoiled \/ overtaken \/ stale

Caused ==
    \A c \in Calls : At(c, "marking") =>
      Cause(Ref(c)) \/ ~(Current /\ row.reference = Ref(c))

IInv == /\ Types /\ Issued /\ Held /\ Exclusive /\ Tokens /\ Caused
        /\ MarkedForCause

---------------------------------------------------------------------------
(* What a step does to the local state of its call *)

Kept(c) == \A d \in Calls \ {c} : calls'[d] = calls[d]

\* The call c goes on at pc with the grant g, and the others stay.
After(c, pc, g) ==
    /\ calls' \in [Calls -> CallState] /\ Kept(c)
    /\ calls'[c].pc = pc /\ calls'[c].reference = g

LEMMA IdleType == Idle \in CallState
BY ParametersAssumption DEF Idle, CallState, Pc, Token

\* A record keeps its type when one of its fields is set.
LEMMA SetFields ==
    ASSUME NEW r \in CallState
    PROVE  /\ \A pc \in Pc : [r EXCEPT !.pc = pc] \in CallState
           /\ \A g \in References \cup {None} : [r EXCEPT !.reference = g] \in CallState
           /\ \A t \in Token : [r EXCEPT !.token = t] \in CallState
BY DEF CallState

LEMMA RecordFacts ==
    ASSUME TypeOK, NEW c \in Calls, NEW new \in CallState,
           calls' = [calls EXCEPT ![c] = new],
           NEW pc, NEW g, new.pc = pc, new.reference = g
    PROVE  After(c, pc, g) /\ calls'[c] = new
<1>1. calls' \in [Calls -> CallState] /\ calls'[c] = new /\ Kept(c)
  BY DEF TypeOK, Kept
<1> QED
  BY <1>1 DEF After

LEMMA LeaveFacts ==
    ASSUME TypeOK, NEW c \in Calls, Leave(c)
    PROVE  After(c, "idle", None)
<1>1. Idle.pc = "idle" /\ Idle.reference = None
  BY DEF Idle
<1> QED
  BY <1>1, IdleType, RecordFacts DEF Leave

\* A call goes on at another place, with another grant.
LEMMA PlaceFacts ==
    ASSUME TypeOK, NEW c \in Calls, NEW pc \in Pc, NEW g \in References \cup {None},
           NEW r \in CallState,
           calls' = [calls EXCEPT ![c] = [r EXCEPT !.pc = pc, !.reference = g]]
    PROVE  After(c, pc, g)
<1> DEFINE r1  == [r EXCEPT !.pc = pc]
           new == [r EXCEPT !.pc = pc, !.reference = g]
<1>1. r1 \in CallState
  BY SetFields
<1>2. [r1 EXCEPT !.reference = g] \in CallState
  <2> HIDE DEF r1
  <2> QED
    BY <1>1, SetFields
<1>3. new \in CallState /\ new.pc = pc /\ new.reference = g
  BY <1>2 DEF CallState
<1>4. calls' = [calls EXCEPT ![c] = new]
  OBVIOUS
<1> HIDE DEF new
<1> QED
  BY <1>3, <1>4, RecordFacts

LEMMA WindFacts ==
    ASSUME TypeOK, NEW c \in Calls, NEW pc \in Pc, Wind(c, pc)
    PROVE  /\ pc = "marking" => After(c, pc, Ref(c))
           /\ pc # "marking" => After(c, pc, None)
<1>1. Ref(c) \in References \cup {None}
  BY DEF TypeOK, CallState, Ref
<1>2. ASSUME pc = "marking" PROVE After(c, pc, Ref(c))
  <2>1. calls' = [calls EXCEPT ![c] = [Idle EXCEPT !.pc = pc, !.reference = Ref(c)]]
    BY <1>2 DEF Wind
  <2> QED
    BY <1>1, <2>1, IdleType, PlaceFacts
<1>3. ASSUME pc # "marking" PROVE After(c, pc, None)
  <2>1. calls' = [calls EXCEPT ![c] = [Idle EXCEPT !.pc = pc, !.reference = None]]
    BY <1>3 DEF Wind
  <2> QED
    BY <2>1, IdleType, PlaceFacts
<1> QED
  BY <1>2, <1>3

LEMMA GotoFacts ==
    ASSUME TypeOK, NEW c \in Calls, NEW pc \in Pc, Goto(c, pc)
    PROVE  /\ After(c, pc, Ref(c))
           /\ calls'[c].token = calls[c].token /\ calls'[c].next = calls[c].next
<1> DEFINE new == [calls[c] EXCEPT !.pc = pc]
<1>1. calls[c] \in CallState
  BY DEF TypeOK
<1>2. calls' = [calls EXCEPT ![c] = new]
  BY DEF Goto
<1>3. /\ new \in CallState /\ new.pc = pc /\ new.reference = Ref(c)
      /\ new.token = calls[c].token /\ new.next = calls[c].next
  BY <1>1 DEF CallState, Ref
<1> HIDE DEF new
<1> QED
  BY <1>2, <1>3, RecordFacts

\* What a call remembers of the refresh token it has found.
LEMMA TokenFacts ==
    ASSUME TypeOK, NEW c \in Calls, NEW pc \in Pc, Ref(c) \in References,
           calls' = [calls EXCEPT ![c].pc = pc, ![c].token = stored[Ref(c)].token]
    PROVE  After(c, pc, Ref(c)) /\ calls'[c].token = stored[Ref(c)].token
<1> DEFINE new == [calls[c] EXCEPT !.pc = pc, !.token = stored[Ref(c)].token]
<1>1. calls[c] \in CallState /\ stored[Ref(c)].token \in Token
  BY DEF TypeOK
<1>2. new \in CallState
  <2> DEFINE r1 == [calls[c] EXCEPT !.pc = pc]
  <2>1. r1 \in CallState
    BY <1>1, SetFields
  <2>2. [r1 EXCEPT !.token = stored[Ref(c)].token] \in CallState
    <3> HIDE DEF r1
    <3> QED
      BY <1>1, <2>1, SetFields
  <2> QED
    BY <2>2
<1>3. new.pc = pc /\ new.reference = Ref(c) /\ new.token = stored[Ref(c)].token
  BY <1>1 DEF CallState, Ref
<1>4. calls' = [calls EXCEPT ![c] = new]
  OBVIOUS
<1> HIDE DEF new
<1> QED
  BY <1>2, <1>3, <1>4, RecordFacts

\* A row, and what a refresh may do to it.
Row == {NoRow} \cup
         [status: {"connected", "reauthorization_required", "removal_pending"},
          reference: References]

SameRow ==
    \/ row' = row
    \/ Current /\ Current' /\ row'.reference = row.reference

\* Marking changes the status of a connected row, and remembers whose it was.
LEMMA MarkFacts ==
    ASSUME TypeOK, NEW c \in Calls, Mark(c)
    PROVE  /\ row' \in Row
           /\ SameRow /\ row'.reference = row.reference
           /\ row.status = "connected" => row'.status = "reauthorization_required"
           /\ row.status # "connected" => row' = row
           /\ stale' \in BOOLEAN /\ (stale => stale')
           /\ row.status = "connected" /\ row.reference # Ref(c) => stale'
<1>1. row.status # "connected" => row' = row
  BY DEF Mark
<1>2. ASSUME row.status = "connected"
      PROVE  /\ row' = [status |-> "reauthorization_required",
                         reference |-> row.reference]
             /\ row.reference \in References
  BY <1>2 DEF Mark, TypeOK, NoRow
<1>3. stale' \in BOOLEAN /\ (stale => stale')
      /\ (row.status = "connected" /\ row.reference # Ref(c) => stale')
  BY Zenon DEF Mark, TypeOK
<1> QED
  BY <1>1, <1>2, <1>3 DEF TypeOK, Row, SameRow, Current

---------------------------------------------------------------------------
(* Steps *)

LEMMA TypesInitially == Init => Types
<1> SUFFICES ASSUME Init PROVE Types
  OBVIOUS
<1>1. PICK g \in References :
         /\ row = [status |-> "connected", reference |-> g]
         /\ stored = [h \in References |-> IF h = g THEN Grant(1) ELSE Erased]
         /\ valid = [h \in References |-> IF h = g THEN 1 ELSE 0]
  BY DEF Init
<1>2. 0 \in Token /\ 1 \in Token
  BY ParametersAssumption DEF Token
<1>3. stored \in [References -> [held: BOOLEAN, token: Token, fresh: BOOLEAN]]
  BY <1>1, <1>2 DEF Grant, Erased
<1>4. valid \in [References -> Token]
  BY <1>1, <1>2
<1>5. calls \in [Calls -> CallState] /\ lease \in [owner: Calls \cup {None, Ghost}, lapsed: BOOLEAN]
  BY IdleType DEF Init, Free
<1>6. \A c \in Calls : Named(c)
  BY DEF Init, Named, Idle
<1>7. spoiled = {} /\ doomed = {} /\ overtaken = FALSE /\ stale = FALSE /\ faults \in 0..MaxFaults
  BY ParametersAssumption DEF Init
<1> QED
  BY <1>1, <1>3, <1>4, <1>5, <1>6, <1>7 DEF Types, TypeOK

LEMMA Initially == Init => IInv
<1> SUFFICES ASSUME Init PROVE IInv
  OBVIOUS
<1>1. PICK g \in References :
         /\ row = [status |-> "connected", reference |-> g]
         /\ stored = [h \in References |-> IF h = g THEN Grant(1) ELSE Erased]
         /\ valid = [h \in References |-> IF h = g THEN 1 ELSE 0]
  BY DEF Init
<1>2. doomed = {} /\ \A c \in Calls : calls[c] = Idle
  BY DEF Init
<1>3. Issued /\ Held
  BY <1>1, <1>2 DEF Issued, Held, Ref, Idle, Grant
<1>4. Exclusive /\ Caused /\ MarkedForCause
  BY <1>1, <1>2 DEF Exclusive, Holding, Caused, At, Idle, MarkedForCause
<1>5. Tokens
  BY <1>1, <1>2 DEF Tokens, Known, Ref, At, Idle, InFlight, Grant, Erased
<1> QED
  BY <1>3, <1>4, <1>5, TypesInitially DEF IInv

\* The reads of the types that the steps need.
LEMMA StateFacts ==
    ASSUME Types, NEW c \in Calls
    PROVE  /\ calls[c] \in CallState /\ Named(c) /\ row \in Row
           /\ Ref(c) \in References \cup {None}
           /\ Current => row.reference \in References
           /\ row.status # "absent" => row.reference \in References
BY DEF Types, TypeOK, CallState, Ref, Row, Current, NoRow

\* The store keeps what it has, but for a family that has been spoiled.
StoreKept ==
    /\ stored' \in [References -> [held: BOOLEAN, token: Token, fresh: BOOLEAN]]
    /\ \A g \in References : stored[g].held => stored'[g].held
    /\ \A g \in References \ spoiled' : stored'[g] = stored[g]

LEMMA StoreSame ==
    ASSUME IInv, UNCHANGED stored
    PROVE  StoreKept
BY DEF IInv, Types, TypeOK, StoreKept

\* A step of one call that is not, from then on, about EVE's answer.
LEMMA QuietStep ==
    ASSUME IInv, NEW c \in Calls,
           NEW pc \in Pc \ {"refreshing", "received", "replacing", "writing"},
           NEW g \in References \cup {None}, After(c, pc, g),
           pc \notin {"idle", "releasing"} => g # None,
           g # None => valid[g] >= 1,
           UNCHANGED <<doomed, valid>>, StoreKept,
           lease' \in [owner: Calls \cup {None, Ghost}, lapsed: BOOLEAN],
           overtaken' \in BOOLEAN, overtaken => overtaken', Exclusive',
           row' \in Row, SameRow, MarkedForCause',
           spoiled' \subseteq References, spoiled \subseteq spoiled',
           stale' \in BOOLEAN, stale => stale', faults' \in 0..MaxFaults,
           ~overtaken /\ InFlight(c) /\ Ref(c) \notin spoiled'
             /\ stored[Ref(c)].held => stored[Ref(c)].token = valid[Ref(c)],
           pc = "marking" => Cause(g)' \/ ~(Current /\ row.reference = g)
    PROVE  IInv'
<1>0. /\ calls' \in [Calls -> CallState] /\ Kept(c)
      /\ calls'[c].pc = pc /\ calls'[c].reference = g
  BY DEF After
<1>1. Types'
  <2>1. TypeOK'
    BY <1>0 DEF IInv, Types, TypeOK, Row, StoreKept
  <2>2. ASSUME NEW d \in Calls PROVE Named(d)'
    BY <1>0 DEF IInv, Types, Named, Kept, Ref
  <2> QED
    BY <2>1, <2>2 DEF Types
<1>2. Issued'
  <2>1. row'.status # "absent" => row'.reference = row.reference /\ row.status # "absent"
    BY DEF SameRow, Current
  <2>2. ASSUME NEW d \in Calls, calls'[d].reference # None
        PROVE  valid[calls'[d].reference] >= 1
    BY <1>0, <2>2 DEF Kept, IInv, Issued, Ref
  <2> QED
    BY <2>1, <2>2 DEF IInv, Issued, Ref
<1>3. Held'
  BY StateFacts DEF IInv, Held, SameRow, Current, StoreKept
<1>4. Tokens'
  <2>1. SUFFICES ASSUME ~overtaken', NEW h \in References \ spoiled' PROVE Known(h)'
    BY DEF Tokens
  <2>2. ~overtaken /\ h \notin spoiled /\ Known(h) /\ stored'[h] = stored[h]
    BY <2>1 DEF IInv, Tokens, StoreKept
  <2>3. \A d \in Calls \ {c} : calls'[d] = calls[d]
    BY <1>0 DEF Kept
  <2>4. (\A d \in Calls : Ref(d)' = h => ~InFlight(d)')
        => (stored'[h].held => stored'[h].token = valid[h])
    <3>1. CASE InFlight(c) /\ Ref(c) = h
      BY <2>1, <2>2, <3>1
    <3>2. CASE ~(InFlight(c) /\ Ref(c) = h)
      BY <2>2, <2>3, <3>2 DEF Known, InFlight, Ref
    <3> QED
      BY <3>1, <3>2
  <2>5. ASSUME NEW d \in Calls, Ref(d)' = h
        PROVE  /\ InFlight(d)' => calls'[d].next = valid[h]
               /\ calls'[d].pc = "refreshing" => calls'[d].token = valid[h]
               /\ calls'[d].pc = "received" /\ stored'[h].held
                  => stored'[h].token = calls'[d].token
    <3>1. CASE d = c
      BY <1>0, <3>1 DEF InFlight
    <3>2. CASE d # c
      <4>1. calls'[d] = calls[d] /\ Ref(d) = h
        BY <2>3, <2>5, <3>2 DEF Ref
      <4> QED
        BY <2>2, <4>1 DEF Known, InFlight, At
    <3> QED
      BY <3>1, <3>2
  <2> QED
    BY <2>4, <2>5 DEF Known, At
<1>5. Caused'
  <2>1. Current' = Current /\ (Current => row'.reference = row.reference)
    BY DEF SameRow, Current
  <2>2. \A h : Cause(h) => Cause(h)'
    BY DEF Cause
  <2>3. ASSUME NEW d \in Calls, calls'[d].pc = "marking"
        PROVE  Cause(Ref(d))' \/ ~(Current' /\ row'.reference = Ref(d)')
    <3>1. CASE d = c
      BY <1>0, <2>1, <2>3, <3>1 DEF Ref, Cause
    <3>2. CASE d # c
      <4>1. calls'[d] = calls[d] /\ At(d, "marking")
        BY <1>0, <2>3, <3>2 DEF Kept, At
      <4>2. Cause(Ref(d)) \/ ~(Current /\ row.reference = Ref(d))
        BY <4>1 DEF IInv, Caused
      <4> QED
        BY <2>1, <4>1, <4>2 DEF Ref, Cause
    <3> QED
      BY <3>1, <3>2
  <2> QED
    BY <2>3 DEF Caused, At
<1> QED
  BY <1>1, <1>2, <1>3, <1>4, <1>5 DEF IInv

LEMMA ExclusiveKept ==
    ASSUME IInv, NEW c \in Calls, NEW pc, NEW g, After(c, pc, g),
           UNCHANGED <<lease, overtaken>>,
           pc \notin {"idle", "reading", "waiting"} => Holding(c)
    PROVE  Exclusive'
<1>1. ASSUME NEW d \in Calls, Holding(d)' PROVE Holding(d)
  <2>1. CASE d = c
    BY <1>1, <2>1 DEF After, Holding
  <2>2. CASE d # c
    BY <1>1, <2>2 DEF After, Kept, Holding
  <2> QED
    BY <2>1, <2>2
<1> QED
  BY <1>1 DEF IInv, Exclusive

\* A step that only looks.
LEMMA PlainStep ==
    ASSUME IInv, NEW c \in Calls,
           NEW pc \in Pc \ {"refreshing", "received", "replacing", "writing"},
           NEW g \in References \cup {None}, After(c, pc, g),
           pc \notin {"idle", "releasing"} => g # None,
           g # None => valid[g] >= 1,
           UNCHANGED <<row, stored, doomed, valid, lease, history>>,
           ~InFlight(c),
           pc \notin {"idle", "reading", "waiting"} => Holding(c),
           pc = "marking" => Cause(g) \/ ~(Current /\ row.reference = g)
    PROVE  IInv'
<1>1. /\ UNCHANGED <<spoiled, overtaken, stale, faults>>
      /\ row \in Row /\ MarkedForCause /\ spoiled \subseteq References
      /\ lease \in [owner: Calls \cup {None, Ghost}, lapsed: BOOLEAN]
      /\ overtaken \in BOOLEAN /\ stale \in BOOLEAN /\ faults \in 0..MaxFaults
  BY DEF history, IInv, Types, TypeOK, Row
<1>2. Exclusive'
  BY <1>1, ExclusiveKept
<1>3. MarkedForCause'
  BY <1>1 DEF MarkedForCause
<1>4. SameRow
  BY DEF SameRow
<1>5. pc = "marking" => Cause(g)' \/ ~(Current /\ row.reference = g)
  BY <1>1 DEF Cause
<1>6. lease' \in [owner: Calls \cup {None, Ghost}, lapsed: BOOLEAN]
  BY <1>1
<1> QED
  BY <1>1, <1>2, <1>3, <1>4, <1>5, <1>6, StoreSame, QuietStep

\* A step that marks the row.
LEMMA MarkStep ==
    ASSUME IInv, NEW c \in Calls,
           NEW pc \in {"idle", "marking", "releasing"},
           NEW g, g = (IF pc = "marking" THEN Ref(c) ELSE None), After(c, pc, g),
           Ref(c) # None, Mark(c),
           StoreKept, UNCHANGED <<doomed, valid, lease, overtaken, faults>>,
           spoiled' \in {spoiled, spoiled \cup {Ref(c)}},
           pc # "idle" => Holding(c),
           InFlight(c) => Ref(c) \in spoiled',
           Current /\ row.reference = Ref(c)
           => Ref(c) \in spoiled' \/ overtaken' \/ stale'
    PROVE  IInv'
<1>1. /\ Ref(c) \in References /\ valid[Ref(c)] >= 1
      /\ lease' \in [owner: Calls \cup {None, Ghost}, lapsed: BOOLEAN]
      /\ overtaken' = overtaken /\ overtaken' \in BOOLEAN /\ faults' \in 0..MaxFaults
      /\ TypeOK /\ spoiled \subseteq References
  BY StateFacts DEF IInv, Types, TypeOK, Issued
<1>2. /\ row' \in Row /\ SameRow /\ row'.reference = row.reference
      /\ row.status = "connected" => row'.status = "reauthorization_required"
      /\ row.status # "connected" => row' = row
      /\ stale' \in BOOLEAN /\ (stale => stale')
      /\ row.status = "connected" /\ row.reference # Ref(c) => stale'
  BY <1>1, MarkFacts
<1>3. Exclusive'
  BY ExclusiveKept
<1>4. MarkedForCause'
  <2>1. CASE row.status = "connected"
    <3>1. CASE row.reference = Ref(c)
      BY <1>2, <2>1, <3>1 DEF MarkedForCause, Current
    <3>2. CASE row.reference # Ref(c)
      BY <1>2, <2>1, <3>2 DEF MarkedForCause
    <3> QED
      BY <3>1, <3>2
  <2>2. CASE row.status # "connected"
    BY <1>1, <1>2, <2>2 DEF MarkedForCause, IInv
  <2> QED
    BY <2>1, <2>2
<1>5. /\ spoiled' \subseteq References /\ spoiled \subseteq spoiled'
      /\ g \in References \cup {None} /\ (g # None => valid[g] >= 1)
      /\ pc \in Pc \ {"refreshing", "received", "replacing", "writing"}
      /\ pc \notin {"idle", "releasing"} => g # None
      /\ pc = "marking" => Cause(g)' \/ ~(Current /\ row.reference = g)
  BY <1>1 DEF Pc, Cause
<1> QED
  BY <1>1, <1>2, <1>3, <1>4, <1>5, QuietStep

\* What Tokens says of a call that has the lease while nothing is spoiled.
LEMMA LeaseAlone ==
    ASSUME IInv, NEW c \in Calls, Holding(c), ~overtaken, ~InFlight(c),
           Ref(c) \in References \ spoiled, stored[Ref(c)].held
    PROVE  stored[Ref(c)].token = valid[Ref(c)]
<1>1. ASSUME NEW d \in Calls, InFlight(d) PROVE d = c
  <2>1. Holding(d)
    BY <1>1 DEF InFlight, Holding, Pc
  <2> QED
    BY <2>1 DEF IInv, Exclusive
<1> QED
  BY <1>1 DEF IInv, Tokens, Known

---------------------------------------------------------------------------
(* The steps of a call, without the lease *)

LEMMA ReadingSteps ==
    ASSUME IInv, NEW c \in Calls,
           Start(c) \/ ReadMissing(c) \/ ReadUsable(c) \/ LeaseBusy(c) \/ Poll(c)
    PROVE  IInv'
<1>0. /\ calls[c] \in CallState /\ Named(c) /\ TypeOK /\ Issued /\ Held
      /\ Ref(c) \in References \cup {None}
      /\ row.status = "connected" => row.reference \in References \ {None}
                                     /\ valid[row.reference] >= 1
      /\ Ref(c) # None => valid[Ref(c)] >= 1
  BY StateFacts, ParametersAssumption DEF IInv, Types, Issued, Current
<1>1. CASE Start(c)
  <2>1. After(c, "reading", row.reference)
    BY <1>0, <1>1, IdleType, PlaceFacts DEF Start, Pc
  <2> QED
    BY <1>0, <1>1, <2>1, PlainStep DEF Start, Pc, InFlight, At
<1>2. CASE ReadMissing(c)
  <2>1. After(c, "idle", None)
    BY <1>0, <1>2, LeaveFacts DEF ReadMissing
  <2>2. ~(Current /\ row.reference = Ref(c)) /\ Ref(c) # None /\ ~InFlight(c)
    BY <1>0, <1>2 DEF ReadMissing, Held, Named, At, InFlight
  <2> QED
    BY <1>2, <2>1, <2>2, StoreSame, MarkStep DEF ReadMissing
<1>3. CASE ReadUsable(c)
  <2>1. After(c, "idle", None)
    BY <1>0, <1>3, LeaveFacts DEF ReadUsable
  <2> QED
    BY <1>3, <2>1, PlainStep DEF ReadUsable, Pc, InFlight, At
<1>4. CASE LeaseBusy(c)
  <2>1. At(c, "reading") /\ UNCHANGED <<row, stored, doomed, valid, lease, history>>
        /\ Ref(c) # None
    BY <1>0, <1>4 DEF LeaseBusy, Named, At
  <2>2. CASE Goto(c, "waiting")
    <3>1. After(c, "waiting", Ref(c))
      BY <1>0, <2>2, GotoFacts DEF Pc
    <3> QED
      BY <1>0, <2>1, <3>1, PlainStep DEF Pc, InFlight, At
  <2>3. CASE Leave(c)
    <3>1. After(c, "idle", None)
      BY <1>0, <2>3, LeaveFacts
    <3> QED
      BY <2>1, <3>1, PlainStep DEF Pc, InFlight, At
  <2> QED
    BY <1>4, <2>2, <2>3 DEF LeaseBusy
<1>5. CASE Poll(c)
  <2>1. At(c, "waiting") /\ UNCHANGED <<row, stored, doomed, valid, lease, history>>
    BY <1>5 DEF Poll
  <2>2. CASE row.status = "connected"
    <3>1. After(c, "reading", row.reference)
      <4>1. calls' = [calls EXCEPT ![c] =
                        [calls[c] EXCEPT !.pc = "reading", !.reference = row.reference]]
        BY <1>5, <2>2 DEF Poll
      <4> QED
        BY <1>0, <2>2, <4>1, PlaceFacts DEF Pc
    <3> QED
      BY <1>0, <2>1, <2>2, <3>1, PlainStep DEF Pc, InFlight, At
  <2>3. CASE row.status # "connected"
    <3>1. After(c, "idle", None)
      BY <1>0, <1>5, <2>3, LeaveFacts DEF Poll
    <3> QED
      BY <2>1, <3>1, PlainStep DEF Pc, InFlight, At
  <2> QED
    BY <2>2, <2>3
<1> QED
  BY <1>1, <1>2, <1>3, <1>4, <1>5

LEMMA AcquireStep ==
    ASSUME IInv, NEW c \in Calls, AcquireLease(c)
    PROVE  IInv'
<1>0. /\ calls[c] \in CallState /\ TypeOK /\ Ref(c) \in References
      /\ valid[Ref(c)] >= 1 /\ Ref(c) # None
  BY StateFacts, ParametersAssumption
     DEF IInv, Types, Issued, AcquireLease, Named, At
<1>1. After(c, "holding", Ref(c))
  BY <1>0, TokenFacts DEF AcquireLease, Pc
<1>2. /\ lease' = [owner |-> c, lapsed |-> FALSE]
      /\ overtaken' = (overtaken \/ lease.owner \in Calls)
      /\ UNCHANGED <<row, stored, doomed, valid, spoiled, stale, faults>>
      /\ At(c, "reading")
  BY DEF AcquireLease
<1>3. Exclusive'
  <2>1. SUFFICES ASSUME ~overtaken', NEW d \in Calls, Holding(d)' PROVE d = c
    BY <1>2 DEF Exclusive
  <2>2. ~overtaken /\ lease.owner \notin Calls
    BY <1>2, <2>1
  <2>3. ~Holding(d)
    BY <2>2 DEF IInv, Exclusive
  <2> QED
    BY <1>1, <2>1, <2>3 DEF After, Kept, Holding
<1>4. /\ lease' \in [owner: Calls \cup {None, Ghost}, lapsed: BOOLEAN]
      /\ overtaken' \in BOOLEAN /\ (overtaken => overtaken')
      /\ row' \in Row /\ SameRow /\ spoiled' \subseteq References
      /\ stale' \in BOOLEAN /\ faults' \in 0..MaxFaults
  BY <1>0, <1>2 DEF TypeOK, Row, SameRow
<1>5. MarkedForCause'
  BY <1>2, <1>4 DEF IInv, MarkedForCause
<1> QED
  BY <1>0, <1>1, <1>2, <1>3, <1>4, <1>5, StoreSame, QuietStep DEF Pc, InFlight, At

---------------------------------------------------------------------------
(* Under the lease *)

LEMMA LookingSteps ==
    ASSUME IInv, NEW c \in Calls,
           \/ Recheck(c) \/ RereadMissing(c) \/ RereadUsable(c)
           \/ Refuse(c) \/ Unreachable(c) \/ Fail(c)
    PROVE  IInv'
<1>0. /\ calls[c] \in CallState /\ Named(c) /\ TypeOK /\ Issued /\ Held
      /\ Ref(c) \in References \cup {None}
      /\ row.status = "connected" => row.reference \in References \ {None}
                                     /\ valid[row.reference] >= 1
      /\ Ref(c) # None => valid[Ref(c)] >= 1
      /\ MarkedForCause
  BY StateFacts, ParametersAssumption DEF IInv, Types, Issued, Current
<1>1. CASE Recheck(c)
  <2>1. /\ At(c, "holding") /\ UNCHANGED <<row, stored, doomed, valid, lease, history>>
        /\ Holding(c) /\ ~InFlight(c) /\ Ref(c) # None
    BY <1>0, <1>1 DEF Recheck, Holding, InFlight, Named, At, Pc
  <2>2. CASE row.status = "connected"
    <3>1. calls' = [calls EXCEPT ![c] =
                      [calls[c] EXCEPT !.pc = "rereading", !.reference = row.reference]]
      BY <1>1, <2>2 DEF Recheck
    <3>2. After(c, "rereading", row.reference)
      BY <1>0, <2>2, <3>1, PlaceFacts DEF Pc
    <3> QED
      BY <1>0, <2>1, <2>2, <3>2, PlainStep DEF Pc
  <2>3. CASE row.status = "reauthorization_required"
    <3>1. Wind(c, "marking")
      BY <1>1, <2>3 DEF Recheck
    <3>2. After(c, "marking", Ref(c))
      BY <1>0, <3>1, WindFacts DEF Pc
    <3>3. Cause(Ref(c)) \/ ~(Current /\ row.reference = Ref(c))
      BY <1>0, <2>3 DEF MarkedForCause, Cause
    <3> QED
      BY <1>0, <2>1, <3>2, <3>3, PlainStep DEF Pc
  <2>4. CASE row.status \notin {"connected", "reauthorization_required"}
    <3>1. Wind(c, "releasing")
      BY <1>1, <2>4 DEF Recheck
    <3>2. After(c, "releasing", None)
      BY <1>0, <3>1, WindFacts DEF Pc
    <3> QED
      BY <2>1, <3>2, PlainStep DEF Pc
  <2> QED
    BY <2>2, <2>3, <2>4
<1>2. CASE RereadMissing(c)
  <2>1. After(c, "marking", Ref(c))
    BY <1>0, <1>2, WindFacts DEF RereadMissing, Pc
  <2>2. ~(Current /\ row.reference = Ref(c)) /\ Ref(c) # None /\ ~InFlight(c)
        /\ Holding(c)
    BY <1>0, <1>2 DEF RereadMissing, Held, Named, At, InFlight, Holding, Pc
  <2> QED
    BY <1>2, <2>1, <2>2, StoreSame, MarkStep DEF RereadMissing
<1>3. CASE RereadUsable(c)
  <2>1. After(c, "releasing", None)
    BY <1>0, <1>3, WindFacts DEF RereadUsable, Pc
  <2> QED
    BY <1>3, <2>1, PlainStep DEF RereadUsable, Pc, InFlight, Holding, At
<1>4. CASE Refuse(c)
  <2>1. After(c, "marking", Ref(c))
    BY <1>0, <1>4, WindFacts DEF Refuse, Pc
  <2>2. /\ At(c, "refreshing") /\ Ref(c) # None /\ Holding(c) /\ ~InFlight(c)
        /\ UNCHANGED <<row, stored, doomed, valid, lease, history>>
        /\ calls[c].token # valid[Ref(c)]
    BY <1>0, <1>4 DEF Refuse, Named, Holding, InFlight, At, Pc
  <2>3. Cause(Ref(c))
    BY <1>0, <2>2 DEF Cause, IInv, Tokens, Known
  <2> QED
    BY <1>0, <2>1, <2>2, <2>3, PlainStep DEF Pc
<1>5. CASE Unreachable(c)
  <2>1. After(c, "releasing", None)
    BY <1>0, <1>5, WindFacts DEF Unreachable, Pc
  <2> QED
    BY <1>5, <2>1, PlainStep DEF Unreachable, Pc, InFlight, Holding, At
<1>6. CASE Fail(c)
  <2>1. CASE calls[c].pc \in {"reading", "waiting"} /\ Leave(c)
    <3>1. After(c, "idle", None)
      BY <1>0, <2>1, LeaveFacts
    <3> QED
      BY <1>6, <2>1, <3>1, PlainStep DEF Fail, Pc, InFlight
  <2>2. CASE At(c, "rereading") /\ Wind(c, "releasing")
    <3>1. After(c, "releasing", None)
      BY <1>0, <2>2, WindFacts DEF Pc
    <3> QED
      BY <1>6, <2>2, <3>1, PlainStep DEF Fail, Pc, InFlight, Holding, At
  <2> QED
    BY <1>6, <2>1, <2>2 DEF Fail
<1> QED
  BY <1>1, <1>2, <1>3, <1>4, <1>5, <1>6

LEMMA MarkingSteps ==
    ASSUME IInv, NEW c \in Calls,
           Discard(c) \/ RecordFails(c) \/ CatchMarks(c)
    PROVE  IInv'
<1>0. /\ TypeOK /\ Holding(c) /\ Ref(c) # None /\ Mark(c)
      /\ UNCHANGED <<stored, doomed, valid, lease, overtaken, faults>>
  BY StateFacts DEF IInv, Types, Discard, RecordFails, CatchMarks, Named, Holding,
                    At, Pc
<1>1. CASE Discard(c) \/ RecordFails(c)
  <2>1. spoiled' = spoiled \cup {Ref(c)}
    BY <1>1 DEF Discard, RecordFails
  <2>2. PICK pc \in {"marking", "releasing"} : Wind(c, pc)
    BY <1>1 DEF Discard, RecordFails
  <2>3. After(c, pc, IF pc = "marking" THEN Ref(c) ELSE None)
    BY <1>0, <2>2, WindFacts DEF Pc
  <2> QED
    BY <1>0, <2>1, <2>3, StoreSame, MarkStep
<1>2. CASE CatchMarks(c)
  <2>1. After(c, "releasing", None)
    BY <1>0, <1>2, WindFacts DEF CatchMarks, Pc
  <2>2. spoiled' = spoiled /\ At(c, "marking") /\ ~InFlight(c)
    BY <1>2 DEF CatchMarks, InFlight, At
  <2>3. Cause(Ref(c)) \/ ~(Current /\ row.reference = Ref(c))
    BY <2>2 DEF IInv, Caused
  <2>4. stale => stale'
    BY <1>0, MarkFacts
  <2>5. Current /\ row.reference = Ref(c)
        => Ref(c) \in spoiled' \/ overtaken' \/ stale'
    BY <1>0, <2>2, <2>3, <2>4 DEF Cause
  <2> QED
    BY <1>0, <2>1, <2>2, <2>5, StoreSame, MarkStep
<1> QED
  BY <1>1, <1>2

LEMMA EndingSteps ==
    ASSUME IInv, NEW c \in Calls,
           AnswerLost(c) \/ RecordRefresh(c) \/ Release(c) \/ Die(c)
    PROVE  IInv'
<1>0. /\ TypeOK /\ calls[c] \in CallState /\ row \in Row /\ Named(c)
      /\ Ref(c) \in References \cup {None}
      /\ lease \in [owner: Calls \cup {None, Ghost}, lapsed: BOOLEAN]
      /\ overtaken \in BOOLEAN /\ stale \in BOOLEAN /\ faults \in 0..MaxFaults
      /\ MarkedForCause /\ spoiled \subseteq References
  BY StateFacts DEF IInv, Types, TypeOK
<1>1. CASE AnswerLost(c)
  <2>1. After(c, "releasing", None)
    BY <1>0, <1>1, WindFacts DEF AnswerLost, Pc
  <2>2. /\ At(c, "received") /\ Holding(c)
        /\ spoiled' = spoiled \cup
             (IF calls[c].next = calls[c].token THEN {} ELSE {Ref(c)})
        /\ UNCHANGED <<row, stored, doomed, valid, lease, overtaken, stale, faults>>
        /\ Ref(c) \in References
    BY <1>0, <1>1 DEF AnswerLost, Holding, Named, At, Pc
  <2>3. ASSUME ~overtaken, Ref(c) \notin spoiled', stored[Ref(c)].held
        PROVE  stored[Ref(c)].token = valid[Ref(c)]
    <3>1. calls[c].next = calls[c].token /\ Known(Ref(c))
      BY <2>2, <2>3 DEF IInv, Tokens
    <3> QED
      BY <2>2, <2>3, <3>1 DEF Known, InFlight, At
  <2>4. Exclusive'
    BY <2>1, <2>2, ExclusiveKept
  <2>5. spoiled' \subseteq References /\ spoiled \subseteq spoiled'
    BY <1>0, <2>2
  <2>6. MarkedForCause' /\ SameRow
    BY <1>0, <2>2, <2>5 DEF MarkedForCause, SameRow
  <2> QED
    BY <1>0, <2>1, <2>2, <2>3, <2>4, <2>5, <2>6, StoreSame, QuietStep DEF Pc
<1>2. CASE RecordRefresh(c)
  <2>1. After(c, "releasing", None)
    BY <1>0, <1>2, WindFacts DEF RecordRefresh, Pc
  <2>2. /\ At(c, "recording") /\ Holding(c) /\ ~InFlight(c)
        /\ UNCHANGED <<stored, doomed, valid, lease, spoiled, overtaken, stale, faults>>
        /\ Current /\ row' = [row EXCEPT !.status = "connected"]
    BY <1>2 DEF RecordRefresh, Holding, InFlight, At, Pc, Current, history
  <2>3. row' \in Row /\ row'.status = "connected" /\ row'.reference = row.reference
    BY <1>0, <2>2 DEF Row, Current, NoRow
  <2>4. Exclusive'
    BY <2>1, <2>2, ExclusiveKept
  <2>5. MarkedForCause' /\ SameRow
    BY <2>2, <2>3 DEF MarkedForCause, SameRow, Current
  <2> QED
    BY <1>0, <2>1, <2>2, <2>3, <2>4, <2>5, StoreSame, QuietStep DEF Pc
<1>3. CASE Release(c)
  <2>1. After(c, "idle", None)
    BY <1>0, <1>3, LeaveFacts DEF Release
  <2>2. /\ At(c, "releasing") /\ ~InFlight(c)
        /\ UNCHANGED <<row, stored, doomed, valid, spoiled, overtaken, stale, faults>>
        /\ lease' = IF lease.owner = c THEN Free ELSE lease
    BY <1>3 DEF Release, InFlight, At, history
  <2>3. lease' \in [owner: Calls \cup {None, Ghost}, lapsed: BOOLEAN]
    BY <1>0, <2>2 DEF Free
  <2>4. Exclusive'
    <3>1. SUFFICES ASSUME ~overtaken, NEW d \in Calls, Holding(d)'
                   PROVE  lease'.owner = d
      BY <2>2 DEF Exclusive
    <3>2. d # c
      BY <2>1, <3>1 DEF After, Holding
    <3>3. Holding(d)
      BY <2>1, <3>1, <3>2 DEF After, Kept, Holding
    <3> QED
      BY <2>2, <3>1, <3>2, <3>3 DEF IInv, Exclusive
  <2>5. MarkedForCause' /\ SameRow
    BY <1>0, <2>2 DEF MarkedForCause, SameRow
  <2> QED
    BY <1>0, <2>1, <2>2, <2>3, <2>4, <2>5, StoreSame, QuietStep DEF Pc
<1>4. CASE Die(c)
  <2>1. After(c, "idle", None)
    BY <1>0, <1>4, LeaveFacts DEF Die
  <2>2. /\ UNCHANGED <<row, stored, doomed, valid, overtaken, stale>>
        /\ lease' = IF lease.owner = c THEN [lease EXCEPT !.owner = Ghost] ELSE lease
        /\ spoiled' = IF InFlight(c) THEN spoiled \cup {Ref(c)} ELSE spoiled
        /\ faults' \in 0..MaxFaults
    BY <1>0, <1>4, ParametersAssumption DEF Die, InFlight
  <2>3. lease' \in [owner: Calls \cup {None, Ghost}, lapsed: BOOLEAN]
    BY <1>0, <2>2
  <2>4. Exclusive'
    <3>1. SUFFICES ASSUME ~overtaken, NEW d \in Calls, Holding(d)'
                   PROVE  lease'.owner = d
      BY <2>2 DEF Exclusive
    <3>2. d # c
      BY <2>1, <3>1 DEF After, Holding
    <3>3. Holding(d)
      BY <2>1, <3>1, <3>2 DEF After, Kept, Holding
    <3> QED
      BY <2>2, <3>1, <3>2, <3>3 DEF IInv, Exclusive
  <2>5. spoiled' \subseteq References /\ spoiled \subseteq spoiled'
        /\ (InFlight(c) => Ref(c) \in spoiled')
    BY <1>0, <2>2 DEF Named, InFlight
  <2>6. MarkedForCause' /\ SameRow
    BY <1>0, <2>2, <2>5 DEF MarkedForCause, SameRow
  <2> QED
    BY <1>0, <2>1, <2>2, <2>3, <2>4, <2>5, <2>6, StoreSame, QuietStep DEF Pc
<1> QED
  BY <1>1, <1>2, <1>3, <1>4

\* The other families, and the other calls of a family whose call has the lease.
LEMMA KnownElsewhere ==
    ASSUME NEW c \in Calls, NEW pc, After(c, pc, Ref(c)),
           NEW g \in References \ {Ref(c)}, Known(g),
           stored'[g] = stored[g], valid'[g] = valid[g]
    PROVE  Known(g)'
<1>1. ASSUME NEW d \in Calls, Ref(d)' = g
      PROVE  d # c /\ calls'[d] = calls[d] /\ Ref(d) = g
  BY <1>1 DEF After, Kept, Ref
<1>2. ASSUME NEW d \in Calls, Ref(d) = g
      PROVE  calls'[d] = calls[d] /\ Ref(d)' = g
  BY <1>2 DEF After, Kept, Ref
<1>3. (\A d \in Calls : Ref(d)' = g => ~InFlight(d)')
      => (\A d \in Calls : Ref(d) = g => ~InFlight(d))
  BY <1>2 DEF InFlight
<1>4. ASSUME NEW d \in Calls, Ref(d)' = g
      PROVE  /\ InFlight(d)' => calls'[d].next = valid'[g]
             /\ calls'[d].pc = "refreshing" => calls'[d].token = valid'[g]
             /\ calls'[d].pc = "received" /\ stored'[g].held
                => stored'[g].token = calls'[d].token
  BY <1>1, <1>4 DEF Known, InFlight, At
<1> QED
  BY <1>3, <1>4 DEF Known, At

LEMMA KnownHere ==
    ASSUME IInv, ~overtaken, NEW c \in Calls, Holding(c),
           NEW pc, NEW g, After(c, pc, g), NEW h \in References,
           InFlight(c)' \/ (stored'[h].held => stored'[h].token = valid'[h]),
           g = h => /\ InFlight(c)' => calls'[c].next = valid'[h]
                    /\ pc = "refreshing" => calls'[c].token = valid'[h]
                    /\ pc = "received" /\ stored'[h].held
                       => stored'[h].token = calls'[c].token,
           g # h => ~InFlight(c)'
    PROVE  Known(h)'
<1>1. ASSUME NEW d \in Calls, d # c
      PROVE  ~InFlight(d)' /\ calls'[d].pc # "refreshing"
  <2>1. ~Holding(d)
    BY <1>1 DEF IInv, Exclusive
  <2> QED
    BY <1>1, <2>1 DEF After, Kept, Holding, InFlight, Pc
<1>2. calls'[c].pc = pc /\ calls'[c].reference = g
  BY DEF After
<1>3. ASSUME NEW d \in Calls, Ref(d)' = h
      PROVE  /\ InFlight(d)' => calls'[d].next = valid'[h]
             /\ calls'[d].pc = "refreshing" => calls'[d].token = valid'[h]
             /\ calls'[d].pc = "received" /\ stored'[h].held
                => stored'[h].token = calls'[d].token
  BY <1>1, <1>2, <1>3 DEF Ref, InFlight
<1>4. (\A d \in Calls : Ref(d)' = h => ~InFlight(d)')
      => (stored'[h].held => stored'[h].token = valid'[h])
  BY <1>2 DEF Ref
<1> QED
  BY <1>3, <1>4 DEF Known, At

\* A step of a call that refreshes the grant it names.
LEMMA RefreshStep ==
    ASSUME IInv, NEW c \in Calls,
           NEW pc \in {"refreshing", "received", "replacing", "writing", "recording"},
           After(c, pc, Ref(c)), Holding(c), Ref(c) # None,
           UNCHANGED <<row, doomed, lease, history>>,
           stored' \in [References -> [held: BOOLEAN, token: Token, fresh: BOOLEAN]],
           \A g \in References : stored[g].held => stored'[g].held,
           valid' \in [References -> Token],
           \A g \in References : valid[g] >= 1 => valid'[g] >= 1,
           Tokens'
    PROVE  IInv'
<1>0. /\ calls' \in [Calls -> CallState] /\ Kept(c)
      /\ calls'[c].pc = pc /\ calls'[c].reference = Ref(c)
      /\ UNCHANGED <<spoiled, overtaken, stale, faults>> /\ TypeOK
      /\ Issued /\ Held /\ Caused /\ MarkedForCause
  BY DEF After, history, IInv, Types
<1>1. \A d \in Calls : Ref(d)' = Ref(d) /\ (d # c => calls'[d] = calls[d])
  BY <1>0 DEF Kept, Ref
<1>2. Types'
  <2>1. TypeOK'
    BY <1>0 DEF TypeOK
  <2>2. ASSUME NEW d \in Calls PROVE Named(d)'
    BY <1>0, <1>1 DEF IInv, Types, Named
  <2> QED
    BY <2>1, <2>2 DEF Types
<1>3. Issued'
  <2>1. \A d \in Calls : Ref(d) # None => Ref(d) \in References
    BY StateFacts DEF IInv
  <2>2. row.status # "absent" => row.reference \in References
    BY StateFacts DEF IInv
  <2> QED
    BY <1>0, <1>1, <2>1, <2>2 DEF Issued, TypeOK
<1>4. Held'
  BY <1>0, StateFacts DEF Held, Current, IInv
<1>5. Exclusive'
  BY <1>0, ExclusiveKept
<1>6. Caused'
  <2>1. ASSUME NEW d \in Calls, calls'[d].pc = "marking"
        PROVE  Cause(Ref(d)) \/ ~(Current /\ row.reference = Ref(d))
    BY <1>0, <1>1, <2>1 DEF Caused, At
  <2> QED
    BY <1>0, <1>1, <2>1 DEF Caused, Cause, Current, At
<1>7. MarkedForCause'
  BY <1>0 DEF MarkedForCause
<1> QED
  BY <1>2, <1>3, <1>4, <1>5, <1>6, <1>7 DEF IInv

\* EVE's answer reaches the call.
LEMMA AcceptFacts ==
    ASSUME IInv, NEW c \in Calls, Accept(c)
    PROVE  \E next \in {valid[Ref(c)], valid[Ref(c)] + 1} \cap Token :
             /\ valid' = [valid EXCEPT ![Ref(c)] = next]
             /\ After(c, "received", Ref(c))
             /\ calls'[c].next = next /\ calls'[c].token = calls[c].token
<1>1. PICK next \in {valid[Ref(c)], valid[Ref(c)] + 1} \cap Token :
         /\ valid' = [valid EXCEPT ![Ref(c)] = next]
         /\ calls' = [calls EXCEPT ![c].pc = "received", ![c].next = next]
  BY DEF Accept
<1> DEFINE new == [calls[c] EXCEPT !.pc = "received", !.next = next]
<1>2. calls[c] \in CallState /\ TypeOK
  BY DEF IInv, Types, TypeOK
<1>3. new \in CallState
  BY <1>2 DEF CallState, Pc
<1>4. /\ new.pc = "received" /\ new.reference = Ref(c)
      /\ new.next = next /\ new.token = calls[c].token
  BY <1>2 DEF CallState, Ref
<1>5. calls' = [calls EXCEPT ![c] = new]
  BY <1>1
<1> HIDE DEF new
<1>6. After(c, "received", Ref(c)) /\ calls'[c] = new
  BY <1>2, <1>3, <1>4, <1>5, RecordFacts
<1> QED
  BY <1>1, <1>4, <1>6

LEMMA RefreshingSteps ==
    ASSUME IInv, NEW c \in Calls,
           Reread(c) \/ Accept(c) \/ Keep(c) \/ ReplaceReads(c) \/ ReplaceWrites(c)
    PROVE  IInv'
<1>0. /\ TypeOK /\ calls[c] \in CallState /\ Holding(c)
      /\ Ref(c) \in References /\ Ref(c) # None /\ valid[Ref(c)] >= 1
      /\ UNCHANGED <<row, doomed, lease, history>>
      /\ UNCHANGED <<spoiled, overtaken>>
      /\ stored \in [References -> [held: BOOLEAN, token: Token, fresh: BOOLEAN]]
      /\ valid \in [References -> Token]
  BY StateFacts
     DEF IInv, Types, TypeOK, Issued, Named, Holding, Reread, Accept, Keep,
         ReplaceReads, ReplaceWrites, At, Pc, history
<1>a. ASSUME ~overtaken, NEW h \in References \ spoiled PROVE Known(h)
  BY <1>a DEF IInv, Tokens
<1>1. CASE Reread(c)
  <2>1. After(c, "refreshing", Ref(c)) /\ calls'[c].token = stored[Ref(c)].token
    BY <1>0, <1>1, TokenFacts DEF Reread, Pc
  <2>2. /\ UNCHANGED <<stored, valid>> /\ stored[Ref(c)].held
        /\ ~InFlight(c) /\ ~InFlight(c)'
    BY <1>1, <2>1 DEF Reread, NeedsRefresh, At, InFlight, After
  <2>3. ASSUME ~overtaken, NEW h \in References \ spoiled PROVE Known(h)'
    <3>1. CASE h = Ref(c)
      <4>1. stored[h].token = valid[h]
        BY <1>0, <2>2, <2>3, <3>1, LeaseAlone
      <4> QED
        BY <1>0, <2>1, <2>2, <2>3, <3>1, <4>1, KnownHere
    <3>2. CASE h # Ref(c)
      BY <1>a, <2>1, <2>2, <2>3, <3>2, KnownElsewhere
    <3> QED
      BY <3>1, <3>2
  <2>4. Tokens'
    BY <1>0, <2>3 DEF Tokens
  <2> QED
    BY <1>0, <2>1, <2>2, <2>4, RefreshStep
<1>2. CASE Accept(c)
  <2>1. PICK next \in {valid[Ref(c)], valid[Ref(c)] + 1} \cap Token :
             /\ valid' = [valid EXCEPT ![Ref(c)] = next]
             /\ After(c, "received", Ref(c))
             /\ calls'[c].next = next /\ calls'[c].token = calls[c].token
    BY <1>2, AcceptFacts
  <2>2. /\ UNCHANGED stored /\ ~InFlight(c) /\ InFlight(c)'
        /\ calls[c].token = valid[Ref(c)]
    BY <1>2, <2>1 DEF Accept, At, InFlight, After
  <2>3. /\ valid'[Ref(c)] = next /\ valid' \in [References -> Token]
        /\ \A g \in References \ {Ref(c)} : valid'[g] = valid[g]
        /\ next >= 1
    BY <1>0, <2>1, ParametersAssumption DEF Token
  <2>4. ASSUME ~overtaken, NEW h \in References \ spoiled PROVE Known(h)'
    <3>1. CASE h = Ref(c)
      <4>1. stored[h].held => stored[h].token = valid[h]
        BY <1>0, <2>2, <2>4, <3>1, LeaseAlone
      <4> QED
        BY <1>0, <2>1, <2>2, <2>3, <2>4, <3>1, <4>1, KnownHere
    <3>2. CASE h # Ref(c)
      BY <1>a, <2>1, <2>2, <2>3, <2>4, <3>2, KnownElsewhere
    <3> QED
      BY <3>1, <3>2
  <2>5. Tokens'
    BY <1>0, <2>4 DEF Tokens
  <2>6. \A g \in References : valid[g] >= 1 => valid'[g] >= 1
    BY <2>3
  <2> QED
    BY <1>0, <2>1, <2>2, <2>3, <2>5, <2>6, RefreshStep
<1>3. CASE Keep(c) \/ ReplaceReads(c)
  <2>1. PICK pc \in {"replacing", "writing"} : Goto(c, pc)
    BY <1>3 DEF Keep, ReplaceReads
  <2>2. /\ After(c, pc, Ref(c)) /\ calls'[c].next = calls[c].next
    BY <1>0, <2>1, GotoFacts DEF Pc
  <2>3. UNCHANGED <<stored, valid>> /\ InFlight(c) /\ InFlight(c)'
    BY <1>3, <2>1, <2>2 DEF Keep, ReplaceReads, At, InFlight, After
  <2>4. ASSUME ~overtaken, NEW h \in References \ spoiled PROVE Known(h)'
    <3>1. CASE h = Ref(c)
      <4>1. calls[c].next = valid[h]
        BY <1>a, <2>3, <2>4, <3>1 DEF Known
      <4> QED
        BY <1>0, <2>2, <2>3, <2>4, <3>1, <4>1, KnownHere
    <3>2. CASE h # Ref(c)
      BY <1>a, <2>2, <2>3, <2>4, <3>2, KnownElsewhere
    <3> QED
      BY <3>1, <3>2
  <2>5. Tokens'
    BY <1>0, <2>4 DEF Tokens
  <2> QED
    BY <1>0, <2>2, <2>3, <2>5, RefreshStep
<1>4. CASE ReplaceWrites(c)
  <2>1. /\ stored' = [stored EXCEPT ![Ref(c)] = Grant(calls[c].next)]
        /\ UNCHANGED valid /\ InFlight(c)
    BY <1>4 DEF ReplaceWrites, At, InFlight
  <2>2. After(c, "recording", Ref(c))
    BY <1>0, <1>4, IdleType, PlaceFacts DEF ReplaceWrites, Pc
  <2>3. ~InFlight(c)'
    BY <2>2 DEF After, InFlight
  <2>4. Grant(calls[c].next) \in [held: BOOLEAN, token: Token, fresh: BOOLEAN]
        /\ Grant(calls[c].next).held /\ Grant(calls[c].next).token = calls[c].next
    BY <1>0 DEF Grant, CallState
  <2>5. /\ stored' \in [References -> [held: BOOLEAN, token: Token, fresh: BOOLEAN]]
        /\ stored'[Ref(c)].held /\ stored'[Ref(c)].token = calls[c].next
        /\ \A g \in References \ {Ref(c)} : stored'[g] = stored[g]
    BY <1>0, <2>1, <2>4
  <2>6. ASSUME ~overtaken, NEW h \in References \ spoiled PROVE Known(h)'
    <3>1. CASE h = Ref(c)
      <4>1. calls[c].next = valid[h]
        BY <1>a, <2>1, <2>6, <3>1 DEF Known
      <4> QED
        BY <1>0, <2>1, <2>2, <2>3, <2>5, <2>6, <3>1, <4>1, KnownHere
    <3>2. CASE h # Ref(c)
      BY <1>a, <2>1, <2>2, <2>5, <2>6, <3>2, KnownElsewhere
    <3> QED
      BY <3>1, <3>2
  <2>7. Tokens'
    BY <1>0, <2>6 DEF Tokens
  <2>8. \A g \in References : stored[g].held => stored'[g].held
    BY <2>5
  <2> QED
    BY <1>0, <2>1, <2>2, <2>5, <2>7, <2>8, RefreshStep
<1> QED
  BY <1>1, <1>2, <1>3, <1>4

LEMMA ReplaceFailsStep ==
    ASSUME IInv, NEW c \in Calls, ReplaceFails(c)
    PROVE  IInv'
<1>1. /\ TypeOK /\ Holding(c) /\ Ref(c) \in References /\ Ref(c) # None /\ Mark(c)
      /\ spoiled' = spoiled \cup {Ref(c)} /\ calls[c] \in CallState
      /\ UNCHANGED <<doomed, valid, lease, overtaken, faults>>
  BY StateFacts DEF IInv, Types, TypeOK, ReplaceFails, Named, Holding, At, Pc
<1>2. After(c, "marking", Ref(c))
  BY <1>1, WindFacts DEF ReplaceFails, Pc
<1>3. StoreKept
  <2>1. CASE UNCHANGED stored
    BY <2>1, StoreSame
  <2>2. CASE stored' = [stored EXCEPT ![Ref(c)] = Grant(calls[c].next)]
    <3>1. Grant(calls[c].next) \in [held: BOOLEAN, token: Token, fresh: BOOLEAN]
          /\ Grant(calls[c].next).held
      BY <1>1 DEF Grant, CallState
    <3> QED
      BY <1>1, <2>2, <3>1 DEF TypeOK, StoreKept
  <2> QED
    BY <2>1, <2>2 DEF ReplaceFails
<1> QED
  BY <1>1, <1>2, <1>3, MarkStep

---------------------------------------------------------------------------
(* Around the calls *)

\* The calls stay what they are, but for whether they know of a lost lease.
SameCalls ==
    /\ calls' \in [Calls -> CallState]
    /\ \A d \in Calls : /\ calls'[d].pc = calls[d].pc
                        /\ calls'[d].reference = calls[d].reference
                        /\ calls'[d].token = calls[d].token
                        /\ calls'[d].next = calls[d].next

LEMMA CallsKept ==
    ASSUME IInv, UNCHANGED calls
    PROVE  SameCalls
BY DEF IInv, Types, TypeOK, SameCalls

\* A step around the calls: each family is kept, or is nobody's yet.
LEMMA AroundStep ==
    ASSUME IInv, SameCalls, TypeOK', lease'.owner = lease.owner,
           UNCHANGED <<spoiled, overtaken, stale>>,
           \A g \in References : valid[g] >= 1 => valid'[g] >= 1,
           row'.status # "absent" => valid'[row'.reference] >= 1,
           \A g \in doomed' : valid'[g] >= 1,
           Held', MarkedForCause',
           \A g \in References :
             \/ /\ valid'[g] = valid[g]
                /\ stored'[g].held => stored[g].held /\ stored'[g].token = stored[g].token
             \/ /\ \A c \in Calls : Ref(c) # g
                /\ stored'[g].held => stored'[g].token = valid'[g],
           \A g \in References : Current' /\ row'.reference = g
             => (Current /\ row.reference = g) \/ \A c \in Calls : Ref(c) # g
    PROVE  IInv'
<1>0. \A d \in Calls : /\ Ref(d)' = Ref(d) /\ (InFlight(d)' = InFlight(d))
                       /\ (Holding(d)' = Holding(d))
                       /\ calls'[d].pc = calls[d].pc
                       /\ calls'[d].token = calls[d].token
                       /\ calls'[d].next = calls[d].next
                       /\ Ref(d) \in References \cup {None}
  BY StateFacts DEF SameCalls, Ref, InFlight, Holding, IInv
<1>1. Types'
  BY <1>0 DEF Types, IInv, Named
<1>2. Issued'
  BY <1>0 DEF Issued, IInv
<1>3. Exclusive'
  BY <1>0 DEF Exclusive, IInv
<1>4. Tokens'
  <2>1. SUFFICES ASSUME ~overtaken, NEW h \in References \ spoiled PROVE Known(h)'
    BY DEF Tokens
  <2>2. Known(h)
    BY <2>1 DEF IInv, Tokens
  <2>3. CASE /\ valid'[h] = valid[h]
             /\ stored'[h].held => stored[h].held /\ stored'[h].token = stored[h].token
    <3>1. ASSUME NEW d \in Calls, Ref(d)' = h
          PROVE  /\ InFlight(d)' => calls'[d].next = valid'[h]
                 /\ calls'[d].pc = "refreshing" => calls'[d].token = valid'[h]
                 /\ calls'[d].pc = "received" /\ stored'[h].held
                    => stored'[h].token = calls'[d].token
      BY <1>0, <2>2, <2>3, <3>1 DEF Known, At
    <3>2. (\A d \in Calls : Ref(d)' = h => ~InFlight(d)')
          => (stored'[h].held => stored'[h].token = valid'[h])
      BY <1>0, <2>2, <2>3 DEF Known
    <3> QED
      BY <3>1, <3>2 DEF Known, At
  <2>4. CASE /\ \A c \in Calls : Ref(c) # h
             /\ stored'[h].held => stored'[h].token = valid'[h]
    BY <1>0, <2>4 DEF Known
  <2> QED
    BY <2>3, <2>4
<1>5. Caused'
  <2>1. ASSUME NEW d \in Calls, calls'[d].pc = "marking"
        PROVE  Cause(Ref(d))' \/ ~(Current' /\ row'.reference = Ref(d)')
    <3>1. Cause(Ref(d)) \/ ~(Current /\ row.reference = Ref(d))
      BY <1>0, <2>1 DEF IInv, Caused, At
    <3>2. Ref(d) \in References
      BY <1>0, <2>1, StateFacts DEF Named, IInv
    <3> QED
      BY <1>0, <3>1, <3>2 DEF Cause
  <2> QED
    BY <2>1 DEF Caused, At
<1> QED
  BY <1>1, <1>2, <1>3, <1>4, <1>5 DEF IInv

LEMMA LeaseSteps ==
    ASSUME IInv, (\E c \in Calls : Heartbeat(c)) \/ LeaseLapses
    PROVE  IInv'
<1>0. TypeOK /\ Issued /\ Held /\ MarkedForCause
  BY DEF IInv, Types
<1>1. ASSUME NEW c \in Calls, Heartbeat(c)
      PROVE  SameCalls /\ TypeOK' /\ lease'.owner = lease.owner
             /\ UNCHANGED <<row, stored, doomed, valid, spoiled, overtaken, stale>>
  <2>1. SameCalls
    <3>1. CASE calls' = calls
      BY <3>1, CallsKept
    <3>2. CASE calls' = [calls EXCEPT ![c].lost = (lease.owner # c)]
      <4>1. calls \in [Calls -> CallState] /\ (lease.owner # c) \in BOOLEAN
        BY <1>0 DEF TypeOK
      <4>2. \A d \in Calls : calls'[d] = IF d = c
              THEN [calls[c] EXCEPT !.lost = (lease.owner # c)] ELSE calls[d]
        BY <3>2, <4>1
      <4>3. [calls[c] EXCEPT !.lost = (lease.owner # c)] \in CallState
        BY <4>1 DEF CallState
      <4>4. calls' \in [Calls -> CallState]
        BY <3>2, <4>1, <4>3
      <4> QED
        BY <4>1, <4>2, <4>4 DEF SameCalls, CallState
    <3> QED
      BY <1>1, <3>1, <3>2 DEF Heartbeat
  <2>2. /\ lease' \in [owner: Calls \cup {None, Ghost}, lapsed: BOOLEAN]
        /\ lease'.owner = lease.owner
    BY <1>0, <1>1 DEF Heartbeat, TypeOK
  <2>3. UNCHANGED <<row, stored, doomed, valid, history>>
    BY <1>1 DEF Heartbeat
  <2>4. TypeOK'
    BY <1>0, <2>1, <2>2, <2>3 DEF TypeOK, SameCalls, history
  <2> QED
    BY <2>1, <2>2, <2>3, <2>4 DEF history
<1>2. ASSUME LeaseLapses
      PROVE  SameCalls /\ TypeOK' /\ lease'.owner = lease.owner
             /\ UNCHANGED <<row, stored, doomed, valid, spoiled, overtaken, stale>>
  <2>1. SameCalls
    BY <1>2, CallsKept DEF LeaseLapses
  <2>2. faults' \in 0..MaxFaults
    BY <1>0, <1>2, ParametersAssumption DEF LeaseLapses, TypeOK
  <2>3. /\ lease' \in [owner: Calls \cup {None, Ghost}, lapsed: BOOLEAN]
        /\ lease'.owner = lease.owner
    BY <1>0, <1>2 DEF LeaseLapses, TypeOK
  <2>4. UNCHANGED <<row, stored, doomed, valid, calls, spoiled, overtaken, stale>>
    BY <1>2 DEF LeaseLapses
  <2>5. TypeOK'
    BY <1>0, <2>2, <2>3, <2>4 DEF TypeOK
  <2> QED
    BY <2>1, <2>3, <2>4, <2>5
<1>3. SUFFICES ASSUME SameCalls, TypeOK', lease'.owner = lease.owner,
                  UNCHANGED <<row, stored, doomed, valid, spoiled, overtaken, stale>>
               PROVE  IInv'
  BY <1>1, <1>2
<1>4. Held' /\ MarkedForCause'
  BY <1>0, <1>3 DEF Held, Current, MarkedForCause
<1> QED
  BY <1>0, <1>3, <1>4, AroundStep DEF Issued, Current

LEMMA AuthorizeStep ==
    ASSUME IInv, NEW g \in References, Authorize(g)
    PROVE  IInv'
<1>0. /\ TypeOK /\ Issued /\ Held /\ valid[g] = 0
      /\ valid' = [valid EXCEPT ![g] = 1]
      /\ stored' = [stored EXCEPT ![g] = Grant(1)]
      /\ doomed' = doomed \cup ({row.reference} \ {None})
      /\ row' = [status |-> "connected", reference |-> g]
      /\ UNCHANGED <<lease, calls, history>>
  BY DEF IInv, Types, Authorize
<1>1. 1 \in Token /\ Grant(1) \in [held: BOOLEAN, token: Token, fresh: BOOLEAN]
      /\ Grant(1).held /\ Grant(1).token = 1
  BY ParametersAssumption DEF Token, Grant
<1>2. /\ valid' \in [References -> Token] /\ valid'[g] = 1
      /\ \A h \in References \ {g} : valid'[h] = valid[h]
      /\ stored' \in [References -> [held: BOOLEAN, token: Token, fresh: BOOLEAN]]
      /\ stored'[g] = Grant(1)
      /\ \A h \in References \ {g} : stored'[h] = stored[h]
  BY <1>0, <1>1 DEF TypeOK
<1>3. \A c \in Calls : Ref(c) # g
  BY <1>0, ParametersAssumption DEF Issued
<1>4. row.reference \in References \cup {None} /\ row.reference # g
      /\ (row.reference \in References => valid[row.reference] >= 1)
  BY <1>0, ParametersAssumption DEF TypeOK, NoRow, Issued
<1>5. doomed' \subseteq References /\ g \notin doomed'
      /\ \A h \in doomed' : valid[h] >= 1
  BY <1>0, <1>4 DEF TypeOK, Issued
<1>6. TypeOK'
  BY <1>0, <1>2, <1>5 DEF TypeOK, history
<1>7. Held' /\ MarkedForCause'
  BY <1>0, <1>1, <1>2, <1>5 DEF Held, Current, MarkedForCause
<1>8. \A h \in References : valid[h] >= 1 => valid'[h] >= 1
  BY <1>0, <1>2
<1>9. \A h \in doomed' : valid'[h] >= 1
  BY <1>5, <1>8
<1>10. SameCalls
  BY <1>0, CallsKept
<1>11. ASSUME NEW h \in References
       PROVE  \/ /\ valid'[h] = valid[h]
                 /\ stored'[h].held => stored[h].held /\ stored'[h].token = stored[h].token
              \/ /\ \A c \in Calls : Ref(c) # h
                 /\ stored'[h].held => stored'[h].token = valid'[h]
  BY <1>1, <1>2, <1>3
<1> QED
  BY <1>0, <1>2, <1>3, <1>6, <1>7, <1>8, <1>9, <1>10, <1>11, AroundStep DEF history

LEMMA StoreSteps ==
    ASSUME IInv, NEW g \in References, AccessExpires(g) \/ DeleteSecret(g)
    PROVE  IInv'
<1>0. /\ TypeOK /\ Issued /\ Held /\ MarkedForCause /\ SameCalls
      /\ UNCHANGED <<row, valid, lease, calls, history>>
      /\ Current => row.reference \in References
  BY CallsKept, StateFacts DEF IInv, Types, AccessExpires, DeleteSecret, TypeOK, Current, NoRow
<1>1. /\ stored' \in [References -> [held: BOOLEAN, token: Token, fresh: BOOLEAN]]
      /\ doomed' \subseteq doomed
      /\ \A h \in References : stored'[h].held => stored[h].held
                               /\ stored'[h].token = stored[h].token
      /\ \A h \in References : h = g \/ stored'[h] = stored[h]
      /\ stored[g].held => stored'[g].held \/ g \in doomed
  <2>1. CASE AccessExpires(g)
    BY <1>0, <2>1 DEF AccessExpires, TypeOK
  <2>2. CASE DeleteSecret(g)
    <3>1. 0 \in Token
      BY ParametersAssumption DEF Token
    <3>2. Erased \in [held: BOOLEAN, token: Token, fresh: BOOLEAN] /\ ~Erased.held
      BY <3>1 DEF Erased
    <3> QED
      BY <1>0, <2>2, <3>2 DEF DeleteSecret, TypeOK
  <2> QED
    BY <2>1, <2>2
<1>2. TypeOK'
  BY <1>0, <1>1 DEF TypeOK, history
<1>3. Held' /\ MarkedForCause'
  BY <1>0, <1>1 DEF Held, Current, MarkedForCause, history
<1> QED
  BY <1>0, <1>1, <1>2, <1>3, AroundStep DEF Issued, history, Current

LEMMA RemovalSteps ==
    ASSUME IInv, BeginRemoval \/ CompleteRemoval
    PROVE  IInv'
<1>0. /\ TypeOK /\ Issued /\ SameCalls
      /\ UNCHANGED <<stored, valid, lease, calls, history>>
  BY CallsKept DEF IInv, Types, BeginRemoval, CompleteRemoval
<1>1. CASE BeginRemoval
  <2>1. row.reference \in References /\ valid[row.reference] >= 1
    BY <1>0, <1>1 DEF BeginRemoval, TypeOK, Issued, NoRow
  <2>2. /\ row' = [row EXCEPT !.status = "removal_pending"]
        /\ doomed' = doomed \cup {row.reference} /\ row.status # "absent"
    BY <1>1 DEF BeginRemoval
  <2>3. /\ row' \in Row /\ row'.status = "removal_pending"
        /\ row'.reference = row.reference
    BY <1>0, <2>1, <2>2 DEF TypeOK, Row, NoRow
  <2>4. TypeOK'
    BY <1>0, <2>1, <2>2, <2>3 DEF TypeOK, history, Row
  <2>5. Held' /\ MarkedForCause' /\ ~Current'
    BY <2>3 DEF Held, Current, MarkedForCause
  <2> QED
    BY <1>0, <2>1, <2>2, <2>3, <2>4, <2>5, AroundStep DEF Issued, history
<1>2. CASE CompleteRemoval
  <2>1. row' = NoRow /\ UNCHANGED doomed
    BY <1>2 DEF CompleteRemoval
  <2>2. row'.status = "absent"
    BY <2>1 DEF NoRow
  <2>3. TypeOK'
    BY <1>0, <2>1 DEF TypeOK, history
  <2>4. Held' /\ MarkedForCause' /\ ~Current'
    BY <2>2 DEF Held, Current, MarkedForCause
  <2> QED
    BY <1>0, <2>1, <2>2, <2>3, <2>4, AroundStep DEF Issued, history
<1> QED
  BY <1>1, <1>2

---------------------------------------------------------------------------
(* The theorems *)

LEMMA NextStep == IInv /\ [Next]_vars => IInv'
<1> SUFFICES ASSUME IInv, [Next]_vars PROVE IInv'
  OBVIOUS
<1>1. ASSUME NEW c \in Calls, Start(c) \/ Proceed(c) \/ Heartbeat(c) \/ Die(c)
      PROVE  IInv'
  BY <1>1, ReadingSteps, AcquireStep, LookingSteps, MarkingSteps, EndingSteps,
     RefreshingSteps, ReplaceFailsStep, LeaseSteps DEF Proceed
<1>2. ASSUME NEW g \in References, Environment(g) PROVE IInv'
  BY <1>2, AuthorizeStep, StoreSteps DEF Environment
<1>3. CASE LeaseLapses \/ BeginRemoval \/ CompleteRemoval
  BY <1>3, LeaseSteps, RemovalSteps
<1>4. CASE UNCHANGED vars
  BY <1>4 DEF vars, history, IInv, Types, TypeOK, Named, Issued, Held, Current,
     Exclusive, Holding, Tokens, Known, InFlight, Caused, Cause, MarkedForCause,
     Ref, At
<1> QED
  BY <1>1, <1>2, <1>3, <1>4 DEF Next

\* The inductive invariant holds of every run.
THEOREM InductiveInvariant == Spec => []IInv
BY Initially, NextStep, PTL DEF Spec

\* Every variable has its type.
THEOREM TypeCorrect == Spec => []TypeOK
<1>1. IInv => TypeOK
  BY DEF IInv, Types
<1> QED
  BY <1>1, InductiveInvariant, PTL

\* A spent refresh token is shown to EVE only after a refresh failed half-way
\* or a lease was taken over.
THEOREM SpentTokensStay == Spec => []SpentTokenNotShown
<1>1. IInv => SpentTokenNotShown
  <2>1. SUFFICES ASSUME IInv, NEW c \in Calls, At(c, "refreshing"),
                        calls[c].token # valid[Ref(c)],
                        Ref(c) \notin spoiled, ~overtaken
                 PROVE  FALSE
    BY DEF SpentTokenNotShown
  <2>2. Ref(c) \in References
    BY <2>1, StateFacts DEF IInv, Named, At
  <2> QED
    BY <2>1, <2>2 DEF IInv, Tokens, Known
<1> QED
  BY <1>1, InductiveInvariant, PTL

\* The newest refresh token of a connected character is in the store.
THEOREM NewestTokensAreKept == Spec => []NewestTokenKept
<1>1. IInv => NewestTokenKept
  <2>1. SUFFICES ASSUME IInv, row.status = "connected", ~overtaken,
                        row.reference \notin spoiled,
                        \A c \in Calls : Ref(c) = row.reference => ~InFlight(c)
                 PROVE  /\ stored[row.reference].held
                        /\ stored[row.reference].token = valid[row.reference]
    BY DEF NewestTokenKept, InFlight
  <2>2. row.reference \in References /\ stored[row.reference].held
    BY <2>1 DEF IInv, Types, TypeOK, NoRow, Held, Current
  <2> QED
    BY <2>1, <2>2 DEF IInv, Tokens, Known
<1> QED
  BY <1>1, InductiveInvariant, PTL

\* A character is asked to authorize again for one of three causes only.
THEOREM MarksHaveCauses == Spec => []MarkedForCause
<1>1. IInv => MarkedForCause
  BY DEF IInv
<1> QED
  BY <1>1, InductiveInvariant, PTL

=============================================================================
