------------------------- MODULE CharacterGrantProofs -------------------------
(***************************************************************************)
(* Proofs about CharacterGrant, for any number of sessions, callbacks,     *)
(* disconnect calls and credential references; and about CallbackListener, *)
(* which brings it its callbacks, for any sets of processes and calls and  *)
(* any bounds.                                                             *)
(***************************************************************************)
EXTENDS CharacterGrant, CallbackListener, TLAPS

Busy(k) == callbacks[k].pc # "idle"

\* Which fields of the local states are in use.
Placed ==
    /\ \A k \in Callbacks :
         /\ callbacks[k].session \in Sessions <=> Busy(k)
         /\ callbacks[k].reference # None
              <=> callbacks[k].pc \in {"created", "discarding"}
         /\ callbacks[k].previous # None <=> callbacks[k].pc = "replaced"
         /\ callbacks[k].pc = "creating" => callbacks[k].generation # 0
    /\ \A r \in Removers :
         removers[r].pc = "deleting" => removers[r].reference # None

Types == TypeOK /\ Placed

\* A session that is still being opened has no status, and its verifier is in
\* nobody's hands.
Unopened ==
    \A s \in Sessions : openers[s].pc # "done" =>
      sessions[s].status = "none" /\ s \notin queue

\* No callback has had a session before it is consumed.
Unused ==
    \A s \in Sessions : sessions[s].status \in {"none", "required"} =>
      /\ exchanges[s] = 0 /\ s \notin persisted /\ s \notin expiring
      /\ \A k \in Callbacks : Busy(k) => callbacks[k].session # s
      /\ sessions[s].status = "required" => s \in stored /\ s \notin queue

OneCallback ==
    \A k, l \in Callbacks :
      k # l /\ Busy(k) /\ Busy(l) => callbacks[k].session # callbacks[l].session

\* What a callback's stage says of its session.
Stage ==
    \A k \in Callbacks :
      LET s == callbacks[k].session IN
      /\ callbacks[k].pc \in {"verifying", "exchanging"} => exchanges[s] = 0
      /\ callbacks[k].pc \in {"verifying", "exchanging", "creating", "created",
                              "discarding"} => s \notin persisted
      /\ callbacks[k].pc \in {"replaced", "persisted"} => s \in persisted
      /\ callbacks[k].pc \notin {"idle", "cleaning"}
           => sessions[s].status \in {"pending", "expired"}

ExpiringIsExpired == \A s \in expiring : sessions[s].status = "expired"

SessionInv ==
    Unopened /\ Unused /\ OneCallback /\ Stage /\ ExpiringIsExpired
      /\ ExchangedOnce /\ HonestSession

\* A reference somebody names was produced before: the next one is new.
Known ==
    \A g \in References :
      \/ g = row.reference \/ g \in queue \/ g \in stored
      \/ \E k \in Callbacks : g \in {callbacks[k].reference, callbacks[k].previous}
      \/ \E r \in Removers : g = removers[r].reference
      => written[g] # 0

\* g is there, and nobody is about to delete it.
Safe(g) ==
    /\ g \in stored /\ g \notin queue
    /\ \A k \in Callbacks : callbacks[k].previous # g
    /\ \A r \in Removers : removers[r].reference # g

\* A grant that waits to be persisted, and the one a usable row names.
Created ==
    \A k \in Callbacks : callbacks[k].pc = "created" =>
      /\ Safe(callbacks[k].reference) /\ callbacks[k].reference # row.reference
      /\ \A l \in Callbacks \ {k} :
           callbacks[l].reference # callbacks[k].reference

Current ==
    row.status = "connected" =>
      /\ Safe(row.reference)
      /\ \A k \in Callbacks : callbacks[k].reference # row.reference

ReferenceInv == Known /\ Created /\ Current

IInv == Types /\ SessionInv /\ ReferenceInv /\ NothingLeaks


---------------------------------------------------------------------------
(* Facts the steps share *)

\* Callback k goes to another stage; the others stay where they are.
Moves(k, pc, s, g, h) ==
    /\ callbacks' \in [Callbacks -> CallbackState]
    /\ callbacks'[k].pc = pc /\ callbacks'[k].session = s
    /\ callbacks'[k].reference = g /\ callbacks'[k].previous = h
    /\ \A l \in Callbacks \ {k} : callbacks'[l] = callbacks[l]

\* The same with the parts the invariant looks at.
Stays(k, pc) ==
    Moves(k, pc, callbacks[k].session, callbacks[k].reference,
          callbacks[k].previous)

LEMMA RecordMoves ==
    ASSUME TypeOK, NEW k \in Callbacks, NEW new \in CallbackState,
           callbacks' = [callbacks EXCEPT ![k] = new],
           NEW pc, NEW s, NEW g, NEW h,
           new.pc = pc, new.session = s, new.reference = g, new.previous = h
    PROVE  Moves(k, pc, s, g, h)
<1>1. callbacks \in [Callbacks -> CallbackState]
  BY DEF TypeOK
<1> HIDE DEF CallbackState
<1> QED
  BY <1>1 DEF Moves

LEMMA HoldingIs ==
    ASSUME NEW pc, NEW s, NEW g, NEW h
    PROVE  LET b == Holding(pc, s, g, h) IN
           b.pc = pc /\ b.session = s /\ b.reference = g /\ b.previous = h
  BY DEF Holding

LEMMA HoldingType ==
    ASSUME NEW pc \in {"idle", "verifying", "discarding", "replaced",
                       "persisted", "cleaning"},
           NEW s \in Sessions \cup {None}, NEW g \in References \cup {None},
           NEW h \in References \cup {None}
    PROVE  Holding(pc, s, g, h) \in CallbackState
  BY ParametersAssumption DEF Holding, CallbackState

LEMMA CallbackFields ==
    ASSUME TypeOK, NEW k \in Callbacks
    PROVE  /\ callbacks[k] \in CallbackState
           /\ callbacks[k].session \in Sessions \cup {None}
           /\ callbacks[k].reference \in References \cup {None}
           /\ callbacks[k].previous \in References \cup {None}
<1>1. callbacks[k] \in CallbackState
  <2> HIDE DEF CallbackState
  <2> QED BY DEF TypeOK
<1> QED
  BY <1>1 DEF CallbackState

\* What a step that sets one field of a callback does.
LEMMA CallbackAtMoves ==
    ASSUME NEW k \in Callbacks,
           NEW pc \in {"exchanging", "created", "discarding"},
           TypeOK, CallbackAt(k, pc)
    PROVE  Stays(k, pc)
<1> DEFINE b == [callbacks[k] EXCEPT !.pc = pc]
<1>1. callbacks[k] \in CallbackState
  BY CallbackFields
<1>2. /\ b \in CallbackState /\ b.pc = pc /\ b.session = callbacks[k].session
      /\ b.reference = callbacks[k].reference
      /\ b.previous = callbacks[k].previous
  BY <1>1 DEF CallbackState
<1>3. callbacks' = [callbacks EXCEPT ![k] = b]
  BY DEF CallbackAt
<1> HIDE DEF b
<1> QED
  BY <1>2, <1>3, RecordMoves DEF Stays

LEMMA CallbackKeepsMoves ==
    ASSUME NEW k \in Callbacks, TypeOK,
           NEW pc \in {"discarding", "replaced", "persisted", "cleaning"},
           NEW g \in References \cup {None}, NEW h \in References \cup {None},
           CallbackKeeps(k, pc, g, h)
    PROVE  Moves(k, pc, callbacks[k].session, g, h)
<1> DEFINE b == Holding(pc, callbacks[k].session, g, h)
<1>1. b \in CallbackState
  BY CallbackFields, HoldingType
<1>2. /\ b.pc = pc /\ b.session = callbacks[k].session
      /\ b.reference = g /\ b.previous = h
  BY HoldingIs
<1>3. callbacks' = [callbacks EXCEPT ![k] = b]
  BY DEF CallbackKeeps
<1> HIDE DEF b
<1> QED
  BY <1>1, <1>2, <1>3, RecordMoves

LEMMA CleanMoves ==
    ASSUME NEW k \in Callbacks, TypeOK,
           callbacks' = [callbacks EXCEPT ![k] = IdleCallback]
    PROVE  Moves(k, "idle", None, None, None)
<1>1. IdleCallback \in CallbackState
  BY HoldingType DEF IdleCallback
<1>2. /\ IdleCallback.pc = "idle" /\ IdleCallback.session = None
      /\ IdleCallback.reference = None /\ IdleCallback.previous = None
  BY HoldingIs DEF IdleCallback
<1> QED
  BY <1>1, <1>2, RecordMoves

LEMMA SetTerminalIs ==
    ASSUME NEW s \in Sessions, NEW from, NEW status, TypeOK,
           SetTerminal(s, from, status), status \in Terminal
    PROVE  /\ sessions' \in [Sessions ->
                [status: {"none", "required", "pending"} \cup Terminal,
                 reauthorize: BOOLEAN]]
           /\ sessions'[s].status = IF sessions[s].status = from THEN status
                                    ELSE sessions[s].status
           /\ \A t \in Sessions \ {s} : sessions'[t] = sessions[t]
  BY DEF TypeOK, SetTerminal

\* A secret is deleted or queued.
LEMMA DeleteOrQueueIs ==
    ASSUME NEW x, DeleteOrQueue(x)
    PROVE  /\ stored' \subseteq stored
           /\ queue' \subseteq queue \cup {x}
           /\ queue \subseteq queue'
           /\ \A y \in stored : y \in stored' \/ y = x
           /\ x \in stored' => x \in queue'
  BY DEF DeleteOrQueue

LEMMA Ranges ==
    ASSUME IInv
    PROVE  /\ expiring \subseteq Sessions
           /\ \A k \in Callbacks : callbacks[k].pc # "idle"
                => callbacks[k].session \in Sessions
  BY DEF IInv, Types, TypeOK, Placed, Busy

\* Verifiers and grants are named apart.
LEMMA NotASession ==
    ASSUME IInv, NEW s \in Sessions
    PROVE  /\ row.reference # s
           /\ \A k \in Callbacks :
                callbacks[k].reference # s /\ callbacks[k].previous # s
           /\ \A r \in Removers : removers[r].reference # s
<1>1. \A k \in Callbacks :
        /\ callbacks[k].reference \in References \cup {None}
        /\ callbacks[k].previous \in References \cup {None}
  BY CallbackFields DEF IInv, Types
<1>2. \A r \in Removers : removers[r].reference \in References \cup {None}
  BY DEF IInv, Types, TypeOK
<1>3. row.reference \in References \cup {None}
  BY DEF IInv, Types, TypeOK, NoRow
<1> QED
  BY <1>1, <1>2, <1>3, ParametersAssumption

---------------------------------------------------------------------------
(* Opening a session *)

SessionType ==
    [Sessions -> [status: {"none", "required", "pending"} \cup Terminal,
                  reauthorize: BOOLEAN]]

OpenerType ==
    [Sessions -> [pc: {"idle", "checked", "dropping", "done"},
                  reauthorize: BOOLEAN]]

\* An opening call goes to another stage.
Opens(s, pc) ==
    /\ openers' \in OpenerType /\ openers'[s].pc = pc
    /\ \A t \in Sessions \ {s} : openers'[t] = openers[t]

LEMMA OpenedMoves ==
    ASSUME TypeOK, NEW s \in Sessions, openers' = [openers EXCEPT ![s] = Opened]
    PROVE  Opens(s, "done")
  BY DEF TypeOK, Opens, OpenerType, Opened

LEMMA OpenCheckStep ==
    ASSUME IInv, NEW s \in Sessions, NEW reauthorize \in BOOLEAN,
           OpenCheck(s, reauthorize)
    PROVE  IInv'
<1>1. Opens(s, "checked") /\ openers[s].pc = "idle"
  BY DEF OpenCheck, IInv, Types, TypeOK, Opens, OpenerType
<1>2. UNCHANGED <<row, sessions, queue, stored, written, callbacks, removers,
                  expiring, persisted, exchanges, abandoned, deaths>>
  BY DEF OpenCheck, rows, notes
<1>3. Types'
  BY <1>1, <1>2 DEF IInv, Types, TypeOK, Placed, Busy, Opens, OpenerType
<1>4. SessionInv'
  <2>1. Unopened'
    BY <1>1, <1>2, Ranges DEF IInv, SessionInv, Unopened, Unused, Busy,
      Opens
  <2>2. Unused'
    BY <1>1, <1>2, Ranges DEF IInv, SessionInv, Unused, Unopened,
      ExpiringIsExpired, Busy, Opens
  <2>3. OneCallback'
    BY <1>1, <1>2, Ranges DEF IInv, SessionInv, OneCallback, Unused, Busy,
      Opens
  <2>4. Stage'
    BY <1>1, <1>2, Ranges DEF IInv, SessionInv, Stage, Unused, OneCallback,
      HonestSession, Busy, Opens
  <2>5. ExpiringIsExpired'
    BY <1>1, <1>2, Ranges DEF IInv, SessionInv, ExpiringIsExpired, Unused,
      Busy, Opens
  <2>6. ExchangedOnce'
    BY <1>1, <1>2, Ranges DEF IInv, SessionInv, ExchangedOnce, Stage,
      Unused, Busy, Opens
  <2>7. HonestSession'
    BY <1>1, <1>2, Ranges DEF IInv, SessionInv, HonestSession, Stage,
      Unused, Busy, Opens
  <2> QED
    BY <2>1, <2>2, <2>3, <2>4, <2>5, <2>6, <2>7 DEF SessionInv
<1>5. ReferenceInv'
  BY <1>2 DEF IInv, ReferenceInv, Known, Created, Current, Safe
<1>6. NothingLeaks'
  BY <1>1, <1>2 DEF IInv, NothingLeaks, HasOwner, Owes, Opens
<1> QED
  BY <1>3, <1>4, <1>5, <1>6 DEF IInv

LEMMA CreateSessionStep ==
    ASSUME IInv, NEW s \in Sessions, CreateSession(s)
    PROVE  IInv'
<1>1. /\ openers[s].pc = "checked" /\ stored' = stored \cup {s}
      /\ UNCHANGED <<row, queue, written, callbacks, removers, expiring,
                     persisted, exchanges, abandoned, deaths>>
  BY DEF CreateSession, notes
<1>2. sessions[s].status = "none" /\ s \notin queue
  BY <1>1 DEF IInv, SessionInv, Unopened
<1>3. /\ \/ Opens(s, "done") /\ sessions'[s].status = "required"
         \/ Opens(s, "dropping") /\ sessions'[s].status = "none"
      /\ sessions' \in SessionType
      /\ \A t \in Sessions \ {s} : sessions'[t] = sessions[t]
  <2>1. sessions \in SessionType /\ openers \in OpenerType
    BY DEF IInv, Types, TypeOK, SessionType, OpenerType
  <2>2. CASE /\ sessions' = [sessions EXCEPT ![s] =
                               [status |-> "required",
                                reauthorize |-> openers[s].reauthorize]]
             /\ openers' = [openers EXCEPT ![s] = Opened]
    BY <2>1, <2>2, OpenedMoves DEF SessionType, OpenerType, IInv, Types
  <2>3. CASE /\ openers' = [openers EXCEPT ![s].pc = "dropping"]
             /\ UNCHANGED sessions
    BY <1>2, <2>1, <2>3 DEF Opens, OpenerType
  <2> QED
    BY <2>2, <2>3 DEF CreateSession
<1>4. Types'
  BY <1>1, <1>3
     DEF IInv, Types, TypeOK, Placed, Busy, Secrets, SessionType, OpenerType, Opens
<1>5. SessionInv'
  <2>1. Unopened'
    BY <1>1, <1>2, <1>3, Ranges DEF IInv, SessionInv, Unopened, Unused,
      Busy, Opens
  <2>2. Unused'
    BY <1>1, <1>2, <1>3, Ranges DEF IInv, SessionInv, Unused, Unopened,
      ExpiringIsExpired, Busy, Opens
  <2>3. OneCallback'
    BY <1>1, <1>2, <1>3, Ranges DEF IInv, SessionInv, OneCallback, Unused,
      Busy, Opens
  <2>4. Stage'
    BY <1>1, <1>2, <1>3, Ranges DEF IInv, SessionInv, Stage, Unused,
      OneCallback, HonestSession, Busy, Opens
  <2>5. ExpiringIsExpired'
    BY <1>1, <1>2, <1>3, Ranges DEF IInv, SessionInv, ExpiringIsExpired,
      Unused, Busy, Opens
  <2>6. ExchangedOnce'
    BY <1>1, <1>2, <1>3, Ranges DEF IInv, SessionInv, ExchangedOnce, Stage,
      Unused, Busy, Opens
  <2>7. HonestSession'
    BY <1>1, <1>2, <1>3, Ranges DEF IInv, SessionInv, HonestSession, Stage,
      Unused, Busy, Opens
  <2> QED
    BY <2>1, <2>2, <2>3, <2>4, <2>5, <2>6, <2>7 DEF SessionInv
<1>6. ReferenceInv'
  <2>1. Known'
    BY <1>1, ParametersAssumption DEF IInv, ReferenceInv, Known, Created,
      Current, Safe
  <2>2. Created'
    BY <1>1, ParametersAssumption DEF IInv, ReferenceInv, Known, Created,
      Current, Safe
  <2>3. Current'
    BY <1>1, ParametersAssumption DEF IInv, ReferenceInv, Known, Created,
      Current, Safe
  <2> QED
    BY <2>1, <2>2, <2>3 DEF ReferenceInv
<1>7. NothingLeaks'
  BY <1>1, <1>2, <1>3 DEF IInv, NothingLeaks, HasOwner, Owes, Opens
<1> QED
  BY <1>4, <1>5, <1>6, <1>7 DEF IInv

LEMMA DropVerifierStep ==
    ASSUME IInv, NEW s \in Sessions, DropVerifier(s)
    PROVE  IInv'
<1>1. /\ openers[s].pc = "dropping"
      /\ stored' \subseteq stored /\ queue' \subseteq queue \cup {s}
      /\ queue \subseteq queue'
      /\ s \in stored' => s \in queue'
      /\ \A y \in stored : y \in stored' \/ y = s
      /\ UNCHANGED <<row, sessions, written, callbacks, removers, expiring,
                     persisted, exchanges, abandoned, deaths>>
  BY DeleteOrQueueIs DEF DropVerifier, notes
<1>2. Opens(s, "done")
  BY OpenedMoves DEF DropVerifier, IInv, Types
<1>3. sessions[s].status = "none"
  BY <1>1 DEF IInv, SessionInv, Unopened
<1>4. Types'
  BY <1>1, <1>2
     DEF IInv, Types, TypeOK, Placed, Busy, Secrets, OpenerType, Opens
<1>5. SessionInv'
  <2>1. Unopened'
    BY <1>1, <1>2, <1>3, Ranges DEF IInv, SessionInv, Unopened, Unused,
      Busy, Opens
  <2>2. Unused'
    BY <1>1, <1>2, <1>3, Ranges DEF IInv, SessionInv, Unused, Unopened,
      ExpiringIsExpired, Busy, Opens
  <2>3. OneCallback'
    BY <1>1, <1>2, <1>3, Ranges DEF IInv, SessionInv, OneCallback, Unused,
      Busy, Opens
  <2>4. Stage'
    BY <1>1, <1>2, <1>3, Ranges DEF IInv, SessionInv, Stage, Unused,
      OneCallback, HonestSession, Busy, Opens
  <2>5. ExpiringIsExpired'
    BY <1>1, <1>2, <1>3, Ranges DEF IInv, SessionInv, ExpiringIsExpired,
      Unused, Busy, Opens
  <2>6. ExchangedOnce'
    BY <1>1, <1>2, <1>3, Ranges DEF IInv, SessionInv, ExchangedOnce, Stage,
      Unused, Busy, Opens
  <2>7. HonestSession'
    BY <1>1, <1>2, <1>3, Ranges DEF IInv, SessionInv, HonestSession, Stage,
      Unused, Busy, Opens
  <2> QED
    BY <2>1, <2>2, <2>3, <2>4, <2>5, <2>6, <2>7 DEF SessionInv
<1>6. ReferenceInv'
  <2>1. Known'
    BY <1>1, NotASession, ParametersAssumption DEF IInv, ReferenceInv,
      Known, Created, Current, Safe
  <2>2. Created'
    BY <1>1, NotASession, ParametersAssumption DEF IInv, ReferenceInv,
      Known, Created, Current, Safe
  <2>3. Current'
    BY <1>1, NotASession, ParametersAssumption DEF IInv, ReferenceInv,
      Known, Created, Current, Safe
  <2> QED
    BY <2>1, <2>2, <2>3 DEF ReferenceInv
<1>7. NothingLeaks'
  <2> SUFFICES ASSUME NEW x \in stored', x \notin abandoned'
               PROVE  HasOwner(x)'
    BY DEF NothingLeaks
  <2>1. x \in stored /\ HasOwner(x)
    BY <1>1, <1>2 DEF IInv, NothingLeaks
  <2>2. CASE x = s
    BY <1>1, <1>2, <2>2 DEF HasOwner
  <2>3. CASE x # s
    BY <1>1, <1>2, <2>1, <2>3 DEF HasOwner, Owes, Opens
  <2> QED
    BY <2>2, <2>3
<1> QED
  BY <1>4, <1>5, <1>6, <1>7 DEF IInv

LEMMA AbandonOpeningStep ==
    ASSUME IInv, NEW s \in Sessions, AbandonOpening(s)
    PROVE  IInv'
<1>1. /\ openers[s].pc = "dropping"
      /\ deaths < MaxDeaths /\ deaths' = deaths + 1
      /\ abandoned' = abandoned \cup ({s} \cap stored)
      /\ UNCHANGED <<row, sessions, queue, stored, written, callbacks, removers,
                     expiring, persisted, exchanges>>
  BY DEF AbandonOpening, Die, rows
<1>2. Opens(s, "done")
  BY OpenedMoves DEF AbandonOpening, IInv, Types
<1>3. sessions[s].status = "none"
  BY <1>1 DEF IInv, SessionInv, Unopened
<1>4. Types'
  BY <1>1, <1>2, ParametersAssumption
     DEF IInv, Types, TypeOK, Placed, Busy, Secrets, OpenerType, Opens
<1>5. SessionInv'
  <2>1. Unopened'
    BY <1>1, <1>2, <1>3, Ranges DEF IInv, SessionInv, Unopened, Unused,
      Busy, Opens
  <2>2. Unused'
    BY <1>1, <1>2, <1>3, Ranges DEF IInv, SessionInv, Unused, Unopened,
      ExpiringIsExpired, Busy, Opens
  <2>3. OneCallback'
    BY <1>1, <1>2, <1>3, Ranges DEF IInv, SessionInv, OneCallback, Unused,
      Busy, Opens
  <2>4. Stage'
    BY <1>1, <1>2, <1>3, Ranges DEF IInv, SessionInv, Stage, Unused,
      OneCallback, HonestSession, Busy, Opens
  <2>5. ExpiringIsExpired'
    BY <1>1, <1>2, <1>3, Ranges DEF IInv, SessionInv, ExpiringIsExpired,
      Unused, Busy, Opens
  <2>6. ExchangedOnce'
    BY <1>1, <1>2, <1>3, Ranges DEF IInv, SessionInv, ExchangedOnce, Stage,
      Unused, Busy, Opens
  <2>7. HonestSession'
    BY <1>1, <1>2, <1>3, Ranges DEF IInv, SessionInv, HonestSession, Stage,
      Unused, Busy, Opens
  <2> QED
    BY <2>1, <2>2, <2>3, <2>4, <2>5, <2>6, <2>7 DEF SessionInv
<1>6. ReferenceInv'
  <2>1. Known'
    BY <1>1 DEF IInv, ReferenceInv, Known, Created, Current, Safe
  <2>2. Created'
    BY <1>1 DEF IInv, ReferenceInv, Known, Created, Current, Safe
  <2>3. Current'
    BY <1>1 DEF IInv, ReferenceInv, Known, Created, Current, Safe
  <2> QED
    BY <2>1, <2>2, <2>3 DEF ReferenceInv
<1>7. NothingLeaks'
  BY <1>1, <1>2, <1>3 DEF IInv, NothingLeaks, HasOwner, Owes, Opens
<1> QED
  BY <1>4, <1>5, <1>6, <1>7 DEF IInv

---------------------------------------------------------------------------
(* The cleanup queue, expiry and cancellation *)

\* A queued secret belongs to no open session and to no row in use.
LEMMA DrainStep ==
    ASSUME IInv, NEW x \in Secrets, Drain(x)
    PROVE  IInv'
<1>1. /\ x \in queue /\ stored' = stored \ {x} /\ queue' = queue \ {x}
      /\ UNCHANGED <<row, sessions, written, openers, callbacks, removers,
                     expiring, persisted, exchanges, abandoned, deaths>>
  BY DEF Drain, calls, notes
<1>2. Types'
  BY <1>1 DEF IInv, Types, TypeOK, Placed, Busy
<1>3. SessionInv'
  <2>1. Unopened'
    BY <1>1, Ranges DEF IInv, SessionInv, Unopened, Unused, Busy
  <2>2. Unused'
    BY <1>1, Ranges DEF IInv, SessionInv, Unused, Unopened,
      ExpiringIsExpired, Busy
  <2>3. OneCallback'
    BY <1>1, Ranges DEF IInv, SessionInv, OneCallback, Unused, Busy
  <2>4. Stage'
    BY <1>1, Ranges DEF IInv, SessionInv, Stage, Unused, OneCallback,
      HonestSession, Busy
  <2>5. ExpiringIsExpired'
    BY <1>1, Ranges DEF IInv, SessionInv, ExpiringIsExpired, Unused, Busy
  <2>6. ExchangedOnce'
    BY <1>1, Ranges DEF IInv, SessionInv, ExchangedOnce, Stage, Unused, Busy
  <2>7. HonestSession'
    BY <1>1, Ranges DEF IInv, SessionInv, HonestSession, Stage, Unused, Busy
  <2> QED
    BY <2>1, <2>2, <2>3, <2>4, <2>5, <2>6, <2>7 DEF SessionInv
<1>4. ReferenceInv'
  <2>1. Known'
    BY <1>1 DEF IInv, ReferenceInv, Known, Created, Current, Safe
  <2>2. Created'
    BY <1>1 DEF IInv, ReferenceInv, Known, Created, Current, Safe
  <2>3. Current'
    BY <1>1 DEF IInv, ReferenceInv, Known, Created, Current, Safe
  <2> QED
    BY <2>1, <2>2, <2>3 DEF ReferenceInv
<1>5. NothingLeaks'
  BY <1>1 DEF IInv, NothingLeaks, HasOwner, Owes
<1> QED
  BY <1>2, <1>3, <1>4, <1>5 DEF IInv

\* Sessions expire; the callbacks that complete them go on.
LEMMA ExpireStep ==
    ASSUME IInv, NEW over \in SUBSET Sessions, Expire(over)
    PROVE  IInv'
<1>1. /\ \A s \in over : sessions[s].status \in {"required", "pending"}
      /\ expiring' = expiring \cup over
      /\ UNCHANGED <<row, queue, stored, written, openers, callbacks, removers,
                     persisted, exchanges, abandoned, deaths>>
  BY DEF Expire, notes
<1>2. /\ sessions' \in SessionType
      /\ \A s \in over : sessions'[s].status = "expired"
      /\ \A s \in Sessions \ over : sessions'[s] = sessions[s]
  <2>1. sessions \in SessionType
    BY DEF IInv, Types, TypeOK, SessionType
  <2> QED
    BY <2>1 DEF Expire, SessionType, Terminal
<1>3. Types'
  BY <1>1, <1>2 DEF IInv, Types, TypeOK, Placed, Busy, SessionType
<1>4. SessionInv'
  <2>1. Unopened'
    BY <1>1, <1>2, Ranges DEF IInv, SessionInv, Unopened, Unused, Busy
  <2>2. Unused'
    BY <1>1, <1>2, Ranges DEF IInv, SessionInv, Unused, Unopened,
      ExpiringIsExpired, Busy
  <2>3. OneCallback'
    BY <1>1, <1>2, Ranges DEF IInv, SessionInv, OneCallback, Unused, Busy
  <2>4. Stage'
    BY <1>1, <1>2, Ranges DEF IInv, SessionInv, Stage, Unused, OneCallback,
      HonestSession, Busy
  <2>5. ExpiringIsExpired'
    BY <1>1, <1>2, Ranges DEF IInv, SessionInv, ExpiringIsExpired, Unused,
      Busy
  <2>6. ExchangedOnce'
    BY <1>1, <1>2, Ranges DEF IInv, SessionInv, ExchangedOnce, Stage,
      Unused, Busy
  <2>7. HonestSession'
    BY <1>1, <1>2, Ranges DEF IInv, SessionInv, HonestSession, Stage,
      Unused, Busy
  <2> QED
    BY <2>1, <2>2, <2>3, <2>4, <2>5, <2>6, <2>7 DEF SessionInv
<1>5. ReferenceInv'
  <2>1. Known'
    BY <1>1 DEF IInv, ReferenceInv, Known, Created, Current, Safe
  <2>2. Created'
    BY <1>1 DEF IInv, ReferenceInv, Known, Created, Current, Safe
  <2>3. Current'
    BY <1>1 DEF IInv, ReferenceInv, Known, Created, Current, Safe
  <2> QED
    BY <2>1, <2>2, <2>3 DEF ReferenceInv
<1>6. NothingLeaks'
  BY <1>1, <1>2 DEF IInv, NothingLeaks, HasOwner, Owes
<1> QED
  BY <1>3, <1>4, <1>5, <1>6 DEF IInv

LEMMA DeleteExpiredStep ==
    ASSUME IInv, NEW s \in Sessions, DeleteExpired(s)
    PROVE  IInv'
<1>1. /\ s \in expiring /\ expiring' = expiring \ {s}
      /\ stored' \subseteq stored /\ queue' \subseteq queue \cup {s}
      /\ queue \subseteq queue'
      /\ s \in stored' => s \in queue'
      /\ \A y \in stored : y \in stored' \/ y = s
      /\ UNCHANGED <<row, sessions, written, openers, callbacks, removers,
                     persisted, exchanges, abandoned, deaths>>
  BY DeleteOrQueueIs DEF DeleteExpired, notes
<1>2. sessions[s].status = "expired"
  BY <1>1 DEF IInv, SessionInv, ExpiringIsExpired
<1>3. Types'
  BY <1>1 DEF IInv, Types, TypeOK, Placed, Busy, Secrets
<1>4. SessionInv'
  <2>1. Unopened'
    BY <1>1, <1>2, Ranges DEF IInv, SessionInv, Unopened, Unused, Busy
  <2>2. Unused'
    BY <1>1, <1>2, Ranges DEF IInv, SessionInv, Unused, Unopened,
      ExpiringIsExpired, Busy
  <2>3. OneCallback'
    BY <1>1, <1>2, Ranges DEF IInv, SessionInv, OneCallback, Unused, Busy
  <2>4. Stage'
    BY <1>1, <1>2, Ranges DEF IInv, SessionInv, Stage, Unused, OneCallback,
      HonestSession, Busy
  <2>5. ExpiringIsExpired'
    BY <1>1, <1>2, Ranges DEF IInv, SessionInv, ExpiringIsExpired, Unused,
      Busy
  <2>6. ExchangedOnce'
    BY <1>1, <1>2, Ranges DEF IInv, SessionInv, ExchangedOnce, Stage,
      Unused, Busy
  <2>7. HonestSession'
    BY <1>1, <1>2, Ranges DEF IInv, SessionInv, HonestSession, Stage,
      Unused, Busy
  <2> QED
    BY <2>1, <2>2, <2>3, <2>4, <2>5, <2>6, <2>7 DEF SessionInv
<1>5. ReferenceInv'
  <2>1. Known'
    BY <1>1, NotASession, ParametersAssumption DEF IInv, ReferenceInv,
      Known, Created, Current, Safe
  <2>2. Created'
    BY <1>1, NotASession, ParametersAssumption DEF IInv, ReferenceInv,
      Known, Created, Current, Safe
  <2>3. Current'
    BY <1>1, NotASession, ParametersAssumption DEF IInv, ReferenceInv,
      Known, Created, Current, Safe
  <2> QED
    BY <2>1, <2>2, <2>3 DEF ReferenceInv
<1>6. NothingLeaks'
  <2> SUFFICES ASSUME NEW x \in stored', x \notin abandoned'
               PROVE  HasOwner(x)'
    BY DEF NothingLeaks
  <2>1. x \in stored /\ HasOwner(x)
    BY <1>1 DEF IInv, NothingLeaks
  <2>2. CASE x = s
    BY <1>1, <2>2 DEF HasOwner
  <2>3. CASE x # s
    BY <1>1, <2>1, <2>3 DEF HasOwner, Owes
  <2> QED
    BY <2>2, <2>3
<1> QED
  BY <1>3, <1>4, <1>5, <1>6 DEF IInv

LEMMA AbandonExpiredStep ==
    ASSUME IInv, NEW s \in Sessions, AbandonExpired(s)
    PROVE  IInv'
<1>1. /\ s \in expiring /\ expiring' = expiring \ {s}
      /\ deaths < MaxDeaths /\ deaths' = deaths + 1
      /\ abandoned' = abandoned \cup ({s} \cap stored)
      /\ UNCHANGED <<row, sessions, queue, stored, written, openers, callbacks,
                     removers, persisted, exchanges>>
  BY DEF AbandonExpired, Die, rows
<1>2. Types'
  BY <1>1, ParametersAssumption DEF IInv, Types, TypeOK, Placed, Busy, Secrets
<1>3. SessionInv'
  <2>1. Unopened'
    BY <1>1, Ranges DEF IInv, SessionInv, Unopened, Unused, Busy
  <2>2. Unused'
    BY <1>1, Ranges DEF IInv, SessionInv, Unused, Unopened,
      ExpiringIsExpired, Busy
  <2>3. OneCallback'
    BY <1>1, Ranges DEF IInv, SessionInv, OneCallback, Unused, Busy
  <2>4. Stage'
    BY <1>1, Ranges DEF IInv, SessionInv, Stage, Unused, OneCallback,
      HonestSession, Busy
  <2>5. ExpiringIsExpired'
    BY <1>1, Ranges DEF IInv, SessionInv, ExpiringIsExpired, Unused, Busy
  <2>6. ExchangedOnce'
    BY <1>1, Ranges DEF IInv, SessionInv, ExchangedOnce, Stage, Unused, Busy
  <2>7. HonestSession'
    BY <1>1, Ranges DEF IInv, SessionInv, HonestSession, Stage, Unused, Busy
  <2> QED
    BY <2>1, <2>2, <2>3, <2>4, <2>5, <2>6, <2>7 DEF SessionInv
<1>4. ReferenceInv'
  <2>1. Known'
    BY <1>1 DEF IInv, ReferenceInv, Known, Created, Current, Safe
  <2>2. Created'
    BY <1>1 DEF IInv, ReferenceInv, Known, Created, Current, Safe
  <2>3. Current'
    BY <1>1 DEF IInv, ReferenceInv, Known, Created, Current, Safe
  <2> QED
    BY <2>1, <2>2, <2>3 DEF ReferenceInv
<1>5. NothingLeaks'
  BY <1>1 DEF IInv, NothingLeaks, HasOwner, Owes
<1> QED
  BY <1>2, <1>3, <1>4, <1>5 DEF IInv

LEMMA CancelStep ==
    ASSUME IInv, NEW s \in Sessions, Cancel(s)
    PROVE  IInv'
<1>1. /\ sessions[s].status = "required"
      /\ UNCHANGED <<row, queue, stored, written, openers, callbacks, removers,
                     expiring, persisted, exchanges, abandoned, deaths>>
  BY DEF Cancel, calls, notes
<1>2. /\ sessions' \in SessionType /\ sessions'[s].status = "cancelled"
      /\ \A t \in Sessions \ {s} : sessions'[t] = sessions[t]
  BY <1>1, SetTerminalIs DEF Cancel, IInv, Types, SessionType, Terminal
<1>3. Types'
  BY <1>1, <1>2 DEF IInv, Types, TypeOK, Placed, Busy, SessionType
<1>4. SessionInv'
  <2>1. Unopened'
    BY <1>1, <1>2, Ranges DEF IInv, SessionInv, Unopened, Unused, Busy
  <2>2. Unused'
    BY <1>1, <1>2, Ranges DEF IInv, SessionInv, Unused, Unopened,
      ExpiringIsExpired, Busy
  <2>3. OneCallback'
    BY <1>1, <1>2, Ranges DEF IInv, SessionInv, OneCallback, Unused, Busy
  <2>4. Stage'
    BY <1>1, <1>2, Ranges DEF IInv, SessionInv, Stage, Unused, OneCallback,
      HonestSession, Busy
  <2>5. ExpiringIsExpired'
    BY <1>1, <1>2, Ranges DEF IInv, SessionInv, ExpiringIsExpired, Unused,
      Busy
  <2>6. ExchangedOnce'
    BY <1>1, <1>2, Ranges DEF IInv, SessionInv, ExchangedOnce, Stage,
      Unused, Busy
  <2>7. HonestSession'
    BY <1>1, <1>2, Ranges DEF IInv, SessionInv, HonestSession, Stage,
      Unused, Busy
  <2> QED
    BY <2>1, <2>2, <2>3, <2>4, <2>5, <2>6, <2>7 DEF SessionInv
<1>5. ReferenceInv'
  <2>1. Known'
    BY <1>1 DEF IInv, ReferenceInv, Known, Created, Current, Safe
  <2>2. Created'
    BY <1>1 DEF IInv, ReferenceInv, Known, Created, Current, Safe
  <2>3. Current'
    BY <1>1 DEF IInv, ReferenceInv, Known, Created, Current, Safe
  <2> QED
    BY <2>1, <2>2, <2>3 DEF ReferenceInv
<1>6. NothingLeaks'
  BY <1>1, <1>2 DEF IInv, NothingLeaks, HasOwner, Owes
<1> QED
  BY <1>3, <1>4, <1>5, <1>6 DEF IInv

LEMMA DeleteCancelledStep ==
    ASSUME IInv, NEW s \in Sessions, DeleteCancelled(s)
    PROVE  IInv'
<1>1. /\ sessions[s].status = "cancelled" /\ stored' = stored \ {s}
      /\ UNCHANGED <<row, sessions, queue, written, openers, callbacks, removers,
                     expiring, persisted, exchanges, abandoned, deaths>>
  BY DEF DeleteCancelled, rows, calls, notes
<1>2. Types'
  BY <1>1 DEF IInv, Types, TypeOK, Placed, Busy
<1>3. SessionInv'
  <2>1. Unopened'
    BY <1>1, Ranges DEF IInv, SessionInv, Unopened, Unused, Busy
  <2>2. Unused'
    BY <1>1, Ranges DEF IInv, SessionInv, Unused, Unopened,
      ExpiringIsExpired, Busy
  <2>3. OneCallback'
    BY <1>1, Ranges DEF IInv, SessionInv, OneCallback, Unused, Busy
  <2>4. Stage'
    BY <1>1, Ranges DEF IInv, SessionInv, Stage, Unused, OneCallback,
      HonestSession, Busy
  <2>5. ExpiringIsExpired'
    BY <1>1, Ranges DEF IInv, SessionInv, ExpiringIsExpired, Unused, Busy
  <2>6. ExchangedOnce'
    BY <1>1, Ranges DEF IInv, SessionInv, ExchangedOnce, Stage, Unused, Busy
  <2>7. HonestSession'
    BY <1>1, Ranges DEF IInv, SessionInv, HonestSession, Stage, Unused, Busy
  <2> QED
    BY <2>1, <2>2, <2>3, <2>4, <2>5, <2>6, <2>7 DEF SessionInv
<1>4. ReferenceInv'
  <2>1. Known'
    BY <1>1, NotASession DEF IInv, ReferenceInv, Known, Created, Current,
      Safe
  <2>2. Created'
    BY <1>1, NotASession DEF IInv, ReferenceInv, Known, Created, Current,
      Safe
  <2>3. Current'
    BY <1>1, NotASession DEF IInv, ReferenceInv, Known, Created, Current,
      Safe
  <2> QED
    BY <2>1, <2>2, <2>3 DEF ReferenceInv
<1>5. NothingLeaks'
  BY <1>1 DEF IInv, NothingLeaks, HasOwner, Owes
<1> QED
  BY <1>2, <1>3, <1>4, <1>5 DEF IInv

---------------------------------------------------------------------------
(* The callback *)

LEMMA SetFields ==
    ASSUME NEW b \in CallbackState
    PROVE  /\ \A pc \in {"verifying", "creating", "created"} :
                /\ [b EXCEPT !.pc = pc] \in CallbackState
                /\ [b EXCEPT !.pc = pc].pc = pc
                /\ [b EXCEPT !.pc = pc].session = b.session
                /\ [b EXCEPT !.pc = pc].reference = b.reference
                /\ [b EXCEPT !.pc = pc].previous = b.previous
           /\ \A x \in BOOLEAN :
                /\ [b EXCEPT !.known = x] \in CallbackState
                /\ [b EXCEPT !.known = x].pc = b.pc
                /\ [b EXCEPT !.known = x].session = b.session
                /\ [b EXCEPT !.known = x].reference = b.reference
                /\ [b EXCEPT !.known = x].previous = b.previous
           /\ \A n \in 0..(MaxGeneration + 1) :
                /\ [b EXCEPT !.generation = n] \in CallbackState
                /\ [b EXCEPT !.generation = n].generation = n
                /\ [b EXCEPT !.generation = n].pc = b.pc
                /\ [b EXCEPT !.generation = n].session = b.session
                /\ [b EXCEPT !.generation = n].reference = b.reference
                /\ [b EXCEPT !.generation = n].previous = b.previous
  BY DEF CallbackState

LEMMA SetReauthorize ==
    ASSUME NEW b \in CallbackState, NEW x \in BOOLEAN
    PROVE  /\ [b EXCEPT !.reauthorize = x] \in CallbackState
           /\ [b EXCEPT !.reauthorize = x].pc = b.pc
           /\ [b EXCEPT !.reauthorize = x].session = b.session
           /\ [b EXCEPT !.reauthorize = x].reference = b.reference
           /\ [b EXCEPT !.reauthorize = x].previous = b.previous
  BY DEF CallbackState

LEMMA SetReference ==
    ASSUME NEW b \in CallbackState, NEW g \in References
    PROVE  /\ [b EXCEPT !.reference = g] \in CallbackState
           /\ [b EXCEPT !.reference = g].pc = b.pc
           /\ [b EXCEPT !.reference = g].session = b.session
           /\ [b EXCEPT !.reference = g].reference = g
           /\ [b EXCEPT !.reference = g].previous = b.previous
  BY DEF CallbackState

LEMMA ConsumeMoves ==
    ASSUME TypeOK, NEW k \in Callbacks, NEW s \in Sessions, Consume(k, s)
    PROVE  Moves(k, "verifying", s, None, None)
<1> DEFINE a == Holding("verifying", s, None, None)
           x == sessions[s].reauthorize
           b == [a EXCEPT !.reauthorize = x]
<1>1. a \in CallbackState /\ a.pc = "verifying" /\ a.session = s
      /\ a.reference = None /\ a.previous = None
  BY HoldingType, HoldingIs
<1>2. x \in BOOLEAN
  BY DEF TypeOK
<1>3. callbacks' = [callbacks EXCEPT ![k] = b]
  BY DEF Consume
<1> HIDE DEF a, x
<1>4. /\ b \in CallbackState /\ b.pc = "verifying" /\ b.session = s
      /\ b.reference = None /\ b.previous = None
  BY <1>1, <1>2, SetReauthorize
<1> HIDE DEF b
<1> QED
  BY <1>3, <1>4, RecordMoves

LEMMA ExchangeMoves ==
    ASSUME TypeOK, NEW k \in Callbacks, NEW x \in BOOLEAN,
           NEW n \in 0..(MaxGeneration + 1),
           callbacks' = [callbacks EXCEPT ![k] =
             [@ EXCEPT !.pc = "creating", !.known = x, !.generation = n]]
    PROVE  Stays(k, "creating") /\ callbacks'[k].generation = n
<1> DEFINE r0 == callbacks[k]
           r1 == [r0 EXCEPT !.pc = "creating"]
           r2 == [r1 EXCEPT !.known = x]
           r3 == [r2 EXCEPT !.generation = n]
<1>1. r0 \in CallbackState
  BY CallbackFields
<1>2. callbacks' = [callbacks EXCEPT ![k] = r3]
  OBVIOUS
<1> HIDE DEF r0
<1>3. /\ r1 \in CallbackState /\ r1.pc = "creating" /\ r1.session = r0.session
      /\ r1.reference = r0.reference /\ r1.previous = r0.previous
  BY <1>1, SetFields
<1> HIDE DEF r1
<1>4. /\ r2 \in CallbackState /\ r2.pc = "creating" /\ r2.session = r0.session
      /\ r2.reference = r0.reference /\ r2.previous = r0.previous
  BY <1>3, SetFields, ZenonT(60)
<1> HIDE DEF r2
<1>5. /\ r3 \in CallbackState /\ r3.pc = "creating" /\ r3.session = r0.session
      /\ r3.reference = r0.reference /\ r3.previous = r0.previous
      /\ r3.generation = n
  BY <1>4, SetFields, ZenonT(60)
<1> HIDE DEF r3
<1>6. Stays(k, "creating")
  BY <1>2, <1>5, RecordMoves DEF Stays, r0
<1>7. callbacks'[k] = r3
  BY <1>2 DEF TypeOK
<1> QED
  BY <1>5, <1>6, <1>7

LEMMA CreateGrantMoves ==
    ASSUME TypeOK, NEW k \in Callbacks, NEW g \in References,
           callbacks' = [callbacks EXCEPT ![k] =
             [@ EXCEPT !.pc = "created", !.generation = 0, !.reference = g]]
    PROVE  Moves(k, "created", callbacks[k].session, g, callbacks[k].previous)
<1> DEFINE r0 == callbacks[k]
           r1 == [r0 EXCEPT !.pc = "created"]
           r2 == [r1 EXCEPT !.generation = 0]
           r3 == [r2 EXCEPT !.reference = g]
<1>1. r0 \in CallbackState /\ 0 \in 0..(MaxGeneration + 1)
  BY CallbackFields, ParametersAssumption
<1>2. callbacks' = [callbacks EXCEPT ![k] = r3]
  OBVIOUS
<1> HIDE DEF r0
<1>3. /\ r1 \in CallbackState /\ r1.pc = "created" /\ r1.session = r0.session
      /\ r1.reference = r0.reference /\ r1.previous = r0.previous
  BY <1>1, SetFields
<1> HIDE DEF r1
<1>4. /\ r2 \in CallbackState /\ r2.pc = "created" /\ r2.session = r0.session
      /\ r2.previous = r0.previous
  BY <1>1, <1>3, SetFields, ZenonT(60)
<1> HIDE DEF r2
<1>5. /\ r3 \in CallbackState /\ r3.pc = "created" /\ r3.session = r0.session
      /\ r3.reference = g /\ r3.previous = r0.previous
  BY <1>4, SetReference
<1> HIDE DEF r3
<1> QED
  BY <1>2, <1>5, RecordMoves DEF r0

\* The reference a callback holds at its stage.
LEMMA HeldAt ==
    ASSUME IInv, NEW k \in Callbacks
    PROVE  /\ callbacks[k].pc \notin {"created", "discarding"}
                => callbacks[k].reference = None
           /\ callbacks[k].pc \in {"created", "discarding"}
                => callbacks[k].reference \in References
           /\ callbacks[k].pc # "replaced" => callbacks[k].previous = None
           /\ callbacks[k].pc = "replaced"
                => callbacks[k].previous \in References
           /\ callbacks[k].pc # "idle" => callbacks[k].session \in Sessions
           /\ callbacks[k].pc = "idle" => callbacks[k].session = None
  BY CallbackFields DEF IInv, Types, Placed, Busy


LEMMA EndSessionIs ==
    ASSUME IInv, NEW k \in Callbacks, NEW status \in {"failed", "connected"},
           EndSession(k, status), callbacks[k].pc # "idle"
    PROVE  LET s == callbacks[k].session IN
           /\ Moves(k, "cleaning", s, None, None)
           /\ s \in Sessions
           /\ sessions' \in SessionType
           /\ sessions'[s].status = IF sessions[s].status = "pending"
                                    THEN status ELSE sessions[s].status
           /\ \A t \in Sessions \ {s} : sessions'[t] = sessions[t]
<1>1. TypeOK /\ callbacks[k].session \in Sessions /\ status \in Terminal
  BY HeldAt DEF IInv, Types, Terminal
<1>2. Moves(k, "cleaning", callbacks[k].session, None, None)
  BY <1>1, CallbackKeepsMoves DEF EndSession
<1> QED
  BY <1>1, <1>2, SetTerminalIs DEF EndSession, SessionType

LEMMA ConsumeFacts ==
    ASSUME TypeOK, NEW k \in Callbacks, NEW s \in Sessions, Consume(k, s)
    PROVE  /\ Moves(k, "verifying", s, None, None)
           /\ sessions' \in SessionType /\ sessions'[s].status = "pending"
           /\ \A t \in Sessions \ {s} : sessions'[t] = sessions[t]
<1>1. sessions \in SessionType
  BY DEF TypeOK, SessionType
<1>2. sessions' = [sessions EXCEPT ![s].status = "pending"]
  BY DEF Consume
<1>3. Moves(k, "verifying", s, None, None)
  BY ConsumeMoves
<1> QED
  BY <1>1, <1>2, <1>3 DEF SessionType

LEMMA ConsumeStep ==
    ASSUME IInv, NEW k \in Callbacks, NEW s \in Sessions, Consume(k, s)
    PROVE  IInv'
<1>1. /\ callbacks[k].pc = "idle" /\ sessions[s].status = "required"
      /\ UNCHANGED <<row, queue, stored, written, openers, removers, expiring,
                     persisted, exchanges, abandoned, deaths>>
  BY DEF Consume, CanConsume, notes
<1>2. /\ Moves(k, "verifying", s, None, None)
      /\ sessions' \in SessionType /\ sessions'[s].status = "pending"
      /\ \A t \in Sessions \ {s} : sessions'[t] = sessions[t]
  BY <1>1, ConsumeFacts DEF IInv, Types
<1>3. Types'
  <2>1. TypeOK'
    BY <1>1, <1>2, HeldAt, ParametersAssumption
       DEF IInv, Types, TypeOK, SessionType, Moves, Stays
  <2>2. Placed'
    BY <1>1, <1>2, HeldAt, ParametersAssumption
       DEF IInv, Types, Placed, Busy, Moves, Stays
  <2> QED
    BY <2>1, <2>2 DEF Types
<1>4. SessionInv'
  <2>1. Unopened'
    BY <1>1, <1>2, Ranges DEF IInv, SessionInv, Unopened, Unused, Busy,
      Moves, Stays
  <2>2. Unused'
    BY <1>1, <1>2, Ranges DEF IInv, SessionInv, Unused, Unopened,
      ExpiringIsExpired, Busy, Moves, Stays
  <2>3. OneCallback'
    BY <1>1, <1>2, Ranges DEF IInv, SessionInv, OneCallback, Unused, Busy,
      Moves, Stays
  <2>4. Stage'
    BY <1>1, <1>2, Ranges DEF IInv, SessionInv, Stage, Unused, OneCallback,
      HonestSession, Busy, Moves, Stays
  <2>5. ExpiringIsExpired'
    BY <1>1, <1>2, Ranges DEF IInv, SessionInv, ExpiringIsExpired, Unused,
      Busy, Moves, Stays
  <2>6. ExchangedOnce'
    BY <1>1, <1>2, Ranges DEF IInv, SessionInv, ExchangedOnce, Stage,
      Unused, Busy, Moves, Stays
  <2>7. HonestSession'
    BY <1>1, <1>2, Ranges DEF IInv, SessionInv, HonestSession, Stage,
      Unused, Busy, Moves, Stays
  <2> QED
    BY <2>1, <2>2, <2>3, <2>4, <2>5, <2>6, <2>7 DEF SessionInv
<1>5. ReferenceInv'
  <2>1. Known'
    BY <1>1, <1>2, HeldAt DEF IInv, ReferenceInv, Known, Created, Current,
      Safe, Moves, Stays
  <2>2. Created'
    BY <1>1, <1>2, HeldAt DEF IInv, ReferenceInv, Known, Created, Current,
      Safe, Moves, Stays
  <2>3. Current'
    BY <1>1, <1>2, HeldAt DEF IInv, ReferenceInv, Known, Created, Current,
      Safe, Moves, Stays
  <2> QED
    BY <2>1, <2>2, <2>3 DEF ReferenceInv
<1>6. NothingLeaks'
  <2> SUFFICES ASSUME NEW x \in stored', x \notin abandoned'
               PROVE  HasOwner(x)'
    BY DEF NothingLeaks
  <2>1. x \in stored /\ HasOwner(x)
    BY <1>1, <1>2 DEF IInv, NothingLeaks
  <2>2. CASE x = s
    <3>1. x \in Owes(k)'
      BY <1>1, <1>2, <2>2, ParametersAssumption DEF Owes, Moves
    <3> QED
      BY <3>1 DEF HasOwner
  <2>3. CASE x # s
    BY <1>1, <1>2, <2>1, <2>3, HeldAt DEF HasOwner, Owes, Moves
  <2> QED
    BY <2>2, <2>3
<1> QED
  BY <1>3, <1>4, <1>5, <1>6 DEF IInv

LEMMA ReadVerifierStep ==
    ASSUME IInv, NEW k \in Callbacks, ReadVerifier(k)
    PROVE  IInv'
<1>1. /\ callbacks[k].pc = "verifying" /\ callbacks[k].session \in stored
      /\ UNCHANGED <<row, sessions, queue, stored, written, openers, removers,
                     expiring, persisted, exchanges, abandoned, deaths>>
  BY DEF ReadVerifier, rows, notes
<1>2. Stays(k, "exchanging")
  BY CallbackAtMoves DEF ReadVerifier, IInv, Types
<1>3. Types'
  <2>1. TypeOK'
    BY <1>1, <1>2, HeldAt, ParametersAssumption
       DEF IInv, Types, TypeOK, SessionType, Moves, Stays
  <2>2. Placed'
    BY <1>1, <1>2, HeldAt, ParametersAssumption
       DEF IInv, Types, Placed, Busy, Moves, Stays
  <2> QED
    BY <2>1, <2>2 DEF Types
<1>4. SessionInv'
  <2>1. Unopened'
    BY <1>1, <1>2, Ranges DEF IInv, SessionInv, Unopened, Unused, Busy,
      Moves, Stays
  <2>2. Unused'
    BY <1>1, <1>2, Ranges DEF IInv, SessionInv, Unused, Unopened,
      ExpiringIsExpired, Busy, Moves, Stays
  <2>3. OneCallback'
    BY <1>1, <1>2, Ranges DEF IInv, SessionInv, OneCallback, Unused, Busy,
      Moves, Stays
  <2>4. Stage'
    BY <1>1, <1>2, Ranges DEF IInv, SessionInv, Stage, Unused, OneCallback,
      HonestSession, Busy, Moves, Stays
  <2>5. ExpiringIsExpired'
    BY <1>1, <1>2, Ranges DEF IInv, SessionInv, ExpiringIsExpired, Unused,
      Busy, Moves, Stays
  <2>6. ExchangedOnce'
    BY <1>1, <1>2, Ranges DEF IInv, SessionInv, ExchangedOnce, Stage,
      Unused, Busy, Moves, Stays
  <2>7. HonestSession'
    BY <1>1, <1>2, Ranges DEF IInv, SessionInv, HonestSession, Stage,
      Unused, Busy, Moves, Stays
  <2> QED
    BY <2>1, <2>2, <2>3, <2>4, <2>5, <2>6, <2>7 DEF SessionInv
<1>5. ReferenceInv'
  <2>1. Known'
    BY <1>1, <1>2, HeldAt DEF IInv, ReferenceInv, Known, Created, Current,
      Safe, Moves, Stays
  <2>2. Created'
    BY <1>1, <1>2, HeldAt DEF IInv, ReferenceInv, Known, Created, Current,
      Safe, Moves, Stays
  <2>3. Current'
    BY <1>1, <1>2, HeldAt DEF IInv, ReferenceInv, Known, Created, Current,
      Safe, Moves, Stays
  <2> QED
    BY <2>1, <2>2, <2>3 DEF ReferenceInv
<1>6. NothingLeaks'
  BY <1>1, <1>2, HeldAt
     DEF IInv, NothingLeaks, HasOwner, Owes, Moves, Stays
<1> QED
  BY <1>3, <1>4, <1>5, <1>6 DEF IInv

LEMMA FailStep ==
    ASSUME IInv, NEW k \in Callbacks, Fail(k)
    PROVE  IInv'
<1>1. /\ callbacks[k].pc \in {"verifying", "creating"}
      /\ UNCHANGED <<row, queue, stored, written, openers, removers, expiring,
                     persisted, exchanges, abandoned, deaths>>
  BY DEF Fail, notes
<1>2. /\ Moves(k, "cleaning", callbacks[k].session, None, None)
      /\ callbacks[k].session \in Sessions
      /\ sessions' \in SessionType
      /\ sessions'[callbacks[k].session].status =
           IF sessions[callbacks[k].session].status = "pending"
           THEN "failed" ELSE sessions[callbacks[k].session].status
      /\ \A t \in Sessions \ {callbacks[k].session} : sessions'[t] = sessions[t]
  BY <1>1, EndSessionIs DEF Fail
<1>3. Types'
  <2>1. TypeOK'
    BY <1>1, <1>2, HeldAt, ParametersAssumption
       DEF IInv, Types, TypeOK, SessionType, Moves, Stays
  <2>2. Placed'
    BY <1>1, <1>2, HeldAt, ParametersAssumption
       DEF IInv, Types, Placed, Busy, Moves, Stays
  <2> QED
    BY <2>1, <2>2 DEF Types
<1>4. SessionInv'
  <2>1. Unopened'
    BY <1>1, <1>2, Ranges DEF IInv, SessionInv, Unopened, Unused, Busy,
      Moves, Stays
  <2>2. Unused'
    BY <1>1, <1>2, Ranges DEF IInv, SessionInv, Unused, Unopened,
      ExpiringIsExpired, Busy, Moves, Stays
  <2>3. OneCallback'
    BY <1>1, <1>2, Ranges DEF IInv, SessionInv, OneCallback, Unused, Busy,
      Moves, Stays
  <2>4. Stage'
    BY <1>1, <1>2, Ranges DEF IInv, SessionInv, Stage, Unused, OneCallback,
      HonestSession, Busy, Moves, Stays
  <2>5. ExpiringIsExpired'
    BY <1>1, <1>2, Ranges DEF IInv, SessionInv, ExpiringIsExpired, Unused,
      Busy, Moves, Stays
  <2>6. ExchangedOnce'
    BY <1>1, <1>2, Ranges DEF IInv, SessionInv, ExchangedOnce, Stage,
      Unused, Busy, Moves, Stays
  <2>7. HonestSession'
    BY <1>1, <1>2, Ranges DEF IInv, SessionInv, HonestSession, Stage,
      Unused, Busy, Moves, Stays
  <2> QED
    BY <2>1, <2>2, <2>3, <2>4, <2>5, <2>6, <2>7 DEF SessionInv
<1>5. ReferenceInv'
  <2>1. Known'
    BY <1>1, <1>2, HeldAt DEF IInv, ReferenceInv, Known, Created, Current,
      Safe, Moves, Stays
  <2>2. Created'
    BY <1>1, <1>2, HeldAt DEF IInv, ReferenceInv, Known, Created, Current,
      Safe, Moves, Stays
  <2>3. Current'
    BY <1>1, <1>2, HeldAt DEF IInv, ReferenceInv, Known, Created, Current,
      Safe, Moves, Stays
  <2> QED
    BY <2>1, <2>2, <2>3 DEF ReferenceInv
<1>6. NothingLeaks'
  BY <1>1, <1>2, HeldAt
     DEF IInv, NothingLeaks, HasOwner, Owes, Moves, Stays
<1> QED
  BY <1>3, <1>4, <1>5, <1>6 DEF IInv

LEMMA RefuseStep ==
    ASSUME IInv, NEW k \in Callbacks, Refuse(k)
    PROVE  IInv'
<1>1. /\ callbacks[k].pc = "created"
      /\ UNCHANGED <<row, sessions, queue, stored, written, openers, removers,
                     expiring, persisted, exchanges, abandoned, deaths>>
  BY DEF Refuse, rows, notes
<1>2. Moves(k, "discarding", callbacks[k].session, callbacks[k].reference, None)
  BY <1>1, CallbackKeepsMoves, CallbackFields DEF Refuse, IInv, Types
<1>3. Types'
  <2>1. TypeOK'
    BY <1>1, <1>2, HeldAt, ParametersAssumption
       DEF IInv, Types, TypeOK, SessionType, Moves, Stays
  <2>2. Placed'
    BY <1>1, <1>2, HeldAt, ParametersAssumption
       DEF IInv, Types, Placed, Busy, Moves, Stays
  <2> QED
    BY <2>1, <2>2 DEF Types
<1>4. SessionInv'
  <2>1. Unopened'
    BY <1>1, <1>2, Ranges DEF IInv, SessionInv, Unopened, Unused, Busy,
      Moves, Stays
  <2>2. Unused'
    BY <1>1, <1>2, Ranges DEF IInv, SessionInv, Unused, Unopened,
      ExpiringIsExpired, Busy, Moves, Stays
  <2>3. OneCallback'
    BY <1>1, <1>2, Ranges DEF IInv, SessionInv, OneCallback, Unused, Busy,
      Moves, Stays
  <2>4. Stage'
    BY <1>1, <1>2, Ranges DEF IInv, SessionInv, Stage, Unused, OneCallback,
      HonestSession, Busy, Moves, Stays
  <2>5. ExpiringIsExpired'
    BY <1>1, <1>2, Ranges DEF IInv, SessionInv, ExpiringIsExpired, Unused,
      Busy, Moves, Stays
  <2>6. ExchangedOnce'
    BY <1>1, <1>2, Ranges DEF IInv, SessionInv, ExchangedOnce, Stage,
      Unused, Busy, Moves, Stays
  <2>7. HonestSession'
    BY <1>1, <1>2, Ranges DEF IInv, SessionInv, HonestSession, Stage,
      Unused, Busy, Moves, Stays
  <2> QED
    BY <2>1, <2>2, <2>3, <2>4, <2>5, <2>6, <2>7 DEF SessionInv
<1>5. ReferenceInv'
  <2>1. Known'
    BY <1>1, <1>2, HeldAt DEF IInv, ReferenceInv, Known, Created, Current,
      Safe, Moves, Stays
  <2>2. Created'
    BY <1>1, <1>2, HeldAt DEF IInv, ReferenceInv, Known, Created, Current,
      Safe, Moves, Stays
  <2>3. Current'
    BY <1>1, <1>2, HeldAt DEF IInv, ReferenceInv, Known, Created, Current,
      Safe, Moves, Stays
  <2> QED
    BY <2>1, <2>2, <2>3 DEF ReferenceInv
<1>6. NothingLeaks'
  BY <1>1, <1>2, HeldAt
     DEF IInv, NothingLeaks, HasOwner, Owes, Moves, Stays
<1> QED
  BY <1>3, <1>4, <1>5, <1>6 DEF IInv

LEMMA DiscardStep ==
    ASSUME IInv, NEW k \in Callbacks, Discard(k)
    PROVE  IInv'
<1>1. /\ callbacks[k].pc = "discarding"
      /\ stored' \subseteq stored /\ queue' \subseteq queue \cup {callbacks[k].reference}
      /\ queue \subseteq queue'
      /\ callbacks[k].reference \in stored' => callbacks[k].reference \in queue'
      /\ \A y \in stored : y \in stored' \/ y = callbacks[k].reference
      /\ UNCHANGED <<row, written, openers, removers, expiring, persisted,
                     exchanges, abandoned, deaths>>
  BY DeleteOrQueueIs DEF Discard, notes
<1>2. /\ Moves(k, "cleaning", callbacks[k].session, None, None)
      /\ callbacks[k].session \in Sessions
      /\ sessions' \in SessionType
      /\ sessions'[callbacks[k].session].status =
           IF sessions[callbacks[k].session].status = "pending"
           THEN "failed" ELSE sessions[callbacks[k].session].status
      /\ \A t \in Sessions \ {callbacks[k].session} : sessions'[t] = sessions[t]
  BY <1>1, EndSessionIs DEF Discard
<1>3. callbacks[k].reference \in References
  BY <1>1, HeldAt
<1>4. Types'
  <2>1. TypeOK'
    BY <1>1, <1>2, <1>3, HeldAt, ParametersAssumption
       DEF IInv, Types, TypeOK, SessionType, Moves, Stays, Secrets
  <2>2. Placed'
    BY <1>1, <1>2, <1>3, HeldAt, ParametersAssumption
       DEF IInv, Types, Placed, Busy, Moves, Stays
  <2> QED
    BY <2>1, <2>2 DEF Types
<1>5. SessionInv'
  <2>1. Unopened'
    BY <1>1, <1>2, <1>3, ParametersAssumption, Ranges DEF IInv, SessionInv,
      Unopened, Unused, Busy, Moves, Stays
  <2>2. Unused'
    BY <1>1, <1>2, <1>3, ParametersAssumption, Ranges DEF IInv, SessionInv,
      Unused, Unopened, ExpiringIsExpired, Busy, Moves, Stays
  <2>3. OneCallback'
    BY <1>1, <1>2, <1>3, ParametersAssumption, Ranges DEF IInv, SessionInv,
      OneCallback, Unused, Busy, Moves, Stays
  <2>4. Stage'
    BY <1>1, <1>2, <1>3, ParametersAssumption, Ranges DEF IInv, SessionInv,
      Stage, Unused, OneCallback, HonestSession, Busy, Moves, Stays
  <2>5. ExpiringIsExpired'
    BY <1>1, <1>2, <1>3, ParametersAssumption, Ranges DEF IInv, SessionInv,
      ExpiringIsExpired, Unused, Busy, Moves, Stays
  <2>6. ExchangedOnce'
    BY <1>1, <1>2, <1>3, ParametersAssumption, Ranges DEF IInv, SessionInv,
      ExchangedOnce, Stage, Unused, Busy, Moves, Stays
  <2>7. HonestSession'
    BY <1>1, <1>2, <1>3, ParametersAssumption, Ranges DEF IInv, SessionInv,
      HonestSession, Stage, Unused, Busy, Moves, Stays
  <2> QED
    BY <2>1, <2>2, <2>3, <2>4, <2>5, <2>6, <2>7 DEF SessionInv
<1>6. ReferenceInv'
  <2>1. Known'
    BY <1>1, <1>2, <1>3, HeldAt DEF IInv, ReferenceInv, Known, Created,
      Current, Safe, Moves, Stays
  <2>2. Created'
    BY <1>1, <1>2, <1>3, HeldAt DEF IInv, ReferenceInv, Known, Created,
      Current, Safe, Moves, Stays
  <2>3. Current'
    BY <1>1, <1>2, <1>3, HeldAt DEF IInv, ReferenceInv, Known, Created,
      Current, Safe, Moves, Stays
  <2> QED
    BY <2>1, <2>2, <2>3 DEF ReferenceInv
<1>7. NothingLeaks'
  <2> SUFFICES ASSUME NEW x \in stored', x \notin abandoned'
               PROVE  HasOwner(x)'
    BY DEF NothingLeaks
  <2>1. x \in stored /\ HasOwner(x)
    BY <1>1, <1>2, <1>3 DEF IInv, NothingLeaks
  <2>2. CASE x = callbacks[k].reference
    BY <1>1, <1>2, <1>3, <2>2 DEF HasOwner
  <2>3. CASE x # callbacks[k].reference
    BY <1>1, <1>2, <1>3, <2>1, <2>3, HeldAt DEF HasOwner, Owes, Moves
  <2> QED
    BY <2>2, <2>3
<1> QED
  BY <1>4, <1>5, <1>6, <1>7 DEF IInv

LEMMA DeletePreviousStep ==
    ASSUME IInv, NEW k \in Callbacks, DeletePrevious(k)
    PROVE  IInv'
<1>1. /\ callbacks[k].pc = "replaced"
      /\ stored' \subseteq stored /\ queue' \subseteq queue \cup {callbacks[k].previous}
      /\ queue \subseteq queue'
      /\ callbacks[k].previous \in stored' => callbacks[k].previous \in queue'
      /\ \A y \in stored : y \in stored' \/ y = callbacks[k].previous
      /\ UNCHANGED <<row, written, openers, removers, expiring, persisted,
                     exchanges, abandoned, deaths>>
  BY DeleteOrQueueIs DEF DeletePrevious, notes
<1>2. /\ Moves(k, "cleaning", callbacks[k].session, None, None)
      /\ callbacks[k].session \in Sessions
      /\ sessions' \in SessionType
      /\ sessions'[callbacks[k].session].status =
           IF sessions[callbacks[k].session].status = "pending"
           THEN "connected" ELSE sessions[callbacks[k].session].status
      /\ \A t \in Sessions \ {callbacks[k].session} : sessions'[t] = sessions[t]
  BY <1>1, EndSessionIs DEF DeletePrevious
<1>3. callbacks[k].previous \in References
  BY <1>1, HeldAt
<1>4. Types'
  <2>1. TypeOK'
    BY <1>1, <1>2, <1>3, HeldAt, ParametersAssumption
       DEF IInv, Types, TypeOK, SessionType, Moves, Stays, Secrets
  <2>2. Placed'
    BY <1>1, <1>2, <1>3, HeldAt, ParametersAssumption
       DEF IInv, Types, Placed, Busy, Moves, Stays
  <2> QED
    BY <2>1, <2>2 DEF Types
<1>5. SessionInv'
  <2>1. Unopened'
    BY <1>1, <1>2, <1>3, ParametersAssumption, Ranges DEF IInv, SessionInv,
      Unopened, Unused, Busy, Moves, Stays
  <2>2. Unused'
    BY <1>1, <1>2, <1>3, ParametersAssumption, Ranges DEF IInv, SessionInv,
      Unused, Unopened, ExpiringIsExpired, Busy, Moves, Stays
  <2>3. OneCallback'
    BY <1>1, <1>2, <1>3, ParametersAssumption, Ranges DEF IInv, SessionInv,
      OneCallback, Unused, Busy, Moves, Stays
  <2>4. Stage'
    BY <1>1, <1>2, <1>3, ParametersAssumption, Ranges DEF IInv, SessionInv,
      Stage, Unused, OneCallback, HonestSession, Busy, Moves, Stays
  <2>5. ExpiringIsExpired'
    BY <1>1, <1>2, <1>3, ParametersAssumption, Ranges DEF IInv, SessionInv,
      ExpiringIsExpired, Unused, Busy, Moves, Stays
  <2>6. ExchangedOnce'
    BY <1>1, <1>2, <1>3, ParametersAssumption, Ranges DEF IInv, SessionInv,
      ExchangedOnce, Stage, Unused, Busy, Moves, Stays
  <2>7. HonestSession'
    BY <1>1, <1>2, <1>3, ParametersAssumption, Ranges DEF IInv, SessionInv,
      HonestSession, Stage, Unused, Busy, Moves, Stays
  <2> QED
    BY <2>1, <2>2, <2>3, <2>4, <2>5, <2>6, <2>7 DEF SessionInv
<1>6. ReferenceInv'
  <2>1. Known'
    BY <1>1, <1>2, <1>3, HeldAt DEF IInv, ReferenceInv, Known, Created,
      Current, Safe, Moves, Stays
  <2>2. Created'
    BY <1>1, <1>2, <1>3, HeldAt DEF IInv, ReferenceInv, Known, Created,
      Current, Safe, Moves, Stays
  <2>3. Current'
    BY <1>1, <1>2, <1>3, HeldAt DEF IInv, ReferenceInv, Known, Created,
      Current, Safe, Moves, Stays
  <2> QED
    BY <2>1, <2>2, <2>3 DEF ReferenceInv
<1>7. NothingLeaks'
  <2> SUFFICES ASSUME NEW x \in stored', x \notin abandoned'
               PROVE  HasOwner(x)'
    BY DEF NothingLeaks
  <2>1. x \in stored /\ HasOwner(x)
    BY <1>1, <1>2, <1>3 DEF IInv, NothingLeaks
  <2>2. CASE x = callbacks[k].previous
    BY <1>1, <1>2, <1>3, <2>2 DEF HasOwner
  <2>3. CASE x # callbacks[k].previous
    BY <1>1, <1>2, <1>3, <2>1, <2>3, HeldAt DEF HasOwner, Owes, Moves
  <2> QED
    BY <2>2, <2>3
<1> QED
  BY <1>4, <1>5, <1>6, <1>7 DEF IInv

LEMMA SetConnectedStep ==
    ASSUME IInv, NEW k \in Callbacks, SetConnected(k)
    PROVE  IInv'
<1>1. /\ callbacks[k].pc = "persisted"
      /\ UNCHANGED <<row, queue, stored, written, openers, removers, expiring,
                     persisted, exchanges, abandoned, deaths>>
  BY DEF SetConnected, notes
<1>2. /\ Moves(k, "cleaning", callbacks[k].session, None, None)
      /\ callbacks[k].session \in Sessions
      /\ sessions' \in SessionType
      /\ sessions'[callbacks[k].session].status =
           IF sessions[callbacks[k].session].status = "pending"
           THEN "connected" ELSE sessions[callbacks[k].session].status
      /\ \A t \in Sessions \ {callbacks[k].session} : sessions'[t] = sessions[t]
  BY <1>1, EndSessionIs DEF SetConnected
<1>3. Types'
  <2>1. TypeOK'
    BY <1>1, <1>2, HeldAt, ParametersAssumption
       DEF IInv, Types, TypeOK, SessionType, Moves, Stays
  <2>2. Placed'
    BY <1>1, <1>2, HeldAt, ParametersAssumption
       DEF IInv, Types, Placed, Busy, Moves, Stays
  <2> QED
    BY <2>1, <2>2 DEF Types
<1>4. SessionInv'
  <2>1. Unopened'
    BY <1>1, <1>2, Ranges DEF IInv, SessionInv, Unopened, Unused, Busy,
      Moves, Stays
  <2>2. Unused'
    BY <1>1, <1>2, Ranges DEF IInv, SessionInv, Unused, Unopened,
      ExpiringIsExpired, Busy, Moves, Stays
  <2>3. OneCallback'
    BY <1>1, <1>2, Ranges DEF IInv, SessionInv, OneCallback, Unused, Busy,
      Moves, Stays
  <2>4. Stage'
    BY <1>1, <1>2, Ranges DEF IInv, SessionInv, Stage, Unused, OneCallback,
      HonestSession, Busy, Moves, Stays
  <2>5. ExpiringIsExpired'
    BY <1>1, <1>2, Ranges DEF IInv, SessionInv, ExpiringIsExpired, Unused,
      Busy, Moves, Stays
  <2>6. ExchangedOnce'
    BY <1>1, <1>2, Ranges DEF IInv, SessionInv, ExchangedOnce, Stage,
      Unused, Busy, Moves, Stays
  <2>7. HonestSession'
    BY <1>1, <1>2, Ranges DEF IInv, SessionInv, HonestSession, Stage,
      Unused, Busy, Moves, Stays
  <2> QED
    BY <2>1, <2>2, <2>3, <2>4, <2>5, <2>6, <2>7 DEF SessionInv
<1>5. ReferenceInv'
  <2>1. Known'
    BY <1>1, <1>2, HeldAt DEF IInv, ReferenceInv, Known, Created, Current,
      Safe, Moves, Stays
  <2>2. Created'
    BY <1>1, <1>2, HeldAt DEF IInv, ReferenceInv, Known, Created, Current,
      Safe, Moves, Stays
  <2>3. Current'
    BY <1>1, <1>2, HeldAt DEF IInv, ReferenceInv, Known, Created, Current,
      Safe, Moves, Stays
  <2> QED
    BY <2>1, <2>2, <2>3 DEF ReferenceInv
<1>6. NothingLeaks'
  BY <1>1, <1>2, HeldAt
     DEF IInv, NothingLeaks, HasOwner, Owes, Moves, Stays
<1> QED
  BY <1>3, <1>4, <1>5, <1>6 DEF IInv

LEMMA DeleteVerifierStep ==
    ASSUME IInv, NEW k \in Callbacks, DeleteVerifier(k)
    PROVE  IInv'
<1>1. /\ callbacks[k].pc = "cleaning"
      /\ stored' \subseteq stored /\ queue' \subseteq queue \cup {callbacks[k].session}
      /\ queue \subseteq queue'
      /\ callbacks[k].session \in stored' => callbacks[k].session \in queue'
      /\ \A y \in stored : y \in stored' \/ y = callbacks[k].session
      /\ UNCHANGED <<row, sessions, written, openers, removers, expiring,
                     persisted, exchanges, abandoned, deaths>>
  BY DeleteOrQueueIs DEF DeleteVerifier, notes
<1>2. Moves(k, "idle", None, None, None)
  BY CleanMoves DEF DeleteVerifier, IInv, Types
<1>3. callbacks[k].session \in Sessions
  BY <1>1, HeldAt
<1>4. Types'
  <2>1. TypeOK'
    BY <1>1, <1>2, <1>3, HeldAt, ParametersAssumption
       DEF IInv, Types, TypeOK, SessionType, Moves, Stays, Secrets
  <2>2. Placed'
    BY <1>1, <1>2, <1>3, HeldAt, ParametersAssumption
       DEF IInv, Types, Placed, Busy, Moves, Stays
  <2> QED
    BY <2>1, <2>2 DEF Types
<1>5. SessionInv'
  <2>1. Unopened'
    BY <1>1, <1>2, <1>3, Ranges DEF IInv, SessionInv, Unopened, Unused,
      Busy, Moves, Stays
  <2>2. Unused'
    BY <1>1, <1>2, <1>3, Ranges DEF IInv, SessionInv, Unused, Unopened,
      ExpiringIsExpired, Busy, Moves, Stays
  <2>3. OneCallback'
    BY <1>1, <1>2, <1>3, Ranges DEF IInv, SessionInv, OneCallback, Unused,
      Busy, Moves, Stays
  <2>4. Stage'
    BY <1>1, <1>2, <1>3, Ranges DEF IInv, SessionInv, Stage, Unused,
      OneCallback, HonestSession, Busy, Moves, Stays
  <2>5. ExpiringIsExpired'
    BY <1>1, <1>2, <1>3, Ranges DEF IInv, SessionInv, ExpiringIsExpired,
      Unused, Busy, Moves, Stays
  <2>6. ExchangedOnce'
    BY <1>1, <1>2, <1>3, Ranges DEF IInv, SessionInv, ExchangedOnce, Stage,
      Unused, Busy, Moves, Stays
  <2>7. HonestSession'
    BY <1>1, <1>2, <1>3, Ranges DEF IInv, SessionInv, HonestSession, Stage,
      Unused, Busy, Moves, Stays
  <2> QED
    BY <2>1, <2>2, <2>3, <2>4, <2>5, <2>6, <2>7 DEF SessionInv
<1>6. ReferenceInv'
  <2>1. Known'
    BY <1>1, <1>2, <1>3, HeldAt, NotASession, ParametersAssumption DEF
      IInv, ReferenceInv, Known, Created, Current, Safe, Moves, Stays
  <2>2. Created'
    BY <1>1, <1>2, <1>3, HeldAt, NotASession, ParametersAssumption DEF
      IInv, ReferenceInv, Known, Created, Current, Safe, Moves, Stays
  <2>3. Current'
    BY <1>1, <1>2, <1>3, HeldAt, NotASession, ParametersAssumption DEF
      IInv, ReferenceInv, Known, Created, Current, Safe, Moves, Stays
  <2> QED
    BY <2>1, <2>2, <2>3 DEF ReferenceInv
<1>7. NothingLeaks'
  <2> SUFFICES ASSUME NEW x \in stored', x \notin abandoned'
               PROVE  HasOwner(x)'
    BY DEF NothingLeaks
  <2>1. x \in stored /\ HasOwner(x)
    BY <1>1, <1>2, <1>3 DEF IInv, NothingLeaks
  <2>2. CASE x = callbacks[k].session
    BY <1>1, <1>2, <1>3, <2>2 DEF HasOwner
  <2>3. CASE x # callbacks[k].session
    BY <1>1, <1>2, <1>3, <2>1, <2>3, HeldAt DEF HasOwner, Owes, Moves
  <2> QED
    BY <2>2, <2>3
<1> QED
  BY <1>4, <1>5, <1>6, <1>7 DEF IInv

LEMMA AbandonCallbackStep ==
    ASSUME IInv, NEW k \in Callbacks, AbandonCallback(k)
    PROVE  IInv'
<1>1. /\ callbacks[k].pc # "idle"
      /\ deaths < MaxDeaths /\ deaths' = deaths + 1
      /\ abandoned' = abandoned \cup (Owes(k) \cap stored)
      /\ UNCHANGED <<row, sessions, queue, stored, written, openers, removers,
                     expiring, persisted, exchanges>>
  BY DEF AbandonCallback, Die, rows
<1>2. Moves(k, "idle", None, None, None)
  BY CleanMoves DEF AbandonCallback, IInv, Types
<1>3. Types'
  <2>1. TypeOK'
    BY <1>1, <1>2, HeldAt, ParametersAssumption
       DEF IInv, Types, TypeOK, SessionType, Moves, Stays,
         Secrets
  <2>2. Placed'
    BY <1>1, <1>2, HeldAt, ParametersAssumption
       DEF IInv, Types, Placed, Busy, Moves, Stays
  <2> QED
    BY <2>1, <2>2 DEF Types
<1>4. SessionInv'
  <2>1. Unopened'
    BY <1>1, <1>2, Ranges DEF IInv, SessionInv, Unopened, Unused, Busy,
      Moves, Stays
  <2>2. Unused'
    BY <1>1, <1>2, Ranges DEF IInv, SessionInv, Unused, Unopened,
      ExpiringIsExpired, Busy, Moves, Stays
  <2>3. OneCallback'
    BY <1>1, <1>2, Ranges DEF IInv, SessionInv, OneCallback, Unused, Busy,
      Moves, Stays
  <2>4. Stage'
    BY <1>1, <1>2, Ranges DEF IInv, SessionInv, Stage, Unused, OneCallback,
      HonestSession, Busy, Moves, Stays
  <2>5. ExpiringIsExpired'
    BY <1>1, <1>2, Ranges DEF IInv, SessionInv, ExpiringIsExpired, Unused,
      Busy, Moves, Stays
  <2>6. ExchangedOnce'
    BY <1>1, <1>2, Ranges DEF IInv, SessionInv, ExchangedOnce, Stage,
      Unused, Busy, Moves, Stays
  <2>7. HonestSession'
    BY <1>1, <1>2, Ranges DEF IInv, SessionInv, HonestSession, Stage,
      Unused, Busy, Moves, Stays
  <2> QED
    BY <2>1, <2>2, <2>3, <2>4, <2>5, <2>6, <2>7 DEF SessionInv
<1>5. ReferenceInv'
  <2>1. Known'
    BY <1>1, <1>2, HeldAt DEF IInv, ReferenceInv, Known, Created, Current,
      Safe, Moves, Stays
  <2>2. Created'
    BY <1>1, <1>2, HeldAt DEF IInv, ReferenceInv, Known, Created, Current,
      Safe, Moves, Stays
  <2>3. Current'
    BY <1>1, <1>2, HeldAt DEF IInv, ReferenceInv, Known, Created, Current,
      Safe, Moves, Stays
  <2> QED
    BY <2>1, <2>2, <2>3 DEF ReferenceInv
<1>6. NothingLeaks'
  BY <1>1, <1>2, HeldAt
     DEF IInv, NothingLeaks, HasOwner, Owes, Moves, Stays
<1> QED
  BY <1>3, <1>4, <1>5, <1>6 DEF IInv

\* The exchange succeeds: only the stage and the generation change.
LEMMA ExchangeSucceeds ==
    ASSUME IInv, NEW k \in Callbacks, Exchange(k), UNCHANGED sessions,
           sessions[callbacks[k].session].status # "expired",
           callbacks' = [callbacks EXCEPT ![k] =
             [@ EXCEPT !.pc = "creating", !.known = row.status # "absent",
                       !.generation = row.generation + 1]]
    PROVE  IInv'
<1>1. /\ callbacks[k].pc = "exchanging"
      /\ exchanges' = [exchanges EXCEPT ![callbacks[k].session] = @ + 1]
      /\ UNCHANGED <<row, sessions, queue, stored, written, openers, removers,
                     expiring, persisted, abandoned, deaths>>
  BY DEF Exchange
<1>2. Stays(k, "creating") /\ callbacks'[k].generation = row.generation + 1
  <2>1. row.generation + 1 \in 0..(MaxGeneration + 1)
    BY ParametersAssumption DEF IInv, Types, TypeOK, Generation, NoRow
  <2>2. (row.status # "absent") \in BOOLEAN /\ TypeOK
    BY DEF IInv, Types
  <2> QED
    BY <2>1, <2>2, ExchangeMoves
<1>3. /\ callbacks[k].session \in Sessions /\ exchanges[callbacks[k].session] = 0
      /\ row.generation \in Nat
  BY <1>1, HeldAt, ParametersAssumption
     DEF IInv, Types, SessionInv, Stage, TypeOK, Generation, NoRow
<1>4. /\ exchanges' \in [Sessions -> Nat] /\ exchanges'[callbacks[k].session] = 1
      /\ \A t \in Sessions \ {callbacks[k].session} : exchanges'[t] = exchanges[t]
  BY <1>1, <1>3 DEF IInv, Types, TypeOK
<1>5. Types'
  <2>1. TypeOK'
    BY <1>1, <1>2, <1>3, <1>4, HeldAt, ParametersAssumption
       DEF IInv, Types, TypeOK, SessionType, Moves, Stays
  <2>2. Placed'
    BY <1>1, <1>2, <1>3, HeldAt
       DEF IInv, Types, Placed, Busy, Moves, Stays
  <2> QED
    BY <2>1, <2>2 DEF Types
<1>6. SessionInv'
  <2>1. Unopened'
    BY <1>1, <1>2, <1>3, <1>4, Ranges DEF IInv, SessionInv, Unopened,
      Unused, Busy, Moves, Stays
  <2>2. Unused'
    BY <1>1, <1>2, <1>3, <1>4, Ranges DEF IInv, SessionInv, Unused,
      Unopened, ExpiringIsExpired, Busy, Moves, Stays
  <2>3. OneCallback'
    BY <1>1, <1>2, <1>3, <1>4, Ranges DEF IInv, SessionInv, OneCallback,
      Unused, Busy, Moves, Stays
  <2>4. Stage'
    BY <1>1, <1>2, <1>3, <1>4, Ranges DEF IInv, SessionInv, Stage, Unused,
      OneCallback, HonestSession, Busy, Moves, Stays
  <2>5. ExpiringIsExpired'
    BY <1>1, <1>2, <1>3, <1>4, Ranges DEF IInv, SessionInv,
      ExpiringIsExpired, Unused, Busy, Moves, Stays
  <2>6. ExchangedOnce'
    BY <1>1, <1>2, <1>3, <1>4, Ranges DEF IInv, SessionInv, ExchangedOnce,
      Stage, Unused, Busy, Moves, Stays
  <2>7. HonestSession'
    BY <1>1, <1>2, <1>3, <1>4, Ranges DEF IInv, SessionInv, HonestSession,
      Stage, Unused, Busy, Moves, Stays
  <2> QED
    BY <2>1, <2>2, <2>3, <2>4, <2>5, <2>6, <2>7 DEF SessionInv
<1>7. ReferenceInv'
  <2>1. Known'
    BY <1>1, <1>2, HeldAt DEF IInv, ReferenceInv, Known, Created, Current,
      Safe, Moves, Stays
  <2>2. Created'
    BY <1>1, <1>2, HeldAt DEF IInv, ReferenceInv, Known, Created, Current,
      Safe, Moves, Stays
  <2>3. Current'
    BY <1>1, <1>2, HeldAt DEF IInv, ReferenceInv, Known, Created, Current,
      Safe, Moves, Stays
  <2> QED
    BY <2>1, <2>2, <2>3 DEF ReferenceInv
<1>8. NothingLeaks'
  BY <1>1, <1>2, HeldAt DEF IInv, NothingLeaks, HasOwner, Owes, Moves, Stays
<1> QED
  BY <1>5, <1>6, <1>7, <1>8 DEF IInv

\* The session is late by now, or the exchange fails.
LEMMA ExchangeFails ==
    ASSUME IInv, NEW k \in Callbacks, Exchange(k), EndSession(k, "failed")
    PROVE  IInv'
<1>1. /\ callbacks[k].pc = "exchanging"
      /\ exchanges' = [exchanges EXCEPT ![callbacks[k].session] = @ + 1]
      /\ UNCHANGED <<row, queue, stored, written, openers, removers, expiring,
                     persisted, abandoned, deaths>>
  BY DEF Exchange
<1>2. /\ Moves(k, "cleaning", callbacks[k].session, None, None)
      /\ callbacks[k].session \in Sessions
      /\ sessions' \in SessionType
      /\ sessions'[callbacks[k].session].status =
           IF sessions[callbacks[k].session].status = "pending"
           THEN "failed" ELSE sessions[callbacks[k].session].status
      /\ \A t \in Sessions \ {callbacks[k].session} : sessions'[t] = sessions[t]
  BY <1>1, EndSessionIs
<1>3. callbacks[k].session \in Sessions /\ exchanges[callbacks[k].session] = 0
  BY <1>1, HeldAt DEF IInv, SessionInv, Stage
<1>4. /\ exchanges' \in [Sessions -> Nat] /\ exchanges'[callbacks[k].session] = 1
      /\ \A t \in Sessions \ {callbacks[k].session} : exchanges'[t] = exchanges[t]
  BY <1>1, <1>3 DEF IInv, Types, TypeOK
<1>5. Types'
  <2>1. TypeOK'
    BY <1>1, <1>2, <1>3, <1>4, HeldAt, ParametersAssumption
       DEF IInv, Types, TypeOK, SessionType, Moves, Stays
  <2>2. Placed'
    BY <1>1, <1>2, <1>3, <1>4, HeldAt, ParametersAssumption
       DEF IInv, Types, Placed, Busy, Moves, Stays
  <2> QED
    BY <2>1, <2>2 DEF Types
<1>6. SessionInv'
  <2>1. Unopened'
    BY <1>1, <1>2, <1>3, <1>4, Ranges DEF IInv, SessionInv, Unopened,
      Unused, Busy, Moves
  <2>2. Unused'
    BY <1>1, <1>2, <1>3, <1>4, Ranges DEF IInv, SessionInv, Unused,
      Unopened, ExpiringIsExpired, Busy, Moves
  <2>3. OneCallback'
    BY <1>1, <1>2, <1>3, <1>4, Ranges DEF IInv, SessionInv, OneCallback,
      Unused, Busy, Moves
  <2>4. Stage'
    BY <1>1, <1>2, <1>3, <1>4, Ranges DEF IInv, SessionInv, Stage, Unused,
      OneCallback, HonestSession, Busy, Moves
  <2>5. ExpiringIsExpired'
    BY <1>1, <1>2, <1>3, <1>4, Ranges DEF IInv, SessionInv,
      ExpiringIsExpired, Unused, Busy, Moves
  <2>6. ExchangedOnce'
    BY <1>1, <1>2, <1>3, <1>4, Ranges DEF IInv, SessionInv, ExchangedOnce,
      Stage, Unused, Busy, Moves
  <2>7. HonestSession'
    BY <1>1, <1>2, <1>3, <1>4, Ranges DEF IInv, SessionInv, HonestSession,
      Stage, Unused, Busy, Moves
  <2> QED
    BY <2>1, <2>2, <2>3, <2>4, <2>5, <2>6, <2>7 DEF SessionInv
<1>7. ReferenceInv'
  <2>1. Known'
    BY <1>1, <1>2, HeldAt DEF IInv, ReferenceInv, Known, Created, Current,
      Safe, Moves
  <2>2. Created'
    BY <1>1, <1>2, HeldAt DEF IInv, ReferenceInv, Known, Created, Current,
      Safe, Moves
  <2>3. Current'
    BY <1>1, <1>2, HeldAt DEF IInv, ReferenceInv, Known, Created, Current,
      Safe, Moves
  <2> QED
    BY <2>1, <2>2, <2>3 DEF ReferenceInv
<1>8. NothingLeaks'
  BY <1>1, <1>2, HeldAt DEF IInv, NothingLeaks, HasOwner, Owes, Moves
<1> QED
  BY <1>5, <1>6, <1>7, <1>8 DEF IInv

\* The reference is new: nobody names it.
LEMMA CreateGrantStep ==
    ASSUME IInv, NEW k \in Callbacks, CreateGrant(k)
    PROVE  IInv'
<1> PICK g \in References :
      /\ written[g] = 0 /\ stored' = stored \cup {g}
      /\ written' = [written EXCEPT ![g] = callbacks[k].generation]
      /\ callbacks' = [callbacks EXCEPT ![k] =
           [@ EXCEPT !.pc = "created", !.generation = 0, !.reference = g]]
  BY DEF CreateGrant
<1>1. /\ callbacks[k].pc = "creating"
      /\ UNCHANGED <<row, sessions, queue, openers, removers, expiring, persisted,
                     exchanges, abandoned, deaths>>
  BY DEF CreateGrant, rows, notes
<1>2. Moves(k, "created", callbacks[k].session, g, callbacks[k].previous)
  BY CreateGrantMoves DEF IInv, Types
<1>3. /\ callbacks[k].generation \in 0..(MaxGeneration + 1)
      /\ callbacks[k].generation # 0
  <2>1. callbacks[k] \in CallbackState
    BY CallbackFields DEF IInv, Types
  <2> QED
    BY <1>1, <2>1 DEF CallbackState, IInv, Types, Placed
<1>4. /\ written' \in [References -> 0..(MaxGeneration + 1)] /\ written'[g] # 0
      /\ \A h \in References \ {g} : written'[h] = written[h]
  BY <1>3 DEF IInv, Types, TypeOK
<1>5. Safe(g)' /\ g # row.reference
      /\ \A l \in Callbacks : callbacks[l].reference # g
  <2>1. /\ g \notin queue /\ g # row.reference
        /\ \A l \in Callbacks :
             callbacks[l].reference # g /\ callbacks[l].previous # g
        /\ \A r \in Removers : removers[r].reference # g
    BY DEF IInv, ReferenceInv, Known
  <2> QED
    BY <1>1, <1>2, <2>1, HeldAt, ParametersAssumption DEF Safe, Moves
<1>6. Types'
  <2>1. TypeOK'
    BY <1>1, <1>2, <1>4, HeldAt, ParametersAssumption
       DEF IInv, Types, TypeOK, SessionType, Moves, Stays, Secrets
  <2>2. Placed'
    BY <1>1, <1>2, <1>4, HeldAt, ParametersAssumption
       DEF IInv, Types, Placed, Busy, Moves, Stays
  <2> QED
    BY <2>1, <2>2 DEF Types
<1>7. SessionInv'
  <2>1. Unopened'
    BY <1>1, <1>2, HeldAt, Ranges DEF IInv, SessionInv, Unopened, Unused,
      Busy, Moves
  <2>2. Unused'
    BY <1>1, <1>2, HeldAt, Ranges DEF IInv, SessionInv, Unused, Unopened,
      ExpiringIsExpired, Busy, Moves
  <2>3. OneCallback'
    BY <1>1, <1>2, HeldAt, Ranges DEF IInv, SessionInv, OneCallback,
      Unused, Busy, Moves
  <2>4. Stage'
    BY <1>1, <1>2, HeldAt, Ranges DEF IInv, SessionInv, Stage, Unused,
      OneCallback, HonestSession, Busy, Moves
  <2>5. ExpiringIsExpired'
    BY <1>1, <1>2, HeldAt, Ranges DEF IInv, SessionInv, ExpiringIsExpired,
      Unused, Busy, Moves
  <2>6. ExchangedOnce'
    BY <1>1, <1>2, HeldAt, Ranges DEF IInv, SessionInv, ExchangedOnce,
      Stage, Unused, Busy, Moves
  <2>7. HonestSession'
    BY <1>1, <1>2, HeldAt, Ranges DEF IInv, SessionInv, HonestSession,
      Stage, Unused, Busy, Moves
  <2> QED
    BY <2>1, <2>2, <2>3, <2>4, <2>5, <2>6, <2>7 DEF SessionInv
<1>8. ReferenceInv'
  <2>1. Known'
    BY <1>1, <1>2, <1>4, <1>5, HeldAt DEF IInv, ReferenceInv, Known,
      Created, Current, Safe, Moves
  <2>2. Created'
    BY <1>1, <1>2, <1>4, <1>5, HeldAt DEF IInv, ReferenceInv, Known,
      Created, Current, Safe, Moves
  <2>3. Current'
    BY <1>1, <1>2, <1>4, <1>5, HeldAt DEF IInv, ReferenceInv, Known,
      Created, Current, Safe, Moves
  <2> QED
    BY <2>1, <2>2, <2>3 DEF ReferenceInv
<1>9. NothingLeaks'
  <2> SUFFICES ASSUME NEW x \in stored', x \notin abandoned'
               PROVE  HasOwner(x)'
    BY DEF NothingLeaks
  <2>1. CASE x = g
    <3>1. g \in Owes(k)'
      BY <1>2, ParametersAssumption DEF Owes, Moves
    <3> QED
      BY <2>1, <3>1 DEF HasOwner
  <2>2. CASE x # g
    <3>1. x \in stored /\ HasOwner(x)
      BY <1>1, <2>2 DEF IInv, NothingLeaks
    <3> QED
      BY <1>1, <1>2, <3>1, HeldAt DEF HasOwner, Owes, Moves
  <2> QED
    BY <2>1, <2>2
<1> QED
  BY <1>6, <1>7, <1>8, <1>9 DEF IInv

LEMMA PersistNewStep ==
    ASSUME IInv, NEW k \in Callbacks, PersistNew(k)
    PROVE  IInv'
<1> DEFINE g == callbacks[k].reference
<1>1. /\ callbacks[k].pc = "created" /\ row.status = "absent"
      /\ row' = [status |-> "connected", generation |-> 1, reference |-> g]
      /\ persisted' = persisted \cup {callbacks[k].session}
      /\ UNCHANGED <<sessions, queue, stored, written, openers, removers, expiring,
                     exchanges, abandoned, deaths>>
  BY DEF PersistNew
<1>2. Moves(k, "persisted", callbacks[k].session, None, None)
  BY CallbackKeepsMoves DEF PersistNew, IInv, Types
<1>3. /\ g \in References /\ callbacks[k].session \in Sessions
      /\ row'.status = "connected" /\ row'.reference = g
      /\ row' \in [status: {"connected", "removal_pending"},
                   generation: Generation \ {0}, reference: References]
  BY <1>1, HeldAt, ParametersAssumption DEF Generation
<1>4. /\ Safe(g) /\ \A l \in Callbacks \ {k} : callbacks[l].reference # g
      /\ row.reference = None
  <2>1. Safe(g) /\ \A l \in Callbacks \ {k} : callbacks[l].reference # g
    BY <1>1 DEF IInv, ReferenceInv, Created
  <2>2. row.reference = None
    BY <1>1 DEF IInv, Types, TypeOK, NoRow
  <2> QED
    BY <2>1, <2>2
<1> HIDE DEF g
<1>5. Types'
  <2>1. TypeOK'
    BY <1>1, <1>2, <1>3, HeldAt, ParametersAssumption
       DEF IInv, Types, TypeOK, SessionType, Moves, Stays
  <2>2. Placed'
    BY <1>1, <1>2, <1>3, HeldAt, ParametersAssumption
       DEF IInv, Types, Placed, Busy, Moves, Stays
  <2> QED
    BY <2>1, <2>2 DEF Types
<1>6. SessionInv'
  <2>1. Unopened'
    BY <1>1, <1>2, <1>3, Ranges DEF IInv, SessionInv, Unopened, Unused,
      Busy, Moves
  <2>2. Unused'
    BY <1>1, <1>2, <1>3, Ranges DEF IInv, SessionInv, Unused, Unopened,
      ExpiringIsExpired, Busy, Moves
  <2>3. OneCallback'
    BY <1>1, <1>2, <1>3, Ranges DEF IInv, SessionInv, OneCallback, Unused,
      Busy, Moves
  <2>4. Stage'
    BY <1>1, <1>2, <1>3, Ranges DEF IInv, SessionInv, Stage, Unused,
      OneCallback, HonestSession, Busy, Moves
  <2>5. ExpiringIsExpired'
    BY <1>1, <1>2, <1>3, Ranges DEF IInv, SessionInv, ExpiringIsExpired,
      Unused, Busy, Moves
  <2>6. ExchangedOnce'
    BY <1>1, <1>2, <1>3, Ranges DEF IInv, SessionInv, ExchangedOnce, Stage,
      Unused, Busy, Moves
  <2>7. HonestSession'
    BY <1>1, <1>2, <1>3, Ranges DEF IInv, SessionInv, HonestSession, Stage,
      Unused, Busy, Moves
  <2> QED
    BY <2>1, <2>2, <2>3, <2>4, <2>5, <2>6, <2>7 DEF SessionInv
<1>7. ReferenceInv'
  <2>1. Known'
    BY <1>1, <1>2, <1>3, <1>4, HeldAt DEF IInv, ReferenceInv, Known, Moves, g
  <2>2. Created'
    BY <1>1, <1>2, <1>3, <1>4, HeldAt DEF IInv, ReferenceInv, Created, Safe, Moves
  <2>3. Current'
    BY <1>1, <1>2, <1>3, <1>4, HeldAt, ParametersAssumption DEF Current, Safe,
      Moves
  <2> QED
    BY <2>1, <2>2, <2>3 DEF ReferenceInv
<1>8. NothingLeaks'
  <2> SUFFICES ASSUME NEW x \in stored', x \notin abandoned'
               PROVE  HasOwner(x)'
    BY DEF NothingLeaks
  <2>1. x \in stored /\ HasOwner(x) /\ x # None
    BY <1>1, ParametersAssumption DEF IInv, NothingLeaks, Types, TypeOK, Secrets
  <2>2. CASE x = g
    BY <1>3, <2>2 DEF HasOwner
  <2>3. CASE x # g
    BY <1>1, <1>2, <1>4, <2>1, <2>3, HeldAt DEF HasOwner, Owes, Moves, g
  <2> QED
    BY <2>2, <2>3
<1> QED
  BY <1>5, <1>6, <1>7, <1>8 DEF IInv

LEMMA PersistReplacementStep ==
    ASSUME IInv, NEW k \in Callbacks, PersistReplacement(k)
    PROVE  IInv'
<1> DEFINE g == callbacks[k].reference
<1>1. /\ callbacks[k].pc = "created" /\ row.status # "absent"
      /\ row.generation < MaxGeneration
      /\ row' = [status |-> "connected", generation |-> row.generation + 1,
                 reference |-> g]
      /\ persisted' = persisted \cup {callbacks[k].session}
      /\ UNCHANGED <<sessions, queue, stored, written, openers, removers, expiring,
                     exchanges, abandoned, deaths>>
  BY DEF PersistReplacement
<1>2. row.reference \in References /\ row.generation \in Generation \ {0}
  BY <1>1 DEF IInv, Types, TypeOK, NoRow
<1>3. Moves(k, "replaced", callbacks[k].session, None, row.reference)
  BY <1>2, CallbackKeepsMoves DEF PersistReplacement, IInv, Types
<1>4. /\ g \in References /\ callbacks[k].session \in Sessions
      /\ row'.status = "connected" /\ row'.reference = g
      /\ row' \in [status: {"connected", "removal_pending"},
                   generation: Generation \ {0}, reference: References]
  BY <1>1, <1>2, HeldAt, ParametersAssumption DEF Generation
<1>5. /\ Safe(g) /\ \A l \in Callbacks \ {k} : callbacks[l].reference # g
      /\ row.reference # g
  BY <1>1 DEF IInv, ReferenceInv, Created
<1>6. \A l \in Callbacks : callbacks[l].pc = "created" /\ l # k =>
        Safe(callbacks[l].reference) /\ callbacks[l].reference # row.reference
  BY DEF IInv, ReferenceInv, Created
<1> HIDE DEF g
<1>7. Types'
  <2>1. TypeOK'
    BY <1>1, <1>2, <1>3, <1>4, HeldAt, ParametersAssumption
       DEF IInv, Types, TypeOK, SessionType, Moves, Stays
  <2>2. Placed'
    BY <1>1, <1>2, <1>3, <1>4, HeldAt, ParametersAssumption
       DEF IInv, Types, Placed, Busy, Moves, Stays
  <2> QED
    BY <2>1, <2>2 DEF Types
<1>8. SessionInv'
  <2>1. Unopened'
    BY <1>1, <1>3, <1>4, Ranges DEF IInv, SessionInv, Unopened, Unused,
      Busy, Moves
  <2>2. Unused'
    BY <1>1, <1>3, <1>4, Ranges DEF IInv, SessionInv, Unused, Unopened,
      ExpiringIsExpired, Busy, Moves
  <2>3. OneCallback'
    BY <1>1, <1>3, <1>4, Ranges DEF IInv, SessionInv, OneCallback, Unused,
      Busy, Moves
  <2>4. Stage'
    BY <1>1, <1>3, <1>4, Ranges DEF IInv, SessionInv, Stage, Unused,
      OneCallback, HonestSession, Busy, Moves
  <2>5. ExpiringIsExpired'
    BY <1>1, <1>3, <1>4, Ranges DEF IInv, SessionInv, ExpiringIsExpired,
      Unused, Busy, Moves
  <2>6. ExchangedOnce'
    BY <1>1, <1>3, <1>4, Ranges DEF IInv, SessionInv, ExchangedOnce, Stage,
      Unused, Busy, Moves
  <2>7. HonestSession'
    BY <1>1, <1>3, <1>4, Ranges DEF IInv, SessionInv, HonestSession, Stage,
      Unused, Busy, Moves
  <2> QED
    BY <2>1, <2>2, <2>3, <2>4, <2>5, <2>6, <2>7 DEF SessionInv
<1>9. ReferenceInv'
  <2>1. Known'
    BY <1>1, <1>2, <1>3, <1>4, HeldAt DEF IInv, ReferenceInv, Known, Moves, g
  <2>2. Created'
    BY <1>1, <1>2, <1>3, <1>4, <1>5, <1>6, HeldAt
       DEF IInv, ReferenceInv, Created, Safe, Moves
  <2>3. Current'
    BY <1>1, <1>3, <1>4, <1>5, HeldAt, ParametersAssumption DEF Current, Safe,
      Moves
  <2> QED
    BY <2>1, <2>2, <2>3 DEF ReferenceInv
<1>10. NothingLeaks'
  <2> SUFFICES ASSUME NEW x \in stored', x \notin abandoned'
               PROVE  HasOwner(x)'
    BY DEF NothingLeaks
  <2>1. x \in stored /\ HasOwner(x) /\ x # None
    BY <1>1, ParametersAssumption DEF IInv, NothingLeaks, Types, TypeOK, Secrets
  <2>2. CASE x = g
    BY <1>4, <2>2 DEF HasOwner
  <2>3. CASE x = row.reference
    <3>1. x \in Owes(k)'
      BY <1>3, <2>1, <2>3 DEF Owes, Moves
    <3> QED
      BY <3>1 DEF HasOwner
  <2>4. CASE x # g /\ x # row.reference
    BY <1>1, <1>3, <2>1, <2>4, HeldAt DEF HasOwner, Owes, Moves, g
  <2> QED
    BY <2>2, <2>3, <2>4
<1> QED
  BY <1>7, <1>8, <1>9, <1>10 DEF IInv

---------------------------------------------------------------------------
(* The disconnection *)

RemoverState ==
    [pc: {"idle", "deleting", "guide"}, reference: References \cup {None}]

\* Remover r goes to another stage; the others stay where they are.
Removes(r, pc, g) ==
    /\ removers' \in [Removers -> RemoverState]
    /\ removers'[r].pc = pc /\ removers'[r].reference = g
    /\ \A q \in Removers \ {r} : removers'[q] = removers[q]

LEMMA RecordRemoves ==
    ASSUME TypeOK, NEW r \in Removers, NEW new \in RemoverState,
           removers' = [removers EXCEPT ![r] = new]
    PROVE  Removes(r, new.pc, new.reference)
<1>1. removers \in [Removers -> RemoverState]
  BY DEF TypeOK, RemoverState
<1> QED
  BY <1>1 DEF Removes

LEMMA RemoverAtRemoves ==
    ASSUME TypeOK, NEW r \in Removers, RemoverAt(r, "guide")
    PROVE  Removes(r, "guide", removers[r].reference)
<1>1. removers \in [Removers -> RemoverState]
  BY DEF TypeOK, RemoverState
<1>2. removers' = [removers EXCEPT ![r].pc = "guide"]
  BY DEF RemoverAt
<1> QED
  BY <1>1, <1>2 DEF Removes, RemoverState

LEMMA IdleRemoves ==
    ASSUME TypeOK, NEW r \in Removers,
           removers' = [removers EXCEPT ![r] = IdleRemover]
    PROVE  Removes(r, "idle", None)
<1>1. /\ IdleRemover \in RemoverState /\ IdleRemover.pc = "idle"
      /\ IdleRemover.reference = None
  BY DEF IdleRemover, RemoverState
<1> HIDE DEF IdleRemover
<1> QED
  BY <1>1, RecordRemoves

LEMMA RowNamed ==
    ASSUME IInv, row.status = "connected"
    PROVE  row.reference \in References
  BY DEF IInv, Types, TypeOK, NoRow

LEMMA BeginRemovalStep ==
    ASSUME IInv, NEW r \in Removers, BeginRemoval(r)
    PROVE  IInv'
<1>1. /\ row.status # "absent" /\ row.generation < MaxGeneration
      /\ removers[r].pc = "idle"
      /\ row' = [row EXCEPT !.status = "removal_pending", !.generation = @ + 1]
      /\ removers' = [removers EXCEPT ![r] =
                       [pc |-> "deleting", reference |-> row.reference]]
      /\ UNCHANGED <<sessions, queue, stored, written, openers, callbacks,
                     expiring, persisted, exchanges, abandoned, deaths>>
  BY DEF BeginRemoval, notes
<1>2. row \in [status: {"connected", "removal_pending"},
               generation: Generation \ {0}, reference: References]
  BY <1>1 DEF IInv, Types, TypeOK, NoRow
<1>3. /\ row' \in [status: {"connected", "removal_pending"},
                   generation: Generation \ {0}, reference: References]
      /\ row'.status = "removal_pending" /\ row'.reference = row.reference
  <2> DEFINE a == [row EXCEPT !.status = "removal_pending"]
  <2>1. /\ a \in [status: {"connected", "removal_pending"},
                  generation: Generation \ {0}, reference: References]
        /\ a.status = "removal_pending" /\ a.reference = row.reference
        /\ a.generation = row.generation
    BY <1>2
  <2>2. row.generation + 1 \in Generation \ {0}
    BY <1>1, <1>2, ParametersAssumption DEF Generation
  <2>3. row' = [a EXCEPT !.generation = row.generation + 1]
    BY <1>1, <1>2
  <2> HIDE DEF a
  <2> QED
    BY <2>1, <2>2, <2>3
<1>4. Removes(r, "deleting", row.reference)
  <2> DEFINE b == [pc |-> "deleting", reference |-> row.reference]
  <2>1. b \in RemoverState /\ b.pc = "deleting" /\ b.reference = row.reference
    BY <1>2 DEF RemoverState
  <2>2. removers' = [removers EXCEPT ![r] = b]
    BY <1>1
  <2> HIDE DEF b
  <2> QED
    BY <2>1, <2>2, RecordRemoves DEF IInv, Types
<1>5. Types'
  <2>1. TypeOK'
    BY <1>1, <1>2, <1>3, <1>4, ParametersAssumption
       DEF IInv, Types, TypeOK, Removes, RemoverState
  <2>2. Placed'
    BY <1>1, <1>2, <1>3, <1>4, ParametersAssumption DEF IInv, Types, Placed, Busy,
      Removes
  <2> QED
    BY <2>1, <2>2 DEF Types
<1>6. SessionInv'
  <2>1. Unopened'
    BY <1>1, Ranges DEF IInv, SessionInv, Unopened, Unused, Busy
  <2>2. Unused'
    BY <1>1, Ranges DEF IInv, SessionInv, Unused, Unopened,
      ExpiringIsExpired, Busy
  <2>3. OneCallback'
    BY <1>1, Ranges DEF IInv, SessionInv, OneCallback, Unused, Busy
  <2>4. Stage'
    BY <1>1, Ranges DEF IInv, SessionInv, Stage, Unused, OneCallback,
      HonestSession, Busy
  <2>5. ExpiringIsExpired'
    BY <1>1, Ranges DEF IInv, SessionInv, ExpiringIsExpired, Unused, Busy
  <2>6. ExchangedOnce'
    BY <1>1, Ranges DEF IInv, SessionInv, ExchangedOnce, Stage, Unused, Busy
  <2>7. HonestSession'
    BY <1>1, Ranges DEF IInv, SessionInv, HonestSession, Stage, Unused, Busy
  <2> QED
    BY <2>1, <2>2, <2>3, <2>4, <2>5, <2>6, <2>7 DEF SessionInv
<1>7. ReferenceInv'
  <2>1. Known'
    BY <1>1, <1>2, <1>3, <1>4 DEF IInv, ReferenceInv, Known, Created,
      Current, Safe, Removes
  <2>2. Created'
    BY <1>1, <1>2, <1>3, <1>4 DEF IInv, ReferenceInv, Known, Created,
      Current, Safe, Removes
  <2>3. Current'
    BY <1>1, <1>2, <1>3, <1>4 DEF IInv, ReferenceInv, Known, Created,
      Current, Safe, Removes
  <2> QED
    BY <2>1, <2>2, <2>3 DEF ReferenceInv
<1>8. NothingLeaks'
  BY <1>1, <1>3, <1>4 DEF IInv, NothingLeaks, HasOwner, Owes, Removes
<1> QED
  BY <1>5, <1>6, <1>7, <1>8 DEF IInv

LEMMA DeleteCredentialStep ==
    ASSUME IInv, NEW r \in Removers, DeleteCredential(r)
    PROVE  IInv'
<1>1. /\ removers[r].pc = "deleting"
      /\ stored' = stored \ {removers[r].reference}
      /\ UNCHANGED <<row, sessions, queue, written, openers, callbacks, expiring,
                     persisted, exchanges, abandoned, deaths>>
  BY DEF DeleteCredential, rows, notes
<1>2. Removes(r, "guide", removers[r].reference)
  BY RemoverAtRemoves DEF DeleteCredential, IInv, Types
<1>3. Types'
  <2>1. TypeOK'
    BY <1>1, <1>2, ParametersAssumption
       DEF IInv, Types, TypeOK, Removes, RemoverState
  <2>2. Placed'
    BY <1>1, <1>2, ParametersAssumption DEF IInv, Types, Placed, Busy, Removes
  <2> QED
    BY <2>1, <2>2 DEF Types
<1>4. SessionInv'
  <2>1. Unopened'
    BY <1>1, NotASession, Ranges DEF IInv, SessionInv, Unopened, Unused,
      Busy
  <2>2. Unused'
    BY <1>1, NotASession, Ranges DEF IInv, SessionInv, Unused, Unopened,
      ExpiringIsExpired, Busy
  <2>3. OneCallback'
    BY <1>1, NotASession, Ranges DEF IInv, SessionInv, OneCallback, Unused,
      Busy
  <2>4. Stage'
    BY <1>1, NotASession, Ranges DEF IInv, SessionInv, Stage, Unused,
      OneCallback, HonestSession, Busy
  <2>5. ExpiringIsExpired'
    BY <1>1, NotASession, Ranges DEF IInv, SessionInv, ExpiringIsExpired,
      Unused, Busy
  <2>6. ExchangedOnce'
    BY <1>1, NotASession, Ranges DEF IInv, SessionInv, ExchangedOnce,
      Stage, Unused, Busy
  <2>7. HonestSession'
    BY <1>1, NotASession, Ranges DEF IInv, SessionInv, HonestSession,
      Stage, Unused, Busy
  <2> QED
    BY <2>1, <2>2, <2>3, <2>4, <2>5, <2>6, <2>7 DEF SessionInv
<1>5. ReferenceInv'
  <2>1. Known'
    BY <1>1, <1>2 DEF IInv, ReferenceInv, Known, Created, Current, Safe,
      Removes
  <2>2. Created'
    BY <1>1, <1>2 DEF IInv, ReferenceInv, Known, Created, Current, Safe,
      Removes
  <2>3. Current'
    BY <1>1, <1>2 DEF IInv, ReferenceInv, Known, Created, Current, Safe,
      Removes
  <2> QED
    BY <2>1, <2>2, <2>3 DEF ReferenceInv
<1>6. NothingLeaks'
  BY <1>1, <1>2 DEF IInv, NothingLeaks, HasOwner, Owes, Removes
<1> QED
  BY <1>3, <1>4, <1>5, <1>6 DEF IInv

LEMMA CompleteRemovalStep ==
    ASSUME IInv, NEW r \in Removers, CompleteRemoval(r)
    PROVE  IInv'
<1>1. /\ removers[r].pc = "guide"
      /\ UNCHANGED <<queue, stored, written, openers, callbacks, expiring,
                     persisted, exchanges, deaths>>
  BY DEF CompleteRemoval
<1>2. Removes(r, "idle", None)
  BY IdleRemoves DEF CompleteRemoval, IInv, Types
<1>3. /\ \/ row' = row /\ abandoned' = abandoned
         \/ /\ row' = NoRow
            /\ abandoned' = abandoned \cup ({row.reference} \cap stored)
      /\ sessions' \in SessionType
      /\ \A s \in Sessions : sessions'[s].status = sessions[s].status
  <2>1. sessions \in SessionType
    BY DEF IInv, Types, TypeOK, SessionType
  <2>2. CASE row.status = "removal_pending"
    <3>1. /\ row' = NoRow /\ abandoned' = abandoned \cup ({row.reference} \cap stored)
          /\ sessions' = [s \in Sessions |->
                            [sessions[s] EXCEPT !.reauthorize = FALSE]]
      BY <2>2 DEF CompleteRemoval
    <3>2. ASSUME NEW s \in Sessions
          PROVE  /\ [sessions[s] EXCEPT !.reauthorize = FALSE] \in
                      [status: {"none", "required", "pending"} \cup Terminal,
                       reauthorize: BOOLEAN]
                 /\ [sessions[s] EXCEPT !.reauthorize = FALSE].status
                      = sessions[s].status
      BY <2>1 DEF SessionType
    <3> QED
      BY <3>1, <3>2 DEF SessionType
  <2>3. CASE row.status # "removal_pending"
    BY <2>1, <2>3 DEF CompleteRemoval
  <2> QED
    BY <2>2, <2>3
<1>4. NoRow.status = "absent" /\ NoRow.reference = None
  BY DEF NoRow
<1>5. Types'
  <2>1. TypeOK'
    BY <1>1, <1>2, <1>3, ParametersAssumption
       DEF IInv, Types, TypeOK, Removes, RemoverState, SessionType
  <2>2. Placed'
    BY <1>1, <1>2, <1>3, ParametersAssumption DEF IInv, Types, Placed, Busy,
      Removes
  <2> QED
    BY <2>1, <2>2 DEF Types
<1>6. SessionInv'
  <2>1. Unopened'
    BY <1>1, <1>3, Ranges DEF IInv, SessionInv, Unopened, Unused, Busy
  <2>2. Unused'
    BY <1>1, <1>3, Ranges DEF IInv, SessionInv, Unused, Unopened,
      ExpiringIsExpired, Busy
  <2>3. OneCallback'
    BY <1>1, <1>3, Ranges DEF IInv, SessionInv, OneCallback, Unused, Busy
  <2>4. Stage'
    BY <1>1, <1>3, Ranges DEF IInv, SessionInv, Stage, Unused, OneCallback,
      HonestSession, Busy
  <2>5. ExpiringIsExpired'
    BY <1>1, <1>3, Ranges DEF IInv, SessionInv, ExpiringIsExpired, Unused,
      Busy
  <2>6. ExchangedOnce'
    BY <1>1, <1>3, Ranges DEF IInv, SessionInv, ExchangedOnce, Stage,
      Unused, Busy
  <2>7. HonestSession'
    BY <1>1, <1>3, Ranges DEF IInv, SessionInv, HonestSession, Stage,
      Unused, Busy
  <2> QED
    BY <2>1, <2>2, <2>3, <2>4, <2>5, <2>6, <2>7 DEF SessionInv
<1>7. ReferenceInv'
  <2>1. Known'
    BY <1>1, <1>2, <1>3, <1>4, HeldAt, RowNamed, ParametersAssumption DEF
      IInv, ReferenceInv, Known, Created, Current, Safe, Removes
  <2>2. Created'
    BY <1>1, <1>2, <1>3, <1>4, HeldAt, RowNamed, ParametersAssumption DEF
      IInv, ReferenceInv, Known, Created, Current, Safe, Removes
  <2>3. Current'
    BY <1>1, <1>2, <1>3, <1>4, HeldAt, RowNamed, ParametersAssumption DEF
      IInv, ReferenceInv, Known, Created, Current, Safe, Removes
  <2> QED
    BY <2>1, <2>2, <2>3 DEF ReferenceInv
<1>8. NothingLeaks'
  BY <1>1, <1>2, <1>3 DEF IInv, NothingLeaks, HasOwner, Owes, Removes
<1> QED
  BY <1>5, <1>6, <1>7, <1>8 DEF IInv

LEMMA LeaveRemovalStep ==
    ASSUME IInv, NEW r \in Removers, LeaveRemoval(r)
    PROVE  IInv'
<1>1. /\ removers[r].pc # "idle"
      /\ abandoned' = abandoned \cup
           IF removers[r].pc = "deleting" /\ removers[r].reference # row.reference
           THEN {removers[r].reference} \cap stored ELSE {}
      /\ UNCHANGED <<row, sessions, queue, stored, written, openers, callbacks,
                     expiring, persisted, exchanges, deaths>>
  BY DEF LeaveRemoval, rows
<1>2. Removes(r, "idle", None)
  BY IdleRemoves DEF LeaveRemoval, IInv, Types
<1>3. /\ abandoned \subseteq abandoned'
      /\ abandoned' \subseteq abandoned \cup stored
      /\ removers[r].pc = "deleting" /\ removers[r].reference # row.reference
         /\ removers[r].reference \in stored
           => removers[r].reference \in abandoned'
  BY <1>1
<1>4. Types'
  <2>1. TypeOK'
    BY <1>1, <1>2, <1>3, ParametersAssumption
       DEF IInv, Types, TypeOK, Removes, RemoverState
  <2>2. Placed'
    BY <1>1, <1>2, <1>3, ParametersAssumption DEF IInv, Types, Placed, Busy,
      Removes
  <2> QED
    BY <2>1, <2>2 DEF Types
<1>5. SessionInv'
  <2>1. Unopened'
    BY <1>1, Ranges DEF IInv, SessionInv, Unopened, Unused, Busy
  <2>2. Unused'
    BY <1>1, Ranges DEF IInv, SessionInv, Unused, Unopened,
      ExpiringIsExpired, Busy
  <2>3. OneCallback'
    BY <1>1, Ranges DEF IInv, SessionInv, OneCallback, Unused, Busy
  <2>4. Stage'
    BY <1>1, Ranges DEF IInv, SessionInv, Stage, Unused, OneCallback,
      HonestSession, Busy
  <2>5. ExpiringIsExpired'
    BY <1>1, Ranges DEF IInv, SessionInv, ExpiringIsExpired, Unused, Busy
  <2>6. ExchangedOnce'
    BY <1>1, Ranges DEF IInv, SessionInv, ExchangedOnce, Stage, Unused, Busy
  <2>7. HonestSession'
    BY <1>1, Ranges DEF IInv, SessionInv, HonestSession, Stage, Unused, Busy
  <2> QED
    BY <2>1, <2>2, <2>3, <2>4, <2>5, <2>6, <2>7 DEF SessionInv
<1>6. ReferenceInv'
  <2>1. Known'
    BY <1>1, <1>2, HeldAt, RowNamed, ParametersAssumption DEF IInv,
      ReferenceInv, Known, Created, Current, Safe, Removes
  <2>2. Created'
    BY <1>1, <1>2, HeldAt, RowNamed, ParametersAssumption DEF IInv,
      ReferenceInv, Known, Created, Current, Safe, Removes
  <2>3. Current'
    BY <1>1, <1>2, HeldAt, RowNamed, ParametersAssumption DEF IInv,
      ReferenceInv, Known, Created, Current, Safe, Removes
  <2> QED
    BY <2>1, <2>2, <2>3 DEF ReferenceInv
<1>7. NothingLeaks'
  BY <1>1, <1>2, <1>3 DEF IInv, NothingLeaks, HasOwner, Owes, Removes
<1> QED
  BY <1>4, <1>5, <1>6, <1>7 DEF IInv

---------------------------------------------------------------------------
(* The invariant *)

LEMMA InitEstablishes ==
    ASSUME Init
    PROVE  IInv
<1>1. /\ \A k \in Callbacks : /\ callbacks[k] = IdleCallback
                              /\ callbacks[k].pc = "idle"
                              /\ callbacks[k].session = None
                              /\ callbacks[k].reference = None
                              /\ callbacks[k].previous = None
      /\ callbacks \in [Callbacks -> CallbackState]
  BY ParametersAssumption DEF Init, IdleCallback, Holding, CallbackState
<1>2. /\ \A r \in Removers : removers[r].pc = "idle" /\ removers[r].reference = None
      /\ removers \in [Removers -> RemoverState]
  BY DEF Init, IdleRemover, RemoverState
<1>3. /\ \A s \in Sessions : sessions[s].status = "none" /\ exchanges[s] = 0
                             /\ openers[s].pc = "idle"
      /\ sessions \in SessionType /\ openers \in OpenerType
      /\ exchanges \in [Sessions -> Nat]
      /\ queue = {} /\ expiring = {} /\ persisted = {} /\ abandoned = {}
      /\ deaths = 0
  BY DEF Init, SessionType, OpenerType
<1>4. /\ row \in {NoRow} \cup
           [status: {"connected", "removal_pending"},
            generation: Generation \ {0}, reference: References]
      /\ written \in [References -> 0..(MaxGeneration + 1)]
      /\ stored \subseteq {row.reference} /\ stored \subseteq References
      /\ row.status = "connected" => row.reference \in stored
      /\ row.reference \in References \cup {None}
      /\ \A g \in References : g = row.reference => written[g] # 0
  <2>1. CASE row = NoRow /\ stored = {} /\ written = [g \in References |-> 0]
    BY <2>1, ParametersAssumption DEF NoRow
  <2>2. CASE \E g \in References :
               /\ row = [status |-> "connected", generation |-> 1,
                         reference |-> g]
               /\ stored = {g}
               /\ written = [h \in References |-> IF h = g THEN 1 ELSE 0]
    <3> PICK g \in References :
          /\ row = [status |-> "connected", generation |-> 1, reference |-> g]
          /\ stored = {g}
          /\ written = [h \in References |-> IF h = g THEN 1 ELSE 0]
      BY <2>2
    <3> QED
      BY ParametersAssumption DEF Generation
  <2> QED
    BY <2>1, <2>2 DEF Init
<1>5. Types
  BY <1>1, <1>2, <1>3, <1>4, ParametersAssumption
     DEF Types, TypeOK, Placed, Busy, Secrets, SessionType, OpenerType,
         RemoverState
<1>6. SessionInv
  BY <1>1, <1>3 DEF SessionInv, Unopened, Unused, OneCallback, Stage,
       ExpiringIsExpired, ExchangedOnce, HonestSession, Busy
<1>7. ReferenceInv
  BY <1>1, <1>2, <1>3, <1>4, ParametersAssumption
     DEF ReferenceInv, Known, Created, Current, Safe
<1>8. NothingLeaks
  BY <1>4 DEF NothingLeaks, HasOwner
<1> QED
  BY <1>5, <1>6, <1>7, <1>8 DEF IInv

LEMMA StutterKeeps ==
    ASSUME IInv, UNCHANGED vars
    PROVE  IInv'
<1>1. UNCHANGED <<row, sessions, queue, stored, written, openers, callbacks,
                  removers, expiring, persisted, exchanges, abandoned, deaths>>
  BY DEF vars, rows, calls, notes
<1>2. Types'
  BY <1>1 DEF IInv, Types, TypeOK, Placed, Busy
<1>3. SessionInv'
  <2>1. Unopened'
    BY <1>1, Ranges DEF IInv, SessionInv, Unopened, Unused, Busy
  <2>2. Unused'
    BY <1>1, Ranges DEF IInv, SessionInv, Unused, Unopened,
      ExpiringIsExpired, Busy
  <2>3. OneCallback'
    BY <1>1, Ranges DEF IInv, SessionInv, OneCallback, Unused, Busy
  <2>4. Stage'
    BY <1>1, Ranges DEF IInv, SessionInv, Stage, Unused, OneCallback,
      HonestSession, Busy
  <2>5. ExpiringIsExpired'
    BY <1>1, Ranges DEF IInv, SessionInv, ExpiringIsExpired, Unused, Busy
  <2>6. ExchangedOnce'
    BY <1>1, Ranges DEF IInv, SessionInv, ExchangedOnce, Stage, Unused, Busy
  <2>7. HonestSession'
    BY <1>1, Ranges DEF IInv, SessionInv, HonestSession, Stage, Unused, Busy
  <2> QED
    BY <2>1, <2>2, <2>3, <2>4, <2>5, <2>6, <2>7 DEF SessionInv
<1>4. ReferenceInv'
  <2>1. Known'
    BY <1>1 DEF IInv, ReferenceInv, Known, Created, Current, Safe
  <2>2. Created'
    BY <1>1 DEF IInv, ReferenceInv, Known, Created, Current, Safe
  <2>3. Current'
    BY <1>1 DEF IInv, ReferenceInv, Known, Created, Current, Safe
  <2> QED
    BY <2>1, <2>2, <2>3 DEF ReferenceInv
<1>5. NothingLeaks'
  BY <1>1 DEF IInv, NothingLeaks, HasOwner, Owes
<1> QED
  BY <1>2, <1>3, <1>4, <1>5 DEF IInv

LEMMA ExchangeStep ==
    ASSUME IInv, NEW k \in Callbacks, Exchange(k)
    PROVE  IInv'
  BY ExchangeSucceeds, ExchangeFails DEF Exchange

LEMMA NextKeeps ==
    ASSUME IInv, [Next]_vars
    PROVE  IInv'
<1>1. ASSUME NEW s \in Sessions, Opening(s) PROVE IInv'
  BY <1>1, OpenCheckStep, CreateSessionStep, DropVerifierStep, AbandonOpeningStep
     DEF Opening
<1>2. ASSUME NEW s \in Sessions, Ending(s) PROVE IInv'
  BY <1>2, DeleteExpiredStep, AbandonExpiredStep, CancelStep, DeleteCancelledStep
     DEF Ending
<1>3. ASSUME NEW k \in Callbacks, Completing(k) PROVE IInv'
  BY <1>3, ConsumeStep, ReadVerifierStep, ExchangeStep, FailStep, CreateGrantStep,
     PersistNewStep, PersistReplacementStep, RefuseStep, DiscardStep,
     DeletePreviousStep, SetConnectedStep, DeleteVerifierStep, AbandonCallbackStep
     DEF Completing
<1>4. ASSUME NEW r \in Removers, Removing(r) PROVE IInv'
  BY <1>4, BeginRemovalStep, DeleteCredentialStep, CompleteRemovalStep,
     LeaveRemovalStep DEF Removing
<1> QED
  BY <1>1, <1>2, <1>3, <1>4, ExpireStep, DrainStep, StutterKeeps DEF Next

---------------------------------------------------------------------------
(* Theorems *)

\* The inductive invariant holds.
THEOREM InductiveInvariant == Spec => []IInv
<1>1. Init => IInv
  BY InitEstablishes
<1>2. IInv /\ [Next]_vars => IInv'
  BY NextKeeps
<1> QED
  BY <1>1, <1>2, PTL DEF Spec

\* Rows, secrets and local states have the values TypeOK names.
THEOREM TypeCorrect == Spec => []TypeOK
<1>1. IInv => TypeOK
  BY DEF IInv, Types
<1> QED
  BY <1>1, InductiveInvariant, PTL

\* No deletion hits the grant of a usable row, nor the verifier of a session
\* that waits for its callback.
THEOREM LiveSecretsAreKept == Spec => []LiveSecretsKept
<1>1. IInv => LiveSecretsKept
  BY DEF IInv, LiveSecretsKept, ReferenceInv, Current, Safe, SessionInv, Unused
<1> QED
  BY <1>1, InductiveInvariant, PTL

\* Each stored secret has an owner, or its owner died or gave up.
THEOREM SecretsAreOwned == Spec => []NothingLeaks
<1>1. IInv => NothingLeaks
  BY DEF IInv
<1> QED
  BY <1>1, InductiveInvariant, PTL

\* No authorization code is exchanged twice.
THEOREM CodesAreExchangedOnce == Spec => []ExchangedOnce
<1>1. IInv => ExchangedOnce
  BY DEF IInv, SessionInv
<1> QED
  BY <1>1, InductiveInvariant, PTL

\* What a session says is what became of its grant.
THEOREM SessionsAreHonest == Spec => []HonestSession
<1>1. IInv => HonestSession
  BY DEF IInv, SessionInv
<1> QED
  BY <1>1, InductiveInvariant, PTL

LEMMA TerminalKept ==
    ASSUME IInv, [Next]_vars, NEW s \in Sessions, sessions[s].status \in Terminal
    PROVE  sessions'[s].status = sessions[s].status
<1>1. /\ sessions \in SessionType /\ TypeOK
      /\ sessions[s].status \notin {"none", "required", "pending"}
  BY DEF IInv, Types, TypeOK, SessionType, Terminal
<1>2. ASSUME NEW t \in Sessions, NEW from \in {"required", "pending"}, NEW status,
             SetTerminal(t, from, status)
      PROVE  sessions'[s].status = sessions[s].status
  BY <1>1, <1>2 DEF SetTerminal, SessionType
<1>3. ASSUME NEW t \in Sessions, Opening(t) \/ Ending(t)
      PROVE  sessions'[s].status = sessions[s].status
  <2>1. CASE CreateSession(t)
    <3>1. sessions[t].status = "none"
      BY <2>1 DEF CreateSession, IInv, SessionInv, Unopened
    <3> QED
      BY <1>1, <2>1, <3>1 DEF CreateSession, SessionType
  <2>2. CASE Cancel(t)
    BY <1>2, <2>2 DEF Cancel
  <2>3. CASE ~CreateSession(t) /\ ~Cancel(t)
    <3>1. UNCHANGED sessions
      BY <1>3, <2>3 DEF Opening, Ending, OpenCheck, DropVerifier, AbandonOpening,
           DeleteExpired, AbandonExpired, DeleteCancelled, rows
    <3> QED
      BY <3>1
  <2> QED
    BY <2>1, <2>2, <2>3
<1>4. ASSUME NEW over \in SUBSET Sessions, Expire(over)
      PROVE  sessions'[s].status = sessions[s].status
  BY <1>1, <1>4 DEF Expire, SessionType
<1>5. ASSUME NEW k \in Callbacks, Completing(k)
      PROVE  sessions'[s].status = sessions[s].status
  <2>1. CASE \E t \in Sessions : Consume(k, t)
    BY <1>1, <2>1 DEF Consume, CanConsume, SessionType
  <2>2. ASSUME NEW status, EndSession(k, status), callbacks[k].pc # "idle"
        PROVE  sessions'[s].status = sessions[s].status
    BY <1>2, <2>2, HeldAt DEF EndSession
  <2>3. CASE \/ Exchange(k) \/ Fail(k) \/ Discard(k) \/ DeletePrevious(k)
             \/ SetConnected(k)
    BY <2>2, <2>3 DEF Exchange, Fail, Discard, DeletePrevious, SetConnected
  <2>4. CASE \/ ReadVerifier(k) \/ CreateGrant(k) \/ PersistNew(k)
             \/ PersistReplacement(k) \/ Refuse(k) \/ DeleteVerifier(k)
             \/ AbandonCallback(k)
    <3>1. UNCHANGED sessions
      BY <2>4 DEF ReadVerifier, CreateGrant, PersistNew, PersistReplacement,
        Refuse,
           DeleteVerifier, AbandonCallback, rows
    <3> QED
      BY <3>1
  <2> QED
    BY <1>5, <2>1, <2>3, <2>4 DEF Completing
<1>6. ASSUME NEW r \in Removers, Removing(r)
      PROVE  sessions'[s].status = sessions[s].status
  BY <1>1, <1>6 DEF Removing, BeginRemoval, DeleteCredential, CompleteRemoval,
       LeaveRemoval, rows, SessionType
<1>7. CASE UNCHANGED vars \/ \E x \in Secrets : Drain(x)
  BY <1>7 DEF vars, rows, Drain
<1> QED
  BY <1>3, <1>4, <1>5, <1>6, <1>7 DEF Next

\* A session that has ended stays as it ended.
THEOREM TerminalsAreFinal == Spec => TerminalIsFinal
<1>1. IInv /\ [Next]_vars => [\A s \in Sessions :
        sessions[s].status \in Terminal
        => sessions'[s].status = sessions[s].status]_vars
  BY TerminalKept
<1> QED
  BY <1>1, InductiveInvariant, PTL DEF Spec, TerminalIsFinal

---------------------------------------------------------------------------
(* The listener of the callbacks *)

\* What belongs to a process says which.
ListenerPlaced ==
    \A c \in Calls :
      /\ stage[c] # "new" => at[c] \in Procs
      /\ session[c] # "none" => stage[c] # "new"
      /\ conn[c].phase # "none" => conn[c].proc \in Procs

ListenerTypes == ListenerTypeOK /\ ListenerPlaced

\* A listener is bound to a call, so the shutdown finds it.
Deaf == StoppedIsDeaf /\ \A p \in Procs : listening[p] => bound[p] # Nobody

\* A process past the wait has no lease.
Leases ==
    /\ NoStrayLease
    /\ \A p \in Procs : run[p] \in {"closing", "stopped"} => lease.owner # p

\* A process past a wait whose limit has not passed has no calls left.
Quiet ==
    \A p \in Procs :
      /\ touched[p] => expired[p]
      /\ run[p] \in {"closing", "stopped"} /\ ~expired[p] =>
           \A c \in Calls : at[c] = p => stage[c] \notin {"begun", "heard"}

\* The listener is closed before its close is awaited.
Unhindered == \A p \in Procs : awaited[p] = 0

\* The listener has been there since the call made sure of it.
Heard ==
    \A c \in Calls :
      /\ stage[c] = "heard" \/ session[c] = "open"
      /\ run[at[c]] \in {"new", "running"}
      => \/ listening[at[c]]
         \/ closedFor[at[c]] \in {"abort", "lease", "error"}
         \/ closedFor[at[c]] = "idle" /\ early[c]

ListenerIInv ==
    ListenerTypes /\ Deaf /\ Unhindered /\ Leases /\ Quiet /\ Heard

---------------------------------------------------------------------------
(* Types *)

LEMMA LeaseTypes ==
    ASSUME ListenerTypeOK, NEW p \in Procs
    PROVE  /\ Lease(p) \in [owner: Procs \cup {Nobody}, expires: 0..(MaxClock + LeaseTtl)]
           /\ Released(p) \in [owner: Procs \cup {Nobody}, expires: 0..(MaxClock + LeaseTtl)]
           /\ NoLease \in [owner: Procs \cup {Nobody}, expires: 0..(MaxClock + LeaseTtl)]
  BY ListenerAssumption DEF ListenerTypeOK, Lease, Released, NoLease

LEMMA CloseTypes ==
    ASSUME ListenerTypeOK, NEW p \in Procs,
           NEW why \in {"nothing", "idle", "abort", "lease", "error"}, Close(p, why)
    PROVE  /\ listening' \in [Procs -> BOOLEAN]
           /\ remembered' \in [Procs -> BOOLEAN]
           /\ bound' \in [Procs -> Calls \cup {Nobody}]
           /\ lease' \in [owner: Procs \cup {Nobody}, expires: 0..(MaxClock + LeaseTtl)]
           /\ closedFor' \in [Procs -> {"nothing", "idle", "abort", "lease", "error"}]
           /\ early' \in [Calls -> BOOLEAN]
<1>1. lease' \in [owner: Procs \cup {Nobody}, expires: 0..(MaxClock + LeaseTtl)]
  BY LeaseTypes DEF Close, ListenerTypeOK
<1>2. early' \in [Calls -> BOOLEAN]
  BY Zenon DEF Close, ListenerTypeOK
<1> QED
  BY <1>1, <1>2 DEF Close, ListenerTypeOK

LEMMA CloseIfIdleTypes ==
    ASSUME ListenerTypeOK, NEW p \in Procs, CloseIfIdle(p)
    PROVE  /\ listening' \in [Procs -> BOOLEAN]
           /\ remembered' \in [Procs -> BOOLEAN]
           /\ bound' \in [Procs -> Calls \cup {Nobody}]
           /\ lease' \in [owner: Procs \cup {Nobody}, expires: 0..(MaxClock + LeaseTtl)]
           /\ closedFor' \in [Procs -> {"nothing", "idle", "abort", "lease", "error"}]
           /\ early' \in [Calls -> BOOLEAN]
<1>1. CASE Close(p, "idle")
  BY <1>1, CloseTypes
<1>2. CASE UNCHANGED <<lease, listener>>
  BY <1>2 DEF listener, ListenerTypeOK
<1> QED
  BY <1>1, <1>2 DEF CloseIfIdle

LEMMA TypesInitially == ListenerInit => ListenerTypes
  BY ListenerAssumption DEF ListenerInit, ListenerTypes, ListenerTypeOK,
    ListenerPlaced, NoLease, NoConn

\* The steps of a call of connect_character.
CallStep(c) ==
    \/ \E p \in Procs : Begin(c, p)
    \/ EnsureListening(c) \/ OpenSession(c) \/ Abort(c)

\* Those of its session and its callback.
SessionStep(c) ==
    \/ Lapse(c) \/ Handled(c) \/ HangUp(c)
    \/ \E p \in Procs : CancelSession(c, p) \/ Callback(c, p)

\* Those of a process.
ProcessStep(p) ==
    \/ StartProcess(p) \/ Status(p) \/ Renew(p)
    \/ ServerError(p) \/ BeginShutdown(p) \/ LimitPasses(p) \/ AwaitListener(p)
    \/ FinishShutdown(p) \/ Crash(p)

LEMMA CallTypes ==
    ASSUME ListenerTypes, NEW c \in Calls, CallStep(c)
    PROVE  ListenerTypeOK'
<1>1. ASSUME NEW p \in Procs, Begin(c, p) PROVE ListenerTypeOK'
  BY <1>1 DEF Begin, ListenerTypes, ListenerTypeOK, listener, wait
<1>2. CASE EnsureListening(c)
  <2>1. at[c] \in Procs
    <3>1. stage[c] = "begun"
      BY <1>2 DEF EnsureListening
    <3> QED
      BY <3>1 DEF ListenerTypes, ListenerPlaced
  <2>2. stage' \in [Calls -> {"new", "begun", "heard", "refused", "ended"}]
    BY <1>2, SMTT(60) DEF EnsureListening, Start, Leave, ListenerTypes,
      ListenerTypeOK
  <2>3. /\ UNCHANGED <<clock, run, at, aborted, session, conn, expired, awaited>>
        /\ touched' \in [Procs -> BOOLEAN]
    BY <1>2, <2>1 DEF EnsureListening, Touches, wait, ListenerTypes, ListenerTypeOK
  <2>4. CASE UNCHANGED <<lease, listener, serial>>
    BY <2>2, <2>4, <2>3 DEF ListenerTypes, ListenerTypeOK, listener
  <2>5. CASE Start(c, at[c])
    <3>1. lease' \in [owner: Procs \cup {Nobody}, expires: 0..(MaxClock + LeaseTtl)]
      <4>1. ListenerTypeOK
        BY DEF ListenerTypes
      <4>2. /\ lease \in [owner: Procs \cup {Nobody}, expires: 0..(MaxClock + LeaseTtl)]
            /\ Lease(at[c]) \in [owner: Procs \cup {Nobody},
                                 expires: 0..(MaxClock + LeaseTtl)]
            /\ NoLease \in [owner: Procs \cup {Nobody}, expires: 0..(MaxClock + LeaseTtl)]
        BY <2>1, <4>1, LeaseTypes DEF ListenerTypeOK
      <4>3. lease' \in {lease, Lease(at[c]), NoLease}
        BY <2>5 DEF Start, AfterFailure
      <4> QED
        BY <4>2, <4>3
    <3>2. /\ listening' \in [Procs -> BOOLEAN] /\ remembered' \in [Procs -> BOOLEAN]
          /\ bound' \in [Procs -> Calls \cup {Nobody}] /\ serial' \in [Procs -> Nat]
          /\ UNCHANGED <<closedFor, early>>
      <4>1. \/ /\ remembered' = [remembered EXCEPT ![at[c]] = TRUE]
               /\ UNCHANGED <<listening, bound, serial, closedFor, early>>
            \/ /\ listening' = [listening EXCEPT ![at[c]] = TRUE]
               /\ bound' = [bound EXCEPT ![at[c]] = c]
               /\ serial' = [serial EXCEPT ![at[c]] = @ + 1]
               /\ UNCHANGED <<remembered, closedFor, early>>
            \/ UNCHANGED <<listening, remembered, bound, serial, closedFor, early>>
        BY <2>5 DEF Start, listener
      <4>2. /\ listening \in [Procs -> BOOLEAN] /\ remembered \in [Procs -> BOOLEAN]
            /\ bound \in [Procs -> Calls \cup {Nobody}] /\ serial \in [Procs -> Nat]
        BY DEF ListenerTypes, ListenerTypeOK
      <4>3. CASE remembered' = [remembered EXCEPT ![at[c]] = TRUE]
                 /\ UNCHANGED <<listening, bound, serial, closedFor, early>>
        BY <4>2, <4>3
      <4>4. CASE /\ listening' = [listening EXCEPT ![at[c]] = TRUE]
                 /\ bound' = [bound EXCEPT ![at[c]] = c]
                 /\ serial' = [serial EXCEPT ![at[c]] = @ + 1]
                 /\ UNCHANGED <<remembered, closedFor, early>>
        BY <2>1, <4>2, <4>4
      <4>5. CASE UNCHANGED <<listening, remembered, bound, serial, closedFor, early>>
        BY <4>2, <4>5
      <4> QED
        BY <4>1, <4>3, <4>4, <4>5
    <3> QED
      BY <2>2, <2>3, <3>1, <3>2 DEF ListenerTypes, ListenerTypeOK
  <2> QED
    BY <1>2, <2>4, <2>5 DEF EnsureListening
<1>3. CASE OpenSession(c)
  <2>1. at[c] \in Procs
    BY <1>3 DEF OpenSession, ListenerTypes, ListenerPlaced
  <2>2. touched' \in [Procs -> BOOLEAN]
    BY <1>3, <2>1 DEF OpenSession, Touches, ListenerTypes, ListenerTypeOK
  <2> QED
    BY <1>3, <2>2 DEF OpenSession, Leave, ListenerTypes, ListenerTypeOK, listener,
      wait
<1>4. CASE Abort(c)
  <2>1. at[c] \in Procs
    BY <1>4 DEF Abort, ListenerTypes, ListenerTypeOK
  <2>2. CASE Close(at[c], "abort")
    BY <1>4, <2>1, <2>2, CloseTypes DEF Abort, ListenerTypes, ListenerTypeOK,
      wait
  <2>3. CASE UNCHANGED <<lease, listener>>
    BY <1>4, <2>3 DEF Abort, ListenerTypes, ListenerTypeOK, listener, wait
  <2> QED
    BY <1>4, <2>2, <2>3 DEF Abort
<1> QED
  BY <1>1, <1>2, <1>3, <1>4 DEF CallStep

LEMMA SessionTypes ==
    ASSUME ListenerTypes, NEW c \in Calls, SessionStep(c)
    PROVE  ListenerTypeOK'
<1>1. CASE Lapse(c)
  BY <1>1 DEF Lapse, ListenerTypes, ListenerTypeOK, listener, wait
<1>2. CASE Handled(c)
  <2>1. conn[c].proc \in Procs
    BY <1>2 DEF Handled, ListenerTypes, ListenerPlaced
  <2>2. session' \in [Calls -> {"none", "open", "pending", "ended"}]
        /\ conn' \in [Calls -> [proc: Procs \cup {Nobody}, serial: Nat,
                                phase: {"none", "handling", "answered"}]]
    BY <1>2, ZenonT(60) DEF Handled, ListenerTypes, ListenerTypeOK
  <2>3. CASE UNCHANGED <<lease, listener, session>>
    BY <1>2, <2>2, <2>3 DEF Handled, ListenerTypes, ListenerTypeOK, listener,
      wait
  <2>4. CASE CloseIfIdle(conn[c].proc)
    BY <1>2, <2>1, <2>2, <2>4, CloseIfIdleTypes DEF Handled, ListenerTypes,
      ListenerTypeOK, wait
  <2> QED
    BY <1>2, <2>3, <2>4 DEF Handled
<1>3. CASE HangUp(c)
  <2>1. conn[c].proc \in Procs
    BY <1>3 DEF HangUp, ListenerTypes, ListenerPlaced
  <2>2. conn' \in [Calls -> [proc: Procs \cup {Nobody}, serial: Nat,
                            phase: {"none", "handling", "answered"}]]
    BY <1>3 DEF HangUp, NoConn, ListenerTypes, ListenerTypeOK
  <2>3. lease' \in [owner: Procs \cup {Nobody}, expires: 0..(MaxClock + LeaseTtl)]
    BY <1>3, <2>1, LeaseTypes DEF HangUp, ListenerTypes, ListenerTypeOK
  <2> QED
    BY <1>3, <2>2, <2>3 DEF HangUp, ListenerTypes, ListenerTypeOK, listener,
      wait
<1>4. ASSUME NEW p \in Procs, CancelSession(c, p) PROVE ListenerTypeOK'
  <2>1. session' \in [Calls -> {"none", "open", "pending", "ended"}]
    BY <1>4 DEF CancelSession, ListenerTypes, ListenerTypeOK
  <2>2. CASE CloseIfIdle(p)
    BY <1>4, <2>1, <2>2, CloseIfIdleTypes DEF CancelSession, ListenerTypes,
      ListenerTypeOK, wait
  <2>3. CASE UNCHANGED <<lease, listener>>
    BY <1>4, <2>1, <2>3 DEF CancelSession, ListenerTypes, ListenerTypeOK,
      listener, wait
  <2> QED
    BY <1>4, <2>2, <2>3 DEF CancelSession
<1>5. ASSUME NEW p \in Procs, Callback(c, p) PROVE ListenerTypeOK'
  <2>1. conn' \in [Calls -> [proc: Procs \cup {Nobody}, serial: Nat,
                            phase: {"none", "handling", "answered"}]]
    BY <1>5 DEF Callback, ListenerTypes, ListenerTypeOK
  <2> QED
    BY <1>5, <2>1 DEF Callback, ListenerTypes, ListenerTypeOK, listener,
      wait
<1> QED
  BY <1>1, <1>2, <1>3, <1>4, <1>5 DEF SessionStep

LEMMA ProcessTypes ==
    ASSUME ListenerTypes, NEW p \in Procs, ProcessStep(p)
    PROVE  ListenerTypeOK'
<1>1. CASE StartProcess(p)
  BY <1>1, LeaseTypes DEF StartProcess, ListenerTypes, ListenerTypeOK, listener,
    parties, wait
<1>2. CASE Status(p)
  BY <1>2, CloseTypes DEF Status, ListenerTypes, ListenerTypeOK, parties,
    wait
<1>3. CASE Renew(p)
  <2>1. CASE Close(p, "lease")
    BY <1>3, <2>1, CloseTypes DEF Renew, ListenerTypes, ListenerTypeOK, parties,
      wait
  <2>2. CASE lease' = Lease(p) /\ UNCHANGED listener
    BY <1>3, <2>2, LeaseTypes DEF Renew, ListenerTypes, ListenerTypeOK, listener,
      parties, wait
  <2> QED
    BY <1>3, <2>1, <2>2 DEF Renew
<1>4. CASE BeginShutdown(p)
  <2>1. run' \in [Procs -> {"new", "running", "stopping", "closing", "stopped", "crashed"}]
    BY <1>4 DEF BeginShutdown, ListenerTypes, ListenerTypeOK
  <2>2. CASE Close(p, "abort")
    BY <1>4, <2>1, <2>2, CloseTypes DEF BeginShutdown, AtAbort, ListenerTypes,
      ListenerTypeOK, parties, wait
  <2>3. CASE UNCHANGED <<lease, listener>>
    BY <1>4, <2>1, <2>3 DEF BeginShutdown, ListenerTypes, ListenerTypeOK,
      listener, parties, wait
  <2> QED
    BY <1>4, <2>2, <2>3 DEF BeginShutdown, AtAbort
<1>5. CASE LimitPasses(p)
  BY <1>5 DEF LimitPasses, ListenerTypes, ListenerTypeOK, listener, parties
<1>6. CASE AwaitListener(p)
  <2>1. run' \in [Procs -> {"new", "running", "stopping", "closing", "stopped", "crashed"}]
        /\ awaited' \in [Procs -> Nat]
    BY <1>6 DEF AwaitListener, ListenerTypes, ListenerTypeOK
  <2> QED
    BY <1>6, <2>1, CloseTypes DEF AwaitListener, ListenerTypes, ListenerTypeOK,
      parties
<1>7. CASE FinishShutdown(p)
  BY <1>7 DEF FinishShutdown, ListenerTypes, ListenerTypeOK, listener, parties, wait
<1>8. CASE ServerError(p)
  BY <1>8, CloseTypes DEF ServerError, ListenerTypes, ListenerTypeOK, parties, wait
<1>9. CASE Crash(p)
  <2>1. conn' \in [Calls -> [proc: Procs \cup {Nobody}, serial: Nat,
                            phase: {"none", "handling", "answered"}]]
    BY <1>9 DEF Crash, NoConn, ListenerTypes, ListenerTypeOK
  <2>2. stage' \in [Calls -> {"new", "begun", "heard", "refused", "ended"}]
    BY <1>9 DEF Crash, ListenerTypes, ListenerTypeOK
  <2> QED
    BY <1>9, <2>1, <2>2 DEF Crash, ListenerTypes, ListenerTypeOK, wait
<1> QED
  BY <1>1, <1>2, <1>3, <1>4, <1>5, <1>6, <1>7, <1>8, <1>9 DEF ProcessStep

LEMMA PlacedPreserved ==
    ASSUME ListenerTypes, [ListenerNext]_listenerVars
    PROVE  ListenerPlaced'
<1>1. ASSUME NEW c \in Calls, CallStep(c) PROVE ListenerPlaced'
  <2>1. ASSUME NEW p \in Procs, Begin(c, p) PROVE ListenerPlaced'
    BY <2>1 DEF Begin, ListenerTypes, ListenerTypeOK, ListenerPlaced
  <2>2. CASE EnsureListening(c)
    <3>1. stage[c] = "begun" /\ UNCHANGED <<at, session, conn>>
      BY <2>2 DEF EnsureListening
    <3>2. \A d \in Calls : IF d = c THEN stage'[d] # "new" ELSE stage'[d] = stage[d]
      BY <2>2 DEF EnsureListening, Start, Leave, ListenerTypes, ListenerTypeOK
    <3> QED
      BY <3>1, <3>2 DEF ListenerTypes, ListenerPlaced
  <2>3. CASE OpenSession(c)
    BY <2>3 DEF OpenSession, Leave, ListenerTypes, ListenerTypeOK, ListenerPlaced
  <2>4. CASE Abort(c)
    BY <2>4 DEF Abort, ListenerTypes, ListenerPlaced
  <2> QED
    BY <1>1, <2>1, <2>2, <2>3, <2>4 DEF CallStep
<1>2. ASSUME NEW c \in Calls, SessionStep(c) PROVE ListenerPlaced'
  <2>1. CASE Lapse(c)
    BY <2>1 DEF Lapse, ListenerTypes, ListenerTypeOK, ListenerPlaced
  <2>2. CASE Handled(c)
    BY <2>2 DEF Handled, ListenerTypes, ListenerTypeOK, ListenerPlaced
  <2>3. CASE HangUp(c)
    BY <2>3 DEF HangUp, NoConn, ListenerTypes, ListenerTypeOK, ListenerPlaced
  <2>4. ASSUME NEW p \in Procs, CancelSession(c, p) PROVE ListenerPlaced'
    BY <2>4 DEF CancelSession, ListenerTypes, ListenerTypeOK, ListenerPlaced
  <2>5. ASSUME NEW p \in Procs, Callback(c, p) PROVE ListenerPlaced'
    BY <2>5 DEF Callback, ListenerTypes, ListenerTypeOK, ListenerPlaced
  <2> QED
    BY <1>2, <2>1, <2>2, <2>3, <2>4, <2>5 DEF SessionStep
<1>3. ASSUME NEW p \in Procs, ProcessStep(p) PROVE ListenerPlaced'
  <2>1. CASE UNCHANGED parties
    BY <2>1 DEF parties, ListenerTypes, ListenerPlaced
  <2>2. CASE Crash(p)
    BY <2>2 DEF Crash, Tracked, NoConn, ListenerTypes, ListenerTypeOK,
      ListenerPlaced
  <2> QED
    BY <1>3, <2>1, <2>2
    DEF ProcessStep, StartProcess, Status, Renew, ServerError, BeginShutdown,
        LimitPasses, AwaitListener, FinishShutdown
<1>4. CASE Tick \/ UNCHANGED listenerVars
  BY <1>4 DEF Tick, parties, listenerVars, ListenerTypes, ListenerPlaced
<1> QED
  BY <1>1, <1>2, <1>3, <1>4 DEF ListenerNext, CallStep, SessionStep, ProcessStep

LEMMA TypesPreserved ==
    ASSUME ListenerTypes, [ListenerNext]_listenerVars
    PROVE  ListenerTypes'
<1>1. ListenerTypeOK'
  <2>1. CASE Tick \/ UNCHANGED listenerVars
    BY <2>1, ListenerAssumption
    DEF Tick, listenerVars, listener, parties, wait, ListenerTypes, ListenerTypeOK
  <2> QED
    BY <2>1, CallTypes, SessionTypes, ProcessTypes
    DEF ListenerNext, CallStep, SessionStep, ProcessStep
<1> QED
  BY <1>1, PlacedPreserved DEF ListenerTypes

---------------------------------------------------------------------------
(* What a step does to the listener *)

\* Close, whoever does it and why.
LEMMA CloseFacts ==
    ASSUME ListenerTypes, NEW p \in Procs, NEW why \in {"idle", "abort", "lease", "error"},
           Close(p, why)
    PROVE  /\ ~listening'[p] /\ bound'[p] = Nobody
           /\ \A q \in Procs \ {p} : /\ listening'[q] = listening[q]
                                     /\ bound'[q] = bound[q]
                                     /\ closedFor'[q] = closedFor[q]
           /\ closedFor'[p] = IF listening[p] THEN why ELSE closedFor[p]
           /\ \A c \in Calls : early[c] => early'[c]
           /\ why = "idle" =>
                \A c \in Calls : at[c] = p /\ stage[c] = "heard" => early'[c]
           /\ \/ lease' = lease
              \/ lease' = NoLease
           /\ lease'.owner = p => listening[p] /\ \E c \in Calls : conn[c].proc = p
<1>1. /\ ~listening'[p] /\ bound'[p] = Nobody
      /\ closedFor'[p] = IF listening[p] THEN why ELSE closedFor[p]
      /\ \A q \in Procs \ {p} : /\ listening'[q] = listening[q]
                                /\ bound'[q] = bound[q]
                                /\ closedFor'[q] = closedFor[q]
  BY DEF Close, ListenerTypes, ListenerTypeOK
<1>2. /\ \A c \in Calls : early[c] => early'[c]
      /\ why = "idle" =>
           \A c \in Calls : at[c] = p /\ stage[c] = "heard" => early'[c]
  BY DEF Close
<1>3. lease' = lease \/ lease' = NoLease
  BY DEF Close, Released
<1>4. lease'.owner = p => listening[p] /\ \E c \in Calls : conn[c].proc = p
  BY ListenerAssumption DEF Close, Released, NoLease, Connections
<1> QED
  BY <1>1, <1>2, <1>3, <1>4

\* No step but the three that start, renew or clear it changes a lease otherwise
\* than closing does, and only a start makes a process listen.
Starts(c) ==
    /\ stage[c] = "begun" /\ run[at[c]] = "running" /\ ~listening[at[c]]
    /\ lease' = Lease(at[c])
    /\ listening' = [listening EXCEPT ![at[c]] = TRUE]
    /\ bound' = [bound EXCEPT ![at[c]] = c]
    /\ UNCHANGED <<run, session, conn, closedFor, early, at, wait, touched>>
    /\ stage' = [stage EXCEPT ![c] = "heard"]

LEMMA ListeningShapes ==
    ASSUME ListenerTypes, [ListenerNext]_listenerVars
    PROVE  \/ \E c \in Calls : Starts(c)
           \/ \E p \in Procs, why \in {"idle", "abort", "lease", "error"} :
                Close(p, why) /\ (why = "idle" => NoneActive(session'))
           \/ \E p \in Procs : Crash(p)
           \/ /\ UNCHANGED <<listening, bound, closedFor, early>>
              /\ lease' \in {lease, NoLease} \/ \E p \in Procs : listening[p] /\ lease' = Lease(p)
<1> DEFINE Kept == /\ UNCHANGED <<listening, bound, closedFor, early>>
                   /\ \/ lease' \in {lease, NoLease}
                      \/ \E p \in Procs : listening[p] /\ lease' = Lease(p)
<1>1. ASSUME NEW c \in Calls, CallStep(c)
      PROVE  Starts(c) \/ (\E p \in Procs : Close(p, "abort")) \/ Kept
  <2>1. ASSUME NEW p \in Procs, Begin(c, p) PROVE Kept
    BY <2>1 DEF Begin, listener
  <2>2. CASE EnsureListening(c)
    <3>1. CASE UNCHANGED <<lease, listener, serial>>
      BY <3>1 DEF listener
    <3>2. CASE ~Cancelled(c) /\ ~listening[at[c]] /\ Start(c, at[c])
      <4>1. stage[c] = "begun" /\ UNCHANGED <<run, at, session, conn, wait>>
        BY <2>2 DEF EnsureListening
      <4>2. run[at[c]] = "running" /\ UNCHANGED touched
        BY <2>2, <3>2 DEF Cancelled, EnsureListening, Touches
      <4> QED
        BY <3>2, <4>1, <4>2 DEF Start, Starts, Leave, AfterFailure, listener
    <3> QED
      BY <2>2, <3>1, <3>2 DEF EnsureListening
  <2>3. CASE OpenSession(c)
    BY <2>3 DEF OpenSession, listener
  <2>4. CASE Abort(c)
    BY <2>4 DEF Abort, listener, ListenerTypes, ListenerTypeOK
  <2> QED
    BY <1>1, <2>1, <2>2, <2>3, <2>4 DEF CallStep
<1>2. ASSUME NEW c \in Calls, SessionStep(c)
      PROVE  (\E p \in Procs : Close(p, "idle") /\ NoneActive(session')) \/ Kept
  <2>1. CASE Lapse(c)
    BY <2>1 DEF Lapse, listener
  <2>2. CASE Handled(c)
    BY <2>2 DEF Handled, CloseIfIdle, listener, ListenerTypes, ListenerPlaced
  <2>3. CASE HangUp(c)
    BY <2>3 DEF HangUp, Released, listener
  <2>4. ASSUME NEW p \in Procs, CancelSession(c, p)
        PROVE  (Close(p, "idle") /\ NoneActive(session')) \/ Kept
    BY <2>4 DEF CancelSession, CloseIfIdle, listener
  <2>5. ASSUME NEW p \in Procs, Callback(c, p) PROVE Kept
    BY <2>5 DEF Callback, listener
  <2> QED
    BY <1>2, <2>1, <2>2, <2>3, <2>4, <2>5 DEF SessionStep
<1>3. ASSUME NEW p \in Procs, ProcessStep(p)
      PROVE  \/ \E why \in {"idle", "abort", "lease", "error"} :
                  Close(p, why) /\ (why = "idle" => NoneActive(session'))
             \/ Crash(p) \/ Kept
  <2>1. CASE StartProcess(p)
    BY <2>1 DEF StartProcess, listener
  <2>2. CASE Status(p)
    BY <2>2 DEF Status, parties, NoneActive
  <2>3. CASE Renew(p)
    BY <2>3 DEF Renew, listener
  <2>4. CASE BeginShutdown(p)
    BY <2>4 DEF BeginShutdown, AtAbort, listener
  <2>5. CASE ServerError(p) \/ AwaitListener(p)
    BY <2>5 DEF ServerError, AwaitListener
  <2>6. CASE LimitPasses(p) \/ FinishShutdown(p)
    BY <2>6 DEF LimitPasses, FinishShutdown, listener
  <2> QED
    BY <1>3, <2>1, <2>2, <2>3, <2>4, <2>5, <2>6 DEF ProcessStep
<1>4. CASE Tick \/ UNCHANGED listenerVars
  BY <1>4 DEF Tick, listenerVars, listener
<1> QED
  BY <1>1, <1>2, <1>3, <1>4 DEF ListenerNext, CallStep, SessionStep, ProcessStep

---------------------------------------------------------------------------
(* The parts of the invariant *)

\* How a process moves on.
LEMMA RunFacts ==
    ASSUME ListenerTypes, Deaf, [ListenerNext]_listenerVars, NEW q \in Procs
    PROVE  \/ run'[q] = run[q]
           \/ run[q] = "new" /\ run'[q] = "running" /\ listening'[q] = listening[q]
           \/ BeginShutdown(q) /\ run'[q] = "stopping" /\ ~listening'[q]
           \/ AwaitListener(q) /\ run'[q] = "closing" /\ ~listening'[q]
           \/ FinishShutdown(q) /\ run'[q] = "stopped" /\ ~listening'[q]
           \/ Crash(q) /\ run'[q] = "crashed" /\ ~listening'[q]
<1>1. CASE UNCHANGED run
  BY <1>1
<1>2. ASSUME NEW p \in Procs,
             \/ StartProcess(p) \/ BeginShutdown(p) \/ AwaitListener(p)
             \/ FinishShutdown(p) \/ Crash(p)
      PROVE  /\ p # q => run'[q] = run[q]
             /\ p = q =>
                  \/ run[q] = "new" /\ run'[q] = "running" /\ listening'[q] = listening[q]
                  \/ BeginShutdown(q) /\ run'[q] = "stopping" /\ ~listening'[q]
                  \/ AwaitListener(q) /\ run'[q] = "closing" /\ ~listening'[q]
                  \/ FinishShutdown(q) /\ run'[q] = "stopped" /\ ~listening'[q]
                  \/ Crash(q) /\ run'[q] = "crashed" /\ ~listening'[q]
  <2>1. CASE StartProcess(p)
    BY <2>1 DEF StartProcess, listener, ListenerTypes, ListenerTypeOK
  <2>2. CASE BeginShutdown(p)
    <3>1. run' = [run EXCEPT ![p] = "stopping"]
      BY <2>2 DEF BeginShutdown
    <3>2. ~listening'[p]
      <4>1. CASE Close(p, "abort")
        BY <4>1, CloseFacts
      <4>2. CASE bound[p] = Nobody /\ UNCHANGED listener
        BY <4>2 DEF Deaf, listener
      <4> QED
        BY <2>2, <4>1, <4>2 DEF BeginShutdown, AtAbort, listener
    <3> QED
      BY <2>2, <3>1, <3>2 DEF ListenerTypes, ListenerTypeOK
  <2>3. CASE AwaitListener(p)
    <3>1. run' = [run EXCEPT ![p] = "closing"] /\ ~listening'[p]
      BY <2>3, CloseFacts DEF AwaitListener
    <3> QED
      BY <2>3, <3>1 DEF ListenerTypes, ListenerTypeOK
  <2>4. CASE FinishShutdown(p)
    <3>1. run' = [run EXCEPT ![p] = "stopped"] /\ ~listening'[p]
      BY <2>4 DEF FinishShutdown, Deaf, StoppedIsDeaf, listener
    <3> QED
      BY <2>4, <3>1 DEF ListenerTypes, ListenerTypeOK
  <2>5. CASE Crash(p)
    BY <2>5, ZenonT(60) DEF Crash, ListenerTypes, ListenerTypeOK
  <2> QED
    BY <1>2, <2>1, <2>2, <2>3, <2>4, <2>5
<1>3. CASE \E c \in Calls : CallStep(c) \/ SessionStep(c)
  BY <1>3 DEF CallStep, SessionStep, Begin, EnsureListening, OpenSession, Abort,
              Lapse, Handled, HangUp, CancelSession, Callback
<1>4. CASE Tick \/ UNCHANGED listenerVars
  BY <1>4 DEF Tick, listenerVars
<1>5. CASE \E p \in Procs : \/ Status(p) \/ Renew(p)
                            \/ ServerError(p) \/ LimitPasses(p)
  BY <1>5 DEF Status, Renew, ServerError, LimitPasses
<1> QED
  BY <1>1, <1>2, <1>3, <1>4, <1>5 DEF ListenerNext, CallStep, SessionStep

LEMMA DeafPreserved ==
    ASSUME ListenerTypes, Deaf, [ListenerNext]_listenerVars
    PROVE  Deaf'
<1>1. ASSUME NEW q \in Procs, listening'[q]
      PROVE  bound'[q] # Nobody /\ (listening[q] \/ run[q] = "running")
  <2>1. ASSUME NEW c \in Calls, Starts(c)
        PROVE  bound'[q] # Nobody /\ (listening[q] \/ run[q] = "running")
    <3>1. at[c] \in Procs
      BY <2>1 DEF Starts, ListenerTypes, ListenerPlaced
    <3> QED
      BY <1>1, <2>1, <3>1, ListenerAssumption DEF Starts, Deaf, ListenerTypes,
        ListenerTypeOK
  <2>2. ASSUME NEW p \in Procs, NEW why \in {"idle", "abort", "lease", "error"},
               Close(p, why)
        PROVE  bound'[q] # Nobody /\ listening[q]
    BY <1>1, <2>2, CloseFacts DEF Deaf
  <2>3. ASSUME NEW p \in Procs, Crash(p)
        PROVE  bound'[q] # Nobody /\ listening[q]
    BY <1>1, <2>3 DEF Crash, Deaf, ListenerTypes, ListenerTypeOK
  <2>4. CASE UNCHANGED <<listening, bound>>
    BY <1>1, <2>4 DEF Deaf
  <2> QED
    BY <2>1, <2>2, <2>3, <2>4, ListeningShapes
<1>2. ASSUME NEW q \in Procs, listening'[q]
      PROVE  run'[q] = "running"
  BY <1>1, <1>2, RunFacts DEF Deaf, StoppedIsDeaf
<1> QED
  BY <1>1, <1>2 DEF Deaf, StoppedIsDeaf

LEMMA UnhinderedPreserved ==
    ASSUME ListenerTypes, Deaf, Unhindered, [ListenerNext]_listenerVars
    PROVE  Unhindered'
<1>1. ASSUME NEW p \in Procs, AwaitListener(p) PROVE Unhindered'
  <2>1. ~listening[p]
    BY <1>1 DEF AwaitListener, Deaf, StoppedIsDeaf
  <2> QED
    BY <1>1, <2>1 DEF AwaitListener, Unhindered, ListenerTypes, ListenerTypeOK
<1>2. CASE UNCHANGED awaited
  BY <1>2 DEF Unhindered
<1>3. ASSUME NEW c \in Calls, CallStep(c) \/ SessionStep(c) PROVE UNCHANGED awaited
  BY <1>3 DEF CallStep, SessionStep, Begin, EnsureListening, OpenSession, Abort,
              Lapse, Handled, HangUp, CancelSession, Callback, wait
<1>4. ASSUME NEW p \in Procs, ProcessStep(p), ~AwaitListener(p) PROVE UNCHANGED awaited
  BY <1>4 DEF ProcessStep, StartProcess, Status, Renew, ServerError, BeginShutdown,
              LimitPasses, FinishShutdown, Crash, wait
<1>5. CASE Tick \/ UNCHANGED listenerVars
  BY <1>2, <1>5 DEF Tick, listenerVars, wait
<1> QED
  BY <1>1, <1>2, <1>3, <1>4, <1>5 DEF ListenerNext, CallStep, SessionStep, ProcessStep

LEMMA QuietPreserved ==
    ASSUME ListenerTypes, Deaf, Quiet, [ListenerNext]_listenerVars
    PROVE  Quiet'
<1>1. ASSUME NEW c \in Calls, CallStep(c) PROVE Quiet'
  <2>1. ASSUME NEW p \in Procs, Begin(c, p) PROVE Quiet'
    BY <2>1 DEF Begin, wait, Quiet, ListenerTypes, ListenerTypeOK
  <2>2. CASE EnsureListening(c)
    <3>1. stage[c] = "begun" /\ UNCHANGED <<run, at, expired>> /\ Touches(at[c])
      BY <2>2 DEF EnsureListening, wait
    <3>2. \A d \in Calls : d # c => stage'[d] = stage[d]
      BY <2>2 DEF EnsureListening, Start, Leave, ListenerTypes, ListenerTypeOK
    <3>3. at[c] \in Procs
      BY <3>1 DEF ListenerTypes, ListenerPlaced
    <3> QED
      BY <3>1, <3>2, <3>3 DEF Touches, Quiet, ListenerTypes, ListenerTypeOK
  <2>3. CASE OpenSession(c)
    <3>1. at[c] \in Procs
      BY <2>3 DEF OpenSession, ListenerTypes, ListenerPlaced
    <3> QED
      BY <2>3, <3>1 DEF OpenSession, Leave, Touches, wait, Quiet, ListenerTypes,
        ListenerTypeOK
  <2>4. CASE Abort(c)
    BY <2>4 DEF Abort, wait, Quiet
  <2> QED
    BY <1>1, <2>1, <2>2, <2>3, <2>4 DEF CallStep
<1>2. ASSUME NEW c \in Calls, SessionStep(c) PROVE Quiet'
  BY <1>2 DEF SessionStep, Lapse, Handled, HangUp, CancelSession, Callback,
    wait, Quiet
<1>3. ASSUME NEW p \in Procs, ProcessStep(p) PROVE Quiet'
  <2>1. CASE \/ StartProcess(p) \/ Status(p) \/ Renew(p) \/ ServerError(p)
             \/ BeginShutdown(p) \/ FinishShutdown(p)
    BY <2>1 DEF StartProcess, Status, Renew, ServerError, BeginShutdown,
      FinishShutdown, parties, wait, Quiet, ListenerTypes, ListenerTypeOK
  <2>2. CASE LimitPasses(p)
    BY <2>2 DEF LimitPasses, parties, Quiet, ListenerTypes, ListenerTypeOK
  <2>3. CASE AwaitListener(p)
    <3>1. \A c \in Calls : at[c] = p /\ ~expired[p] => stage[c] \notin {"begun", "heard"}
      BY <2>3 DEF AwaitListener, WaitOver, TrackerIdle, Tracked
    <3> QED
      BY <2>3, <3>1 DEF AwaitListener, parties, Quiet, ListenerTypes, ListenerTypeOK
  <2>4. CASE Crash(p)
    BY <2>4 DEF Crash, wait, Quiet, ListenerTypes, ListenerTypeOK
  <2> QED
    BY <1>3, <2>1, <2>2, <2>3, <2>4 DEF ProcessStep
<1>4. CASE Tick \/ UNCHANGED listenerVars
  BY <1>4 DEF Tick, listenerVars, parties, wait, Quiet
<1> QED
  BY <1>1, <1>2, <1>3, <1>4 DEF ListenerNext, CallStep, SessionStep, ProcessStep

\* Connections end by HangUp and with their process only.
LEMMA ConnectionsStay ==
    ASSUME ListenerTypes, [ListenerNext]_listenerVars,
           NEW d \in Calls, conn[d].proc \in Procs,
           ~HangUp(d), ~Crash(conn[d].proc)
    PROVE  conn'[d].proc = conn[d].proc
<1>1. ASSUME NEW c \in Calls, CallStep(c) \/ SessionStep(c)
      PROVE  conn'[d].proc = conn[d].proc
  <2>1. CASE CallStep(c)
    BY <2>1 DEF CallStep, Begin, EnsureListening, OpenSession, Abort
  <2>2. CASE Lapse(c) \/ \E p \in Procs : CancelSession(c, p)
    BY <2>2 DEF Lapse, CancelSession
  <2>3. CASE Handled(c)
    BY <2>3 DEF Handled, ListenerTypes, ListenerTypeOK
  <2>4. CASE HangUp(c)
    BY <2>4 DEF HangUp, ListenerTypes, ListenerTypeOK
  <2>5. ASSUME NEW p \in Procs, Callback(c, p) PROVE conn'[d].proc = conn[d].proc
    BY <2>5, ListenerAssumption DEF Callback, NoConn, ListenerTypes,
      ListenerTypeOK
  <2> QED
    BY <1>1, <2>1, <2>2, <2>3, <2>4, <2>5 DEF SessionStep
<1>2. ASSUME NEW p \in Procs, ProcessStep(p) PROVE conn'[d].proc = conn[d].proc
  BY <1>2 DEF ProcessStep, StartProcess, Status, Renew, ServerError,
    BeginShutdown, LimitPasses, AwaitListener, FinishShutdown, Crash, parties, ListenerTypes, ListenerTypeOK
<1>3. CASE Tick \/ UNCHANGED listenerVars
  BY <1>3 DEF Tick, listenerVars, parties
<1> QED
  BY <1>1, <1>2, <1>3 DEF ListenerNext, CallStep, SessionStep, ProcessStep

LEMMA NoStrayPreserved ==
    ASSUME ListenerTypes, Deaf, Leases, [ListenerNext]_listenerVars,
           NEW q \in Procs, lease'.owner = q
    PROVE  run'[q] = "crashed" \/ listening'[q] \/ \E c \in Calls : conn'[c].proc = q
<1>1. CASE run[q] = "crashed"
  BY <1>1, RunFacts DEF BeginShutdown, AwaitListener, FinishShutdown, Crash
<1>2. ASSUME NEW c \in Calls, HangUp(c)
      PROVE  listening'[q] \/ run[q] = "crashed" \/ \E d \in Calls : conn'[d].proc = q
  <2>1. CASE conn[c].proc # q
    <3>1. lease.owner = q /\ UNCHANGED listening
      BY <1>2, <2>1, ListenerAssumption DEF HangUp, Released, NoLease, listener
    <3>2. \A d \in Calls : conn[d].proc = q => conn'[d].proc = q
      BY <1>2, <2>1 DEF HangUp, ListenerTypes, ListenerTypeOK
    <3> QED
      BY <3>1, <3>2 DEF Leases, NoStrayLease
  <2>2. CASE conn[c].proc = q /\ Connections(q, conn[c].serial) # {c}
    <3>1. PICK d \in Calls : d # c /\ conn[d].proc = q
      BY <2>2 DEF Connections
    <3> QED
      BY <1>2, <3>1 DEF HangUp, ListenerTypes, ListenerTypeOK
  <2>3. CASE conn[c].proc = q /\ Connections(q, conn[c].serial) = {c}
    <3>1. run[q] # "stopped"
      <4>1. lease.owner = q
        BY <1>2, ListenerAssumption DEF HangUp, Released, NoLease
      <4> QED
        BY <4>1 DEF Leases
    <3>2. CASE listening[q]
      BY <1>2, <3>2 DEF HangUp, listener
    <3>3. CASE ~listening[q]
      BY <1>2, <2>3, <3>1, <3>3, ListenerAssumption DEF HangUp, Released, NoLease
    <3> QED
      BY <3>2, <3>3
  <2> QED
    BY <2>1, <2>2, <2>3
<1>3. ASSUME NEW p \in Procs, Crash(p)
      PROVE  run'[q] = "crashed" \/ listening'[q] \/ \E d \in Calls : conn'[d].proc = q
  <2>1. CASE p = q
    BY <1>3, <2>1 DEF Crash, ListenerTypes, ListenerTypeOK
  <2>2. CASE p # q
    <3>1. lease.owner = q /\ listening'[q] = listening[q] /\ run'[q] = run[q]
      BY <1>3, <2>2 DEF Crash, ListenerTypes, ListenerTypeOK
    <3>2. \A d \in Calls : conn[d].proc = q => conn'[d].proc = q
      BY <1>3, <2>2 DEF Crash, ListenerTypes, ListenerTypeOK
    <3> QED
      BY <3>1, <3>2 DEF Leases, NoStrayLease
  <2> QED
    BY <2>1, <2>2
<1>4. CASE /\ run[q] # "crashed"
           /\ ~ \E c \in Calls : HangUp(c)
           /\ ~ \E p \in Procs : Crash(p)
  <2>1. \A d \in Calls : conn[d].proc = q => conn'[d].proc = q
    BY <1>4, ConnectionsStay
  <2>2. lease.owner = q => listening[q] \/ \E d \in Calls : conn[d].proc = q
    BY <1>4 DEF Leases, NoStrayLease
  <2>3. ASSUME NEW c \in Calls, Starts(c)
        PROVE  listening'[q]
    BY <2>3 DEF Starts, Lease, ListenerTypes, ListenerTypeOK
  <2>4. ASSUME NEW p \in Procs, NEW why \in {"idle", "abort", "lease", "error"},
               Close(p, why)
        PROVE  listening'[q] \/ \E d \in Calls : conn'[d].proc = q
    <3>1. CASE p = q
      BY <2>1, <2>4, <3>1, CloseFacts
    <3>2. CASE p # q
      <4>1. lease.owner = q /\ listening'[q] = listening[q]
        BY <2>4, <3>2, CloseFacts, ListenerAssumption DEF NoLease
      <4> QED
        BY <2>1, <2>2, <4>1
    <3> QED
      BY <3>1, <3>2
  <2>5. CASE /\ UNCHANGED listening
             /\ \/ lease' \in {lease, NoLease}
                \/ \E p \in Procs : listening[p] /\ lease' = Lease(p)
    <3>1. listening[q] \/ lease.owner = q
      BY <2>5, ListenerAssumption DEF NoLease, Lease
    <3> QED
      BY <2>1, <2>2, <2>5, <3>1
  <2> QED
    BY <1>4, <2>3, <2>4, <2>5, ListeningShapes
<1> QED
  BY <1>1, <1>2, <1>3, <1>4, RunFacts

LEMMA LeasesPreserved ==
    ASSUME ListenerTypes, Deaf, Leases, [ListenerNext]_listenerVars
    PROVE  Leases'
<1>1. ASSUME NEW q \in Procs, run'[q] \in {"closing", "stopped"}, lease'.owner = q
      PROVE  FALSE
  <2>1. CASE AwaitListener(q)
    <3>1. listening[q]
      BY <1>1, <2>1, CloseFacts DEF AwaitListener
    <3> QED
      BY <2>1, <3>1 DEF AwaitListener, Deaf, StoppedIsDeaf
  <2>2. CASE run[q] \in {"closing", "stopped"}
    <3>1. lease.owner # q /\ ~listening[q]
      BY <2>2 DEF Leases, Deaf, StoppedIsDeaf
    <3>2. ASSUME NEW c \in Calls, Starts(c) PROVE FALSE
      BY <1>1, <2>2, <3>2 DEF Starts, Lease
    <3>3. ASSUME NEW p \in Procs, NEW why \in {"idle", "abort", "lease", "error"},
                 Close(p, why)
          PROVE  FALSE
      BY <1>1, <3>1, <3>3, CloseFacts, ListenerAssumption DEF NoLease
    <3>4. ASSUME NEW p \in Procs, Crash(p) PROVE FALSE
      BY <1>1, <3>1, <3>4 DEF Crash
    <3>5. CASE \/ lease' \in {lease, NoLease}
               \/ \E p \in Procs : listening[p] /\ lease' = Lease(p)
      BY <1>1, <3>1, <3>5, ListenerAssumption DEF NoLease, Lease
    <3> QED
      BY <3>2, <3>3, <3>4, <3>5, ListeningShapes
  <2> QED
    BY <1>1, <2>1, <2>2, RunFacts DEF FinishShutdown
<1> QED
  BY <1>1, NoStrayPreserved DEF Leases, NoStrayLease

\* A call is on its way to a session, or has one, since it heard of the listener.
LEMMA WayFacts ==
    ASSUME ListenerTypes, [ListenerNext]_listenerVars, NEW d \in Calls,
           stage'[d] = "heard" \/ session'[d] = "open"
    PROVE  /\ at'[d] = at[d] /\ at[d] \in Procs
           /\ stage[d] = "heard" \/ session[d] = "open" \/ listening'[at[d]]
           /\ stage'[d] = "heard" => stage[d] = "heard" \/ listening'[at[d]]
<1>1. ASSUME NEW c \in Calls, CallStep(c)
      PROVE  /\ at'[d] = at[d]
             /\ stage[d] = "heard" \/ session[d] = "open" \/ listening'[at[d]]
             /\ stage'[d] = "heard" => stage[d] = "heard" \/ listening'[at[d]]
  <2>1. ASSUME NEW p \in Procs, Begin(c, p)
        PROVE  d # c /\ UNCHANGED session /\ at'[d] = at[d] /\ stage'[d] = stage[d]
    <3>1. stage'[c] = "begun" /\ session'[c] = "none"
      BY <2>1 DEF Begin, ListenerTypes, ListenerTypeOK, ListenerPlaced
    <3> QED
      BY <2>1, <3>1 DEF Begin, ListenerTypes, ListenerTypeOK
  <2>2. CASE EnsureListening(c)
    <3>1. UNCHANGED <<at, session>>
      BY <2>2 DEF EnsureListening
    <3>2. d # c => stage'[d] = stage[d]
      BY <2>2 DEF EnsureListening, Start, Leave, ListenerTypes, ListenerTypeOK
    <3>3. CASE d = c /\ stage'[d] = "heard"
      <4>1. at[d] \in Procs
        <5>1. stage[d] = "begun"
          BY <2>2, <3>3 DEF EnsureListening
        <5> QED
          BY <5>1 DEF ListenerTypes, ListenerPlaced
      <4>2. \/ listening[at[d]] /\ UNCHANGED listener
            \/ listening' = [listening EXCEPT ![at[d]] = TRUE]
        BY <2>2, <3>3 DEF EnsureListening, Start, Leave, ListenerTypes,
          ListenerTypeOK
      <4>3. listening'[at[d]]
        BY <4>1, <4>2 DEF listener, ListenerTypes, ListenerTypeOK
      <4> QED
        BY <3>1, <4>3
    <3> QED
      BY <3>1, <3>2, <3>3
  <2>3. CASE OpenSession(c)
    BY <2>3 DEF OpenSession, Leave, ListenerTypes, ListenerTypeOK
  <2>4. CASE Abort(c)
    BY <2>4 DEF Abort
  <2> QED
    BY <1>1, <2>1, <2>2, <2>3, <2>4 DEF CallStep
<1>2. ASSUME NEW c \in Calls, SessionStep(c)
      PROVE  /\ UNCHANGED <<at, stage>>
             /\ session'[d] = "open" => session[d] = "open"
  BY <1>2 DEF SessionStep, Lapse, Handled, HangUp, CancelSession, Callback,
    ListenerTypes, ListenerTypeOK
<1>3. ASSUME NEW p \in Procs, ProcessStep(p)
      PROVE  /\ UNCHANGED <<at, session>>
             /\ stage'[d] = "heard" => stage[d] = "heard"
  BY <1>3 DEF ProcessStep, StartProcess, Status, Renew, ServerError,
    BeginShutdown, LimitPasses, AwaitListener, FinishShutdown, Crash, parties, ListenerTypes, ListenerTypeOK
<1>4. ASSUME Tick \/ UNCHANGED listenerVars PROVE UNCHANGED <<at, stage, session>>
  BY <1>4 DEF Tick, listenerVars, parties
<1>5. /\ at'[d] = at[d]
      /\ stage[d] = "heard" \/ session[d] = "open" \/ listening'[at[d]]
      /\ stage'[d] = "heard" => stage[d] = "heard" \/ listening'[at[d]]
  BY <1>1, <1>2, <1>3, <1>4 DEF ListenerNext, CallStep, SessionStep, ProcessStep
<1>6. at'[d] \in Procs
  BY TypesPreserved DEF ListenerTypes, ListenerPlaced
<1> QED
  BY <1>5, <1>6

\* Closing as idle finds no session open, so it cuts only calls on their way.
LEMMA HeardPreserved ==
    ASSUME ListenerTypes, Deaf, Heard, [ListenerNext]_listenerVars
    PROVE  Heard'
<1> SUFFICES ASSUME NEW d \in Calls,
                    stage'[d] = "heard" \/ session'[d] = "open",
                    run'[at'[d]] \in {"new", "running"},
                    ~listening'[at[d]]
             PROVE  \/ closedFor'[at[d]] \in {"abort", "lease", "error"}
                    \/ closedFor'[at[d]] = "idle" /\ early'[d]
  BY WayFacts DEF Heard
<1> DEFINE p == at[d]
<1>1. /\ p \in Procs /\ at'[d] = p
      /\ stage[d] = "heard" \/ session[d] = "open"
      /\ stage'[d] = "heard" => stage[d] = "heard"
  BY WayFacts
<1>2. run[p] \in {"new", "running"} /\ ~Crash(p)
  BY <1>1, RunFacts DEF Crash, BeginShutdown, AwaitListener, FinishShutdown,
    ListenerTypes, ListenerTypeOK
<1>3. \/ listening[p] \/ closedFor[p] \in {"abort", "lease", "error"}
      \/ closedFor[p] = "idle" /\ early[d]
  BY <1>1, <1>2 DEF Heard
<1>4. ASSUME NEW c \in Calls, Starts(c)
      PROVE  UNCHANGED <<closedFor, early>> /\ ~listening[p]
  BY <1>1, <1>4 DEF Starts, ListenerTypes, ListenerTypeOK
<1>5. ASSUME NEW q \in Procs, NEW why \in {"idle", "abort", "lease", "error"},
             Close(q, why),
             why = "idle" => NoneActive(session')
      PROVE  \/ closedFor'[p] \in {"abort", "lease", "error"}
             \/ closedFor'[p] = "idle" /\ early'[d]
  <2>1. CASE q # p \/ ~listening[p]
    <3>1. closedFor'[p] = closedFor[p] /\ (early[d] => early'[d]) /\ ~listening[p]
      BY <1>1, <1>5, <2>1, CloseFacts
    <3> QED
      BY <1>3, <3>1
  <2>2. CASE q = p /\ listening[p]
    <3>1. closedFor'[p] = why
      BY <1>5, <2>2, CloseFacts
    <3>2. CASE why = "idle"
      <4>1. stage[d] = "heard"
        BY <1>1, <1>5, <3>2 DEF NoneActive
      <4>2. early'[d]
        BY <1>5, <2>2, <3>2, <4>1, CloseFacts
      <4> QED
        BY <3>1, <3>2, <4>2
    <3> QED
      BY <3>1, <3>2
  <2> QED
    BY <2>1, <2>2
<1>6. ASSUME NEW q \in Procs, Crash(q)
      PROVE  UNCHANGED <<closedFor, early>> /\ ~listening[p]
  <2>1. q # p
    BY <1>2, <1>6
  <2> QED
    BY <1>1, <1>6, <2>1 DEF Crash, ListenerTypes, ListenerTypeOK
<1> QED
  BY <1>3, <1>4, <1>5, <1>6, ListeningShapes

---------------------------------------------------------------------------
(* Theorems *)

LEMMA InvariantInitially == ListenerInit => ListenerIInv
<1> SUFFICES ASSUME ListenerInit PROVE ListenerIInv
  OBVIOUS
<1>1. ListenerTypes
  BY TypesInitially
<1>2. Deaf /\ Unhindered /\ Quiet /\ Heard
  BY DEF ListenerInit, Deaf, StoppedIsDeaf, Unhindered, Quiet, Heard
<1>3. Leases
  BY ListenerAssumption DEF ListenerInit, NoLease, Leases, NoStrayLease
<1> QED
  BY <1>1, <1>2, <1>3 DEF ListenerIInv

LEMMA InvariantPreserved == ListenerIInv /\ [ListenerNext]_listenerVars => ListenerIInv'
  BY TypesPreserved, DeafPreserved, UnhinderedPreserved, LeasesPreserved,
    QuietPreserved, HeardPreserved
  DEF ListenerIInv

\* The strengthened invariant holds in every reachable state.
THEOREM ListenerInductiveInvariant == ListenerSpec => []ListenerIInv
  BY InvariantInitially, InvariantPreserved, PTL DEF ListenerSpec

\* Every variable keeps its type.
THEOREM ListenerTypeCorrect == ListenerSpec => []ListenerTypeOK
<1>1. ListenerIInv => ListenerTypeOK
  BY DEF ListenerIInv, ListenerTypes
<1> QED
  BY <1>1, ListenerInductiveInvariant, PTL

\* Only a crash leaves a lease behind.
THEOREM LeasesAreGivenBack == ListenerSpec => []NoStrayLease
<1>1. ListenerIInv => NoStrayLease
  BY DEF ListenerIInv, Leases
<1> QED
  BY <1>1, ListenerInductiveInvariant, PTL

\* An open session is heard while the process that offered the sign-in page
\* runs, unless a signal, a lost lease or a failed server closed its listener, or
\* an idle close just before it was stored.
THEOREM SessionsAreHeard == ListenerSpec => []HeardUnlessCut
<1>1. ListenerIInv => HeardUnlessCut
  BY DEF ListenerIInv, ListenerTypes, ListenerTypeOK, ListenerPlaced, Heard,
    HeardUnlessCut
<1> QED
  BY <1>1, ListenerInductiveInvariant, PTL

\* A process that shuts down does not listen.
THEOREM ShutdownIsDeaf == ListenerSpec => []StoppedIsDeaf
<1>1. ListenerIInv => StoppedIsDeaf
  BY DEF ListenerIInv, Deaf
<1> QED
  BY <1>1, ListenerInductiveInvariant, PTL

\* No shutdown waits for the connections of its listener: the signal has closed
\* it before.  Without this a shutdown might not end, as connections need not.
THEOREM ShutdownIsUnhindered == ListenerSpec => []ShutdownUnhindered
<1>1. ListenerIInv => ShutdownUnhindered
  BY DEF ListenerIInv, Unhindered, ShutdownUnhindered, CloseEventCame
<1> QED
  BY <1>1, ListenerInductiveInvariant, PTL

\* A call of connect_character meets a closed database only after the limit of
\* the wait has passed over it.
THEOREM CallsKeepTheDatabase == ListenerSpec => []DatabaseOutlivesCalls
<1>1. ListenerIInv => DatabaseOutlivesCalls
  BY DEF ListenerIInv, Quiet, DatabaseOutlivesCalls
<1> QED
  BY <1>1, ListenerInductiveInvariant, PTL

=============================================================================
