--------------------------- MODULE CharacterGrant ---------------------------
(***************************************************************************)
(* How a character's grant comes and goes: connect_character and           *)
(* reauthorize_character open a session with a PKCE verifier, the browser  *)
(* callback completes it, disconnect_character removes the character.      *)
(* Rows live in the shared database, secrets in the credential store of    *)
(* the operating system, and no transaction spans the two: the module is   *)
(* about which secret exists when, whoever dies or fails in between.       *)
(*                                                                         *)
(* One character: rows of different characters do not interact here.  A    *)
(* step is one database statement, or one operation of the credential      *)
(* store or of EVE together with the statement that follows its await;     *)
(* the store and the database are separate, so nothing can come between    *)
(* them that could not as well come before or after.                       *)
(* Abstracted: the contents of a grant except its generation, scopes,      *)
(* names, and the wall clock: an open session may be late at any step.     *)
(* The status "connected" stands for 'reauthorization_required' too, which *)
(* only reading a token sets.                                              *)
(***************************************************************************)
EXTENDS Naturals, FiniteSets

CONSTANTS
    Sessions,           \* authorization sessions; each has one PKCE verifier
    Callbacks,          \* callback requests, over all server processes
    Removers,           \* disconnect_character calls
    References,         \* credential references the id generator can produce
    None,
    MaxGeneration,      \* bound on the authorization generation
    MaxDeaths           \* bound on the calls that die half-way

ASSUME ParametersAssumption ==
    /\ None \notin Sessions \cup References
    /\ Sessions \cap References = {}
    /\ MaxGeneration \in Nat \ {0}
    /\ MaxDeaths \in Nat

VARIABLES
    row,                \* characters: status, generation, reference
    sessions,           \* authorization_sessions: status, reauthorize
    queue,              \* credential_cleanup: secrets still to be deleted
    stored,             \* secrets in the credential store
    written,            \* generation inside the grant a reference names
    openers,            \* local state of connect/reauthorize, per session
    callbacks,          \* local state of each callback
    removers,           \* local state of each disconnect call
    expiring,           \* verifiers a live expireSessions call must delete
    persisted,          \* history: sessions whose grant reached the row
    exchanges,          \* history: authorization codes exchanged, per session
    abandoned,          \* history: secrets whose owner died or gave up
    deaths              \* history: calls that died

rows  == <<row, sessions, queue>>
calls == <<openers, callbacks, removers, expiring>>
notes == <<persisted, exchanges, abandoned, deaths>>
vars  == <<rows, stored, written, calls, notes>>

Secrets  == References \cup Sessions
Generation == 0..MaxGeneration

Terminal == {"connected", "failed", "expired", "cancelled"}

NoRow == [status |-> "absent", generation |-> 0, reference |-> None]

CallbackState ==
    [pc: {"idle", "verifying", "exchanging", "creating", "created",
          "discarding", "replaced", "persisted", "cleaning"},
     session: Sessions \cup {None}, reauthorize: BOOLEAN, known: BOOLEAN,
     generation: 0..(MaxGeneration + 1), reference: References \cup {None},
     previous: References \cup {None}]

\* A callback that needs only its session, and perhaps a reference.
Holding(pc, session, reference, previous) ==
    [pc |-> pc, session |-> session, reauthorize |-> FALSE, known |-> FALSE,
     generation |-> 0, reference |-> reference, previous |-> previous]

IdleCallback == Holding("idle", None, None, None)

Opened == [pc |-> "done", reauthorize |-> FALSE]

IdleRemover == [pc |-> "idle", reference |-> None]

\* A character has a row with a reference and a generation, or no row.
TypeOK ==
    /\ row \in {NoRow} \cup
         [status: {"connected", "removal_pending"}, generation: Generation \ {0},
          reference: References]
    /\ sessions \in [Sessions ->
         [status: {"none", "required", "pending"} \cup Terminal,
          reauthorize: BOOLEAN]]
    /\ queue \subseteq Secrets /\ stored \subseteq Secrets
    /\ written \in [References -> 0..(MaxGeneration + 1)]
    /\ openers \in [Sessions ->
         [pc: {"idle", "checked", "dropping", "done"},
          reauthorize: BOOLEAN]]
    /\ callbacks \in [Callbacks -> CallbackState]
    /\ removers \in [Removers ->
         [pc: {"idle", "deleting", "guide"},
          reference: References \cup {None}]]
    /\ expiring \subseteq Sessions
    /\ persisted \subseteq Sessions
    /\ exchanges \in [Sessions -> Nat]
    /\ abandoned \subseteq Secrets
    /\ deaths \in 0..MaxDeaths

\* A fresh installation, or one with the character connected once.
Init ==
    /\ \/ /\ row = NoRow /\ stored = {}
          /\ written = [g \in References |-> 0]
       \/ \E g \in References :
            /\ row = [status |-> "connected", generation |-> 1, reference |-> g]
            /\ stored = {g}
            /\ written = [h \in References |-> IF h = g THEN 1 ELSE 0]
    /\ sessions = [s \in Sessions |-> [status |-> "none", reauthorize |-> FALSE]]
    /\ queue = {}
    /\ openers = [s \in Sessions |-> [pc |-> "idle", reauthorize |-> FALSE]]
    /\ callbacks = [k \in Callbacks |-> IdleCallback]
    /\ removers = [r \in Removers |-> IdleRemover]
    /\ expiring = {}
    /\ persisted = {}
    /\ exchanges = [s \in Sessions |-> 0]
    /\ abandoned = {}
    /\ deaths = 0

---------------------------------------------------------------------------
(* Statements shared by the handlers *)

\* setTerminal: only from the state the caller expects.
SetTerminal(s, from, status) ==
    sessions' = [sessions EXCEPT ![s].status =
                    IF @ = from THEN status ELSE @]

\* deleteOrQueue: a secret that cannot be deleted now is queued.
DeleteOrQueue(x) ==
    \/ stored' = stored \ {x} /\ UNCHANGED queue
    \/ queue' = queue \cup {x} /\ UNCHANGED stored

\* A process dies, or an await is aborted, and x stays without its owner.
Die(x) ==
    /\ deaths < MaxDeaths
    /\ deaths' = deaths + 1
    /\ abandoned' = abandoned \cup (x \cap stored)

CallbackAt(k, pc) == callbacks' = [callbacks EXCEPT ![k].pc = pc]

CallbackKeeps(k, pc, reference, previous) ==
    callbacks' = [callbacks EXCEPT ![k] =
                     Holding(pc, callbacks[k].session, reference, previous)]

\* The catch block, and the end of the try block: a session that is no longer
\* pending keeps the state it has.
EndSession(k, status) ==
    /\ SetTerminal(callbacks[k].session, "pending", status)
    /\ CallbackKeeps(k, "cleaning", None, None)

---------------------------------------------------------------------------
(* connect_character and reauthorize_character *)

\* The checks on the character being reauthorized, before the first await.
OpenCheck(s, reauthorize) ==
    /\ openers[s].pc = "idle"
    /\ reauthorize => row.status \notin {"absent", "removal_pending"}
    /\ openers' = [openers EXCEPT ![s] =
                      [pc |-> "checked", reauthorize |-> reauthorize]]
    /\ UNCHANGED <<rows, stored, written, callbacks, removers, expiring, notes>>

\* drainCredentialCleanup deletes a queued secret, then its entry; a failed
\* deletion leaves both.
Drain(x) ==
    /\ x \in queue
    /\ stored' = stored \ {x}
    /\ queue' = queue \ {x}
    /\ UNCHANGED <<row, sessions, written, calls, notes>>

\* The verifier is stored, then sessions.create: a session for a character
\* removed meanwhile breaks the foreign key, and any insert may fail.
CreateSession(s) ==
    /\ openers[s].pc = "checked"
    /\ stored' = stored \cup {s}
    /\ \/ /\ openers[s].reauthorize => row.status # "absent"
          /\ sessions' = [sessions EXCEPT ![s] =
                             [status |-> "required",
                              reauthorize |-> openers[s].reauthorize]]
          /\ openers' = [openers EXCEPT ![s] = Opened]
       \/ /\ openers' = [openers EXCEPT ![s].pc = "dropping"]
          /\ UNCHANGED sessions
    /\ UNCHANGED <<row, queue, written, callbacks, removers, expiring, notes>>

DropVerifier(s) ==
    /\ openers[s].pc = "dropping"
    /\ DeleteOrQueue(s)
    /\ openers' = [openers EXCEPT ![s] = Opened]
    /\ UNCHANGED <<row, sessions, written, callbacks, removers, expiring, notes>>

\* The process dies with the verifier stored and no session; a death before
\* that leaves nothing behind, and is a call that takes no further step.
AbandonOpening(s) ==
    /\ openers[s].pc = "dropping"
    /\ openers' = [openers EXCEPT ![s] = Opened]
    /\ Die({s})
    /\ UNCHANGED <<rows, stored, written, callbacks, removers, expiring, persisted, exchanges>>

---------------------------------------------------------------------------
(* expireSessions and cancel_character_connection *)

\* expire() takes the open sessions that are late by now, the ones a callback
\* is completing included.
Expire(over) ==
    /\ over # {}
    /\ \A s \in over : sessions[s].status \in {"required", "pending"}
    /\ sessions' = [s \in Sessions |->
                       IF s \in over THEN [sessions[s] EXCEPT !.status = "expired"]
                       ELSE sessions[s]]
    /\ expiring' = expiring \cup over
    /\ UNCHANGED <<row, queue, stored, written, openers, callbacks,
                   removers, notes>>

DeleteExpired(s) ==
    /\ s \in expiring
    /\ DeleteOrQueue(s)
    /\ expiring' = expiring \ {s}
    /\ UNCHANGED <<row, sessions, written, openers, callbacks, removers, notes>>

AbandonExpired(s) ==
    /\ s \in expiring
    /\ expiring' = expiring \ {s}
    /\ Die({s})
    /\ UNCHANGED <<rows, stored, written, openers, callbacks, removers, persisted, exchanges>>

\* cancel: only a session still waiting for its callback.
Cancel(s) ==
    /\ sessions[s].status = "required"
    /\ SetTerminal(s, "required", "cancelled")
    /\ UNCHANGED <<row, queue, stored, written, calls, notes>>

\* The deletion that follows, and that every repeated cancel tries again; a
\* failed one leaves the call with nothing queued.
DeleteCancelled(s) ==
    /\ sessions[s].status = "cancelled"
    /\ s \in stored
    /\ stored' = stored \ {s}
    /\ UNCHANGED <<rows, written, calls, notes>>

---------------------------------------------------------------------------
(* The callback *)

\* Mutant: the state hash is looked up whatever became of its session.
CanConsume_Again(s) == sessions[s].status # "none"

CanConsume(s) == sessions[s].status = "required"

\* consumeByStateHash, one immediate transaction; it refuses a session that
\* has ended or is late.
Consume(k, s) ==
    /\ callbacks[k].pc = "idle"
    /\ CanConsume(s)
    /\ sessions' = [sessions EXCEPT ![s].status = "pending"]
    /\ callbacks' = [callbacks EXCEPT ![k] =
                        [Holding("verifying", s, None, None) EXCEPT
                            !.reauthorize = sessions[s].reauthorize]]
    /\ UNCHANGED <<row, queue, stored, written, openers, removers,
                   expiring, notes>>

\* credentials.read finds the verifier.
ReadVerifier(k) ==
    /\ callbacks[k].pc = "verifying"
    /\ callbacks[k].session \in stored
    /\ CallbackAt(k, "exchanging")
    /\ UNCHANGED <<rows, stored, written, openers, removers, expiring, notes>>

\* exchangeCode returns: the session must not be late, as an expired one is,
\* and the row is read for the generation the new grant will carry.
Exchange(k) ==
    LET s == callbacks[k].session IN
    /\ callbacks[k].pc = "exchanging"
    /\ exchanges' = [exchanges EXCEPT ![s] = @ + 1]
    /\ \/ /\ sessions[s].status # "expired"
          /\ callbacks' = [callbacks EXCEPT ![k] =
                              [@ EXCEPT !.pc = "creating",
                                        !.known = row.status # "absent",
                                        !.generation = row.generation + 1]]
          /\ UNCHANGED sessions
       \/ EndSession(k, "failed")
    /\ UNCHANGED <<row, queue, stored, written, openers, removers,
                   expiring, persisted, abandoned, deaths>>

\* The player declined, the verifier is gone, or the grant cannot be stored.
Fail(k) ==
    /\ callbacks[k].pc \in {"verifying", "creating"}
    /\ EndSession(k, "failed")
    /\ UNCHANGED <<row, queue, stored, written, openers, removers,
                   expiring, notes>>

\* credentials.create, the generation already inside the grant.
CreateGrant(k) ==
    /\ callbacks[k].pc = "creating"
    /\ \E g \in {h \in References : written[h] = 0} :
         /\ stored' = stored \cup {g}
         /\ written' = [written EXCEPT ![g] = callbacks[k].generation]
         /\ callbacks' = [callbacks EXCEPT ![k] =
                             [@ EXCEPT !.pc = "created", !.generation = 0,
                                       !.reference = g]]
    /\ UNCHANGED <<rows, openers, removers, expiring, notes>>

\* characters.connect: a character that was not there is inserted.
PersistNew(k) ==
    /\ callbacks[k].pc = "created" /\ ~callbacks[k].known
    /\ row.status = "absent"
    /\ row' = [status |-> "connected", generation |-> 1,
               reference |-> callbacks[k].reference]
    /\ CallbackKeeps(k, "persisted", None, None)
    /\ persisted' = persisted \cup {callbacks[k].session}
    /\ UNCHANGED <<sessions, queue, stored, written, openers, removers,
                   expiring, exchanges, abandoned,
                   deaths>>

\* characters.replaceGrant: whatever the status of the row has become.
PersistReplacement(k) ==
    /\ callbacks[k].pc = "created"
    /\ callbacks[k].known /\ callbacks[k].reauthorize
    /\ row.status # "absent" /\ row.generation < MaxGeneration
    /\ row' = [status |-> "connected", generation |-> row.generation + 1,
               reference |-> callbacks[k].reference]
    /\ CallbackKeeps(k, "replaced", None, row.reference)
    /\ persisted' = persisted \cup {callbacks[k].session}
    /\ UNCHANGED <<sessions, queue, stored, written, openers, removers,
                   expiring, exchanges, abandoned,
                   deaths>>

\* connect or replaceGrant throws, or the character is known but the session
\* is not a reauthorization.
Refuse(k) ==
    /\ callbacks[k].pc = "created"
    /\ CallbackKeeps(k, "discarding", callbacks[k].reference, None)
    /\ UNCHANGED <<rows, stored, written, openers, removers, expiring, notes>>

\* Mutant: the refused grant is left in the store.
Discard_Forgets(k) ==
    /\ callbacks[k].pc = "discarding"
    /\ EndSession(k, "failed")
    /\ UNCHANGED <<row, queue, stored, written, openers, removers,
                   expiring, notes>>

\* Mutant: the refusal is not thrown on to the caller.
Discard_Swallows(k) ==
    /\ callbacks[k].pc = "discarding"
    /\ DeleteOrQueue(callbacks[k].reference)
    /\ EndSession(k, "connected")
    /\ UNCHANGED <<row, written, openers, removers, expiring,
                   notes>>

Discard(k) ==
    /\ callbacks[k].pc = "discarding"
    /\ DeleteOrQueue(callbacks[k].reference)
    /\ EndSession(k, "failed")
    /\ UNCHANGED <<row, written, openers, removers, expiring,
                   notes>>

\* The superseded grant is deleted, and the session is connected.
DeletePrevious(k) ==
    /\ callbacks[k].pc = "replaced"
    /\ DeleteOrQueue(callbacks[k].previous)
    /\ EndSession(k, "connected")
    /\ UNCHANGED <<row, written, openers, removers, expiring,
                   notes>>

SetConnected(k) ==
    /\ callbacks[k].pc = "persisted"
    /\ EndSession(k, "connected")
    /\ UNCHANGED <<row, queue, stored, written, openers, removers,
                   expiring, notes>>

\* The finally block.
DeleteVerifier(k) ==
    /\ callbacks[k].pc = "cleaning"
    /\ DeleteOrQueue(callbacks[k].session)
    /\ callbacks' = [callbacks EXCEPT ![k] = IdleCallback]
    /\ UNCHANGED <<row, sessions, written, openers, removers, expiring, notes>>

\* The secrets a callback has promised to delete or to hand to the row.
Owes(k) == {callbacks[k].session, callbacks[k].reference, callbacks[k].previous}
             \ {None}

AbandonCallback(k) ==
    /\ callbacks[k].pc # "idle"
    /\ callbacks' = [callbacks EXCEPT ![k] = IdleCallback]
    /\ Die(Owes(k))
    /\ UNCHANGED <<rows, stored, written, openers, removers, expiring, persisted, exchanges>>

---------------------------------------------------------------------------
(* disconnect_character *)

RemoverAt(r, pc) == removers' = [removers EXCEPT ![r].pc = pc]

BeginRemoval(r) ==
    /\ removers[r].pc = "idle"
    /\ row.status # "absent" /\ row.generation < MaxGeneration
    /\ row' = [row EXCEPT !.status = "removal_pending", !.generation = @ + 1]
    /\ removers' = [removers EXCEPT ![r] =
                       [pc |-> "deleting", reference |-> row.reference]]
    /\ UNCHANGED <<sessions, queue, stored, written, openers, callbacks,
                   expiring, notes>>

\* Mutant: the reference is read again from the row.
DeleteCredential_Rereads(r) ==
    /\ removers[r].pc = "deleting"
    /\ stored' = stored \ {row.reference}
    /\ RemoverAt(r, "guide")
    /\ UNCHANGED <<rows, written, openers, callbacks, expiring, notes>>

\* The credential that beginRemoval returned.
DeleteCredential(r) ==
    /\ removers[r].pc = "deleting"
    /\ stored' = stored \ {removers[r].reference}
    /\ RemoverAt(r, "guide")
    /\ UNCHANGED <<rows, written, openers, callbacks, expiring, notes>>

\* Once the guide pages are gone, completeRemoval deletes a row that is still
\* pending; the foreign key of the sessions that would have reauthorized it
\* becomes null.  The row may have been reauthorized and be pending for
\* another call by now: a secret it names loses its owner.
CompleteRemoval(r) ==
    /\ removers[r].pc = "guide"
    /\ IF row.status = "removal_pending"
       THEN /\ row' = NoRow
            /\ sessions' = [s \in Sessions |->
                               [sessions[s] EXCEPT !.reauthorize = FALSE]]
            /\ abandoned' = abandoned \cup ({row.reference} \cap stored)
       ELSE UNCHANGED <<row, sessions, abandoned>>
    /\ removers' = [removers EXCEPT ![r] = IdleRemover]
    /\ UNCHANGED <<queue, stored, written, openers, callbacks, expiring,
                   persisted, exchanges, deaths>>

\* A deletion or the guide fails, the call is aborted, or the process dies:
\* the row stays, and disconnect_character may be called again.  A reference
\* the row no longer names has lost its last owner.
LeaveRemoval(r) ==
    /\ removers[r].pc # "idle"
    /\ removers' = [removers EXCEPT ![r] = IdleRemover]
    /\ abandoned' = abandoned \cup
         IF removers[r].pc = "deleting" /\ removers[r].reference # row.reference
         THEN {removers[r].reference} \cap stored ELSE {}
    /\ UNCHANGED <<rows, stored, written, openers, callbacks, expiring, persisted, exchanges, deaths>>

---------------------------------------------------------------------------
Opening(s) ==
    \/ \E reauthorize \in BOOLEAN : OpenCheck(s, reauthorize)
    \/ CreateSession(s) \/ DropVerifier(s)
    \/ AbandonOpening(s)

Ending(s) ==
    \/ DeleteExpired(s) \/ AbandonExpired(s)
    \/ Cancel(s) \/ DeleteCancelled(s)

Completing(k) ==
    \/ \E s \in Sessions : Consume(k, s)
    \/ ReadVerifier(k) \/ Exchange(k) \/ Fail(k) \/ CreateGrant(k)
    \/ PersistNew(k) \/ PersistReplacement(k) \/ Refuse(k)
    \/ Discard(k) \/ DeletePrevious(k)
    \/ SetConnected(k) \/ DeleteVerifier(k)
    \/ AbandonCallback(k)

Removing(r) ==
    \/ BeginRemoval(r) \/ DeleteCredential(r) \/ CompleteRemoval(r) \/ LeaveRemoval(r)

Next ==
    \/ \E s \in Sessions : Opening(s) \/ Ending(s)
    \/ \E over \in SUBSET Sessions : Expire(over)
    \/ \E k \in Callbacks : Completing(k)
    \/ \E r \in Removers : Removing(r)
    \/ \E x \in Secrets : Drain(x)

Spec == Init /\ [][Next]_vars

---------------------------------------------------------------------------
(* Properties *)

\* No deletion, by a replacement, a removal, a refusal or the cleanup queue,
\* ever hits the credential a usable character names, or the verifier a
\* session is still waiting to use.
LiveSecretsKept ==
    /\ row.status = "connected" => row.reference \in stored
    /\ \A s \in Sessions : sessions[s].status = "required" => s \in stored

\* Every secret in the store has somebody who will use or delete it, unless
\* its owner died: a row, an open session, the cleanup queue or a live call.
\* The verifier of a cancelled session waits for a second cancel.
HasOwner(x) ==
    \/ x = row.reference
    \/ x \in queue
    \/ x \in expiring
    \/ \E k \in Callbacks : x \in Owes(k)
    \/ \E r \in Removers : removers[r].pc = "deleting" /\ removers[r].reference = x
    \/ x \in Sessions /\ (\/ openers[x].pc = "dropping"
                          \/ sessions[x].status \in {"required", "cancelled"})

NothingLeaks == \A x \in stored : HasOwner(x) \/ x \in abandoned

\* An authorization code is exchanged at most once, however often and in
\* whichever processes the browser presents the callback.
ExchangedOnce == \A s \in Sessions : exchanges[s] <= 1

\* A session that says connected stored its grant in the row, and one that
\* says failed or cancelled did not, whoever ended the session first.
HonestSession ==
    \A s \in Sessions :
      /\ sessions[s].status = "connected" => s \in persisted
      /\ sessions[s].status \in {"failed", "cancelled"} => s \notin persisted

\* A session ends once: expiry, cancellation and the callback race for it,
\* and the first of them decides.
TerminalIsFinal ==
    [][\A s \in Sessions :
         sessions[s].status \in Terminal
         => sessions'[s].status = sessions[s].status]_vars

=============================================================================
