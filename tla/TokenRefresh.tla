---------------------------- MODULE TokenRefresh ----------------------------
(***************************************************************************)
(* Reading and refreshing a character's access token.  Calls in any number *)
(* of server processes read the grant from the credential store; one whose *)
(* access token is about to expire is refreshed under a lease of the       *)
(* database, since EVE may hand out a new refresh token and refuse the old *)
(* one from then on.                                                       *)
(*                                                                         *)
(* One character.  A step ends where the code awaits or where one SQLite   *)
(* statement ends, so the lease may lapse and be taken over, the grant be  *)
(* replaced, or the character be removed between any two steps of a call.  *)
(* Abstracted: a grant is the number of its refresh token and whether its  *)
(* access token is fresh; the generation in it always fits the row it was  *)
(* read for (CharacterGrant is about the two); time is the two facts that  *)
(* matter, a stale access token and a lapsed lease.                        *)
(***************************************************************************)
EXTENDS Naturals

CONSTANTS
    Calls,              \* concurrent calls, over all server processes
    References,         \* credential references, one refresh-token family each
    None,
    Ghost,              \* owner of a lease whose call died
    MaxToken,           \* bound on the rotations of one refresh token
    MaxFaults           \* bound on the calls that die or lose their lease

ASSUME ParametersAssumption ==
    /\ None \notin Calls \cup References
    /\ Ghost \notin Calls \cup {None}
    /\ MaxToken \in Nat \ {0} /\ MaxFaults \in Nat

VARIABLES
    row,                \* characters: status and credential reference
    stored,             \* credential store, by reference
    doomed,             \* references somebody still has to delete
    valid,              \* EVE: the refresh token it accepts, per family
    lease,              \* coordination_leases: owner, and whether it lapsed
    calls,              \* local state of each call
    spoiled,            \* history: families whose refresh failed half-way
    overtaken,          \* history: a lease was taken from a living call
    stale,              \* history: a call marked a row it had not read
    faults              \* history: counted for the bound

history == <<spoiled, overtaken, stale, faults>>
vars    == <<row, stored, doomed, valid, lease, calls, history>>

Token  == 0..MaxToken
NoRow  == [status |-> "absent", reference |-> None]
Erased == [held |-> FALSE, token |-> 0, fresh |-> FALSE]
Grant(token) == [held |-> TRUE, token |-> token, fresh |-> TRUE]
Free   == [owner |-> None, lapsed |-> FALSE]

Pc == {"idle", "reading", "waiting", "holding", "rereading", "refreshing",
       "received", "replacing", "writing", "recording", "marking", "releasing"}

Idle == [pc |-> "idle", reference |-> None, token |-> 0, next |-> 0,
         lost |-> FALSE]

CallState ==
    [pc: Pc, reference: References \cup {None}, token: Token, next: Token,
     lost: BOOLEAN]

TypeOK ==
    /\ row \in {NoRow} \cup
         [status: {"connected", "reauthorization_required", "removal_pending"},
          reference: References]
    /\ stored \in [References -> [held: BOOLEAN, token: Token, fresh: BOOLEAN]]
    /\ doomed \subseteq References
    /\ valid \in [References -> Token]
    /\ lease \in [owner: Calls \cup {None, Ghost}, lapsed: BOOLEAN]
    /\ calls \in [Calls -> CallState]
    /\ spoiled \subseteq References
    /\ overtaken \in BOOLEAN /\ stale \in BOOLEAN
    /\ faults \in 0..MaxFaults

\* A connected character whose grant was stored when it was connected.
Init ==
    /\ \E g \in References :
         /\ row = [status |-> "connected", reference |-> g]
         /\ stored = [h \in References |-> IF h = g THEN Grant(1) ELSE Erased]
         /\ valid = [h \in References |-> IF h = g THEN 1 ELSE 0]
    /\ doomed = {}
    /\ lease = Free
    /\ calls = [c \in Calls |-> Idle]
    /\ spoiled = {}
    /\ overtaken = FALSE /\ stale = FALSE
    /\ faults = 0

---------------------------------------------------------------------------
(* Statements *)

Ref(c)      == calls[c].reference
At(c, pc)   == calls[c].pc = pc
Goto(c, pc) == calls' = [calls EXCEPT ![c].pc = pc]
Leave(c)    == calls' = [calls EXCEPT ![c] = Idle]

\* What is left of a call that only has the catch and finally blocks to run.
Wind(c, pc) ==
    calls' = [calls EXCEPT ![c] =
                 [Idle EXCEPT
                     !.pc = pc,
                     !.reference = IF pc = "marking" THEN Ref(c) ELSE None]]

\* markReauthorizationRequired: any row that is not being removed.
Mark(c) ==
    /\ row' = IF row.status = "connected"
              THEN [row EXCEPT !.status = "reauthorization_required"] ELSE row
    /\ stale' = (stale \/ (row.status = "connected" /\ row.reference # Ref(c)))

\* acquire: a lease nobody holds, or one that has expired.
Acquirable == lease.owner = None \/ lease.lapsed

\* needsRefresh, on a grant that is there.
Usable(c)      == stored[Ref(c)].held /\ stored[Ref(c)].fresh
NeedsRefresh(c) == stored[Ref(c)].held /\ ~stored[Ref(c)].fresh

---------------------------------------------------------------------------
(* Without the lease *)

\* A call gets the selected character and reads its grant.
Start(c) ==
    /\ At(c, "idle")
    /\ row.status = "connected"
    /\ calls' = [calls EXCEPT ![c] =
                    [Idle EXCEPT !.pc = "reading", !.reference = row.reference]]
    /\ UNCHANGED <<row, stored, doomed, valid, lease, history>>

ReadMissing(c) ==
    /\ At(c, "reading") /\ ~stored[Ref(c)].held
    /\ Mark(c)
    /\ Leave(c)
    /\ UNCHANGED <<stored, doomed, valid, lease, spoiled, overtaken, faults>>

ReadUsable(c) ==
    /\ At(c, "reading") /\ Usable(c)
    /\ Leave(c)
    /\ UNCHANGED <<row, stored, doomed, valid, lease, history>>

AcquireLease(c) ==
    /\ At(c, "reading") /\ NeedsRefresh(c)
    /\ Acquirable
    /\ lease' = [owner |-> c, lapsed |-> FALSE]
    /\ overtaken' = (overtaken \/ lease.owner \in Calls)
    /\ calls' = [calls EXCEPT ![c].pc = "holding",
                              ![c].token = stored[Ref(c)].token]
    /\ UNCHANGED <<row, stored, doomed, valid, spoiled, stale, faults>>

\* The lease is taken: wait, or give up once the wait has lasted WAIT_LIMIT_MS.
LeaseBusy(c) ==
    /\ At(c, "reading") /\ NeedsRefresh(c)
    /\ ~Acquirable
    /\ Goto(c, "waiting") \/ Leave(c)
    /\ UNCHANGED <<row, stored, doomed, valid, lease, history>>

\* After POLL_MS the character and its grant are read again.
Poll(c) ==
    /\ At(c, "waiting")
    /\ IF row.status = "connected"
       THEN calls' = [calls EXCEPT ![c].pc = "reading",
                                   ![c].reference = row.reference]
       ELSE Leave(c)
    /\ UNCHANGED <<row, stored, doomed, valid, lease, history>>

---------------------------------------------------------------------------
(* Under the lease *)

\* The character is looked up again.
Recheck(c) ==
    /\ At(c, "holding")
    /\ CASE row.status = "connected" ->
              calls' = [calls EXCEPT ![c].pc = "rereading",
                                     ![c].reference = row.reference]
         [] row.status = "reauthorization_required" -> Wind(c, "marking")
         [] OTHER -> Wind(c, "releasing")
    /\ UNCHANGED <<row, stored, doomed, valid, lease, history>>

RereadMissing(c) ==
    /\ At(c, "rereading") /\ ~stored[Ref(c)].held
    /\ Mark(c)
    /\ Wind(c, "marking")
    /\ UNCHANGED <<stored, doomed, valid, lease, spoiled, overtaken, faults>>

\* The call that held the lease before has refreshed the grant.
RereadUsable(c) ==
    /\ At(c, "rereading") /\ Usable(c)
    /\ Wind(c, "releasing")
    /\ UNCHANGED <<row, stored, doomed, valid, lease, history>>

\* Mutant: the grant read before the lease was held is refreshed.
Reread_Skipped(c) ==
    /\ At(c, "rereading")
    /\ Goto(c, "refreshing")
    /\ UNCHANGED <<row, stored, doomed, valid, lease, history>>

Reread(c) ==
    /\ At(c, "rereading") /\ NeedsRefresh(c)
    /\ calls' = [calls EXCEPT ![c].pc = "refreshing",
                              ![c].token = stored[Ref(c)].token]
    /\ UNCHANGED <<row, stored, doomed, valid, lease, history>>

\* EVE accepts its current token, and may replace it.
Accept(c) ==
    /\ At(c, "refreshing")
    /\ calls[c].token = valid[Ref(c)]
    /\ \E next \in {valid[Ref(c)], valid[Ref(c)] + 1} \cap Token :
         /\ valid' = [valid EXCEPT ![Ref(c)] = next]
         /\ calls' = [calls EXCEPT ![c].pc = "received", ![c].next = next]
    /\ UNCHANGED <<row, stored, doomed, lease, history>>

\* invalid_grant: the token has been replaced.
Refuse(c) ==
    /\ At(c, "refreshing")
    /\ calls[c].token # valid[Ref(c)]
    /\ Wind(c, "marking")
    /\ UNCHANGED <<row, stored, doomed, valid, lease, history>>

\* Mutant: any failure of the request asks for a new authorization.
Unreachable_Marks(c) ==
    /\ At(c, "refreshing")
    /\ Wind(c, "marking")
    /\ UNCHANGED <<row, stored, doomed, valid, lease, history>>

\* EVE cannot be reached, answers 5xx, or the call is aborted.
Unreachable(c) ==
    /\ At(c, "refreshing")
    /\ Wind(c, "releasing")
    /\ UNCHANGED <<row, stored, doomed, valid, lease, history>>

\* What EVE answered is lost: the body breaks off, the signing keys cannot be
\* fetched, or the new access token does not verify.
AnswerLost(c) ==
    /\ At(c, "received")
    /\ spoiled' = spoiled \cup
         IF calls[c].next = calls[c].token THEN {} ELSE {Ref(c)}
    /\ Wind(c, "releasing")
    /\ UNCHANGED <<row, stored, doomed, valid, lease, overtaken, stale, faults>>

\* The answer is refused by the call itself: the heartbeat found the lease in
\* other hands, or the scope asked for is not in the new token.
Discard(c) ==
    /\ At(c, "received")
    /\ Mark(c)
    /\ spoiled' = spoiled \cup {Ref(c)}
    /\ Wind(c, IF calls[c].lost THEN "marking" ELSE "releasing")
    /\ UNCHANGED <<stored, doomed, valid, lease, overtaken, faults>>

Keep(c) ==
    /\ At(c, "received") /\ ~calls[c].lost
    /\ Goto(c, "replacing")
    /\ UNCHANGED <<row, stored, doomed, valid, lease, history>>

\* replace: the entry is read first,
ReplaceReads(c) ==
    /\ At(c, "replacing") /\ stored[Ref(c)].held
    /\ Goto(c, "writing")
    /\ UNCHANGED <<row, stored, doomed, valid, lease, history>>

\* Mutant: the refresh token EVE returned is not kept.
ReplaceWrites_OldToken(c) ==
    /\ At(c, "writing")
    /\ stored' = [stored EXCEPT ![Ref(c)] = Grant(calls[c].token)]
    /\ calls' = [calls EXCEPT ![c] = [Idle EXCEPT !.pc = "recording",
                                                 !.reference = Ref(c)]]
    /\ UNCHANGED <<row, doomed, valid, lease, history>>

\* then written, whether or not it is still there.
ReplaceWrites(c) ==
    /\ At(c, "writing")
    /\ stored' = [stored EXCEPT ![Ref(c)] = Grant(calls[c].next)]
    /\ calls' = [calls EXCEPT ![c] = [Idle EXCEPT !.pc = "recording",
                                                 !.reference = Ref(c)]]
    /\ UNCHANGED <<row, doomed, valid, lease, history>>

\* The entry is gone, or the credential store fails; it may do so while the
\* chunks of the old grant are deleted, with the new one in place.
ReplaceFails(c) ==
    /\ calls[c].pc \in {"replacing", "writing"}
    /\ \/ UNCHANGED stored
       \/ At(c, "writing")
          /\ stored' = [stored EXCEPT ![Ref(c)] = Grant(calls[c].next)]
    /\ Mark(c)
    /\ spoiled' = spoiled \cup {Ref(c)}
    /\ Wind(c, "marking")
    /\ UNCHANGED <<doomed, valid, lease, overtaken, faults>>

\* recordRefresh makes the row connected, whichever grant it names by now.
RecordRefresh(c) ==
    /\ At(c, "recording")
    /\ row.status \in {"connected", "reauthorization_required"}
    /\ row' = [row EXCEPT !.status = "connected"]
    /\ Wind(c, "releasing")
    /\ UNCHANGED <<stored, doomed, valid, lease, history>>

\* The row is gone or being removed, or the database fails.
RecordFails(c) ==
    /\ At(c, "recording")
    /\ Mark(c)
    /\ spoiled' = spoiled \cup {Ref(c)}
    /\ Wind(c, IF row.status = "absent" THEN "releasing" ELSE "marking")
    /\ UNCHANGED <<stored, doomed, valid, lease, overtaken, faults>>

\* The catch block: REAUTHORIZATION_REQUIRED marks the row.
CatchMarks(c) ==
    /\ At(c, "marking")
    /\ Mark(c)
    /\ Wind(c, "releasing")
    /\ UNCHANGED <<stored, doomed, valid, lease, spoiled, overtaken, faults>>

\* The finally block: release only what is still one's own.
Release(c) ==
    /\ At(c, "releasing")
    /\ lease' = IF lease.owner = c THEN Free ELSE lease
    /\ Leave(c)
    /\ UNCHANGED <<row, stored, doomed, valid, history>>

\* A locked store or an aborted await, before and under the lease.
Fail(c) ==
    /\ \/ calls[c].pc \in {"reading", "waiting"} /\ Leave(c)
       \/ At(c, "rereading") /\ Wind(c, "releasing")
    /\ UNCHANGED <<row, stored, doomed, valid, lease, history>>

Holding(c) == calls[c].pc \in Pc \ {"idle", "reading", "waiting"}

\* Every ten seconds: renew, and find out whether there was a lease to renew,
\* which is only asked when EVE has answered.
Heartbeat(c) ==
    /\ Holding(c)
    /\ lease' = IF lease.owner = c THEN [lease EXCEPT !.lapsed = FALSE] ELSE lease
    /\ calls' = IF calls[c].pc \in {"replacing", "writing", "recording",
                                   "marking", "releasing"} THEN calls
                ELSE [calls EXCEPT ![c].lost = (lease.owner # c)]
    /\ UNCHANGED <<row, stored, doomed, valid, history>>

---------------------------------------------------------------------------
(* Around the calls *)

\* Thirty seconds without a heartbeat: the owner is dead, or its process was
\* suspended.
LeaseLapses ==
    /\ lease.owner # None /\ ~lease.lapsed
    /\ IF lease.owner = Ghost THEN UNCHANGED faults
       ELSE faults < MaxFaults /\ faults' = faults + 1
    /\ lease' = [lease EXCEPT !.lapsed = TRUE]
    /\ UNCHANGED <<row, stored, doomed, valid, calls, spoiled, overtaken, stale>>

Die(c) ==
    /\ calls[c].pc # "idle"
    /\ faults < MaxFaults
    /\ faults' = faults + 1
    /\ Leave(c)
    /\ lease' = IF lease.owner = c THEN [lease EXCEPT !.owner = Ghost] ELSE lease
    /\ spoiled' = IF calls[c].pc \in {"received", "replacing", "writing"}
                  THEN spoiled \cup {Ref(c)} ELSE spoiled
    /\ UNCHANGED <<row, stored, doomed, valid, overtaken, stale>>

AccessExpires(g) ==
    /\ stored[g].fresh
    /\ stored' = [stored EXCEPT ![g].fresh = FALSE]
    /\ UNCHANGED <<row, doomed, valid, lease, calls, history>>

\* connect or replaceGrant, with the new grant already in the store; the one
\* it supersedes will be deleted.
Authorize(g) ==
    /\ valid[g] = 0
    /\ valid' = [valid EXCEPT ![g] = 1]
    /\ stored' = [stored EXCEPT ![g] = Grant(1)]
    /\ doomed' = doomed \cup ({row.reference} \ {None})
    /\ row' = [status |-> "connected", reference |-> g]
    /\ UNCHANGED <<lease, calls, history>>

BeginRemoval ==
    /\ row.status # "absent"
    /\ row' = [row EXCEPT !.status = "removal_pending"]
    /\ doomed' = doomed \cup {row.reference}
    /\ UNCHANGED <<stored, valid, lease, calls, history>>

DeleteSecret(g) ==
    /\ g \in doomed
    /\ stored' = [stored EXCEPT ![g] = Erased]
    /\ doomed' = doomed \ {g}
    /\ UNCHANGED <<row, valid, lease, calls, history>>

CompleteRemoval ==
    /\ row.status = "removal_pending" /\ row.reference \notin doomed
    /\ row' = NoRow
    /\ UNCHANGED <<stored, doomed, valid, lease, calls, history>>

---------------------------------------------------------------------------
\* The steps a call takes by itself.
Proceed(c) ==
    \/ ReadMissing(c) \/ ReadUsable(c) \/ AcquireLease(c) \/ LeaseBusy(c)
    \/ Poll(c) \/ Fail(c)
    \/ Recheck(c) \/ RereadMissing(c) \/ RereadUsable(c) \/ Reread(c)
    \/ Accept(c) \/ Refuse(c) \/ Unreachable(c) \/ AnswerLost(c)
    \/ Discard(c) \/ Keep(c)
    \/ ReplaceReads(c) \/ ReplaceWrites(c) \/ ReplaceFails(c)
    \/ RecordRefresh(c) \/ RecordFails(c) \/ CatchMarks(c) \/ Release(c)

Environment(g) == AccessExpires(g) \/ Authorize(g) \/ DeleteSecret(g)

Next ==
    \/ \E c \in Calls : Start(c) \/ Proceed(c) \/ Heartbeat(c) \/ Die(c)
    \/ \E g \in References : Environment(g)
    \/ LeaseLapses \/ BeginRemoval \/ CompleteRemoval

Spec == Init /\ [][Next]_vars

---------------------------------------------------------------------------
(* Properties *)

\* EVE is shown a refresh token it has replaced only after a refresh failed
\* half-way or a lease was taken from a call that was still alive: the lease
\* and the second read under it keep concurrent refreshes apart.
SpentTokenNotShown ==
    \A c \in Calls :
      At(c, "refreshing") /\ calls[c].token # valid[Ref(c)]
      => Ref(c) \in spoiled \/ overtaken

\* The newest refresh token of a connected character is in the store, as soon
\* as no call is on its way to put it there.
NewestTokenKept ==
    LET g == row.reference IN
    /\ row.status = "connected"
    /\ ~overtaken /\ g \notin spoiled
    /\ \A c \in Calls :
         Ref(c) = g => calls[c].pc \notin {"received", "replacing", "writing"}
    => stored[g].held /\ stored[g].token = valid[g]

\* A character is asked to authorize again only when a refresh of its grant
\* failed half-way, a lease was taken over, or a call took its row for the
\* one it had read: an unreachable EVE is no reason.
MarkedForCause ==
    row.status = "reauthorization_required"
    => row.reference \in spoiled \/ overtaken \/ stale

=============================================================================
