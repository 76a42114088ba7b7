----------------------------- MODULE ActionPlan -----------------------------
(***************************************************************************)
(* Prepared actions: prepare_eve_action stores a plan, execute_eve_action  *)
(* checks it, marks it executing, sends the request to EVE and records the *)
(* outcome.  Any number of server processes share the database; a member   *)
(* of Calls is one MCP call, run by some process.  A step ends where the   *)
(* code awaits or where one SQLite statement ends and another process may  *)
(* write, so calls interleave exactly there.                               *)
(*                                                                         *)
(* Abstracted: the arguments, digests and scopes of a plan (a check that   *)
(* fails on them leaves no state behind), wall-clock values (a small       *)
(* counter), and the ages and counts by which rows are pruned (any set of  *)
(* rows the statement may select).                                         *)
(***************************************************************************)
EXTENDS Naturals, FiniteSets

CONSTANTS
    Plans,              \* plan identifiers the id generator can produce
    Calls,              \* concurrent tool calls, over all server processes
    Characters,         \* EVE characters
    None,               \* no plan, no character
    PlanTtl,            \* PLAN_TTL_MS in clock units
    MaxClock,           \* bound on the clock
    MaxGeneration       \* bound on the authorization generation

ASSUME ParametersAssumption ==
    /\ None \notin Plans \cup Characters
    /\ PlanTtl \in Nat \ {0}
    /\ MaxClock \in Nat
    /\ MaxGeneration \in Nat \ {0}

VARIABLES
    clock,
    row,                \* characters table: status and generation
    selected,           \* character_selection row
    plans,              \* action_plans table
    issued,             \* plans whose id and confirmation reached the client
    audit,              \* plans with a row in action_audit_events
    written,            \* history: audit events ever appended, per plan
    calls,              \* local state of each call
    requests,           \* history: requests handed to fetch, per plan
    applied,            \* EVE: how often the request of p took effect
    cut,                \* history: plans whose connection broke after sending
    orphaned            \* history: plans whose executing call died

dbVars   == <<row, selected, plans, audit, written>>
eveVars  == <<requests, applied, cut>>
vars     == <<clock, row, selected, plans, issued, audit, written, calls,
              requests, applied, cut, orphaned>>

---------------------------------------------------------------------------
(* Values *)

Status     == {"absent", "connected", "reauthorization_required",
               "removal_pending"}
Outcome    == {"succeeded", "failed", "uncertain"}
Terminal   == Outcome \cup {"expired"}
EventState == {"planned", "executing"} \cup Outcome
PlanState  == {"unused", "planned", "executing", "deleted"} \cup Terminal

Time       == 0..MaxClock
Generation == 0..MaxGeneration

PlanRow == [state: PlanState, character: Characters \cup {None},
            generation: Generation, expiresAt: 0..(MaxClock + PlanTtl)]

CallPc  == {"idle", "preparing", "stored", "checked", "begun", "armed",
            "sent", "finishing", "recording"}

CallState == [pc: CallPc, plan: Plans \cup {None},
              character: Characters \cup {None}, generation: Generation,
              now: Time, outcome: Outcome \cup {"none"}]

NoPlan == [state |-> "unused", character |-> None, generation |-> 0,
           expiresAt |-> 0]
Idle   == [pc |-> "idle", plan |-> None, character |-> None,
           generation |-> 0, now |-> 0, outcome |-> "none"]

TypeOK ==
    /\ clock \in Time
    /\ row \in [Characters -> [status: Status, generation: Generation]]
    /\ selected \in Characters \cup {None}
    /\ plans \in [Plans -> PlanRow]
    /\ issued \subseteq Plans
    /\ audit \subseteq Plans
    /\ written \in [Plans -> SUBSET EventState]
    /\ calls \in [Calls -> CallState]
    /\ requests \in [Plans -> Nat]
    /\ applied \in [Plans -> Nat]
    /\ cut \subseteq Plans
    /\ orphaned \subseteq Plans

\* The database of an installation with no plan yet; any character may
\* already be connected, and the first of them selected.
Init ==
    /\ clock = 0
    /\ row = [ch \in Characters |-> [status |-> "connected", generation |-> 1]]
    /\ selected \in Characters
    /\ plans = [p \in Plans |-> NoPlan]
    /\ issued = {}
    /\ audit = {}
    /\ written = [p \in Plans |-> {}]
    /\ calls = [c \in Calls |-> Idle]
    /\ requests = [p \in Plans |-> 0]
    /\ applied = [p \in Plans |-> 0]
    /\ cut = {}
    /\ orphaned = {}

---------------------------------------------------------------------------
(* Statements of the repositories *)

\* requireSelectedCharacter(characters.selected())
Usable == selected # None /\ row[selected].status = "connected"

\* Mutant: the expiry statement without its state condition.
Expire_IgnoresState(table, now) ==
    [p \in Plans |-> IF table[p].state # "unused" /\ table[p].expiresAt <= now
                     THEN [table[p] EXCEPT !.state = "expired"] ELSE table[p]]

\* UPDATE action_plans SET state = 'expired' WHERE state = 'planned' AND ...
Expire(table, now) ==
    [p \in Plans |-> IF table[p].state = "planned" /\ table[p].expiresAt <= now
                     THEN [table[p] EXCEPT !.state = "expired"] ELSE table[p]]

Prunable(table) == {p \in Plans : table[p].state \in Terminal}

Delete(table, gone) ==
    [p \in Plans |-> IF p \in gone
                     THEN [table[p] EXCEPT !.state = "deleted"] ELSE table[p]]

\* Mutant: an audit table without a foreign key to characters.
CanAppend_NoForeignKey(p) == p \in Plans

\* INSERT INTO action_audit_events: the character must still have its row,
\* and storage may refuse the write in any case.
CanAppend(p) == row[plans[p].character].status # "absent"
Append(p, event) ==
    /\ CanAppend(p)
    /\ audit' = audit \cup {p}
    /\ written' = [written EXCEPT ![p] = @ \cup {event}]

Goto(c, pc) == calls' = [calls EXCEPT ![c].pc = pc]
Leave(c)    == calls' = [calls EXCEPT ![c] = Idle]

---------------------------------------------------------------------------
(* prepare_eve_action *)

\* Up to the await on assertActionTargetAccess.
PrepareCheck(c) ==
    /\ calls[c].pc = "idle"
    /\ Usable
    /\ calls' = [calls EXCEPT ![c] =
                    [Idle EXCEPT !.pc = "preparing", !.character = selected,
                                 !.generation = row[selected].generation]]
    /\ UNCHANGED <<clock, dbVars, issued, eveVars, orphaned>>

\* A plan lives PLAN_TTL_MS from the moment it is stored.
ExpiresAt(now) == now + PlanTtl

\* expire, prune and create, once the target is known to be accessible.
PrepareStore(c) ==
    /\ calls[c].pc = "preparing"
    /\ LET current == Expire(plans, clock) IN
       \E gone \in SUBSET Prunable(current) :
         LET kept == Delete(current, gone) IN
         IF row[calls[c].character].status = "absent"
         THEN /\ plans' = kept              \* the foreign key refuses the row
              /\ Leave(c)
         ELSE \E p \in {q \in Plans : plans[q].state = "unused"} :
              /\ plans' = [kept EXCEPT ![p] =
                              [state |-> "planned",
                               character |-> calls[c].character,
                               generation |-> calls[c].generation,
                               expiresAt |-> ExpiresAt(clock)]]
              /\ calls' = [calls EXCEPT ![c].pc = "stored", ![c].plan = p]
    /\ UNCHANGED <<clock, row, selected, issued, audit, written, eveVars,
                   orphaned>>

\* The 'planned' audit event, audit.prune, and the answer to the client.
PrepareRecord(c) ==
    /\ calls[c].pc = "stored"
    /\ CanAppend(calls[c].plan)
    /\ written' = [written EXCEPT ![calls[c].plan] = @ \cup {"planned"}]
    /\ \E old \in SUBSET audit : audit' = (audit \cup {calls[c].plan}) \ old
    /\ issued' = issued \cup {calls[c].plan}
    /\ Leave(c)
    /\ UNCHANGED <<clock, row, selected, plans, eveVars, orphaned>>

---------------------------------------------------------------------------
(* execute_eve_action *)

\* The synchronous checks: expire, find, state, expiry, binding.  Config,
\* confirmation, digest and scopes are checked in the same block and leave
\* the call idle as any other refusal.  The time is read here, once.
ExecuteCheck(c, p) ==
    /\ calls[c].pc = "idle"
    /\ p \in issued
    /\ plans' = Expire(plans, clock)
    /\ IF /\ plans'[p].state = "planned"
          /\ Usable
          /\ plans[p].character = selected
          /\ plans[p].generation = row[selected].generation
       THEN calls' = [calls EXCEPT ![c] =
                         [Idle EXCEPT !.pc = "checked", !.plan = p,
                                      !.character = selected,
                                      !.generation = plans[p].generation,
                                      !.now = clock]]
       ELSE UNCHANGED calls
    /\ UNCHANGED <<clock, row, selected, issued, audit, written, eveVars,
                   orphaned>>

\* Mutant: UPDATE ... SET state = 'executing' WHERE plan_id = ? alone.
CanBegin_NoStateGuard(c) == plans[calls[c].plan].expiresAt > calls[c].now

\* beginExecution, after the await on the target: the time is still the one
\* read before it.
CanBegin(c) ==
    /\ plans[calls[c].plan].state = "planned"
    /\ plans[calls[c].plan].expiresAt > calls[c].now

BeginExecution(c) ==
    /\ calls[c].pc = "checked"
    /\ IF CanBegin(c)
       THEN /\ plans' = [plans EXCEPT ![calls[c].plan].state = "executing"]
            /\ Goto(c, "begun")
       ELSE /\ Leave(c)                     \* ACTION_ALREADY_EXECUTED
            /\ UNCHANGED plans
    /\ UNCHANGED <<clock, row, selected, issued, audit, written, eveVars,
                   orphaned>>

\* audit.append('executing') stands before the try block.
RecordExecuting(c) ==
    /\ calls[c].pc = "begun"
    /\ Append(calls[c].plan, "executing")
    /\ Goto(c, "armed")
    /\ UNCHANGED <<clock, row, selected, plans, issued, eveVars, orphaned>>

\* Mutant: the audit is best effort, as a failed append is swallowed.
RecordExecutingFails_Swallowed(c) ==
    /\ calls[c].pc = "begun"
    /\ Goto(c, "armed")
    /\ UNCHANGED <<clock, dbVars, issued, eveVars, orphaned>>

\* A failed append leaves the handler, and nobody finishes the plan.
RecordExecutingFails(c) ==
    /\ calls[c].pc = "begun"
    /\ Leave(c)
    /\ orphaned' = orphaned \cup {calls[c].plan}
    /\ UNCHANGED <<clock, dbVars, issued, eveVars>>

\* executeAction up to fetch: access token, rate limit, throwIfAborted; any
\* of them may throw instead.
Transmit(c) ==
    /\ calls[c].pc = "armed"
    /\ requests' = [requests EXCEPT ![calls[c].plan] = @ + 1]
    /\ Goto(c, "sent")
    /\ UNCHANGED <<clock, dbVars, issued, applied, cut, orphaned>>

Conclude(c, outcome) ==
    calls' = [calls EXCEPT ![c].pc = "finishing", ![c].outcome = outcome]

\* Mutant: executeAction outside the try block.
NotTransmitted_Leaves(c) ==
    /\ calls[c].pc = "armed"
    /\ Leave(c)
    /\ UNCHANGED <<clock, dbVars, issued, eveVars, orphaned>>

NotTransmitted(c) ==
    /\ calls[c].pc = "armed"
    /\ Conclude(c, "failed")
    /\ UNCHANGED <<clock, dbVars, issued, eveVars, orphaned>>

\* 2xx, JSON, complete, as the operation's schema says.
Accepted(c) ==
    /\ calls[c].pc = "sent"
    /\ applied[calls[c].plan] > 0
    /\ Conclude(c, "succeeded")
    /\ UNCHANGED <<clock, dbVars, issued, eveVars, orphaned>>

\* A complete answer the executor rejects: an error status, a body that is
\* not JSON, or one the schema refuses.
Rejected(c) ==
    /\ calls[c].pc = "sent"
    /\ Conclude(c, "failed")
    /\ UNCHANGED <<clock, dbVars, issued, eveVars, orphaned>>

\* Mutant: the retry loop of reads, applied to actions.
LostBeforeHeaders_Retries(c) ==
    /\ calls[c].pc = "sent"
    /\ Goto(c, "armed")
    /\ cut' = cut \cup {calls[c].plan}
    /\ UNCHANGED <<clock, dbVars, issued, requests, applied, orphaned>>

\* fetch rejects: reset, timeout or abort before the response headers.
LostBeforeHeaders(c) ==
    /\ calls[c].pc = "sent"
    /\ Conclude(c, "uncertain")
    /\ cut' = cut \cup {calls[c].plan}
    /\ UNCHANGED <<clock, dbVars, issued, requests, applied, orphaned>>

\* The connection breaks, or the deadline fires, while readJson reads the
\* body of a 2xx answer: not an AppError with the uncertain code.
LostInBody(c) ==
    /\ calls[c].pc = "sent"
    /\ applied[calls[c].plan] > 0
    /\ Conclude(c, "failed")
    /\ cut' = cut \cup {calls[c].plan}
    /\ UNCHANGED <<clock, dbVars, issued, requests, applied, orphaned>>

\* plans.finish; a success that finds no executing row turns into a failure
\* through the catch block.
Finish(c) ==
    LET p == calls[c].plan IN
    /\ calls[c].pc = "finishing"
    /\ IF plans[p].state = "executing"
       THEN /\ plans' = [plans EXCEPT ![p].state = calls[c].outcome]
            /\ Goto(c, "recording")
       ELSE /\ calls' = [calls EXCEPT ![c].pc = "recording",
                            ![c].outcome = IF @ = "succeeded" THEN "failed"
                                           ELSE @]
            /\ UNCHANGED plans
    /\ UNCHANGED <<clock, row, selected, issued, audit, written, eveVars,
                   orphaned>>

\* Storage refuses the update.  After a success the catch block tries again,
\* with outcome 'failed'; otherwise the call ends and the plan stays.
FinishFails(c) ==
    /\ calls[c].pc = "finishing"
    /\ IF calls[c].outcome = "succeeded"
       THEN Conclude(c, "failed") /\ UNCHANGED orphaned
       ELSE Leave(c) /\ orphaned' = orphaned \cup {calls[c].plan}
    /\ UNCHANGED <<clock, dbVars, issued, eveVars>>

\* The outcome's audit event.
RecordOutcome(c) ==
    /\ calls[c].pc = "recording"
    /\ Append(calls[c].plan, calls[c].outcome)
    /\ Leave(c)
    /\ UNCHANGED <<clock, row, selected, plans, issued, eveVars, orphaned>>

\* The append throws.  After a success the catch block runs once more, with
\* outcome 'failed', on a plan that is finished; otherwise the call ends.
RecordOutcomeFails(c) ==
    /\ calls[c].pc = "recording"
    /\ IF calls[c].outcome = "succeeded" THEN Conclude(c, "failed")
       ELSE Leave(c)
    /\ UNCHANGED <<clock, dbVars, issued, eveVars, orphaned>>

\* The stages in which the call owes its plan a final state.
Executing(c) == calls[c].pc \in {"begun", "armed", "sent", "finishing"}

\* The process dies; before the plan is begun, also an aborted await, a
\* refused target or a failed write.
Abandon(c) ==
    /\ calls[c].pc # "idle"
    /\ Leave(c)
    /\ orphaned' = IF Executing(c) THEN orphaned \cup {calls[c].plan}
                   ELSE orphaned
    /\ UNCHANGED <<clock, dbVars, issued, eveVars>>

---------------------------------------------------------------------------
(* Around the calls: EVE, the clock, and the other tools on characters *)

\* EVE carries out a request it received, however late; a request is carried
\* out at most once, and never without having been sent.
EveApplies(p) ==
    /\ applied[p] < requests[p]
    /\ applied' = [applied EXCEPT ![p] = @ + 1]
    /\ UNCHANGED <<clock, dbVars, issued, calls, requests, cut, orphaned>>

Tick ==
    /\ clock < MaxClock
    /\ clock' = clock + 1
    /\ UNCHANGED <<dbVars, issued, calls, eveVars, orphaned>>

Select(ch) ==
    /\ row[ch].status = "connected"
    /\ selected' = ch
    /\ UNCHANGED <<clock, row, plans, issued, audit, written, calls, eveVars,
                   orphaned>>

\* connect: a new row, generation 1, selected if nothing is.
Connect(ch) ==
    /\ row[ch].status = "absent"
    /\ row' = [row EXCEPT ![ch] = [status |-> "connected", generation |-> 1]]
    /\ selected' = IF selected = None THEN ch ELSE selected
    /\ UNCHANGED <<clock, plans, issued, audit, written, calls, eveVars,
                   orphaned>>

ReplaceGrant(ch) ==
    /\ row[ch].status # "absent"
    /\ row[ch].generation < MaxGeneration
    /\ row' = [row EXCEPT ![ch] = [status |-> "connected",
                                   generation |-> @.generation + 1]]
    /\ UNCHANGED <<clock, selected, plans, issued, audit, written, calls,
                   eveVars, orphaned>>

MarkReauthorizationRequired(ch) ==
    /\ row[ch].status = "connected"
    /\ row' = [row EXCEPT ![ch].status = "reauthorization_required"]
    /\ UNCHANGED <<clock, selected, plans, issued, audit, written, calls,
                   eveVars, orphaned>>

BeginRemoval(ch) ==
    /\ row[ch].status # "absent"
    /\ row[ch].generation < MaxGeneration
    /\ row' = [row EXCEPT ![ch] = [status |-> "removal_pending",
                                   generation |-> @.generation + 1]]
    /\ selected' = IF selected = ch THEN None ELSE selected
    /\ UNCHANGED <<clock, plans, issued, audit, written, calls, eveVars,
                   orphaned>>

\* DELETE FROM characters cascades to the plans and audit events.
OwnPlans(ch) == {p \in Plans : plans[p].character = ch}

CompleteRemoval(ch) ==
    /\ row[ch].status = "removal_pending"
    /\ row' = [row EXCEPT ![ch] = [status |-> "absent", generation |-> 0]]
    /\ plans' = Delete(plans, OwnPlans(ch))
    /\ audit' = audit \ OwnPlans(ch)
    /\ UNCHANGED <<clock, selected, issued, written, calls, eveVars, orphaned>>

---------------------------------------------------------------------------
(* The steps an executing call takes by itself *)
Proceed(c) ==
    \/ BeginExecution(c) \/ RecordExecuting(c) \/ RecordExecutingFails(c)
    \/ Transmit(c) \/ NotTransmitted(c)
    \/ Accepted(c) \/ Rejected(c) \/ LostBeforeHeaders(c) \/ LostInBody(c)
    \/ Finish(c) \/ FinishFails(c) \/ RecordOutcome(c) \/ RecordOutcomeFails(c)

Call(c) ==
    \/ PrepareCheck(c) \/ PrepareStore(c) \/ PrepareRecord(c)
    \/ \E p \in Plans : ExecuteCheck(c, p)
    \/ Proceed(c)
    \/ Abandon(c)

CharacterStep(ch) ==
    \/ Select(ch) \/ Connect(ch) \/ ReplaceGrant(ch)
    \/ MarkReauthorizationRequired(ch)
    \/ BeginRemoval(ch) \/ CompleteRemoval(ch)

Next ==
    \/ \E c \in Calls : Call(c)
    \/ \E p \in Plans : EveApplies(p)
    \/ \E ch \in Characters : CharacterStep(ch)
    \/ Tick

Spec == Init /\ [][Next]_vars

\* Every await of an executing call carries the request signal, whose
\* timeout ends it, so the call always reaches its next step.
FairSpec == Spec /\ \A c \in Calls : WF_vars(Proceed(c))

---------------------------------------------------------------------------
(* Properties *)

\* A plan's request is handed to EVE at most once, however many calls, in
\* however many processes, execute the plan at the same time.
AtMostOnce == \A p \in Plans : requests[p] <= 1

\* Write-ahead audit: nothing is sent for a plan whose 'executing' event was
\* not stored first.
SentIsAudited ==
    \A p \in Plans : requests[p] > 0 => "executing" \in written[p]

\* A plan stored, or audited, as succeeded took effect in EVE exactly once,
\* and one that is still open or has expired sent nothing, whatever the
\* other calls on it did in between.
HonestState ==
    \A p \in Plans :
      /\ plans[p].state = "succeeded" \/ "succeeded" \in written[p]
         => applied[p] = 1
      /\ plans[p].state \in {"unused", "planned", "expired"} => requests[p] = 0

\* Complete removal of a character leaves no plan and no audit event of it,
\* not even one written by a call that was under way.
RemovalIsComplete ==
    \A p \in Plans :
      /\ plans[p].character # None
      /\ row[plans[p].character].status = "absent"
      => plans[p].state = "deleted" /\ p \notin audit

\* A final state is final: only pruning or removal ends it.
FinalIsFinal ==
    [][\A p \in Plans :
         plans[p].state \in Terminal \cup {"deleted"}
         => plans'[p].state \in {plans[p].state, "deleted"}]_vars

\* An executing plan is finished or removed, unless its call dies.
ExecutionEnds ==
    \A p \in Plans :
      (plans[p].state = "executing")
        ~> (plans[p].state # "executing" \/ p \in orphaned)

\* Refinement: the plans that can no longer be sent.
Sendable(p) ==
    \/ plans[p].state \in {"unused", "planned"}
    \/ \E c \in Calls : calls[c].plan = p /\ calls[c].pc \in {"begun", "armed"}

Abstract == INSTANCE OneShotAction
              WITH transmitted <- requests,
                   closed <- {p \in Plans : ~Sendable(p)}
ImplementsOneShot == Abstract!Spec

\* docs/action-safety.md: a connection lost after transmission makes the
\* outcome uncertain.
LostIsUncertain ==
    \A p \in Plans :
      p \in cut /\ plans[p].state \in Terminal => plans[p].state = "uncertain"

=============================================================================
