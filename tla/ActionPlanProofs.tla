-------------------------- MODULE ActionPlanProofs --------------------------
(***************************************************************************)
(* Proofs about ActionPlan for any sets of plans, calls and characters and *)
(* any bounds.                                                             *)
(***************************************************************************)
EXTENDS ActionPlan, TLAPS

---------------------------------------------------------------------------
(* The inductive invariant *)

\* What the local state of a call says about its own fields.
CallsWellFormed ==
    \A c \in Calls :
      /\ calls[c].pc \notin {"idle", "preparing"} => calls[c].plan \in Plans
      /\ calls[c].pc = "preparing" => calls[c].character \in Characters
      /\ calls[c].pc \in {"finishing", "recording"}
         => calls[c].outcome \in Outcome

\* From beginExecution to its last audit event a call holds its plan.
Holds(c) == calls[c].pc \in {"begun", "armed", "sent", "finishing", "recording"}

\* A plan that is held is one nobody else can begin ...
HeldIsTaken ==
    \A c \in Calls : Holds(c) =>
        plans[calls[c].plan].state \notin {"unused", "planned", "expired"}

\* ... and it is held by one call.
HeldOnce ==
    \A c, d \in Calls :
      Holds(c) /\ Holds(d) /\ calls[c].plan = calls[d].plan => c = d

\* Nothing was sent for a plan before the call that holds it sends.
UnsentBefore ==
    /\ \A c \in Calls : calls[c].pc \in {"begun", "armed"}
                        => requests[calls[c].plan] = 0
    /\ \A p \in Plans : plans[p].state \in {"unused", "planned", "expired"}
                        => requests[p] = 0

\* The 'executing' event is stored before the call may send.
ArmedIsAudited ==
    \A c \in Calls : calls[c].pc = "armed"
                     => "executing" \in written[calls[c].plan]

\* EVE acts on what it received, and success is believed only of what it did.
SuccessIsApplied ==
    /\ \A p \in Plans : applied[p] <= requests[p]
    /\ \A c \in Calls :
         calls[c].pc \in {"finishing", "recording"}
           /\ calls[c].outcome = "succeeded"
         => applied[calls[c].plan] > 0
    /\ \A p \in Plans :
         plans[p].state = "succeeded" \/ "succeeded" \in written[p]
         => applied[p] > 0

IInv ==
    /\ TypeOK
    /\ CallsWellFormed
    /\ HeldIsTaken
    /\ HeldOnce
    /\ UnsentBefore
    /\ AtMostOnce
    /\ ArmedIsAudited
    /\ SentIsAudited
    /\ SuccessIsApplied

---------------------------------------------------------------------------
(* What a step does to the local state of its call *)

Kept(c) == \A d \in Calls \ {c} : calls'[d] = calls[d]

LEMMA GotoFacts ==
    ASSUME calls \in [Calls -> CallState], NEW c \in Calls,
           NEW pc \in CallPc, Goto(c, pc)
    PROVE  /\ calls' \in [Calls -> CallState]
           /\ Kept(c)
           /\ calls'[c].pc = pc
           /\ calls'[c].plan = calls[c].plan
           /\ calls'[c].character = calls[c].character
           /\ calls'[c].outcome = calls[c].outcome
BY DEF Goto, Kept, CallState

LEMMA IdleType == Idle \in CallState
BY ParametersAssumption DEF Idle, CallState, CallPc, Generation, Time

LEMMA LeaveFacts ==
    ASSUME calls \in [Calls -> CallState], NEW c \in Calls, Leave(c)
    PROVE  /\ calls' \in [Calls -> CallState]
           /\ Kept(c)
           /\ calls'[c].pc = "idle"
BY IdleType DEF Leave, Idle, Kept

LEMMA ConcludeFacts ==
    ASSUME calls \in [Calls -> CallState], NEW c \in Calls,
           NEW outcome \in Outcome, Conclude(c, outcome)
    PROVE  /\ calls' \in [Calls -> CallState]
           /\ Kept(c)
           /\ calls'[c].pc = "finishing"
           /\ calls'[c].plan = calls[c].plan
           /\ calls'[c].outcome = outcome
<1> DEFINE new == [calls[c] EXCEPT !.pc = "finishing", !.outcome = outcome]
<1>1. calls' = [calls EXCEPT ![c] = new]
  BY Zenon DEF Conclude
<1>2. new \in CallState
  BY DEF CallState, CallPc
<1> QED
  BY <1>1, <1>2 DEF Kept, CallState

LEMMA FinishFacts ==
    ASSUME calls \in [Calls -> CallState], NEW c \in Calls,
           calls[c].outcome \in Outcome,
           calls' = [calls EXCEPT ![c].pc = "recording",
                        ![c].outcome = IF @ = "succeeded" THEN "failed" ELSE @]
    PROVE  /\ calls' \in [Calls -> CallState]
           /\ Kept(c)
           /\ calls'[c].pc = "recording"
           /\ calls'[c].plan = calls[c].plan
           /\ calls'[c].outcome \in Outcome \ {"succeeded"}
<1> DEFINE new == [calls[c] EXCEPT !.pc = "recording",
                     !.outcome = IF @ = "succeeded" THEN "failed" ELSE @]
<1>1. calls' = [calls EXCEPT ![c] = new]
  BY Zenon
<1>2. new \in CallState /\ new.outcome \in Outcome \ {"succeeded"}
  BY DEF CallState, CallPc, Outcome
<1> QED
  BY <1>1, <1>2 DEF Kept, CallState

---------------------------------------------------------------------------
(* Type correctness *)

LEMMA TypesInitially == Init => TypeOK /\ CallsWellFormed
BY ParametersAssumption
   DEF Init, TypeOK, CallsWellFormed, NoPlan, Idle, PlanRow, CallState,
       CallPc, PlanState, Terminal, Outcome, Status, Time, Generation

LEMMA ExpireType ==
    ASSUME NEW table \in [Plans -> PlanRow], NEW now
    PROVE  Expire(table, now) \in [Plans -> PlanRow]
BY DEF Expire, PlanRow, PlanState, Terminal

LEMMA DeleteType ==
    ASSUME NEW table \in [Plans -> PlanRow], NEW gone
    PROVE  Delete(table, gone) \in [Plans -> PlanRow]
BY DEF Delete, PlanRow, PlanState

\* The steps by which anything can change, one case for each action.
LEMMA TypesPreserved ==
    ASSUME TypeOK, CallsWellFormed, [Next]_vars
    PROVE  TypeOK' /\ CallsWellFormed'
<1> USE DEF TypeOK, CallsWellFormed
<1>1. ASSUME NEW c \in Calls, PrepareCheck(c) PROVE TypeOK' /\ CallsWellFormed'
  <2> DEFINE new == [Idle EXCEPT !.pc = "preparing", !.character = selected,
                                 !.generation = row[selected].generation]
  <2>1. calls' = [calls EXCEPT ![c] = new] /\ selected \in Characters
    BY <1>1 DEF PrepareCheck, Usable
  <2>2. new \in CallState /\ new.pc = "preparing" /\ new.character = selected
    <3>1. row[selected].generation \in Generation
      BY <2>1
    <3> QED
      BY <2>1, <3>1, IdleType DEF CallState, CallPc
  <2> QED
    BY <1>1, <2>1, <2>2 DEF PrepareCheck, dbVars, eveVars, CallState
<1>2. ASSUME NEW c \in Calls, PrepareStore(c) PROVE TypeOK' /\ CallsWellFormed'
  <2> DEFINE current == Expire(plans, clock)
  <2>1. current \in [Plans -> PlanRow]
    BY ExpireType
  <2>2. PICK gone \in SUBSET Prunable(current) :
          LET kept == Delete(current, gone) IN
          IF row[calls[c].character].status = "absent"
          THEN plans' = kept /\ Leave(c)
          ELSE \E p \in {q \in Plans : plans[q].state = "unused"} :
                 /\ plans' = [kept EXCEPT ![p] =
                                [state |-> "planned",
                                 character |-> calls[c].character,
                                 generation |-> calls[c].generation,
                                 expiresAt |-> ExpiresAt(clock)]]
                 /\ calls' = [calls EXCEPT ![c].pc = "stored", ![c].plan = p]
    BY <1>2 DEF PrepareStore
  <2> DEFINE kept == Delete(current, gone)
  <2>3. kept \in [Plans -> PlanRow]
    BY <2>1, DeleteType
  <2> HIDE DEF current, kept
  <2>4. UNCHANGED <<clock, row, selected, issued, audit, written, requests,
                    applied, cut, orphaned>>
    BY <1>2 DEF PrepareStore, eveVars
  <2>5. CASE row[calls[c].character].status = "absent"
    <3>1. plans' = kept /\ Leave(c)
      BY <2>2, <2>5 DEF kept, current
    <3> QED
      BY <3>1, <2>3, <2>4, LeaveFacts DEF Kept
  <2>6. CASE row[calls[c].character].status # "absent"
    <3>1. PICK p \in Plans :
            /\ plans' = [kept EXCEPT ![p] =
                           [state |-> "planned",
                            character |-> calls[c].character,
                            generation |-> calls[c].generation,
                            expiresAt |-> ExpiresAt(clock)]]
            /\ calls' = [calls EXCEPT ![c].pc = "stored", ![c].plan = p]
      BY <2>2, <2>6 DEF kept, current
    <3>2. calls[c].generation \in Generation /\ calls[c].character \in Characters
      BY <1>2 DEF PrepareStore, CallState
    <3>3. [state |-> "planned", character |-> calls[c].character,
           generation |-> calls[c].generation,
           expiresAt |-> ExpiresAt(clock)] \in PlanRow
      BY <3>2, ParametersAssumption DEF PlanRow, PlanState, Time, ExpiresAt
    <3>4. plans' \in [Plans -> PlanRow]
      BY <3>1, <3>3, <2>3
    <3> DEFINE new == [calls[c] EXCEPT !.pc = "stored", !.plan = p]
    <3>5. calls' = [calls EXCEPT ![c] = new]
      BY <3>1, Zenon
    <3>6. new \in CallState /\ new.pc = "stored" /\ new.plan = p
      BY DEF CallState, CallPc
    <3> QED
      BY <3>4, <3>5, <3>6, <2>4 DEF CallState
  <2> QED
    BY <2>5, <2>6
<1>3. ASSUME NEW c \in Calls, PrepareRecord(c) PROVE TypeOK' /\ CallsWellFormed'
  BY <1>3, LeaveFacts DEF PrepareRecord, Kept, EventState, eveVars
<1>4. ASSUME NEW c \in Calls, BeginExecution(c)
      PROVE  TypeOK' /\ CallsWellFormed'
  <2>1. calls' \in [Calls -> CallState] /\ CallsWellFormed'
    <3>1. CASE CanBegin(c)
      BY <1>4, <3>1, GotoFacts DEF BeginExecution, Kept, CallPc
    <3>2. CASE ~CanBegin(c)
      BY <1>4, <3>2, LeaveFacts DEF BeginExecution, Kept
    <3> QED
      BY <3>1, <3>2
  <2>2. plans' \in [Plans -> PlanRow]
    <3> DEFINE p == calls[c].plan
               new == [plans[p] EXCEPT !.state = "executing"]
    <3>1. p \in Plans
      BY <1>4 DEF BeginExecution
    <3>2. new \in PlanRow
      <4>1. plans[p] \in PlanRow
        BY <3>1
      <4> HIDE DEF TypeOK, CallsWellFormed, p
      <4> QED
        BY <4>1 DEF PlanRow, PlanState
    <3>3. plans' = plans \/ plans' = [plans EXCEPT ![p] = new]
      BY <1>4, Zenon DEF BeginExecution
    <3> QED
      BY <3>1, <3>2, <3>3
  <2> QED
    BY <1>4, <2>1, <2>2 DEF BeginExecution, eveVars
<1>5. ASSUME NEW c \in Calls, RecordExecuting(c)
      PROVE  TypeOK' /\ CallsWellFormed'
  BY <1>5, GotoFacts DEF RecordExecuting, Append, Kept, CallPc, EventState,
     eveVars
<1>6. ASSUME NEW c \in Calls, RecordExecutingFails(c)
      PROVE  TypeOK' /\ CallsWellFormed'
  BY <1>6, LeaveFacts DEF RecordExecutingFails, Kept, dbVars, eveVars
<1>7. ASSUME NEW c \in Calls, Transmit(c)
      PROVE  TypeOK' /\ CallsWellFormed'
  BY <1>7, GotoFacts DEF Transmit, Kept, CallPc, dbVars
<1>8. ASSUME NEW c \in Calls, NotTransmitted(c)
      PROVE  TypeOK' /\ CallsWellFormed'
  BY <1>8, ConcludeFacts DEF NotTransmitted, Kept, Outcome, dbVars, eveVars
<1>9. ASSUME NEW c \in Calls, Accepted(c)
      PROVE  TypeOK' /\ CallsWellFormed'
  BY <1>9, ConcludeFacts DEF Accepted, Kept, Outcome, dbVars, eveVars
<1>10. ASSUME NEW c \in Calls, Rejected(c)
      PROVE  TypeOK' /\ CallsWellFormed'
  BY <1>10, ConcludeFacts DEF Rejected, Kept, Outcome, dbVars, eveVars
<1>11. ASSUME NEW c \in Calls, LostBeforeHeaders(c)
      PROVE  TypeOK' /\ CallsWellFormed'
  BY <1>11, ConcludeFacts DEF LostBeforeHeaders, Kept, Outcome, dbVars
<1>12. ASSUME NEW c \in Calls, LostInBody(c)
      PROVE  TypeOK' /\ CallsWellFormed'
  BY <1>12, ConcludeFacts DEF LostInBody, Kept, Outcome, dbVars
<1>13. ASSUME NEW c \in Calls, Finish(c)
      PROVE  TypeOK' /\ CallsWellFormed'
  <2> DEFINE p == calls[c].plan
  <2>1. p \in Plans /\ calls[c].outcome \in Outcome
    BY <1>13 DEF Finish
  <2>2. plans' \in [Plans -> PlanRow]
    <3> DEFINE new == [plans[p] EXCEPT !.state = calls[c].outcome]
    <3>1. new \in PlanRow
      <4>1. plans[p] \in PlanRow
        BY <2>1
      <4> HIDE DEF TypeOK, CallsWellFormed, p
      <4> QED
        BY <2>1, <4>1 DEF PlanRow, PlanState, Terminal
    <3>2. plans' = plans \/ plans' = [plans EXCEPT ![p] = new]
      BY <1>13, Zenon DEF Finish
    <3> QED
      BY <3>1, <3>2
  <2>3. calls' \in [Calls -> CallState] /\ CallsWellFormed'
    <3>1. CASE plans[p].state = "executing"
      BY <1>13, <2>1, <3>1, GotoFacts DEF Finish, Kept, CallPc
    <3>2. CASE plans[p].state # "executing"
      BY <1>13, <2>1, <3>2, FinishFacts DEF Finish, Kept
    <3> QED
      BY <3>1, <3>2
  <2> QED
    BY <1>13, <2>2, <2>3 DEF Finish, eveVars
<1>14. ASSUME NEW c \in Calls, RecordOutcome(c)
      PROVE  TypeOK' /\ CallsWellFormed'
  BY <1>14, LeaveFacts DEF RecordOutcome, Append, Kept, EventState, Outcome,
     eveVars
<1>15. ASSUME NEW c \in Calls, RecordOutcomeFails(c)
      PROVE  TypeOK' /\ CallsWellFormed'
  <2>1. CASE calls[c].outcome = "succeeded"
    BY <1>15, <2>1, ConcludeFacts DEF RecordOutcomeFails, Kept, Outcome,
       dbVars, eveVars
  <2>2. CASE calls[c].outcome # "succeeded"
    BY <1>15, <2>2, LeaveFacts DEF RecordOutcomeFails, Kept, dbVars, eveVars
  <2> QED
    BY <2>1, <2>2
<1>15a. ASSUME NEW c \in Calls, FinishFails(c)
      PROVE  TypeOK' /\ CallsWellFormed'
  <2>1. CASE calls[c].outcome = "succeeded"
    BY <1>15a, <2>1, ConcludeFacts DEF FinishFails, Kept, Outcome, dbVars,
       eveVars
  <2>2. CASE calls[c].outcome # "succeeded"
    BY <1>15a, <2>2, LeaveFacts DEF FinishFails, Kept, dbVars, eveVars
  <2> QED
    BY <2>1, <2>2
<1>16. ASSUME NEW c \in Calls, Abandon(c)
      PROVE  TypeOK' /\ CallsWellFormed'
  BY <1>16, LeaveFacts DEF Abandon, Executing, Kept, dbVars, eveVars
<1>17. ASSUME NEW c \in Calls, NEW p \in Plans, ExecuteCheck(c, p)
      PROVE  TypeOK' /\ CallsWellFormed'
  <2>1. plans' \in [Plans -> PlanRow]
    BY <1>17, ExpireType DEF ExecuteCheck
  <2>2. calls' = calls \/ calls' = [calls EXCEPT ![c] =
           [Idle EXCEPT !.pc = "checked", !.plan = p, !.character = selected,
                        !.generation = plans[p].generation, !.now = clock]]
    BY <1>17 DEF ExecuteCheck
  <2> DEFINE new == [Idle EXCEPT !.pc = "checked", !.plan = p,
                       !.character = selected,
                       !.generation = plans[p].generation, !.now = clock]
  <2>3. new \in CallState /\ new.pc = "checked" /\ new.plan = p
    <3>1. plans[p].generation \in Generation
      BY DEF PlanRow
    <3> QED
      BY <3>1, IdleType DEF CallState, CallPc
  <2>4. calls' \in [Calls -> CallState] /\ CallsWellFormed'
    <3>1. CASE calls' = calls
      BY <3>1
    <3>2. CASE calls' = [calls EXCEPT ![c] = new]
      <4> HIDE DEF new
      <4> QED
        BY <3>2, <2>3
    <3> QED
      BY <2>2, <3>1, <3>2
  <2> QED
    BY <1>17, <2>1, <2>4 DEF ExecuteCheck, eveVars
<1>18. ASSUME NEW p \in Plans, EveApplies(p) PROVE TypeOK' /\ CallsWellFormed'
  BY <1>18 DEF EveApplies, dbVars
<1>19. ASSUME NEW ch \in Characters, CharacterStep(ch)
      PROVE  TypeOK' /\ CallsWellFormed'
  <2> USE ParametersAssumption DEF Status, Generation, eveVars
  <2>1. CASE Select(ch)
    BY <2>1 DEF Select
  <2>2. CASE Connect(ch)
    BY <2>2 DEF Connect
  <2>3. CASE ReplaceGrant(ch)
    BY <2>3 DEF ReplaceGrant
  <2>4. CASE MarkReauthorizationRequired(ch)
    BY <2>4 DEF MarkReauthorizationRequired
  <2>5. CASE BeginRemoval(ch)
    BY <2>5 DEF BeginRemoval
  <2>6. CASE CompleteRemoval(ch)
    <3>1. plans' \in [Plans -> PlanRow]
      BY <2>6, DeleteType DEF CompleteRemoval
    <3> QED
      BY <2>6, <3>1 DEF CompleteRemoval
  <2> QED
    BY <1>19, <2>1, <2>2, <2>3, <2>4, <2>5, <2>6 DEF CharacterStep
<1>20. ASSUME Tick PROVE TypeOK' /\ CallsWellFormed'
  BY <1>20, ParametersAssumption DEF Tick, Time, dbVars, eveVars
<1>21. ASSUME UNCHANGED vars PROVE TypeOK' /\ CallsWellFormed'
  BY <1>21 DEF vars
<1> QED
  BY <1>1, <1>2, <1>3, <1>4, <1>5, <1>6, <1>7, <1>8, <1>9, <1>10, <1>11, <1>12, <1>13, <1>14, <1>15, <1>16, <1>17, <1>18, <1>19, <1>20, <1>21, <1>15a
     DEF Next, Call, Proceed

---------------------------------------------------------------------------
(* What a step does to the plan table *)

\* The expiry and pruning statements never touch an unfinished execution.
LEMMA AgeFacts ==
    ASSUME plans \in [Plans -> PlanRow], NEW now,
           NEW gone \in SUBSET Prunable(Expire(plans, now)), NEW p \in Plans
    PROVE  LET aged == Delete(Expire(plans, now), gone)[p] IN
           /\ aged.character = plans[p].character
           /\ \/ aged.state = plans[p].state
              \/ plans[p].state = "planned" /\ aged.state \in {"expired", "deleted"}
              \/ plans[p].state \in Terminal /\ aged.state = "deleted"
<1>1. /\ Expire(plans, now)[p].character = plans[p].character
      /\ \/ Expire(plans, now)[p].state = plans[p].state
         \/ /\ plans[p].state = "planned"
            /\ Expire(plans, now)[p].state = "expired"
  BY DEF Expire, PlanRow
<1>2. Expire(plans, now) \in [Plans -> PlanRow]
  BY ExpireType
<1> DEFINE table == Expire(plans, now)
<1> HIDE DEF table
<1>3. /\ Delete(table, gone)[p].character = table[p].character
      /\ \/ Delete(table, gone)[p].state = table[p].state
         \/ /\ table[p].state \in Terminal
            /\ Delete(table, gone)[p].state = "deleted"
  BY <1>2 DEF Delete, PlanRow, Prunable, table
<1> QED
  BY <1>1, <1>3 DEF table, Terminal

\* Preparing ages the table and adds at most one plan, bound to a character
\* that is stored.
LEMMA StoreFacts ==
    ASSUME TypeOK, CallsWellFormed, NEW c \in Calls, PrepareStore(c)
    PROVE  /\ Kept(c)
           /\ calls'[c].pc \in {"idle", "stored"}
           /\ \A p \in Plans :
                \/ /\ plans[p].state = "unused" /\ plans'[p].state = "planned"
                   /\ row[plans'[p].character].status # "absent"
                \/ /\ plans'[p].character = plans[p].character
                   /\ \/ plans'[p].state = plans[p].state
                      \/ /\ plans[p].state = "planned"
                         /\ plans'[p].state \in {"expired", "deleted"}
                      \/ /\ plans[p].state \in Terminal
                         /\ plans'[p].state = "deleted"
<1> DEFINE current == Expire(plans, clock)
<1>1. PICK gone \in SUBSET Prunable(current) :
        LET kept == Delete(current, gone) IN
        IF row[calls[c].character].status = "absent"
        THEN plans' = kept /\ Leave(c)
        ELSE \E p \in {q \in Plans : plans[q].state = "unused"} :
               /\ plans' = [kept EXCEPT ![p] =
                              [state |-> "planned",
                               character |-> calls[c].character,
                               generation |-> calls[c].generation,
                               expiresAt |-> ExpiresAt(clock)]]
               /\ calls' = [calls EXCEPT ![c].pc = "stored", ![c].plan = p]
  BY DEF PrepareStore
<1> DEFINE kept == Delete(current, gone)
<1>2. kept \in [Plans -> PlanRow]
  BY ExpireType, DeleteType DEF TypeOK
<1>3. \A p \in Plans :
        /\ kept[p].character = plans[p].character
        /\ \/ kept[p].state = plans[p].state
           \/ plans[p].state = "planned" /\ kept[p].state \in {"expired", "deleted"}
           \/ plans[p].state \in Terminal /\ kept[p].state = "deleted"
  BY AgeFacts DEF TypeOK
<1>4. CASE row[calls[c].character].status = "absent"
  <2>1. plans' = kept /\ Leave(c)
    BY <1>1, <1>4
  <2> HIDE DEF kept
  <2> QED
    BY <2>1, <1>3, LeaveFacts DEF TypeOK
<1>5. CASE row[calls[c].character].status # "absent"
  <2>1. PICK p \in {q \in Plans : plans[q].state = "unused"} :
          /\ plans' = [kept EXCEPT ![p] =
                         [state |-> "planned",
                          character |-> calls[c].character,
                          generation |-> calls[c].generation,
                          expiresAt |-> ExpiresAt(clock)]]
          /\ calls' = [calls EXCEPT ![c].pc = "stored", ![c].plan = p]
    BY <1>1, <1>5
  <2> HIDE DEF kept
  <2>2. /\ plans'[p].state = "planned"
        /\ plans'[p].character = calls[c].character
        /\ \A q \in Plans \ {p} : plans'[q] = kept[q]
    BY <2>1, <1>2
  <2> DEFINE new == [calls[c] EXCEPT !.pc = "stored", !.plan = p]
  <2>3. calls' = [calls EXCEPT ![c] = new]
    BY <2>1, Zenon
  <2>4. Kept(c) /\ calls'[c].pc = "stored"
    BY <2>3 DEF TypeOK, Kept, CallState
  <2> QED
    BY <2>2, <2>4, <1>3, <1>5
<1> QED
  BY <1>4, <1>5

LEMMA CheckFacts ==
    ASSUME TypeOK, NEW c \in Calls, NEW q \in Plans, ExecuteCheck(c, q)
    PROVE  /\ calls' = calls \/ (Kept(c) /\ calls'[c].pc = "checked")
           /\ \A p \in Plans :
                /\ plans'[p].character = plans[p].character
                /\ \/ plans'[p].state = plans[p].state
                   \/ plans[p].state = "planned" /\ plans'[p].state = "expired"
<1>1. plans' = Expire(plans, clock)
  BY DEF ExecuteCheck
<1>2. \A p \in Plans :
        /\ plans'[p].character = plans[p].character
        /\ \/ plans'[p].state = plans[p].state
           \/ plans[p].state = "planned" /\ plans'[p].state = "expired"
  BY <1>1 DEF Expire, TypeOK, PlanRow
<1> DEFINE new == [Idle EXCEPT !.pc = "checked", !.plan = q,
                     !.character = selected,
                     !.generation = plans[q].generation, !.now = clock]
<1>3. calls' = calls \/ calls' = [calls EXCEPT ![c] = new]
  BY DEF ExecuteCheck
<1>4. new.pc = "checked"
  BY DEF Idle
<1> HIDE DEF new
<1>5. calls' = calls \/ (Kept(c) /\ calls'[c].pc = "checked")
  BY <1>3, <1>4 DEF Kept, TypeOK
<1> QED
  BY <1>2, <1>5

\* An update of one plan's state leaves its character and the other rows.
SetState(p, state) ==
    /\ plans'[p].state = state
    /\ plans'[p].character = plans[p].character
    /\ \A q \in Plans \ {p} : plans'[q] = plans[q]

LEMMA BeginFacts ==
    ASSUME TypeOK, CallsWellFormed, NEW c \in Calls, BeginExecution(c)
    PROVE  \/ /\ plans[calls[c].plan].state = "planned"
              /\ SetState(calls[c].plan, "executing")
              /\ Kept(c) /\ calls'[c].pc = "begun"
              /\ calls'[c].plan = calls[c].plan
           \/ plans' = plans /\ Kept(c) /\ calls'[c].pc = "idle"
<1>1. calls[c].plan \in Plans
  BY DEF BeginExecution, CallsWellFormed
<1>2. CASE CanBegin(c)
  <2>1. plans' = [plans EXCEPT ![calls[c].plan].state = "executing"]
    BY <1>2 DEF BeginExecution
  <2>2. SetState(calls[c].plan, "executing")
    BY <2>1, <1>1 DEF TypeOK, PlanRow, SetState
  <2> QED
    BY <1>2, <2>2, GotoFacts DEF BeginExecution, CanBegin, TypeOK, CallPc
<1>3. CASE ~CanBegin(c)
  BY <1>3, LeaveFacts DEF BeginExecution, TypeOK
<1> QED
  BY <1>2, <1>3

LEMMA EndFacts ==
    ASSUME TypeOK, CallsWellFormed, NEW c \in Calls, Finish(c)
    PROVE  /\ Kept(c) /\ calls'[c].pc = "recording"
           /\ calls'[c].plan = calls[c].plan
           /\ \/ /\ plans[calls[c].plan].state = "executing"
                 /\ calls[c].outcome \in Outcome
                 /\ SetState(calls[c].plan, calls[c].outcome)
                 /\ calls'[c].outcome = calls[c].outcome
              \/ plans' = plans /\ calls'[c].outcome # "succeeded"
<1>1. calls[c].plan \in Plans /\ calls[c].outcome \in Outcome
  BY DEF Finish, CallsWellFormed
<1>2. CASE plans[calls[c].plan].state = "executing"
  <2>1. plans' = [plans EXCEPT ![calls[c].plan].state = calls[c].outcome]
    BY <1>2 DEF Finish
  <2>2. SetState(calls[c].plan, calls[c].outcome)
    BY <2>1, <1>1 DEF TypeOK, PlanRow, SetState
  <2> QED
    BY <1>1, <1>2, <2>2, GotoFacts DEF Finish, TypeOK, CallPc
<1>3. CASE plans[calls[c].plan].state # "executing"
  <2>1. /\ plans' = plans
        /\ calls' = [calls EXCEPT ![c].pc = "recording",
                       ![c].outcome = IF @ = "succeeded" THEN "failed" ELSE @]
    BY <1>3 DEF Finish
  <2> QED
    BY <2>1, <1>1, FinishFacts DEF TypeOK
<1> QED
  BY <1>2, <1>3

LEMMA CharacterFacts ==
    ASSUME TypeOK, NEW ch \in Characters, CharacterStep(ch)
    PROVE  /\ \A p \in Plans :
                /\ plans'[p].character = plans[p].character
                /\ plans'[p].state \in {plans[p].state, "deleted"}
           /\ UNCHANGED <<clock, issued, written, calls, eveVars, orphaned>>
<1>1. CASE CompleteRemoval(ch)
  BY <1>1 DEF CompleteRemoval, Delete, TypeOK, PlanRow
<1>2. CASE UNCHANGED <<clock, plans, issued, audit, written, calls, eveVars,
                       orphaned>>
  BY <1>2
<1> QED
  BY <1>1, <1>2 DEF CharacterStep, Select, Connect, ReplaceGrant,
     MarkReauthorizationRequired, BeginRemoval

---------------------------------------------------------------------------
(* The shapes of a step, as far as the invariant can tell them apart *)

\* Stages in which a call has no claim on its plan.
Free == {"idle", "preparing", "stored", "checked"}

Moves(c, from, to) ==
    /\ calls[c].pc \in from /\ calls'[c].pc = to
    /\ calls[c].plan \in Plans /\ calls'[c].plan = calls[c].plan
    /\ Kept(c)

\* Nobody takes a plan, sends, or records an execution or an outcome.
Quiet ==
    /\ \A c \in Calls : calls'[c] = calls[c] \/ calls'[c].pc \in Free
    /\ \A p \in Plans :
         \/ plans'[p].state \in {plans[p].state, "deleted"}
         \/ plans[p].state = "unused" /\ plans'[p].state = "planned"
         \/ plans[p].state = "planned" /\ plans'[p].state = "expired"
    /\ \A p \in Plans : written'[p] \in {written[p], written[p] \cup {"planned"}}
    /\ UNCHANGED <<requests, applied>>

Begins(c) ==
    /\ Moves(c, {"checked"}, "begun")
    /\ plans[calls[c].plan].state = "planned"
    /\ SetState(calls[c].plan, "executing")
    /\ UNCHANGED <<requests, applied, written>>

Arms(c) ==
    /\ Moves(c, {"begun"}, "armed")
    /\ written' = [written EXCEPT ![calls[c].plan] = @ \cup {"executing"}]
    /\ UNCHANGED <<plans, requests, applied>>

Sends(c) ==
    /\ Moves(c, {"armed"}, "sent")
    /\ requests' = [requests EXCEPT ![calls[c].plan] = @ + 1]
    /\ UNCHANGED <<plans, applied, written>>

Concludes(c) ==
    /\ Moves(c, {"armed", "sent", "finishing", "recording"}, "finishing")
    /\ calls'[c].outcome = "succeeded" => applied[calls[c].plan] > 0
    /\ UNCHANGED <<plans, requests, applied, written>>

Ends(c) ==
    /\ Moves(c, {"finishing"}, "recording")
    /\ \/ plans' = plans /\ calls'[c].outcome # "succeeded"
       \/ /\ calls[c].outcome \in Outcome
          /\ plans[calls[c].plan].state = "executing"
          /\ SetState(calls[c].plan, calls[c].outcome)
          /\ calls'[c].outcome = calls[c].outcome
    /\ UNCHANGED <<requests, applied, written>>

Records(c) ==
    /\ calls[c].pc = "recording" /\ calls'[c].pc = "idle"
    /\ calls[c].plan \in Plans
    /\ Kept(c)
    /\ written' = [written EXCEPT ![calls[c].plan] = @ \cup {calls[c].outcome}]
    /\ UNCHANGED <<plans, requests, applied>>

Applies(p) ==
    /\ applied[p] < requests[p]
    /\ applied' = [applied EXCEPT ![p] = @ + 1]
    /\ UNCHANGED <<plans, calls, requests, written>>

LEMMA PrepareFacts ==
    ASSUME TypeOK, NEW c \in Calls, PrepareCheck(c)
    PROVE  Kept(c) /\ calls'[c].pc = "preparing"
<1> DEFINE new == [Idle EXCEPT !.pc = "preparing", !.character = selected,
                               !.generation = row[selected].generation]
<1>1. calls' = [calls EXCEPT ![c] = new]
  BY DEF PrepareCheck
<1>2. new.pc = "preparing"
  BY DEF Idle
<1> QED
  BY <1>1, <1>2 DEF Kept, TypeOK

LEMMA ConcludeStep ==
    ASSUME TypeOK, CallsWellFormed, NEW c \in Calls,
           \/ NotTransmitted(c) \/ Accepted(c) \/ Rejected(c)
           \/ LostBeforeHeaders(c) \/ LostInBody(c)
    PROVE  Concludes(c)
<1>1. PICK outcome \in Outcome :
        /\ Conclude(c, outcome)
        /\ calls[c].pc \in {"armed", "sent"}
        /\ outcome = "succeeded" => applied[calls[c].plan] > 0
        /\ UNCHANGED <<plans, requests, applied, written>>
  BY DEF NotTransmitted, Accepted, Rejected, LostBeforeHeaders, LostInBody,
         Outcome, dbVars, eveVars
<1> QED
  BY <1>1, ConcludeFacts DEF Concludes, Moves, TypeOK, CallsWellFormed

\* A failed update of the plan, after a success or any other outcome.
LEMMA FinishFailsFacts ==
    ASSUME TypeOK, CallsWellFormed, NEW c \in Calls, FinishFails(c)
    PROVE  Concludes(c) \/ Quiet
<1>1. CASE calls[c].outcome = "succeeded"
  BY <1>1, ConcludeFacts
     DEF FinishFails, TypeOK, CallsWellFormed, Outcome, Concludes, Moves,
         dbVars, eveVars
<1>2. CASE calls[c].outcome # "succeeded"
  BY <1>2, LeaveFacts
     DEF FinishFails, TypeOK, Quiet, Free, Kept, dbVars, eveVars
<1> QED
  BY <1>1, <1>2

\* A failed audit write after a success, or after any other outcome.
LEMMA RecordFailsFacts ==
    ASSUME TypeOK, CallsWellFormed, NEW c \in Calls, RecordOutcomeFails(c)
    PROVE  Concludes(c) \/ Quiet
<1>1. CASE calls[c].outcome = "succeeded"
  BY <1>1, ConcludeFacts
     DEF RecordOutcomeFails, TypeOK, CallsWellFormed, Outcome, Concludes,
         Moves, dbVars, eveVars
<1>2. CASE calls[c].outcome # "succeeded"
  BY <1>2, LeaveFacts
     DEF RecordOutcomeFails, TypeOK, Quiet, Free, Kept, dbVars, eveVars
<1> QED
  BY <1>1, <1>2

\* Every step of the specification has one of these shapes.
LEMMA Shapes ==
    ASSUME TypeOK, CallsWellFormed, [Next]_vars
    PROVE  \/ Quiet
           \/ \E c \in Calls : \/ Begins(c) \/ Arms(c) \/ Sends(c)
                               \/ Concludes(c) \/ Ends(c) \/ Records(c)
           \/ \E p \in Plans : Applies(p)
<1> DEFINE Shape == \/ Quiet
                    \/ \E c \in Calls : \/ Begins(c) \/ Arms(c) \/ Sends(c)
                                        \/ Concludes(c) \/ Ends(c) \/ Records(c)
                    \/ \E p \in Plans : Applies(p)
<1>0. calls \in [Calls -> CallState]
  BY DEF TypeOK
<1>1. ASSUME NEW c \in Calls, PrepareCheck(c) PROVE Quiet
  BY <1>1, PrepareFacts DEF PrepareCheck, Quiet, Free, Kept, dbVars, eveVars
<1>2. ASSUME NEW c \in Calls, PrepareStore(c) PROVE Quiet
  BY <1>2, StoreFacts DEF PrepareStore, Quiet, Free, Kept, eveVars
<1>3. ASSUME NEW c \in Calls, PrepareRecord(c) PROVE Quiet
  BY <1>3, <1>0, LeaveFacts
     DEF PrepareRecord, TypeOK, CallsWellFormed, Quiet, Free, Kept, eveVars
<1>4. ASSUME NEW c \in Calls, BeginExecution(c) PROVE Begins(c) \/ Quiet
  <2>1. /\ calls[c].pc = "checked" /\ calls[c].plan \in Plans
        /\ UNCHANGED <<requests, applied, written>>
    BY <1>4 DEF BeginExecution, CallsWellFormed, eveVars
  <2> QED
    BY <1>4, <2>1, BeginFacts DEF Begins, Moves, Quiet, Free, Kept
<1>5. ASSUME NEW c \in Calls, RecordExecuting(c) PROVE Arms(c)
  BY <1>5, <1>0, GotoFacts
     DEF RecordExecuting, Append, CallsWellFormed, CallPc, Arms, Moves, eveVars
<1>6. ASSUME NEW c \in Calls, RecordExecutingFails(c) PROVE Quiet
  BY <1>6, <1>0, LeaveFacts
     DEF RecordExecutingFails, Quiet, Free, Kept, dbVars, eveVars
<1>7. ASSUME NEW c \in Calls, Transmit(c) PROVE Sends(c)
  BY <1>7, <1>0, GotoFacts
     DEF Transmit, CallsWellFormed, CallPc, Sends, Moves, dbVars
<1>8. ASSUME NEW c \in Calls, Finish(c) PROVE Ends(c)
  BY <1>8, EndFacts DEF Finish, CallsWellFormed, Ends, Moves, eveVars
<1>9. ASSUME NEW c \in Calls, RecordOutcome(c) PROVE Records(c)
  BY <1>9, <1>0, LeaveFacts
     DEF RecordOutcome, Append, CallsWellFormed, Records, eveVars
<1>10. ASSUME NEW c \in Calls, FinishFails(c) \/ RecordOutcomeFails(c)
       PROVE  Shape
  BY <1>10, FinishFailsFacts, RecordFailsFacts
<1>11. ASSUME NEW c \in Calls, Abandon(c) PROVE Quiet
  BY <1>11, <1>0, LeaveFacts DEF Abandon, Quiet, Free, Kept, dbVars, eveVars
<1>12. ASSUME NEW c \in Calls, \/ NotTransmitted(c) \/ Accepted(c)
                               \/ Rejected(c) \/ LostBeforeHeaders(c)
                               \/ LostInBody(c)
       PROVE  Concludes(c)
  BY <1>12, ConcludeStep
<1>13. ASSUME NEW c \in Calls, NEW p \in Plans, ExecuteCheck(c, p) PROVE Quiet
  BY <1>13, CheckFacts DEF ExecuteCheck, Quiet, Free, Kept, eveVars
<1>14. ASSUME NEW p \in Plans, EveApplies(p) PROVE Applies(p)
  BY <1>14 DEF EveApplies, Applies, dbVars
<1>15. ASSUME NEW ch \in Characters, CharacterStep(ch) PROVE Quiet
  BY <1>15, CharacterFacts DEF Quiet, eveVars
<1>16. CASE Tick
  BY <1>16 DEF Tick, Quiet, dbVars, eveVars
<1>17. CASE UNCHANGED vars
  BY <1>17 DEF vars, Quiet
<1> QED
  BY <1>1, <1>2, <1>3, <1>4, <1>5, <1>6, <1>7, <1>8, <1>9, <1>10,
     <1>11, <1>12, <1>13, <1>14, <1>15, <1>16, <1>17
     DEF Next, Call, Proceed

---------------------------------------------------------------------------
(* Preservation of the inductive invariant *)

\* A call keeps what it holds, and takes only what is planned.
LEMMA HoldingPreserved ==
    ASSUME IInv, [Next]_vars, TypeOK'
    PROVE  HeldIsTaken' /\ HeldOnce'
<1> USE DEF Holds
<1>0. /\ \A c \in Calls : Holds(c) => calls[c].plan \in Plans
      /\ HeldIsTaken /\ HeldOnce
  BY DEF IInv, CallsWellFormed
<1>1. CASE Quiet
  <2>1. \A c \in Calls : Holds(c)' => Holds(c) /\ calls'[c] = calls[c]
    BY <1>1 DEF Quiet, Free
  <2>2. \A p \in Plans : plans[p].state \notin {"unused", "planned", "expired"}
          => plans'[p].state \notin {"unused", "planned", "expired"}
    BY <1>1 DEF Quiet
  <2> QED
    BY <2>1, <2>2, <1>0 DEF HeldIsTaken, HeldOnce
<1>2. ASSUME NEW c \in Calls, Begins(c) PROVE HeldIsTaken' /\ HeldOnce'
  <2>1. \A d \in Calls : Holds(d) => calls[d].plan # calls[c].plan
    BY <1>2, <1>0 DEF Begins, Moves, HeldIsTaken
  <2>2. HeldIsTaken'
    BY <1>2, <1>0, <2>1 DEF Begins, Moves, Kept, SetState, HeldIsTaken
  <2>3. HeldOnce'
    BY <1>2, <1>0, <2>1 DEF Begins, Moves, Kept, HeldOnce
  <2> QED
    BY <2>2, <2>3
<1>3. ASSUME NEW c \in Calls, UNCHANGED plans,
             \/ Arms(c) \/ Sends(c) \/ Concludes(c)
      PROVE  HeldIsTaken' /\ HeldOnce'
  <2>1. \A d \in Calls : Holds(d)' => Holds(d) /\ calls'[d].plan = calls[d].plan
    BY <1>3 DEF Arms, Sends, Concludes, Moves, Kept
  <2> QED
    BY <1>3, <2>1, <1>0 DEF HeldIsTaken, HeldOnce
<1>4. ASSUME NEW c \in Calls, Ends(c) PROVE HeldIsTaken' /\ HeldOnce'
  <2>1. \A d \in Calls : Holds(d)' => Holds(d) /\ calls'[d].plan = calls[d].plan
    BY <1>4 DEF Ends, Moves, Kept
  <2>2. \A p \in Plans : plans'[p].state \in {plans[p].state} \cup Outcome
    BY <1>4 DEF Ends, SetState
  <2> QED
    BY <2>1, <2>2, <1>0 DEF HeldIsTaken, HeldOnce, Outcome
<1>5. ASSUME NEW c \in Calls, Records(c) PROVE HeldIsTaken' /\ HeldOnce'
  BY <1>5, <1>0 DEF Records, Kept, HeldIsTaken, HeldOnce
<1>6. ASSUME NEW p \in Plans, Applies(p) PROVE HeldIsTaken' /\ HeldOnce'
  BY <1>6, <1>0 DEF Applies, HeldIsTaken, HeldOnce
<1> QED
  BY <1>1, <1>2, <1>3, <1>4, <1>5, <1>6, Shapes
     DEF IInv, Arms, Sends, Concludes

LEMMA SendingPreserved ==
    ASSUME IInv, [Next]_vars, TypeOK'
    PROVE  UnsentBefore' /\ AtMostOnce'
<1>0. /\ UnsentBefore /\ AtMostOnce
      /\ requests \in [Plans -> Nat]
  BY DEF IInv, TypeOK
<1> USE DEF UnsentBefore, AtMostOnce
<1>1. CASE Quiet
  <2>1. \A c \in Calls : calls'[c].pc \in {"begun", "armed"} => calls'[c] = calls[c]
    BY <1>1 DEF Quiet, Free
  <2>2. \A p \in Plans : plans'[p].state \in {"unused", "planned", "expired"}
          => plans[p].state \in {"unused", "planned", "expired"}
    BY <1>1 DEF Quiet
  <2> QED
    BY <1>0, <1>1, <2>1, <2>2 DEF Quiet
<1>2. ASSUME NEW c \in Calls, Begins(c) PROVE UnsentBefore' /\ AtMostOnce'
  <2> DEFINE begun == calls[c].plan
  <2>1. /\ begun \in Plans
        /\ plans[begun].state = "planned" /\ plans'[begun].state = "executing"
        /\ \A p \in Plans \ {begun} : plans'[p] = plans[p]
        /\ calls'[c].plan = begun
        /\ \A d \in Calls \ {c} : calls'[d] = calls[d]
        /\ requests' = requests
    BY <1>2 DEF Begins, Moves, Kept, SetState
  <2>2. ASSUME NEW d \in Calls, calls'[d].pc \in {"begun", "armed"}
        PROVE  requests'[calls'[d].plan] = 0
    BY <1>0, <2>1, <2>2
  <2>3. ASSUME NEW p \in Plans,
               plans'[p].state \in {"unused", "planned", "expired"}
        PROVE  requests'[p] = 0
    BY <1>0, <2>1, <2>3
  <2> QED
    BY <1>0, <2>1, <2>2, <2>3
<1>3. ASSUME NEW c \in Calls, Arms(c) PROVE UnsentBefore' /\ AtMostOnce'
  <2>1. \A d \in Calls : calls'[d].pc \in {"begun", "armed"}
          => calls[d].pc \in {"begun", "armed"} /\ calls'[d].plan = calls[d].plan
    BY <1>3 DEF Arms, Moves, Kept
  <2> QED
    BY <1>0, <1>3, <2>1 DEF Arms
<1>4. ASSUME NEW c \in Calls, Sends(c) PROVE UnsentBefore' /\ AtMostOnce'
  <2> DEFINE sent == calls[c].plan
  <2>1. /\ calls[c].pc = "armed" /\ sent \in Plans
        /\ calls'[c].pc = "sent"
        /\ \A d \in Calls \ {c} : calls'[d] = calls[d]
        /\ requests' = [requests EXCEPT ![sent] = @ + 1]
        /\ plans' = plans
    BY <1>4 DEF Sends, Moves, Kept
  <2>2. requests'[sent] = 1 /\ \A p \in Plans \ {sent} : requests'[p] = requests[p]
    BY <1>0, <2>1
  <2>3. /\ \A d \in Calls \ {c} : calls[d].pc \in {"begun", "armed"}
                                  => calls[d].plan \in Plans \ {sent}
        /\ plans[sent].state \notin {"unused", "planned", "expired"}
    BY <2>1 DEF IInv, HeldOnce, HeldIsTaken, Holds, CallsWellFormed
  <2> QED
    BY <1>0, <2>1, <2>2, <2>3
<1>5. ASSUME NEW c \in Calls, Concludes(c) \/ Records(c)
      PROVE  UnsentBefore' /\ AtMostOnce'
  <2>1. \A d \in Calls : calls'[d].pc \in {"begun", "armed"} => calls'[d] = calls[d]
    BY <1>5 DEF Concludes, Records, Moves, Kept
  <2> QED
    BY <1>0, <1>5, <2>1 DEF Concludes, Records
<1>6. ASSUME NEW c \in Calls, Ends(c) PROVE UnsentBefore' /\ AtMostOnce'
  <2>1. \A d \in Calls : calls'[d].pc \in {"begun", "armed"} => calls'[d] = calls[d]
    BY <1>6 DEF Ends, Moves, Kept
  <2>2. \A p \in Plans : plans'[p].state \in {plans[p].state} \cup Outcome
    BY <1>6 DEF Ends, SetState
  <2> QED
    BY <1>0, <1>6, <2>1, <2>2 DEF Ends, Outcome
<1>7. ASSUME NEW p \in Plans, Applies(p) PROVE UnsentBefore' /\ AtMostOnce'
  BY <1>0, <1>7 DEF Applies
<1> QED
  BY <1>1, <1>2, <1>3, <1>4, <1>5, <1>6, <1>7, Shapes DEF IInv

LEMMA AuditedPreserved ==
    ASSUME IInv, [Next]_vars, TypeOK'
    PROVE  ArmedIsAudited' /\ SentIsAudited'
<1>0. /\ ArmedIsAudited /\ SentIsAudited
      /\ written \in [Plans -> SUBSET EventState]
      /\ requests \in [Plans -> Nat]
      /\ \A c \in Calls : calls[c].pc = "armed" => calls[c].plan \in Plans
  BY DEF IInv, TypeOK, CallsWellFormed
<1> USE DEF ArmedIsAudited, SentIsAudited
<1>1. CASE Quiet
  <2>1. \A c \in Calls : calls'[c].pc = "armed" => calls'[c] = calls[c]
    BY <1>1 DEF Quiet, Free
  <2>2. \A p \in Plans : written[p] \subseteq written'[p]
    BY <1>1 DEF Quiet
  <2> QED
    BY <1>0, <1>1, <2>1, <2>2 DEF Quiet
<1>2. ASSUME NEW c \in Calls, Begins(c) \/ Concludes(c) \/ Ends(c)
      PROVE  ArmedIsAudited' /\ SentIsAudited'
  <2>1. \A d \in Calls : calls'[d].pc = "armed" => calls'[d] = calls[d]
    BY <1>2 DEF Begins, Concludes, Ends, Moves, Kept
  <2> QED
    BY <1>0, <1>2, <2>1 DEF Begins, Concludes, Ends
<1>3. ASSUME NEW c \in Calls, Arms(c) PROVE ArmedIsAudited' /\ SentIsAudited'
  <2>1. /\ calls[c].plan \in Plans /\ calls'[c].plan = calls[c].plan
        /\ \A d \in Calls \ {c} : calls'[d] = calls[d]
    BY <1>3 DEF Arms, Moves, Kept
  <2>2. /\ \A p \in Plans : written[p] \subseteq written'[p]
        /\ "executing" \in written'[calls[c].plan]
    BY <1>0, <1>3, <2>1 DEF Arms
  <2> QED
    BY <1>0, <1>3, <2>1, <2>2 DEF Arms
<1>4. ASSUME NEW c \in Calls, Sends(c) PROVE ArmedIsAudited' /\ SentIsAudited'
  <2>1. /\ calls[c].pc = "armed" /\ calls[c].plan \in Plans
        /\ \A d \in Calls : calls'[d].pc = "armed" => calls'[d] = calls[d]
        /\ written' = written
    BY <1>4 DEF Sends, Moves, Kept
  <2>2. \A p \in Plans \ {calls[c].plan} : requests'[p] = requests[p]
    BY <1>0, <1>4 DEF Sends
  <2> QED
    BY <1>0, <2>1, <2>2
<1>5. ASSUME NEW c \in Calls, Records(c) PROVE ArmedIsAudited' /\ SentIsAudited'
  <2>1. \A d \in Calls : calls'[d].pc = "armed" => calls'[d] = calls[d]
    BY <1>5 DEF Records, Kept
  <2>2. \A p \in Plans : written[p] \subseteq written'[p]
    BY <1>0, <1>5 DEF Records
  <2> QED
    BY <1>0, <1>5, <2>1, <2>2 DEF Records
<1>6. ASSUME NEW p \in Plans, Applies(p) PROVE ArmedIsAudited' /\ SentIsAudited'
  BY <1>0, <1>6 DEF Applies
<1> QED
  BY <1>1, <1>2, <1>3, <1>4, <1>5, <1>6, Shapes DEF IInv

LEMMA SuccessPreserved ==
    ASSUME IInv, [Next]_vars, TypeOK'
    PROVE  SuccessIsApplied'
<1>0. /\ SuccessIsApplied
      /\ \A p \in Plans : applied[p] \in Nat /\ requests[p] \in Nat
      /\ applied \in [Plans -> Nat] /\ requests \in [Plans -> Nat]
      /\ written \in [Plans -> SUBSET EventState]
      /\ \A c \in Calls : calls[c].pc \in {"finishing", "recording"}
                          => calls[c].plan \in Plans
  BY DEF IInv, TypeOK, CallsWellFormed
<1> USE DEF SuccessIsApplied
<1>1. CASE Quiet
  <2>1. \A p \in Plans : applied'[p] = applied[p] /\ requests'[p] = requests[p]
    BY <1>1 DEF Quiet
  <2>2. \A c \in Calls : calls'[c].pc \in {"finishing", "recording"}
          => calls'[c] = calls[c] /\ calls[c].plan \in Plans
    BY <1>0, <1>1 DEF Quiet, Free
  <2>3. \A p \in Plans :
          plans'[p].state = "succeeded" \/ "succeeded" \in written'[p]
          => plans[p].state = "succeeded" \/ "succeeded" \in written[p]
    BY <1>1 DEF Quiet
  <2> QED
    BY <1>0, <2>1, <2>2, <2>3
<1>2. ASSUME NEW c \in Calls, Begins(c) PROVE SuccessIsApplied'
  <2>1. \A d \in Calls : calls'[d].pc \in {"finishing", "recording"}
          => calls'[d] = calls[d]
    BY <1>2 DEF Begins, Moves, Kept
  <2>2. \A p \in Plans : plans'[p].state = "succeeded"
                         => plans[p].state = "succeeded"
    BY <1>2 DEF Begins, SetState
  <2> QED
    BY <1>0, <1>2, <2>1, <2>2 DEF Begins
<1>3. ASSUME NEW c \in Calls, Arms(c) \/ Sends(c) PROVE SuccessIsApplied'
  <2>1. \A d \in Calls : calls'[d].pc \in {"finishing", "recording"}
          => calls'[d] = calls[d]
    BY <1>3 DEF Arms, Sends, Moves, Kept
  <2>2. \A p \in Plans : "succeeded" \in written'[p] => "succeeded" \in written[p]
    BY <1>0, <1>3 DEF Arms, Sends
  <2>3. \A p \in Plans : requests'[p] >= requests[p]
    BY <1>0, <1>3 DEF Arms, Sends
  <2>4. \A p \in Plans : requests'[p] \in Nat
    BY DEF TypeOK
  <2>5. applied' = applied /\ plans' = plans
    BY <1>3 DEF Arms, Sends
  <2> QED
    BY <1>0, <2>1, <2>2, <2>3, <2>4, <2>5
<1>4. ASSUME NEW c \in Calls, Concludes(c) PROVE SuccessIsApplied'
  <2>1. \A d \in Calls \ {c} : calls'[d] = calls[d]
    BY <1>4 DEF Concludes, Moves, Kept
  <2> QED
    BY <1>0, <1>4, <2>1 DEF Concludes, Moves
<1>5. ASSUME NEW c \in Calls, Ends(c) PROVE SuccessIsApplied'
  <2>1. /\ calls[c].pc = "finishing" /\ calls'[c].pc = "recording"
        /\ calls[c].plan \in Plans /\ calls'[c].plan = calls[c].plan
        /\ \A d \in Calls \ {c} : calls'[d] = calls[d]
        /\ UNCHANGED <<requests, applied, written>>
    BY <1>5 DEF Ends, Moves, Kept
  <2>2. calls'[c].outcome = "succeeded" => calls[c].outcome = "succeeded"
    BY <1>5 DEF Ends
  <2>3. \A p \in Plans : plans'[p].state = "succeeded" =>
          \/ plans[p].state = "succeeded"
          \/ p = calls[c].plan /\ calls[c].outcome = "succeeded"
    BY <1>5 DEF Ends, SetState
  <2> QED
    BY <1>0, <2>1, <2>2, <2>3
<1>6. ASSUME NEW c \in Calls, Records(c) PROVE SuccessIsApplied'
  <2>1. \A d \in Calls : calls'[d].pc \in {"finishing", "recording"}
          => calls'[d] = calls[d]
    BY <1>6 DEF Records, Kept
  <2>2. \A p \in Plans : "succeeded" \in written'[p] =>
          \/ "succeeded" \in written[p]
          \/ p = calls[c].plan /\ calls[c].outcome = "succeeded"
    BY <1>0, <1>6 DEF Records
  <2> QED
    BY <1>0, <1>6, <2>1, <2>2 DEF Records
<1>7. ASSUME NEW p \in Plans, Applies(p) PROVE SuccessIsApplied'
  BY <1>0, <1>7 DEF Applies
<1> QED
  BY <1>1, <1>2, <1>3, <1>4, <1>5, <1>6, <1>7, Shapes DEF IInv

---------------------------------------------------------------------------
(* The theorems *)

LEMMA InvariantInitially == Init => IInv
<1> SUFFICES ASSUME Init PROVE IInv
  OBVIOUS
<1>1. TypeOK /\ CallsWellFormed
  BY TypesInitially
<1>2. \A c \in Calls : calls[c].pc = "idle"
  BY DEF Init, Idle
<1>3. \A p \in Plans : /\ requests[p] = 0 /\ applied[p] = 0
                       /\ written[p] = {} /\ plans[p].state = "unused"
  BY DEF Init, NoPlan
<1> QED
  BY <1>1, <1>2, <1>3
     DEF IInv, HeldIsTaken, HeldOnce, Holds, UnsentBefore, AtMostOnce,
         ArmedIsAudited, SentIsAudited, SuccessIsApplied

LEMMA InvariantPreserved == IInv /\ [Next]_vars => IInv'
<1> SUFFICES ASSUME IInv, [Next]_vars PROVE IInv'
  OBVIOUS
<1>1. TypeOK' /\ CallsWellFormed'
  BY TypesPreserved DEF IInv
<1> QED
  BY <1>1, HoldingPreserved, SendingPreserved, AuditedPreserved,
     SuccessPreserved DEF IInv

\* The stages of execute_eve_action.execute keep the books the others rest on:
\* who holds a plan, what was stored before it was sent, what EVE did.
THEOREM InductiveInvariant == Spec => []IInv
BY InvariantInitially, InvariantPreserved, PTL DEF Spec

\* Every variable keeps its type, for any numbers of plans, calls and
\* characters: the tables hold only rows that their columns admit.
THEOREM TypeCorrect == Spec => []TypeOK
<1>1. IInv => TypeOK
  BY DEF IInv
<1> QED
  BY <1>1, InductiveInvariant, PTL

\* execute-eve-action.ts hands the request of a plan to fetch at most once,
\* whatever calls, crashes, removals and failed writes interleave.
THEOREM AtMostOnceTransmission == Spec => []AtMostOnce
<1>1. IInv => AtMostOnce
  BY DEF IInv
<1> QED
  BY <1>1, InductiveInvariant, PTL

\* No request leaves before its 'executing' audit event is stored.
THEOREM WriteAheadAudit == Spec => []SentIsAudited
<1>1. IInv => SentIsAudited
  BY DEF IInv
<1> QED
  BY <1>1, InductiveInvariant, PTL

\* A plan or audit event that says succeeded is of a request EVE carried out
\* once; an open or expired plan sent nothing.
THEOREM StatesAreHonest == Spec => []HonestState
<1>1. IInv => HonestState
  <2> SUFFICES ASSUME IInv, NEW p \in Plans
               PROVE  /\ plans[p].state = "succeeded" \/ "succeeded" \in written[p]
                         => applied[p] = 1
                      /\ plans[p].state \in {"unused", "planned", "expired"}
                         => requests[p] = 0
    BY DEF HonestState
  <2>1. requests[p] \in Nat /\ applied[p] \in Nat
    BY DEF IInv, TypeOK
  <2>2. applied[p] <= requests[p] /\ requests[p] <= 1
    BY DEF IInv, SuccessIsApplied, AtMostOnce
  <2>3. plans[p].state = "succeeded" \/ "succeeded" \in written[p]
        => applied[p] > 0
    BY DEF IInv, SuccessIsApplied
  <2>4. plans[p].state \in {"unused", "planned", "expired"} => requests[p] = 0
    BY DEF IInv, UnsentBefore
  <2> QED
    BY <2>1, <2>2, <2>3, <2>4
<1> QED
  BY <1>1, InductiveInvariant, PTL

\* A final plan stays what it is until its row is deleted: no late answer,
\* second call or expiry statement rewrites an outcome.
THEOREM OutcomesAreFinal == Spec => FinalIsFinal
<1>1. IInv /\ [Next]_vars
      => [\A p \in Plans :
            plans[p].state \in Terminal \cup {"deleted"}
            => plans'[p].state \in {plans[p].state, "deleted"}]_vars
  <2> SUFFICES ASSUME IInv, [Next]_vars, NEW p \in Plans,
                      plans[p].state \in Terminal \cup {"deleted"}
               PROVE  plans'[p].state \in {plans[p].state, "deleted"}
    OBVIOUS
  <2>1. CASE Quiet
    BY <2>1 DEF Quiet, Terminal, Outcome
  <2>2. ASSUME NEW c \in Calls, Begins(c)
        PROVE  plans'[p].state \in {plans[p].state, "deleted"}
    BY <2>2 DEF Begins, SetState, Terminal, Outcome
  <2>3. ASSUME NEW c \in Calls, Ends(c)
        PROVE  plans'[p].state \in {plans[p].state, "deleted"}
    BY <2>3 DEF Ends, SetState, Terminal, Outcome
  <2>4. CASE UNCHANGED plans
    BY <2>4
  <2> QED
    BY <2>1, <2>2, <2>3, <2>4, Shapes
       DEF IInv, Arms, Sends, Concludes, Records, Applies
<1> QED
  BY <1>1, InductiveInvariant, PTL DEF Spec, FinalIsFinal

---------------------------------------------------------------------------
(* Removal *)

\* The plan is of a character that has no row.
Removed(p) ==
    /\ plans[p].character # None
    /\ row[plans[p].character].status = "absent"

\* No statement gives a removed character a plan or an event.
LEMMA RemovalPreserved ==
    ASSUME TypeOK, CallsWellFormed, RemovalIsComplete, [Next]_vars
    PROVE  RemovalIsComplete'
<1>0. \A p \in Plans : Removed(p) => plans[p].state = "deleted" /\ p \notin audit
  BY DEF RemovalIsComplete, Removed
<1>1. ASSUME NEW c \in Calls, PrepareStore(c)
      PROVE  RemovalIsComplete'
  <2>1. UNCHANGED <<row, audit>>
    BY <1>1 DEF PrepareStore
  <2>2. ASSUME NEW p \in Plans, Removed(p)'
        PROVE  Removed(p) /\ plans'[p].state \in {plans[p].state, "deleted"}
    <3>1. row[plans'[p].character].status = "absent"
      BY <2>1, <2>2 DEF Removed
    <3>2. /\ plans'[p].character = plans[p].character
          /\ \/ plans'[p].state = plans[p].state
             \/ /\ plans[p].state = "planned"
                /\ plans'[p].state \in {"expired", "deleted"}
             \/ plans[p].state \in Terminal /\ plans'[p].state = "deleted"
      BY <1>1, <3>1, StoreFacts
    <3>3. Removed(p)
      BY <2>1, <2>2, <3>2 DEF Removed
    <3> QED
      BY <1>0, <3>2, <3>3
  <2> QED
    BY <1>0, <2>1, <2>2 DEF RemovalIsComplete, Removed
<1>2. ASSUME NEW c \in Calls, PrepareRecord(c)
      PROVE  RemovalIsComplete'
  BY <1>2 DEF PrepareRecord, CanAppend, RemovalIsComplete
<1>3. ASSUME NEW c \in Calls, NEW q \in Plans, ExecuteCheck(c, q)
      PROVE  RemovalIsComplete'
  <2>1. UNCHANGED <<row, audit>>
    BY <1>3 DEF ExecuteCheck
  <2> QED
    BY <1>3, <2>1, CheckFacts DEF RemovalIsComplete
<1>4. ASSUME NEW c \in Calls, BeginExecution(c)
      PROVE  RemovalIsComplete'
  <2>1. UNCHANGED <<row, audit>> /\ calls[c].plan \in Plans
    BY <1>4 DEF BeginExecution, CallsWellFormed
  <2> QED
    BY <1>4, <2>1, BeginFacts DEF RemovalIsComplete, SetState
<1>5. ASSUME NEW c \in Calls, Finish(c)
      PROVE  RemovalIsComplete'
  <2>1. UNCHANGED <<row, audit>> /\ calls[c].plan \in Plans
    BY <1>5 DEF Finish, CallsWellFormed
  <2> QED
    BY <1>5, <2>1, EndFacts DEF RemovalIsComplete, SetState
<1>6. ASSUME NEW c \in Calls, RecordExecuting(c) \/ RecordOutcome(c)
      PROVE  RemovalIsComplete'
  BY <1>6 DEF RecordExecuting, RecordOutcome, Append, CanAppend,
              RemovalIsComplete
<1>7. ASSUME NEW ch \in Characters, CompleteRemoval(ch)
      PROVE  RemovalIsComplete'
  <2>1. /\ row' = [row EXCEPT ![ch] = [status |-> "absent", generation |-> 0]]
        /\ plans' = Delete(plans, OwnPlans(ch))
        /\ audit' = audit \ OwnPlans(ch)
    BY <1>7 DEF CompleteRemoval
  <2>2. \A p \in Plans :
          /\ plans'[p].character = plans[p].character
          /\ plans'[p].state \in {plans[p].state, "deleted"}
          /\ plans[p].character = ch => plans'[p].state = "deleted"
    BY <2>1 DEF Delete, OwnPlans, TypeOK, PlanRow
  <2>3. \A x \in Characters : x # ch => row'[x] = row[x]
    BY <2>1 DEF TypeOK
  <2>4. \A p \in Plans : plans[p].character \in Characters \cup {None}
    BY DEF TypeOK, PlanRow
  <2>5. \A p \in Plans :
          plans[p].character = ch => p \notin audit'
    BY <2>1 DEF OwnPlans
  <2>6. ASSUME NEW p \in Plans, Removed(p)'
        PROVE  plans'[p].state = "deleted" /\ p \notin audit'
    <3>1. CASE plans[p].character = ch
      BY <2>2, <2>5, <3>1
    <3>2. CASE plans[p].character # ch
      <4>1. Removed(p)
        BY <2>2, <2>3, <2>4, <2>6, <3>2 DEF Removed
      <4> QED
        BY <1>0, <2>1, <2>2, <4>1
    <3> QED
      BY <3>1, <3>2
  <2> QED
    BY <2>6 DEF RemovalIsComplete, Removed
<1>8. ASSUME NEW ch \in Characters,
             Connect(ch) \/ ReplaceGrant(ch) \/ MarkReauthorizationRequired(ch)
               \/ BeginRemoval(ch)
      PROVE  RemovalIsComplete'
  <2>1. UNCHANGED <<plans, audit>>
    BY <1>8 DEF Connect, ReplaceGrant, MarkReauthorizationRequired, BeginRemoval
  <2>2. /\ \A x \in Characters : x # ch => row'[x] = row[x]
        /\ row'[ch].status # "absent"
    BY <1>8 DEF Connect, ReplaceGrant, MarkReauthorizationRequired,
                BeginRemoval, TypeOK
  <2>3. \A p \in Plans : plans[p].character \in Characters \cup {None}
    BY DEF TypeOK, PlanRow
  <2> QED
    BY <2>1, <2>2, <2>3 DEF RemovalIsComplete
<1>9. CASE UNCHANGED <<row, plans, audit>>
  BY <1>9 DEF RemovalIsComplete
<1> QED
  BY <1>1, <1>2, <1>3, <1>4, <1>5, <1>6, <1>7, <1>8, <1>9
     DEF Next, Call, Proceed, CharacterStep, vars, dbVars, PrepareCheck,
         RecordExecutingFails, Transmit, NotTransmitted, Accepted, Rejected,
         LostBeforeHeaders, LostInBody, FinishFails, RecordOutcomeFails,
         Abandon, EveApplies, Select, Tick

\* completeRemoval, whose deletion of the row cascades: nothing written before
\* or after it, by whatever call was under way, leaves a plan or an audit event
\* of a character that is gone.
THEOREM RemovalsAreComplete == Spec => []RemovalIsComplete
<1>1. Init => RemovalIsComplete
  BY DEF Init, NoPlan, RemovalIsComplete
<1>2. IInv /\ RemovalIsComplete /\ [Next]_vars => RemovalIsComplete'
  BY RemovalPreserved DEF IInv
<1> QED
  BY <1>1, <1>2, InductiveInvariant, PTL DEF Spec

---------------------------------------------------------------------------
(* The refinement *)

\* Only sending takes a plan that could be sent; every other step can at
\* most give plans up.
LEMMA NothingReopens ==
    ASSUME IInv, [Next]_vars, ~ \E c \in Calls : Sends(c)
    PROVE  /\ requests' = requests
           /\ \A p \in Plans : Sendable(p)' => Sendable(p)
<1>1. CASE Quiet
  <2>1. \A c \in Calls : calls'[c].pc \in {"begun", "armed"}
          => calls'[c] = calls[c]
    BY <1>1 DEF Quiet, Free
  <2>2. \A p \in Plans : plans'[p].state \in {"unused", "planned"}
          => plans[p].state \in {"unused", "planned"}
    BY <1>1 DEF Quiet, IInv, TypeOK, PlanRow, PlanState
  <2> QED
    BY <1>1, <2>1, <2>2 DEF Quiet, Sendable
<1>2. ASSUME NEW c \in Calls, Begins(c)
      PROVE  /\ requests' = requests
             /\ \A p \in Plans : Sendable(p)' => Sendable(p)
  BY <1>2 DEF Begins, Moves, Kept, SetState, Sendable
<1>3. ASSUME NEW c \in Calls, Arms(c) \/ Concludes(c)
      PROVE  /\ requests' = requests
             /\ \A p \in Plans : Sendable(p)' => Sendable(p)
  BY <1>3 DEF Arms, Concludes, Moves, Kept, Sendable
<1>4. ASSUME NEW c \in Calls, Ends(c)
      PROVE  /\ requests' = requests
             /\ \A p \in Plans : Sendable(p)' => Sendable(p)
  BY <1>4 DEF Ends, Moves, Kept, SetState, Sendable, Outcome
<1>5. ASSUME NEW c \in Calls, Records(c)
      PROVE  /\ requests' = requests
             /\ \A p \in Plans : Sendable(p)' => Sendable(p)
  BY <1>5 DEF Records, Kept, Sendable
<1>6. ASSUME NEW p \in Plans, Applies(p)
      PROVE  /\ requests' = requests
             /\ \A q \in Plans : Sendable(q)' => Sendable(q)
  BY <1>6 DEF Applies, Sendable
<1> QED
  BY <1>1, <1>2, <1>3, <1>4, <1>5, <1>6, Shapes DEF IInv

\* Sending maps to the one transmission of the plan.
LEMMA SendingTransmits ==
    ASSUME IInv, NEW c \in Calls, Sends(c)
    PROVE  Abstract!Transmit(calls[c].plan)
<1> PICK p \in Plans : p = calls[c].plan
  BY DEF Sends, Moves
<1>1. /\ calls[c].pc = "armed" /\ calls'[c].pc = "sent"
      /\ Kept(c) /\ plans' = plans
      /\ requests' = [requests EXCEPT ![p] = @ + 1]
  BY DEF Sends, Moves
<1>2. requests[p] = 0 /\ requests' = [requests EXCEPT ![p] = 1]
  <2>1. requests[p] = 0
    BY <1>1 DEF IInv, UnsentBefore
  <2> QED
    BY <1>1, <2>1
<1>3. Sendable(p)
  BY <1>1 DEF Sendable
<1>4. ~Sendable(p)'
  <2>1. plans'[p].state \notin {"unused", "planned"}
    BY <1>1 DEF IInv, HeldIsTaken, Holds
  <2>2. ~ \E d \in Calls : calls'[d].plan = p /\ calls'[d].pc \in {"begun", "armed"}
    BY <1>1 DEF IInv, HeldOnce, Holds, Kept
  <2> QED
    BY <2>1, <2>2 DEF Sendable
<1>5. \A q \in Plans \ {p} : Sendable(q)' <=> Sendable(q)
  <2>1. \A d \in Calls : \A q \in Plans \ {p} :
          calls'[d].plan = q /\ calls'[d].pc \in {"begun", "armed"}
          <=> calls[d].plan = q /\ calls[d].pc \in {"begun", "armed"}
    BY <1>1 DEF Sends, Moves, Kept
  <2> QED
    BY <1>1, <2>1 DEF Sendable
<1>6. {q \in Plans : ~Sendable(q)'} = {q \in Plans : ~Sendable(q)} \cup {p}
  BY <1>1, <1>4, <1>5
<1> QED
  BY <1>1, <1>2, <1>3, <1>6 DEF Abstract!Transmit

\* The database, the server processes and EVE together keep the promise of
\* OneShotAction: a confirmed plan is sent once, and a plan given up never.
THEOREM ActionPlanImplementsOneShot == Spec => ImplementsOneShot
<1>1. Init => Abstract!Init
  <2> SUFFICES ASSUME Init PROVE Abstract!Init
    OBVIOUS
  <2>1. \A p \in Plans : Sendable(p)
    BY DEF Init, NoPlan, Sendable
  <2> QED
    BY <2>1 DEF Init, Abstract!Init
<1>2. IInv /\ [Next]_vars => [Abstract!Next]_(Abstract!vars)
  <2> SUFFICES ASSUME IInv, [Next]_vars
               PROVE  Abstract!Next
    OBVIOUS
  <2>1. CASE \E c \in Calls : Sends(c)
    <3>1. PICK c \in Calls : Sends(c)
      BY <2>1
    <3> QED
      BY <3>1, SendingTransmits DEF Abstract!Next, Sends, Moves
  <2>2. CASE ~ \E c \in Calls : Sends(c)
    <3>1. requests' = requests /\ \A p \in Plans : Sendable(p)' => Sendable(p)
      BY <2>2, NothingReopens
    <3> QED
      BY <3>1 DEF Abstract!Next, Abstract!GiveUp
  <2> QED
    BY <2>1, <2>2
<1> QED
  BY <1>1, <1>2, InductiveInvariant, PTL
     DEF Spec, ImplementsOneShot, Abstract!Spec

=============================================================================
