----------------------------- MODULE RateLimit -----------------------------
(***************************************************************************)
(* The limiter that every request to EVE passes, in one server process.  A *)
(* call looks at the tokens used in the current window and at the blocks   *)
(* EVE has announced, waits once if it must - never longer than Cap - and  *)
(* then takes its slot without looking again.  The answer replaces the     *)
(* tokens reserved by what the request has cost, may announce a block, and *)
(* may teach the policy of an operation whose descriptor has none.         *)
(*                                                                         *)
(* One operation and one identity, that is one bucket; others have their   *)
(* own and meet this one in the global block only.  Times are the time     *)
(* that is left, so that the clock needs no bound.  Abstracted: all        *)
(* policies announced are the same; the totals reported by diagnostics.    *)
(***************************************************************************)
EXTENDS Integers, SequencesExt

CONSTANTS
    Calls,              \* requests on their way through the limiter
    None,
    MaxTokens,          \* the policy: tokens in a window
    Window,             \* and its length
    Cap,                \* longest delay (300 seconds)
    Blocks,             \* delays EVE may announce, none above Cap
    MaxEvents           \* bound on the requests in a window

ReservedCost == 5

ASSUME ParametersAssumption ==
    /\ None \notin Calls /\ IsFiniteSet(Calls)
    /\ MaxTokens \in Nat /\ MaxTokens >= 10
    /\ Window \in Nat \ {0} /\ Cap \in Nat \ {0} /\ MaxEvents \in Nat \ {0}
    /\ Blocks \subseteq 1..Cap

VARIABLES
    known,              \* #policies: is there a policy for the operation?
    bucket,             \* the bucket's events, in the order of reservation
    blocked,            \* blockedUntil: of the "bucket", and of "all" requests
    calls,              \* local state of each call
    sent,               \* history: the metered requests of this window
    closed              \* history: the longest block EVE has announced

history == <<sent, closed>>
vars    == <<known, bucket, blocked, calls, history>>

Scopes == {"bucket", "all"}

\* owner: the call whose answer will settle the event
Event   == [owner: Calls \cup {None}, cost: 0..ReservedCost, left: 0..Window]

\* blind: not preceded by a look at the window
Request == [owner: Calls \cup {None}, cost: 0..ReservedCost, left: 1..Window,
            blind: BOOLEAN]

Idle == [pc |-> "idle", left |-> 0, metered |-> FALSE, overtaken |-> FALSE,
         trespassing |-> FALSE]

\* overtaken: a block was announced while the call waited;
\* trespassing: it went out during a block
CallState ==
    [pc: {"idle", "waiting", "sent"}, left: 0..Cap, metered: BOOLEAN,
     overtaken: BOOLEAN, trespassing: BOOLEAN]

TypeOK ==
    /\ known \in BOOLEAN
    /\ bucket \in Seq(Event)
    /\ blocked \in [Scopes -> 0..Cap]
    /\ calls \in [Calls -> CallState]
    /\ sent \in Seq(Request) /\ Len(sent) <= MaxEvents
    /\ closed \in [Scopes -> 0..Cap]

\* A policy in the operation's descriptor is known from the beginning.
Init ==
    /\ known \in BOOLEAN
    /\ bucket = <<>>
    /\ blocked = [s \in Scopes |-> 0]
    /\ calls = [c \in Calls |-> Idle]
    /\ sent = <<>>
    /\ closed = [s \in Scopes |-> 0]

---------------------------------------------------------------------------
(* The bucket *)

Larger(a, b)  == IF a > b THEN a ELSE b
Smaller(a, b) == IF a < b THEN a ELSE b

\* What the first n events cost together, for each n.
Totals(events) ==
    LET t[n \in 0..Len(events)] == IF n = 0 THEN 0 ELSE t[n - 1] + events[n].cost
    IN t

SumCosts(events) == Totals(events)[Len(events)]

\* The safety reserve is two percent, and room for one request at least.
Limit == MaxTokens - Larger(ReservedCost, (MaxTokens * 2 + 99) \div 100)

\* prune: the expired events at the head go.
Pruned(events) ==
    LET live == {i \in DOMAIN events : events[i].left > 0} IN
    IF live = {} THEN <<>> ELSE SubSeq(events, Min(live), Len(events))

\* Mutant: the request itself is not counted.
RequiredWait_WithoutOwn(events) ==
    LET Fits(n) == SumCosts(SubSeq(events, n + 1, Len(events))) <= Limit
        enough  == {n \in 0..Len(events) : Fits(n)}
    IN CASE enough = {}  -> Window
         [] 0 \in enough -> 0
         [] OTHER -> events[Min(enough)].left

\* requiredWait: until enough of the oldest events have expired.
RequiredWait(events) ==
    LET Fits(n) == SumCosts(SubSeq(events, n + 1, Len(events))) + ReservedCost
                     <= Limit
        enough  == {n \in 0..Len(events) : Fits(n)}
    IN CASE enough = {}  -> Window
         [] 0 \in enough -> 0
         [] OTHER -> events[Min(enough)].left

\* What acquire has to wait for: without a policy there is no bucket.
WaitMs ==
    IF known THEN Larger(blocked["all"], Larger(blocked["bucket"],
                                                RequiredWait(Pruned(bucket))))
    ELSE blocked["all"]

Delay == Smaller(WaitMs, Cap)

---------------------------------------------------------------------------
(* acquire *)

At(c, pc) == calls[c].pc = pc
Active    == {c \in Calls : ~At(c, "idle")}

\* acquire prunes the bucket it finds, that of the policy known by then.
Prune == bucket' = IF known THEN Pruned(bucket) ELSE bucket

\* The call takes its slot and fetch is called.
TakeSlot(c, metered, blind, events) ==
    LET shut == closed["all"] > 0 \/ (metered /\ closed["bucket"] > 0) IN
    /\ bucket' = IF metered
                 THEN Append(events, [owner |-> c, cost |-> ReservedCost,
                                      left |-> Window])
                 ELSE events
    /\ sent' = IF metered
               THEN Append(sent, [owner |-> c, cost |-> ReservedCost,
                                  left |-> Window, blind |-> blind])
               ELSE sent
    /\ calls' = [calls EXCEPT ![c] = [@ EXCEPT !.pc = "sent", !.left = 0,
                   !.metered = metered, !.trespassing = shut]]

\* (MaxEvents leaves a place for each call under way.)
Acquire(c) ==
    /\ At(c, "idle")
    /\ Len(sent) + Cardinality(Active) < MaxEvents
    /\ IF WaitMs = 0
       THEN TakeSlot(c, known, FALSE, IF known THEN Pruned(bucket) ELSE bucket)
       ELSE /\ calls' = [calls EXCEPT ![c] = [Idle EXCEPT !.pc = "waiting",
                            !.left = Delay, !.metered = known]]
            /\ Prune
            /\ UNCHANGED sent
    /\ UNCHANGED <<known, blocked, closed>>

\* Mutant: the call looks again and waits again.
Wake_LooksAgain(c) ==
    /\ At(c, "waiting") /\ calls[c].left = 0
    /\ IF WaitMs = 0
       THEN TakeSlot(c, calls[c].metered, TRUE, Pruned(bucket))
       ELSE /\ calls' = [calls EXCEPT ![c].left = Delay]
            /\ Prune
            /\ UNCHANGED sent
    /\ UNCHANGED <<known, blocked, closed>>

\* The delay is over: the slot is taken, whatever others have taken since.
Wake(c) ==
    /\ At(c, "waiting") /\ calls[c].left = 0
    /\ TakeSlot(c, calls[c].metered, TRUE,
                IF calls[c].metered THEN Pruned(bucket) ELSE bucket)
    /\ UNCHANGED <<known, blocked, closed>>

\* The request is aborted while it waits.
GiveUp(c) ==
    /\ At(c, "waiting")
    /\ calls' = [calls EXCEPT ![c] = Idle]
    /\ UNCHANGED <<known, bucket, blocked, history>>

---------------------------------------------------------------------------
(* observe *)

Statuses == {"ok", "redirect", "refused", "banned", "limited", "outage"}

\* responseCost: 2xx, 3xx, 4xx (420 is "banned"), 429, 5xx
ResponseCost(status) ==
    CASE status = "ok"                    -> 2
      [] status = "redirect"              -> 1
      [] status \in {"refused", "banned"} -> ReservedCost
      [] status \in {"limited", "outage"} -> 0

\* Settles what c has reserved.
Settled(events, c, cost) ==
    [i \in DOMAIN events |->
       IF events[i].owner = c
       THEN [events[i] EXCEPT !.owner = None, !.cost = cost] ELSE events[i]]

\* Mutant: the last announcement counts.
BlockFor_Last(old, new) == IF new = 0 THEN old ELSE new

\* A block is never shortened.
BlockFor(old, new) == Larger(old, new)

\* The error limit of an answer (reset) and a status 420 block everything,
\* 429 the bucket, if the answer or the lease names one.
Answer(c) ==
    /\ At(c, "sent")
    /\ \E status \in Statuses, teaches \in BOOLEAN,
          after \in Blocks, reset \in Blocks \cup {0} :
         LET cost      == ResponseCost(status)
             new       == [owner |-> None, cost |-> cost, left |-> Window]
             adds      == ~calls[c].metered /\ teaches /\ cost > 0
             banned    == IF status = "banned" THEN after ELSE 0
             announced == [all    |-> Larger(banned, reset),
                           bucket |-> IF /\ status = "limited"
                                         /\ calls[c].metered \/ teaches
                                      THEN after ELSE 0]
         IN /\ status \in {"banned", "limited"}
               \/ after = CHOOSE b \in Blocks : TRUE       \* not read
            /\ known' = (known \/ teaches)
            /\ bucket' = IF adds THEN Append(bucket, new)
                         ELSE Settled(bucket, c, cost)
            /\ sent' = IF adds THEN Append(sent, [owner |-> None,
                              cost |-> cost, left |-> Window, blind |-> TRUE])
                       ELSE Settled(sent, c, cost)
            /\ blocked' = [all |-> BlockFor(BlockFor(blocked.all, banned), reset),
                           bucket |-> BlockFor(blocked.bucket, announced.bucket)]
            /\ closed' = [s \in Scopes |-> Larger(closed[s], announced[s])]
            /\ calls' = [d \in Calls |->
                 IF d = c THEN Idle
                 ELSE [calls[d] EXCEPT !.overtaken =
                         @ \/ \E s \in Scopes : /\ At(d, "waiting")
                                                /\ announced[s] > 0]]

\* fetch throws: observe is not called and the reservation stays.
Throw(c) ==
    /\ At(c, "sent")
    /\ calls' = [calls EXCEPT ![c] = Idle]
    /\ bucket' = Settled(bucket, c, ReservedCost)
    /\ sent' = Settled(sent, c, ReservedCost)
    /\ UNCHANGED <<known, blocked, closed>>

\* snapshot prunes every bucket.
Snapshot ==
    /\ bucket' = Pruned(bucket)
    /\ UNCHANGED <<known, blocked, calls, history>>

\* Time passes; a block that is over is none.
Less(n) == IF n = 0 THEN 0 ELSE n - 1
Passed(events) == [i \in DOMAIN events |-> [events[i] EXCEPT !.left = Less(@)]]

Tick ==
    /\ bucket' = Passed(bucket)
    /\ blocked' = [s \in Scopes |-> Less(blocked[s])]
    /\ closed' = [s \in Scopes |-> Less(closed[s])]
    /\ calls' = [c \in Calls |-> [calls[c] EXCEPT !.left = Less(@)]]
    /\ sent' = Pruned(Passed(sent))
    /\ UNCHANGED known

---------------------------------------------------------------------------
Next ==
    \/ \E c \in Calls : Acquire(c) \/ Wake(c) \/ GiveUp(c) \/ Answer(c) \/ Throw(c)
    \/ Snapshot \/ Tick

\* Timers fire, and time passes.
Spec == /\ Init /\ [][Next]_vars
        /\ WF_vars(Tick) /\ \A c \in Calls : WF_vars(Wake(c))

---------------------------------------------------------------------------
(* Properties *)

\* The requests of a window cost no more than the policy allows less the
\* reserve - but for those sent without a look at the window: the ones that
\* have waited, since all who wait for the same event are woken together, and
\* the ones sent before the policy was known.  Each adds one request at most.
BudgetKept ==
    SumCosts(sent) <= Limit + ReservedCost *
      Cardinality({i \in DOMAIN sent : sent[i].blind})

\* While a block EVE has announced is in force nothing goes out but calls that
\* were already waiting when it was announced, in whatever order answers with
\* longer and shorter blocks come in.
BlocksHeeded ==
    \A c \in Calls : calls[c].trespassing => calls[c].overtaken

\* A call never waits for ever, however many blocks are announced meanwhile.
WaitEnds ==
    \A c \in Calls : At(c, "waiting") ~> ~At(c, "waiting")

=============================================================================
