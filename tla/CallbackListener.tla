--------------------------- MODULE CallbackListener -------------------------
(***************************************************************************)
(* The loopback listener for authorization callbacks in the life of the    *)
(* server processes that share one database and one port.                  *)
(*                                                                         *)
(* Every process may have one listener, under a lease in the database.     *)
(* connect_character starts it and then stores a session; the end of the   *)
(* last session, a lost lease, the signal of the call that started it, an  *)
(* error of the server and the shutdown close it.  A closed listener takes *)
(* no new connection, but its close event, which releases the lease, waits *)
(* for those it has.                                                       *)
(*                                                                         *)
(* Abstracted: what a callback does (CharacterGrant), expiry times of      *)
(* sessions (Lapse), the end of the protocol, which a shutdown awaits and  *)
(* which is taken to come, and the start of a listener, which is one step: *)
(* for a literal address Node reports its outcome within the same turn.    *)
(*                                                                         *)
(* The names that every module has begin with Listener here: the proofs    *)
(* about this module and about CharacterGrant are in one module.           *)
(***************************************************************************)
EXTENDS Integers, FiniteSets

CONSTANTS
    Procs,              \* server processes
    Calls,              \* calls of connect_character, each with its session
    LeaseTtl,           \* 15 s, in periods of renewal of 5 s
    MaxClock,           \* bound on the clock
    Nobody

ASSUME ListenerAssumption ==
    /\ IsFiniteSet(Procs) /\ IsFiniteSet(Calls)
    /\ LeaseTtl \in Nat \ {0} /\ MaxClock \in Nat
    /\ Nobody \notin Procs \cup Calls

VARIABLES
    clock,
    lease,              \* the row of coordination_leases
    run,                \* of a process: where its life stands
    listening,          \* of a process: #server
    remembered,         \* of a process: #startPromise is a rejected one
    bound,              \* of a process: the call in #abortSignal
    serial,             \* of a process: listeners started so far
    stage, at,          \* of a call: how far it is, and in which process
    aborted,            \* of a call: its signal has fired
    session,
    conn,               \* of a session: the connection of its callback
    expired,            \* of a process: the timer of waitForIdle has fired
    awaited,            \* of a process: the listener its shutdown awaits, or 0
    \* Bookkeeping for the properties:
    closedFor,          \* of a process: why its listener was closed last
    early,              \* of a call: closed as idle before it stored its session
    touched             \* of a process: a call has met the closed database

parties  == <<stage, at, aborted, session, conn>>
listener == <<listening, remembered, bound, closedFor, early>>
wait     == <<expired, awaited>>
listenerVars == <<clock, lease, run, listener, serial, parties, wait, touched>>

NoLease == [owner |-> Nobody, expires |-> 0]
NoConn  == [proc |-> Nobody, serial |-> 0, phase |-> "none"]

ListenerTypeOK ==
    /\ clock \in 0..MaxClock
    /\ lease \in [owner: Procs \cup {Nobody}, expires: 0..(MaxClock + LeaseTtl)]
    /\ run \in [Procs -> {"new", "running", "stopping", "closing", "stopped", "crashed"}]
    /\ listening \in [Procs -> BOOLEAN]
    /\ remembered \in [Procs -> BOOLEAN]
    /\ bound \in [Procs -> Calls \cup {Nobody}]
    /\ serial \in [Procs -> Nat]
    /\ stage \in [Calls -> {"new", "begun", "heard", "refused", "ended"}]
    /\ at \in [Calls -> Procs \cup {Nobody}]
    /\ aborted \in [Calls -> BOOLEAN]
    /\ session \in [Calls -> {"none", "open", "pending", "ended"}]
    /\ conn \in [Calls -> [proc: Procs \cup {Nobody}, serial: Nat,
                           phase: {"none", "handling", "answered"}]]
    /\ closedFor \in [Procs -> {"nothing", "idle", "abort", "lease", "error"}]
    /\ early \in [Calls -> BOOLEAN]
    /\ expired \in [Procs -> BOOLEAN] /\ awaited \in [Procs -> Nat]
    /\ touched \in [Procs -> BOOLEAN]

ListenerInit ==
    /\ clock = 0
    /\ lease = NoLease
    /\ run = [p \in Procs |-> "new"]
    /\ listening = [p \in Procs |-> FALSE]
    /\ remembered = [p \in Procs |-> FALSE]
    /\ bound = [p \in Procs |-> Nobody]
    /\ serial = [p \in Procs |-> 0]
    /\ stage = [c \in Calls |-> "new"] /\ at = [c \in Calls |-> Nobody]
    /\ aborted = [c \in Calls |-> FALSE]
    /\ session = [c \in Calls |-> "none"]
    /\ conn = [c \in Calls |-> NoConn]
    /\ closedFor = [p \in Procs |-> "nothing"]
    /\ early = [c \in Calls |-> FALSE]
    /\ expired = [p \in Procs |-> FALSE] /\ awaited = [p \in Procs |-> 0]
    /\ touched = [p \in Procs |-> FALSE]

Alive(p)   == run[p] \in {"running", "stopping", "closing", "stopped"}
Tracked(p) == {c \in Calls : at[c] = p /\ stage[c] \in {"begun", "heard"}}

\* Connections of p's listener number n, current or closing.
Connections(p, n) == {c \in Calls : conn[c].proc = p /\ conn[c].serial = n}

---------------------------------------------------------------------------
(* The lease, and closing *)

HeldByOther(p) == lease.owner \notin {p, Nobody} /\ lease.expires > clock

Lease(p) == [owner |-> p, expires |-> clock + LeaseTtl]

Released(p) == IF lease.owner = p THEN NoLease ELSE lease

\* close: the lease goes at once, or with the last connection of the listener.
Close(p, why) ==
    /\ listening' = [listening EXCEPT ![p] = FALSE]
    /\ remembered' = [remembered EXCEPT ![p] = FALSE]
    /\ bound' = [bound EXCEPT ![p] = Nobody]
    /\ lease' = IF listening[p] /\ Connections(p, serial[p]) # {} THEN lease
                ELSE Released(p)
    /\ closedFor' = IF listening[p] THEN [closedFor EXCEPT ![p] = why]
                    ELSE closedFor
    /\ early' = [c \in Calls |-> \/ early[c]
                                 \/ why = "idle" /\ at[c] = p /\ stage[c] = "heard"]

\* Mutant: the sessions of others are not looked at.
NoneActive_Trusting(sessions) == TRUE

\* countActive = 0
NoneActive(sessions) == \A c \in Calls : sessions[c] \notin {"open", "pending"}

\* The end of status, cancel and callback calls.
CloseIfIdle(p) ==
    IF NoneActive(session') THEN Close(p, "idle") ELSE UNCHANGED <<lease, listener>>

---------------------------------------------------------------------------
(* connect_character *)

\* A call that comes in during a shutdown finds its signal aborted and ends
\* before it touches anything.
Begin(c, p) ==
    /\ run[p] = "running" /\ stage[c] = "new"
    /\ stage' = [stage EXCEPT ![c] = "begun"]
    /\ at' = [at EXCEPT ![c] = p]
    /\ UNCHANGED <<clock, lease, run, listener, serial, aborted, session, conn,
                   wait, touched>>

\* throwIfAborted; the signal of a call includes that of its process.
Cancelled(c) == aborted[c] \/ run[at[c]] # "running"

Leave(c, how) == stage' = [stage EXCEPT ![c] = how]

\* What a call does to the database once its process has closed it.
Touches(p) == touched' = IF run[p] = "stopped" THEN [touched EXCEPT ![p] = TRUE]
                         ELSE touched

\* Mutant: the lease is kept when listen fails.
AfterFailure_Kept(p) == Lease(p)

AfterFailure(p) == NoLease

\* ensureListening, once the listener is not there and no refusal remembered.
Start(c, p) ==
    \/ /\ HeldByOther(p)
       /\ remembered' = [remembered EXCEPT ![p] = TRUE]
       /\ Leave(c, "refused")
       /\ UNCHANGED <<lease, listening, bound, serial, closedFor, early>>
    \/ /\ ~HeldByOther(p)
       /\ \A q \in Procs : ~listening[q]
       /\ lease' = Lease(p)
       /\ listening' = [listening EXCEPT ![p] = TRUE]
       /\ bound' = [bound EXCEPT ![p] = c]
       /\ serial' = [serial EXCEPT ![p] = @ + 1]
       /\ Leave(c, "heard")
       /\ UNCHANGED <<remembered, closedFor, early>>
    \/ /\ ~HeldByOther(p)       \* the port is taken, or listen fails otherwise
       /\ lease' = AfterFailure(p)
       /\ Leave(c, "ended")
       /\ UNCHANGED <<listener, serial>>

\* What a call does up to the answer of ensureListening.
EnsureListening(c) ==
    LET p == at[c] IN
    /\ stage[c] = "begun" /\ Alive(p)
    /\ \/ /\ Cancelled(c) /\ Leave(c, "ended")
          /\ UNCHANGED <<lease, listener, serial>>
       \/ /\ ~Cancelled(c) /\ listening[p] /\ Leave(c, "heard")
          /\ UNCHANGED <<lease, listener, serial>>
       \/ /\ ~Cancelled(c) /\ ~listening[p] /\ remembered[p] /\ Leave(c, "refused")
          /\ UNCHANGED <<lease, listener, serial>>
       \/ ~Cancelled(c) /\ ~listening[p] /\ ~remembered[p] /\ Start(c, p)
    /\ Touches(p)
    /\ UNCHANGED <<clock, run, at, aborted, session, conn, wait>>

\* The session is stored, unless something on the way fails; a closed database
\* makes sure of that.
OpenSession(c) ==
    /\ stage[c] = "heard" /\ Alive(at[c])
    /\ Leave(c, "ended")
    /\ \/ run[at[c]] # "stopped" /\ session' = [session EXCEPT ![c] = "open"]
       \/ UNCHANGED session
    /\ Touches(at[c])
    /\ UNCHANGED <<clock, lease, run, listener, serial, at, aborted, conn, wait>>

\* The client cancels the call or its time limit passes, which happens even
\* after it has ended, when the listener it started is still bound to it.
Abort(c) ==
    /\ at[c] # Nobody /\ ~aborted[c]
    /\ run[at[c]] = "running"
    /\ c \in Tracked(at[c]) \/ bound[at[c]] = c
    /\ aborted' = [aborted EXCEPT ![c] = TRUE]
    /\ IF bound[at[c]] = c THEN Close(at[c], "abort") ELSE UNCHANGED <<lease, listener>>
    /\ UNCHANGED <<clock, run, serial, stage, at, session, conn, wait, touched>>

---------------------------------------------------------------------------
(* Sessions and callbacks *)

\* get_character_connection_status
Status(p) ==
    /\ run[p] = "running"
    /\ NoneActive(session)
    /\ Close(p, "idle")
    /\ UNCHANGED <<clock, run, serial, parties, wait, touched>>

\* cancel_character_connection; it ends early when the verifier is not deleted.
CancelSession(c, p) ==
    /\ run[p] = "running" /\ session[c] = "open"
    /\ session' = [session EXCEPT ![c] = "ended"]
    /\ CloseIfIdle(p) \/ UNCHANGED <<lease, listener>>
    /\ UNCHANGED <<clock, run, serial, stage, at, aborted, conn, wait, touched>>

\* expires_at passes.
Lapse(c) ==
    /\ session[c] \in {"open", "pending"}
    /\ session' = [session EXCEPT ![c] = "ended"]
    /\ UNCHANGED <<clock, lease, run, listener, serial, stage, at, aborted, conn,
                   wait, touched>>

\* The browser delivers the callback of c to whichever process listens.
Callback(c, p) ==
    /\ listening[p] /\ session[c] # "none" /\ conn[c] = NoConn
    /\ conn' = [conn EXCEPT ![c] = [proc |-> p, serial |-> serial[p],
                                    phase |-> "handling"]]
    /\ session' = IF session[c] = "open" THEN [session EXCEPT ![c] = "pending"]
                  ELSE session
    /\ UNCHANGED <<clock, lease, run, listener, serial, stage, at, aborted, wait, touched>>

\* The handler, which leaves the session as it is when the database is closed.
Handled(c) ==
    LET p == conn[c].proc IN
    /\ conn[c].phase = "handling"
    /\ conn' = [conn EXCEPT ![c].phase = "answered"]
    /\ IF run[p] = "stopped" THEN UNCHANGED <<lease, listener, session>>
       ELSE /\ session' = IF session[c] = "pending" THEN [session EXCEPT ![c] = "ended"]
                          ELSE session
            /\ CloseIfIdle(p)
    /\ UNCHANGED <<clock, run, serial, stage, at, aborted, wait, touched>>

\* The connection ends; with the last one, a closed listener's close event.
\* Once the database is closed, the release in it throws.
HangUp(c) ==
    LET p == conn[c].proc
        n == conn[c].serial
    IN /\ conn[c].phase = "answered"
       /\ conn' = [conn EXCEPT ![c] = NoConn]
       /\ lease' = IF /\ Connections(p, n) = {c}
                      /\ n < serial[p] \/ ~listening[p]
                      /\ run[p] # "stopped"
                   THEN Released(p) ELSE lease
       /\ UNCHANGED <<clock, run, listener, serial, stage, at, aborted, session,
                      wait, touched>>

---------------------------------------------------------------------------
(* Renewal, and the life of a process *)

\* Every 5 s, or later; a listener that has lost its lease closes.
Renew(p) ==
    /\ listening[p]
    /\ IF lease.owner = p
       THEN lease' = Lease(p) /\ UNCHANGED listener
       ELSE Close(p, "lease")
    /\ UNCHANGED <<clock, run, serial, parties, wait, touched>>

\* The server fails after it has begun to listen, as when it cannot accept.
ServerError(p) ==
    /\ listening[p]
    /\ Close(p, "error")
    /\ UNCHANGED <<clock, run, serial, parties, wait, touched>>

\* buildContainer removes leases that have expired.
StartProcess(p) ==
    /\ run[p] = "new"
    /\ run' = [run EXCEPT ![p] = "running"]
    /\ lease' = IF lease.expires <= clock THEN NoLease ELSE lease
    /\ UNCHANGED <<clock, listener, serial, parties, wait, touched>>

\* Mutant: the listener does not hear the signal of the call that started it.
AtAbort_Unheard(p) == UNCHANGED <<lease, listener>>

\* The abort handler, which is there as long as the listener.
AtAbort(p) == IF bound[p] # Nobody THEN Close(p, "abort")
              ELSE UNCHANGED <<lease, listener>>

\* rootController.abort(), which every signal includes.
BeginShutdown(p) ==
    /\ run[p] = "running"
    /\ run' = [run EXCEPT ![p] = "stopping"]
    /\ AtAbort(p)
    /\ UNCHANGED <<clock, serial, parties, wait, touched>>

TrackerIdle(p) == Tracked(p) = {}

\* The 5 s of waitForIdle.
LimitPasses(p) ==
    /\ run[p] = "stopping" /\ ~TrackerIdle(p) /\ ~expired[p]
    /\ expired' = [expired EXCEPT ![p] = TRUE]
    /\ UNCHANGED <<clock, lease, run, listener, serial, parties, awaited, touched>>

\* Mutant: the calls are not waited for.
WaitOver_NoWait(p) == TRUE

WaitOver(p) == TrackerIdle(p) \/ expired[p]

\* After the wait: callbackListener.close() once more, to be awaited.
AwaitListener(p) ==
    /\ run[p] = "stopping" /\ WaitOver(p)
    /\ run' = [run EXCEPT ![p] = "closing"]
    /\ awaited' = [awaited EXCEPT ![p] = IF listening[p] THEN serial[p] ELSE 0]
    /\ Close(p, "abort")
    /\ UNCHANGED <<clock, serial, parties, expired, touched>>

\* The close event that is awaited, if any, has come.
CloseEventCame(p) == awaited[p] = 0 \/ Connections(p, awaited[p]) = {}

\* The protocol is closed, and then the database.
FinishShutdown(p) ==
    /\ run[p] = "closing" /\ CloseEventCame(p)
    /\ run' = [run EXCEPT ![p] = "stopped"]
    /\ UNCHANGED <<clock, lease, listener, serial, parties, wait, touched>>

Crash(p) ==
    /\ run[p] \in {"running", "stopping", "closing"}
    /\ run' = [run EXCEPT ![p] = "crashed"]
    /\ listening' = [listening EXCEPT ![p] = FALSE]
    /\ remembered' = [remembered EXCEPT ![p] = FALSE]
    /\ bound' = [bound EXCEPT ![p] = Nobody]
    /\ conn' = [c \in Calls |-> IF conn[c].proc = p THEN NoConn ELSE conn[c]]
    /\ stage' = [c \in Calls |-> IF c \in Tracked(p) THEN "ended" ELSE stage[c]]
    /\ UNCHANGED <<clock, lease, closedFor, early, serial, at, aborted, session,
                   wait, touched>>

Tick ==
    /\ clock < MaxClock
    /\ clock' = clock + 1
    /\ UNCHANGED <<lease, run, listener, serial, parties, wait, touched>>

ListenerNext ==
    \/ \E c \in Calls :
         \/ EnsureListening(c) \/ OpenSession(c) \/ Abort(c)
         \/ Lapse(c) \/ Handled(c) \/ HangUp(c)
         \/ \E p \in Procs : Begin(c, p) \/ CancelSession(c, p) \/ Callback(c, p)
    \/ \E p \in Procs :
         \/ StartProcess(p) \/ Status(p) \/ Renew(p) \/ ServerError(p)
         \/ BeginShutdown(p) \/ LimitPasses(p) \/ AwaitListener(p)
         \/ FinishShutdown(p) \/ Crash(p)
    \/ Tick

ListenerSpec == ListenerInit /\ [][ListenerNext]_listenerVars

---------------------------------------------------------------------------
(* Properties *)

\* A lease of the listener is left behind by a crash only: a process that is
\* alive holds it for a listener that listens or has connections left.
NoStrayLease ==
    \A p \in Procs :
      lease.owner = p =>
        run[p] = "crashed" \/ listening[p] \/ \E c \in Calls : conn[c].proc = p

\* The callback of an open session finds a listener as long as the process that
\* offered the sign-in page runs: other sessions' ends do not close it.  The
\* exceptions: the signal of the call that started the listener has fired, its
\* lease is lost, its server has failed, or it was closed as idle just before the
\* session was stored.
HeardUnlessCut ==
    \A c \in Calls :
      session[c] = "open" /\ run[at[c]] = "running" =>
        \/ \E p \in Procs : listening[p]
        \/ closedFor[at[c]] \in {"abort", "lease", "error"}
        \/ closedFor[at[c]] = "idle" /\ early[c]

\* A process that shuts down stops listening at once and does not begin again,
\* whatever its calls were about to do.
StoppedIsDeaf == \A p \in Procs : listening[p] => run[p] = "running"

\* The database is closed under a call only when the call has outlasted the limit
\* of the wait: an earlier end of the last call, or none at all, is waited for.
DatabaseOutlivesCalls == \A p \in Procs : touched[p] => expired[p]

\* A shutdown that has come to await the close of its listener need not wait: the
\* signal has closed it before, and no call that was still on its way has started
\* it again.  (The close event waits for connections, and these need never end.)
ShutdownUnhindered == \A p \in Procs : run[p] = "closing" => CloseEventCame(p)

\* loopback-callback-server.ts:81 tells a caller that was refused to close the
\* other process or to retry after its lease has expired: a call is refused only
\* while another process holds the lease.
RefusedForCause ==
    [][\A c \in Calls :
         stage[c] = "begun" /\ stage'[c] = "refused" => HeldByOther(at[c])]_listenerVars

=============================================================================
