# A TLA+ model of eve-copilot-plugin

The server is a local MCP process: a host (an assistant) starts it, calls its
tools, and the tools read from and act on EVE Online for the characters the
player has connected. Several hosts may run at once, each with a server process
of its own, over **one** SQLite database, **one** credential store (that of the
operating system), **one** guide directory and **one** static-data directory.
Nearly everything that is hard about the program follows from that: two calls
interleave at every `await` and, across processes, between any two SQL
statements; no transaction spans the database and the other three stores; every
process may die at every step; EVE and the network may refuse, delay or lose
anything.

Paths below are relative to the repository's root.

## 1. Inventory

| Component | State it keeps | Operations | Correct when |
|---|---|---|---|
| Action plans and audit (`src/application/services/{prepare,execute}-eve-action.ts`, `src/storage/sqlite/action-*-repository.ts`) | tables `action_plans`, `action_audit_events` | prepare, execute, expire, prune, finish, append | a confirmed plan is sent at most once, after its audit event; its recorded outcome is true and final |
| Characters (`character-repository.ts`, select/list) | `characters` (status, generation, credential reference), `character_selection` | connect, replaceGrant, recordRefresh, mark, beginRemoval, completeRemoval, select | the row names a credential that exists and is readable; removal is complete |
| Connection (`connect-character.ts`, `complete-character-connection.ts`, `cancel-…`, `identity-support.ts`, `credential-cleanup.ts`) | `authorization_sessions`, `credential_cleanup`, PKCE verifiers and grants in the credential store | open, callback, expire, cancel, drain | a session ends once and says what happened; no secret is lost, deleted in use, or left behind |
| Disconnection (`disconnect-character.ts`) | row status `removal_pending` | begin, delete credential, erase guide, complete | either everything of the character is gone or it stays pending |
| Access tokens (`managed-character-access-token-provider.ts`, `coordination-lease-repository.ts`) | the grant, `coordination_leases` | get, refresh under the lease, heartbeat | a rotated refresh token is used once and its successor kept |
| User guide (`file-guide-repository.ts`, `file-guide-format.ts`) | Markdown pages, revision files, lock file | create, revise, remove, restore, erase; read, search | no blind overwrite; revisions immutable and recoverable |
| Static data: installation (`sde-manager.ts`) | `sde-<build>.db` files, `sde_installations`, `active.json` | install, update, retain | readers find a database; rows, pointer and files agree |
| Static data: queries (`file-sde-repository.ts`) | a cache of resolved closures | closure of requirements, lookups | exactly the sound graphs resolve, with their rows, depths and a usable order |
| ESI reads (`operation-executor.ts`, `esi-cache-repository.ts`) | `esi_cache_entries`, counters | execute, revalidate, serve stale, retry | an answer belongs to the character and grant that asked |
| Rate limiter (`rate-limit-coordinator.ts`) | buckets, blocks and learned policies, in memory | acquire, observe, snapshot | the budget EVE announced is not exceeded, blocks are heeded, nobody waits for ever |
| Bounded reads (`execute-bounded-read.ts`, `continuation-repository.ts`), and the semantic reads composed of them | table `continuation_state`; the pages in `esi_cache_entries` | first page, resume, expire, invalidate | each record is served once, to its owner; a traversal ends; a failed call can be repeated |
| Callback listener (`loopback-callback-server.ts`) | one HTTP server per process, its lease in `coordination_leases` | ensure, renew, close | a callback can arrive while a session is open; the lease is given back |
| Life cycle (`src/bootstrap`) | the tracker of requests, timers, the database handle | start, drain, close | shutdown ends; nothing uses a closed database before its time |
| Credential store (`system-credential-store.ts`) | entries of the operating system's store | create, read, replace, delete | part of Connection and Access tokens above |
| Fittings, capability catalog, context reads, MCP surface, configuration, observability | none that outlives a call | calculations, tables, presentation | – |

They interact by direct calls inside one process (a tool calls services, which
call ports) and through the shared stores between processes: `execute` and
`disconnect` meet in the foreign keys of the database; `get` (a token),
`complete` (a callback) and `disconnect` meet in the character's row *and* in
the credential store, which no transaction joins; `disconnect` and
`maintain_eve_guide` meet in the guide's lock file; `sde update` and every
reader meet in `active.json`; two servers meet at the port of the callback
listener and in its lease.

The hard behaviours are therefore: the order of a change in one store and the
matching change in another, with a crash in between; values read before an
`await` and used after it; leases and lock files that lapse under a living
owner; answers of EVE that get lost after EVE has acted. `PROJECT.json`
("hazards") lists each at its line, with the properties aimed at it or the
reason why there is none yet.

## 2. Modules

| Module | Is about | Proved in |
|---|---|---|
| `OneShotAction` | the abstract promise of the two-step protocol: a plan is transmitted once or given up | – (refined by `ActionPlan`) |
| `ActionPlan` | prepare, execute, expiry, pruning, audit and removal of a character | `ActionPlanProofs` |
| `CharacterGrant` | sessions, verifiers, grants, cleanup queue, disconnection | `CharacterGrantProofs` |
| `TokenRefresh` | reading and refreshing an access token under the lease, against reauthorization and removal | `TokenRefreshProofs` |
| `GuideStore` | one guide page, its history and the lock file | `GuideStoreProofs` |
| `SdeInstall` | files, rows and pointer of the static data | `SdeInstallProofs` |
| `EsiRead` | reading a character's data through the cache, against reauthorization and removal | `EsiReadProofs` |
| `RateLimit` | the calls that wait in one process's limiter, the window, the blocks | `RateLimitProofs` |
| `BoundedRead` | portions and continuations of a collection that changes | `BoundedReadProofs` |
| `RequirementClosure` | the resolution of requirements in the static data | `SdeInstallProofs` |
| `CallbackListener` | the listener for callbacks and the life of the processes around it | `CharacterGrantProofs` |

A module with proofs extends the modules it is about. The listener belongs to
the connection of characters and the closure to the static data, so that each
shares a proof module with the other part of its subsystem; the names that
every module has (`Init`, `Next`, `Spec`, `TypeOK`) begin with `Listener` and
`Closure` in those two.

The `MC…` modules add the symmetry set of the run, and for `RequirementClosure`
the graphs it is run on; runs with liveness properties go without symmetry, which
is unsound there.

**Grain.** A step of a model ends where the code awaits, or where one SQL
statement or immediate transaction ends and another process may write. What the
code does between two such points is one action: for instance `BeginExecution`
is `plans.beginExecution` and everything up to the next statement. In
`CharacterGrant` an operation of the credential store is one step with the
statement that follows its await, since the two stores are separate and
whatever comes between could as well come before or after.

**Processes.** A member of `Calls`, `Callbacks`, `Removers` or `Installers` is
one call, run by whichever process; nothing in a model is shared between calls
that is not shared between processes, except in `RateLimit`, which is about the
memory of one process, and in `CallbackListener`, which has processes of its own. A process that dies is its calls dying
one by one, which allows more than the code does.

### ActionPlan

`plans` and `audit` are the two tables; `row` and `selected` the part of the
characters' tables that matters; `calls[c]` the locals of one `prepare` or
`execute`. The phases of `execute` are `checked` (all guards passed, `now`
read), `begun`, `armed` (the `executing` event is stored, inside the `try`),
`sent` (fetch was handed the request), `finishing` and `recording`. The database
may refuse any write (`…Fails`), EVE applies a request or not, now or after the
connection broke. Histories: `requests` and `applied` count what was handed to
fetch and what took effect, `written` the audit events, `cut` the plans whose
connection broke after sending, `orphaned` those whose call died. Expiry and
pruning are the statements of `action-plan-repository.ts`, made part of the
handlers that run them.

### CharacterGrant

One character (rows of different characters do not interact here). `stored` is
the set of secrets in the credential store, `written[g]` the generation inside
the grant that reference `g` names, `queue` the table `credential_cleanup`. A
callback runs `verifying → exchanging → creating → created`, then `replaced` or
`discarding`, then `persisted` and `cleaning`. Several disconnects may be under
way: a second one finds the row pending and deletes the same reference again.
`abandoned` are secrets whose owner died or gave up, which nothing in the code
can find again; among them is the grant of a row that `completeRemoval` deletes
although it names another reference than the one this removal has deleted.
Assumptions: inserting into the cleanup queue and `setTerminal` do not fail for
want of storage; the status `connected` also stands for
`reauthorization_required`.

### TokenRefresh

A grant is the number of its refresh token and whether its access token is
fresh; `valid[g]` is the number EVE accepts. `replace` of the credential store
is *two* steps, the read and the write, because that is what the code does.
The lease may lapse under its owner (a suspended process) or be left by a dead
one. Assumptions: the generation inside a grant fits the row it was read for
(`CharacterGrant` is about the two); EVE does not revoke a token of its own
accord; a waiting call may give up at any poll.

### GuideStore

One page: pages share nothing but the lock. A version is its revision number, a
mark that tells texts apart and whether it belongs to the character. The lock's
file may become old under a living owner (`LockAges`), be found stale by two
waiting calls, and be deleted by each; the `finally` block deletes whatever lock
is there. `set_status` is a revision. Some properties excuse, by a named
variable, what the code cannot exclude: `stolen` (the lock of a living call was
removed), `recreated` (the page was removed and created under the same ID),
`forgotten` (a revision was pruned), `late` (a page created by a call that
checked the character before it left). Each of the four is a hazard of its own
in `PROJECT.json`.

### SdeInstall

`files` are the databases `sde-<build>.db`, `recent`, `active` and `obsolete`
the rows, `pointer` is `active.json`. The installer's steps are those of
`install`: unlink, rename, one transaction, pointer, retention file by file and
row by row. Any of them may be the last (`Stop`). No lock keeps installers
apart, so the properties speak of databases where two never met between the
first and the last change (`raced`); `torn` is a build that was deleted and then
not replaced, `orphans` files without a row. The order of `imported_at` is taken
to be that of the activations. Staging files have unique names and are left out.

### EsiRead

`cache` is the part of `esi_cache_entries` that one request of one character can
reach: its key names the generation of the authorization. A read runs
`authorizing → requesting → unchanged | receiving | failing → answered`. The
access token is awaited before the entry is looked up, and what was looked up is
kept over the request, its attempts and the delays between them: a "not
modified" renews *that* entry, whatever is in the table by then. `seen` is what
EVE had while the read waited, `grant` in an entry the authorization it was
fetched under, `late` that it was stored after a removal had begun; the code
knows none of the three. Abstracted: the times are the end of an entry's
freshness, and any entry may be too old to stand in for an answer; the limiter
only delays; pruning by count and age removes any entries; a request with a role
partition is a request with another key. Assumption: a validator EVE issues
names one payload.

### RateLimit

`bucket` holds the events of the window, `blocked` the two `blockedUntil`,
`calls[c]` a call that waits (`left` of its delay) or has been sent. Times are
what is left of them, so that the clock needs no bound; `Tick` is one unit. A
call looks once, waits at most `Cap`, and takes its slot: `Wake` does not look
again, which is what the code does. `ReservedCost` is 5 and the reserve two
percent of the tokens but at least 5, as in the code. `sent` and `closed` remember what the process itself forgets: the
requests of the window as EVE counts them, and the longest block announced.
`blind` requests were not preceded by a look, `overtaken` calls began to wait
before a block was announced, `trespassing` ones went out during it. Other
operations and identities meet this bucket in the global block only.

### BoundedRead

A traversal is the `place` of its record (page or cursor, offset, fingerprints)
and its `trail`, which belongs to the properties. `mode` is the operation's
pagination: pages, or a cursor that begins after the last identifier; a read
that is a component of a semantic read goes through `composing`, where a later
component may fail (`FailLater`). Two calls may resume the same token: a
continuation is found, the page is awaited, the next record stored and the old
one removed, in the code's order. A page comes from EVE (`Fetched`), or from the
executor's cache: fresh (`Hit`), confirmed by EVE (`Revalidated`) or in place of
a failed answer (`Stale`). The cache keeps a page as it was, without the number
of pages (`Stored`), under a key with the generation and the page; it loses
entries at any step (`Pruned`, `Evict`) and those of the character when its
authorization changes (`Forget`). Any entry may be fresh or not. The collection,
the authorization and the age of a record (`Expire`) change at any step.
Fingerprints are the objects, a token is its record's number (the real ones are
signed), and a budget of bytes is any shorter portion.

### RequirementClosure

The recursive `visit` is a stack of activations; rows are taken in any order,
which covers the order of the SQL query. Then come the two pure passes of the
code: breadth-first depths, where children join the queue in any order, and the
topological order, whose queue is ordered by type. The reference definitions
speak of the rows and not of the algorithm's state, and use no recursion:
`Followed` is the least set of types that has the target and what its members
require, `WithoutCycles` that every set of followed types has one that requires
none of them, `Ways(n, t)` the ways of `n` rows down from `t`, `Distance` the
length of a shortest one, and `Sound` puts them together. A resolution must
succeed exactly on sound graphs.

### CallbackListener

`run[p]` is the life of a process, `listening[p]` its HTTP server, `remembered[p]`
that `#startPromise` holds a rejected promise, `bound[p]` the call whose signal
closes the listener, `lease` the row both processes fight for. A call runs
`begun → heard → …`: it ensures the listener, then stores its session. A closed
server takes no new connection; its `close` event, which releases the lease,
waits for open connections (`conn`). `Renew` is the interval of 5 s, `LeaseTtl`
the 15 s; `ServerError` is an `error` event of a server that listens. A shutdown
takes the steps of `#shutdown`: the signal of the process fires, which closes
the listener (`BeginShutdown`); active calls are waited for until none is left
or the timer of `waitForIdle` has fired (`LimitPasses`, `expired`); the listener
is closed once more and its close awaited (`AwaitListener`, `awaited`); then the
protocol and the database are closed (`FinishShutdown`). Only calls of
`connect_character` are tracked here; one that comes in during a shutdown finds
its signal aborted before it does anything. Assumptions: the protocol's close
ends; a server that has been closed reports no more errors. A process may crash
at any step of this. Histories: `closedFor`, `early`, `touched`.

## 3. Runs

The passing runs take between some seconds and about three minutes with two
workers. Deadlock is not checked where calls and bounds run out, since a server
with nothing to do may stop; `EsiRead` and `RateLimit` check it: there, something
can always go on. `Spec` is checked without fairness except for the liveness
properties.

| Run | Shows |
|---|---|
| `ActionPlan` | `AtMostOnce`, `SentIsAudited`, `HonestState`, `RemovalIsComplete`; that the protocol implements `OneShotAction` (`ImplementsOneShot`); `ExecutionEnds` under fairness |
| `ActionPlanLost` | finding 1 (a violation) |
| `CharacterGrant` | `LiveSecretsKept`, `NothingLeaks`, `ExchangedOnce`, `HonestSession` |
| `TokenRefresh` | `SpentTokenNotShown`, `NewestTokenKept`, `MarkedForCause` |
| `GuideStore` | `NoBlindOverwrite`, `LastVersionKept`, `NeverStuck`, `CharacterErased` |
| `SdeInstall` | type (no build has two rows), `ReadersAreServed`, `InstallEndsWell` |
| `EsiRead` | `AnswerIsCurrent`, `PrivateStaysApart`, `RemovedIsForgotten` |
| `RateLimit` | `BudgetKept`, `BlocksHeeded`, and `WaitEnds` under fairness |
| `BoundedRead` | `NothingTwice`, `NothingMissed`, `TraversalEnds`, `TokenKept`, `OneAuthorization` |
| `RequirementClosure` | type, `ResolvesExactly`, `OrderIsUsable` |
| `CallbackListener` | `NoStrayLease`, `HeardUnlessCut`, `DatabaseOutlivesCalls`, `ShutdownUnhindered` |
| `CallbackListenerRefusal` | finding 2 (a violation) |

Where the types are proved for all constants, the run leaves them out.

**Bounds.** Two concurrent calls are enough for every race named in the
hazards: each is between two calls, and a third would meet what the first left.
- `ActionPlan`: one plan and two calls on it (plans share no row; what expiry and
  pruning may select is any set), two characters, so that the selection changes
  under a call, `PlanTtl = 1` and `MaxClock = 1` (a plan may expire before, while
  and after it executes), `MaxGeneration = 2` (authorized again once).
- `CharacterGrant`: two sessions and two callbacks (the same session twice, or
  two sessions), two disconnects, one death, two references: two first
  connections, or a connected character that is authorized again;
  `MaxGeneration = 3`, so that a disconnect and an authorization both follow the
  first. Two overlapping
  reauthorizations need a third; they are covered by the proofs, which have no
  bound.
- `TokenRefresh`: two calls, two references (before and after a new
  authorization), two rotations, one death or lapse.
- `GuideStore`: two calls; a history of one revision, so that every write after
  the second prunes, and three writes (create, revise and once more or create
  again); one crash or suspension.
- `SdeInstall`: four builds (one more than fits beside the two retained and the
  one under way), two failed installs.
- `EsiRead`: two reads; two values, so that EVE's data go back and forth; two
  generations and two authorizations: either the same character is authorized
  again, or it is removed and connected again under a generation used before.
- `RateLimit`: ten tokens of which five are reserve, so that one reservation fits
  and the second waits; blocks shorter than the cap and as long; a window longer
  than both; three events in a window.
- `BoundedRead`: three objects on pages of two, and a fourth that may come before
  them and so move one object to the next page; portions of one or two, so that a
  page is split or taken whole; two pages, so that the limit is met; a memory of
  one fingerprint, so that it forgets; a cache with room for one page, which puts
  out the other; one change, of the collection or of the authorization. Two calls
  and two continuations: the calls may resume the same one, and a chain gets to
  the end of the second page; a traversal is begun while a record is left. That
  objects go, caches of more pages and longer chains are left to the proofs.
- `RequirementClosure`: four types, at most three of them nodes, four rows and
  depth two, so that each limit is met from both sides; all graphs of up to three
  rows, some with invalid rows, and every subset of ten rows that contains the
  larger cycles and diamonds.
- `CallbackListener`: two processes, two calls, a lease of two periods and two
  ticks, so that a lease is renewed, and runs out where it is not.
  The violation run has a third call, which is refused for nothing.

**Fairness.**
- `ExecutionEnds` assumes weak fairness of `Proceed(c)`: a call that is not
  waiting for the player takes its next step, succeeds or fails. The code
  justifies it: every `await` below `execute` carries the request's abort signal
  and a timeout (`AbortSignal.timeout` in `operation-executor.ts`, the wait limit
  of the token provider, the delays of the rate limiter), so that each ends in an
  answer or an error; SQL statements return or throw. Nothing is assumed of EVE,
  of the clock, or of calls that have not begun, and a call may die at any step.
- `WaitEnds` assumes weak fairness of `Tick` and of each `Wake`: time passes and
  a timer that is due fires.
- Of `CallbackListener` only safety is stated. That a shutdown ends rests on
  `ShutdownUnhindered`: what it awaits is a timer, a close event that does not
  wait for connections, and the protocol's close.
- No liveness is stated for callbacks: they run under the root controller's
  signal, which has no timeout.

## 4. Findings

Each of the first two has a run that TLC must find violated.

1. `ActionPlanLost`: a connection that breaks while the body of a 2xx answer is
   read (`operation-executor.ts:240`) raises an error that is not
   `ACTION_OUTCOME_UNCERTAIN`; the plan is recorded as `failed` although EVE
   acted. `docs/action-safety.md:66-67` promises the uncertain outcome.
2. `CallbackListenerRefusal`: `ensureListening` remembers the promise of a start
   that was refused (`loopback-callback-server.ts:48`); until something closes the
   process's listener, as an idle status call does, its calls get the same
   refusal, although line 81 tells the caller to retry after the other lease has
   expired.

The others are named exceptions of properties that hold otherwise: the variable
in brackets marks the case.

- Characters. `replaceGrant` (`character-repository.ts:109`) makes a row
  connected whatever its status, so that a callback which read the row before a
  disconnect began undoes the removal (`docs/privacy.md:39-41` says the character
  is not usable). Two overlapping reauthorizations leave a grant whose generation
  is not that of its row (`complete-character-connection.ts:146`); the token
  provider refuses it while both sessions report success. `completeRemoval`
  (`character-repository.ts:236`) deletes the row of a character that was
  authorized again and is pending for another call; the grant the row names then
  has no owner (`abandoned`; `docs/privacy.md:34-35`).
- Tokens. `replace` (`system-credential-store.ts:126`) writes what it read before,
  also when a disconnect has deleted the entry meanwhile; the credential outlives
  the character. A late mark of a call that used a replaced reference disables
  the row authorized anew (`stale`).
- Guide. A page created again starts at revision 1; removed from a full history,
  it is preserved as the lowest number and pruned at once (`recreated`;
  `docs/eve-guide.md:42-43`). A stale lock can be deleted twice, and the `finally`
  block deletes whatever lock is there (`stolen`).
- ESI reads. An answer under way when the character is removed is cached after
  the cache was cleared (`late`; `docs/privacy.md:36-37`).
- Rate limiter. Calls that wait for the same event wake together and overdraw the
  window (`blind`); a waiting call goes out during a block announced meanwhile
  (`overtaken`); a fetch that throws leaves its five tokens reserved until they
  leave the window (`rate-limit-coordinator.ts:99`).
- Bounded reads. `docs/limitations.md:14-18` promises that repeated objects are
  left out: when a page changes between two of its portions, they are not
  (`loose`). The comment at `execute-bounded-read.ts:182-184` wants a token kept
  until its successor is known; a semantic read breaks it when a later component
  fails (`composing`). At the limit of pages the continuation is null and
  `partial` false (`capped`). A continuation stored after a removal is usable
  after a new connection, whose generation is 1 again (`late`). An answer from the
  cache has `totalPages` null (`operation-executor.ts:638`), and
  `nextContinuation` ends a traversal by page numbers that does not know how many
  there are (`execute-bounded-read.ts:596-597`): a read that is begun again while
  its first page is cached returns that page with continuation null and `partial`
  false, although EVE has more, where `docs/troubleshooting.md:40` advises to
  restart "when a fresh complete traversal matters". `NothingMissed` excuses
  exactly the traversals by page numbers that EVE never told their number of pages
  (`counted`); one that had learned it goes on past cached pages.
- Listener. It is bound to the signal of the call that started it, which
  contains that call's time limit (at most 120 s) while sessions live up to 600
  s (`closedFor` = "abort"). A status or cancel call may close it as idle
  between `ensureListening` and the storing of the session (`early`). The close
  event of an old server releases the lease of its successor in the same
  process, which closes at its next renewal (`closedFor` = "lease"). An `error`
  event of a server that listens, as when it cannot accept a connection, closes
  the listener under open sessions until the next `connect_character` (line 111;
  `closedFor` = "error"). The signal that begins a shutdown closes the listener
  without waiting for its connections, so that the shutdown's own close has
  nothing to await (line 63): a callback under way may find the database closed,
  and the release in a late close event does.

## 5. Proofs

For every value of the constants, from the assumptions on them alone
(`ParametersAssumption`, `ListenerAssumption`, `ClosureAssumption`). Each module
proves an `InductiveInvariant`, `Init ⇒ IInv` and one lemma per action (or per
shape of action) for the step, and takes the properties from `IInv`. None of the
properties is inductive; what the invariant adds is what the code relies on.
Every invariant that a run checks is stated by a theorem.

- **`ActionPlanProofs`** (970 obligations): `AtMostOnceTransmission`,
  `WriteAheadAudit`, `StatesAreHonest`, `OutcomesAreFinal`,
  `RemovalsAreComplete`, `ActionPlanImplementsOneShot`. `HeldIsTaken` and
  `HeldOnce`: from `beginExecution` to the last audit event a call holds its
  plan, no other call can begin it, and it is held once; `UnsentBefore`,
  `ArmedIsAudited`, `SuccessIsApplied`, `CallsWellFormed`. `Shapes` classifies
  what some thirty actions can do to the variables of the invariant (nothing,
  begin, arm, send, conclude, finish, …), so that each conjunct is proved once
  per shape. The refinement follows from `IInv`, `SendingTransmits` and
  `NothingReopens`. That removal is complete is inductive beside the types of
  the calls: whatever a call under way writes about a character that is gone is
  refused by a foreign key.
- **`CharacterGrantProofs`** (3606, of which 849 about the listener).
  `CharacterGrant`: `LiveSecretsAreKept`, `SecretsAreOwned`,
  `CodesAreExchangedOnce`, `SessionsAreHonest`, `TerminalsAreFinal`. `SessionInv`
  says which callback may still end a session, `ReferenceInv` which grants are
  known to a row, a callback, a disconnect or the queue (`Known`, `Created`,
  `Current`): a secret has one owner at a time, and who deletes it has made sure
  that no row names it. `CallbackListener`: `LeasesAreGivenBack`,
  `SessionsAreHeard`, `CallsKeepTheDatabase`, `ShutdownIsDeaf`,
  `ShutdownIsUnhindered`. `Leases` says who may hold the lease and why; `Quiet`
  that a process past a wait whose limit did not pass has no calls left; `Deaf`
  that a listener is always bound to a call, so that the signal closes it, and
  hence `Unhindered` that no shutdown awaits one; `Heard` why a session has no
  listener.
- **`TokenRefreshProofs`** (1307): `SpentTokensStay`, `NewestTokensAreKept`,
  `MarksHaveCauses`. `Exclusive`: the lease excludes until
  one is taken from a living call; `Issued` and `Held`: every grant named was
  issued, and that of a usable character is stored; `Tokens`: the newest refresh
  token is in the store or on its way there; `Caused`: a call about to mark a row
  has a cause.
- **`GuideStoreProofs`** (1602): `NothingIsLostUnseen`, `LastVersionsAreKept`,
  `PagesCanBeRevised`, `CharactersAreErased`, `RevisionsAreImmutable`. `Locked`
  and `Undisturbed`: who holds the lock is alone with the files unless it was
  stolen; `Stage`: what each phase of a write has preserved and decided;
  `Newest`: how page, history and the version replaced last are ordered.
- **`SdeInstallProofs`** (4195, of which about 2900 about the closure).
  `SdeInstall`: `TypeCorrect`, `ReadersAreAlwaysServed`, `InstallsEndWell`.
  `Lone`: an installer that takes itself for alone is; `Progress`: what an
  installer that is alone has done so far, phase by phase, whatever it found;
  `Owned`: every file has a row, or its installer is about to write one. Lemmas
  on sequences without repetitions say what promoting and deleting a row do to
  the first two. `RequirementClosure`: `ClosureTypeCorrect`, `EvidenceIsFound`,
  `ListIsUsable`, `ResolutionsAreExact`. `ClosurePath`: which rows each type on
  the way down has left, and that a complete type has all of its own;
  `ClosureEvidence`: rows found lead only to types that are followed;
  `ClosureOrder`: counters are exact and a place comes after those it requires.
  `ResolutionsAreExact` needs more (`ClosureXInv`). `ClosureWay`: the way down is
  one of rows that are followed, and no set of complete types has a cycle; that
  is what makes the error `cycle` deserved during the visit and impossible
  during the ordering. `ClosureDistance`: a distance is that of some way, and as
  short as its parents allow unless they are still queued. `LongestIs` proves
  what the recursive depth computes where there is no cycle, and
  `DepthIsLongestWay` that it is at least `n` exactly where a way of `n` rows
  exists.
- **`EsiReadProofs`** (1489): `AnswersAreCurrent`, `StaleIsLast`, and what
  separates authorizations, `AuthorizationsStayApart` and `RemovedIsGone`.
  `Pairs`: a validator names its payload, in the table and in the copy a read
  keeps; `Apart`: entries belong to the generation in their key, and a read
  carries the generation it asked under.
- **`RateLimitProofs`** (2407): `TypeCorrect`, `NothingCrossesABlock`,
  `WindowWithinBudget`. `InOrder` and `Room` describe the bucket, `Remembered`
  relates `blocked` to the longest block announced, `Patient` bounds what a call
  still waits. `BudgetKept` is about a sum over the window, which reservations
  raise and answers lower, and of which expiry takes the oldest part: the
  invariant (`BudgetInv`) is that *every* rest of the window keeps within the
  budget (`SuffixesKept`), that unanswered requests still have their full
  reservation (`Reserved`), and that the limiter's bucket says the same as EVE
  counts (`Mirrors`).
- **`BoundedReadProofs`** (3533): `TypeCorrect`, `PortionsDoNotOverlap`,
  `PortionsCoverEverything`, `PortionsAreFinite`, `TokensAreKept`,
  `ChainsHaveOneAuthorization`. `Counted` bounds generations and changes by what
  has happened; `Tokens`: what a call resumes was returned, and what it is about
  to return nobody has yet; `Authorized`: a stored place and a read carry the
  grant they were begun under, or are `late`; `Traversals`: how page, offset,
  cursor and remembered fingerprints of every place, stored or being read,
  relate to what its chain has returned, skipped and could not see; `CacheSane`:
  what the cache has of a page, and what a call has found there, is what EVE had
  at the version it carries;
  `Told`: a traversal that has learned the number of pages keeps it.

**Induction.** What depends on a number or on the length of a sequence is proved
by a least counterexample, from the theorem of the library that the subsets of
a finite set are well founded: `LeastOf` in `SdeInstallProofs`, `KeepingExists`
and `Picks` in `BoundedReadProofs`, `TotalsExist` in `RateLimitProofs`. The
models are written for it: the definitions of recursive functions, filters and
sums (`LongestFrom`, `Keeping`, `Totals`) are functions, not RECURSIVE
operators, and `Followed` is a least set and not the result of a search.

Proved and not run, since TLC has no more to say of them: the types of most
modules, `FinalIsFinal`, `TerminalIsFinal`, `HistoryIsImmutable`,
`StaleIsLastResort`, `StoppedIsDeaf`, `EvidenceIsExact`.

Only model-checked, since they are out of the prover's reach: the liveness
properties `ExecutionEnds` and `WaitEnds`.

## 6. Not modelled

- The generated tables `src/capabilities/generated/*` (two thirds of the lines of
  the implementation) and the searches in them: immutable data, no behaviour.
  They are the reason why the modules stand for a small share of all lines; of
  the written code they stand for about a fifth.
- Parsing, schemas, formatting, logging and presentation, configuration, the
  command line, diagnostics, packaging.
- The calculation of fittings: a deterministic function, computed by a worker that
  serves one request and ends.
- Selectors, names and summaries of semantic and context reads: pure functions of
  the answers.
- The contents of grants (scopes, names, signatures: a failed verification is one
  failure); how a long secret is cut into entries of the credential store; the
  limits on counts and ages by which rows are pruned (any set the statement may
  select); the checks of a guide page's contents; the collection of a build from
  its archive; opening and migrating the database.

`PROJECT.json` lists the parts without a module and why.

## 7. Plan

What would come next, in this order:
1. The credential store: a secret is cut into chunks, which are written one by one
   and named by a first entry; a reader between two writes, a crash, a failed
   deletion. `CharacterGrant` and `TokenRefresh` then rest on its abstract
   promise.
2. `CharacterGrant` with an insert into the cleanup queue or a `setTerminal` that
   fails (`complete-character-connection.ts:206`), and three references.
3. The time and the selection that `execute` reads before it awaits the token
   (`execute-eve-action.ts:68`), stated as a property with the delay it allows.
4. The cache of closures by build, against an update of the static data.
5. The step lemmas under the liveness properties: what each helpful step of
   `ExecutionEnds` and `WaitEnds` achieves, and that no other step undoes it.
