------------------------------ MODULE EsiRead -------------------------------
(***************************************************************************)
(* Reading a character's data from EVE through the cache: a fresh entry is *)
(* served; otherwise EVE is asked, with the validator of the entry found,  *)
(* up to three times; an answer is stored and served, "not modified"       *)
(* renews the entry found, and an entry that is still presentable stands   *)
(* in when EVE fails.  The cache is a table that all server processes      *)
(* share, its key names the character's authorization generation, and the  *)
(* character may be authorized again or removed while an answer is on its  *)
(* way.                                                                    *)
(*                                                                         *)
(* One character and one request; other requests have other keys.          *)
(* Abstracted: a payload and its validator (etag or last-modified) are the *)
(* value they stand for; time is the end of an entry's freshness, and any  *)
(* entry may be too old to stand in; the rate limiter only delays.         *)
(***************************************************************************)
EXTENDS Naturals

CONSTANTS
    Calls,              \* concurrent reads, over all server processes
    Values,             \* what EVE may have to say
    None,
    MaxGeneration,      \* bound on the authorization generation
    MaxGrants           \* bound on the authorizations ever given

ASSUME ParametersAssumption ==
    /\ None \notin Values
    /\ MaxGeneration \in Nat \ {0} /\ MaxGrants \in Nat \ {0}

VARIABLES
    eve,                \* the data at EVE
    row,                \* characters: status and generation
    cache,              \* esi_cache_entries, by generation
    calls,              \* local state of each read
    grant,              \* history: number of the last authorization
    life                \* history: how often the character was connected

history == <<grant, life>>
vars    == <<eve, row, cache, calls, history>>

Key == 1..MaxGeneration

\* For the properties an entry also says under which authorization it was
\* fetched and whether it was stored after a removal of the character began.
Nothing == [value |-> None, validator |-> None, fresh |-> FALSE, grant |-> 0,
            late |-> FALSE]
Entry   == [value: Values, validator: Values \cup {None}, fresh: BOOLEAN,
            grant: 1..MaxGrants, late: BOOLEAN] \cup {Nothing}

Idle == [pc |-> "idle", key |-> 1, grant |-> 0, life |-> 0, cached |-> Nothing,
         attempts |-> 0, seen |-> {}, failure |-> "none", how |-> "none",
         answer |-> Nothing]

Pc      == {"idle", "authorizing", "requesting", "unchanged", "receiving",
            "failing", "answered"}
Failure == {"none", "outage", "odd", "refused"}
How     == {"none", "hit", "miss", "revalidated", "stale"}

CallState ==
    [pc: Pc, key: Key, grant: 0..MaxGrants, life: 0..MaxGrants, cached: Entry,
     attempts: 0..3, seen: SUBSET Values, failure: Failure, how: How,
     answer: Entry]

TypeOK ==
    /\ eve \in Values
    /\ row \in [status: {"connected", "removal_pending", "absent"},
                generation: 0..MaxGeneration]
    /\ cache \in [Key -> Entry]
    /\ calls \in [Calls -> CallState]
    /\ grant \in 1..MaxGrants /\ life \in 1..MaxGrants

Init ==
    /\ eve \in Values
    /\ row = [status |-> "connected", generation |-> 1]
    /\ cache = [k \in Key |-> Nothing]
    /\ calls = [c \in Calls |-> Idle]
    /\ grant = 1 /\ life = 1

---------------------------------------------------------------------------
At(c, pc) == calls[c].pc = pc
Leave(c)  == calls' = [calls EXCEPT ![c] = Idle]

\* Mutant: the key does not name the generation.
KeyOf_Character(c) == 1

\* cacheKey
KeyOf(c) == calls[c].key

\* requireSelectedCharacter; #accessToken is awaited.
Start(c) ==
    /\ At(c, "idle")
    /\ row.status = "connected"
    /\ calls' = [calls EXCEPT ![c] =
         [Idle EXCEPT !.pc = "authorizing", !.key = row.generation,
                      !.grant = grant, !.life = life]]
    /\ UNCHANGED <<eve, row, cache, history>>

Answer(c, how, entry) ==
    calls' = [calls EXCEPT ![c].pc = "answered", ![c].how = how,
                           ![c].answer = entry, ![c].cached = Nothing,
                           ![c].life = 0]

\* The token is there: a fresh entry is served, any other goes along.
Hit(c) ==
    /\ At(c, "authorizing")
    /\ cache[KeyOf(c)].fresh
    /\ Answer(c, "hit", cache[KeyOf(c)])
    /\ UNCHANGED <<eve, row, cache, history>>

Lookup(c) ==
    /\ At(c, "authorizing")
    /\ ~cache[KeyOf(c)].fresh
    /\ calls' = [calls EXCEPT ![c].pc = "requesting",
                              ![c].cached = cache[KeyOf(c)],
                              ![c].seen = {eve}]
    /\ UNCHANGED <<eve, row, cache, history>>

\* EVE, asked with the validator of the data it has: status 304,
NotModified(c) ==
    /\ At(c, "requesting")
    /\ calls[c].cached.validator = eve
    /\ calls' = [calls EXCEPT ![c].pc = "unchanged", ![c].attempts = 0,
                              ![c].failure = "none"]
    /\ UNCHANGED <<eve, row, cache, history>>

\* or the data, with a validator or without.
Send(c) ==
    /\ At(c, "requesting")
    /\ \E validator \in {eve, None} :
         calls' = [calls EXCEPT ![c].pc = "receiving", ![c].attempts = 0,
                     ![c].failure = "none", ![c].cached = Nothing,
                     ![c].answer = [value |-> eve, validator |-> validator,
                                    fresh |-> TRUE, grant |-> calls[c].grant,
                                    late |-> FALSE]]
    /\ UNCHANGED <<eve, row, cache, history>>

\* No answer, or a status of 500 and more: #request tries three times.
Outage(c) ==
    /\ At(c, "requesting")
    /\ calls' = [calls EXCEPT ![c].attempts = @ + 1,
                   ![c].failure = "outage",
                   ![c].pc = IF calls[c].attempts < 2 THEN "requesting"
                             ELSE "failing"]
    /\ UNCHANGED <<eve, row, cache, history>>

\* assertSuccess: EVE refuses the token, the role or the rate, or answers
\* with some other status.
Decline(c) ==
    /\ At(c, "requesting")
    /\ \E failure \in {"refused", "odd"} :
         calls' = [calls EXCEPT ![c].pc = "failing", ![c].failure = failure]
    /\ UNCHANGED <<eve, row, cache, history>>

---------------------------------------------------------------------------
(* The table *)

\* Mutant: the upsert keeps the old validator when there is no new one.
Put_KeepsValidator(key, entry) ==
    [cache EXCEPT ![key] =
       [entry EXCEPT !.validator = IF @ = None THEN cache[key].validator
                                   ELSE @]]

\* put: the upsert replaces everything but the key.
Put(key, entry) == [cache EXCEPT ![key] = entry]

\* Has a removal of the character begun since the call started?
Late(c) == row.status # "connected" \/ calls[c].life # life

\* readJson has the body: it is stored, and old entries make room.
Store(c) ==
    /\ At(c, "receiving")
    /\ LET entry == [calls[c].answer EXCEPT !.late = Late(c)] IN
         /\ \E gone \in SUBSET Key :
              cache' = [k \in Key |-> IF k \in gone THEN Nothing
                                     ELSE Put(KeyOf(c), entry)[k]]
         /\ Answer(c, "miss", entry)
    /\ UNCHANGED <<eve, row, history>>

\* refreshEntry renews the entry found before the request was sent.
Revalidate(c) ==
    LET entry == [calls[c].cached EXCEPT !.fresh = TRUE,
                                         !.late = @ \/ Late(c)] IN
    /\ At(c, "unchanged")
    /\ cache' = Put(KeyOf(c), entry)
    /\ Answer(c, "revalidated", entry)
    /\ UNCHANGED <<eve, row, history>>

\* The catch block: an old entry stands in for EVE's failures.
Presentable(c) ==
    calls[c].cached # Nothing /\ calls[c].failure \in {"outage", "odd"}

StandIn(c) ==
    /\ At(c, "failing")
    /\ Presentable(c)
    /\ Answer(c, "stale", calls[c].cached)
    /\ UNCHANGED <<eve, row, cache, history>>

\* Any other error ends the read: no token, an unusable body, the entry is
\* too old, the request is aborted, the process dies.  An answered call is
\* over.
End(c) ==
    /\ ~At(c, "idle")
    /\ Leave(c)
    /\ UNCHANGED <<eve, row, cache, history>>

---------------------------------------------------------------------------
(* Meanwhile *)

\* A read that still waits for EVE's answer may get this or that.
Change ==
    /\ \E v \in Values \ {eve} :
         /\ eve' = v
         /\ calls' = [c \in Calls |->
              IF At(c, "requesting")
              THEN [calls[c] EXCEPT !.seen = @ \cup {v}] ELSE calls[c]]
    /\ UNCHANGED <<row, cache, history>>

FreshnessEnds(k) ==
    /\ cache[k].fresh
    /\ cache' = [cache EXCEPT ![k].fresh = FALSE]
    /\ UNCHANGED <<eve, row, calls, history>>

\* Mutant: the entries are left where they are.
Forget_Nothing == UNCHANGED cache

\* DELETE FROM esi_cache_entries WHERE character_id = ?
Forget == cache' = [k \in Key |-> Nothing]

\* replaceGrant
Reauthorize ==
    /\ row.status # "absent"
    /\ row.generation < MaxGeneration /\ grant < MaxGrants
    /\ row' = [status |-> "connected", generation |-> row.generation + 1]
    /\ grant' = grant + 1
    /\ Forget
    /\ UNCHANGED <<eve, calls, life>>

BeginRemoval ==
    /\ row.status # "absent"
    /\ row.generation < MaxGeneration
    /\ row' = [status |-> "removal_pending", generation |-> row.generation + 1]
    /\ Forget
    /\ UNCHANGED <<eve, calls, grant, life>>

CompleteRemoval ==
    /\ row.status = "removal_pending"
    /\ row' = [status |-> "absent", generation |-> 0]
    /\ UNCHANGED <<eve, cache, calls, history>>

\* connect: the generations begin again.
Connect ==
    /\ row.status = "absent"
    /\ grant < MaxGrants
    /\ row' = [status |-> "connected", generation |-> 1]
    /\ grant' = grant + 1
    /\ life' = life + 1
    /\ UNCHANGED <<eve, cache, calls>>

---------------------------------------------------------------------------
Read(c) ==
    \/ Start(c) \/ Hit(c) \/ Lookup(c)
    \/ NotModified(c) \/ Send(c) \/ Outage(c) \/ Decline(c)
    \/ Store(c) \/ Revalidate(c) \/ StandIn(c) \/ End(c)

Next ==
    \/ \E c \in Calls : Read(c)
    \/ Change \/ \E k \in Key : FreshnessEnds(k)
    \/ Reauthorize \/ BeginRemoval \/ CompleteRemoval \/ Connect

Spec == Init /\ [][Next]_vars

---------------------------------------------------------------------------
(* Properties *)

\* What a read fetches, or has confirmed by EVE, is what EVE had at some time
\* during the read: no validator in the table ever stands for another payload,
\* whichever reads store in which order while the data go back and forth.
AnswerIsCurrent ==
    \A c \in Calls :
      At(c, "answered") /\ calls[c].how \in {"miss", "revalidated"}
      => calls[c].answer.value \in calls[c].seen

\* An old entry is shown only after three attempts without an answer, or for
\* an answer of no known meaning: never when EVE refuses the character.
StaleIsLastResort ==
    \A c \in Calls :
      At(c, "answered") /\ calls[c].how = "stale"
      => \/ calls[c].failure = "odd"
         \/ calls[c].failure = "outage" /\ calls[c].attempts = 3

\* No read is served what an earlier authorization has fetched, however late
\* that answer is stored; but for what is stored when the character is
\* already being removed, since a new connection begins with generation 1.
PrivateStaysApart ==
    \A c \in Calls :
      At(c, "answered") /\ calls[c].answer.grant < calls[c].grant
      => calls[c].answer.late

\* Of a character being removed nothing is in the table, but for answers
\* that come in afterwards.
RemovedIsForgotten ==
    row.status # "connected" =>
      \A k \in Key : cache[k] # Nothing => cache[k].late

=============================================================================
