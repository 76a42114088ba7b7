---------------------------- MODULE BoundedRead ----------------------------
(***************************************************************************)
(* Reading a collection of EVE in bounded portions.  A portion ends with a *)
(* continuation, a record in the table continuation_state, and a token     *)
(* that names it; whoever has the token may resume it, twice at the same   *)
(* time if he likes.  A page that does not fit is read again for its next  *)
(* portion, and what was on it is remembered, to be omitted from the pages *)
(* that follow.  The collection changes meanwhile, and so does the         *)
(* authorization of the character it belongs to.                           *)
(*                                                                         *)
(* A page comes from EVE, which says how many there are, or from the cache *)
(* of the executor, which does not: as it was fetched (still fresh, or in  *)
(* place of an answer of EVE that failed), or confirmed by EVE.            *)
(*                                                                         *)
(* The read may be one component of a semantic read, whose other           *)
(* components come after it and may fail.                                  *)
(*                                                                         *)
(* One collection and one character; a read begins with the first page.    *)
(* Abstracted: objects are numbers, in the order of the collection; the    *)
(* fingerprint of an object is the object; a budget of bytes is a smaller  *)
(* number of objects; a token is its record's number (it is signed); any   *)
(* entry of the cache may be fresh or not, as EsiRead models in detail.    *)
(***************************************************************************)
EXTENDS Integers, SequencesExt

CONSTANTS
    Calls,              \* concurrent reads, over all server processes
    NumObjects,         \* what the collection may hold: 1..NumObjects
    Collections,        \* what it holds at first
    Changing,           \* objects that may come and go
    PageSize,           \* objects on a page of EVE
    MaximumPages,       \* pagination.maximumPages
    MaxItems,           \* max_items
    MaxSeen,            \* fingerprints kept (1000)
    MaxCached,          \* pages for which the cache has room
    MaxIds,             \* bound on the continuations ever stored
    MaxChanges          \* bound on the changes of collection and authorization

Objects == 1..NumObjects

ASSUME ParametersAssumption ==
    /\ NumObjects \in Nat /\ Collections \subseteq SUBSET Objects
    /\ Changing \subseteq Objects
    /\ {PageSize, MaximumPages, MaxItems, MaxSeen, MaxIds} \subseteq Nat \ {0}
    /\ {MaxCached, MaxChanges} \subseteq Nat

VARIABLES
    mode,               \* pagination.mode of the operation
    eve,                \* the collection at EVE
    row,                \* characters: status and generation
    store,              \* continuation_state
    cache,              \* esi_cache_entries of this collection
    calls,              \* local state of each call
    held,               \* tokens that have been returned to the caller
    answer,             \* history: the answer that was just completed
    version,            \* history: number of changes of the collection
    grants,             \* history: authorizations given, ended, connections
    stored,             \* history: number of continuations ever stored
    settled             \* history: those that were answered, expired, ...

history == <<version, grants, stored, settled>>
vars    == <<mode, eve, row, store, cache, calls, held, answer, history>>

Id == 1..MaxIds

\* Where a traversal stands: total 0 is null, after 0 no cursor.
FirstPlace == [page |-> 1, after |-> 0, offset |-> 0, total |-> 0, seen |-> <<>>]

\* For the properties: what the portions of this traversal held so far, twice
\* or on a page that changed or went out of memory (loose); the page that is
\* being read and what was taken from it; the number of portions; the oldest
\* version of the collection it has seen, and the authorization it began with;
\* whether an answer of EVE has told it the number of pages.
FirstTrail == [got |-> {}, twice |-> {}, loose |-> {}, content |-> <<>>,
               part |-> {}, portions |-> 0, since |-> 0, grant |-> 0,
               late |-> FALSE, capped |-> FALSE, counted |-> FALSE]

Absent == [generation |-> 0, place |-> FirstPlace, trail |-> FirstTrail]

NoAnswer == [trail |-> FirstTrail, given |-> 1]

Idle == [pc |-> "idle", resumed |-> 0, given |-> 0,
         generation |-> 0, grant |-> 0, life |-> 0, place |-> FirstPlace,
         trail |-> FirstTrail, found |-> {}]

Place == [page: 1..MaximumPages, after: Objects \cup {0}, offset: 0..PageSize,
          total: Nat, seen: Seq(Objects)]

\* What the cache has of a page, and the version of the collection it was.
Copy == [key: [generation: Nat, at: Nat], list: Seq(Objects), total: {0},
         version: Nat]

TypeOK ==
    /\ mode \in {"page", "cursor"}
    /\ eve \subseteq Objects
    /\ row \in [status: {"connected", "removal_pending", "absent"},
                generation: 0..MaxChanges + 1]
    /\ held \subseteq Id
    /\ \A i \in Id : /\ store[i].generation \in 0..MaxChanges + 1
                     /\ store[i].place \in Place
                     /\ Len(store[i].place.seen) <= MaxSeen
    /\ cache \subseteq Copy
    /\ \A c \in Calls :
         /\ calls[c].pc \in {"idle", "reading", "asking", "composing"}
         /\ calls[c].found \subseteq Copy
         /\ calls[c].place \in Place
         /\ calls[c].resumed \in Id \cup {0} /\ calls[c].given \in Id \cup {0}

Init ==
    /\ mode \in {"page", "cursor"}
    /\ eve \in Collections
    /\ row = [status |-> "connected", generation |-> 1]
    /\ store = [i \in Id |-> Absent]
    /\ cache = {}
    /\ calls = [c \in Calls |-> Idle]
    /\ held = {}
    /\ answer = NoAnswer
    /\ version = 0
    /\ grants = [last |-> 1, life |-> 1, ended |-> 0]
    /\ stored = 0
    /\ settled = {}

---------------------------------------------------------------------------
(* EVE's pages *)

Smaller(a, b) == IF a < b THEN a ELSE b

\* What is kept of the first n elements, for every n.
Keeping(list, set) ==
    LET kept[n \in 0..Len(list)] ==
          IF n = 0 THEN <<>>
          ELSE IF list[n] \in set THEN Append(kept[n - 1], list[n]) ELSE kept[n - 1]
    IN kept

\* The elements of a list that are in the set, as SelectSeq gives them.
Kept(list, set) == Keeping(list, set)[Len(list)]

Listed(objects) == Kept([x \in Objects |-> x], objects)

FirstOf(list, n) == SubSeq(list, 1, Smaller(n, Len(list)))

PageOf(place) ==
    IF mode = "page"
    THEN FirstOf(SubSeq(Listed(eve), (place.page - 1) * PageSize + 1,
                        Cardinality(eve)), PageSize)
    ELSE FirstOf(Listed({x \in eve : x > place.after}), PageSize)

\* x-pages; a page has at least the number 1.
Total == IF mode = "cursor" THEN 0
         ELSE IF eve = {} THEN 1 ELSE (Cardinality(eve) + PageSize - 1) \div PageSize

---------------------------------------------------------------------------
(* The steps of #executeOperation *)

\* Mutant: the memory is not consulted.
Deduplicated_Nothing(list, seen) == list

\* deduplicateResult
Deduplicated(list, seen) == Kept(list, Objects \ ToSet(seen))

\* The newest fingerprints are kept.
Remember(seen, list) ==
    LET all == seen \o Kept(list, Objects \ ToSet(seen))
    IN SubSeq(all, IF Len(all) > MaxSeen THEN Len(all) - MaxSeen + 1 ELSE 1,
              Len(all))

\* Mutant: the budget of bytes may leave nothing.
Portion_MayBeEmpty(list, offset, n) ==
    SubSeq(list, offset + 1, Smaller(offset + n - 1, Len(list)))

\* boundArray: at least one object, if there is one.
Portion(list, offset, n) ==
    SubSeq(list, offset + 1, Smaller(offset + n, Len(list)))

\* Mutant: what this answer says, or does not.
EffectiveTotal_Latest(initial, total) == total

\* effectiveTotalPages, of what the continuation and what the answer says
EffectiveTotal(initial, total) ==
    CASE initial = 0 -> total [] total = 0 -> initial
      [] OTHER -> Smaller(initial, total)

\* nextContinuation: another page, by number or by cursor.
NextPage(place, page, list) ==
    [page |-> place.page + 1, offset |-> 0,
     after |-> IF page.list = <<>> THEN place.after ELSE Last(page.list),
     total |-> EffectiveTotal(place.total, page.total),
     seen |-> Remember(place.seen, list)]

MayGoOn(place) == place.page < MaximumPages

\* Is there another page, as far as this answer says?
MorePages(place, page) ==
    IF mode = "page" THEN place.page < EffectiveTotal(place.total, page.total)
    ELSE page.list # <<>>

At(c, pc) == calls[c].pc = pc
Silent    == answer' = NoAnswer
Settle(i) == settled \cup ({i} \ {0})

\* The token or the page is awaited.
Underway(c) == calls[c].pc \in {"reading", "asking"}

\* Mutant: the generation is not compared.
Resumable_AnyGeneration(i) == store[i] # Absent

\* It exists, and belongs to the character as it is authorized now.
Resumable(i) == store[i].generation = row.generation

\* Mutant: the record is removed when it is found.
AfterFind_Removed(i) == [j \in Id |-> IF j = i THEN Absent ELSE store[j]]

\* find changes nothing.
AfterFind(i) == store

\* #resume, or a new traversal; the access token is awaited.
Begin(c) ==
    /\ At(c, "idle")
    /\ row.status = "connected"
    /\ \E i \in held \cup {0} :
         /\ i # 0 => Resumable(i)
         /\ i = 0 => stored < MaxIds        \* a bound: it may need a record
         /\ calls' = [calls EXCEPT ![c] =
              [Idle EXCEPT !.pc = "reading", !.resumed = i,
                 !.generation = row.generation,
                 !.grant = grants.last, !.life = grants.life,
                 !.place = IF i = 0 THEN FirstPlace ELSE store[i].place,
                 !.trail = IF i = 0 THEN [FirstTrail EXCEPT !.since = version,
                                            !.grant = grants.last]
                           ELSE store[i].trail]]
         /\ store' = AfterFind(i)
    /\ Silent
    /\ UNCHANGED <<mode, eve, row, cache, held, history>>

\* What the properties keep of a portion.
Noted(trail, place, page, part, list, within, more) ==
    LET moved  == trail.part # {} /\ trail.content # list
        taken  == trail.part \cup ToSet(part)
        seen   == ToSet(place.seen) \cup ToSet(list)
        gone   == IF within THEN {} ELSE seen \ ToSet(Remember(place.seen, list))
    IN [trail EXCEPT
          !.got = @ \cup ToSet(part), !.twice = @ \cup (trail.got \cap ToSet(part)),
          !.loose = @ \cup gone \cup (IF moved THEN taken ELSE {}),
          !.part = IF within THEN taken ELSE {},
          !.content = IF within THEN list ELSE <<>>,
          !.portions = @ + 1, !.since = Smaller(@, page.version),
          !.counted = @ \/ page.total # 0,
          !.capped = ~within /\ more /\ place.page = MaximumPages]

\* The page is there.  The continuation is stored, then the one that was
\* resumed is removed; both follow the answer without another await.  A component
\* of a semantic read that has neither leaves nothing for the others to spoil, and
\* is taken to end here.
Deliver(c, page) ==
    LET call == calls[c]
        list == Deduplicated(page.list, call.place.seen)
        more == MorePages(call.place, page)
        new  == stored + 1
        late == row.status # "connected" \/ call.life # grants.life
    IN
    /\ \E n \in 1..MaxItems, composed \in BOOLEAN :
         LET part   == Portion(list, call.place.offset, n)
             stop   == call.place.offset + Len(part)
             within == stop < Len(list)
             goes   == within \/ (more /\ MayGoOn(call.place))
             trail  == Noted(call.trail, call.place, page, part, list, within, more)
             place  == IF within
                       THEN [call.place EXCEPT !.offset = stop,
                               !.total = EffectiveTotal(@, page.total)]
                       ELSE NextPage(call.place, page, list)
             put    == [generation |-> call.generation, place |-> place,
                        trail |-> [trail EXCEPT !.late = @ \/ late]]
         IN /\ goes => new <= MaxIds
            /\ composed => goes \/ call.resumed # 0
            /\ store' = [i \in Id |-> CASE goes /\ i = new     -> put
                                        [] i = call.resumed    -> Absent
                                        [] OTHER               -> store[i]]
            /\ calls' = [calls EXCEPT ![c] =
                 IF composed
                 THEN [Idle EXCEPT !.pc = "composing", !.resumed = call.resumed,
                                   !.given = IF goes THEN new ELSE 0]
                 ELSE Idle]
            /\ answer' = [trail |-> trail, given |-> IF goes THEN new ELSE 0]
            /\ held' = IF goes /\ ~composed THEN held \cup {new} ELSE held
            /\ stored' = IF goes THEN new ELSE stored
            /\ settled' = IF composed THEN settled ELSE Settle(call.resumed)
    /\ UNCHANGED <<mode, eve, row, version, grants>>

---------------------------------------------------------------------------
(* execute: the executor and its cache *)

\* cacheKey: the generation of the character, and which page.
KeyOf(c) == [generation |-> calls[c].generation,
             at |-> IF mode = "page" THEN calls[c].place.page
                    ELSE calls[c].place.after]

Cached(key) == {copy \in cache : copy.key = key}

\* What EVE answers now,
Fresh(c) == [key |-> KeyOf(c), list |-> PageOf(calls[c].place), total |-> Total,
             version |-> version]

\* and what is stored of it: not the number of pages (cachedResult).
Stored(page) == [page EXCEPT !.total = 0]

Put(page) == {copy \in cache : copy.key # page.key} \cup {Stored(page)}

\* put, and pruneTo: as many of the entries, whichever, as there is room for.
Pruned(page) == kSubset(Smaller(MaxCached, Cardinality(Put(page))), Put(page))

\* The token is there: a fresh entry is served,
Hit(c) ==
    /\ At(c, "reading")
    /\ \E copy \in Cached(KeyOf(c)) : Deliver(c, copy)
    /\ UNCHANGED cache

\* or EVE is asked; an entry that is not fresh goes along.
Ask(c) ==
    /\ At(c, "reading")
    /\ calls' = [calls EXCEPT ![c].pc = "asking", ![c].found = Cached(KeyOf(c))]
    /\ Silent
    /\ UNCHANGED <<mode, eve, row, store, cache, held, history>>

\* EVE answers; the page is stored, and old entries make room.
Fetched(c) ==
    /\ At(c, "asking")
    /\ Deliver(c, Fresh(c))
    /\ cache' \in Pruned(Fresh(c))

\* Status 304: what was found is what EVE has; the answer does not say of how
\* many pages.
NotModified(c) == \E copy \in calls[c].found : copy.list = Fresh(c).list

Revalidated(c) ==
    /\ At(c, "asking")
    /\ NotModified(c)
    /\ Deliver(c, Stored(Fresh(c)))
    /\ cache' = Put(Fresh(c))

\* EVE fails, and what was found stands in.
Stale(c) ==
    /\ At(c, "asking")
    /\ \E copy \in calls[c].found : Deliver(c, copy)
    /\ UNCHANGED cache

\* EVE fails, or refuses, the request is aborted, the process dies; or the
\* page is stored, but an item is too large for any answer.
Fail(c) ==
    /\ Underway(c)
    /\ \/ UNCHANGED cache
       \/ At(c, "asking") /\ cache' \in Pruned(Fresh(c))
       \/ At(c, "asking") /\ NotModified(c) /\ cache' = Put(Fresh(c))
    /\ calls' = [calls EXCEPT ![c] = Idle]
    /\ Silent
    /\ UNCHANGED <<mode, eve, row, store, held, history>>

\* Reads of other collections need the room (pruneTo).
Evict ==
    /\ \E copy \in cache : cache' = cache \ {copy}
    /\ Silent
    /\ UNCHANGED <<mode, eve, row, store, calls, held, history>>

---------------------------------------------------------------------------
(* A semantic read goes on *)

\* The other components of a semantic read succeed, or what fails is optional,
Answer(c) ==
    /\ At(c, "composing")
    /\ calls' = [calls EXCEPT ![c] = Idle]
    /\ held' = held \cup ({calls[c].given} \ {0})
    /\ settled' = Settle(calls[c].resumed)
    /\ Silent
    /\ UNCHANGED <<mode, eve, row, store, cache, version, grants, stored>>

\* or one of them fails for another reason, and the whole call with it.
FailLater(c) ==
    /\ At(c, "composing")
    /\ calls' = [calls EXCEPT ![c] = Idle]
    /\ settled' = Settle(calls[c].resumed)
    /\ Silent
    /\ UNCHANGED <<mode, eve, row, store, cache, held, version, grants, stored>>

---------------------------------------------------------------------------
(* Meanwhile *)

Change ==
    /\ version + grants.ended < MaxChanges
    /\ \E x \in Changing : eve' = IF x \in eve THEN eve \ {x} ELSE eve \cup {x}
    /\ version' = version + 1
    /\ Silent
    /\ UNCHANGED <<mode, row, store, cache, calls, held, grants, stored, settled>>

\* removeExpired, which every call begins with.
Expire(i) ==
    /\ store[i] # Absent
    /\ store' = [store EXCEPT ![i] = Absent]
    /\ settled' = Settle(i)
    /\ Silent
    /\ UNCHANGED <<mode, eve, row, cache, calls, held, version, grants, stored>>

\* DELETE FROM esi_cache_entries and continuation_state WHERE character_id = ?
Forget ==
    /\ cache' = {}
    /\ store' = [i \in Id |-> Absent]
    /\ settled' = settled \cup {i \in Id : store[i] # Absent}

\* replaceGrant
Reauthorize ==
    /\ row.status # "absent"
    /\ version + grants.ended < MaxChanges
    /\ row' = [status |-> "connected", generation |-> row.generation + 1]
    /\ grants' = [grants EXCEPT !.last = @ + 1, !.ended = @ + 1]
    /\ Forget
    /\ Silent
    /\ UNCHANGED <<mode, eve, calls, held, version, stored>>

BeginRemoval ==
    /\ row.status # "absent"
    /\ version + grants.ended < MaxChanges
    /\ row' = [status |-> "removal_pending", generation |-> row.generation + 1]
    /\ grants' = [grants EXCEPT !.ended = @ + 1]
    /\ Forget
    /\ Silent
    /\ UNCHANGED <<mode, eve, calls, held, version, stored>>

CompleteRemoval ==
    /\ row.status = "removal_pending"
    /\ row' = [status |-> "absent", generation |-> 0]
    /\ Silent
    /\ UNCHANGED <<mode, eve, store, cache, calls, held, history>>

\* connect: the generations begin again.
Connect ==
    /\ row.status = "absent"
    /\ row' = [status |-> "connected", generation |-> 1]
    /\ grants' = [grants EXCEPT !.last = @ + 1, !.life = @ + 1]
    /\ Silent
    /\ UNCHANGED <<mode, eve, store, cache, calls, held, version, stored, settled>>

---------------------------------------------------------------------------
Next ==
    \/ \E c \in Calls : \/ Begin(c) \/ Hit(c) \/ Ask(c) \/ Fetched(c)
                        \/ Revalidated(c) \/ Stale(c) \/ Fail(c)
                        \/ Answer(c) \/ FailLater(c)
    \/ Evict \/ Change \/ \E i \in Id : Expire(i)
    \/ Reauthorize \/ BeginRemoval \/ CompleteRemoval \/ Connect

Spec == Init /\ [][Next]_vars

---------------------------------------------------------------------------
(* Properties *)

\* No object is returned twice along a chain of continuations, except one
\* whose page changed between two portions of it, and one that has fallen out
\* of the memory of fingerprints.
NothingTwice == answer.trail.twice \subseteq answer.trail.loose

\* A traversal that ends, and all of whose pages were of the collection as it
\* is now, has returned everything, unless there are too many pages - whoever
\* else resumes the same continuations, however the portions are cut, and
\* whether the pages came from EVE or from the cache.  Except a traversal by
\* page numbers that EVE has never told how many there are (page.total of the
\* answer is null), because the cache had all of its pages.
NothingMissed ==
    /\ answer.given = 0 /\ ~answer.trail.capped /\ answer.trail.since = version
    /\ mode = "page" => answer.trail.counted
    => answer.trail.got = eve

\* However the collection changes, every portion brings a traversal forward:
\* there are never more portions than objects the pages so far had room for,
\* and so no more than MaximumPages * PageSize in all.
TraversalEnds ==
    \A i \in Id :
      store[i].trail.portions <=
        (store[i].place.page - 1) * PageSize + store[i].place.offset

\* A token the caller has can be resumed until it was - or its time is over,
\* or the character was authorized again or removed; a call that fails does
\* not use it up.  Except for a component of a semantic read, which gives up
\* its record before the read is known to succeed.
TokenKept ==
    \A i \in held :
      store[i] = Absent =>
        \/ i \in settled
        \/ \E c \in Calls : At(c, "composing") /\ calls[c].resumed = i

\* The calls of a chain are all made under the authorization it began with -
\* but for a continuation stored after a removal began, since a new connection
\* has the first generation again.
OneAuthorization ==
    \A c \in Calls :
      Underway(c) /\ calls[c].trail.grant # calls[c].grant
      => calls[c].trail.late

=============================================================================
