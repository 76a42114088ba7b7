----------------------------- MODULE GuideStore -----------------------------
(***************************************************************************)
(* The private guide: Markdown pages, the files of their former revisions, *)
(* and the lock file under which server processes maintain them.           *)
(* maintain_eve_guide creates, revises, removes and restores a page, and   *)
(* disconnect_character erases what belongs to its character.              *)
(*                                                                         *)
(* One page and its revisions: pages share nothing but the lock.  A step   *)
(* ends where the code awaits the file system, so once the lock has been   *)
(* removed as stale two calls may work on the same files.                  *)
(* Abstracted: a version of the page is its revision number, a mark that   *)
(* tells its text from every other one, and whether it belongs to the      *)
(* character; set_status is a revision; the directory walk of a removal    *)
(* meets no malformed file, or fails; time is the lock's being stale.      *)
(***************************************************************************)
EXTENDS Naturals, FiniteSets, FiniteSetsExt

CONSTANTS
    Calls,              \* concurrent calls, over all server processes
    None,
    Ghost,              \* owner of a lock whose call died
    MaxKept,            \* MAX_REVISIONS_PER_PAGE
    MaxWrites,          \* bound on the versions ever written
    MaxFaults           \* bound on calls that die or are suspended

ASSUME ParametersAssumption ==
    /\ Ghost # None /\ Calls \cap {None, Ghost} = {}
    /\ MaxKept \in Nat \ {0} /\ MaxWrites \in Nat \ {0} /\ MaxFaults \in Nat

VARIABLES
    page,               \* pages/<id>.md
    history,            \* revisions/<id>/<revision>.md
    lock,               \* the lock file: who wrote it, and whether it is old
    calls,              \* local state of each call
    character,          \* connected, being removed, or gone
    written,            \* versions written so far
    replaced,           \* history: the version that last left the page
    recreated,          \* history: the page was created more than once
    forgotten,          \* history: a revision was pruned, or files erased
    late,               \* history: the character got a page when it was gone
    stolen,             \* history: the lock of a living call was removed
    faults              \* history: counted for the bound

files == <<page, history>>
notes == <<replaced, recreated, forgotten, late, stolen, faults>>
vars  == <<files, lock, calls, character, written, notes>>

Revision == 1..MaxWrites
Version  == [revision: 0..MaxWrites, mark: 0..MaxWrites, private: BOOLEAN]
Absent   == [revision |-> 0, mark |-> 0, private |-> FALSE]
Free     == [owner |-> None, old |-> FALSE]

Kind == {"create", "revise", "remove", "restore", "erase"}
Pc   == {"idle", "waiting", "stealing", "reading", "preserving", "numbering",
         "writing", "pruning", "unlinking", "erasing", "unlocking"}
Inside == Pc \ {"idle", "waiting", "stealing"}

\* known: the version the player saw; source: the revision to restore, or the
\* text under way; next: the revision number to be written; picked: the files
\* to be erased, 0 being the page.
CallState ==
    [pc: Pc, kind: Kind, sees: BOOLEAN, known: Version, base: Version,
     source: Version, next: 0..MaxWrites + 1, picked: SUBSET (0..MaxWrites)]

Idle == [pc |-> "idle", kind |-> "revise", sees |-> FALSE, known |-> Absent,
         base |-> Absent, source |-> Absent, next |-> 0, picked |-> {}]

TypeOK ==
    /\ page \in Version
    /\ history \in [Revision -> Version]
    /\ lock \in [owner: Calls \cup {None, Ghost}, old: BOOLEAN]
    /\ calls \in [Calls -> CallState]
    /\ character \in {"connected", "removal_pending", "gone"}
    /\ written \in 0..MaxWrites
    /\ replaced \in Version
    /\ recreated \in BOOLEAN /\ forgotten \in BOOLEAN
    /\ late \in BOOLEAN /\ stolen \in BOOLEAN
    /\ faults \in 0..MaxFaults

Init ==
    /\ page = Absent
    /\ history = [n \in Revision |-> Absent]
    /\ lock = Free
    /\ calls = [c \in Calls |-> Idle]
    /\ character = "connected"
    /\ written = 0
    /\ replaced = Absent
    /\ recreated = FALSE /\ forgotten = FALSE
    /\ late = FALSE /\ stolen = FALSE
    /\ faults = 0

---------------------------------------------------------------------------
At(c, pc)   == calls[c].pc = pc
Is(c, kind) == calls[c].kind = kind
Goto(c, pc) == calls' = [calls EXCEPT ![c].pc = pc]
Leave(c)    == calls' = [calls EXCEPT ![c] = Idle]

\* Only the finally block is left.
Wind(c) == calls' = [calls EXCEPT ![c] = [Idle EXCEPT !.pc = "unlocking"]]

Visible(v, sees) == ~v.private \/ sees

Kept == {n \in Revision : history[n] # Absent}

\* Somebody else's lock file is removed while its writer still works.
Steals(c) == stolen' = (stolen \/ lock.owner \in Calls \ {c})

---------------------------------------------------------------------------
(* The lock *)

\* Whether the guide shows the character's pages.
CharacterVisible == character = "connected"

\* The player has read the page; whether the call sees the character's pages
\* is settled before it waits for the lock.
Begin(c) ==
    /\ At(c, "idle")
    /\ \E kind \in Kind \ {"erase"}, private \in BOOLEAN, n \in Revision :
         /\ private => kind = "create" /\ CharacterVisible
         /\ kind # "restore" => n = 1
         /\ kind \in {"revise", "remove"}
              => page # Absent /\ Visible(page, CharacterVisible)
         /\ calls' = [calls EXCEPT ![c] =
              [Idle EXCEPT
                 !.pc = "waiting", !.kind = kind, !.sees = CharacterVisible,
                 !.known = IF kind = "create" THEN Absent ELSE page,
                 !.source = [Absent EXCEPT !.revision = n,
                                           !.private = private]]]
    /\ UNCHANGED <<files, lock, character, written, notes>>

\* disconnect_character, with the row out of use before the guide is erased.
BeginErase(c) ==
    /\ At(c, "idle")
    /\ character # "gone"
    /\ character' = "removal_pending"
    /\ calls' = [calls EXCEPT ![c] = [Idle EXCEPT !.pc = "waiting",
                                                  !.kind = "erase"]]
    /\ UNCHANGED <<files, lock, written, notes>>

\* open 'wx'
TakeLock(c) ==
    /\ At(c, "waiting") /\ lock.owner = None
    /\ lock' = [owner |-> c, old |-> FALSE]
    /\ Goto(c, "reading")
    /\ UNCHANGED <<files, character, written, notes>>

\* stat finds a lock older than STALE_LOCK_MS,
FindStale(c) ==
    /\ At(c, "waiting") /\ lock.old
    /\ Goto(c, "stealing")
    /\ UNCHANGED <<files, lock, character, written, notes>>

\* and the file there now is deleted.
RemoveStale(c) ==
    /\ At(c, "stealing")
    /\ lock' = Free
    /\ Steals(c)
    /\ Goto(c, "waiting")
    /\ UNCHANGED <<files, character, written, replaced, recreated, forgotten,
                   late, faults>>

\* LOCK_TIMEOUT_MS
GiveUp(c) ==
    /\ At(c, "waiting") /\ lock.owner # None
    /\ Leave(c)
    /\ UNCHANGED <<files, lock, character, written, notes>>

\* The finally block deletes the lock file, whoever wrote it.
Unlock(c) ==
    /\ At(c, "unlocking")
    /\ lock' = Free
    /\ Steals(c)
    /\ Leave(c)
    /\ UNCHANGED <<files, character, written, replaced, recreated, forgotten,
                   late, faults>>

---------------------------------------------------------------------------
(* Maintenance *)

CreateReads(c) ==
    /\ At(c, "reading") /\ Is(c, "create")
    /\ page = Absent
    /\ calls' = [calls EXCEPT ![c] = [@ EXCEPT !.pc = "writing", !.next = 1]]
    /\ UNCHANGED <<files, lock, character, written, notes>>

\* #requiredMutablePage
ReviseReads(c) ==
    /\ At(c, "reading") /\ calls[c].kind \in {"revise", "remove"}
    /\ page # Absent /\ Visible(page, calls[c].sees)
    /\ page.revision = calls[c].known.revision
    /\ calls' = [calls EXCEPT ![c] =
                    [@ EXCEPT !.pc = "preserving", !.base = page,
                              !.source = page, !.next = page.revision + 1]]
    /\ UNCHANGED <<files, lock, character, written, notes>>

RestoreReads(c) ==
    LET historical == history[calls[c].source.revision] IN
    /\ At(c, "reading") /\ Is(c, "restore")
    /\ historical # Absent /\ Visible(historical, calls[c].sees)
    /\ page.revision = calls[c].known.revision
    /\ Visible(page, calls[c].sees)
    /\ calls' = [calls EXCEPT ![c] =
         [@ EXCEPT !.pc = IF page = Absent THEN "numbering" ELSE "preserving",
                   !.base = page, !.source = historical]]
    /\ UNCHANGED <<files, lock, character, written, notes>>

\* Mutant: a revision file that is there is taken for the right one.
Preserves_NoCompare(c) ==
    LET base == calls[c].base IN
    /\ At(c, "preserving")
    /\ history' = IF history[base.revision] = Absent
                  THEN [history EXCEPT ![base.revision] = base] ELSE history
    /\ Goto(c, CASE Is(c, "revise") -> "writing" [] Is(c, "remove") -> "pruning"
                 [] OTHER -> "numbering")
    /\ UNCHANGED <<page, lock, character, written, notes>>

\* #preserveRevision: a revision file is linked into place, never replaced;
\* one that differs makes the call fail.
Preserves(c) ==
    LET base == calls[c].base IN
    /\ At(c, "preserving")
    /\ history[base.revision] \in {Absent, base}
    /\ history' = [history EXCEPT ![base.revision] = base]
    /\ Goto(c, CASE Is(c, "revise") -> "writing" [] Is(c, "remove") -> "pruning"
                 [] OTHER -> "numbering")
    /\ UNCHANGED <<page, lock, character, written, notes>>

\* Mutant: the revisions kept are not looked at.
MaximumRevision_CurrentOnly(c) == calls[c].base.revision

\* #maximumRevision
MaximumRevision(c) == Max(Kept \cup {calls[c].base.revision})

RestoreNumbers(c) ==
    /\ At(c, "numbering")
    /\ calls' = [calls EXCEPT ![c] =
                    [@ EXCEPT !.pc = "writing",
                              !.next = MaximumRevision(c) + 1]]
    /\ UNCHANGED <<files, lock, character, written, notes>>

\* #atomicWrite renames the new version into place.
Writes(c) ==
    LET v == [revision |-> calls[c].next, mark |-> written + 1,
              private |-> calls[c].source.private]
    IN
    /\ At(c, "writing")
    /\ written < MaxWrites
    /\ written' = written + 1
    /\ page' = v
    /\ replaced' = IF page = Absent THEN replaced ELSE page
    /\ recreated' = (recreated \/ (Is(c, "create") /\ written > 0))
    /\ late' = (late \/ (v.private /\ character = "gone"))
    /\ IF Is(c, "create") THEN Wind(c) ELSE Goto(c, "pruning")
    /\ UNCHANGED <<history, lock, character, forgotten, stolen, faults>>

\* Mutant: the oldest revisions are kept.
Surplus_Newest ==
    {n \in Kept : Cardinality({m \in Kept : m < n}) >= MaxKept}

\* #pruneRevisions keeps the MaxKept files with the highest numbers.
Surplus == {n \in Kept : Cardinality({m \in Kept : m > n}) >= MaxKept}

Prunes(c) ==
    /\ At(c, "pruning")
    /\ history' = [n \in Revision |->
                     IF n \in Surplus THEN Absent ELSE history[n]]
    /\ forgotten' = (forgotten \/ Surplus # {})
    /\ IF Is(c, "remove") THEN Goto(c, "unlinking") ELSE Wind(c)
    /\ UNCHANGED <<page, lock, character, written, replaced, recreated, late,
                   stolen, faults>>

Unlinks(c) ==
    /\ At(c, "unlinking") /\ page # Absent
    /\ page' = Absent
    /\ replaced' = page
    /\ Wind(c)
    /\ UNCHANGED <<history, lock, character, written, recreated, forgotten,
                   late, stolen, faults>>

File(n) == IF n = 0 THEN page ELSE history[n]

\* Mutant: revisions are not looked for.
EraseReads_PageOnly(c) ==
    /\ At(c, "reading") /\ Is(c, "erase")
    /\ calls' = [calls EXCEPT ![c] =
                    [@ EXCEPT !.pc = "erasing",
                              !.picked = {n \in {0} : File(n).private}]]
    /\ UNCHANGED <<files, lock, character, written, notes>>

\* removeCharacter reads every file
EraseReads(c) ==
    /\ At(c, "reading") /\ Is(c, "erase")
    /\ calls' = [calls EXCEPT ![c] =
                    [@ EXCEPT !.pc = "erasing",
                              !.picked =
                                {n \in 0..MaxWrites : File(n).private}]]
    /\ UNCHANGED <<files, lock, character, written, notes>>

\* and deletes the character's; when one file cannot be deleted, others are
\* gone, and the row stays for another attempt.
Erases(c) ==
    LET picked == calls[c].picked IN
    /\ At(c, "erasing")
    /\ \E gone \in SUBSET {n \in picked : File(n) # Absent} :
         /\ page' = IF 0 \in gone THEN Absent ELSE page
         /\ history' = [n \in Revision |->
                          IF n \in gone THEN Absent ELSE history[n]]
         /\ character' = IF gone = picked THEN "gone" ELSE character
    /\ replaced' = Absent
    /\ forgotten' = (forgotten \/ picked # {})
    /\ Wind(c)
    /\ UNCHANGED <<lock, written, recreated, late, stolen, faults>>

\* A check that fails, or the file system.
Fail(c) ==
    /\ calls[c].pc \in Inside \ {"unlocking"}
    /\ Wind(c)
    /\ UNCHANGED <<files, lock, character, written, notes>>

---------------------------------------------------------------------------
(* Around the calls *)

Die(c) ==
    /\ calls[c].pc # "idle"
    /\ faults < MaxFaults
    /\ faults' = faults + 1
    /\ Leave(c)
    /\ lock' = IF lock.owner = c THEN [lock EXCEPT !.owner = Ghost] ELSE lock
    /\ UNCHANGED <<files, character, written, replaced, recreated, forgotten,
                   late, stolen>>

\* Thirty seconds pass: the process is dead, or was suspended.
LockAges ==
    /\ lock.owner # None /\ ~lock.old
    /\ IF lock.owner = Ghost THEN UNCHANGED faults
       ELSE faults < MaxFaults /\ faults' = faults + 1
    /\ lock' = [lock EXCEPT !.old = TRUE]
    /\ UNCHANGED <<files, calls, character, written, replaced, recreated,
                   forgotten, late, stolen>>

---------------------------------------------------------------------------
Call(c) ==
    \/ Begin(c) \/ BeginErase(c)
    \/ TakeLock(c) \/ FindStale(c) \/ RemoveStale(c) \/ GiveUp(c)
    \/ CreateReads(c) \/ ReviseReads(c) \/ RestoreReads(c) \/ EraseReads(c)
    \/ Preserves(c) \/ RestoreNumbers(c) \/ Writes(c) \/ Prunes(c) \/ Unlinks(c)
    \/ Erases(c)
    \/ Fail(c) \/ Unlock(c) \/ Die(c)

Next == (\E c \in Calls : Call(c)) \/ LockAges

Spec == Init /\ [][Next]_vars

---------------------------------------------------------------------------
(* Properties *)

\* While no lock is stolen, no version is replaced or deleted by a call whose
\* player has not seen it, not even when the page was removed and created
\* again with the same number - as long as no revision has been forgotten.
NoBlindOverwrite ==
    ~stolen /\ ~forgotten =>
      \A c \in Calls :
        calls[c].pc \in {"numbering", "writing", "unlinking"}
        => page.mark = calls[c].known.mark

\* The version that last left the page by maintenance is in the history, or
\* the one after it is there already, whoever died half-way; until its
\* character is erased or the page is created anew.
LastVersionKept ==
    ~stolen /\ ~recreated /\ replaced # Absent
    => \/ history[replaced.revision] = replaced
       \/ page # Absent /\ history[page.revision] = page

\* A page can be revised by who has read it: no other revision file is in
\* the way of preserving it.
NeverStuck ==
    ~stolen /\ ~recreated /\ page # Absent
    => history[page.revision] \in {Absent, page}

\* When the character is gone nothing of it is left in the guide, but for a
\* page some call was creating when it left.
CharacterErased ==
    character = "gone" /\ ~late /\ ~stolen =>
      ~page.private /\ \A n \in Revision : ~history[n].private

\* docs/eve-guide.md: "immutable historical Markdown".  A revision file is
\* deleted or stays what it is, even when two calls are inside the lock.
HistoryIsImmutable ==
    [][\A n \in Revision :
         history[n] # Absent => history'[n] \in {history[n], Absent}]_history

=============================================================================
