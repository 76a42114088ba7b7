--------------------------- MODULE GuideStoreProofs ---------------------------
(***************************************************************************)
(* Proofs about GuideStore, for any number of calls, versions and faults.  *)
(***************************************************************************)
EXTENDS GuideStore, FiniteSetTheorems, WellFoundedInduction, TLAPS

\* A version, or Absent, with a number that has been written.
Numbered(v) == v.revision <= written /\ (v.revision = 0 => v = Absent)

\* Versions are numbered from one, and a revision file is named after its own.
Files ==
    /\ Numbered(page) /\ Numbered(replaced)
    /\ \A n \in Revision :
         history[n] # Absent => history[n].revision = n /\ n <= written

\* What a call holds at its stage.
Stage ==
    \A c \in Calls :
      /\ Numbered(calls[c].known) /\ Numbered(calls[c].base)
      /\ Is(c, "create") => calls[c].known = Absent
      /\ Is(c, "restore") => calls[c].source.revision \in Revision
      /\ At(c, "preserving") => calls[c].base # Absent
      /\ At(c, "preserving") /\ Is(c, "revise")
           => calls[c].next = calls[c].base.revision + 1
      /\ At(c, "writing") => calls[c].next \in 1..(written + 1)
      /\ calls[c].pc \in {"preserving", "numbering", "unlinking"}
           \/ (At(c, "writing") /\ ~Is(c, "create"))
         => calls[c].base.revision = calls[c].known.revision
      /\ At(c, "preserving") => calls[c].kind \in {"revise", "remove", "restore"}
      /\ At(c, "numbering") => Is(c, "restore")
      /\ At(c, "writing") => calls[c].kind \in {"create", "revise", "restore"}
      /\ At(c, "pruning") => calls[c].kind \in {"revise", "remove", "restore"}
      /\ At(c, "pruning") /\ Is(c, "remove")
           => calls[c].base.revision = calls[c].known.revision
      /\ At(c, "unlinking") => Is(c, "remove")
      /\ At(c, "erasing") => Is(c, "erase")

\* While no lock is stolen the one call inside is its owner,
Locked ==
    ~stolen => \A c \in Calls : calls[c].pc \in Inside <=> lock.owner = c

\* and the files are as it has read and left them.
Undisturbed ==
    ~stolen => \A c \in Calls :
      /\ At(c, "preserving") => calls[c].base = page
      /\ calls[c].pc \in {"numbering", "writing"} /\ ~Is(c, "create") =>
           /\ calls[c].base = page
           /\ page # Absent => history[page.revision] = page
      /\ At(c, "writing") /\ Is(c, "create") => page = Absent
      /\ calls[c].pc \in {"pruning", "unlinking"} /\ Is(c, "remove") =>
           /\ page # Absent /\ calls[c].base = page
           /\ At(c, "pruning") \/ ~recreated \/ ~forgotten
                => history[page.revision] = page
      /\ At(c, "erasing") =>
           calls[c].picked = {n \in 0..MaxWrites : File(n).private}

\* Unless the page was created anew no revision is newer than it.
Newest ==
    ~stolen /\ ~recreated =>
      /\ page # Absent => \A n \in Kept : n <= page.revision
      /\ replaced # Absent =>
           \A n \in Kept : n <= replaced.revision \/ n = page.revision
      /\ \A c \in Calls : At(c, "writing") /\ ~Is(c, "create")
                          => \A n \in Kept : n < calls[c].next

\* A version that a player has seen is there, or its revision is.
Remembered ==
    ~stolen /\ ~forgotten => \A c \in Calls :
      calls[c].known # Absent
      => page = calls[c].known \/ history[calls[c].known.revision] = calls[c].known

IInv ==
    /\ TypeOK /\ Files /\ Stage
    /\ Locked /\ Undisturbed /\ Newest /\ NeverStuck /\ LastVersionKept
    /\ Remembered /\ CharacterErased

---------------------------------------------------------------------------
(* Facts the steps share *)

LEMMA AbsentIs ==
    Absent \in Version /\ Absent.revision = 0 /\ ~Absent.private
      /\ Absent.mark = 0
  BY ParametersAssumption DEF Absent, Version

LEMMA VersionIs ==
    ASSUME NEW v \in Version
    PROVE  v.revision \in 0..MaxWrites /\ v.mark \in 0..MaxWrites
             /\ v.private \in BOOLEAN
  BY DEF Version

LEMMA StateFacts ==
    ASSUME TypeOK
    PROVE  /\ page \in Version /\ replaced \in Version
           /\ \A n \in Revision : history[n] \in Version
           /\ written \in Nat /\ written <= MaxWrites /\ MaxWrites \in Nat
           /\ \A c \in Calls : calls[c] \in CallState
  BY ParametersAssumption DEF TypeOK

LEMMA CallFields ==
    ASSUME TypeOK, NEW c \in Calls
    PROVE  /\ calls[c].pc \in Pc /\ calls[c].kind \in Kind
           /\ calls[c].sees \in BOOLEAN
           /\ calls[c].known \in Version /\ calls[c].base \in Version
           /\ calls[c].source \in Version
           /\ calls[c].next \in 0..(MaxWrites + 1)
           /\ calls[c].picked \in SUBSET (0..MaxWrites)
<1>1. calls[c] \in CallState
  BY StateFacts
<1> QED
  BY <1>1 DEF CallState

\* Only call c moves.
Others(c) ==
    /\ calls' \in [Calls -> CallState]
    /\ \A d \in Calls \ {c} : calls'[d] = calls[d]

\* The fields of call c that a step leaves alone, all but the stage.
Same(c) ==
    /\ calls'[c].kind = calls[c].kind /\ calls'[c].sees = calls[c].sees
    /\ calls'[c].known = calls[c].known /\ calls'[c].base = calls[c].base
    /\ calls'[c].source = calls[c].source /\ calls'[c].next = calls[c].next
    /\ calls'[c].picked = calls[c].picked

LEMMA RecordIs ==
    ASSUME TypeOK, NEW c \in Calls, NEW new \in CallState,
           calls' = [calls EXCEPT ![c] = new]
    PROVE  Others(c) /\ calls'[c] = new
<1>1. calls \in [Calls -> CallState]
  BY DEF TypeOK
<1> HIDE DEF CallState
<1> QED
  BY <1>1 DEF Others

LEMMA SetFields ==
    ASSUME NEW r \in CallState
    PROVE  /\ \A pc \in Pc : [r EXCEPT !.pc = pc] \in CallState
           /\ \A v \in Version : [r EXCEPT !.base = v] \in CallState
           /\ \A v \in Version : [r EXCEPT !.source = v] \in CallState
           /\ \A v \in Version : [r EXCEPT !.known = v] \in CallState
           /\ \A x \in Kind : [r EXCEPT !.kind = x] \in CallState
           /\ \A x \in BOOLEAN : [r EXCEPT !.sees = x] \in CallState
           /\ \A n \in 0..(MaxWrites + 1) : [r EXCEPT !.next = n] \in CallState
           /\ \A p \in SUBSET (0..MaxWrites) :
                [r EXCEPT !.picked = p] \in CallState
<1> HIDE DEF Version
<1> QED
  BY DEF CallState

LEMMA IdleIs ==
    /\ Idle \in CallState /\ Idle.pc = "idle" /\ Idle.kind = "revise"
    /\ Idle.known = Absent /\ Idle.base = Absent
<1>1. Absent \in Version
  BY AbsentIs
<1> HIDE DEF Version, Absent
<1> QED
  BY <1>1, ParametersAssumption DEF Idle, CallState, Pc, Kind

LEMMA GotoIs ==
    ASSUME TypeOK, NEW c \in Calls, NEW pc \in Pc, Goto(c, pc)
    PROVE  Others(c) /\ calls'[c].pc = pc /\ Same(c)
<1> DEFINE new == [calls[c] EXCEPT !.pc = pc]
<1>1. calls[c] \in CallState
  BY StateFacts
<1>2. new \in CallState
  BY <1>1, SetFields
<1>3. /\ new.pc = pc
      /\ new.kind = calls[c].kind /\ new.sees = calls[c].sees
      /\ new.known = calls[c].known /\ new.base = calls[c].base
      /\ new.source = calls[c].source /\ new.next = calls[c].next
      /\ new.picked = calls[c].picked
  BY <1>1 DEF CallState
<1>4. calls' = [calls EXCEPT ![c] = new]
  BY DEF Goto
<1> HIDE DEF new
<1> QED
  BY <1>2, <1>3, <1>4, RecordIs DEF Same

LEMMA LeaveIs ==
    ASSUME TypeOK, NEW c \in Calls, Leave(c)
    PROVE  /\ Others(c) /\ calls'[c].pc = "idle" /\ calls'[c].kind = "revise"
           /\ calls'[c].known = Absent /\ calls'[c].base = Absent
<1> HIDE DEF Idle
<1> QED
  BY IdleIs, RecordIs DEF Leave

LEMMA WindIs ==
    ASSUME TypeOK, NEW c \in Calls, Wind(c)
    PROVE  /\ Others(c) /\ calls'[c].pc = "unlocking"
           /\ calls'[c].kind = "revise"
           /\ calls'[c].known = Absent /\ calls'[c].base = Absent
<1> DEFINE new == [Idle EXCEPT !.pc = "unlocking"]
<1>1. Idle \in CallState /\ "unlocking" \in Pc
  BY IdleIs DEF Pc
<1>2. new \in CallState
  BY <1>1, SetFields
<1>3. new.pc = "unlocking" /\ new.kind = Idle.kind
      /\ new.known = Idle.known /\ new.base = Idle.base
  BY <1>1 DEF CallState
<1>4. calls' = [calls EXCEPT ![c] = new]
  BY DEF Wind
<1> HIDE DEF new, Idle
<1> QED
  BY <1>2, <1>3, <1>4, IdleIs, RecordIs

---------------------------------------------------------------------------
(* Steps that leave the files alone *)

SameFiles ==
    UNCHANGED <<page, history, written, replaced, recreated, forgotten>>

\* What a step that leaves the files alone may do around them.
Around ==
    /\ SameFiles
    /\ stolen => stolen'
    /\ late => late'
    /\ character' = "gone" => character = "gone"

LEMMA FilesStay ==
    ASSUME IInv, Around
    PROVE  Files' /\ NeverStuck' /\ LastVersionKept' /\ CharacterErased'
<1>1. Files'
  BY DEF IInv, Around, SameFiles, Files, Numbered
<1>2. NeverStuck' /\ LastVersionKept'
  BY DEF IInv, Around, SameFiles, NeverStuck, LastVersionKept
<1>3. CharacterErased'
  BY DEF IInv, Around, SameFiles, CharacterErased
<1> QED
  BY <1>1, <1>2, <1>3

Quiescent == {"idle", "waiting", "stealing", "reading", "unlocking"}

\* Call c moves to a stage at which it holds nothing of the files.
Quiet(c) ==
    /\ Others(c)
    /\ calls'[c].pc \in Quiescent
    /\ calls'[c].known \in {Absent, calls[c].known, page}
    /\ calls'[c].base \in {Absent, calls[c].base}
    /\ calls'[c].kind = "create" => calls'[c].known = Absent
    /\ calls'[c].kind = "restore" => calls'[c].source.revision \in Revision

LEMMA AbsentNumbered ==
    ASSUME TypeOK
    PROVE  Numbered(Absent)
  BY AbsentIs, StateFacts DEF Numbered

LEMMA QuietStays ==
    ASSUME IInv, NEW c \in Calls, Quiet(c), Around
    PROVE  Stage' /\ Undisturbed' /\ Newest' /\ Remembered'
<1>1. /\ calls'[c].pc \notin {"preserving", "numbering", "writing", "pruning",
                              "unlinking", "erasing"}
      /\ \A d \in Calls \ {c} : calls'[d] = calls[d]
      /\ UNCHANGED <<page, history, written, replaced, recreated, forgotten>>
      /\ stolen => stolen'
  BY DEF Quiet, Quiescent, Others, Around, SameFiles
<1>2. Numbered(calls'[c].known) /\ Numbered(calls'[c].base)
  BY AbsentNumbered DEF IInv, Files, Stage, Quiet
<1>3. Stage'
  BY <1>1, <1>2 DEF IInv, Stage, Numbered, At, Is, Quiet
<1>4. Undisturbed'
  BY <1>1 DEF IInv, Undisturbed, At, Is, File
<1>5. Newest'
  BY <1>1 DEF IInv, Newest, At, Is, Kept
<1>6. Remembered'
  BY <1>1 DEF IInv, Remembered, Quiet
<1> QED
  BY <1>3, <1>4, <1>5, <1>6

\* What is left to show for such a step.
LEMMA QuietKeeps ==
    ASSUME IInv, NEW c \in Calls, Quiet(c), Around, TypeOK', Locked'
    PROVE  IInv'
  BY FilesStay, QuietStays DEF IInv

\* A lock that is taken, given back or stolen: who is inside.
LEMMA StaysOutside ==
    ASSUME IInv, NEW c \in Calls, Others(c), UNCHANGED <<lock, stolen>>,
           calls[c].pc \in Inside <=> calls'[c].pc \in Inside
    PROVE  Locked'
  BY DEF IInv, Locked, Others

LEMMA InsideIs ==
    \A pc : pc \in Inside <=> pc \in {"reading", "preserving", "numbering",
              "writing", "pruning", "unlinking", "erasing", "unlocking"}
  BY DEF Inside, Pc

LEMMA BeginMoves ==
    ASSUME TypeOK, NEW c \in Calls, Begin(c)
    PROVE  /\ Others(c) /\ calls'[c].pc = "waiting" /\ calls'[c].base = Absent
           /\ calls'[c].known \in {Absent, page}
           /\ calls'[c].kind = "create" => calls'[c].known = Absent
           /\ calls'[c].source.revision \in Revision
<1>1. PICK kind \in Kind \ {"erase"}, private \in BOOLEAN, n \in Revision :
        calls' = [calls EXCEPT ![c] =
          [Idle EXCEPT
             !.pc = "waiting", !.kind = kind, !.sees = CharacterVisible,
             !.known = IF kind = "create" THEN Absent ELSE page,
             !.source = [Absent EXCEPT !.revision = n, !.private = private]]]
  BY DEF Begin
<1> DEFINE v  == IF kind = "create" THEN Absent ELSE page
           x  == CharacterVisible
           w  == [Absent EXCEPT !.revision = n, !.private = private]
           r1 == [Idle EXCEPT !.pc = "waiting"]
           r2 == [r1 EXCEPT !.kind = kind]
           r3 == [r2 EXCEPT !.sees = x]
           r4 == [r3 EXCEPT !.known = v]
           r5 == [r4 EXCEPT !.source = w]
<1>2. v \in Version /\ x \in BOOLEAN
  BY AbsentIs, StateFacts DEF CharacterVisible
<1>3. w \in Version /\ w.revision \in Revision
  <2>1. Absent \in Version /\ n \in 0..MaxWrites
    BY AbsentIs, ParametersAssumption DEF Revision
  <2> HIDE DEF Absent
  <2> DEFINE a == [Absent EXCEPT !.revision = n]
  <2>2. a \in Version /\ a.revision = n
    BY <2>1 DEF Version
  <2> HIDE DEF a
  <2>3. [a EXCEPT !.private = private] \in Version
        /\ [a EXCEPT !.private = private].revision = n
    BY <2>2 DEF Version
  <2> QED
    BY <2>3 DEF a
<1>4. calls' = [calls EXCEPT ![c] = r5]
  BY <1>1
<1> HIDE DEF v, w, x, Idle
<1>5. r1 \in CallState /\ r1.pc = "waiting" /\ r1.base = Absent
  <2>1. "waiting" \in Pc /\ Idle \in CallState /\ Idle.base = Absent
    BY IdleIs DEF Pc
  <2>2. r1 \in CallState /\ r1.pc = "waiting" /\ r1.base = Idle.base
    BY <2>1, SetFields DEF CallState
  <2> QED
    BY <2>1, <2>2
<1> HIDE DEF r1
<1>6. r2 \in CallState /\ r2.pc = "waiting" /\ r2.base = Absent /\ r2.kind = kind
  BY <1>5, SetFields DEF CallState
<1> HIDE DEF r2
<1>7. r3 \in CallState /\ r3.pc = "waiting" /\ r3.base = Absent /\ r3.kind = kind
  BY <1>2, <1>6, SetFields DEF CallState
<1> HIDE DEF r3
<1>8. r4 \in CallState /\ r4.pc = "waiting" /\ r4.base = Absent /\ r4.kind = kind
      /\ r4.known = v
  BY <1>2, <1>7, SetFields DEF CallState
<1> HIDE DEF r4
<1>9. r5 \in CallState /\ r5.pc = "waiting" /\ r5.base = Absent /\ r5.kind = kind
      /\ r5.known = v /\ r5.source = w
  BY <1>3, <1>8, SetFields DEF CallState
<1> HIDE DEF r5
<1>10. Others(c) /\ calls'[c] = r5
  BY <1>4, <1>9, RecordIs
<1> QED
  BY <1>3, <1>9, <1>10 DEF v

---------------------------------------------------------------------------
(* The lock *)

LEMMA BeginStep ==
    ASSUME IInv, NEW c \in Calls, Begin(c)
    PROVE  IInv'
<1>1. /\ Others(c) /\ calls'[c].pc = "waiting" /\ calls'[c].base = Absent
      /\ calls'[c].known \in {Absent, page}
      /\ calls'[c].kind = "create" => calls'[c].known = Absent
      /\ calls'[c].source.revision \in Revision
  BY BeginMoves DEF IInv
<1>2. calls[c].pc = "idle" /\ UNCHANGED <<files, lock, character, written, notes>>
  BY DEF Begin, At
<1>3. Quiet(c) /\ Around
  BY <1>1, <1>2 DEF Quiet, Quiescent, Around, SameFiles, files, notes
<1>4. TypeOK'
  BY <1>1, <1>2 DEF IInv, TypeOK, Others, files, notes
<1>5. Locked'
  BY <1>1, <1>2, StaysOutside, InsideIs DEF notes
<1> QED
  BY <1>3, <1>4, <1>5, QuietKeeps

LEMMA BeginEraseStep ==
    ASSUME IInv, NEW c \in Calls, BeginErase(c)
    PROVE  IInv'
<1> DEFINE r1  == [Idle EXCEPT !.pc = "waiting"]
           new == [r1 EXCEPT !.kind = "erase"]
<1>1. "waiting" \in Pc /\ "erase" \in Kind
  BY DEF Pc, Kind
<1>2. calls' = [calls EXCEPT ![c] = new]
  BY DEF BeginErase
<1>3. r1 \in CallState /\ r1.pc = "waiting" /\ r1.base = Absent
      /\ r1.known = Absent
  <2> HIDE DEF Idle
  <2>1. r1 \in CallState /\ r1.pc = "waiting" /\ r1.base = Idle.base
        /\ r1.known = Idle.known
    BY <1>1, IdleIs, SetFields DEF CallState
  <2> QED
    BY <2>1, IdleIs
<1> HIDE DEF r1
<1>4. new \in CallState /\ new.pc = "waiting" /\ new.base = Absent
      /\ new.known = Absent /\ new.kind = "erase"
  BY <1>1, <1>3, SetFields DEF CallState
<1> HIDE DEF new
<1>5. /\ Others(c) /\ calls'[c].pc = "waiting" /\ calls'[c].base = Absent
      /\ calls'[c].known = Absent /\ calls'[c].kind = "erase"
  BY <1>2, <1>4, RecordIs DEF IInv
<1>6. /\ calls[c].pc = "idle" /\ character' = "removal_pending"
      /\ UNCHANGED <<files, lock, written, notes>>
  BY DEF BeginErase, At
<1>7. Quiet(c) /\ Around
  BY <1>5, <1>6 DEF Quiet, Quiescent, Around, SameFiles, files, notes
<1>8. TypeOK'
  BY <1>5, <1>6 DEF IInv, TypeOK, Others, files, notes
<1>9. Locked'
  BY <1>5, <1>6, StaysOutside, InsideIs DEF notes
<1> QED
  BY <1>7, <1>8, <1>9, QuietKeeps

LEMMA TakeLockStep ==
    ASSUME IInv, NEW c \in Calls, TakeLock(c)
    PROVE  IInv'
<1>1. /\ calls[c].pc = "waiting" /\ lock.owner = None
      /\ lock' = [owner |-> c, old |-> FALSE]
      /\ UNCHANGED <<files, character, written, notes>>
  BY DEF TakeLock, At
<1>2. Others(c) /\ calls'[c].pc = "reading" /\ Same(c)
  BY GotoIs DEF TakeLock, IInv, Pc
<1>3. Quiet(c) /\ Around
  BY <1>1, <1>2 DEF Quiet, Quiescent, Around, SameFiles, files, notes, Same,
                    IInv, Stage, Is
<1>4. TypeOK'
  BY <1>1, <1>2 DEF IInv, TypeOK, Others, files, notes
<1>5. Locked'
  BY <1>1, <1>2, InsideIs, ParametersAssumption
     DEF IInv, Locked, Others, notes
<1> QED
  BY <1>3, <1>4, <1>5, QuietKeeps

LEMMA FindStaleStep ==
    ASSUME IInv, NEW c \in Calls, FindStale(c)
    PROVE  IInv'
<1>1. calls[c].pc = "waiting" /\ UNCHANGED <<files, lock, character, written, notes>>
  BY DEF FindStale, At
<1>2. Others(c) /\ calls'[c].pc = "stealing" /\ Same(c)
  BY GotoIs DEF FindStale, IInv, Pc
<1>3. Quiet(c) /\ Around
  BY <1>1, <1>2 DEF Quiet, Quiescent, Around, SameFiles, files, notes, Same,
                    IInv, Stage, Is
<1>4. TypeOK'
  BY <1>1, <1>2 DEF IInv, TypeOK, Others, files, notes
<1>5. Locked'
  BY <1>1, <1>2, StaysOutside, InsideIs DEF notes
<1> QED
  BY <1>3, <1>4, <1>5, QuietKeeps

LEMMA FreeIs == Free.owner = None /\ Free \in [owner: Calls \cup {None, Ghost},
                                                old: BOOLEAN]
  BY DEF Free

LEMMA RemoveStaleStep ==
    ASSUME IInv, NEW c \in Calls, RemoveStale(c)
    PROVE  IInv'
<1>1. /\ calls[c].pc = "stealing" /\ lock' = Free
      /\ stolen' = (stolen \/ lock.owner \in Calls \ {c})
      /\ UNCHANGED <<files, character, written, replaced, recreated, forgotten,
                     late, faults>>
  BY DEF RemoveStale, Steals, At
<1>2. Others(c) /\ calls'[c].pc = "waiting" /\ Same(c)
  BY GotoIs DEF RemoveStale, IInv, Pc
<1>3. Quiet(c) /\ Around
  BY <1>1, <1>2 DEF Quiet, Quiescent, Around, SameFiles, files, Same, IInv,
                    Stage, Is
<1>4. TypeOK'
  BY <1>1, <1>2, FreeIs DEF IInv, TypeOK, Others, files
<1>5. Locked'
  <2> SUFFICES ASSUME ~stolen', NEW d \in Calls
               PROVE  calls'[d].pc \in Inside <=> lock'.owner = d
    BY DEF Locked
  <2>1. ~stolen /\ lock.owner \notin Calls \ {c}
    BY <1>1 DEF IInv, TypeOK
  <2>2. lock'.owner = None /\ None \notin Calls
    BY <1>1, FreeIs, ParametersAssumption
  <2>3. calls'[d].pc \notin Inside
    BY <1>1, <1>2, <2>1, InsideIs DEF IInv, Locked, Others
  <2> QED
    BY <2>2, <2>3
<1> QED
  BY <1>3, <1>4, <1>5, QuietKeeps

LEMMA GiveUpStep ==
    ASSUME IInv, NEW c \in Calls, GiveUp(c)
    PROVE  IInv'
<1>1. calls[c].pc = "waiting" /\ UNCHANGED <<files, lock, character, written, notes>>
  BY DEF GiveUp, At
<1>2. /\ Others(c) /\ calls'[c].pc = "idle" /\ calls'[c].kind = "revise"
      /\ calls'[c].known = Absent /\ calls'[c].base = Absent
  BY LeaveIs DEF GiveUp, IInv
<1>3. Quiet(c) /\ Around
  BY <1>1, <1>2 DEF Quiet, Quiescent, Around, SameFiles, files, notes
<1>4. TypeOK'
  BY <1>1, <1>2 DEF IInv, TypeOK, Others, files, notes
<1>5. Locked'
  BY <1>1, <1>2, StaysOutside, InsideIs DEF notes
<1> QED
  BY <1>3, <1>4, <1>5, QuietKeeps

LEMMA UnlockStep ==
    ASSUME IInv, NEW c \in Calls, Unlock(c)
    PROVE  IInv'
<1>1. /\ calls[c].pc = "unlocking" /\ lock' = Free
      /\ stolen' = (stolen \/ lock.owner \in Calls \ {c})
      /\ UNCHANGED <<files, character, written, replaced, recreated, forgotten,
                     late, faults>>
  BY DEF Unlock, Steals, At
<1>2. /\ Others(c) /\ calls'[c].pc = "idle" /\ calls'[c].kind = "revise"
      /\ calls'[c].known = Absent /\ calls'[c].base = Absent
  BY LeaveIs DEF Unlock, IInv
<1>3. Quiet(c) /\ Around
  BY <1>1, <1>2 DEF Quiet, Quiescent, Around, SameFiles, files
<1>4. TypeOK'
  BY <1>1, <1>2, FreeIs DEF IInv, TypeOK, Others, files
<1>5. Locked'
  <2> SUFFICES ASSUME ~stolen', NEW d \in Calls
               PROVE  calls'[d].pc \in Inside <=> lock'.owner = d
    BY DEF Locked
  <2>1. ~stolen /\ lock.owner \notin Calls \ {c}
    BY <1>1 DEF IInv, TypeOK
  <2>2. lock'.owner = None /\ None \notin Calls
    BY <1>1, FreeIs, ParametersAssumption
  <2>3. calls'[d].pc \notin Inside
    BY <1>1, <1>2, <2>1, InsideIs DEF IInv, Locked, Others
  <2> QED
    BY <2>2, <2>3
<1> QED
  BY <1>3, <1>4, <1>5, QuietKeeps

LEMMA FailStep ==
    ASSUME IInv, NEW c \in Calls, Fail(c)
    PROVE  IInv'
<1>1. /\ calls[c].pc \in Inside
      /\ UNCHANGED <<files, lock, character, written, notes>>
  BY DEF Fail
<1>2. /\ Others(c) /\ calls'[c].pc = "unlocking" /\ calls'[c].kind = "revise"
      /\ calls'[c].known = Absent /\ calls'[c].base = Absent
  BY WindIs DEF Fail, IInv
<1>3. Quiet(c) /\ Around
  BY <1>1, <1>2 DEF Quiet, Quiescent, Around, SameFiles, files, notes
<1>4. TypeOK'
  BY <1>1, <1>2 DEF IInv, TypeOK, Others, files, notes
<1>5. Locked'
  BY <1>1, <1>2, StaysOutside, InsideIs DEF notes
<1> QED
  BY <1>3, <1>4, <1>5, QuietKeeps

LEMMA DieStep ==
    ASSUME IInv, NEW c \in Calls, Die(c)
    PROVE  IInv'
<1>1. /\ calls[c].pc # "idle" /\ faults < MaxFaults /\ faults' = faults + 1
      /\ lock' = IF lock.owner = c THEN [lock EXCEPT !.owner = Ghost] ELSE lock
      /\ UNCHANGED <<files, character, written, replaced, recreated, forgotten,
                     late, stolen>>
  BY DEF Die
<1>2. /\ Others(c) /\ calls'[c].pc = "idle" /\ calls'[c].kind = "revise"
      /\ calls'[c].known = Absent /\ calls'[c].base = Absent
  BY LeaveIs DEF Die, IInv
<1>3. Quiet(c) /\ Around
  BY <1>1, <1>2 DEF Quiet, Quiescent, Around, SameFiles, files
<1>4. /\ lock' \in [owner: Calls \cup {None, Ghost}, old: BOOLEAN]
      /\ lock'.owner = IF lock.owner = c THEN Ghost ELSE lock.owner
  <2>1. lock \in [owner: Calls \cup {None, Ghost}, old: BOOLEAN]
    BY DEF IInv, TypeOK
  <2> QED
    BY <1>1, <2>1
<1>5. TypeOK'
  BY <1>1, <1>2, <1>4, ParametersAssumption DEF IInv, TypeOK, Others, files
<1>6. Locked'
  BY <1>1, <1>2, <1>4, InsideIs, ParametersAssumption DEF IInv, Locked, Others
<1> QED
  BY <1>3, <1>5, <1>6, QuietKeeps

LEMMA LockAgesStep ==
    ASSUME IInv, LockAges
    PROVE  IInv'
<1>1. /\ lock' = [lock EXCEPT !.old = TRUE]
      /\ UNCHANGED <<files, calls, character, written, replaced, recreated,
                     forgotten, late, stolen>>
  BY DEF LockAges
<1>2. faults' \in 0..MaxFaults
  BY ParametersAssumption DEF LockAges, IInv, TypeOK
<1>3. /\ lock' \in [owner: Calls \cup {None, Ghost}, old: BOOLEAN]
      /\ lock'.owner = lock.owner
  <2>1. lock \in [owner: Calls \cup {None, Ghost}, old: BOOLEAN]
    BY DEF IInv, TypeOK
  <2> QED
    BY <1>1, <2>1
<1>4. TypeOK'
  BY <1>1, <1>2, <1>3 DEF IInv, TypeOK, files
<1>5. Around
  BY <1>1 DEF Around, SameFiles, files
<1>6. Stage' /\ Undisturbed' /\ Newest' /\ Remembered' /\ Locked'
  BY <1>1, <1>3 DEF IInv, Stage, Numbered, Undisturbed, Newest, Remembered, Locked,
                    At, Is, File, Kept, files
<1> QED
  BY <1>4, <1>5, <1>6, FilesStay DEF IInv

---------------------------------------------------------------------------
(* What is read *)

\* The call goes on with the same version in mind; the files stay.
LEMMA ReadingKeeps ==
    ASSUME IInv, NEW c \in Calls, Others(c), calls'[c].known = calls[c].known,
           calls[c].pc \in Inside, calls'[c].pc \in Inside,
           UNCHANGED <<files, lock, character, written, notes>>,
           Stage', Undisturbed', Newest'
    PROVE  IInv'
<1>1. Around
  BY DEF Around, SameFiles, files, notes
<1>2. TypeOK'
  BY DEF IInv, TypeOK, Others, files, notes
<1>3. Locked'
  BY StaysOutside DEF notes
<1>4. Remembered'
  BY DEF IInv, Remembered, Others, files, notes
<1> QED
  BY <1>1, <1>2, <1>3, <1>4, FilesStay DEF IInv

LEMMA CreateReadsStep ==
    ASSUME IInv, NEW c \in Calls, CreateReads(c)
    PROVE  IInv'
<1> DEFINE r0  == calls[c]
           r1  == [r0 EXCEPT !.pc = "writing"]
           new == [r1 EXCEPT !.next = 1]
<1>1. /\ calls[c].pc = "reading" /\ calls[c].kind = "create" /\ page = Absent
      /\ calls' = [calls EXCEPT ![c] = new]
      /\ UNCHANGED <<files, lock, character, written, notes>>
  BY DEF CreateReads, At, Is
<1>2. r0 \in CallState /\ "writing" \in Pc /\ 1 \in 0..(MaxWrites + 1)
  BY StateFacts, ParametersAssumption DEF IInv, Pc
<1> HIDE DEF r0
<1>3. r1 \in CallState /\ r1.pc = "writing" /\ r1.kind = r0.kind
      /\ r1.known = r0.known /\ r1.base = r0.base
  BY <1>2, SetFields DEF CallState
<1> HIDE DEF r1
<1>4. new \in CallState /\ new.pc = "writing" /\ new.kind = r0.kind
      /\ new.known = r0.known /\ new.base = r0.base /\ new.next = 1
  BY <1>2, <1>3, SetFields DEF CallState
<1> HIDE DEF new
<1>5. /\ Others(c) /\ calls'[c].pc = "writing" /\ calls'[c].kind = "create"
      /\ calls'[c].known = calls[c].known /\ calls'[c].base = calls[c].base
      /\ calls'[c].next = 1
  BY <1>1, <1>4, RecordIs DEF IInv, r0
<1>6. Stage'
  BY <1>1, <1>5, StateFacts DEF IInv, Stage, Numbered, At, Is, Others
<1>7. Undisturbed'
  BY <1>1, <1>5 DEF IInv, Undisturbed, At, Is, Others, File, files, notes
<1>8. Newest'
  BY <1>1, <1>5 DEF IInv, Newest, At, Is, Others, Kept, files, notes
<1> QED
  BY <1>1, <1>5, <1>6, <1>7, <1>8, ReadingKeeps, InsideIs

LEMMA ReviseReadsStep ==
    ASSUME IInv, NEW c \in Calls, ReviseReads(c)
    PROVE  IInv'
<1> DEFINE r0  == calls[c]
           n   == page.revision + 1
           r1  == [r0 EXCEPT !.pc = "preserving"]
           r2  == [r1 EXCEPT !.base = page]
           r3  == [r2 EXCEPT !.source = page]
           new == [r3 EXCEPT !.next = n]
<1>1. /\ calls[c].pc = "reading" /\ calls[c].kind \in {"revise", "remove"}
      /\ page # Absent /\ page.revision = calls[c].known.revision
      /\ calls' = [calls EXCEPT ![c] = new]
      /\ UNCHANGED <<files, lock, character, written, notes>>
  BY DEF ReviseReads, At
<1>2. r0 \in CallState /\ "preserving" \in Pc /\ page \in Version
      /\ n \in 0..(MaxWrites + 1)
  BY StateFacts, VersionIs DEF IInv, Pc
<1> HIDE DEF r0, n
<1>3. r1 \in CallState /\ r1.pc = "preserving" /\ r1.kind = r0.kind
      /\ r1.known = r0.known
  BY <1>2, SetFields DEF CallState
<1> HIDE DEF r1
<1>4. r2 \in CallState /\ r2.pc = "preserving" /\ r2.kind = r0.kind
      /\ r2.known = r0.known /\ r2.base = page
  BY <1>2, <1>3, SetFields DEF CallState
<1> HIDE DEF r2
<1>5. r3 \in CallState /\ r3.pc = "preserving" /\ r3.kind = r0.kind
      /\ r3.known = r0.known /\ r3.base = page
  BY <1>2, <1>4, SetFields DEF CallState
<1> HIDE DEF r3
<1>6. new \in CallState /\ new.pc = "preserving" /\ new.kind = r0.kind
      /\ new.known = r0.known /\ new.base = page /\ new.next = n
  BY <1>2, <1>5, SetFields DEF CallState
<1> HIDE DEF new
<1>7. /\ Others(c) /\ calls'[c].pc = "preserving" /\ calls'[c].kind = calls[c].kind
      /\ calls'[c].known = calls[c].known /\ calls'[c].base = page
      /\ calls'[c].next = page.revision + 1
  BY <1>1, <1>6, RecordIs DEF IInv, r0, n
<1>8. Stage'
  BY <1>1, <1>7, StateFacts DEF IInv, Stage, Files, Numbered, At, Is, Others
<1>9. Undisturbed'
  BY <1>1, <1>7 DEF IInv, Undisturbed, At, Is, Others, File, files, notes
<1>10. Newest'
  BY <1>1, <1>7 DEF IInv, Newest, At, Is, Others, Kept, files, notes
<1> QED
  BY <1>1, <1>7, <1>8, <1>9, <1>10, ReadingKeeps, InsideIs

LEMMA RestoreReadsStep ==
    ASSUME IInv, NEW c \in Calls, RestoreReads(c)
    PROVE  IInv'
<1> DEFINE r0  == calls[c]
           h   == history[calls[c].source.revision]
           pc  == IF page = Absent THEN "numbering" ELSE "preserving"
           r1  == [r0 EXCEPT !.pc = pc]
           r2  == [r1 EXCEPT !.base = page]
           new == [r2 EXCEPT !.source = h]
<1>1. /\ calls[c].pc = "reading" /\ calls[c].kind = "restore"
      /\ page.revision = calls[c].known.revision /\ h # Absent
      /\ calls' = [calls EXCEPT ![c] = new]
      /\ UNCHANGED <<files, lock, character, written, notes>>
  BY DEF RestoreReads, At, Is
<1>2. calls[c].source.revision \in Revision
  BY <1>1 DEF IInv, Stage, Is
<1>3. h \in Version /\ h.revision \in Revision
  BY <1>1, <1>2, StateFacts DEF IInv, Files
<1>4. r0 \in CallState /\ pc \in Pc /\ page \in Version
  BY StateFacts DEF IInv, Pc
<1> HIDE DEF r0, pc, h
<1>5. r1 \in CallState /\ r1.pc = pc /\ r1.kind = r0.kind /\ r1.known = r0.known
  BY <1>4, SetFields DEF CallState
<1> HIDE DEF r1
<1>6. r2 \in CallState /\ r2.pc = pc /\ r2.kind = r0.kind /\ r2.known = r0.known
      /\ r2.base = page
  BY <1>4, <1>5, SetFields DEF CallState
<1> HIDE DEF r2
<1>7. new \in CallState /\ new.pc = pc /\ new.kind = r0.kind /\ new.known = r0.known
      /\ new.base = page /\ new.source = h
  BY <1>3, <1>6, SetFields DEF CallState
<1> HIDE DEF new
<1>8. /\ Others(c) /\ calls'[c].pc = pc /\ calls'[c].kind = "restore"
      /\ calls'[c].known = calls[c].known /\ calls'[c].base = page
      /\ calls'[c].source = h
  BY <1>1, <1>7, RecordIs DEF IInv, r0
<1>9. \/ pc = "numbering" /\ page = Absent
      \/ pc = "preserving" /\ page # Absent
  BY DEF pc
<1>10. Stage'
  BY <1>1, <1>3, <1>8, <1>9 DEF IInv, Stage, Files, Numbered, At, Is, Others, files
<1>11. Undisturbed'
  BY <1>1, <1>8, <1>9 DEF IInv, Undisturbed, At, Is, Others, File, files, notes
<1>12. Newest'
  BY <1>1, <1>8, <1>9 DEF IInv, Newest, At, Is, Others, Kept, files, notes
<1> QED
  BY <1>1, <1>8, <1>9, <1>10, <1>11, <1>12, ReadingKeeps, InsideIs

LEMMA EraseReadsStep ==
    ASSUME IInv, NEW c \in Calls, EraseReads(c)
    PROVE  IInv'
<1> DEFINE r0  == calls[c]
           p   == {n \in 0..MaxWrites : File(n).private}
           r1  == [r0 EXCEPT !.pc = "erasing"]
           new == [r1 EXCEPT !.picked = p]
<1>1. /\ calls[c].pc = "reading" /\ calls[c].kind = "erase"
      /\ calls' = [calls EXCEPT ![c] = new]
      /\ UNCHANGED <<files, lock, character, written, notes>>
  BY DEF EraseReads, At, Is
<1>2. r0 \in CallState /\ "erasing" \in Pc /\ p \in SUBSET (0..MaxWrites)
  BY StateFacts DEF IInv, Pc
<1> HIDE DEF r0, p
<1>3. r1 \in CallState /\ r1.pc = "erasing" /\ r1.kind = r0.kind
      /\ r1.known = r0.known /\ r1.base = r0.base
  BY <1>2, SetFields DEF CallState
<1> HIDE DEF r1
<1>4. new \in CallState /\ new.pc = "erasing" /\ new.kind = r0.kind
      /\ new.known = r0.known /\ new.base = r0.base /\ new.picked = p
  BY <1>2, <1>3, SetFields DEF CallState
<1> HIDE DEF new
<1>5. /\ Others(c) /\ calls'[c].pc = "erasing" /\ calls'[c].kind = "erase"
      /\ calls'[c].known = calls[c].known /\ calls'[c].base = calls[c].base
      /\ calls'[c].picked = {n \in 0..MaxWrites : File(n).private}
  BY <1>1, <1>4, RecordIs DEF IInv, r0, p
<1>6. Stage'
  BY <1>1, <1>5 DEF IInv, Stage, Numbered, At, Is, Others
<1>7. Undisturbed'
  BY <1>1, <1>5 DEF IInv, Undisturbed, At, Is, Others, File, files, notes
<1>8. Newest'
  BY <1>1, <1>5 DEF IInv, Newest, At, Is, Others, Kept, files, notes
<1> QED
  BY <1>1, <1>5, <1>6, <1>7, <1>8, ReadingKeeps, InsideIs

\* A set of numbers up to b has a greatest one: of the sets of greater members
\* a smallest one is empty.
LEMMA MaxIsMember ==
    ASSUME NEW b \in Nat, NEW S \in SUBSET (0..b), S # {}
    PROVE  Max(S) \in S /\ \A y \in S : Max(S) >= y
<1> DEFINE Above(x) == {y \in S : y > x}
           T == {Above(x) : x \in S}
<1>1. IsFiniteSet(S)
  <2>1. IsFiniteSet(0..b)
    BY FS_Interval, 0 \in Int, b \in Int
  <2> QED
    BY <2>1, FS_Subset
<1>2. IsWellFoundedOn(StrictSubsetOrdering(S), FiniteSubsetsOf(S))
  BY FS_StrictSubsetOrderingWellFounded
<1>3. T \subseteq FiniteSubsetsOf(S) /\ T # {}
  <2>1. \A x \in S : Above(x) \in SUBSET S /\ IsFiniteSet(Above(x))
    BY <1>1, FS_Subset
  <2> QED BY <2>1 DEF FiniteSubsetsOf
<1>4. PICK A \in T : \A B \in T : ~ (<<B, A>> \in StrictSubsetOrdering(S))
  <2> HIDE DEF T
  <2> QED BY <1>2, <1>3, WFMin
<1>5. PICK m \in S : A = Above(m)
  BY <1>4
<1>6. \A y \in S : m >= y
  <2> SUFFICES ASSUME NEW y \in S, ~(m >= y) PROVE FALSE
    OBVIOUS
  <2>0. m \in Nat /\ y \in Nat /\ y > m
    OBVIOUS
  <2>1. Above(y) \in T
    OBVIOUS
  <2>2. Above(y) \subseteq A
    <3>1. \A z \in S : z > y => z > m
      BY <2>0
    <3> QED BY <1>5, <3>1
  <2>3. y \in A /\ y \notin Above(y)
    BY <1>5, <2>0
  <2>4. <<Above(y), A>> \in StrictSubsetOrdering(S)
    <3>1. Above(y) \in SUBSET S /\ A \in SUBSET S
      BY <1>5
    <3> HIDE DEF Above
    <3> QED
      BY <2>2, <2>3, <3>1 DEF StrictSubsetOrdering
  <2> QED BY <2>1, <2>4, <1>4
<1> QED
  BY <1>6 DEF Max

LEMMA MaximumIs ==
    ASSUME IInv, NEW c \in Calls
    PROVE  /\ MaximumRevision(c) \in 0..written
           /\ \A n \in Kept : n <= MaximumRevision(c)
           /\ calls[c].base.revision <= MaximumRevision(c)
<1> DEFINE S == Kept \cup {calls[c].base.revision}
<1>1. S \in SUBSET (0..written) /\ S # {} /\ written \in Nat
  <2>1. \A n \in Kept : n \in Nat /\ n <= written
    BY ParametersAssumption DEF IInv, Files, Kept, Revision
  <2>2. calls[c].base.revision \in Nat /\ calls[c].base.revision <= written
    BY CallFields, VersionIs DEF IInv, Stage, Numbered
  <2> QED
    BY <2>1, <2>2, StateFacts DEF IInv
<1>2. Max(S) \in S /\ \A y \in S : Max(S) >= y
  <2> HIDE DEF S
  <2> QED
    BY <1>1, MaxIsMember
<1>3. MaximumRevision(c) = Max(S)
  BY DEF MaximumRevision
<1>4. Max(S) \in 0..written
  BY <1>1, <1>2
<1>5. \A y \in S : y \in Nat
  BY <1>1
<1> QED
  BY <1>2, <1>3, <1>4, <1>5

LEMMA RestoreNumbersStep ==
    ASSUME IInv, NEW c \in Calls, RestoreNumbers(c)
    PROVE  IInv'
<1> DEFINE r0  == calls[c]
           n   == MaximumRevision(c) + 1
           r1  == [r0 EXCEPT !.pc = "writing"]
           new == [r1 EXCEPT !.next = n]
<1>1. /\ calls[c].pc = "numbering" /\ calls[c].kind = "restore"
      /\ calls' = [calls EXCEPT ![c] = new]
      /\ UNCHANGED <<files, lock, character, written, notes>>
  BY DEF RestoreNumbers, At, Is, IInv, Stage
<1>2. /\ n \in 1..(written + 1) /\ \A m \in Kept : m < n
      /\ n \in 0..(MaxWrites + 1)
  <2>1. \A m \in Kept : m \in Nat
    BY ParametersAssumption DEF Kept, Revision
  <2> QED
    BY <2>1, MaximumIs, StateFacts DEF IInv
<1>3. r0 \in CallState /\ "writing" \in Pc
  BY StateFacts DEF IInv, Pc
<1> HIDE DEF r0, n
<1>4. r1 \in CallState /\ r1.pc = "writing" /\ r1.kind = r0.kind
      /\ r1.known = r0.known /\ r1.base = r0.base /\ r1.source = r0.source
  BY <1>3, SetFields DEF CallState
<1> HIDE DEF r1
<1>5. new \in CallState /\ new.pc = "writing" /\ new.kind = r0.kind
      /\ new.known = r0.known /\ new.base = r0.base /\ new.source = r0.source
      /\ new.next = n
  BY <1>2, <1>4, SetFields DEF CallState
<1> HIDE DEF new
<1>6. /\ Others(c) /\ calls'[c].pc = "writing" /\ calls'[c].kind = "restore"
      /\ calls'[c].known = calls[c].known /\ calls'[c].base = calls[c].base
      /\ calls'[c].source = calls[c].source /\ calls'[c].next = n
  BY <1>1, <1>5, RecordIs DEF IInv, r0
<1>7. Stage'
  BY <1>1, <1>2, <1>6 DEF IInv, Stage, Numbered, At, Is, Others
<1>8. Undisturbed'
  BY <1>1, <1>6 DEF IInv, Undisturbed, At, Is, Others, File, files, notes
<1>9. Newest'
  BY <1>1, <1>2, <1>6 DEF IInv, Newest, At, Is, Others, Kept, files, notes
<1> QED
  BY <1>1, <1>6, <1>7, <1>8, <1>9, ReadingKeeps, InsideIs

---------------------------------------------------------------------------
(* What is changed *)

LEMMA AloneInside ==
    ASSUME IInv, NEW c \in Calls, calls[c].pc \in Inside, ~stolen
    PROVE  \A d \in Calls \ {c} : calls[d].pc \notin Inside
  BY DEF IInv, Locked

\* A call that is outside is at none of the stages the invariants speak of.
Busy == {"preserving", "numbering", "writing", "pruning", "unlinking", "erasing"}

LEMMA OthersRest ==
    ASSUME IInv, NEW c \in Calls, Others(c), calls[c].pc \in Inside,
           UNCHANGED stolen, ~stolen'
    PROVE  \A d \in Calls \ {c} : calls'[d].pc \notin Busy
<1>1. \A d \in Calls \ {c} : calls'[d] = calls[d]
  BY DEF Others
<1> QED
  BY <1>1, AloneInside, InsideIs DEF Busy

\* A step to rest cannot disturb what calls at work rely on.
LEMMA NobodyWorks ==
    ASSUME ~stolen' => \A d \in Calls : calls'[d].pc \notin Busy
    PROVE  Undisturbed'
  BY DEF Undisturbed, At, Busy

\* The numbers a call holds stay numbers that have been written.
LEMMA StillNumbered ==
    ASSUME NEW v \in Version, Numbered(v), written \in Nat, written' \in Nat,
           written <= written'
    PROVE  v.revision <= written' /\ (v.revision = 0 => v = Absent)
  BY VersionIs, ParametersAssumption DEF Numbered

LEMMA PreservesStep ==
    ASSUME IInv, NEW c \in Calls, Preserves(c)
    PROVE  IInv'
<1> DEFINE base == calls[c].base
           b  == base.revision
           pc == CASE Is(c, "revise") -> "writing"
                   [] Is(c, "remove") -> "pruning" [] OTHER -> "numbering"
<1>1. /\ calls[c].pc = "preserving" /\ history[b] \in {Absent, base}
      /\ history' = [history EXCEPT ![b] = base]
      /\ Goto(c, pc)
      /\ UNCHANGED <<page, lock, character, written, notes>>
  BY DEF Preserves, At
<1>2. pc \in Pc
  BY DEF Pc
<1>3. \/ calls[c].kind = "revise" /\ pc = "writing"
      \/ calls[c].kind = "remove" /\ pc = "pruning"
      \/ calls[c].kind = "restore" /\ pc = "numbering"
  BY <1>1 DEF IInv, Stage, At, Is
<1> HIDE DEF pc
<1>4. Others(c) /\ calls'[c].pc = pc /\ Same(c)
  BY <1>1, <1>2, GotoIs DEF IInv
<1>5. /\ base \in Version /\ base # Absent /\ b \in Revision /\ b <= written
      /\ b = calls[c].known.revision
  <2>1. base \in Version /\ base # Absent /\ Numbered(base)
        /\ b = calls[c].known.revision
    BY <1>1, CallFields DEF IInv, Stage, At
  <2> QED
    BY <2>1, VersionIs, ParametersAssumption DEF Numbered, Revision
<1>6. /\ history'[b] = base
      /\ \A n \in Revision \ {b} : history'[n] = history[n]
      /\ \A n \in Revision : history[n] # Absent => history'[n] = history[n]
      /\ history' \in [Revision -> Version]
  BY <1>1, <1>5 DEF IInv, TypeOK
<1>7. \A n : n \in Kept' <=> n \in Kept \/ n = b
  BY <1>5, <1>6 DEF Kept
<1>8. calls[c].pc \in Inside /\ calls'[c].pc \in Inside
  BY <1>1, <1>3, <1>4, InsideIs
<1>9. UNCHANGED stolen /\ (~stolen => page = base)
  BY <1>1 DEF IInv, Undisturbed, At, notes
<1>10. ~stolen' => \A d \in Calls \ {c} : calls'[d].pc \notin Busy
  BY <1>4, <1>8, <1>9, OthersRest
<1>11. TypeOK'
  BY <1>1, <1>4, <1>6 DEF IInv, TypeOK, Others, notes
<1>12. Files'
  BY <1>1, <1>5, <1>6 DEF IInv, Files, Numbered, notes
<1>13. Stage'
  <2>1. \A d \in Calls : /\ calls'[d].known = calls[d].known
                         /\ calls'[d].base = calls[d].base
                         /\ calls'[d].source = calls[d].source
                         /\ calls'[d].kind = calls[d].kind
                         /\ calls'[d].next = calls[d].next
    BY <1>4 DEF Others, Same
  <2>2. \A d \in Calls : calls'[d].pc = IF d = c THEN pc ELSE calls[d].pc
    BY <1>4 DEF Others
  <2>3. pc = "writing" => calls[c].next \in 1..(written + 1)
    <3>1. calls[c].kind = "revise" => calls[c].next = b + 1
      BY <1>1 DEF IInv, Stage, At, Is
    <3>2. b \in 1..written /\ written \in Nat
      BY <1>5, StateFacts DEF IInv, Revision
    <3> QED
      BY <1>3, <3>1, <3>2
  <2> QED
    BY <1>1, <1>3, <1>5, <2>1, <2>2, <2>3 DEF IInv, Stage, Numbered, At, Is
<1>14. Locked'
  BY <1>1, <1>4, <1>8, StaysOutside DEF notes
<1>15. Undisturbed'
  BY <1>1, <1>3, <1>4, <1>5, <1>6, <1>9, <1>10 DEF Undisturbed, Busy, At, Is, Same
<1>16. Newest'
  <2>1. ASSUME ~stolen', ~recreated' PROVE Newest'
    <3>1. /\ page = base /\ page' = base /\ replaced' = replaced /\ ~recreated
          /\ \A n \in Kept : n <= b
          /\ (replaced # Absent => \A n \in Kept : n <= replaced.revision \/ n = b)
      BY <1>1, <1>5, <1>9, <2>1 DEF IInv, Newest, notes
    <3>2. b \in Nat /\ \A n \in Kept' : n <= b
      BY <1>5, <1>7, <3>1, ParametersAssumption DEF Revision
    <3>3. \A d \in Calls : calls'[d].pc = "writing" =>
             d = c /\ calls'[d].next = b + 1
      <4>1. calls[c].kind = "revise" => calls[c].next = b + 1
        BY <1>1 DEF IInv, Stage, At, Is
      <4> QED
        BY <1>3, <1>4, <1>10, <2>1, <4>1 DEF Busy, Same
    <3>4. \A n \in Kept' : n \in Nat
      BY <1>5, <1>7, ParametersAssumption DEF Kept, Revision
    <3> QED
      BY <1>7, <3>1, <3>2, <3>3, <3>4 DEF Newest, At
  <2> QED
    BY <2>1 DEF Newest
<1>17. NeverStuck' /\ LastVersionKept'
  BY <1>1, <1>5, <1>6, <1>9 DEF NeverStuck, LastVersionKept
<1>18. Remembered'
  <2>1. \A d \in Calls : calls'[d].known = calls[d].known
    BY <1>4 DEF Others, Same
  <2>2. \A d \in Calls :
          calls[d].known # Absent => calls[d].known.revision \in Revision
    BY CallFields, VersionIs, ParametersAssumption
      DEF IInv, Stage, Numbered, Revision
  <2> QED
    BY <1>1, <1>6, <1>9, <2>1, <2>2 DEF IInv, Remembered, notes
<1>19. CharacterErased'
  BY <1>1, <1>5, <1>6, <1>9 DEF IInv, CharacterErased, notes
<1> QED
  BY <1>11, <1>12, <1>13, <1>14, <1>15, <1>16, <1>17, <1>18, <1>19 DEF IInv


LEMMA WritesStep ==
    ASSUME IInv, NEW c \in Calls, Writes(c)
    PROVE  IInv'
<1> DEFINE n == calls[c].next
           creates == Is(c, "create")
<1>1. /\ calls[c].pc = "writing" /\ written < MaxWrites /\ written' = written + 1
      /\ page' = [revision |-> n, mark |-> written + 1,
                  private |-> calls[c].source.private]
      /\ replaced' = IF page = Absent THEN replaced ELSE page
      /\ recreated' = (recreated \/ (creates /\ written > 0))
      /\ late' = (late \/ (page'.private /\ character = "gone"))
      /\ UNCHANGED <<history, lock, character, forgotten, stolen, faults>>
  BY DEF Writes, At
<1>2. /\ n \in 1..(written + 1) /\ n \in Revision /\ written \in Nat
      /\ written' \in 1..MaxWrites /\ n <= written'
  <2>1. n \in 1..(written + 1)
    BY <1>1 DEF IInv, Stage, At
  <2> QED
    BY <1>1, <2>1, StateFacts, ParametersAssumption DEF IInv, Revision
<1>3. /\ page' \in Version /\ page'.revision = n /\ page' # Absent
      /\ page'.private \in BOOLEAN
  <2>1. calls[c].source.private \in BOOLEAN /\ written + 1 \in 0..MaxWrites
        /\ n \in 0..MaxWrites
    BY <1>1, <1>2, CallFields, VersionIs, ParametersAssumption
      DEF IInv, Revision
  <2>2. page' \in Version /\ page'.revision = n /\ page'.private \in BOOLEAN
    BY <1>1, <2>1 DEF Version
  <2> QED
    BY <1>2, <2>2, AbsentIs
<1>4. /\ calls[c].kind \in {"create", "revise", "restore"}
      /\ calls[c].kind = "create" <=> creates
  BY <1>1 DEF IInv, Stage, At, Is
<1>5. /\ Others(c) /\ calls'[c].pc \in {"pruning", "unlocking"}
      /\ calls'[c].known \in {Absent, calls[c].known}
      /\ calls'[c].base \in {Absent, calls[c].base}
      /\ calls'[c].kind = "revise" \/ calls'[c].kind = calls[c].kind
      /\ calls'[c].source = calls[c].source \/ calls'[c].kind = "revise"
      /\ calls'[c].pc = "pruning" => calls'[c].kind \in {"revise", "restore"}
      /\ calls'[c].kind = "create" => calls'[c].known = Absent
  <2>1. CASE creates
    BY <2>1, WindIs DEF Writes, IInv
  <2>2. CASE ~creates
    <3>1. Goto(c, "pruning") /\ "pruning" \in Pc
      BY <2>2 DEF Writes, Pc
    <3> QED
      BY <1>4, <2>2, <3>1, GotoIs DEF Same, IInv
  <2> QED
    BY <2>1, <2>2
<1>6. calls[c].pc \in Inside /\ calls'[c].pc \in Inside
  BY <1>1, <1>5, InsideIs
<1>7. ~stolen' => \A d \in Calls \ {c} : calls'[d].pc \notin Busy
  BY <1>1, <1>5, <1>6, OthersRest
<1>8. TypeOK'
  <2>1. recreated' \in BOOLEAN /\ late' \in BOOLEAN
    BY <1>1, <1>3 DEF IInv, TypeOK
  <2>2. written' \in 0..MaxWrites
    BY <1>2, ParametersAssumption
  <2>3. replaced' \in Version
    BY <1>1, StateFacts DEF IInv
  <2> QED
    BY <1>1, <1>3, <1>5, <2>1, <2>2, <2>3 DEF IInv, TypeOK, Others
<1>9. ASSUME NEW v \in Version, Numbered(v)
      PROVE  v.revision <= written' /\ (v.revision = 0 => v = Absent)
  <2>1. written <= written' /\ written' \in Nat
    BY <1>1, <1>2
  <2> QED
    BY <1>2, <1>9, <2>1, StillNumbered
<1>10. Files'
  <2>1. Numbered(page)'
    BY <1>2, <1>3 DEF Numbered
  <2>2. Numbered(replaced)'
    BY <1>1, <1>9, StateFacts DEF IInv, Files, Numbered
  <2>3. \A m \in Revision :
          history[m] # Absent => history[m].revision = m /\ m <= written'
    BY <1>1, <1>2, ParametersAssumption DEF IInv, Files, Revision
  <2> QED
    BY <1>1, <2>1, <2>2, <2>3 DEF Files
<1>11. Stage'
  <2>1. \A d \in Calls : /\ calls'[d].known \in {Absent, calls[d].known}
                         /\ calls'[d].base \in {Absent, calls[d].base}
    BY <1>5 DEF Others
  <2>2. Numbered(Absent)'
    BY <1>2, AbsentIs DEF Numbered
  <2>3. \A d \in Calls : Numbered(calls[d].known)' /\ Numbered(calls[d].base)'
    <3> SUFFICES ASSUME NEW d \in Calls
                 PROVE  Numbered(calls[d].known)' /\ Numbered(calls[d].base)'
      OBVIOUS
    <3>1. calls[d].known \in Version /\ calls[d].base \in Version
          /\ Numbered(calls[d].known) /\ Numbered(calls[d].base)
      BY CallFields DEF IInv, Stage
    <3> QED
      BY <1>9, <2>1, <2>2, <3>1 DEF Numbered
  <2>4. \A d \in Calls \ {c} : calls'[d] = calls[d]
    BY <1>5 DEF Others
  <2>5. \A d \in Calls \ {c} : calls[d].pc = "writing"
                                => calls[d].next \in 1..(written' + 1)
    BY <1>1, <1>2 DEF IInv, Stage, At
  <2>6. calls'[c].kind = "restore" => calls'[c].source.revision \in Revision
    BY <1>5 DEF IInv, Stage, Is
  <2> QED
    BY <1>5, <2>3, <2>4, <2>5, <2>6 DEF IInv, Stage, At, Is
<1>12. Locked'
  BY <1>1, <1>5, <1>6, StaysOutside
<1>13. Undisturbed'
  BY <1>5, <1>7 DEF Undisturbed, Busy, At, Is
\* The first version is written to an empty guide, later ones on top.
<1>14. ASSUME ~stolen', ~recreated'
       PROVE  /\ \A m \in Kept : m \in Nat /\ m < n
              /\ creates => replaced' = Absent
              /\ ~creates => page = Absent \/ history[page.revision] = page
  <2>1. ~stolen /\ ~recreated /\ (creates => written = 0 /\ page = Absent)
    <3>1. ~recreated /\ ~(creates /\ written > 0)
      BY <1>1, <1>14
    <3>2. creates => written = 0
      BY <1>2, <3>1
    <3>3. ~stolen /\ (creates => page = Absent)
      BY <1>1, <1>14 DEF IInv, Undisturbed, At
    <3> QED
      BY <3>1, <3>2, <3>3
  <2>2. \A m \in Kept : m \in Nat /\ m >= 1 /\ m <= written
    BY ParametersAssumption DEF IInv, Files, Kept, Revision
  <2>3. CASE creates
    <3>1. Kept = {}
      BY <1>2, <2>1, <2>2, <2>3
    <3>2. replaced.revision = 0 /\ replaced = Absent
      BY <2>1, <2>3, StateFacts, VersionIs DEF IInv, Files, Numbered
    <3> QED
      BY <1>1, <2>1, <2>3, <3>1, <3>2
  <2>4. CASE ~creates
    BY <1>1, <2>1, <2>2, <2>4 DEF IInv, Newest, Undisturbed, At
  <2> QED
    BY <2>3, <2>4
<1>15. Newest'
  <2>1. ASSUME ~stolen', ~recreated' PROVE Newest'
    <3>1. \A m \in Kept : m \in Nat /\ m < n /\ m >= 1
      BY <1>14, <2>1, ParametersAssumption DEF Kept, Revision
    <3>2. n \in Nat /\ Kept' = Kept
      BY <1>1, <1>2 DEF Kept
    <3>3. replaced' # Absent => \A m \in Kept : m <= replaced'.revision
      <4>1. CASE page = Absent
        <5>1. replaced' = replaced /\ page.revision = 0
          BY <1>1, <4>1, AbsentIs
        <5>2. replaced # Absent =>
                \A m \in Kept : m <= replaced.revision \/ m = page.revision
          BY <1>1, <2>1 DEF IInv, Newest
        <5> QED
          BY <3>1, <5>1, <5>2
      <4>2. CASE page # Absent
        BY <1>1, <2>1, <4>2 DEF IInv, Newest
      <4> QED
        BY <4>1, <4>2
    <3>4. \A d \in Calls : calls'[d].pc # "writing"
      BY <1>5, <1>7, <2>1 DEF Busy
    <3> QED
      BY <1>3, <3>1, <3>2, <3>3, <3>4 DEF Newest, At
  <2> QED
    BY <2>1 DEF Newest
<1>16. NeverStuck'
  <2>1. ASSUME ~stolen', ~recreated' PROVE history[n] = Absent
    <3>1. n \notin Kept
      BY <1>14, <2>1
    <3> QED
      BY <1>2, <3>1 DEF Kept
  <2> QED
    BY <1>1, <1>3, <2>1 DEF NeverStuck
<1>17. LastVersionKept'
  <2>1. ASSUME ~stolen', ~recreated', replaced' # Absent
        PROVE  history[replaced'.revision] = replaced'
    <3>1. ~creates
      BY <1>14, <2>1
    <3>2. CASE page = Absent
      BY <1>1, <2>1, <3>2 DEF IInv, LastVersionKept
    <3>3. CASE page # Absent
      BY <1>1, <1>14, <2>1, <3>1, <3>3
    <3> QED
      BY <3>2, <3>3
  <2> QED
    BY <1>1, <2>1 DEF LastVersionKept
<1>18. Remembered'
  <2>1. \A d \in Calls : calls'[d].known \in {Absent, calls[d].known}
    BY <1>5 DEF Others
  <2>2. ~stolen /\ page # Absent => history[page.revision] = page
    BY <1>1, <1>4 DEF IInv, Undisturbed, At
  <2> QED
    BY <1>1, <2>1, <2>2 DEF IInv, Remembered
<1>19. CharacterErased'
  BY <1>1, <1>3 DEF IInv, CharacterErased
<1> QED
  BY <1>8, <1>10, <1>11, <1>12, <1>13, <1>15, <1>16, <1>17, <1>18, <1>19
    DEF IInv

\* A pruned file is older than one that stays.
LEMMA SurplusIs ==
    ASSUME NEW n \in Surplus
    PROVE  n \in Kept /\ \E m \in Kept : m > n
<1> SUFFICES ASSUME ~ \E m \in Kept : m > n
             PROVE  FALSE
  BY DEF Surplus
<1>1. {m \in Kept : m > n} = {}
  OBVIOUS
<1>2. Cardinality({m \in Kept : m > n}) = 0
  BY <1>1, FS_EmptySet
<1> QED
  BY <1>2, ParametersAssumption DEF Surplus

LEMMA PrunesStep ==
    ASSUME IInv, NEW c \in Calls, Prunes(c)
    PROVE  IInv'
<1>1. /\ calls[c].pc = "pruning"
      /\ history' = [n \in Revision |-> IF n \in Surplus THEN Absent ELSE history[n]]
      /\ forgotten' = (forgotten \/ Surplus # {})
      /\ UNCHANGED <<page, lock, character, written, replaced, recreated, late,
                     stolen, faults>>
  BY DEF Prunes, At
<1>2. /\ Others(c)
      /\ \/ calls[c].kind = "remove" /\ calls'[c].pc = "unlinking" /\ Same(c)
         \/ calls'[c].pc = "unlocking" /\ calls'[c].kind = "revise"
      /\ calls'[c].known \in {Absent, calls[c].known}
      /\ calls'[c].base \in {Absent, calls[c].base}
  <2>1. CASE calls[c].kind = "remove"
    <3>1. Goto(c, "unlinking") /\ "unlinking" \in Pc
      BY <2>1 DEF Prunes, Is, Pc
    <3>2. Others(c) /\ calls'[c].pc = "unlinking" /\ Same(c)
      BY <3>1, GotoIs DEF IInv
    <3>3. calls'[c].known = calls[c].known /\ calls'[c].base = calls[c].base
      BY <3>2 DEF Same
    <3> QED
      BY <2>1, <3>2, <3>3
  <2>2. CASE calls[c].kind # "remove"
    BY <2>2, WindIs DEF Prunes, Is, IInv
  <2> QED
    BY <2>1, <2>2
<1>3. /\ \A n \in Revision : history'[n] \in {Absent, history[n]}
      /\ \A n \in Revision \ Surplus : history'[n] = history[n]
      /\ history' \in [Revision -> Version]
      /\ Kept' \subseteq Kept
  <2>1. /\ \A n \in Revision : history'[n] \in {Absent, history[n]}
        /\ \A n \in Revision \ Surplus : history'[n] = history[n]
    BY <1>1
  <2>2. history' \in [Revision -> Version]
    BY <1>1, <2>1, AbsentIs, StateFacts DEF IInv
  <2>3. Kept' \subseteq Kept
    BY <2>1 DEF Kept
  <2> QED
    BY <2>1, <2>2, <2>3
<1>4. ~forgotten' => ~forgotten /\ history' = history
  <2>1. history = [n \in Revision |-> history[n]]
    BY DEF IInv, TypeOK
  <2> QED
    BY <1>1, <2>1
<1>5. calls[c].pc \in Inside /\ calls'[c].pc \in Inside
  BY <1>1, <1>2, InsideIs
<1>6. ~stolen' => \A d \in Calls \ {c} : calls'[d].pc \notin Busy
  BY <1>1, <1>2, <1>5, OthersRest
\* The newest file stays.
<1>7. ASSUME NEW n \in Revision, \A m \in Kept : m <= n
      PROVE  history'[n] = history[n]
  <2>1. \A m \in Kept : m \in Nat /\ n \in Nat
    BY ParametersAssumption DEF Kept, Revision
  <2>2. n \notin Surplus
    BY <1>7, <2>1, SurplusIs
  <2> QED
    BY <1>3, <2>2
<1>8. ASSUME NEW v \in Version, Numbered(v), v # Absent
      PROVE  v.revision \in Revision
  BY <1>8, VersionIs, ParametersAssumption DEF Numbered, Revision
<1>9. TypeOK'
  <2>1. forgotten' \in BOOLEAN
    BY <1>1 DEF IInv, TypeOK
  <2> QED
    BY <1>1, <1>2, <1>3, <2>1 DEF IInv, TypeOK, Others
<1>10. Files'
  BY <1>1, <1>3 DEF IInv, Files, Numbered
<1>11. Stage'
  <2>1. \A d \in Calls : Numbered(calls'[d].known) /\ Numbered(calls'[d].base)
    <3>1. \A d \in Calls : /\ calls'[d].known \in {Absent, calls[d].known}
                           /\ calls'[d].base \in {Absent, calls[d].base}
      BY <1>2 DEF Others
    <3> QED
      BY <3>1, AbsentNumbered DEF IInv, Stage
  <2>2. \A d \in Calls \ {c} : calls'[d] = calls[d]
    BY <1>2 DEF Others
  <2> QED
    BY <1>1, <1>2, <2>1, <2>2 DEF IInv, Stage, Numbered, At, Is, Same
<1>12. Locked'
  BY <1>1, <1>2, <1>5, StaysOutside
<1>13. Undisturbed'
  <2>1. ASSUME ~stolen', calls'[c].pc = "unlinking"
        PROVE  /\ page # Absent /\ calls'[c].base = page
               /\ ~recreated \/ ~forgotten' => history'[page.revision] = page
    <3>1. calls[c].kind = "remove" /\ calls'[c].base = calls[c].base /\ ~stolen
      BY <1>1, <1>2, <2>1 DEF Same
    <3>2. page # Absent /\ calls[c].base = page /\ history[page.revision] = page
      BY <1>1, <3>1 DEF IInv, Undisturbed, At, Is
    <3>3. page.revision \in Revision
      BY <1>8, <3>2, StateFacts DEF IInv, Files
    <3>4. ~recreated => history'[page.revision] = page
      BY <1>7, <3>1, <3>2, <3>3 DEF IInv, Newest
    <3>5. ~forgotten' => history'[page.revision] = page
      BY <1>4, <3>2
    <3> QED
      BY <3>1, <3>2, <3>4, <3>5
  <2> QED
    BY <1>1, <1>2, <1>6, <2>1 DEF Undisturbed, Busy, At, Is
<1>14. Newest'
  <2>1. ~stolen' => \A d \in Calls : calls'[d].pc # "writing"
    BY <1>2, <1>6 DEF Busy
  <2>2. ASSUME ~stolen', ~recreated' PROVE Newest'
    <3>1. /\ page # Absent => \A n \in Kept : n <= page.revision
          /\ replaced # Absent =>
               \A n \in Kept : n <= replaced.revision \/ n = page.revision
      BY <1>1, <2>2 DEF IInv, Newest
    <3> QED
      BY <1>1, <1>3, <2>1, <2>2, <3>1 DEF Newest, At
  <2> QED
    BY <2>2 DEF Newest
<1>15. NeverStuck'
  <2>1. page # Absent => page.revision \in Revision
    BY <1>8, StateFacts DEF IInv, Files
  <2> QED
    BY <1>1, <1>3, <2>1 DEF IInv, NeverStuck
<1>16. LastVersionKept'
  <2>1. ASSUME ~stolen, ~recreated, replaced # Absent
        PROVE  \/ history'[replaced.revision] = replaced
               \/ page # Absent /\ history'[page.revision] = page
    <3>1. /\ page # Absent => page.revision \in Revision
          /\ replaced.revision \in Revision
      BY <1>8, <2>1, StateFacts DEF IInv, Files
    <3>2. CASE page # Absent /\ history[page.revision] = page
      BY <1>7, <2>1, <3>1, <3>2 DEF IInv, Newest
    <3>3. CASE ~(page # Absent /\ history[page.revision] = page)
      <4>1. history[replaced.revision] = replaced
        BY <2>1, <3>3 DEF IInv, LastVersionKept
      <4>2. page.revision \notin Kept
        <5>1. CASE page = Absent
          BY <5>1, AbsentIs DEF Kept, Revision
        <5>2. CASE page # Absent
          BY <2>1, <3>3, <5>2 DEF IInv, NeverStuck, Kept
        <5> QED
          BY <5>1, <5>2
      <4>3. \A m \in Kept : m <= replaced.revision
        BY <2>1, <4>2 DEF IInv, Newest
      <4> QED
        BY <1>7, <3>1, <4>1, <4>3
    <3> QED
      BY <3>2, <3>3
  <2> QED
    BY <1>1, <2>1 DEF LastVersionKept
<1>17. Remembered'
  <2>1. \A d \in Calls : calls'[d].known \in {Absent, calls[d].known}
    BY <1>2 DEF Others
  <2> QED
    BY <1>1, <1>4, <2>1 DEF IInv, Remembered
<1>18. CharacterErased'
  <2>1. \A n \in Revision : history'[n].private => history[n].private
    BY <1>3, AbsentIs
  <2> QED
    BY <1>1, <2>1 DEF IInv, CharacterErased
<1> QED
  BY <1>9, <1>10, <1>11, <1>12, <1>13, <1>14, <1>15, <1>16, <1>17, <1>18
    DEF IInv


LEMMA UnlinksStep ==
    ASSUME IInv, NEW c \in Calls, Unlinks(c)
    PROVE  IInv'
<1>1. /\ calls[c].pc = "unlinking" /\ page # Absent
      /\ page' = Absent /\ replaced' = page
      /\ UNCHANGED <<history, lock, character, written, recreated, forgotten,
                     late, stolen, faults>>
  BY DEF Unlinks, At
<1>2. /\ Others(c) /\ calls'[c].pc = "unlocking" /\ calls'[c].kind = "revise"
      /\ calls'[c].known = Absent /\ calls'[c].base = Absent
  BY WindIs DEF Unlinks, IInv
<1>3. calls[c].kind = "remove"
  BY <1>1 DEF IInv, Stage, At, Is
<1>4. calls[c].pc \in Inside /\ calls'[c].pc \in Inside
  BY <1>1, <1>2, InsideIs
<1>5. ~stolen' => \A d \in Calls : calls'[d].pc \notin Busy
  <2>1. ~stolen' => \A d \in Calls \ {c} : calls'[d].pc \notin Busy
    BY <1>1, <1>2, <1>4, OthersRest
  <2> QED
    BY <1>2, <2>1 DEF Busy
<1>6. ~stolen => /\ ~recreated \/ ~forgotten => history[page.revision] = page
  BY <1>1, <1>3 DEF IInv, Undisturbed, At, Is
<1>7. TypeOK'
  BY <1>1, <1>2, AbsentIs DEF IInv, TypeOK, Others
<1>8. Files'
  <2>1. Numbered(Absent)
    BY AbsentNumbered DEF IInv
  <2> QED
    BY <1>1, <2>1 DEF IInv, Files, Numbered
<1>9. Stage'
  <2>1. Numbered(Absent)
    BY AbsentNumbered DEF IInv
  <2> QED
    BY <1>1, <1>2, <2>1 DEF IInv, Stage, Numbered, At, Is, Others
<1>10. Locked'
  BY <1>1, <1>2, <1>4, StaysOutside
<1>11. Undisturbed'
  BY <1>5, NobodyWorks
<1>12. Newest'
  <2>1. ~stolen' => \A d \in Calls : calls'[d].pc # "writing"
    BY <1>5 DEF Busy
  <2>2. ~stolen' /\ ~recreated' => \A n \in Kept : n <= page.revision
    BY <1>1 DEF IInv, Newest
  <2>3. Kept' = Kept
    BY <1>1 DEF Kept
  <2> QED
    BY <1>1, <2>1, <2>2, <2>3 DEF Newest, At
<1>13. NeverStuck' /\ LastVersionKept'
  BY <1>1, <1>6 DEF NeverStuck, LastVersionKept
<1>14. Remembered'
  <2>1. \A d \in Calls : calls'[d].known \in {Absent, calls[d].known}
    BY <1>2 DEF Others
  <2> QED
    BY <1>1, <1>6, <2>1 DEF IInv, Remembered
<1>15. CharacterErased'
  BY <1>1, AbsentIs DEF IInv, CharacterErased
<1> QED
  BY <1>7, <1>8, <1>9, <1>10, <1>11, <1>12, <1>13, <1>14, <1>15 DEF IInv

LEMMA ErasesStep ==
    ASSUME IInv, NEW c \in Calls, Erases(c)
    PROVE  IInv'
<1> DEFINE picked == calls[c].picked
<1>1. PICK gone \in SUBSET {n \in picked : File(n) # Absent} :
         /\ page' = IF 0 \in gone THEN Absent ELSE page
         /\ history' = [n \in Revision |-> IF n \in gone THEN Absent ELSE history[n]]
         /\ character' = IF gone = picked THEN "gone" ELSE character
  BY DEF Erases
<1>2. /\ calls[c].pc = "erasing" /\ replaced' = Absent
      /\ forgotten' = (forgotten \/ picked # {})
      /\ UNCHANGED <<lock, written, recreated, late, stolen, faults>>
  BY DEF Erases, At
<1>3. /\ Others(c) /\ calls'[c].pc = "unlocking" /\ calls'[c].kind = "revise"
      /\ calls'[c].known = Absent /\ calls'[c].base = Absent
  BY WindIs DEF Erases, IInv
<1>4. calls[c].pc \in Inside /\ calls'[c].pc \in Inside
  BY <1>2, <1>3, InsideIs
<1>5. ~stolen' => \A d \in Calls : calls'[d].pc \notin Busy
  <2>1. ~stolen' => \A d \in Calls \ {c} : calls'[d].pc \notin Busy
    BY <1>2, <1>3, <1>4, OthersRest
  <2> QED
    BY <1>3, <2>1 DEF Busy
<1>6. /\ page' \in {Absent, page}
      /\ \A n \in Revision : history'[n] \in {Absent, history[n]}
      /\ history' \in [Revision -> Version]
      /\ Kept' \subseteq Kept
  <2>1. /\ page' \in {Absent, page}
        /\ \A n \in Revision : history'[n] \in {Absent, history[n]}
    BY <1>1
  <2>2. history' \in [Revision -> Version]
    BY <1>1, AbsentIs, StateFacts DEF IInv
  <2>3. Kept' \subseteq Kept
    BY <2>1 DEF Kept
  <2> QED
    BY <2>1, <2>2, <2>3
<1>7. ~forgotten' => ~forgotten /\ page' = page /\ history' = history
  <2>1. history = [n \in Revision |-> history[n]]
    BY DEF IInv, TypeOK
  <2>2. ~forgotten' => ~forgotten /\ gone = {}
    BY <1>1, <1>2
  <2> QED
    BY <1>1, <2>1, <2>2
<1>8. TypeOK'
  <2>1. forgotten' \in BOOLEAN
    BY <1>2 DEF IInv, TypeOK
  <2>2. character' \in {"connected", "removal_pending", "gone"}
    BY <1>1 DEF IInv, TypeOK
  <2>3. page' \in Version /\ replaced' \in Version
    BY <1>2, <1>6, AbsentIs, StateFacts DEF IInv
  <2> QED
    BY <1>2, <1>3, <1>6, <2>1, <2>2, <2>3 DEF IInv, TypeOK, Others
<1>9. Files'
  <2>1. Numbered(Absent)
    BY AbsentNumbered DEF IInv
  <2> QED
    BY <1>2, <1>6, <2>1 DEF IInv, Files, Numbered
<1>10. Stage'
  <2>1. Numbered(Absent)
    BY AbsentNumbered DEF IInv
  <2> QED
    BY <1>2, <1>3, <2>1 DEF IInv, Stage, Numbered, At, Is, Others
<1>11. Locked'
  BY <1>2, <1>3, <1>4, StaysOutside
<1>12. Undisturbed'
  BY <1>5, NobodyWorks
<1>13. Newest'
  <2>1. ~stolen' => \A d \in Calls : calls'[d].pc # "writing"
    BY <1>5 DEF Busy
  <2>2. ~stolen' /\ ~recreated' /\ page' # Absent =>
           \A n \in Kept : n <= page'.revision
    BY <1>2, <1>6 DEF IInv, Newest
  <2> QED
    BY <1>2, <1>6, <2>1, <2>2 DEF Newest, At
<1>14. NeverStuck'
  <2>1. page # Absent => page.revision \in Revision
    BY StateFacts, VersionIs, ParametersAssumption
      DEF IInv, Files, Numbered, Revision
  <2> QED
    BY <1>2, <1>6, <2>1 DEF IInv, NeverStuck
<1>15. LastVersionKept'
  BY <1>2 DEF LastVersionKept
<1>16. Remembered'
  <2>1. \A d \in Calls : calls'[d].known \in {Absent, calls[d].known}
    BY <1>3 DEF Others
  <2> QED
    BY <1>2, <1>7, <2>1 DEF IInv, Remembered
<1>17. CharacterErased'
  <2>1. ASSUME ~late, ~stolen, character' = "gone"
        PROVE  ~page'.private /\ \A n \in Revision : ~history'[n].private
    <3>1. CASE character = "gone"
      BY <1>6, <2>1, <3>1, AbsentIs DEF IInv, CharacterErased
    <3>2. CASE character # "gone"
      <4>1. gone = {n \in 0..MaxWrites : File(n).private}
        BY <1>1, <1>2, <2>1, <3>2 DEF IInv, Undisturbed, At
      <4>2. page.private => 0 \in gone
        BY <4>1, ParametersAssumption DEF File
      <4>3. \A n \in Revision : history[n].private => n \in gone
        BY <4>1, ParametersAssumption DEF File, Revision
      <4> QED
        BY <1>1, <4>2, <4>3, AbsentIs
    <3> QED
      BY <3>1, <3>2
  <2> QED
    BY <1>2, <2>1 DEF CharacterErased
<1> QED
  BY <1>8, <1>9, <1>10, <1>11, <1>12, <1>13, <1>14, <1>15, <1>16, <1>17
    DEF IInv
---------------------------------------------------------------------------
(* The specification *)

LEMMA InitInv == Init => IInv
<1> SUFFICES ASSUME Init PROVE IInv
  OBVIOUS
<1>1. \A c \in Calls : calls[c] = Idle
  BY DEF Init
<1>2. /\ page = Absent /\ replaced = Absent /\ lock = Free /\ written = 0
      /\ ~recreated /\ ~forgotten /\ ~late /\ ~stolen /\ faults = 0
      /\ character = "connected"
      /\ history \in [Revision -> Version]
      /\ \A n \in Revision : history[n] = Absent
  BY AbsentIs DEF Init
<1>3. lock.owner = None /\ lock.owner \notin Calls
      /\ lock \in [owner: Calls \cup {None, Ghost}, old: BOOLEAN]
  BY <1>2, ParametersAssumption DEF Free
<1>4. TypeOK
  <2>1. calls \in [Calls -> CallState]
    BY IdleIs DEF Init
  <2>2. 0 \in 0..MaxFaults /\ 0 \in 0..MaxWrites
    BY ParametersAssumption
  <2>3. /\ recreated \in BOOLEAN /\ forgotten \in BOOLEAN
        /\ late \in BOOLEAN /\ stolen \in BOOLEAN
    BY DEF Init
  <2> QED
    BY <1>2, <1>3, <2>1, <2>2, <2>3, AbsentIs DEF TypeOK
<1>5. \A c \in Calls :
        /\ calls[c].pc = "idle" /\ calls[c].kind = "revise"
        /\ calls[c].known = Absent /\ calls[c].base = Absent
  BY <1>1, IdleIs
<1>6. Numbered(Absent)
  BY <1>4, AbsentNumbered
<1>7. Files /\ Stage
  BY <1>2, <1>5, <1>6 DEF Files, Stage, At, Is
<1>8. Locked
  BY <1>3, <1>5, InsideIs DEF Locked
<1>9. Undisturbed /\ Remembered
  BY <1>5 DEF Undisturbed, Remembered, At
<1>10. Newest
  BY <1>2, <1>5 DEF Newest, At
<1>11. NeverStuck /\ LastVersionKept /\ CharacterErased
  BY <1>2 DEF NeverStuck, LastVersionKept, CharacterErased
<1> QED
  BY <1>4, <1>7, <1>8, <1>9, <1>10, <1>11 DEF IInv

LEMMA StutterInv ==
    ASSUME IInv, UNCHANGED vars
    PROVE  IInv'
<1>1. /\ UNCHANGED <<page, history, lock, calls, character, written, replaced,
                     recreated, forgotten, late, stolen, faults>>
  BY DEF vars, files, notes
<1> QED
  BY <1>1 DEF IInv, TypeOK, Files, Stage, Numbered, Locked, Undisturbed, Newest,
              NeverStuck, LastVersionKept, Remembered, CharacterErased, At, Is,
              File, Kept

LEMMA NextInv == IInv /\ [Next]_vars => IInv'
<1> SUFFICES ASSUME IInv, [Next]_vars PROVE IInv'
  OBVIOUS
<1>1. CASE UNCHANGED vars
  BY <1>1, StutterInv
<1>2. CASE LockAges
  BY <1>2, LockAgesStep
<1>3. ASSUME NEW c \in Calls, Call(c) PROVE IInv'
  BY <1>3, BeginStep, BeginEraseStep, TakeLockStep, FindStaleStep,
     RemoveStaleStep, GiveUpStep, CreateReadsStep, ReviseReadsStep,
     RestoreReadsStep, EraseReadsStep, PreservesStep, RestoreNumbersStep,
     WritesStep, PrunesStep, UnlinksStep, ErasesStep, FailStep, UnlockStep,
     DieStep
    DEF Call
<1> QED
  BY <1>1, <1>2, <1>3 DEF Next

\* The strengthening: versions are numbered and named alike, the one call
\* inside the lock finds the files as it left them, and what a player has
\* seen is either there or among the revisions.
THEOREM InductiveInvariant == Spec => []IInv
<1>1. Init => IInv
  BY InitInv
<1>2. IInv /\ [Next]_vars => IInv'
  BY NextInv
<1> QED
  BY <1>1, <1>2, PTL DEF Spec

\* Every variable keeps its type.
THEOREM TypeCorrect == Spec => []TypeOK
<1>1. IInv => TypeOK
  BY DEF IInv
<1> QED
  BY <1>1, InductiveInvariant, PTL

\* maintain_eve_guide: what a player has not seen is not replaced or deleted.
THEOREM NothingIsLostUnseen == Spec => []NoBlindOverwrite
<1>1. IInv => NoBlindOverwrite
  <2> SUFFICES ASSUME IInv, ~stolen, ~forgotten, NEW c \in Calls,
                      calls[c].pc \in {"numbering", "writing", "unlinking"}
               PROVE  page.mark = calls[c].known.mark
    BY DEF NoBlindOverwrite
  <2> DEFINE known == calls[c].known
  <2>1. CASE calls[c].pc = "writing" /\ calls[c].kind = "create"
    BY <2>1 DEF IInv, Undisturbed, Stage, At, Is
  <2>2. CASE ~(calls[c].pc = "writing" /\ calls[c].kind = "create")
    <3>1. calls[c].base.revision = known.revision
      BY <2>2 DEF IInv, Stage, At, Is
    <3>2. /\ calls[c].base = page
          /\ page # Absent => history[page.revision] = page
      <4>1. CASE calls[c].pc = "unlinking"
        BY <4>1 DEF IInv, Undisturbed, Stage, At, Is
      <4>2. CASE calls[c].pc \in {"numbering", "writing"}
        <5>1. calls[c].kind # "create"
          BY <2>2, <4>2 DEF IInv, Stage, At, Is
        <5> QED
          BY <4>2, <5>1 DEF IInv, Undisturbed, At, Is
      <4> QED
        BY <4>1, <4>2
    <3>3. known = Absent \/ page = known \/ history[known.revision] = known
      BY DEF IInv, Remembered
    <3>4. page.revision = 0 => page = Absent
      BY DEF IInv, Files, Numbered
    <3>5. known.revision = 0 => known = Absent
      BY DEF IInv, Stage, Numbered
    <3> QED
      BY <3>1, <3>2, <3>3, <3>4, <3>5, AbsentIs
  <2> QED
    BY <2>1, <2>2
<1> QED
  BY <1>1, InductiveInvariant, PTL

\* #preserveRevision before #atomicWrite and unlink: whoever dies half-way,
\* the version that last left the page is not lost.
THEOREM LastVersionsAreKept == Spec => []LastVersionKept
<1>1. IInv => LastVersionKept
  BY DEF IInv
<1> QED
  BY <1>1, InductiveInvariant, PTL

\* #preserveRevision finds no foreign file under the page's number.
THEOREM PagesCanBeRevised == Spec => []NeverStuck
<1>1. IInv => NeverStuck
  BY DEF IInv
<1> QED
  BY <1>1, InductiveInvariant, PTL

\* removeCharacter: nothing of a character that is gone is left.
THEOREM CharactersAreErased == Spec => []CharacterErased
<1>1. IInv => CharacterErased
  BY DEF IInv
<1> QED
  BY <1>1, InductiveInvariant, PTL

\* A revision file never changes, it can only go.
THEOREM RevisionsAreImmutable == Spec => HistoryIsImmutable
<1> DEFINE Step == \A n \in Revision :
              history[n] # Absent => history'[n] \in {history[n], Absent}
<1>1. IInv /\ [Next]_vars => [Step]_history
  <2> SUFFICES ASSUME IInv, [Next]_vars, history' # history
               PROVE  Step
    OBVIOUS
  <2>1. ASSUME NEW c \in Calls, Preserves(c) PROVE Step
    <3>1. history' = [history EXCEPT ![calls[c].base.revision] = calls[c].base]
          /\ history[calls[c].base.revision] \in {Absent, calls[c].base}
      BY <2>1 DEF Preserves
    <3> QED
      BY <3>1 DEF IInv, TypeOK
  <2>2. ASSUME NEW c \in Calls, Prunes(c) PROVE Step
    BY <2>2 DEF Prunes
  <2>3. ASSUME NEW c \in Calls, Erases(c) PROVE Step
    BY <2>3 DEF Erases
  <2>4. ASSUME NEW c \in Calls, Call(c)
        PROVE  Preserves(c) \/ Prunes(c) \/ Erases(c)
    BY <2>4 DEF Call, Begin, BeginErase, TakeLock, FindStale, RemoveStale,
        GiveUp, CreateReads, ReviseReads, RestoreReads, EraseReads,
        RestoreNumbers, Writes, Unlinks, Fail, Unlock, Die, files
  <2>5. PICK c \in Calls : Call(c)
    BY DEF Next, LockAges, files, vars
  <2> QED
    BY <2>1, <2>2, <2>3, <2>4, <2>5
<1> QED
  BY <1>1, InductiveInvariant, PTL DEF Spec, HistoryIsImmutable

=============================================================================
