----------------------------- MODULE SdeInstall -----------------------------
(***************************************************************************)
(* Installing builds of EVE's static data.  `sde install` and `sde update` *)
(* download a build, import it into a staging database, rename that into   *)
(* place, make its row of sde_installations the active one, write the      *)
(* pointer file active.json, and delete all but two builds.  Servers find  *)
(* the database to read through the pointer.                               *)
(*                                                                         *)
(* Files and rows change one after the other, so an installer that fails   *)
(* or dies may leave any prefix of these steps, and installers of several  *)
(* processes may interleave: nothing keeps them apart.                     *)
(* Abstracted: what is in a build (an import ends in a complete staging    *)
(* database or fails), the staging files, which have names of their own,   *)
(* and the order of import times, which is taken to be that of activation. *)
(***************************************************************************)
EXTENDS Naturals, FiniteSets, SequencesExt

CONSTANTS
    Installers,         \* concurrent sde commands
    MaxBuild,           \* bound on the builds EVE publishes
    MaxFaults           \* bound on the installs that stop half-way

ASSUME ParametersAssumption ==
    MaxBuild \in Nat \ {0} /\ MaxFaults \in Nat

VARIABLES
    latest,             \* the build EVE's metadata names
    files,              \* builds whose sde-<build>.db exists
    recent,             \* sde_installations, the last imported first
    active,             \* its row with status 'active', or 0
    obsolete,           \* its rows written by an older importer
    pointer,            \* build named by active.json, or 0
    installers,         \* local state of each installer
    settled,            \* history: the last install ran alone and to its end
    torn,               \* history: builds deleted and then not replaced
    orphans,            \* history: builds whose file was left without a row
    raced,              \* history: two installers changed things at once
    faults              \* history: counted for the bound

table == <<recent, active, obsolete>>
notes == <<settled, torn, orphans, raced, faults>>
vars  == <<latest, files, table, pointer, installers, notes>>

Build == 1..MaxBuild
Rows  == Range(recent)

Pc == {"idle", "asking", "importing", "replacing", "renaming", "activating",
       "pointing", "listing", "unlinking", "deleting"}
Changing == Pc \ {"idle", "asking", "importing"}

InstallerState ==
    [pc: Pc, current: Build \cup {0}, build: Build \cup {0},
     surplus: Seq(Build), alone: BOOLEAN]

Idle == [pc |-> "idle", current |-> 0, build |-> 0, surplus |-> <<>>,
         alone |-> TRUE]

\* The rows have distinct builds: build_number is the primary key.
TypeOK ==
    /\ latest \in Build
    /\ files \subseteq Build
    /\ recent \in Seq(Build) /\ IsInjective(recent)
    /\ active \in Rows \cup {0}
    /\ obsolete \subseteq Rows
    /\ pointer \in Build \cup {0}
    /\ installers \in [Installers -> InstallerState]
    /\ settled \in BOOLEAN /\ raced \in BOOLEAN
    /\ torn \subseteq Build /\ orphans \subseteq Build
    /\ faults \in 0..MaxFaults

\* Nothing is installed, or one build by the present or an older importer.
Init ==
    /\ latest = 1
    /\ \E b \in {0, 1} :
         /\ files = {b} \ {0}
         /\ recent = IF b = 0 THEN <<>> ELSE <<b>>
         /\ active = b
         /\ pointer = b
    /\ obsolete \in SUBSET Rows
    /\ installers = [i \in Installers |-> Idle]
    /\ settled = TRUE
    /\ torn = {} /\ orphans = {}
    /\ raced = FALSE
    /\ faults = 0

---------------------------------------------------------------------------
At(i, pc)   == installers[i].pc = pc
Goto(i, pc) == installers' = [installers EXCEPT ![i].pc = pc]
Leave(i)    == installers' = [installers EXCEPT ![i] = Idle]
New(i)      == installers[i].build

\* status: 'available', and of which build; otherwise 'unavailable' or
\* 'invalid', which install does not tell apart.
Status == IF active # 0 /\ pointer = active /\ active \in files
          THEN active ELSE 0

Start(i) ==
    /\ At(i, "idle")
    /\ installers' = [installers EXCEPT ![i] =
                         [Idle EXCEPT !.pc = "asking", !.current = Status]]
    /\ UNCHANGED <<latest, files, table, pointer, notes>>

\* The metadata has arrived: the build it names is current,
AlreadyCurrent(i) ==
    /\ At(i, "asking")
    /\ installers[i].current = latest
    /\ active # 0 /\ active \notin obsolete
    /\ Leave(i)
    /\ UNCHANGED <<latest, files, table, pointer, notes>>

\* or is to be downloaded and imported.
Import(i) ==
    /\ At(i, "asking")
    /\ installers[i].current # latest \/ active = 0 \/ active \in obsolete
    /\ installers' = [installers EXCEPT ![i].pc = "importing",
                                        ![i].build = latest]
    /\ UNCHANGED <<latest, files, table, pointer, notes>>

Others(i) == {j \in Installers \ {i} : installers[j].pc \in Changing}

\* importArchive has committed and checked the staging database.
Imported(i) ==
    /\ At(i, "importing")
    /\ installers' = [j \in Installers |->
         IF j = i
         THEN [installers[i] EXCEPT !.pc = "replacing",
                                    !.alone = Others(i) = {}]
         ELSE [installers[j] EXCEPT !.alone = FALSE]]
    /\ raced' = (raced \/ Others(i) # {})
    /\ settled' = FALSE
    /\ UNCHANGED <<latest, files, table, pointer, torn, orphans, faults>>

\* Mutant: room is made by deleting the builds installed before.
Replace_All(i) ==
    /\ At(i, "replacing")
    /\ files' = {}
    /\ Goto(i, "renaming")
    /\ UNCHANGED <<latest, table, pointer, notes>>

\* An older database of the same build is deleted first,
Replace(i) ==
    /\ At(i, "replacing")
    /\ files' = files \ {New(i)}
    /\ Goto(i, "renaming")
    /\ UNCHANGED <<latest, table, pointer, notes>>

\* then the new one is renamed into place.
Rename(i) ==
    /\ At(i, "renaming")
    /\ files' = files \cup {New(i)}
    /\ torn' = torn \ {New(i)}
    /\ Goto(i, "activating")
    /\ UNCHANGED <<latest, table, pointer, settled, orphans, raced, faults>>

\* Mutant: a build imported again gets a second row.
Activate_Inserts(i) ==
    /\ At(i, "activating")
    /\ recent' = <<New(i)>> \o recent
    /\ active' = New(i)
    /\ obsolete' = obsolete \ {New(i)}
    /\ orphans' = orphans \ {New(i)}
    /\ Goto(i, "pointing")
    /\ UNCHANGED <<latest, files, pointer, settled, torn, raced, faults>>

\* One transaction retires the active row and inserts or updates the new one.
Activate(i) ==
    /\ At(i, "activating")
    /\ recent' = <<New(i)>> \o RemoveFirst(recent, New(i))
    /\ active' = New(i)
    /\ obsolete' = obsolete \ {New(i)}
    /\ orphans' = orphans \ {New(i)}
    /\ Goto(i, "pointing")
    /\ UNCHANGED <<latest, files, pointer, settled, torn, raced, faults>>

\* #writePointer
Point(i) ==
    /\ At(i, "pointing")
    /\ pointer' = New(i)
    /\ Goto(i, "listing")
    /\ UNCHANGED <<latest, files, table, notes>>

\* Mutant: the two oldest builds are retained.
Surplus_Oldest == SubSeq(recent, 1, Len(recent) - 2)

\* #retainTwoBuilds lists the rows and keeps the first two.
Surplus == SubSeq(recent, 3, Len(recent))

List(i) ==
    /\ At(i, "listing")
    /\ installers' = [installers EXCEPT ![i].pc = "unlinking",
                                        ![i].surplus = Surplus]
    /\ UNCHANGED <<latest, files, table, pointer, notes>>

\* safeUnlink says nothing when it cannot delete the file.
Unlink(i) ==
    LET b == Head(installers[i].surplus) IN
    /\ At(i, "unlinking") /\ installers[i].surplus # <<>>
    /\ files' \in {files, files \ {b}}
    /\ Goto(i, "deleting")
    /\ UNCHANGED <<latest, table, pointer, notes>>

DeleteRow(i) ==
    LET b == Head(installers[i].surplus) IN
    /\ At(i, "deleting")
    /\ recent' = RemoveFirst(recent, b)
    /\ active' = IF active = b THEN 0 ELSE active
    /\ obsolete' = obsolete \ {b}
    /\ installers' = [installers EXCEPT ![i].pc = "unlinking",
                                        ![i].surplus = Tail(@)]
    /\ orphans' = orphans \cup ({b} \cap files)
    /\ UNCHANGED <<latest, files, pointer, settled, torn, raced, faults>>

Done(i) ==
    /\ At(i, "unlinking") /\ installers[i].surplus = <<>>
    /\ settled' = installers[i].alone
    /\ Leave(i)
    /\ UNCHANGED <<latest, files, table, pointer, torn, orphans, raced,
                   faults>>

\* The install fails, is interrupted, or its process dies.
Stop(i) ==
    /\ ~At(i, "idle")
    /\ faults < MaxFaults
    /\ faults' = faults + 1
    /\ torn' = IF At(i, "renaming") THEN torn \cup {New(i)} ELSE torn
    /\ orphans' = IF At(i, "activating") /\ New(i) \notin Rows
                  THEN orphans \cup {New(i)} ELSE orphans
    /\ Leave(i)
    /\ UNCHANGED <<latest, files, table, pointer, settled, raced>>

---------------------------------------------------------------------------
\* EVE publishes a new build.
Publish ==
    /\ latest < MaxBuild
    /\ latest' = latest + 1
    /\ UNCHANGED <<files, table, pointer, installers, notes>>

Install(i) ==
    \/ Start(i) \/ AlreadyCurrent(i) \/ Import(i) \/ Imported(i)
    \/ Replace(i) \/ Rename(i) \/ Activate(i) \/ Point(i)
    \/ List(i) \/ Unlink(i) \/ DeleteRow(i) \/ Done(i) \/ Stop(i)

Next ==
    \/ \E i \in Installers : Install(i)
    \/ Publish

Spec == Init /\ [][Next]_vars

---------------------------------------------------------------------------
(* Properties *)

\* A build is away only while it is being replaced, or when that was stopped
\* half-way.
Replaced(b) ==
    b \in torn \/ \E i \in Installers : At(i, "renaming") /\ New(i) = b

\* The database the pointer names exists, whatever installs failed before,
\* unless it is itself being replaced or two installers met.
PointerServes ==
    pointer # 0 /\ ~raced => pointer \in files \/ Replaced(pointer)

\* The two builds imported last are there, so that a server which has read
\* the pointer still finds its database after the next install.
LastTwoServe ==
    ~raced => \A n \in 1..2 \cap DOMAIN recent :
                recent[n] \in files \/ Replaced(recent[n])

\* Readers are served: through the pointer, or with the database the pointer
\* named before the last install.
ReadersAreServed == PointerServes /\ LastTwoServe

\* Whatever was left behind by earlier installs, one that ran alone and to
\* its end leaves row, pointer and file in agreement.
Agreement ==
    settled => active = pointer /\ (active # 0 => active \in files)

\* And it leaves at most two builds, but for files whose deletion failed or
\* whose row was never written.
TwoBuildsKept ==
    settled => Len(recent) <= 2 /\ files \subseteq Rows \cup orphans

\* An install that ran alone and to its end repairs what earlier ones left.
InstallEndsWell == Agreement /\ TwoBuildsKept

=============================================================================
