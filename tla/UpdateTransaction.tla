------------------------- MODULE UpdateTransaction -------------------------
(***************************************************************************)
(* The journaled package replacement of update-transaction.js: `apply'     *)
(* installs a prepared release file by file, `recover' completes an        *)
(* interrupted transaction forward or rolls it back from the backups.      *)
(*                                                                         *)
(* The disk (install root, prepared payloads, rollback copies, journal)    *)
(* survives a crash; the writer process, of which the writer lock (module  *)
(* WriterLock) admits one at a time, does not.  A step is one durable      *)
(* change, or one read a later step relies on.                             *)
(***************************************************************************)
EXTENDS Naturals, Sequences, FiniteSets

CONSTANTS
    Path,          \* paths relative to the install root, the manifest included
    Manifest,      \* RELEASE-MANIFEST.sha256
    Updater,       \* the platform's update script
    Rank,          \* the localeCompare order of the paths
    Release,       \* the releases that were ever built
    NoRelease,     \* "none": no release requested, no journal
    Bytes,         \* file contents a release ships
    Payload,       \* Payload[r][p]: what release r holds at path p, or Absent
    Absent,        \* no file at this path
    Corrupt,       \* contents no release ever shipped
    MaxCrashes, MaxIoFaults,              \* bounds on the environment: crashes,
    MaxInstallDamage, MaxStoreDamage, MaxDamage, \* failed calls, altered files,
    MaxFaults                               \* and all of these together

Content == Bytes \cup {Absent, Corrupt}

Shipped(r) == {p \in Path : Payload[r][p] # Absent}

ASSUME PathAssumption ==
    /\ Manifest \in Path /\ Updater \in Path /\ Manifest # Updater
    /\ IsFiniteSet(Path)
    /\ Rank \in [Path -> Nat]
    /\ \A p, q \in Path : Rank[p] = Rank[q] => p = q

ASSUME ReleaseAssumption ==
    /\ Absent \notin Bytes /\ Corrupt \notin Bytes /\ Absent # Corrupt
    /\ NoRelease \notin Release
    /\ Payload \in [Release -> [Path -> Bytes \cup {Absent}]]
    /\ \A r \in Release : Manifest \in Shipped(r)
    \* A manifest lists the hash of every file, VERSION among them.
    /\ \A r, s \in Release : Payload[r][Manifest] = Payload[s][Manifest] => r = s

ASSUME BoundAssumption ==
    {MaxCrashes, MaxIoFaults, MaxInstallDamage, MaxStoreDamage, MaxDamage, MaxFaults}
        \subseteq Nat

VARIABLES
    install,     \* contents of the install root
    stray,       \* an `.update-tmp-' file of a dead writer lies in the install root
    prepared,    \* contents of the prepared directory of each release
    backup,      \* contents of the rollback directory of the last journal
    journal,     \* transaction.json
    pc,          \* the writer's next step, "idle" when no writer runs
    want,        \* release an `apply' was asked for, NoRelease in a `recover'
    recovering,  \* the writer is inside recover()
    mode,        \* "forward" in applyJournal, "back" in rollbackJournal
    mem,         \* the writer's journal object
    idx,         \* index of the operation being applied or undone
    result,      \* how the last command ended
    damaged,     \* (history) install paths altered from outside and not rewritten
    faults       \* (bound) crashes, failed calls and damage so far

disk == <<install, stray, prepared, backup, journal>>
proc == <<pc, want, recovering, mode, mem, idx>>
vars == <<disk, proc, result, damaged, faults>>

-----------------------------------------------------------------------------
(* What the code computes from files. *)

\* parseManifest(root, true): every listed file matches, nothing unlisted.
Verified(image) == \E r \in Release : image = Payload[r]

\* parseManifest with allowMissingEntries: listed files may be missing.
Inventoried(image) ==
    \E r \in Release : /\ image[Manifest] = Payload[r][Manifest]
                       /\ \A p \in Path : image[p] \in {Payload[r][p], Absent}

\* Files the image still holds that release r no longer ships.
RetiredBy(image, r) == {p \in Path : image[p] # Absent} \ Shipped(r)

\* Copies in path order with the updater last, then removals, then the manifest.
Stage(r, p) == IF p = Manifest THEN 4 ELSE IF p \notin Shipped(r) THEN 3
               ELSE IF p = Updater THEN 2 ELSE 1

Precedes(r, p, q) == \/ Stage(r, p) < Stage(r, q)
                     \/ Stage(r, p) = Stage(r, q) /\ Rank[p] < Rank[q]

\* The operation lists of buildJournal: one operation per touched path.  Its
\* goal is the path's content in the new release, Absent standing for a removal.
Plans(r, retired) ==
    LET touched == Shipped(r) \cup retired
    IN  {s \in [1..Cardinality(touched) -> touched] :
            \A i, j \in DOMAIN s : i < j => Precedes(r, s[i], s[j])}

Blank == [p \in Path |-> Absent]

Journals == [status : {"none", "prepared", "applying"},
             target : Release \cup {NoRelease},
             ops : Seq(Path),
             done : Nat,                    \* completedOperations
             before : [Path -> Content],    \* existed and backupHash
             priorValid : BOOLEAN]          \* previousIntegrityValid

NoJournal == [status |-> "none", target |-> NoRelease, ops |-> <<>>, done |-> 0,
              before |-> Blank, priorValid |-> FALSE]

JournalExists == journal.status # "none"

Touched(j) == {j.ops[i] : i \in DOMAIN j.ops}

\* operationHasAppliedState
Applied(j, i) == install[j.ops[i]] = Payload[j.target][j.ops[i]]

\* validateJournalStructure: every rollback copy is still what was recorded.
BackupsIntact(j) ==
    \A p \in Touched(j) : j.before[p] # Absent => backup[p] = j.before[p]

\* validateJournalPrepared: the payload is intact and the removals are the
\* files of the previous release, as backed up, that the new one lacks.
PreparedIntact(j) ==
    LET removals == Touched(j) \ Shipped(j.target)
        inventory == IF j.priorValid THEN Verified(backup) ELSE Inventoried(backup)
    IN  /\ prepared[j.target] = Payload[j.target]
        /\ IF inventory THEN removals = RetiredBy(backup, j.target)
                        ELSE ~j.priorValid /\ removals = {}

\* validatedResumeIndex: the completed prefix still applied is 1..d.
ResumesAt(j, d) == /\ \A i \in 1..d : Applied(j, i)
                   /\ d < j.done => ~Applied(j, d + 1)

\* What the writer puts at the destination of the current operation.
Goal == IF mode = "forward" THEN Payload[mem.target][mem.ops[idx]]
                            ELSE mem.before[mem.ops[idx]]

Dest == mem.ops[idx]

-----------------------------------------------------------------------------
(* How a command ends. *)

Exit(outcome) ==
    /\ pc' = "idle" /\ result' = outcome
    /\ want' = NoRelease /\ recovering' = FALSE /\ mode' = "forward"
    /\ mem' = NoJournal /\ idx' = 0

\* An exception: a forward pass inside recover() is rolled back, any other
\* leaves the journal for the next recovery and reports UNSAFE_MIXED_INSTALL.
Throw ==
    \/ /\ recovering /\ mode = "forward"
       /\ pc' = "unwind"
       /\ UNCHANGED <<want, recovering, mode, mem, idx, result>>
    \/ ~(recovering /\ mode = "forward") /\ Exit("unsafe")

Goto(step) == pc' = step /\ UNCHANGED <<want, recovering, mode, mem, idx, result>>

-----------------------------------------------------------------------------
Init ==
    /\ install \in {Payload[r] : r \in Release}
    /\ stray = FALSE
    /\ prepared = [r \in Release |-> Blank]
    /\ backup = Blank
    /\ journal = NoJournal
    /\ pc = "idle" /\ want = NoRelease /\ recovering = FALSE
    /\ mode = "forward" /\ mem = NoJournal /\ idx = 0
    /\ result = "none"
    /\ damaged = {}
    /\ faults = [crash |-> 0, io |-> 0, install |-> 0, store |-> 0]

(* A release is downloaded, verified and sealed in a directory of its own; an
   existing directory is never filled again, and a pending journal comes first. *)
PrepareRelease(r) ==
    /\ pc = "idle" /\ ~JournalExists
    /\ prepared[r] = Blank
    /\ prepared' = [prepared EXCEPT ![r] = Payload[r]]
    /\ UNCHANGED <<install, stray, backup, journal, proc, result, damaged, faults>>

(* The updaters drop the prepared directory once no journal needs it. *)
RemovePrepared(r) ==
    /\ pc = "idle" /\ ~JournalExists
    /\ prepared[r] # Blank
    /\ prepared' = [prepared EXCEPT ![r] = Blank]
    /\ UNCHANGED <<install, stray, backup, journal, proc, result, damaged, faults>>

\* Mutant: applyPrepared without its check for a pending journal.
ApplyWithoutRecovery(r) ==
    /\ pc = "idle"
    /\ pc' = "inspect" /\ want' = r
    /\ UNCHANGED <<disk, recovering, mode, mem, idx, result, damaged, faults>>

(* applyPrepared: a pending transaction is recovered first. *)
ApplyPrepared(r) ==
    /\ pc = "idle"
    /\ pc' = IF JournalExists THEN "open" ELSE "inspect"
    /\ want' = r
    /\ UNCHANGED <<disk, recovering, mode, mem, idx, result, damaged, faults>>

Recover ==
    /\ pc = "idle" /\ JournalExists
    /\ pc' = "open"
    /\ UNCHANGED <<disk, want, recovering, mode, mem, idx, result, damaged, faults>>

(* recover() with no journal only verifies the installed files. *)
RecoverWithoutJournal ==
    /\ pc = "idle" /\ ~JournalExists
    /\ Exit(IF ~stray /\ Verified(install) THEN "intact" ELSE "unsafe")
    /\ UNCHANGED <<disk, damaged, faults>>

\* Mutant: recover() gives up, instead of rolling back, when the payload is bad.
OpenJournalForwardOnly ==
    /\ pc = "open"
    /\ \/ /\ BackupsIntact(journal) /\ PreparedIntact(journal)
          /\ mem' = journal /\ recovering' = TRUE
          /\ pc' = "validate"
          /\ UNCHANGED <<want, mode, idx, result>>
       \/ ~(BackupsIntact(journal) /\ PreparedIntact(journal)) /\ Exit("unsafe")
    /\ UNCHANGED <<disk, damaged, faults>>

(* recover() with a journal: read it, then choose the direction. *)
OpenJournal ==
    /\ pc = "open"
    /\ \/ /\ BackupsIntact(journal)
          /\ mem' = journal /\ recovering' = TRUE
          /\ pc' = IF PreparedIntact(journal) THEN "validate" ELSE "unwind"
          /\ UNCHANGED <<want, mode, idx, result>>
       \/ ~BackupsIntact(journal) /\ Exit("unsafe")
    /\ UNCHANGED <<disk, damaged, faults>>

-----------------------------------------------------------------------------
(* buildJournal. *)

(* Validate the payload, inventory the installation and list the operations. *)
InspectInstall ==
    /\ pc = "inspect"
    /\ \/ /\ prepared[want] = Payload[want]
          /\ LET retired == IF ~stray /\ Inventoried(install)
                            THEN RetiredBy(install, want) ELSE {}
             IN  \E plan \in Plans(want, retired) :
                    mem' = [status |-> "prepared", target |-> want, ops |-> plan,
                            done |-> 0, before |-> Blank,
                            priorValid |-> ~stray /\ Verified(install)]
          /\ pc' = "backup"
          /\ UNCHANGED <<want, recovering, mode, idx, result>>
       \/ prepared[want] # Payload[want] /\ Exit("rejected")
    /\ UNCHANGED <<disk, damaged, faults>>

(* Copy every destination that exists to the fresh rollback directory. *)
DurableBackup ==
    /\ pc = "backup"
    /\ LET copies == [p \in Path |-> IF p \in Touched(mem) THEN install[p] ELSE Absent]
       IN  backup' = copies /\ mem' = [mem EXCEPT !.before = copies]
    /\ pc' = "journal"
    /\ UNCHANGED <<install, stray, prepared, journal, want, recovering, mode, idx,
                   result, damaged, faults>>

(* The first write of transaction.json: from here on the update is recoverable. *)
WriteJournal ==
    /\ pc = "journal"
    /\ journal' = mem
    /\ Goto("validate")
    /\ UNCHANGED <<install, stray, prepared, backup, damaged, faults>>

-----------------------------------------------------------------------------
(* applyJournal. *)

(* Validate again; a completed prefix that no longer matches is rewound. *)
ValidateJournal ==
    /\ pc = "validate"
    /\ \/ /\ BackupsIntact(mem) /\ PreparedIntact(mem)
          /\ \E d \in 0..mem.done :
                /\ ResumesAt(mem, d)
                /\ mem' = [mem EXCEPT !.done = d]
                /\ journal' = IF d = mem.done THEN journal ELSE [mem EXCEPT !.done = d]
          /\ pc' = "mark"
          /\ UNCHANGED <<want, recovering, mode, idx, result>>
       \/ /\ ~(BackupsIntact(mem) /\ PreparedIntact(mem))
          /\ Throw
          /\ UNCHANGED journal
    /\ UNCHANGED <<install, stray, prepared, backup, damaged, faults>>

MarkApplying ==
    /\ pc = "mark"
    /\ mem' = [mem EXCEPT !.status = "applying"]
    /\ journal' = mem'
    /\ pc' = "step" /\ idx' = mem.done + 1
    /\ UNCHANGED <<install, stray, prepared, backup, want, recovering, mode, result,
                   damaged, faults>>

(* Copy the current operation's source beside its destination, unless the
   destination already holds it.  The temporary file's hash is checked. *)
BeginCopy ==
    /\ pc = "step" /\ idx <= Len(mem.ops) /\ Goal # Absent
    /\ \/ prepared[mem.target][Dest] # Goal /\ Throw
       \/ /\ prepared[mem.target][Dest] = Goal
          /\ Goto(IF Applied(mem, idx) THEN "record" ELSE "rename")
    /\ UNCHANGED <<disk, damaged, faults>>

RemoveRetired ==
    /\ pc = "step" /\ idx <= Len(mem.ops) /\ Goal = Absent
    /\ install' = [install EXCEPT ![Dest] = Absent]
    /\ damaged' = damaged \ {Dest}
    /\ Goto("record")
    /\ UNCHANGED <<stray, prepared, backup, journal, faults>>

(* replaceFile: the verified temporary file becomes the destination. *)
ReplaceFile ==
    /\ pc = "rename"
    /\ install' = [install EXCEPT ![Dest] = Goal]
    /\ damaged' = damaged \ {Dest}
    /\ Goto("confirm")
    /\ UNCHANGED <<stray, prepared, backup, journal, faults>>

(* copyAndVerify hashes the destination once more. *)
ConfirmCopy ==
    /\ pc = "confirm"
    /\ \/ install[Dest] # Goal /\ Throw
       \/ install[Dest] = Goal /\ mode = "forward" /\ Goto("record")
       \/ /\ install[Dest] = Goal /\ mode = "back"
          /\ pc' = "undo" /\ idx' = idx - 1
          /\ UNCHANGED <<want, recovering, mode, mem, result>>
    /\ UNCHANGED <<disk, damaged, faults>>

\* Mutant: the completed count is kept in memory, not written after each file.
RecordInMemoryOnly ==
    /\ pc = "record"
    /\ mem' = [mem EXCEPT !.done = idx]
    /\ pc' = "step" /\ idx' = idx + 1
    /\ UNCHANGED <<install, stray, prepared, backup, journal, want, recovering, mode,
                   result, damaged, faults>>

RecordOperation ==
    /\ pc = "record"
    /\ mem' = [mem EXCEPT !.done = idx]
    /\ journal' = mem'
    /\ pc' = "step" /\ idx' = idx + 1
    /\ UNCHANGED <<install, stray, prepared, backup, want, recovering, mode, result,
                   damaged, faults>>

EndOfOperations ==
    /\ pc = "step" /\ idx > Len(mem.ops)
    /\ Goto("verify")
    /\ UNCHANGED <<disk, damaged, faults>>

\* Mutant: only the manifest file itself is compared.
VerifyManifestOnly ==
    /\ pc = "verify"
    /\ LET whole == IF mode = "forward"
                    THEN install[Manifest] = Payload[mem.target][Manifest]
                    ELSE \E r \in Release : install[Manifest] = Payload[r][Manifest]
       IN  \/ whole /\ Goto("commit")
           \/ ~whole /\ Throw
    /\ UNCHANGED <<disk, damaged, faults>>

(* The whole install root is verified before the journal goes; a forward pass
   also compares VERSION. *)
VerifyInstall ==
    /\ pc = "verify"
    /\ LET whole == /\ ~stray
                    /\ IF mode = "forward" THEN install = Payload[mem.target]
                                           ELSE Verified(install)
       IN  \/ whole /\ Goto("commit")
           \/ ~whole /\ Throw
    /\ UNCHANGED <<disk, damaged, faults>>

(* removeJournal; an `apply' that only had to recover so far starts over. *)
RemoveJournal ==
    /\ pc = "commit"
    /\ journal' = NoJournal
    /\ \/ /\ recovering /\ want # NoRelease
          /\ pc' = "inspect" /\ recovering' = FALSE /\ mode' = "forward"
          /\ mem' = NoJournal /\ idx' = 0
          /\ UNCHANGED <<want, result>>
       \/ /\ ~(recovering /\ want # NoRelease)
          /\ Exit(IF mode = "forward" THEN "updated" ELSE "restored")
    /\ UNCHANGED <<install, stray, prepared, backup, damaged, faults>>

-----------------------------------------------------------------------------
(* rollbackJournal. *)

\* Mutant: the journal goes before the files are restored.
RollbackWithoutJournal ==
    /\ pc = "unwind"
    /\ \/ /\ BackupsIntact(mem)
          /\ mode' = "back" /\ pc' = "undo"
          /\ idx' = IF mem.done < Len(mem.ops) THEN mem.done + 1 ELSE Len(mem.ops)
          /\ journal' = NoJournal
          /\ UNCHANGED <<want, recovering, mem, result>>
       \/ ~BackupsIntact(mem) /\ Exit("unsafe") /\ UNCHANGED journal
    /\ UNCHANGED <<install, stray, prepared, backup, damaged, faults>>

(* Start at the operation that may have been interrupted. *)
BeginRollback ==
    /\ pc = "unwind"
    /\ \/ /\ BackupsIntact(mem)
          /\ mode' = "back" /\ pc' = "undo"
          /\ idx' = IF mem.done < Len(mem.ops) THEN mem.done + 1 ELSE Len(mem.ops)
          /\ UNCHANGED <<want, recovering, mem, result>>
       \/ ~BackupsIntact(mem) /\ Exit("unsafe")
    /\ UNCHANGED <<disk, damaged, faults>>

BeginRestore ==
    /\ pc = "undo" /\ idx > 0 /\ Goal # Absent
    /\ \/ backup[Dest] = Goal /\ Goto("rename")
       \/ backup[Dest] # Goal /\ Throw
    /\ UNCHANGED <<disk, damaged, faults>>

(* A file the transaction created is deleted. *)
RemoveAdded ==
    /\ pc = "undo" /\ idx > 0 /\ Goal = Absent
    /\ install' = [install EXCEPT ![Dest] = Absent]
    /\ damaged' = damaged \ {Dest}
    /\ idx' = idx - 1
    /\ UNCHANGED <<stray, prepared, backup, journal, pc, want, recovering, mode, mem,
                   result, faults>>

EndOfRollback ==
    /\ pc = "undo" /\ idx = 0
    /\ IF mem.priorValid THEN Goto("verify") ELSE Throw
    /\ UNCHANGED <<disk, damaged, faults>>

-----------------------------------------------------------------------------
(* The environment: failed system calls, process death, altered files. *)

MoreFaults == faults.crash + faults.io + faults.install + faults.store < MaxFaults
MoreDamage == faults.install + faults.store < MaxDamage

(* A failed read, copy, rename or unlink raises an exception.  The swallowed
   unlink of a temporary file may fail too and leave it behind. *)
IoFault ==
    /\ MoreFaults /\ faults.io < MaxIoFaults
    /\ faults' = [faults EXCEPT !.io = @ + 1]
    /\ \/ /\ pc \in {"inspect", "backup", "journal"}
          /\ Exit("rejected")
          /\ UNCHANGED stray
       \/ pc = "open" /\ Exit("unsafe") /\ UNCHANGED stray
       \/ /\ pc \in {"validate", "mark", "step", "confirm", "verify", "commit",
                     "unwind", "undo"}
          /\ IF pc = "unwind" THEN Exit("unsafe") ELSE Throw
          /\ UNCHANGED stray
       \/ /\ pc = "rename" /\ Throw
          /\ stray' \in {stray, TRUE}
       \* completedOperations changes in memory before its write fails
       \/ /\ pc = "validate" /\ recovering
          /\ BackupsIntact(mem) /\ PreparedIntact(mem)
          /\ pc' = "unwind"
          /\ \E d \in 0..mem.done : ResumesAt(mem, d) /\ mem' = [mem EXCEPT !.done = d]
          /\ UNCHANGED <<stray, want, recovering, mode, idx, result>>
       \/ /\ pc = "record" /\ UNCHANGED stray
          /\ \/ /\ recovering /\ pc' = "unwind"
                /\ mem' = [mem EXCEPT !.done = idx]
                /\ UNCHANGED <<want, recovering, mode, idx, result>>
             \/ ~recovering /\ Exit("unsafe")
    /\ UNCHANGED <<install, prepared, backup, journal, damaged>>

(* Process death or power loss at any point: between creating a temporary file
   and renaming it, the file stays in the install root. *)
Crash ==
    /\ pc # "idle" /\ MoreFaults /\ faults.crash < MaxCrashes
    /\ faults' = [faults EXCEPT !.crash = @ + 1]
    /\ stray' = (stray \/ pc = "rename")
    /\ Exit("crashed")
    /\ UNCHANGED <<install, prepared, backup, journal, damaged>>

(* An endpoint scanner, a user or a failing disk alters an installed file ... *)
DamageInstall(p, c) ==
    /\ MoreFaults /\ faults.install < MaxInstallDamage /\ MoreDamage
    /\ install[p] # c
    /\ faults' = [faults EXCEPT !.install = @ + 1]
    /\ install' = [install EXCEPT ![p] = c]
    /\ damaged' = damaged \cup {p}
    /\ UNCHANGED <<stray, prepared, backup, journal, proc, result>>

(* ... or a prepared file or a rollback copy. *)
DamageStore(p) ==
    /\ MoreFaults /\ faults.store < MaxStoreDamage /\ MoreDamage
    /\ faults' = [faults EXCEPT !.store = @ + 1]
    /\ \/ /\ backup[p] # Absent
          /\ backup' = [backup EXCEPT ![p] = Corrupt]
          /\ UNCHANGED prepared
       \/ \E r \in Release :
            /\ prepared[r][p] # Absent
            /\ prepared' = [prepared EXCEPT ![r][p] = Corrupt]
            /\ UNCHANGED backup
    /\ UNCHANGED <<install, stray, journal, proc, result, damaged>>

-----------------------------------------------------------------------------
Command == \/ \E r \in Release : PrepareRelease(r) \/ RemovePrepared(r) \/ ApplyPrepared(r)
           \/ Recover \/ RecoverWithoutJournal

Writer == \/ OpenJournal \/ InspectInstall \/ DurableBackup \/ WriteJournal
          \/ ValidateJournal \/ MarkApplying \/ BeginCopy \/ RemoveRetired
          \/ ReplaceFile \/ ConfirmCopy \/ RecordOperation \/ EndOfOperations
          \/ VerifyInstall \/ RemoveJournal
          \/ BeginRollback \/ BeginRestore \/ RemoveAdded \/ EndOfRollback

Environment == \/ IoFault \/ Crash
               \/ \E p \in Path, c \in {Absent, Corrupt} : DamageInstall(p, c)
               \/ \E p \in Path : DamageStore(p)

Next == Command \/ Writer \/ Environment

Spec == Init /\ [][Next]_vars

(* A running writer continues, and whoever starts the app runs `recover' while
   a journal is pending. *)
FairSpec == Spec /\ WF_vars(Writer \/ Recover)

-----------------------------------------------------------------------------
(* Properties. *)

Steps == {"idle", "open", "inspect", "backup", "journal", "validate", "mark", "step",
          "rename", "confirm", "record", "verify", "commit", "unwind", "undo"}

\* Every variable stays in the range the code's records declare.
TypeOK ==
    /\ install \in [Path -> Content]
    /\ stray \in BOOLEAN
    /\ prepared \in [Release -> [Path -> Content]]
    /\ backup \in [Path -> Content]
    /\ journal \in Journals
    /\ pc \in Steps
    /\ want \in Release \cup {NoRelease}
    /\ recovering \in BOOLEAN
    /\ mode \in {"forward", "back"}
    /\ mem \in Journals
    /\ idx \in Nat
    /\ result \in {"none", "updated", "restored", "intact", "rejected", "unsafe", "crashed"}
    /\ damaged \subseteq Path
    /\ faults \in [crash : Nat, io : Nat, install : Nat, store : Nat]

\* The install holds one release, except where it was altered from outside.
Whole == /\ ~stray
         /\ \E r \in Release : \A p \in Path \ damaged : install[p] = Payload[r][p]

\* With no pending journal the installation is entirely one release: whatever
\* crashed, failed or was damaged, an install left between two releases always
\* has its journal (removeJournal runs only behind parseManifest).
SettledIsWhole == ~JournalExists => Whole

Undamaged == faults.install = 0

\* Rollback starts right after the durable completed count (rollbackJournal,
\* lastPossiblyChanged).  So a destination that is not as it was lies within that
\* reach, its rollback copy is in place unless the copies were damaged, and when a
\* rollback has run to its end no such destination is left.
RollbackReaches ==
    JournalExists /\ Undamaged =>
        \A i \in DOMAIN journal.ops :
            LET p == journal.ops[i]
            IN  \/ install[p] = journal.before[p]
                \/ /\ i <= journal.done + 1
                   /\ backup[p] = journal.before[p] \/ faults.store > 0
                   /\ ~(pc \in {"verify", "commit"} /\ mode = "back")

\* Write-ahead: the writer changes a file only under a durable journal that
\* lists it and recorded what it held, with the copy to restore it in place.
WriteAhead ==
    [][\A p \in Path : install'[p] # install[p] /\ Undamaged /\ faults'.install = 0 =>
          /\ JournalExists /\ p \in Touched(journal)
          /\ install[p] \in {journal.before[p], Payload[journal.target][p]}
          /\ install'[p] \in {journal.before[p], Payload[journal.target][p]}
          /\ backup[p] = journal.before[p] \/ faults.store > 0]_vars

\* The installation as it was before the pending transaction.
PriorInstall == [p \in Path |-> IF p \in Touched(journal) THEN journal.before[p]
                                                        ELSE install[p]]

Atomic == INSTANCE AtomicInstall WITH
            files <- IF JournalExists THEN PriorInstall ELSE install,
            pending <- journal.target

\* All or nothing: hidden behind its journal, a transaction either installs the
\* whole release it was started for or leaves every file as it was; files that
\* were altered from outside are beyond this promise.
AllOrNothing ==
    Atomic!Init /\ [][Undamaged' => Atomic!Next \/ UNCHANGED Atomic!vars]_vars

\* An interrupted transaction settles once the writer is run again, unless a
\* temporary file was left in the install root, a file of it was altered or a
\* rollback copy is damaged.
PendingSettles ==
    JournalExists ~> (~JournalExists \/ stray \/ ~Undamaged \/ ~BackupsIntact(journal))

\* README: "Interrupted package replacement uses a durable journal and verified
\* recovery."  Every pending journal is eventually recovered.
InterruptedUpdateRecovers == JournalExists ~> ~JournalExists

\* README: "A failed package update restores the previous verified
\* installation."  When the rollback copies hold a verified release, a rollback
\* has run to its end and no file is damaged any more, it verifies a release.
RollbackRestores ==
    pc = "verify" /\ mode = "back" /\ Verified(mem.before) /\ damaged = {} /\ ~stray
        => Verified(install)
=============================================================================
