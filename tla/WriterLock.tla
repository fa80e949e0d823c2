----------------------------- MODULE WriterLock -----------------------------
(***************************************************************************)
(* The lock that admits one transaction writer (update-transaction.js).    *)
(* The lock is a directory with an owner.json inside; a second directory,  *)
(* `.reclaim', is held by whoever is removing the lock of a dead owner.    *)
(*                                                                         *)
(* A step is one file-system call or one liveness probe of a process.      *)
(* Making a directory and writing its owner file are two steps, and so are *)
(* removing the file and the directory; a process may die between any two. *)
(***************************************************************************)
EXTENDS Naturals, FiniteSets

CONSTANTS Proc,            \* process identities (pid and token)
          NoOne,           \* "no owner file"
          MaxDeaths,       \* bound: processes that die without cleaning up
          MaxFailedWrites  \* bound: owner files that cannot be written

ASSUME ProcAssumption == NoOne \notin Proc /\ {MaxDeaths, MaxFailedWrites} \subseteq Nat

VARIABLES lock,      \* <<directory exists, owner>> of the writer lock
          reclaim,   \* <<directory exists, owner>> of its reclaim directory
          at,        \* where each process is; "out": not running, "dead": crashed
          seen,      \* the owner a process last read
          retry,     \* tryReclaimWriterLock is about to return true
          failures,  \* (bound) crashes and failed writes so far
          raced      \* (history) a judged owner let go before it was probed

lockVars == <<lock, reclaim, at, seen, retry, failures, raced>>

Free == <<FALSE, NoOne>>
Unowned == <<TRUE, NoOne>>
OwnedBy(p) == <<TRUE, p>>

\* Mutant: a process that died counts as one whose state cannot be determined.
AliveUnlessEnded(p) == at[p] # "out"

\* processIsAlive
Alive(p) == at[p] \notin {"out", "dead"}

GoesOn(p, step) == at' = [at EXCEPT ![p] = step]

\* The process forgets what it read: it ends, or starts over.
Leave(p, ending) == /\ GoesOn(p, ending)
                    /\ seen' = [seen EXCEPT ![p] = NoOne]
                    /\ retry' = [retry EXCEPT ![p] = FALSE]

-----------------------------------------------------------------------------
LockInit == /\ lock = Free /\ reclaim = Free
            /\ at = [p \in Proc |-> "out"]
            /\ seen = [p \in Proc |-> NoOne]
            /\ retry = [p \in Proc |-> FALSE]
            /\ failures = [crash |-> 0, io |-> 0]
            /\ raced = FALSE

(* Someone runs `apply' or `recover'. *)
Start(p) ==
    /\ at[p] = "out"
    /\ GoesOn(p, "mkdir")
    /\ UNCHANGED <<lock, reclaim, seen, retry, failures, raced>>

-----------------------------------------------------------------------------
(* acquireWriterLock *)

MakeLock(p) ==
    /\ at[p] = "mkdir"
    /\ \/ /\ lock = Free
          /\ lock' = Unowned /\ GoesOn(p, "own")
       \/ /\ lock # Free
          /\ GoesOn(p, "lstat") /\ UNCHANGED lock
    /\ UNCHANGED <<reclaim, seen, retry, failures, raced>>

WriteOwner(p) ==
    /\ at[p] = "own"
    /\ lock' = OwnedBy(p) /\ GoesOn(p, "critical")
    /\ UNCHANGED <<reclaim, seen, retry, failures, raced>>

(* Writing the owner file failed: the directory goes again. *)
AbandonLock(p) ==
    /\ at[p] = "own" /\ failures.io < MaxFailedWrites
    /\ failures' = [failures EXCEPT !.io = @ + 1]
    /\ lock' = Free /\ Leave(p, "out")
    /\ UNCHANGED <<reclaim, raced>>

(* EEXIST: a lock that is gone by now is tried again. *)
StatLock(p) ==
    /\ at[p] = "lstat"
    /\ GoesOn(p, IF lock = Free THEN "mkdir" ELSE "read")
    /\ UNCHANGED <<lock, reclaim, seen, retry, failures, raced>>

(* No verifiable owner: UPDATE_BUSY. *)
ReadOwner(p) ==
    /\ at[p] = "read"
    /\ \/ lock[2] = NoOne /\ Leave(p, "out")
       \/ /\ lock[2] # NoOne /\ GoesOn(p, "probe")
          /\ seen' = [seen EXCEPT ![p] = lock[2]]
          /\ UNCHANGED retry
    /\ UNCHANGED <<lock, reclaim, failures, raced>>

(* A live owner: UPDATE_BUSY.  A dead one: tryReclaimWriterLock. *)
ProbeOwner(p) ==
    /\ at[p] = "probe"
    /\ \/ Alive(seen[p]) /\ Leave(p, "out")
       \/ ~Alive(seen[p]) /\ GoesOn(p, "reclaim") /\ UNCHANGED <<seen, retry>>
    /\ UNCHANGED <<lock, reclaim, failures, raced>>

-----------------------------------------------------------------------------
(* tryReclaimWriterLock *)

\* Mutant: an existing reclaim directory is used like a fresh one.
MakeReclaimAnyway(p) ==
    /\ at[p] = "reclaim"
    /\ reclaim' = Unowned /\ GoesOn(p, "reclaimOwn")
    /\ UNCHANGED <<lock, seen, retry, failures, raced>>

(* Someone else is reclaiming: UPDATE_BUSY. *)
MakeReclaim(p) ==
    /\ at[p] = "reclaim"
    /\ \/ /\ reclaim = Free
          /\ reclaim' = Unowned /\ GoesOn(p, "reclaimOwn")
          /\ UNCHANGED <<seen, retry>>
       \/ reclaim # Free /\ Leave(p, "out") /\ UNCHANGED reclaim
    /\ UNCHANGED <<lock, failures, raced>>

WriteReclaimOwner(p) ==
    /\ at[p] = "reclaimOwn"
    /\ reclaim' = OwnedBy(p) /\ GoesOn(p, "restat")
    /\ UNCHANGED <<lock, seen, retry, failures, raced>>

AbandonReclaim(p) ==
    /\ at[p] = "reclaimOwn" /\ failures.io < MaxFailedWrites
    /\ failures' = [failures EXCEPT !.io = @ + 1]
    /\ reclaim' = Free /\ Leave(p, "out")
    /\ UNCHANGED <<lock, raced>>

\* Mutant: the owner judged dead before the reclaim directory was made is not
\* looked at again.
RestatThenRename(p) ==
    /\ at[p] = "restat"
    /\ retry' = [retry EXCEPT ![p] = lock = Free]
    /\ GoesOn(p, IF lock = Free THEN "unreclaim" ELSE "rename")
    /\ UNCHANGED <<lock, reclaim, seen, failures, raced>>

(* The lock went away meanwhile: try to take it again. *)
RestatLock(p) ==
    /\ at[p] = "restat"
    /\ retry' = [retry EXCEPT ![p] = lock = Free]
    /\ GoesOn(p, IF lock = Free THEN "unreclaim" ELSE "reread")
    /\ UNCHANGED <<lock, reclaim, seen, failures, raced>>

RereadOwner(p) ==
    /\ at[p] = "reread"
    /\ seen' = [seen EXCEPT ![p] = lock[2]]
    /\ GoesOn(p, IF lock[2] = NoOne THEN "unreclaim" ELSE "reprobe")
    /\ UNCHANGED <<lock, reclaim, retry, failures, raced>>

ReprobeOwner(p) ==
    /\ at[p] = "reprobe"
    /\ GoesOn(p, IF Alive(seen[p]) THEN "unreclaim" ELSE "rename")
    /\ UNCHANGED <<lock, reclaim, seen, retry, failures, raced>>

(* The whole lock directory is renamed aside and deleted; a lock that is gone
   makes the rename throw. *)
RenameStale(p) ==
    /\ at[p] = "rename"
    /\ lock' = Free
    /\ retry' = [retry EXCEPT ![p] = lock # Free]
    /\ GoesOn(p, "unreclaim")
    /\ UNCHANGED <<reclaim, seen, failures, raced>>

(* The finally block: the owner file, if still this process's, then the directory. *)
UnlinkReclaimOwner(p) ==
    /\ at[p] = "unreclaim"
    /\ IF reclaim = OwnedBy(p)
         THEN /\ reclaim' = Unowned /\ GoesOn(p, "unreclaimDir")
              /\ UNCHANGED <<seen, retry>>
         ELSE Leave(p, IF retry[p] THEN "mkdir" ELSE "out") /\ UNCHANGED reclaim
    /\ UNCHANGED <<lock, failures, raced>>

RemoveReclaim(p) ==
    /\ at[p] = "unreclaimDir"
    /\ reclaim' = Free
    /\ Leave(p, IF retry[p] THEN "mkdir" ELSE "out")
    /\ UNCHANGED <<lock, failures, raced>>

-----------------------------------------------------------------------------
(* releaseWriterLock, when the transaction has ended *)

(* Ownership is verified; a lock that changed hands is reported. *)
BeginRelease(p) ==
    /\ at[p] = "critical"
    /\ GoesOn(p, IF lock = OwnedBy(p) THEN "unlink" ELSE "out")
    /\ UNCHANGED <<lock, reclaim, seen, retry, failures, raced>>

UnlinkOwner(p) ==
    /\ at[p] = "unlink"
    /\ lock' = <<lock[1], NoOne>>
    /\ GoesOn(p, IF lock[2] = NoOne THEN "out" ELSE "rmdir")
    /\ UNCHANGED <<reclaim, seen, retry, failures, raced>>

\* The process ends right after.  `raced': a reclaimer has read its owner record
\* and not yet asked whether it lives.
RemoveLock(p) ==
    /\ at[p] = "rmdir"
    /\ lock' = IF lock[2] = NoOne THEN Free ELSE lock
    /\ GoesOn(p, "out")
    /\ raced' = (raced \/ \E q \in Proc : at[q] = "reprobe" /\ seen[q] = p)
    /\ UNCHANGED <<reclaim, seen, retry, failures>>

-----------------------------------------------------------------------------
ProcessDies(p) ==
    /\ Alive(p) /\ failures.crash < MaxDeaths
    /\ failures' = [failures EXCEPT !.crash = @ + 1]
    /\ Leave(p, "dead")
    /\ UNCHANGED <<lock, reclaim, raced>>

Step(p) == \/ MakeLock(p) \/ WriteOwner(p) \/ StatLock(p) \/ ReadOwner(p) \/ ProbeOwner(p)
           \/ MakeReclaim(p) \/ WriteReclaimOwner(p) \/ RestatLock(p) \/ RereadOwner(p)
           \/ ReprobeOwner(p) \/ RenameStale(p) \/ UnlinkReclaimOwner(p) \/ RemoveReclaim(p)
           \/ BeginRelease(p) \/ UnlinkOwner(p) \/ RemoveLock(p)

Fault(p) == AbandonLock(p) \/ AbandonReclaim(p) \/ ProcessDies(p)

LockNext == \E p \in Proc : Start(p) \/ Step(p) \/ Fault(p)

LockSpec == LockInit /\ [][LockNext]_lockVars

(* A running process is scheduled, and the updater is invoked again and again. *)
FairLockSpec == LockSpec /\ \A p \in Proc : WF_lockVars(Step(p)) /\ WF_lockVars(Start(p))

-----------------------------------------------------------------------------
(* Properties. *)

Holders == {"critical", "unlink"}
Reclaimers == {"reclaimOwn", "restat", "reread", "reprobe", "rename", "unreclaim",
               "unreclaimDir"}
LockSteps == Holders \cup Reclaimers \cup
             {"out", "dead", "mkdir", "own", "lstat", "read", "probe", "reclaim", "rmdir"}

LockTypeOK == /\ lock \in BOOLEAN \X (Proc \cup {NoOne})
              /\ reclaim \in BOOLEAN \X (Proc \cup {NoOne})
              /\ at \in [Proc -> LockSteps]
              /\ seen \in [Proc -> Proc \cup {NoOne}]
              /\ retry \in [Proc -> BOOLEAN]
              /\ failures \in [crash : Nat, io : Nat] /\ raced \in BOOLEAN

\* windows/README: replacement is "exclusively locked".  Two processes never
\* write the installation at the same time.
MutualExclusion ==
    \A p, q \in Proc : at[p] \in Holders /\ at[q] \in Holders => p = q

\* The lock excludes, and a holder's lock stays its own, whoever dies wherever,
\* unless a writer ended between a reclaimer's read of its owner record and the
\* probe of its process.
ExclusiveUnlessRaced ==
    ~raced => /\ MutualExclusion
              /\ \A p \in Proc : at[p] \in Holders => lock = OwnedBy(p)

\* At most one process at a time removes the lock of a dead owner.
ReclaimExclusive ==
    \A p, q \in Proc : at[p] \in Reclaimers /\ at[q] \in Reclaimers => p = q

DeadOwner == lock[2] # NoOne /\ at[lock[2]] = "dead"
Orphaned(dir) == dir[1] /\ \A p \in Proc : Alive(p) => at[p] \notin Reclaimers

\* A lock left by a dead writer is taken over as long as a survivor keeps being
\* started, unless the process that was reclaiming it died as well.
DeadOwnerReclaimed == DeadOwner ~> (~DeadOwner \/ Orphaned(reclaim))
=============================================================================
