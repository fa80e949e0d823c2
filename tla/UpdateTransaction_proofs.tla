----------------------- MODULE UpdateTransaction_proofs -----------------------
(***************************************************************************)
(* Proofs about update-transaction.js: about the lock that admits one       *)
(* writer, for any number of processes, crashes and failed writes, and      *)
(* about what the writer it admits does, for any set of paths and releases  *)
(* and any number of crashes, failed calls and altered files.               *)
(***************************************************************************)
EXTENDS UpdateTransaction, WriterLock, FiniteSetTheorems, SequenceTheorems, TLAPS

-----------------------------------------------------------------------------
(* The writer lock excludes, unless the race that `raced' records happened;  *)
(* and at most one process at a time reclaims a dead owner's lock.           *)
(*                                                                           *)
(* The inductive invariant says who can own each directory at each step.     *)
(* The heart of it is Condemned: once a reclaimer has found the owner dead,  *)
(* the lock directory exists and no process is between making and removing   *)
(* it, so nobody can change it before the rename.                            *)

\* Processes between making the lock directory and having removed it.
Inside == {"own", "critical", "unlink", "rmdir"}

\* The lock belongs to nobody who is still running.
Condemned == lock[1] /\ \A p \in Proc : at[p] \notin Inside

ReclaimInv ==
    /\ ReclaimExclusive
    /\ \A p \in Proc : at[p] \in Reclaimers =>
          reclaim = IF at[p] \in {"reclaimOwn", "unreclaimDir"} THEN Unowned ELSE OwnedBy(p)

OneInside == \A p, q \in Proc : at[p] \in Inside /\ at[q] \in Inside => p = q

InsideOwns == \A p \in Proc :
    /\ at[p] \in Holders => lock = OwnedBy(p)
    /\ at[p] \in {"own", "rmdir"} => lock = Unowned

OwnerKnown == /\ lock[2] # NoOne => lock[1] /\ at[lock[2]] \in Holders \cup {"dead"}
              /\ lock[1] = FALSE => lock = Free

Judged == \A q \in Proc :
    /\ at[q] = "reprobe" => /\ seen[q] \in Proc
                            /\ \/ at[seen[q]] \in Holders \cup {"rmdir"}
                               \/ Condemned
    /\ at[q] = "rename" => Condemned

Excluding == OneInside /\ InsideOwns /\ OwnerKnown /\ Judged

LockIInv == LockTypeOK /\ ReclaimInv /\ (~raced => Excluding)

-----------------------------------------------------------------------------
\* The three states of a lock directory: absent, without and with an owner.
LEMMA Directories ==
    /\ Free \in BOOLEAN \X (Proc \cup {NoOne}) /\ Unowned \in BOOLEAN \X (Proc \cup {NoOne})
    /\ \A p \in Proc : OwnedBy(p) \in BOOLEAN \X (Proc \cup {NoOne})
    /\ Free[1] = FALSE /\ Free[2] = NoOne /\ Unowned[1] = TRUE /\ Unowned[2] = NoOne
    /\ Free # Unowned
    /\ \A p \in Proc : /\ OwnedBy(p)[1] = TRUE /\ OwnedBy(p)[2] = p /\ p # NoOne
                      /\ OwnedBy(p) # Free /\ OwnedBy(p) # Unowned
BY ProcAssumption DEF Free, Unowned, OwnedBy

\* The steps of one process, as the proofs below split them.
LEMMA StepCases ==
    ASSUME NEW p \in Proc
    PROVE  Start(p) \/ Step(p) \/ Fault(p) <=>
             \/ Start(p)
             \/ MakeLock(p)
             \/ WriteOwner(p)
             \/ StatLock(p)
             \/ ReadOwner(p)
             \/ ProbeOwner(p)
             \/ MakeReclaim(p)
             \/ WriteReclaimOwner(p)
             \/ RestatLock(p)
             \/ RereadOwner(p)
             \/ ReprobeOwner(p)
             \/ RenameStale(p)
             \/ UnlinkReclaimOwner(p)
             \/ RemoveReclaim(p)
             \/ BeginRelease(p)
             \/ UnlinkOwner(p)
             \/ RemoveLock(p)
             \/ AbandonLock(p)
             \/ AbandonReclaim(p)
             \/ ProcessDies(p)
BY DEF Step, Fault

\* Every step keeps the variables in their types.
LEMMA LockTypeStep ==
    ASSUME LockTypeOK, NEW p \in Proc, Start(p) \/ Step(p) \/ Fault(p)
    PROVE  LockTypeOK'
<1>1. CASE Start(p)
  BY <1>1, Directories DEF Start, GoesOn, LockTypeOK, LockSteps, Holders, Reclaimers
<1>2. CASE MakeLock(p)
  BY <1>2, Directories DEF MakeLock, GoesOn, LockTypeOK, LockSteps, Holders, Reclaimers
<1>3. CASE WriteOwner(p)
  BY <1>3, Directories DEF WriteOwner, GoesOn, LockTypeOK, LockSteps, Holders, Reclaimers
<1>4. CASE StatLock(p)
  BY <1>4, Directories DEF StatLock, GoesOn, LockTypeOK, LockSteps, Holders, Reclaimers
<1>5. CASE ReadOwner(p)
  BY <1>5, Directories DEF ReadOwner, GoesOn, Leave, LockTypeOK, LockSteps, Holders, Reclaimers
<1>6. CASE ProbeOwner(p)
  <2>1. CASE Leave(p, "out")
    BY <1>6, <2>1, Directories DEF ProbeOwner, Leave, GoesOn, LockTypeOK, LockSteps, Holders,
       Reclaimers
  <2>2. CASE GoesOn(p, "reclaim") /\ UNCHANGED <<seen, retry>>
    BY <1>6, <2>2, Directories DEF ProbeOwner, GoesOn, LockTypeOK, LockSteps, Holders, Reclaimers
  <2>3. QED
    BY <1>6, <2>1, <2>2 DEF ProbeOwner
<1>7. CASE MakeReclaim(p)
  <2>1. CASE reclaim = Free
    BY <1>7, <2>1, Directories DEF MakeReclaim, Leave, GoesOn, LockTypeOK, LockSteps, Holders,
       Reclaimers
  <2>2. CASE reclaim # Free
    <3>1. Leave(p, "out") /\ UNCHANGED <<lock, reclaim, failures, raced>>
      BY <1>7, <2>2 DEF MakeReclaim
    <3>2. QED
      BY <3>1 DEF Leave, GoesOn, LockTypeOK, LockSteps, Holders, Reclaimers
  <2>3. QED
    BY <2>1, <2>2
<1>8. CASE WriteReclaimOwner(p)
  BY <1>8, Directories DEF WriteReclaimOwner, GoesOn, LockTypeOK, LockSteps, Holders, Reclaimers
<1>9. CASE RestatLock(p)
  BY <1>9, Directories DEF RestatLock, GoesOn, LockTypeOK, LockSteps, Holders, Reclaimers
<1>10. CASE RereadOwner(p)
  BY <1>10, Directories DEF RereadOwner, GoesOn, LockTypeOK, LockSteps, Holders, Reclaimers
<1>11. CASE ReprobeOwner(p)
  BY <1>11, Directories DEF ReprobeOwner, GoesOn, LockTypeOK, LockSteps, Holders, Reclaimers
<1>12. CASE RenameStale(p)
  BY <1>12, Directories DEF RenameStale, GoesOn, LockTypeOK, LockSteps, Holders, Reclaimers
<1>13. CASE UnlinkReclaimOwner(p)
  BY <1>13, ZenonT(40), Directories DEF UnlinkReclaimOwner, GoesOn, Leave, LockTypeOK, LockSteps,
     Holders, Reclaimers
<1>14. CASE RemoveReclaim(p)
  BY <1>14, Directories DEF RemoveReclaim, GoesOn, Leave, LockTypeOK, LockSteps, Holders, Reclaimers
<1>15. CASE BeginRelease(p)
  BY <1>15, Directories DEF BeginRelease, GoesOn, LockTypeOK, LockSteps, Holders, Reclaimers
<1>16. CASE UnlinkOwner(p)
  BY <1>16, Directories DEF UnlinkOwner, GoesOn, LockTypeOK, LockSteps, Holders, Reclaimers
<1>17. CASE RemoveLock(p)
  BY <1>17, Directories DEF RemoveLock, GoesOn, LockTypeOK, LockSteps, Holders, Reclaimers
<1>18. CASE AbandonLock(p)
  BY <1>18, Directories DEF AbandonLock, GoesOn, Leave, LockTypeOK, LockSteps, Holders, Reclaimers
<1>19. CASE AbandonReclaim(p)
  BY <1>19, Directories DEF AbandonReclaim, GoesOn, Leave, LockTypeOK, LockSteps, Holders,
     Reclaimers
<1>20. CASE ProcessDies(p)
  <2>1. failures' \in [crash : Nat, io : Nat]
    BY <1>20 DEF ProcessDies, LockTypeOK
  <2>2. at' \in [Proc -> LockSteps] /\ seen' \in [Proc -> Proc \cup {NoOne}] /\ retry' \in [Proc -> BOOLEAN]
    BY <1>20 DEF ProcessDies, Leave, GoesOn, LockTypeOK, LockSteps, Holders, Reclaimers
  <2>3. QED
    BY <1>20, <2>1, <2>2 DEF ProcessDies, LockTypeOK
<1>21. QED
  BY StepCases, <1>1, <1>2, <1>3, <1>4, <1>5, <1>6, <1>7, <1>8, <1>9, <1>10, <1>11, <1>12, <1>13,
     <1>14, <1>15, <1>16, <1>17, <1>18, <1>19, <1>20

\* Every step keeps the reclaim directory exclusive.
LEMMA ReclaimStep ==
    ASSUME LockTypeOK, ReclaimInv, NEW p \in Proc, Start(p) \/ Step(p) \/ Fault(p)
    PROVE  ReclaimInv'
<1>1. CASE Start(p)
  BY <1>1, Directories DEF Start, GoesOn, LockTypeOK, ReclaimInv, ReclaimExclusive, Reclaimers,
     Holders
<1>2. CASE MakeLock(p)
  BY <1>2, SMTT(30), Directories DEF MakeLock, GoesOn, LockTypeOK, ReclaimInv, ReclaimExclusive,
     Reclaimers, Holders
<1>3. CASE WriteOwner(p)
  BY <1>3, Directories DEF WriteOwner, GoesOn, LockTypeOK, ReclaimInv, ReclaimExclusive,
     Reclaimers, Holders
<1>4. CASE StatLock(p)
  BY <1>4, Directories DEF StatLock, GoesOn, LockTypeOK, ReclaimInv, ReclaimExclusive, Reclaimers,
     Holders
<1>5. CASE ReadOwner(p)
  <2>1. CASE Leave(p, "out")
    BY <1>5, <2>1, Directories DEF ReadOwner, Leave, GoesOn, LockTypeOK, ReclaimInv,
       ReclaimExclusive, Reclaimers, Holders
  <2>2. CASE GoesOn(p, "probe")
    BY <1>5, <2>2, Directories DEF ReadOwner, GoesOn, LockTypeOK, ReclaimInv, ReclaimExclusive,
       Reclaimers, Holders
  <2>3. QED
    BY <1>5, <2>1, <2>2 DEF ReadOwner
<1>6. CASE ProbeOwner(p)
  BY <1>6, SMTT(30), Directories DEF ProbeOwner, GoesOn, Leave, LockTypeOK, ReclaimInv,
     ReclaimExclusive, Reclaimers, Holders
<1>7. CASE MakeReclaim(p)
  BY <1>7, SMTT(30), Directories DEF MakeReclaim, GoesOn, Leave, LockTypeOK, ReclaimInv,
     ReclaimExclusive, Reclaimers, Holders
<1>8. CASE WriteReclaimOwner(p)
  BY <1>8, Directories DEF WriteReclaimOwner, GoesOn, LockTypeOK, ReclaimInv, ReclaimExclusive,
     Reclaimers, Holders
<1>9. CASE RestatLock(p)
  BY <1>9, Directories DEF RestatLock, GoesOn, LockTypeOK, ReclaimInv, ReclaimExclusive,
     Reclaimers, Holders
<1>10. CASE RereadOwner(p)
  BY <1>10, Directories DEF RereadOwner, GoesOn, LockTypeOK, ReclaimInv, ReclaimExclusive,
     Reclaimers, Holders
<1>11. CASE ReprobeOwner(p)
  BY <1>11, Directories DEF ReprobeOwner, GoesOn, LockTypeOK, ReclaimInv, ReclaimExclusive,
     Reclaimers, Holders
<1>12. CASE RenameStale(p)
  BY <1>12, Directories DEF RenameStale, GoesOn, LockTypeOK, ReclaimInv, ReclaimExclusive,
     Reclaimers, Holders
<1>13. CASE UnlinkReclaimOwner(p)
  BY <1>13, Directories DEF UnlinkReclaimOwner, GoesOn, Leave, LockTypeOK, ReclaimInv,
     ReclaimExclusive, Reclaimers, Holders
<1>14. CASE RemoveReclaim(p)
  BY <1>14, Directories DEF RemoveReclaim, GoesOn, Leave, LockTypeOK, ReclaimInv,
     ReclaimExclusive, Reclaimers, Holders
<1>15. CASE BeginRelease(p)
  BY <1>15, Directories DEF BeginRelease, GoesOn, LockTypeOK, ReclaimInv, ReclaimExclusive,
     Reclaimers, Holders
<1>16. CASE UnlinkOwner(p)
  BY <1>16, Directories DEF UnlinkOwner, GoesOn, LockTypeOK, ReclaimInv, ReclaimExclusive,
     Reclaimers, Holders
<1>17. CASE RemoveLock(p)
  BY <1>17, Directories DEF RemoveLock, GoesOn, LockTypeOK, ReclaimInv, ReclaimExclusive,
     Reclaimers, Holders
<1>18. CASE AbandonLock(p)
  BY <1>18, Directories DEF AbandonLock, GoesOn, Leave, LockTypeOK, ReclaimInv, ReclaimExclusive,
     Reclaimers, Holders
<1>19. CASE AbandonReclaim(p)
  BY <1>19, Directories DEF AbandonReclaim, GoesOn, Leave, LockTypeOK, ReclaimInv,
     ReclaimExclusive, Reclaimers, Holders
<1>20. CASE ProcessDies(p)
  BY <1>20, Directories DEF ProcessDies, GoesOn, Leave, LockTypeOK, ReclaimInv, ReclaimExclusive,
     Reclaimers, Holders
<1>21. QED
  BY StepCases, <1>1, <1>2, <1>3, <1>4, <1>5, <1>6, <1>7, <1>8, <1>9, <1>10, <1>11, <1>12, <1>13,
     <1>14, <1>15, <1>16, <1>17, <1>18, <1>19, <1>20

\* Every step that is not the race keeps the lock with its one owner.
LEMMA LockStep ==
    ASSUME LockTypeOK, ReclaimInv, Excluding, ~raced', NEW p \in Proc,
    Start(p) \/ Step(p) \/ Fault(p)
    PROVE  Excluding'
<1>1. CASE Start(p)
  BY <1>1, Directories DEF Start, GoesOn, LockTypeOK, ReclaimInv, ReclaimExclusive, Reclaimers,
     Holders,
     Excluding, OneInside, InsideOwns, OwnerKnown, Judged, Condemned, Inside, Alive
<1>2. CASE MakeLock(p)
  BY <1>2, Directories DEF MakeLock, GoesOn, LockTypeOK, ReclaimInv, ReclaimExclusive, Reclaimers,
     Holders,
     Excluding, OneInside, InsideOwns, OwnerKnown, Judged, Condemned, Inside, Alive
<1>3. CASE WriteOwner(p)
  BY <1>3, Directories DEF WriteOwner, GoesOn, LockTypeOK, ReclaimInv, ReclaimExclusive,
     Reclaimers, Holders,
     Excluding, OneInside, InsideOwns, OwnerKnown, Judged, Condemned, Inside, Alive
<1>4. CASE StatLock(p)
  BY <1>4, Directories DEF StatLock, GoesOn, LockTypeOK, ReclaimInv, ReclaimExclusive, Reclaimers,
     Holders,
     Excluding, OneInside, InsideOwns, OwnerKnown, Judged, Condemned, Inside, Alive
<1>5. CASE ReadOwner(p)
  BY <1>5, SMTT(30), Directories DEF ReadOwner, GoesOn, Leave, LockTypeOK, ReclaimInv,
     ReclaimExclusive, Reclaimers, Holders,
     Excluding, OneInside, InsideOwns, OwnerKnown, Judged, Condemned, Inside, Alive
<1>6. CASE ProbeOwner(p)
  <2>1. CASE Leave(p, "out")
    BY <1>6, <2>1, Directories DEF ProbeOwner, Leave, GoesOn, LockTypeOK, ReclaimInv,
       ReclaimExclusive, Reclaimers, Holders,
       Excluding, OneInside, InsideOwns, OwnerKnown, Judged, Condemned, Inside, Alive
  <2>2. CASE GoesOn(p, "reclaim") /\ UNCHANGED <<seen, retry>>
    BY <1>6, <2>2, Directories DEF ProbeOwner, GoesOn, LockTypeOK, Reclaimers, Holders,
       Excluding, OneInside, InsideOwns, OwnerKnown, Judged, Condemned, Inside, Alive
  <2>3. QED
    BY <1>6, <2>1, <2>2 DEF ProbeOwner
<1>7. CASE MakeReclaim(p)
  BY <1>7, SMTT(30), Directories DEF MakeReclaim, GoesOn, Leave, LockTypeOK, ReclaimInv,
     ReclaimExclusive, Reclaimers, Holders,
     Excluding, OneInside, InsideOwns, OwnerKnown, Judged, Condemned, Inside, Alive
<1>8. CASE WriteReclaimOwner(p)
  BY <1>8, Directories DEF WriteReclaimOwner, GoesOn, LockTypeOK, ReclaimInv, ReclaimExclusive,
     Reclaimers, Holders,
     Excluding, OneInside, InsideOwns, OwnerKnown, Judged, Condemned, Inside, Alive
<1>9. CASE RestatLock(p)
  BY <1>9, Directories DEF RestatLock, GoesOn, LockTypeOK, ReclaimInv, ReclaimExclusive,
     Reclaimers, Holders,
     Excluding, OneInside, InsideOwns, OwnerKnown, Judged, Condemned, Inside, Alive
<1>10. CASE RereadOwner(p)
  BY <1>10, Directories DEF RereadOwner, GoesOn, LockTypeOK, ReclaimInv, ReclaimExclusive,
     Reclaimers, Holders,
     Excluding, OneInside, InsideOwns, OwnerKnown, Judged, Condemned, Inside, Alive
<1>11. CASE ReprobeOwner(p)
  BY <1>11, Directories DEF ReprobeOwner, GoesOn, LockTypeOK, ReclaimInv, ReclaimExclusive,
     Reclaimers, Holders,
     Excluding, OneInside, InsideOwns, OwnerKnown, Judged, Condemned, Inside, Alive
<1>12. CASE RenameStale(p)
  <2>1. Condemned /\ \A q \in Proc : at[q] \in Reclaimers => q = p
    BY <1>12 DEF RenameStale, Excluding, Judged, ReclaimInv, ReclaimExclusive, Reclaimers, Holders
  <2>2. lock' = Free /\ at' = [at EXCEPT ![p] = "unreclaim"] /\ seen' = seen
    BY <1>12 DEF RenameStale, GoesOn
  <2>3. \A q \in Proc : at'[q] \notin Inside \cup {"reprobe", "rename"}
    BY <2>1, <2>2 DEF LockTypeOK, Condemned, Inside, Reclaimers
  <2>4. QED
    BY <2>2, <2>3, Directories DEF Excluding, OneInside, InsideOwns, OwnerKnown, Judged, Inside,
       Holders
<1>13. CASE UnlinkReclaimOwner(p)
  BY <1>13, SMTT(30), Directories DEF UnlinkReclaimOwner, GoesOn, Leave, LockTypeOK, ReclaimInv,
     ReclaimExclusive, Reclaimers, Holders,
     Excluding, OneInside, InsideOwns, OwnerKnown, Judged, Condemned, Inside, Alive
<1>14. CASE RemoveReclaim(p)
  BY <1>14, Directories DEF RemoveReclaim, GoesOn, Leave, LockTypeOK, ReclaimInv,
     ReclaimExclusive, Reclaimers, Holders,
     Excluding, OneInside, InsideOwns, OwnerKnown, Judged, Condemned, Inside, Alive
<1>15. CASE BeginRelease(p)
  BY <1>15, Directories DEF BeginRelease, GoesOn, LockTypeOK, ReclaimInv, ReclaimExclusive,
     Reclaimers, Holders,
     Excluding, OneInside, InsideOwns, OwnerKnown, Judged, Condemned, Inside, Alive
<1>16. CASE UnlinkOwner(p)
  BY <1>16, Directories DEF UnlinkOwner, GoesOn, LockTypeOK, ReclaimInv, ReclaimExclusive,
     Reclaimers, Holders,
     Excluding, OneInside, InsideOwns, OwnerKnown, Judged, Condemned, Inside, Alive
<1>17. CASE RemoveLock(p)
  BY <1>17, Directories DEF RemoveLock, GoesOn, LockTypeOK, ReclaimInv, ReclaimExclusive,
     Reclaimers, Holders,
     Excluding, OneInside, InsideOwns, OwnerKnown, Judged, Condemned, Inside, Alive
<1>18. CASE AbandonLock(p)
  BY <1>18, Directories DEF AbandonLock, GoesOn, Leave, LockTypeOK, ReclaimInv, ReclaimExclusive,
     Reclaimers, Holders,
     Excluding, OneInside, InsideOwns, OwnerKnown, Judged, Condemned, Inside, Alive
<1>19. CASE AbandonReclaim(p)
  BY <1>19, Directories DEF AbandonReclaim, GoesOn, Leave, LockTypeOK, ReclaimInv,
     ReclaimExclusive, Reclaimers, Holders,
     Excluding, OneInside, InsideOwns, OwnerKnown, Judged, Condemned, Inside, Alive
<1>20. CASE ProcessDies(p)
  BY <1>20, Directories DEF ProcessDies, GoesOn, Leave, LockTypeOK, ReclaimInv, ReclaimExclusive,
     Reclaimers, Holders,
     Excluding, OneInside, InsideOwns, OwnerKnown, Judged, Condemned, Inside, Alive
<1>21. QED
  BY StepCases, <1>1, <1>2, <1>3, <1>4, <1>5, <1>6, <1>7, <1>8, <1>9, <1>10, <1>11, <1>12, <1>13,
     <1>14, <1>15, <1>16, <1>17, <1>18, <1>19, <1>20

-----------------------------------------------------------------------------
\* The invariant holds in every reachable state, for any set of processes.
THEOREM LockInvariance == LockSpec => []LockIInv
<1>1. LockInit => LockIInv
  <2>1. SUFFICES ASSUME LockInit PROVE LockIInv
    OBVIOUS
  <2>2. LockTypeOK
    BY <2>1, Directories DEF LockInit, LockTypeOK, LockSteps
  <2>3. ReclaimInv
    BY <2>1 DEF LockInit, ReclaimInv, ReclaimExclusive, Reclaimers
  <2>4. Excluding
    BY <2>1, Directories DEF LockInit, Excluding, OneInside, InsideOwns, OwnerKnown, Judged,
       Inside, Holders
  <2>5. QED
    BY <2>2, <2>3, <2>4 DEF LockIInv
<1>2. LockIInv /\ [LockNext]_lockVars => LockIInv'
  <2>1. SUFFICES ASSUME LockIInv, [LockNext]_lockVars PROVE LockIInv'
    OBVIOUS
  <2>2. CASE UNCHANGED lockVars
    BY <2>1, <2>2 DEF LockIInv, lockVars, LockTypeOK, ReclaimInv, ReclaimExclusive, Excluding,
       OneInside, InsideOwns,
       OwnerKnown, Judged, Condemned
  <2>3. CASE LockNext
    <3>1. PICK p \in Proc : Start(p) \/ Step(p) \/ Fault(p)
      BY <2>3 DEF LockNext
    <3>2. LockTypeOK' /\ ReclaimInv'
      BY <2>1, <3>1, LockTypeStep, ReclaimStep DEF LockIInv
    <3>3. ~raced' => ~raced
      BY <3>1, StepCases DEF Start, MakeLock, WriteOwner, StatLock, ReadOwner, ProbeOwner,
         MakeReclaim,
         WriteReclaimOwner, RestatLock, RereadOwner, ReprobeOwner, RenameStale, UnlinkReclaimOwner,
         RemoveReclaim, BeginRelease, UnlinkOwner, RemoveLock, AbandonLock, AbandonReclaim,
         ProcessDies
    <3>4. ~raced' => Excluding'
      BY <2>1, <3>1, <3>3, LockStep DEF LockIInv
    <3>5. QED
      BY <3>2, <3>4 DEF LockIInv
  <2>4. QED
    BY <2>1, <2>2, <2>3
<1>3. QED
  BY <1>1, <1>2, PTL DEF LockSpec

\* Every variable keeps its type.
THEOREM LockTypeCorrect == LockSpec => []LockTypeOK
<1>1. LockIInv => LockTypeOK
  BY DEF LockIInv
<1>2. QED
  BY <1>1, LockInvariance, PTL

\* At most one process reclaims a dead owner's lock (tryReclaimWriterLock).
THEOREM OneReclaimer == LockSpec => []ReclaimExclusive
<1>1. LockIInv => ReclaimExclusive
  BY DEF LockIInv, ReclaimInv
<1>2. QED
  BY <1>1, LockInvariance, PTL

\* The lock admits one writer at a time, and stays its own, unless the race of
\* tryReclaimWriterLock happened: it is the only way to two writers.
THEOREM LockExcludes == LockSpec => []ExclusiveUnlessRaced
<1>1. LockIInv => ExclusiveUnlessRaced
  BY DEF LockIInv, Excluding, OneInside, InsideOwns, Inside, Holders, ExclusiveUnlessRaced,
     MutualExclusion
<1>2. QED
  BY <1>1, LockInvariance, PTL

-----------------------------------------------------------------------------
(* The transaction. *)

\* Steps at which the writer works under a journal on disk ...
UnderJournal == Steps \ {"idle", "inspect", "backup", "journal"}
\* ... and at which its journal object is filled in.
HasPlan == Steps \ {"idle", "open", "inspect"}

\* What control being at a step implies.
Control ==
    /\ pc \in UnderJournal => JournalExists
    /\ pc \in HasPlan => mem.status # "none" /\ mem.target \in Release
    /\ JournalExists => journal.target \in Release
    /\ pc = "inspect" => want \in Release
    /\ pc = "step" => idx > 0
    /\ pc \in {"rename", "confirm", "record"} => idx \in 1..Len(mem.ops)
    /\ pc = "undo" => idx \in 0..Len(mem.ops)

\* Nothing but the verification lets the writer reach the removal of the journal.
Guarded == /\ ~JournalExists => Whole
           /\ pc = "commit" => Whole

IInv == TypeOK /\ Control /\ Guarded

-----------------------------------------------------------------------------
(* Operation lists only name paths. *)
LEMMA PlansType ==
    ASSUME NEW r \in Release, NEW retired \in SUBSET Path, NEW s \in Plans(r, retired)
    PROVE  s \in Seq(Path)
<1>1. Shipped(r) \cup retired \subseteq Path
  BY DEF Shipped
<1>2. PICK n \in Nat : s \in [1..n -> Path]
  <2>1. Cardinality(Shipped(r) \cup retired) \in Nat
    BY <1>1, PathAssumption, FS_Subset, FS_CardinalityType
  <2>2. s \in [1..Cardinality(Shipped(r) \cup retired) -> Path]
    BY <1>1 DEF Plans
  <2> QED
    BY <2>1, <2>2
<1> QED
  BY <1>2, SeqDef

(* Shipped contents, the empty directory and the empty journal have their types. *)
LEMMA ReleaseTypes ==
    /\ \A r \in Release, p \in Path : Payload[r][p] \in Content
    /\ \A r \in Release : Payload[r] \in [Path -> Content]
    /\ Blank \in [Path -> Content]
    /\ NoJournal \in Journals
<1>1. \A r \in Release : Payload[r] \in [Path -> Bytes \cup {Absent}]
  BY ReleaseAssumption
<1>2. Blank \in [Path -> Content]
  BY DEF Blank, Content
<1>3. <<>> \in Seq(Path)
  OBVIOUS
<1> QED
  BY <1>1, <1>2, <1>3 DEF Content, NoJournal, Journals

(* Advancing the count or the status keeps a journal a journal. *)
LEMMA JournalAdvance ==
    ASSUME NEW j \in Journals, NEW d \in Nat
    PROVE  [j EXCEPT !.done = d] \in Journals
BY DEF Journals

(* Marking a journal `applying' keeps it a journal; its operations name paths. *)
LEMMA JournalUpdate ==
    ASSUME NEW j \in Journals
    PROVE  /\ [j EXCEPT !.status = "applying"] \in Journals
           /\ j.done \in Nat /\ j.ops \in Seq(Path) /\ Len(j.ops) \in Nat
           /\ \A i \in 1..Len(j.ops) : j.ops[i] \in Path
BY DEF Journals

Outcomes == {"none", "updated", "restored", "intact", "rejected", "unsafe", "crashed"}

\* The writer's variables are typed.
ProcType == /\ pc \in Steps /\ want \in Release \cup {NoRelease}
            /\ recovering \in BOOLEAN /\ mode \in {"forward", "back"}
            /\ mem \in Journals /\ idx \in Nat /\ result \in Outcomes

(* The three ways a step ends keep the writer's variables typed. *)
LEMMA EndsType ==
    /\ \A outcome \in Outcomes : Exit(outcome) => ProcType'
    /\ ProcType /\ Throw => ProcType'
    /\ \A step \in Steps : ProcType /\ Goto(step) => ProcType'
<1>1. ASSUME NEW outcome \in Outcomes, Exit(outcome) PROVE ProcType'
  <2>1. pc' \in Steps /\ result' \in Outcomes /\ mem' \in Journals
    BY <1>1, ReleaseTypes DEF Exit, Steps
  <2>2. /\ want' \in Release \cup {NoRelease} /\ recovering' \in BOOLEAN
        /\ mode' \in {"forward", "back"} /\ idx' \in Nat
    BY <1>1 DEF Exit
  <2> QED
    BY <2>1, <2>2 DEF ProcType
<1>2. ProcType /\ Throw => ProcType'
  BY <1>1 DEF Throw, ProcType, Steps, Outcomes
<1>3. \A step \in Steps : ProcType /\ Goto(step) => ProcType'
  BY DEF Goto, ProcType
<1> QED
  BY <1>1, <1>2, <1>3

(* TypeOK is inductive relative to Control. *)
LEMMA TypeStep == TypeOK /\ Control /\ [Next]_vars => TypeOK'
<1> SUFFICES ASSUME TypeOK, Control, [Next]_vars PROVE TypeOK'
  OBVIOUS
<1> USE ReleaseTypes
<1>0. ProcType
  BY DEF TypeOK, ProcType, Outcomes
<1>1. ASSUME NEW r \in Release, PrepareRelease(r) PROVE TypeOK'
  BY <1>1 DEF PrepareRelease, proc, TypeOK
<1>2. ASSUME NEW r \in Release, RemovePrepared(r) PROVE TypeOK'
  BY <1>2 DEF RemovePrepared, proc, TypeOK
<1>3. ASSUME NEW r \in Release, ApplyPrepared(r) PROVE TypeOK'
  BY <1>3 DEF ApplyPrepared, disk, TypeOK, Steps
<1>4. CASE Recover
  BY <1>4 DEF Recover, disk, TypeOK, Steps
<1>5. CASE RecoverWithoutJournal
  BY <1>5, EndsType DEF RecoverWithoutJournal, disk, TypeOK, ProcType, Outcomes
<1>6. CASE OpenJournal
  BY <1>6, <1>0, EndsType DEF OpenJournal, disk, TypeOK, ProcType, Outcomes, Steps
<1>7. CASE InspectInstall
  <2>1. CASE prepared[want] # Payload[want] /\ Exit("rejected")
    BY <1>7, <2>1, EndsType DEF InspectInstall, disk, TypeOK, ProcType, Outcomes
  <2>2. CASE ~(prepared[want] # Payload[want] /\ Exit("rejected"))
    <3>1. want \in Release
      BY <1>7 DEF InspectInstall, Control
    <3>2. PICK retired \in SUBSET Path : \E plan \in Plans(want, retired) :
            mem' = [status |-> "prepared", target |-> want, ops |-> plan, done |-> 0,
                    before |-> Blank, priorValid |-> ~stray /\ Verified(install)]
      BY <1>7, <2>2 DEF InspectInstall, RetiredBy
    <3>3. mem' \in Journals
      BY <3>1, <3>2, PlansType DEF Journals
    <3> QED
      BY <1>7, <2>2, <3>3 DEF InspectInstall, disk, TypeOK, Steps
  <2> QED
    BY <2>1, <2>2
<1>8. CASE DurableBackup
  BY <1>8, ZenonT(40) DEF DurableBackup, TypeOK, Journals, Content, Steps
<1>9. CASE WriteJournal
  BY <1>9 DEF WriteJournal, Goto, TypeOK, Steps
<1>10. CASE ValidateJournal
  <2>1. CASE Throw /\ UNCHANGED journal
    BY <1>10, <2>1, <1>0, EndsType DEF ValidateJournal, TypeOK, ProcType, Outcomes
  <2>2. CASE ~(Throw /\ UNCHANGED journal)
    <3>1. PICK d \in 0..mem.done :
            /\ mem' = [mem EXCEPT !.done = d]
            /\ journal' = IF d = mem.done THEN journal ELSE [mem EXCEPT !.done = d]
      BY <1>10, <2>2 DEF ValidateJournal
    <3>2. [mem EXCEPT !.done = d] \in Journals
      <4>1. mem \in Journals /\ d \in Nat
        BY <1>0, JournalUpdate DEF ProcType
      <4> QED
        BY <4>1, JournalAdvance
    <3> QED
      BY <1>10, <2>2, <3>1, <3>2 DEF ValidateJournal, TypeOK, Steps
  <2> QED
    BY <2>1, <2>2
<1>11. CASE MarkApplying
  <2>1. mem' \in Journals /\ idx' \in Nat
    BY <1>11, JournalUpdate DEF MarkApplying, TypeOK
  <2> QED
    BY <1>11, <2>1 DEF MarkApplying, TypeOK, Steps
<1>12. CASE BeginCopy
  BY <1>12, <1>0, EndsType DEF BeginCopy, disk, TypeOK, ProcType, Outcomes, Steps
<1>13. CASE RemoveRetired
  BY <1>13, <1>0, EndsType DEF RemoveRetired, TypeOK, ProcType, Outcomes, Steps, Content
<1>14. CASE ReplaceFile
  BY <1>14, <1>0, EndsType DEF ReplaceFile, TypeOK, ProcType, Outcomes, Steps, Control, Goal, Dest, HasPlan, Journals
<1>15. CASE ConfirmCopy
  BY <1>15, <1>0, EndsType DEF ConfirmCopy, disk, TypeOK, ProcType, Outcomes, Steps, Control
<1>16. CASE RecordOperation
  <2>1. mem' \in Journals /\ idx' \in Nat
    <3>1. mem \in Journals /\ idx \in Nat
      BY DEF TypeOK
    <3>2. [mem EXCEPT !.done = idx] \in Journals
      BY <3>1, JournalAdvance
    <3> QED
      BY <1>16, <3>1, <3>2 DEF RecordOperation
  <2> QED
    BY <1>16, <2>1 DEF RecordOperation, TypeOK, Steps
<1>17. CASE EndOfOperations
  BY <1>17, <1>0, EndsType DEF EndOfOperations, disk, TypeOK, ProcType, Outcomes, Steps
<1>18. CASE VerifyInstall
  BY <1>18, <1>0, EndsType DEF VerifyInstall, disk, TypeOK, ProcType, Outcomes, Steps
<1>19. CASE RemoveJournal
  <2>1. ProcType'
    <3>1. CASE recovering /\ want # NoRelease
      <4>1. pc' \in Steps /\ mem' \in Journals /\ idx' \in Nat
        BY <1>19, <3>1 DEF RemoveJournal, Steps
      <4> QED
        BY <1>19, <1>0, <3>1, <4>1 DEF RemoveJournal, ProcType
    <3>2. CASE ~(recovering /\ want # NoRelease)
      BY <1>19, <3>2, EndsType DEF RemoveJournal, Outcomes
    <3> QED
      BY <3>1, <3>2
  <2> QED
    BY <1>19, <2>1 DEF RemoveJournal, TypeOK, ProcType, Outcomes
<1>20. CASE BeginRollback
  BY <1>20, SMTT(30), <1>0, EndsType DEF BeginRollback, disk, TypeOK, ProcType, Outcomes, Steps, Journals
<1>21. CASE BeginRestore
  BY <1>21, <1>0, EndsType DEF BeginRestore, disk, TypeOK, ProcType, Outcomes, Steps
<1>22. CASE RemoveAdded
  <2>1. install' \in [Path -> Content] /\ damaged' \subseteq Path
    BY <1>22 DEF RemoveAdded, TypeOK, Content
  <2>2. idx' \in Nat
    BY <1>22 DEF RemoveAdded, TypeOK
  <2> QED
    BY <1>22, <2>1, <2>2 DEF RemoveAdded, TypeOK
<1>23. CASE EndOfRollback
  BY <1>23, <1>0, EndsType DEF EndOfRollback, disk, TypeOK, ProcType, Outcomes, Steps
<1>24. CASE IoFault
  <2>1. faults' \in [crash : Nat, io : Nat, install : Nat, store : Nat]
    BY <1>24 DEF IoFault, TypeOK
  <2>2. stray' \in BOOLEAN
    BY <1>24 DEF IoFault, TypeOK
  <2>3. ProcType'
    <3>1. CASE Exit("rejected") \/ Exit("unsafe") \/ Throw
      BY <3>1, <1>0, EndsType DEF Outcomes
    <3>2. CASE ~(Exit("rejected") \/ Exit("unsafe") \/ Throw)
      <4>1. PICK d \in Nat : mem' = [mem EXCEPT !.done = d]
        <5>1. mem.done \in Nat /\ idx \in Nat
          BY <1>0, JournalUpdate DEF ProcType
        <5>2. CASE pc = "record"
          BY <1>24, <3>2, <5>1, <5>2 DEF IoFault
        <5>3. CASE pc = "validate"
          <6>1. PICK i \in 0..mem.done : mem' = [mem EXCEPT !.done = i]
            BY <1>24, <3>2, <5>3 DEF IoFault
          <6> QED
            BY <5>1, <6>1
        <5> QED
          BY <1>24, <3>2, <5>2, <5>3 DEF IoFault
      <4>2. mem' \in Journals
        BY <4>1, <1>0, JournalAdvance DEF ProcType
      <4> QED
        BY <1>24, <1>0, <3>2, <4>2 DEF IoFault, ProcType, Steps
    <3> QED
      BY <3>1, <3>2
  <2> QED
    BY <1>24, <2>1, <2>2, <2>3 DEF IoFault, TypeOK, ProcType, Outcomes
<1>25. CASE Crash
  BY <1>25, EndsType DEF Crash, TypeOK, ProcType, Outcomes
<1>26. ASSUME NEW p \in Path, NEW c \in {Absent, Corrupt}, DamageInstall(p, c) PROVE TypeOK'
  BY <1>26 DEF DamageInstall, proc, TypeOK, Content
<1>27. ASSUME NEW p \in Path, DamageStore(p) PROVE TypeOK'
  <2>1. backup' \in [Path -> Content]
    BY <1>27 DEF DamageStore, TypeOK, Content
  <2>2. prepared' \in [Release -> [Path -> Content]]
    <3>1. CASE UNCHANGED prepared
      BY <3>1 DEF TypeOK
    <3>2. ASSUME NEW r \in Release, prepared' = [prepared EXCEPT ![r][p] = Corrupt]
          PROVE  prepared' \in [Release -> [Path -> Content]]
      <4>1. [prepared[r] EXCEPT ![p] = Corrupt] \in [Path -> Content]
        BY DEF TypeOK, Content
      <4> QED
        BY <3>2, <4>1 DEF TypeOK
    <3> QED
      BY <1>27, <3>1, <3>2 DEF DamageStore
  <2>3. faults' \in [crash : Nat, io : Nat, install : Nat, store : Nat]
    BY <1>27 DEF DamageStore, TypeOK
  <2> QED
    BY <1>27, <2>1, <2>2, <2>3 DEF DamageStore, proc, TypeOK
<1>28. CASE UNCHANGED vars
  BY <1>28 DEF vars, disk, proc, TypeOK
<1> QED
  BY <1>1, <1>2, <1>3, <1>4, <1>5, <1>6, <1>7, <1>8, <1>9, <1>10, <1>11, <1>12, <1>13, <1>14,
     <1>15, <1>16, <1>17, <1>18, <1>19, <1>20, <1>21, <1>22, <1>23, <1>24, <1>25, <1>26, <1>27, <1>28
     DEF Next, Command, Writer, Environment

(* Control is inductive relative to TypeOK. *)
LEMMA ControlStep == TypeOK /\ Control /\ [Next]_vars => Control'
<1> SUFFICES ASSUME TypeOK, Control, [Next]_vars PROVE Control'
  OBVIOUS
<1> USE DEF Control, UnderJournal, HasPlan, Steps, JournalExists
<1>0. /\ mem \in Journals /\ journal \in Journals /\ Len(mem.ops) \in Nat
      /\ mem.done \in Nat /\ idx \in Nat /\ NoJournal.status = "none"
      /\ want \in Release \cup {NoRelease}
  BY JournalUpdate DEF TypeOK, NoJournal
<1>1. ASSUME NEW r \in Release, PrepareRelease(r) PROVE Control'
  BY <1>1 DEF PrepareRelease, proc
<1>2. ASSUME NEW r \in Release, RemovePrepared(r) PROVE Control'
  BY <1>2 DEF RemovePrepared, proc
<1>3. ASSUME NEW r \in Release, ApplyPrepared(r) PROVE Control'
  BY <1>3 DEF ApplyPrepared, disk
<1>4. CASE Recover
  BY <1>0, <1>4 DEF Recover, disk
<1>5. CASE RecoverWithoutJournal
  BY <1>0, <1>5 DEF RecoverWithoutJournal, Exit, disk
<1>6. CASE OpenJournal
  BY <1>0, <1>6 DEF OpenJournal, Exit, disk
<1>7. CASE InspectInstall
  BY <1>0, <1>7 DEF InspectInstall, Exit, disk
<1>8. CASE DurableBackup
  BY <1>0, <1>8 DEF DurableBackup, Journals
<1>9. CASE WriteJournal
  BY <1>0, <1>9 DEF WriteJournal, Goto
<1>10. CASE ValidateJournal
  BY <1>0, <1>10 DEF ValidateJournal, Throw, Exit, Journals
<1>11. CASE MarkApplying
  BY <1>0, <1>11 DEF MarkApplying, Journals
<1>12. CASE BeginCopy
  BY <1>0, <1>12 DEF BeginCopy, Throw, Exit, Goto, disk
<1>13. CASE RemoveRetired
  BY <1>0, <1>13 DEF RemoveRetired, Goto
<1>14. CASE ReplaceFile
  BY <1>0, <1>14 DEF ReplaceFile, Goto
<1>15. CASE ConfirmCopy
  BY <1>0, <1>15 DEF ConfirmCopy, Throw, Exit, Goto, disk
<1>16. CASE RecordOperation
  BY <1>0, <1>16 DEF RecordOperation, Journals
<1>17. CASE EndOfOperations
  BY <1>0, <1>17 DEF EndOfOperations, Goto, disk
<1>18. CASE VerifyInstall
  BY <1>0, <1>18 DEF VerifyInstall, Throw, Exit, Goto, disk
<1>19. CASE RemoveJournal
  BY <1>0, <1>19 DEF RemoveJournal, Exit
<1>20. CASE BeginRollback
  BY <1>0, <1>20 DEF BeginRollback, Exit, disk
<1>21. CASE BeginRestore
  BY <1>0, <1>21 DEF BeginRestore, Throw, Exit, Goto, disk
<1>22. CASE RemoveAdded
  BY <1>0, <1>22 DEF RemoveAdded
<1>23. CASE EndOfRollback
  BY <1>0, <1>23 DEF EndOfRollback, Throw, Exit, Goto, disk
<1>24. CASE IoFault
  <2>1. CASE Exit("rejected") \/ Exit("unsafe") \/ Throw
    BY <1>0, <1>24, <2>1 DEF IoFault, Throw, Exit
  <2>2. CASE ~(Exit("rejected") \/ Exit("unsafe") \/ Throw)
    <3>1. \E d : mem' = [mem EXCEPT !.done = d]
      BY <1>24, <2>2 DEF IoFault
    <3>2. mem'.status = mem.status /\ mem'.target = mem.target
      BY <3>1, <1>0 DEF Journals
    <3>3. pc \in {"validate", "record"} /\ pc' = "unwind" /\ UNCHANGED <<journal, want>>
      BY <1>24, <2>2 DEF IoFault
    <3> QED
      BY <3>2, <3>3
  <2> QED
    BY <2>1, <2>2
<1>25. CASE Crash
  BY <1>0, <1>25 DEF Crash, Exit
<1>26. ASSUME NEW p \in Path, NEW c \in {Absent, Corrupt}, DamageInstall(p, c) PROVE Control'
  BY <1>26 DEF DamageInstall, proc
<1>27. ASSUME NEW p \in Path, DamageStore(p) PROVE Control'
  BY <1>27 DEF DamageStore, proc
<1>28. CASE UNCHANGED vars
  BY <1>28 DEF vars, disk, proc
<1> QED
  BY <1>1, <1>2, <1>3, <1>4, <1>5, <1>6, <1>7, <1>8, <1>9, <1>10, <1>11, <1>12, <1>13, <1>14, <1>15, <1>16, <1>17, <1>18, <1>19, <1>20, <1>21, <1>22, <1>23, <1>24, <1>25, <1>26, <1>27, <1>28
     DEF Next, Command, Writer, Environment

(* Before the journal goes, and once it is gone, the installation is whole. *)
LEMMA GuardedStep == IInv /\ [Next]_vars => Guarded'
<1> SUFFICES ASSUME IInv, [Next]_vars PROVE Guarded'
  OBVIOUS
<1> USE DEF Guarded, JournalExists
<1>0. /\ pc \in UnderJournal => JournalExists
      /\ pc \in HasPlan => mem.status # "none" /\ mem.target \in Release
      /\ Guarded /\ damaged \subseteq Path /\ install \in [Path -> Content]
      /\ mem \in Journals
  BY DEF IInv, Control, TypeOK
\* A step that leaves the installed files alone can only add to the history of
\* damage: it cannot make a whole installation partial.
<1>1. ASSUME UNCHANGED <<install, stray>>, damaged \subseteq damaged', Whole PROVE Whole'
  BY <1>1 DEF Whole
<1>2. ASSUME NEW r \in Release, PrepareRelease(r) \/ RemovePrepared(r) PROVE Guarded'
  BY <1>0, <1>1, <1>2 DEF PrepareRelease, RemovePrepared, proc
<1>3. ASSUME NEW r \in Release, ApplyPrepared(r) PROVE Guarded'
  BY <1>0, <1>1, <1>3 DEF ApplyPrepared, disk
<1>4. CASE Recover
  BY <1>0, <1>1, <1>4 DEF Recover, disk
<1>5. CASE RecoverWithoutJournal
  BY <1>0, <1>1, <1>5 DEF RecoverWithoutJournal, Exit, disk
<1>6. CASE OpenJournal
  BY <1>0, <1>1, <1>6 DEF OpenJournal, Exit, disk
<1>7. CASE InspectInstall
  BY <1>0, <1>1, <1>7 DEF InspectInstall, Exit, disk
<1>8. CASE DurableBackup
  BY <1>0, <1>1, <1>8 DEF DurableBackup
<1>9. CASE WriteJournal
  BY <1>0, <1>9 DEF WriteJournal, Goto, HasPlan, Steps
<1>10. CASE ValidateJournal
  <2>1. mem.status # "none" /\ JournalExists
    BY <1>0, <1>10 DEF ValidateJournal, HasPlan, UnderJournal, Steps
  <2>2. \A d : [mem EXCEPT !.done = d].status # "none"
    BY <1>0, <2>1 DEF Journals
  <2> QED
    BY <1>10, <2>1, <2>2 DEF ValidateJournal, Throw, Exit
<1>11. CASE MarkApplying
  <2>1. [mem EXCEPT !.status = "applying"].status # "none"
    BY <1>0 DEF Journals
  <2> QED
    BY <1>11, <2>1 DEF MarkApplying
<1>12. CASE BeginCopy
  BY <1>0, <1>1, <1>12 DEF BeginCopy, Throw, Exit, Goto, disk
<1>13. CASE RemoveRetired
  BY <1>0, <1>13 DEF RemoveRetired, Goto, UnderJournal, Steps
<1>14. CASE ReplaceFile
  BY <1>0, <1>14 DEF ReplaceFile, Goto, UnderJournal, Steps
<1>15. CASE ConfirmCopy
  BY <1>0, <1>1, <1>15 DEF ConfirmCopy, Throw, Exit, Goto, disk
<1>16. CASE RecordOperation
  <2>1. mem.status # "none"
    BY <1>0, <1>16 DEF RecordOperation, HasPlan, Steps
  <2>2. [mem EXCEPT !.done = idx].status # "none"
    BY <1>0, <2>1 DEF Journals
  <2> QED
    BY <1>16, <2>2 DEF RecordOperation
<1>17. CASE EndOfOperations
  BY <1>0, <1>1, <1>17 DEF EndOfOperations, Goto, disk
<1>18. CASE VerifyInstall
  <2>1. CASE Throw
    BY <1>0, <1>1, <1>18, <2>1 DEF VerifyInstall, Throw, Exit, disk
  <2>2. CASE ~Throw
    <3>1. ~stray /\ \E r \in Release : install = Payload[r]
      BY <1>0, <1>18, <2>2 DEF VerifyInstall, Verified, HasPlan, Steps
    <3>2. Whole
      BY <3>1 DEF Whole
    <3> QED
      BY <1>0, <1>1, <1>18, <3>2 DEF VerifyInstall, disk
  <2> QED
    BY <2>1, <2>2
<1>19. CASE RemoveJournal
  BY <1>0, <1>1, <1>19 DEF RemoveJournal, Exit
<1>20. CASE BeginRollback
  BY <1>0, <1>1, <1>20 DEF BeginRollback, Exit, disk
<1>21. CASE BeginRestore
  BY <1>0, <1>1, <1>21 DEF BeginRestore, Throw, Exit, Goto, disk
<1>22. CASE RemoveAdded
  BY <1>0, <1>22 DEF RemoveAdded, UnderJournal, Steps
<1>23. CASE EndOfRollback
  BY <1>0, <1>1, <1>23 DEF EndOfRollback, Throw, Exit, Goto, disk
<1>24. CASE IoFault
  BY <1>0, <1>1, <1>24 DEF IoFault, Throw, Exit, UnderJournal, Steps
<1>25. CASE Crash
  <2>1. pc' = "idle" /\ UNCHANGED <<install, journal, damaged>>
    BY <1>25 DEF Crash, Exit
  <2>2. CASE pc = "rename"
    BY <1>0, <2>1, <2>2 DEF UnderJournal, Steps
  <2>3. CASE pc # "rename"
    <3>1. stray' = stray
      BY <1>25, <2>3 DEF Crash, IInv, TypeOK
    <3> QED
      BY <1>0, <1>1, <2>1, <3>1
  <2> QED
    BY <2>2, <2>3
<1>26. ASSUME NEW p \in Path, NEW c \in {Absent, Corrupt}, DamageInstall(p, c) PROVE Guarded'
  <2>1. ASSUME Whole PROVE Whole'
    BY <1>0, <1>26, <2>1 DEF DamageInstall, Whole
  <2> QED
    BY <1>0, <1>26, <2>1 DEF DamageInstall, proc
<1>27. ASSUME NEW p \in Path, DamageStore(p) PROVE Guarded'
  BY <1>0, <1>1, <1>27 DEF DamageStore, proc
<1>28. CASE UNCHANGED vars
  BY <1>0, <1>1, <1>28 DEF vars, disk, proc
<1> QED
  BY <1>2, <1>3, <1>4, <1>5, <1>6, <1>7, <1>8, <1>9, <1>10, <1>11, <1>12, <1>13, <1>14,
     <1>15, <1>16, <1>17, <1>18, <1>19, <1>20, <1>21, <1>22, <1>23, <1>24, <1>25, <1>26, <1>27, <1>28
     DEF Next, Command, Writer, Environment

(* A first start: a verified installation, nothing prepared, nothing pending. *)
LEMMA Initially == Init => IInv
<1> SUFFICES ASSUME Init PROVE IInv
  OBVIOUS
<1>1. TypeOK
  <2>1. /\ install \in [Path -> Content] /\ journal \in Journals /\ mem \in Journals
        /\ prepared \in [Release -> [Path -> Content]] /\ backup \in [Path -> Content]
    BY ReleaseTypes DEF Init
  <2>2. faults \in [crash : Nat, io : Nat, install : Nat, store : Nat]
    BY DEF Init
  <2> QED
    BY <2>1, <2>2 DEF Init, TypeOK, Steps
<1>2. Control
  BY DEF Init, Control, UnderJournal, HasPlan, Steps, JournalExists, NoJournal
<1>3. Guarded
  BY DEF Init, Guarded, Whole
<1> QED
  BY <1>1, <1>2, <1>3 DEF IInv

(* The invariant holds in every reachable state. *)
THEOREM Invariance == Spec => []IInv
<1>1. IInv /\ [Next]_vars => IInv'
  BY TypeStep, ControlStep, GuardedStep DEF IInv
<1> QED
  BY <1>1, Initially, PTL DEF Spec

(* The files, the journal, and the writer's state keep their types. *)
THEOREM TypeCorrect == Spec => []TypeOK
<1>1. IInv => TypeOK
  BY DEF IInv
<1> QED
  BY <1>1, Invariance, PTL

(* Whenever no journal is pending the installation is one whole release, but
   for files altered from outside: an interrupted, failed or rolled-back update
   is never left behind without its journal. *)
THEOREM SettledInstallIsWhole == Spec => []SettledIsWhole
<1>1. IInv => SettledIsWhole
  BY DEF IInv, Guarded, SettledIsWhole
<1> QED
  BY <1>1, Invariance, PTL

-----------------------------------------------------------------------------
(* The files of a transaction under way, as long as nobody else alters them. *)

\* Steps at which the writer's journal object is that of the journal on disk.
Working == UnderJournal \ {"open"}
Copying == {"step", "rename", "confirm", "record"}

\* Two states of one transaction: only their counts and statuses may differ.
Same(j, k) == j.target = k.target /\ j.ops = k.ops /\ j.before = k.before

\* One operation per path, and a rollback copy of what each path held.
Listed(j) == \A i, k \in 1..Len(j.ops) : j.ops[i] = j.ops[k] => i = k
Saved(j)  == \A p \in Touched(j) : backup[p] = j.before[p]

\* The first c operations are applied, the others are not.
Cut(image, j, c) == \A i \in 1..Len(j.ops) :
    image[j.ops[i]] = IF i <= c THEN Payload[j.target][j.ops[i]] ELSE j.before[j.ops[i]]

\* The writer works on the transaction whose journal is on disk.
Paired ==
    /\ ~JournalExists => journal.target = NoRelease
    /\ pc \in {"inspect", "backup", "journal"} => ~JournalExists
    /\ pc \in Working => Same(mem, journal)
    /\ pc \notin {"undo", "rename", "confirm", "verify", "commit"} => mode = "forward"
    /\ pc = "undo" => mode = "back"
    /\ pc \in Working \ {"unwind"} /\ mode = "forward" => mem.done = journal.done
    /\ pc \in HasPlan => Listed(mem) /\ mem.done <= Len(mem.ops)
    /\ JournalExists => Listed(journal) /\ journal.done <= Len(journal.ops)
    /\ faults.store = 0 /\ JournalExists => Saved(journal)
    /\ faults.store = 0 /\ pc = "journal" => Saved(mem)

\* How far the files are, by what the journal and the writer have counted.
Progress ==
    /\ JournalExists => \E c \in 0..journal.done + 1 : Cut(install, journal, c)
    /\ pc = "journal" => Cut(install, mem, 0)
    /\ pc = "mark" => \E c \in {mem.done, mem.done + 1} : Cut(install, mem, c)
    /\ pc \in Copying /\ mode = "forward" =>
            idx = mem.done + 1 /\ \E c \in {idx - 1, idx} : Cut(install, mem, c)
    /\ pc = "record" => Cut(install, mem, idx)
    /\ pc = "unwind" => \E c \in 0..mem.done + 1 : c <= journal.done + 1 /\ Cut(install, mem, c)
    /\ pc \in {"undo", "rename", "confirm"} /\ mode = "back" =>
            \E c \in 0..idx : c <= journal.done + 1 /\ Cut(install, mem, c)
    /\ pc \in {"verify", "commit"} /\ mode = "back" => Cut(install, mem, 0)
    /\ pc = "commit" /\ mode = "forward" => install = Payload[mem.target]

TInv == IInv /\ Paired /\ (Undamaged => Progress)

(* Operation lists name every path once. *)
LEMMA PlansListed ==
    ASSUME NEW r \in Release, NEW retired \in SUBSET Path, NEW s \in Plans(r, retired)
    PROVE  \A i, k \in 1..Len(s) : s[i] = s[k] => i = k
<1>1. Shipped(r) \cup retired \subseteq Path
  BY DEF Shipped
<1>2. PICK n \in Nat : s \in [1..n -> Path]
  <2>1. Cardinality(Shipped(r) \cup retired) \in Nat
    BY <1>1, PathAssumption, FS_Subset, FS_CardinalityType
  <2>2. s \in [1..Cardinality(Shipped(r) \cup retired) -> Path]
    BY <1>1 DEF Plans
  <2> QED
    BY <2>1, <2>2
<1>3. DOMAIN s = 1..Len(s) /\ \A i \in 1..Len(s) : s[i] \in Path
  BY <1>2, SeqDef
<1>4. \A i, k \in DOMAIN s : i < k => Precedes(r, s[i], s[k])
  BY DEF Plans
<1>5. \A p \in Path : ~Precedes(r, p, p)
  BY PathAssumption DEF Precedes, Stage
<1> QED
  BY <1>3, <1>4, <1>5

(* What is said of a transaction does not depend on which of its states is named. *)
LEMMA SameSays ==
    ASSUME NEW j \in Journals, NEW k \in Journals, Same(j, k)
    PROVE  /\ \A image, c : Cut(image, j, c) = Cut(image, k, c)
           /\ Listed(j) = Listed(k) /\ Touched(j) = Touched(k) /\ Saved(j) = Saved(k)
BY DEF Same, Cut, Listed, Touched, Saved

(* What pairs the backups with the list of operations is inductive. *)
LEMMA PairedStep == IInv /\ Paired /\ [Next]_vars => Paired'
<1> SUFFICES ASSUME IInv, Paired, [Next]_vars PROVE Paired'
  OBVIOUS
<1> USE DEF Paired, Working, UnderJournal, HasPlan, Steps, JournalExists
<1>0. /\ mem \in Journals /\ journal \in Journals /\ mem.done \in Nat /\ idx \in Nat
      /\ faults \in [crash : Nat, io : Nat, install : Nat, store : Nat]
      /\ want \in Release \cup {NoRelease} /\ mode \in {"forward", "back"}
      /\ pc \in UnderJournal => JournalExists
      /\ pc \in HasPlan => mem.status # "none" /\ mem.target \in Release
      /\ NoJournal.status = "none" /\ NoJournal.target = NoRelease
  BY JournalUpdate DEF IInv, TypeOK, Control, NoJournal
<1>1. ASSUME NEW r \in Release, PrepareRelease(r) PROVE Paired'
  BY <1>0, <1>1 DEF PrepareRelease, proc, Saved
<1>2. ASSUME NEW r \in Release, RemovePrepared(r) PROVE Paired'
  BY <1>0, <1>2 DEF RemovePrepared, proc, Saved
<1>3. ASSUME NEW r \in Release, ApplyPrepared(r) PROVE Paired'
  BY <1>0, <1>3 DEF ApplyPrepared, disk, Saved
<1>4. CASE Recover
  BY <1>0, <1>4 DEF Recover, disk, Saved
<1>5. CASE RecoverWithoutJournal
  BY <1>0, <1>5 DEF RecoverWithoutJournal, Exit, disk, Saved
<1>6. CASE OpenJournal
  BY <1>0, <1>6 DEF OpenJournal, Exit, disk, Saved, Same
<1>7. CASE InspectInstall
  <2>1. CASE prepared[want] # Payload[want] /\ Exit("rejected")
    BY <1>0, <1>7, <2>1 DEF InspectInstall, Exit, disk, Saved
  <2>2. CASE ~(prepared[want] # Payload[want] /\ Exit("rejected"))
    <3>1. want \in Release
      BY <1>7 DEF InspectInstall, IInv, Control
    <3>2. PICK retired \in SUBSET Path : \E plan \in Plans(want, retired) :
            mem' = [status |-> "prepared", target |-> want, ops |-> plan, done |-> 0,
                    before |-> Blank, priorValid |-> ~stray /\ Verified(install)]
      BY <1>7, <2>2 DEF InspectInstall, RetiredBy
    <3>3. Listed(mem)'
      BY <3>1, <3>2, PlansListed DEF Listed
    <3> QED
      BY <1>0, <1>7, <2>2, <3>3 DEF InspectInstall, disk, Saved
  <2> QED
    BY <2>1, <2>2
<1>8. CASE DurableBackup
  <2>1. mem'.ops = mem.ops /\ mem'.before = backup'
    BY <1>0, <1>8 DEF DurableBackup, Journals
  <2>2. Listed(mem)' /\ Saved(mem)'
    BY <1>0, <1>8, <2>1 DEF DurableBackup, Listed, Saved
  <2> QED
    BY <1>0, <1>8, <2>2 DEF DurableBackup
<1>9. CASE WriteJournal
  <2>1. journal' = mem' /\ mem' = mem /\ pc' = "validate" /\ mode' = mode
        /\ UNCHANGED <<backup, faults>> /\ pc = "journal"
    BY <1>9 DEF WriteJournal, Goto
  <2>2. Same(mem, journal)' /\ Listed(mem)' /\ Listed(journal)'
    BY <1>0, <2>1 DEF Same
  <2>3. faults'.store = 0 => Saved(journal)'
    BY <2>1 DEF Saved
  <2> QED
    BY <1>0, <2>1, <2>2, <2>3
<1>10. CASE ValidateJournal
  <2>1. CASE Throw /\ UNCHANGED journal
    BY <1>0, <1>10, <2>1 DEF ValidateJournal, Throw, Exit, Saved
  <2>2. CASE ~(Throw /\ UNCHANGED journal)
    <3>1. PICK d \in 0..mem.done :
            /\ mem' = [mem EXCEPT !.done = d]
            /\ journal' = IF d = mem.done THEN journal ELSE [mem EXCEPT !.done = d]
      BY <1>10, <2>2 DEF ValidateJournal
    <3>2. /\ pc = "validate" /\ pc' = "mark" /\ UNCHANGED <<mode, backup, faults>>
          /\ mem.status # "none" /\ JournalExists
      BY <1>0, <1>10, <2>2 DEF ValidateJournal
    <3>3. d \in Nat /\ [mem EXCEPT !.done = d] \in Journals
      BY <1>0, JournalAdvance
    <3>4. mem' \in Journals /\ journal' \in Journals
      BY <1>0, <3>1, <3>3
    <3>5. Same(mem', mem) /\ Same(mem, journal) /\ mem'.done = d /\ mem'.status # "none"
      BY <1>0, <3>1, <3>2 DEF Journals, Same
    <3>6. Same(mem, journal)' /\ Same(journal', journal) /\ journal'.done = d
          /\ journal'.status # "none"
      BY <1>0, <3>1, <3>2, <3>5 DEF Same
    <3>7. Listed(mem)' /\ Listed(journal)'
      BY <1>0, <3>2, <3>4, <3>5, <3>6, SameSays
    <3>8. faults'.store = 0 => Saved(journal)'
      BY <1>0, <3>2, <3>6 DEF Saved, Same, Touched
    <3>9. mem'.done <= Len(mem'.ops) /\ journal'.done <= Len(journal'.ops)
      BY <1>0, <3>2, <3>3, <3>5, <3>6, JournalUpdate DEF Same
    <3> QED
      BY <1>0, <3>2, <3>5, <3>6, <3>7, <3>8, <3>9
  <2> QED
    BY <2>1, <2>2
<1>11. CASE MarkApplying
  <2>1. /\ pc = "mark" /\ pc' = "step" /\ UNCHANGED <<mode, backup, faults>>
        /\ JournalExists /\ journal' = mem' /\ mem' = [mem EXCEPT !.status = "applying"]
    BY <1>0, <1>11 DEF MarkApplying
  <2>2. Same(mem', mem) /\ mem'.status # "none" /\ Same(mem, journal)
    BY <1>0, <2>1 DEF Journals, Same
  <2>3. Listed(mem)' /\ Same(mem, journal)'
    BY <1>0, <2>1, <2>2 DEF Same, Listed
  <2>4. faults'.store = 0 => Saved(journal)'
    BY <1>0, <2>1, <2>2 DEF Saved, Same, Touched
  <2> QED
    BY <1>0, <2>1, <2>2, <2>3, <2>4
<1>12. CASE BeginCopy
  BY <1>0, <1>12 DEF BeginCopy, Throw, Exit, Goto, disk, Saved
<1>13. CASE RemoveRetired
  BY <1>0, <1>13 DEF RemoveRetired, Goto, Saved
<1>14. CASE ReplaceFile
  BY <1>0, <1>14 DEF ReplaceFile, Goto, Saved
<1>15. CASE ConfirmCopy
  BY <1>0, <1>15 DEF ConfirmCopy, Throw, Exit, Goto, disk, Saved
<1>16. CASE RecordOperation
  <2>1. /\ pc = "record" /\ pc' = "step" /\ UNCHANGED <<mode, backup, faults>>
        /\ JournalExists /\ journal' = mem' /\ mem' = [mem EXCEPT !.done = idx]
    BY <1>0, <1>16 DEF RecordOperation
  <2>2. Same(mem', mem) /\ mem'.status # "none" /\ Same(mem, journal)
    BY <1>0, <2>1 DEF Journals, Same
  <2>3. Listed(mem)' /\ Same(mem, journal)'
    BY <1>0, <2>1, <2>2 DEF Same, Listed
  <2>4. faults'.store = 0 => Saved(journal)'
    BY <1>0, <2>1, <2>2 DEF Saved, Same, Touched
  <2>5. mem'.done <= Len(mem'.ops)
    <3>1. idx \in 1..Len(mem.ops) /\ mem'.done = idx
      BY <1>0, <2>1 DEF Journals, IInv, Control
    <3> QED
      BY <2>2, <3>1 DEF Same
  <2> QED
    BY <1>0, <2>1, <2>2, <2>3, <2>4, <2>5
<1>17. CASE EndOfOperations
  BY <1>0, <1>17 DEF EndOfOperations, Goto, disk, Saved
<1>18. CASE VerifyInstall
  BY <1>0, <1>18 DEF VerifyInstall, Throw, Exit, Goto, disk, Saved
<1>19. CASE RemoveJournal
  BY <1>0, <1>19 DEF RemoveJournal, Exit
<1>20. CASE BeginRollback
  BY <1>0, <1>20 DEF BeginRollback, Exit, disk, Saved
<1>21. CASE BeginRestore
  BY <1>0, <1>21 DEF BeginRestore, Throw, Exit, Goto, disk, Saved
<1>22. CASE RemoveAdded
  BY <1>0, <1>22 DEF RemoveAdded, Saved
<1>23. CASE EndOfRollback
  BY <1>0, <1>23 DEF EndOfRollback, Throw, Exit, Goto, disk, Saved
<1>24. CASE IoFault
  <2>1. UNCHANGED <<journal, backup>> /\ faults'.store = faults.store
    BY <1>0, <1>24 DEF IoFault
  <2>2. CASE Exit("rejected") \/ Exit("unsafe") \/ Throw
    BY <1>0, <1>24, <2>1, <2>2 DEF IoFault, Throw, Exit, Saved
  <2>3. CASE ~(Exit("rejected") \/ Exit("unsafe") \/ Throw)
    <3>1. PICK d : mem' = [mem EXCEPT !.done = d]
      BY <1>24, <2>3 DEF IoFault
    <3>2. pc \in {"validate", "record"} /\ pc' = "unwind" /\ mode' = mode
      BY <1>24, <2>3 DEF IoFault
    <3>3. Same(mem', mem) /\ Same(mem, journal)
      BY <1>0, <3>1, <3>2 DEF Journals, Same
    <3>4. Same(mem, journal)' /\ Listed(mem)'
      BY <1>0, <2>1, <3>2, <3>3 DEF Same, Listed
    <3>5. mem'.done <= Len(mem'.ops)
      <4>1. PICK n : n <= Len(mem.ops) /\ mem' = [mem EXCEPT !.done = n]
        <5>1. mem.done <= Len(mem.ops) /\ (pc = "record" => idx <= Len(mem.ops))
          BY <3>2 DEF IInv, Control
        <5>2. CASE pc = "record"
          <6>1. mem' = [mem EXCEPT !.done = idx]
            BY <1>24, <2>3, <5>2 DEF IoFault
          <6> QED
            BY <5>1, <5>2, <6>1
        <5>3. CASE pc = "validate"
          <6>1. PICK i \in 0..mem.done : mem' = [mem EXCEPT !.done = i]
            BY <1>24, <2>3, <5>3 DEF IoFault
          <6>2. i <= Len(mem.ops)
            BY <1>0, <5>1, JournalUpdate
          <6> QED
            BY <6>1, <6>2
        <5> QED
          BY <3>2, <5>2, <5>3
      <4> QED
        BY <1>0, <3>3, <4>1 DEF Journals, Same
    <3> QED
      BY <1>0, <2>1, <3>2, <3>4, <3>5 DEF Saved
  <2> QED
    BY <2>2, <2>3
<1>25. CASE Crash
  BY <1>0, <1>25 DEF Crash, Exit, Saved
<1>26. ASSUME NEW p \in Path, NEW c \in {Absent, Corrupt}, DamageInstall(p, c) PROVE Paired'
  BY <1>0, <1>26 DEF DamageInstall, proc, Saved
<1>27. ASSUME NEW p \in Path, DamageStore(p) PROVE Paired'
  BY <1>0, <1>27 DEF DamageStore, proc, Saved
<1>28. CASE UNCHANGED vars
  BY <1>0, <1>28 DEF vars, disk, proc, Saved
<1> QED
  BY <1>1, <1>2, <1>3, <1>4, <1>5, <1>6, <1>7, <1>8, <1>9, <1>10, <1>11, <1>12, <1>13, <1>14,
     <1>15, <1>16, <1>17, <1>18, <1>19, <1>20, <1>21, <1>22, <1>23, <1>24, <1>25, <1>26, <1>27, <1>28
     DEF Next, Command, Writer, Environment

(* Writing the file of operation n moves the cut forward to n, or back before it. *)
LEMMA CutMoves ==
    ASSUME NEW j \in Journals, Listed(j), NEW image \in [Path -> Content],
           NEW n \in 1..Len(j.ops), NEW c \in Nat, NEW v \in Content, Cut(image, j, c)
    PROVE  LET next == [image EXCEPT ![j.ops[n]] = v]
           IN  /\ v = Payload[j.target][j.ops[n]] /\ c \in {n - 1, n} => Cut(next, j, n)
               /\ v = j.before[j.ops[n]] /\ c <= n =>
                     Cut(next, j, IF c = n THEN n - 1 ELSE c)
<1>1. /\ Len(j.ops) \in Nat /\ \A i \in 1..Len(j.ops) : j.ops[i] \in Path
      /\ \A i, k \in 1..Len(j.ops) : j.ops[i] = j.ops[k] => i = k
  BY JournalUpdate DEF Listed
<1>2. \A i \in 1..Len(j.ops) : [image EXCEPT ![j.ops[n]] = v][j.ops[i]] =
                                  IF i = n THEN v ELSE image[j.ops[i]]
  BY <1>1
<1>3. ASSUME v = Payload[j.target][j.ops[n]], c \in {n - 1, n}
      PROVE  Cut([image EXCEPT ![j.ops[n]] = v], j, n)
  BY <1>1, <1>2, <1>3 DEF Cut
<1>4. ASSUME v = j.before[j.ops[n]], c <= n
      PROVE  Cut([image EXCEPT ![j.ops[n]] = v], j, IF c = n THEN n - 1 ELSE c)
  BY <1>1, <1>2, <1>4 DEF Cut
<1> QED
  BY <1>3, <1>4

(* A cut beyond the last operation is one at the last operation. *)
LEMMA CutEnds ==
    ASSUME NEW j \in Journals, NEW image, NEW c \in Nat, Cut(image, j, c), c > Len(j.ops)
    PROVE  Cut(image, j, Len(j.ops))
BY JournalUpdate DEF Cut

(* Where a forward pass resumes, its cut is. *)
LEMMA CutResumes ==
    ASSUME NEW j \in Journals, j.done <= Len(j.ops), NEW c \in 0..j.done + 1, NEW d \in 0..j.done,
           Cut(install, j, c), ResumesAt(j, d)
    PROVE  \E e \in {d, d + 1} : Cut(install, j, e)
<1>1. j.done \in Nat /\ Len(j.ops) \in Nat
  BY JournalUpdate
<1>2. CASE c <= d
  <2>1. Cut(install, j, d)
    BY <1>1, <1>2 DEF Cut, ResumesAt, Applied
  <2> QED
    BY <2>1
<1>3. CASE c > d
  <2>1. c = d + 1
    BY <1>1, <1>3 DEF Cut, ResumesAt, Applied
  <2> QED
    BY <2>1
<1> QED
  BY <1>1, <1>2, <1>3

(* Each step keeps the files where the journal says they are. *)
LEMMA ProgressStep == TInv /\ [Next]_vars => (Undamaged => Progress)'
<1> SUFFICES ASSUME TInv, [Next]_vars, Undamaged' PROVE Progress'
  OBVIOUS
<1>0. /\ mem \in Journals /\ journal \in Journals /\ mem.done \in Nat /\ idx \in Nat
      /\ journal.done \in Nat /\ Len(mem.ops) \in Nat
      /\ faults \in [crash : Nat, io : Nat, install : Nat, store : Nat]
      /\ install \in [Path -> Content]
      /\ mode \in {"forward", "back"} /\ NoJournal.status = "none"
  BY JournalUpdate DEF TInv, IInv, TypeOK, NoJournal
<1>a. IInv /\ Paired /\ Control
  BY DEF TInv, IInv
<1>b. Undamaged /\ Progress
  <2>1. faults.install = 0
    <3>1. faults'.install = faults.install \/ faults'.install = faults.install + 1
      BY <1>0 DEF Next, Command, Writer, Environment, PrepareRelease, RemovePrepared,
           ApplyPrepared, Recover, RecoverWithoutJournal, OpenJournal, InspectInstall,
           DurableBackup, WriteJournal, ValidateJournal, MarkApplying, BeginCopy, RemoveRetired,
           ReplaceFile, ConfirmCopy, RecordOperation, EndOfOperations, VerifyInstall,
           RemoveJournal, BeginRollback, BeginRestore, RemoveAdded, EndOfRollback,
           IoFault, Crash, DamageInstall, DamageStore, vars
    <3> QED
      BY <1>0, <3>1 DEF Undamaged
  <2> QED
    BY <2>1 DEF TInv, Undamaged
<1>c. /\ pc \in UnderJournal => JournalExists
      /\ pc \in {"inspect", "backup", "journal"} => ~JournalExists
      /\ pc \in Working => Same(mem, journal)
      /\ pc \notin {"undo", "rename", "confirm", "verify", "commit"} => mode = "forward"
      /\ pc = "undo" => mode = "back"
      /\ pc \in Working \ {"unwind"} /\ mode = "forward" => mem.done = journal.done
      /\ pc \in HasPlan => Listed(mem)
  BY <1>a DEF Paired, Control
<1>d. \A c : pc \in Working => Cut(install, mem, c) = Cut(install, journal, c)
  BY <1>0, <1>c, SameSays
<1> USE DEF Working, UnderJournal, HasPlan, Copying, Steps, JournalExists
\* Most steps leave the files and the writer's journal alone.
<1>1. ASSUME NEW r \in Release, PrepareRelease(r) PROVE Progress'
  BY <1>b, <1>1 DEF PrepareRelease, proc, Progress
<1>2. ASSUME NEW r \in Release, RemovePrepared(r) PROVE Progress'
  BY <1>b, <1>2 DEF RemovePrepared, proc, Progress
<1>3. ASSUME NEW r \in Release, ApplyPrepared(r) PROVE Progress'
  BY <1>b, <1>3 DEF ApplyPrepared, disk, Progress
<1>4. CASE Recover
  BY <1>b, <1>4 DEF Recover, disk, Progress
<1>5. CASE RecoverWithoutJournal
  BY <1>b, <1>5 DEF RecoverWithoutJournal, Exit, disk, Progress
<1>6. CASE OpenJournal
  BY <1>b, <1>c, <1>6 DEF OpenJournal, Exit, disk, Progress
<1>7. CASE InspectInstall
  BY <1>b, <1>c, <1>7 DEF InspectInstall, Exit, disk, Progress
<1>8. CASE DurableBackup
  <2>1. /\ pc = "backup" /\ pc' = "journal" /\ UNCHANGED <<install, journal>>
        /\ mem'.ops = mem.ops
        /\ mem'.before = [p \in Path |-> IF p \in Touched(mem) THEN install[p] ELSE Absent]
    BY <1>0, <1>8 DEF DurableBackup, Journals
  <2>2. Cut(install, mem, 0)'
    <3>1. \A i \in 1..Len(mem.ops) : mem.ops[i] \in Path /\ mem.ops[i] \in Touched(mem) /\ ~(i <= 0)
      <4>1. mem.ops \in Seq(Path) /\ DOMAIN mem.ops = 1..Len(mem.ops)
        <5>1. mem.ops \in Seq(Path)
          BY <1>0 DEF Journals
        <5> QED
          BY <5>1
      <4> QED
        BY <4>1 DEF Touched
    <3> QED
      BY <2>1, <3>1 DEF Cut
  <2> QED
    BY <1>c, <2>1, <2>2 DEF Progress
<1>9. CASE WriteJournal
  <2>1. /\ pc = "journal" /\ pc' = "validate" /\ UNCHANGED <<install, mem>> /\ journal' = mem
    BY <1>9 DEF WriteJournal, Goto
  <2>2. Cut(install, mem, 0) /\ 0 \in 0..mem.done + 1
    BY <1>0, <1>b, <2>1 DEF Progress
  <2> QED
    BY <2>1, <2>2 DEF Progress
<1>10. CASE ValidateJournal
  <2>1. pc = "validate" /\ UNCHANGED install
    BY <1>10 DEF ValidateJournal
  <2>2. PICK c \in 0..mem.done + 1 : Cut(install, mem, c)
    BY <1>b, <1>c, <1>d, <2>1 DEF Progress
  <2>3. CASE Throw /\ UNCHANGED journal
    BY <1>0, <1>b, <1>c, <2>1, <2>2, <2>3 DEF Throw, Exit, Progress
  <2>4. CASE ~(Throw /\ UNCHANGED journal)
    <3>1. PICK d \in 0..mem.done :
            /\ ResumesAt(mem, d)
            /\ mem' = [mem EXCEPT !.done = d]
            /\ journal' = IF d = mem.done THEN journal ELSE [mem EXCEPT !.done = d]
      BY <1>10, <2>4 DEF ValidateJournal
    <3>2. pc' = "mark" /\ UNCHANGED <<mode, install>>
      BY <1>10, <2>4 DEF ValidateJournal
    <3>3. mem.done <= Len(mem.ops)
      BY <1>a, <2>1 DEF Paired
    <3>4. PICK e \in {d, d + 1} : Cut(install, mem, e)
      BY <1>0, <2>2, <3>1, <3>3, CutResumes
    <3>5. d \in Nat /\ [mem EXCEPT !.done = d] \in Journals
      BY <1>0, JournalAdvance
    <3>6. mem' \in Journals /\ Same(mem', mem) /\ mem'.done = d
      <4>1. mem' = [mem EXCEPT !.done = d]
        BY <3>1
      <4>2. Same(mem', mem) /\ mem'.done = d
        BY <1>0, <4>1 DEF Journals, Same
      <4> QED
        BY <3>5, <4>1, <4>2
    <3>7. journal' \in Journals /\ Same(journal', mem) /\ journal'.done = d
      BY <1>0, <1>c, <2>1, <3>1, <3>6 DEF Same
    <3>8. Cut(install, mem', e) /\ Cut(install, journal', e)
      BY <1>0, <3>4, <3>6, <3>7, SameSays
    <3>9. Cut(install', mem', e) /\ Cut(install', journal', e)
      BY <3>2, <3>8
    <3>10. e \in 0..d + 1 /\ d \in Nat
      BY <3>5
    <3> QED
      BY <3>2, <3>4, <3>6, <3>7, <3>9, <3>10 DEF Progress
  <2> QED
    BY <2>3, <2>4
<1>11. CASE MarkApplying
  <2>1. /\ pc = "mark" /\ pc' = "step" /\ UNCHANGED <<mode, install>> /\ idx' = mem.done + 1
        /\ journal' = mem' /\ mem' = [mem EXCEPT !.status = "applying"]
    BY <1>11 DEF MarkApplying
  <2>2. PICK c \in {mem.done, mem.done + 1} : Cut(install, mem, c)
    BY <1>b, <2>1 DEF Progress
  <2>3. mem' \in Journals /\ Same(mem', mem) /\ mem'.done = mem.done
    BY <1>0, <2>1, JournalUpdate DEF Journals, Same
  <2>4. Cut(install', mem', c) /\ Cut(install', journal', c)
    BY <1>0, <2>1, <2>2, <2>3, SameSays
  <2>5. c \in {idx' - 1, idx'} /\ c \in 0..mem'.done + 1
    BY <1>0, <2>1, <2>3
  <2> QED
    BY <1>0, <1>c, <2>1, <2>3, <2>4, <2>5 DEF Progress
<1>12. CASE BeginCopy
  <2>1. pc = "step" /\ UNCHANGED disk
    BY <1>12 DEF BeginCopy
  <2>2. PICK c \in 0..mem.done + 1 : c <= journal.done + 1 /\ Cut(install, mem, c)
    BY <1>0, <1>b, <1>c, <1>d, <2>1 DEF Progress
  <2>3. CASE Throw
    BY <1>0, <1>b, <1>c, <2>1, <2>2, <2>3 DEF Throw, Exit, Progress, disk
  <2>4. CASE ~Throw
    <3>1. /\ idx = mem.done + 1 /\ idx \in 1..Len(mem.ops)
          /\ \E e \in {idx - 1, idx} : Cut(install, mem, e)
      BY <1>0, <1>b, <1>c, <1>12, <2>1 DEF Progress, BeginCopy
    <3>2. Goto(IF Applied(mem, idx) THEN "record" ELSE "rename")
      BY <1>12, <2>4 DEF BeginCopy
    <3>3. Applied(mem, idx) => Cut(install, mem, idx)
      <4> SUFFICES ASSUME Applied(mem, idx) PROVE Cut(install, mem, idx)
        OBVIOUS
      <4>1. PICK e \in {idx - 1, idx} : Cut(install, mem, e)
        BY <3>1
      <4>2. install[mem.ops[idx]] = Payload[mem.target][mem.ops[idx]]
        BY DEF Applied
      <4>3. idx \in 1..Len(mem.ops)
        BY <3>1
      <4> QED
        BY <1>0, <4>1, <4>2, <4>3 DEF Cut
    <3> QED
      BY <1>0, <1>b, <1>c, <2>1, <3>1, <3>2, <3>3 DEF Goto, Progress, disk
  <2> QED
    BY <2>3, <2>4
<1>13. CASE RemoveRetired
  <2>1. /\ pc = "step" /\ pc' = "record" /\ UNCHANGED <<mem, mode, idx, journal>>
        /\ idx <= Len(mem.ops) /\ mode = "forward" /\ Payload[mem.target][mem.ops[idx]] = Absent
        /\ install' = [install EXCEPT ![mem.ops[idx]] = Absent]
    BY <1>c, <1>13 DEF RemoveRetired, Goto, Goal, Dest
  <2>2. PICK c \in {idx - 1, idx} : Cut(install, mem, c)
    BY <1>b, <2>1 DEF Progress
  <2>3. idx = mem.done + 1 /\ idx \in 1..Len(mem.ops) /\ c \in Nat /\ Absent \in Content
    BY <1>0, <1>b, <2>1, <2>2 DEF Progress, Content
  <2>4. Cut(install', mem, idx)
    BY <1>0, <1>c, <2>1, <2>2, <2>3, CutMoves
  <2>5. Cut(install', journal', idx) /\ idx \in 0..journal'.done + 1
    BY <1>0, <1>c, <2>1, <2>3, <2>4, SameSays
  <2> QED
    BY <2>1, <2>3, <2>4, <2>5 DEF Progress
<1>14. CASE ReplaceFile
  <2>1. /\ pc = "rename" /\ pc' = "confirm" /\ UNCHANGED <<mem, mode, idx, journal>>
        /\ install' = [install EXCEPT ![mem.ops[idx]] = Goal]
    BY <1>14 DEF ReplaceFile, Goto, Dest
  <2>2. idx \in 1..Len(mem.ops) /\ mem.ops[idx] \in Path
    BY <1>0, <1>a, <2>1, JournalUpdate DEF Control
  <2>3. CASE mode = "forward"
    <3>1. idx = mem.done + 1 /\ \E c \in {idx - 1, idx} : Cut(install, mem, c)
      BY <1>b, <2>1, <2>3 DEF Progress
    <3>2. Goal = Payload[mem.target][mem.ops[idx]] /\ Goal \in Content
      BY <1>a, <2>1, <2>2, <2>3, ReleaseTypes DEF Goal, Control
    <3>3. Cut(install', mem, idx)
      <4>1. PICK c \in {idx - 1, idx} : Cut(install, mem, c)
        BY <3>1
      <4>2. c \in Nat
        BY <2>2, <4>1
      <4> QED
        BY <1>0, <1>c, <2>1, <2>2, <3>2, <4>1, <4>2, CutMoves
    <3>4. Cut(install', journal', idx) /\ idx \in 0..journal'.done + 1
      BY <1>0, <1>c, <2>1, <2>3, <3>1, <3>3, SameSays
    <3> QED
      BY <2>1, <2>3, <3>1, <3>3, <3>4 DEF Progress
  <2>4. CASE mode = "back"
    <3>1. PICK c \in 0..idx : c <= journal.done + 1 /\ Cut(install, mem, c)
      BY <1>b, <2>1, <2>4 DEF Progress
    <3>2. Goal = mem.before[mem.ops[idx]] /\ Goal \in Content
      BY <1>0, <2>2, <2>4 DEF Goal, Journals
    <3> DEFINE e == IF c = idx THEN idx - 1 ELSE c
    <3>3. Cut(install', mem, e)
      <4>1. Listed(mem) /\ c \in Nat /\ c <= idx /\ install' = [install EXCEPT ![mem.ops[idx]] = Goal]
        BY <1>c, <2>1, <3>1
      <4> HIDE DEF Goal
      <4> QED
        BY <1>0, <2>2, <3>1, <3>2, <4>1, CutMoves
    <3>4. e \in 0..idx /\ e \in 0..journal'.done + 1 /\ e <= journal'.done + 1
      BY <1>0, <2>1, <2>2, <3>1
    <3>5. Cut(install', journal', e)
      BY <1>0, <1>c, <2>1, <3>3, SameSays
    <3> HIDE DEF e
    <3> QED
      BY <2>1, <2>4, <3>3, <3>4, <3>5 DEF Progress
  <2> QED
    BY <1>0, <2>3, <2>4
<1>15. CASE ConfirmCopy
  <2>1. pc = "confirm" /\ UNCHANGED disk
    BY <1>15 DEF ConfirmCopy
  <2>2. idx \in 1..Len(mem.ops)
    BY <1>a, <2>1 DEF Control
  <2>3. CASE Throw /\ ~(install[Dest] = Goal)
    <3>1. mode = "forward" => \E c \in 0..mem.done + 1 : c <= journal.done + 1 /\ Cut(install, mem, c)
      BY <1>0, <1>b, <1>c, <1>d, <2>1, <2>2 DEF Progress
    <3> QED
      BY <1>0, <1>b, <1>c, <2>1, <2>3, <3>1 DEF Throw, Exit, Progress, disk
  <2>4. CASE install[Dest] = Goal /\ mode = "forward"
    <3>1. idx = mem.done + 1 /\ \E c \in {idx - 1, idx} : Cut(install, mem, c)
      BY <1>b, <2>1, <2>4 DEF Progress
    <3>2. Cut(install, mem, idx)
      <4>1. PICK e \in {idx - 1, idx} : Cut(install, mem, e)
        BY <3>1
      <4> QED
        BY <1>0, <2>2, <2>4, <4>1 DEF Cut, Goal, Dest
    <3> QED
      BY <1>b, <1>c, <1>15, <2>1, <2>4, <3>1, <3>2 DEF ConfirmCopy, Goto, Progress, disk
  <2>5. CASE install[Dest] = Goal /\ mode = "back"
    <3>1. PICK c \in 0..idx : c <= journal.done + 1 /\ Cut(install, mem, c)
      BY <1>b, <2>1, <2>5 DEF Progress
    <3>2. \E e \in 0..idx - 1 : e <= journal.done + 1 /\ Cut(install, mem, e)
      <4>1. CASE c < idx
        BY <2>2, <3>1, <4>1
      <4>2. CASE c = idx
        <5>1. Cut(install, mem, idx - 1)
          BY <1>0, <2>2, <2>5, <3>1, <4>2 DEF Cut, Goal, Dest
        <5> QED
          BY <1>0, <2>2, <3>1, <4>2, <5>1
      <4> QED
        BY <2>2, <3>1, <4>1, <4>2
    <3>3. pc' = "undo" /\ idx' = idx - 1 /\ UNCHANGED <<mode, mem>>
      BY <1>15, <2>5 DEF ConfirmCopy
    <3> QED
      BY <1>b, <1>c, <2>1, <2>5, <3>2, <3>3 DEF Progress, disk
  <2> QED
    BY <1>0, <1>15, <2>3, <2>4, <2>5 DEF ConfirmCopy
<1>16. CASE RecordOperation
  <2>1. /\ pc = "record" /\ pc' = "step" /\ UNCHANGED <<mode, install>> /\ idx' = idx + 1
        /\ journal' = mem' /\ mem' = [mem EXCEPT !.done = idx]
    BY <1>16 DEF RecordOperation
  <2>2. Cut(install, mem, idx)
    BY <1>b, <2>1 DEF Progress
  <2>3. mem' \in Journals /\ Same(mem', mem) /\ mem'.done = idx
    <3>1. [mem EXCEPT !.done = idx] \in Journals
      BY <1>0, JournalAdvance
    <3>2. Same(mem', mem) /\ mem'.done = idx
      BY <1>0, <2>1 DEF Journals, Same
    <3> QED
      BY <2>1, <3>1, <3>2
  <2>4. Cut(install', mem', idx) /\ Cut(install', journal', idx)
    BY <1>0, <2>1, <2>2, <2>3, SameSays
  <2>5. idx \in {idx' - 1, idx'} /\ idx \in 0..mem'.done + 1
    BY <1>0, <2>1, <2>3
  <2> QED
    BY <1>0, <1>c, <2>1, <2>3, <2>4, <2>5 DEF Progress
<1>17. CASE EndOfOperations
  BY <1>b, <1>c, <1>17 DEF EndOfOperations, Goto, disk, Progress
<1>18. CASE VerifyInstall
  <2>1. pc = "verify" /\ UNCHANGED disk
    BY <1>18 DEF VerifyInstall
  <2>2. CASE Throw
    <3>1. mode = "forward" => \E c \in 0..mem.done + 1 : c <= journal.done + 1 /\ Cut(install, mem, c)
      BY <1>0, <1>b, <1>c, <1>d, <2>1 DEF Progress
    <3> QED
      BY <1>0, <1>b, <1>c, <2>1, <2>2, <3>1 DEF Throw, Exit, Progress, disk
  <2>3. CASE ~Throw
    BY <1>b, <1>c, <1>18, <2>1, <2>3 DEF VerifyInstall, Goto, Progress, disk
  <2> QED
    BY <2>2, <2>3
<1>19. CASE RemoveJournal
  BY <1>0, <1>19 DEF RemoveJournal, Exit, Progress
<1>20. CASE BeginRollback
  <2>1. pc = "unwind" /\ UNCHANGED disk
    BY <1>20 DEF BeginRollback
  <2>2. PICK c \in 0..mem.done + 1 : c <= journal.done + 1 /\ Cut(install, mem, c)
    BY <1>b, <2>1 DEF Progress
  <2>3. CASE Exit("unsafe")
    BY <1>b, <1>c, <2>1, <2>3 DEF Exit, Progress, disk
  <2>4. CASE ~Exit("unsafe")
    <3>1. /\ mode' = "back" /\ pc' = "undo" /\ UNCHANGED mem
          /\ idx' = IF mem.done < Len(mem.ops) THEN mem.done + 1 ELSE Len(mem.ops)
      BY <1>20, <2>4 DEF BeginRollback
    <3>2. \E e \in 0..idx' : e <= journal.done + 1 /\ Cut(install, mem, e)
      <4>1. CASE c <= Len(mem.ops)
        BY <1>0, <2>2, <3>1, <4>1
      <4>2. CASE c > Len(mem.ops)
        BY <1>0, <2>2, <3>1, <4>2, CutEnds
      <4> QED
        BY <1>0, <2>2, <4>1, <4>2
    <3> QED
      BY <1>b, <2>1, <3>1, <3>2 DEF Progress, disk
  <2> QED
    BY <2>3, <2>4
<1>21. CASE BeginRestore
  BY <1>b, <1>c, <1>21 DEF BeginRestore, Throw, Exit, Goto, disk, Progress
<1>22. CASE RemoveAdded
  <2>1. /\ pc = "undo" /\ idx > 0 /\ mode = "back" /\ UNCHANGED <<pc, mem, mode, journal>>
        /\ mem.before[mem.ops[idx]] = Absent /\ idx' = idx - 1
        /\ install' = [install EXCEPT ![mem.ops[idx]] = Absent]
    BY <1>c, <1>22 DEF RemoveAdded, Goal, Dest
  <2>2. idx \in 1..Len(mem.ops) /\ Absent \in Content
    BY <1>0, <1>a, <2>1 DEF Control, Content
  <2>3. PICK c \in 0..idx : c <= journal.done + 1 /\ Cut(install, mem, c)
    BY <1>b, <2>1 DEF Progress
  <2> DEFINE e == IF c = idx THEN idx - 1 ELSE c
  <2>4. Cut(install', mem, e)
    <3>1. Listed(mem) /\ c \in Nat /\ c <= idx
      BY <1>c, <2>1, <2>3
    <3> QED
      BY <1>0, <2>1, <2>2, <2>3, <3>1, CutMoves
  <2>5. e \in 0..idx - 1 /\ e \in 0..journal'.done + 1 /\ e <= journal'.done + 1
    <3>1. idx \in Nat /\ idx > 0 /\ c \in Nat /\ c <= idx
      BY <2>1, <2>2, <2>3
    <3>2. e \in Nat /\ e <= idx - 1 /\ e <= c
      BY <3>1
    <3>3. journal' = journal /\ journal.done \in Nat
      BY <1>0, <2>1
    <3> HIDE DEF e
    <3> QED
      BY <2>3, <3>1, <3>2, <3>3
  <2>6. Cut(install', journal', e)
    BY <1>0, <1>c, <2>1, <2>4, SameSays
  <2> HIDE DEF e
  <2> QED
    BY <2>1, <2>4, <2>5, <2>6 DEF Progress
<1>23. CASE EndOfRollback
  BY <1>0, <1>b, <1>c, <1>23 DEF EndOfRollback, Throw, Exit, Goto, disk, Progress
<1>24. CASE IoFault
  <2>1. UNCHANGED <<install, journal>>
    BY <1>24 DEF IoFault
  <2>2. CASE pc' = "idle"
    BY <1>b, <2>1, <2>2 DEF Progress
  <2>3. CASE pc' = "unwind" /\ mem' = mem
    <3>1. pc \in Working /\ mode = "forward"
      BY <1>c, <1>24, <2>3 DEF IoFault, Throw, Exit
    <3>2. mem.done = journal.done \/ pc = "unwind"
      BY <1>c, <3>1
    <3> QED
      BY <1>0, <1>b, <1>c, <1>d, <2>1, <2>3, <3>1, <3>2 DEF Progress
  <2>4. CASE pc' = "unwind" /\ mem' # mem
    <3>1. ~(Throw \/ Exit("unsafe") \/ Exit("rejected"))
      BY <2>4 DEF Throw, Exit
    <3>2. pc \in {"validate", "record"} /\ mem.done = journal.done
      BY <1>c, <1>24, <3>1 DEF IoFault
    <3>9. PICK d \in Nat :
            /\ mem' = [mem EXCEPT !.done = d]
            /\ pc = "record" => d = idx
            /\ pc = "validate" => d <= mem.done /\ ResumesAt(mem, d)
      <4>1. CASE pc = "record"
        <5>1. mem' = [mem EXCEPT !.done = idx]
          BY <1>24, <3>1, <4>1 DEF IoFault
        <5>2. idx \in Nat
          BY <1>0
        <5> QED
          BY <4>1, <5>1, <5>2
      <4>2. CASE pc = "validate"
        <5>1. PICK d \in 0..mem.done : ResumesAt(mem, d) /\ mem' = [mem EXCEPT !.done = d]
          BY <1>24, <3>1, <4>2 DEF IoFault
        <5> QED
          BY <1>0, <4>2, <5>1
      <4> QED
        BY <3>2, <4>1, <4>2
    <3>3. mem' \in Journals /\ Same(mem', mem) /\ mem'.done = d
      BY <1>0, <3>9, JournalAdvance DEF Journals, Same
    <3>4. \E e \in 0..d + 1 : e <= journal.done + 1 /\ Cut(install, mem, e)
      <4>1. CASE pc = "record"
        BY <1>0, <1>b, <1>c, <3>2, <3>9, <4>1 DEF Progress
      <4>2. CASE pc = "validate"
        <5>1. PICK c \in 0..mem.done + 1 : Cut(install, mem, c)
          BY <1>b, <1>c, <1>d, <4>2 DEF Progress
        <5>2. mem.done <= Len(mem.ops) /\ d \in 0..mem.done
          BY <1>a, <1>0, <3>9, <4>2 DEF Paired
        <5>3. ResumesAt(mem, d)
          BY <3>9, <4>2
        <5>4. PICK e \in {d, d + 1} : Cut(install, mem, e)
          BY <1>0, <5>1, <5>2, <5>3, CutResumes
        <5> QED
          BY <1>0, <3>2, <5>2, <5>4
      <4> QED
        BY <3>2, <4>1, <4>2
    <3>5. PICK e \in 0..d + 1 : e <= journal.done + 1 /\ Cut(install, mem, e)
      BY <3>4
    <3>6. Cut(install', mem', e)
      BY <1>0, <2>1, <3>3, <3>5, SameSays
    <3> QED
      BY <1>b, <2>1, <2>4, <3>3, <3>5, <3>6 DEF Progress
  <2>5. pc' \in {"idle", "unwind"}
    BY <1>24 DEF IoFault, Throw, Exit
  <2> QED
    BY <2>2, <2>3, <2>4, <2>5
<1>25. CASE Crash
  BY <1>b, <1>25 DEF Crash, Exit, Progress
<1>26. ASSUME NEW p \in Path, NEW c \in {Absent, Corrupt}, DamageInstall(p, c) PROVE Progress'
  <2>1. faults'.install = faults.install + 1
    BY <1>0, <1>26 DEF DamageInstall
  <2> QED
    BY <1>0, <1>b, <2>1 DEF Undamaged
<1>27. ASSUME NEW p \in Path, DamageStore(p) PROVE Progress'
  BY <1>b, <1>27 DEF DamageStore, proc, Progress
<1>28. CASE UNCHANGED vars
  BY <1>b, <1>28 DEF vars, disk, proc, Progress
<1> QED
  BY <1>1, <1>2, <1>3, <1>4, <1>5, <1>6, <1>7, <1>8, <1>9, <1>10, <1>11, <1>12, <1>13, <1>14,
     <1>15, <1>16, <1>17, <1>18, <1>19, <1>20, <1>21, <1>22, <1>23, <1>24, <1>25, <1>26, <1>27, <1>28
     DEF Next, Command, Writer, Environment

(* A settled installation starts with nothing to be counted. *)
LEMMA InitiallyPaired == Init => Paired /\ Progress
BY DEF Init, Paired, Progress, NoJournal, JournalExists, Working, UnderJournal, HasPlan, Steps,
       Copying

(* The strengthened invariant holds in every reachable state. *)
THEOREM TransactionInvariance == Spec => []TInv
<1>1. Init => TInv
  BY Initially, InitiallyPaired DEF TInv
<1>2. TInv /\ [Next]_vars => TInv'
  BY TypeStep, ControlStep, GuardedStep, PairedStep, ProgressStep DEF TInv, IInv
<1> QED
  BY <1>1, <1>2, PTL DEF Spec

(* A file that a pending transaction has changed is one that a rollback gets to,
   its rollback copy is there, and a rollback that has run to its end has left
   none changed, as long as nobody else alters files. *)
THEOREM RollbackReachesAll == Spec => []RollbackReaches
<1>1. TInv => RollbackReaches
  <2> SUFFICES ASSUME TInv, JournalExists, Undamaged, NEW i \in DOMAIN journal.ops,
                      install[journal.ops[i]] # journal.before[journal.ops[i]]
               PROVE  /\ i <= journal.done + 1
                      /\ \/ backup[journal.ops[i]] = journal.before[journal.ops[i]]
                         \/ faults.store > 0
                      /\ ~(pc \in {"verify", "commit"} /\ mode = "back")
    BY DEF RollbackReaches
  <2>1. /\ journal.done \in Nat /\ journal.ops \in Seq(Path) /\ faults.store \in Nat
        /\ Paired /\ Progress
    BY DEF TInv, IInv, TypeOK, Journals
  <2>2. i \in 1..Len(journal.ops)
    BY <2>1
  <2>3. i <= journal.done + 1
    <3>1. PICK c \in 0..journal.done + 1 : Cut(install, journal, c)
      BY <2>1 DEF Progress
    <3>2. i <= c
      BY <2>2, <3>1 DEF Cut
    <3> QED
      BY <2>1, <2>2, <3>2
  <2>4. faults.store = 0 => backup[journal.ops[i]] = journal.before[journal.ops[i]]
    BY <2>1 DEF Paired, Saved, Touched
  <2>5. ASSUME pc \in {"verify", "commit"}, mode = "back" PROVE FALSE
    <3>1. Same(mem, journal)
      BY <2>1, <2>5 DEF Paired, Working, UnderJournal, Steps
    <3>2. Cut(install, mem, 0)
      BY <2>1, <2>5 DEF Progress
    <3>3. ~(i <= 0)
      BY <2>2
    <3> QED
      BY <2>2, <3>1, <3>2, <3>3 DEF Cut, Same
  <2> QED
    BY <2>1, <2>3, <2>4, <2>5
<1> QED
  BY <1>1, TransactionInvariance, PTL

(* The three steps that change an installed file, and what they put there. *)
LEMMA Writes ==
    ASSUME TInv, [Next]_vars, Undamaged', install' # install
    PROVE  /\ JournalExists /\ Undamaged /\ UNCHANGED <<backup, journal>>
           /\ \E i \in 1..Len(journal.ops) :
                 LET p == journal.ops[i]
                 IN  \E v \in {journal.before[p], Payload[journal.target][p]} :
                        install' = [install EXCEPT ![p] = v]
<1>0. /\ faults \in [crash : Nat, io : Nat, install : Nat, store : Nat]
      /\ mem \in Journals /\ mode \in {"forward", "back"} /\ Control /\ Paired
      /\ idx \in Nat /\ Len(mem.ops) \in Nat
  BY JournalUpdate DEF TInv, IInv, TypeOK
<1>1. RemoveRetired \/ ReplaceFile \/ RemoveAdded
  <2>1. \A p \in Path, c \in {Absent, Corrupt} : ~DamageInstall(p, c)
    BY <1>0 DEF DamageInstall, Undamaged
  <2> QED
    BY <2>1 DEF Next, Command, Writer, Environment, PrepareRelease, RemovePrepared,
           ApplyPrepared, Recover, RecoverWithoutJournal, OpenJournal, InspectInstall,
           DurableBackup, WriteJournal, ValidateJournal, MarkApplying, BeginCopy,
           ConfirmCopy, RecordOperation, EndOfOperations, VerifyInstall,
           RemoveJournal, BeginRollback, BeginRestore, EndOfRollback,
           IoFault, Crash, DamageStore, vars, disk
<1>2. /\ pc \in {"step", "rename", "undo"} /\ idx \in 1..Len(mem.ops)
      /\ UNCHANGED <<backup, journal, faults>> /\ install' = [install EXCEPT ![Dest] = Goal]
  <2>1. CASE RemoveRetired
    BY <1>0, <2>1 DEF RemoveRetired, Control
  <2>2. CASE ReplaceFile
    BY <1>0, <2>2 DEF ReplaceFile, Control
  <2>3. CASE RemoveAdded
    BY <1>0, <2>3 DEF RemoveAdded, Control
  <2> QED
    BY <1>1, <2>1, <2>2, <2>3
<1>3. JournalExists /\ Same(mem, journal)
  BY <1>0, <1>2 DEF Control, Paired, Working, UnderJournal, Steps
<1>4. Dest = journal.ops[idx] /\ idx \in 1..Len(journal.ops)
      /\ Goal \in {journal.before[Dest], Payload[journal.target][Dest]}
  BY <1>0, <1>2, <1>3 DEF Same, Dest, Goal
<1> QED
  BY <1>2, <1>3, <1>4 DEF Undamaged

(* A file is changed only under a durable journal that lists it, from and to what
   the journal says, with the copy to restore it in place. *)
THEOREM JournalAheadOfFiles == Spec => WriteAhead
<1>1. TInv /\ [Next]_vars =>
        [\A p \in Path : install'[p] # install[p] /\ Undamaged /\ faults'.install = 0 =>
          /\ JournalExists /\ p \in Touched(journal)
          /\ install[p] \in {journal.before[p], Payload[journal.target][p]}
          /\ install'[p] \in {journal.before[p], Payload[journal.target][p]}
          /\ backup[p] = journal.before[p] \/ faults.store > 0]_vars
  <2> SUFFICES ASSUME TInv, [Next]_vars, NEW p \in Path, install'[p] # install[p],
                      Undamaged, Undamaged'
               PROVE  /\ JournalExists /\ p \in Touched(journal)
                      /\ install[p] \in {journal.before[p], Payload[journal.target][p]}
                      /\ install'[p] \in {journal.before[p], Payload[journal.target][p]}
                      /\ backup[p] = journal.before[p] \/ faults.store > 0
    BY DEF Undamaged
  <2>1. PICK i \in 1..Len(journal.ops) :
          \E v \in {journal.before[journal.ops[i]], Payload[journal.target][journal.ops[i]]} :
             install' = [install EXCEPT ![journal.ops[i]] = v]
    BY Writes
  <2>2. journal \in Journals /\ install \in [Path -> Content] /\ faults.store \in Nat
    BY DEF TInv, IInv, TypeOK
  <2>3. journal.ops[i] = p
    BY <2>1, <2>2
  <2>4. JournalExists
    BY Writes
  <2>5. i \in DOMAIN journal.ops
    BY <2>1, <2>2 DEF Journals
  <2>6. p \in Touched(journal)
    BY <2>3, <2>5 DEF Touched
  <2>7. install'[p] \in {journal.before[p], Payload[journal.target][p]}
    BY <2>1, <2>2, <2>3
  <2>8. install[p] \in {journal.before[p], Payload[journal.target][p]}
    <3>1. PICK c \in 0..journal.done + 1 : Cut(install, journal, c)
      BY <2>4 DEF TInv, Progress
    <3> QED
      BY <2>1, <2>3, <3>1 DEF Cut
  <2>9. backup[p] = journal.before[p] \/ faults.store > 0
    BY <2>2, <2>4, <2>6 DEF TInv, Paired, Saved
  <2> QED
    BY <2>4, <2>6, <2>7, <2>8, <2>9
<1> QED
  BY <1>1, TransactionInvariance, PTL DEF WriteAhead, Spec

-----------------------------------------------------------------------------
(* The refinement of AtomicInstall. *)

\* What AtomicInstall calls the files of the installation.
Files == IF JournalExists THEN PriorInstall ELSE install

(* While a transaction is pending neither its files before it nor its target change. *)
LEMMA PendingStays ==
    ASSUME TInv, [Next]_vars, Undamaged', JournalExists, JournalExists'
    PROVE  UNCHANGED <<Files, journal.target>>
<1>0. mem \in Journals /\ Paired
  BY DEF TInv, IInv, TypeOK
<1>1. Same(journal', journal)
  <2>1. CASE ValidateJournal
    <3>1. CASE journal' = journal
      BY <3>1 DEF Same
    <3>2. CASE journal' # journal
      <4>1. PICK d : journal' = [mem EXCEPT !.done = d]
        BY <2>1, <3>2 DEF ValidateJournal
      <4> QED
        BY <1>0, <2>1, <4>1 DEF ValidateJournal, Journals, Same, Paired, Working, UnderJournal, Steps
    <3> QED
      BY <3>1, <3>2
  <2>2. CASE MarkApplying
    BY <1>0, <2>2 DEF MarkApplying, Journals, Same, Paired, Working, UnderJournal, Steps
  <2>3. CASE RecordOperation
    BY <1>0, <2>3 DEF RecordOperation, Journals, Same, Paired, Working, UnderJournal, Steps
  <2>4. CASE UNCHANGED journal
    BY <2>4 DEF Same
  <2>5. ~WriteJournal /\ ~RemoveJournal
    BY <1>0 DEF WriteJournal, RemoveJournal, Paired, JournalExists, NoJournal
  <2>6. \/ ValidateJournal \/ MarkApplying \/ RecordOperation \/ WriteJournal \/ RemoveJournal
        \/ UNCHANGED journal
    BY DEF Next, Command, Writer, Environment, PrepareRelease, RemovePrepared,
           ApplyPrepared, Recover, RecoverWithoutJournal, OpenJournal, InspectInstall,
           DurableBackup, BeginCopy, RemoveRetired, ReplaceFile, RemoveAdded,
           ConfirmCopy, EndOfOperations, VerifyInstall, BeginRollback, BeginRestore,
           EndOfRollback, IoFault, Crash, DamageInstall, DamageStore, vars, disk
  <2> QED
    BY <2>1, <2>2, <2>3, <2>4, <2>5, <2>6
<1>2. \A p \in Path \ Touched(journal) : install'[p] = install[p]
  <2>1. CASE install' = install
    BY <2>1
  <2>2. CASE install' # install
    <3>1. PICK i \in 1..Len(journal.ops) : \E v : install' = [install EXCEPT ![journal.ops[i]] = v]
      BY <2>2, Writes
    <3>2. journal.ops[i] \in Touched(journal)
      <4>1. journal.ops \in Seq(Path)
        BY DEF TInv, IInv, TypeOK, Journals
      <4> QED
        BY <4>1 DEF Touched
    <3> QED
      BY <3>1, <3>2 DEF TInv, IInv, TypeOK
  <2> QED
    BY <2>1, <2>2
<1>3. Touched(journal)' = Touched(journal)
  BY <1>1 DEF Same, Touched
<1> QED
  BY <1>1, <1>2, <1>3 DEF Files, PriorInstall, Same

(* Only the first write of a journal starts a transaction, and only its removal ends one. *)
LEMMA JournalMoves ==
    ASSUME [Next]_vars, JournalExists # JournalExists', TInv
    PROVE  \/ WriteJournal /\ ~JournalExists
           \/ RemoveJournal /\ JournalExists
<1>0. mem \in Journals /\ Paired /\ Control
  BY DEF TInv, IInv, TypeOK
<1>1. \/ ValidateJournal \/ MarkApplying \/ RecordOperation \/ WriteJournal \/ RemoveJournal
      \/ UNCHANGED journal
  BY DEF Next, Command, Writer, Environment, PrepareRelease, RemovePrepared,
         ApplyPrepared, Recover, RecoverWithoutJournal, OpenJournal, InspectInstall,
         DurableBackup, BeginCopy, RemoveRetired, ReplaceFile, RemoveAdded,
         ConfirmCopy, EndOfOperations, VerifyInstall, BeginRollback, BeginRestore,
         EndOfRollback, IoFault, Crash, DamageInstall, DamageStore, vars, disk
<1>2. CASE ValidateJournal \/ MarkApplying \/ RecordOperation
  <2>1. JournalExists /\ mem.status # "none"
    BY <1>0, <1>2 DEF ValidateJournal, MarkApplying, RecordOperation, Control, UnderJournal,
         HasPlan, Steps
  <2>2. JournalExists'
    <3>1. CASE ValidateJournal
      <4>1. UNCHANGED journal \/ \E d : journal' = [mem EXCEPT !.done = d]
        BY <3>1 DEF ValidateJournal
      <4> QED
        BY <1>0, <2>1, <4>1 DEF Journals, JournalExists
    <3>2. CASE MarkApplying
      BY <1>0, <2>1, <3>2 DEF MarkApplying, Journals, JournalExists
    <3>3. CASE RecordOperation
      BY <1>0, <2>1, <3>3 DEF RecordOperation, Journals, JournalExists
    <3> QED
      BY <1>2, <3>1, <3>2, <3>3
  <2> QED
    BY <2>1, <2>2
<1>3. CASE WriteJournal
  BY <1>0, <1>3 DEF WriteJournal, Paired
<1>4. CASE RemoveJournal
  BY <1>0, <1>4 DEF RemoveJournal, Control, UnderJournal, Steps
<1>5. CASE UNCHANGED journal
  BY <1>5 DEF JournalExists
<1> QED
  BY <1>1, <1>2, <1>3, <1>4, <1>5

(* With every operation undone, the files are those before the transaction. *)
LEMMA UndoneIsPrior ==
    ASSUME NEW j \in Journals, NEW image \in [Path -> Content], Cut(image, j, 0)
    PROVE  image = [p \in Path |-> IF p \in Touched(j) THEN j.before[p] ELSE image[p]]
<1>1. \A p \in Touched(j) : image[p] = j.before[p]
  <2>1. j.ops \in Seq(Path)
    BY DEF Journals
  <2>2. \A i \in DOMAIN j.ops : i \in 1..Len(j.ops) /\ ~(i <= 0)
    BY <2>1
  <2> QED
    BY <2>2 DEF Cut, Touched
<1> QED
  BY <1>1

(* Hidden behind its journal, an update installs the whole release it was started
   for or leaves every file as it was: the transaction implements AtomicInstall as
   long as nobody else alters an installed file. *)
THEOREM TransactionIsAtomic == Spec => AllOrNothing
<1>1. Init => Atomic!Init
  BY DEF Init, Atomic!Init, JournalExists, NoJournal
<1>2. TInv /\ TInv' /\ [Next]_vars =>
        [Undamaged' => Atomic!Next \/ UNCHANGED Atomic!vars]_vars
  <2> SUFFICES ASSUME TInv, TInv', [Next]_vars, Undamaged'
               PROVE  Atomic!Next \/ UNCHANGED Atomic!vars
    OBVIOUS
  <2>0. /\ mem \in Journals /\ journal \in Journals /\ install \in [Path -> Content]
        /\ Paired /\ Control /\ Paired' /\ install' \in [Path -> Content]
        /\ (JournalExists => journal.target \in Release)
        /\ NoRelease \notin Release
    BY ReleaseAssumption DEF TInv, IInv, TypeOK, Control
  <2>1. CASE JournalExists /\ JournalExists'
    BY <2>1, PendingStays DEF Files, Atomic!vars
  <2>2. CASE ~JournalExists /\ ~JournalExists'
    BY <2>0, <2>2, Writes DEF Paired, Atomic!vars
  <2>3. CASE ~JournalExists /\ JournalExists'
    <3>1. WriteJournal
      BY <2>3, JournalMoves
    <3>2. /\ pc = "journal" /\ journal' = mem /\ UNCHANGED <<install, faults>>
      BY <3>1 DEF WriteJournal
    <3>3. Cut(install, mem, 0) /\ mem.target \in Release
      BY <2>0, <3>2 DEF TInv, Undamaged, Progress, Control, HasPlan, Steps
    <3>4. PriorInstall' = install
      BY <2>0, <3>2, <3>3, UndoneIsPrior DEF PriorInstall
    <3>5. Atomic!Begin(mem.target)
      BY <2>0, <2>3, <3>2, <3>4 DEF Atomic!Begin, Paired
    <3> QED
      BY <3>3, <3>5 DEF Atomic!Next
  <2>4. CASE JournalExists /\ ~JournalExists'
    <3>1. RemoveJournal
      BY <2>4, JournalMoves
    <3>2. /\ pc = "commit" /\ journal' = NoJournal /\ UNCHANGED <<install, faults>>
          /\ Same(mem, journal) /\ NoJournal.target = NoRelease
      BY <2>0, <3>1 DEF RemoveJournal, Paired, Working, UnderJournal, Steps, NoJournal
    <3>3. Progress /\ mode \in {"forward", "back"}
      BY <3>2 DEF TInv, IInv, TypeOK, Undamaged
    <3>4. CASE mode = "forward"
      <4>1. install' = Payload[journal.target]
        BY <3>2, <3>3, <3>4 DEF Progress, Same
      <4>2. Atomic!Commit
        BY <2>0, <2>4, <3>2, <4>1 DEF Atomic!Commit
      <4> QED
        BY <4>2 DEF Atomic!Next
    <3>5. CASE mode = "back"
      <4>1. Cut(install, journal, 0)
        BY <2>0, <3>2, <3>3, <3>5, SameSays DEF Progress
      <4>2. PriorInstall = install
        BY <2>0, <4>1, UndoneIsPrior DEF PriorInstall
      <4>3. Atomic!Abort
        BY <2>0, <2>4, <3>2, <4>2 DEF Atomic!Abort
      <4> QED
        BY <4>3 DEF Atomic!Next
    <3> QED
      BY <3>3, <3>4, <3>5
  <2> QED
    BY <2>1, <2>2, <2>3, <2>4
<1> QED
  BY <1>1, <1>2, TransactionInvariance, PTL DEF AllOrNothing, Spec
=============================================================================
