----------------------- MODULE PublisherHeartbeat_proofs -----------------------
(***************************************************************************)
(* Proofs about the publishers of a renderer port, for any number of        *)
(* publishers, sessions, updates and faults.                                *)
(*                                                                         *)
(* One active owner is not inductive by itself.  A publisher keeps the lock *)
(* from its link to its release because whoever removes a lock has seen its *)
(* owner dead, and the dead stay dead while something names them: the       *)
(* publisher that judged the lock, or the startup that found it.            *)
(***************************************************************************)
EXTENDS PublisherHeartbeat, TLAPS

Owning == {"loop", "parent", "pulse", "release", "unlink"}

(* A publisher between its link and its release is the one the lock names.  *)
OwnersHold == \A p \in Publisher : pc[p] \in Owning => lock.owner = p

(* What is about to be removed as stale has a dead owner.                   *)
StaleIsDead == \A p \in Publisher : pc[p] = "rm" => ~Alive(seen[p])

(* A marker that is about to be removed is one whose publisher has exited.  *)
MarkerIsDead == startup.pc \in {"remove", "delete"} => ~Alive(startup.found.owner)

MarkerFound ==
    startup.pc \in {"confirm", "await", "remove", "delete"} => startup.found.state = "handoff"

MarkerStays == startup.pc = "delete" => lock = startup.found

IInv == /\ TypeOK /\ StaleIsDead /\ MarkerIsDead /\ MarkerFound
        /\ ~raced => OwnersHold /\ MarkerStays

Steps == {"off", "link", "read", "probe", "rm", "refused", "loop",
          "parent", "pulse", "release", "unlink"}

-----------------------------------------------------------------------------
(* Types.                                                                   *)

LEMMA LockTyped ==
    /\ NoLock \in Locks
    /\ TypeOK => /\ \A p \in Publisher : Active(p) \in Locks
                 /\ \A p \in Publisher \cup {NoOne} : Marker(p, startup.session) \in Locks
  BY PublisherAssumption DEF TypeOK, Locks, NoLock, Active, Marker

LEMMA FaultTyped == ASSUME TypeOK, Fault PROVE faults' \in 0..MaxFaults
  BY PublisherAssumption DEF TypeOK, Fault

LEMMA ExitsTyped ==
    ASSUME TypeOK, NEW p \in Publisher, Exits(p)
    PROVE  /\ pc' = [pc EXCEPT ![p] = "off"]
           /\ pc' \in [Publisher -> Steps] /\ of' \in [Publisher -> 0..MaxSessions]
           /\ seen' \in [Publisher -> Publisher \cup {NoOne}]
           /\ second' \in [Publisher -> BOOLEAN] /\ legacy' \subseteq Publisher
  BY PublisherAssumption DEF TypeOK, Exits, Goto, Steps

LEMMA GotoTyped ==
    ASSUME TypeOK, NEW p \in Publisher, NEW step \in Steps, Goto(p, step)
    PROVE  pc' \in [Publisher -> Steps]
  BY DEF TypeOK, Goto, Steps

StartupSteps == {"idle", "read", "judge", "validate", "replace", "confirm", "await",
                 "remove", "delete", "launch"}
StartupType == [pc : StartupSteps, session : 0..MaxSessions, found : Locks]

LEMMA StartupGotoTyped ==
    ASSUME TypeOK, NEW step \in StartupSteps, StartupGoto(step)
    PROVE  /\ startup' \in StartupType /\ startup'.pc = step
           /\ startup'.session = startup.session /\ startup'.found = startup.found
  BY DEF TypeOK, StartupGoto, StartupType, StartupSteps

LEMMA StartupFoundTyped ==
    ASSUME TypeOK, NEW step \in StartupSteps, NEW what \in Locks,
           startup' = [startup EXCEPT !.pc = step, !.found = what]
    PROVE  startup' \in StartupType /\ startup'.pc = step /\ startup'.found = what
  BY DEF TypeOK, StartupType, StartupSteps

LEMMA ThrowTyped == ASSUME TypeOK, Throw PROVE startup' \in StartupType /\ startup'.pc = "idle"
  BY LockTyped, PublisherAssumption DEF TypeOK, Throw, IdleStartup, StartupType, StartupSteps

(* A step of the startup that leaves the publishers alone.                  *)
LEMMA StartupAloneTyped ==
    ASSUME TypeOK, lock' \in Locks, startup' \in StartupType, faults' \in 0..MaxFaults,
           raced' \in BOOLEAN, UNCHANGED <<appVars, pc, ownVars>>
    PROVE  TypeOK'
  BY DEF TypeOK, StartupType, StartupSteps, appVars, ownVars

-----------------------------------------------------------------------------
(* The steps of a publisher.                                                *)

LEMMA PublisherTyped ==
    ASSUME TypeOK, NEW p \in Publisher, Step(p) \/ PublisherDies(p)
    PROVE  TypeOK'
<1>1. CASE PublishLock(p)
  BY <1>1, LockTyped, GotoTyped DEF TypeOK, PublishLock, appVars, ownVars, Steps
<1>2. CASE ReadOwner(p)
  BY <1>2, GotoTyped DEF TypeOK, ReadOwner, appVars, Steps, Locks
<1>3. CASE ProbeOwner(p)
  BY <1>3, GotoTyped, FaultTyped DEF TypeOK, ProbeOwner, appVars, ownVars, Steps
<1>4. CASE RemoveStale(p)
  BY <1>4, LockTyped, GotoTyped DEF TypeOK, RemoveStale, appVars, Steps
<1>5. CASE Wait(p)
  BY <1>5, GotoTyped DEF TypeOK, Wait, appVars, Steps
<1>6. CASE GiveUp(p)
  BY <1>6, ExitsTyped DEF TypeOK, GiveUp, Steps
<1>7. CASE CheckLock(p)
  BY <1>7, GotoTyped DEF TypeOK, CheckLock, appVars, ownVars, Steps
<1>8. CASE CheckParent(p)
  BY <1>8, GotoTyped, FaultTyped DEF TypeOK, CheckParent, appVars, ownVars, Steps
<1>9. CASE Pulse(p)
  BY <1>9, GotoTyped DEF TypeOK, Pulse, appVars, ownVars, Steps
<1>10. CASE Release(p)
  BY <1>10, GotoTyped, ExitsTyped DEF TypeOK, Release, ownVars, Steps
<1>11. CASE Unlink(p)
  BY <1>11, LockTyped, ExitsTyped DEF TypeOK, Unlink, Steps
<1>12. CASE PublisherDies(p)
  BY <1>12, ExitsTyped, FaultTyped DEF TypeOK, PublisherDies, Steps
<1> QED BY <1>1, <1>2, <1>3, <1>4, <1>5, <1>6, <1>7, <1>8, <1>9, <1>10, <1>11, <1>12 DEF Step

LEMMA StartupStepTyped ==
    ASSUME TypeOK, Startup \/ BeginStartup \/ StartupDies
    PROVE  TypeOK'
<1> USE StartupGotoTyped, ThrowTyped, StartupAloneTyped DEF StartupSteps
<1>0. lock \in Locks /\ faults \in 0..MaxFaults /\ raced \in BOOLEAN
  BY DEF TypeOK
<1>1. CASE ReadPublisherLock
  <2>1. startup' \in StartupType
    BY <1>0, <1>1, StartupFoundTyped DEF ReadPublisherLock
  <2> QED BY <1>0, <1>1, <2>1 DEF ReadPublisherLock
<1>2. CASE JudgeHandoff
  <2>1. Throw \/ StartupGoto("await") \/ StartupGoto("remove")
    BY <1>2 DEF JudgeHandoff
  <2> QED BY <1>0, <1>2, <2>1 DEF JudgeHandoff
<1>3. CASE JudgeActive
  <2>1. Throw \/ StartupGoto("launch") \/ StartupGoto("validate")
    BY <1>3 DEF JudgeActive
  <2>2. faults' \in 0..MaxFaults
    BY <1>0, <1>3, FaultTyped DEF JudgeActive
  <2> QED BY <1>0, <1>3, <2>1, <2>2 DEF JudgeActive
<1>4. CASE ValidateOwner
  BY <1>0, <1>4 DEF ValidateOwner
<1>5. CASE ReplaceLock
  <2>1. CASE lock = NoLock
    BY <1>0, <1>5, <2>1 DEF ReplaceLock
  <2>2. CASE lock # NoLock
    <3>1. lock' \in Locks
      BY <1>5, <2>2 DEF TypeOK, ReplaceLock, Marker, Locks
    <3>2. startup' \in StartupType
      BY <1>5, <2>2, <3>1, StartupFoundTyped DEF ReplaceLock
    <3>3. raced' \in BOOLEAN
      BY <1>0, <1>5 DEF ReplaceLock
    <3> QED BY <1>0, <1>5, <3>1, <3>2, <3>3 DEF ReplaceLock
  <2> QED BY <2>1, <2>2
<1>6. CASE ConfirmMarker
  BY <1>0, <1>6 DEF ConfirmMarker
<1>7. CASE AwaitExit
  BY <1>0, <1>7 DEF AwaitExit
<1>8. CASE ValidateMarker
  BY <1>0, <1>8 DEF ValidateMarker
<1>9. CASE RemoveMarker
  BY <1>0, <1>9, LockTyped DEF RemoveMarker
<1>10. ASSUME NEW p \in Publisher, LaunchPublisher(p) PROVE TypeOK'
  <2>1. startup' \in StartupType
    BY <1>10 DEF LaunchPublisher, Throw
  <2>2. startup.session \in 0..MaxSessions
    BY DEF TypeOK
  <2> QED BY <1>10, <2>1, <2>2 DEF TypeOK, LaunchPublisher, Goto, appVars, StartupType
<1>11. CASE BeginStartup
  <2>1. startup' \in StartupType
    BY <1>11, LockTyped DEF TypeOK, BeginStartup, IdleStartup, StartupType
  <2> QED BY <1>0, <1>11, <2>1 DEF BeginStartup
<1>12. CASE StartupDies
  BY <1>0, <1>12, FaultTyped DEF StartupDies
<1> QED BY <1>1, <1>2, <1>3, <1>4, <1>5, <1>6, <1>7, <1>8, <1>9, <1>10, <1>11, <1>12 DEF Startup

LEMMA AppTyped == ASSUME TypeOK, AppStarts \/ AppExits \/ PackageReplaced PROVE TypeOK'
<1>1. CASE AppStarts
  BY <1>1, PublisherAssumption DEF TypeOK, AppStarts, ownVars
<1>2. CASE AppExits
  BY <1>2 DEF TypeOK, AppExits, ownVars
<1>3. CASE PackageReplaced
  BY <1>3, PublisherAssumption DEF TypeOK, PackageReplaced, ownVars
<1> QED BY <1>1, <1>2, <1>3

-----------------------------------------------------------------------------
(* The inductive invariant, first for the publishers.                       *)

(* A running publisher takes a step that leaves lock and startup alone.     *)
LEMMA MoveKeeps ==
    ASSUME IInv, TypeOK', NEW p \in Publisher, NEW step, pc[p] # "off",
           pc' = [pc EXCEPT ![p] = step],
           step \in Owning => pc[p] \in Owning,
           step = "rm" => ~Alive(seen[p]) /\ seen'[p] = seen[p],
           \A q \in Publisher : q # p => seen'[q] = seen[q],
           UNCHANGED <<lock, raced, startup>>
    PROVE  IInv'
<1>1. StaleIsDead' /\ MarkerIsDead' /\ MarkerFound'
  BY DEF IInv, TypeOK, StaleIsDead, MarkerIsDead, MarkerFound, Alive, Locks
<1>2. ASSUME ~raced' PROVE OwnersHold' /\ MarkerStays'
  BY <1>2 DEF IInv, TypeOK, OwnersHold, MarkerStays
<1> QED BY <1>1, <1>2 DEF IInv

LEMMA PublishLockKeeps ==
    ASSUME IInv, TypeOK', NEW p \in Publisher, PublishLock(p) PROVE IInv'
<1>1. CASE lock = NoLock
  <2>1. lock' = Active(p) /\ pc' = [pc EXCEPT ![p] = "loop"]
    BY <1>1 DEF PublishLock, Goto
  <2>2. StaleIsDead' /\ MarkerIsDead' /\ MarkerFound'
    BY <2>1 DEF IInv, TypeOK, StaleIsDead, MarkerIsDead, MarkerFound, Alive, Locks, PublishLock, ownVars
  <2>3. ASSUME ~raced' PROVE OwnersHold' /\ MarkerStays'
    <3>1. OwnersHold /\ MarkerStays
      BY <2>3 DEF IInv, PublishLock
    <3>2. \A q \in Publisher : pc[q] \notin Owning
      BY <1>1, <3>1, PublisherAssumption DEF OwnersHold, NoLock
    <3>3. startup.pc # "delete"
      BY <1>1, <3>1 DEF IInv, MarkerFound, MarkerStays, NoLock
    <3> QED BY <2>1, <3>2, <3>3 DEF IInv, TypeOK, OwnersHold, MarkerStays, PublishLock, Active
  <2> QED BY <2>2, <2>3 DEF IInv
<1>2. CASE lock # NoLock
  BY <1>2, MoveKeeps DEF PublishLock, Goto, Owning, ownVars
<1> QED BY <1>1, <1>2

LEMMA RemoveStaleKeeps ==
    ASSUME IInv, TypeOK', NEW p \in Publisher, RemoveStale(p) PROVE IInv'
<1>1. PICK step \in {"refused", "link"} : pc' = [pc EXCEPT ![p] = step]
  BY DEF RemoveStale, Goto
<1>2. StaleIsDead' /\ MarkerIsDead' /\ MarkerFound'
  BY <1>1 DEF IInv, TypeOK, StaleIsDead, MarkerIsDead, MarkerFound, Alive, Locks, RemoveStale
<1>3. ASSUME ~raced' PROVE OwnersHold' /\ MarkerStays'
  <2>1. OwnersHold /\ MarkerStays /\ lock' = NoLock
    BY <1>3 DEF IInv, RemoveStale
  <2>2. lock = NoLock \/ (lock.state = "active" /\ lock.owner = seen[p])
    BY <1>3 DEF RemoveStale
  <2>3. \A q \in Publisher : pc[q] \notin Owning
    BY <2>1, <2>2, PublisherAssumption
    DEF IInv, StaleIsDead, OwnersHold, Alive, RemoveStale, NoLock, Owning
  <2>4. startup.pc # "delete"
    BY <2>1, <2>2 DEF IInv, MarkerFound, MarkerStays, NoLock
  <2> QED BY <1>1, <2>3, <2>4 DEF IInv, TypeOK, OwnersHold, MarkerStays, RemoveStale, Owning
<1> QED BY <1>2, <1>3 DEF IInv

LEMMA UnlinkKeeps == ASSUME IInv, TypeOK', NEW p \in Publisher, Unlink(p) PROVE IInv'
<1>1. pc' = [pc EXCEPT ![p] = "off"] /\ seen' = [seen EXCEPT ![p] = NoOne]
  BY DEF Unlink, Exits, Goto
<1>2. StaleIsDead' /\ MarkerIsDead' /\ MarkerFound'
  BY <1>1 DEF IInv, TypeOK, StaleIsDead, MarkerIsDead, MarkerFound, Alive, Locks, Unlink
<1>3. ASSUME ~raced' PROVE OwnersHold' /\ MarkerStays'
  <2>1. OwnersHold /\ MarkerStays /\ lock' = NoLock /\ lock.owner = p
    BY <1>3 DEF IInv, OwnersHold, Unlink, Owning
  <2>2. \A q \in Publisher : q # p => pc[q] \notin Owning
    BY <2>1 DEF OwnersHold
  <2>3. startup.pc # "delete"
    BY <2>1, PublisherAssumption DEF IInv, MarkerIsDead, MarkerStays, Alive, Unlink
  <2> QED BY <1>1, <2>2, <2>3 DEF IInv, TypeOK, OwnersHold, MarkerStays, Unlink, Owning
<1> QED BY <1>2, <1>3 DEF IInv

LEMMA PublisherKeeps ==
    ASSUME IInv, NEW p \in Publisher, Step(p) \/ PublisherDies(p) PROVE IInv'
<1>0. TypeOK' /\ TypeOK
  BY PublisherTyped DEF IInv
<1> USE <1>0, MoveKeeps DEF Goto, Owning
<1>1. CASE PublishLock(p) BY <1>1, PublishLockKeeps
<1>2. CASE ReadOwner(p)
  BY <1>2 DEF ReadOwner, TypeOK
<1>3. CASE ProbeOwner(p)
  BY <1>3 DEF ProbeOwner, ownVars
<1>4. CASE RemoveStale(p) BY <1>4, RemoveStaleKeeps
<1>5. CASE Wait(p)
  BY <1>5 DEF Wait, TypeOK
<1>6. CASE GiveUp(p)
  BY <1>6 DEF GiveUp, Exits, TypeOK
<1>7. CASE CheckLock(p)
  BY <1>7 DEF CheckLock, ownVars
<1>8. CASE CheckParent(p)
  BY <1>8 DEF CheckParent, ownVars
<1>9. CASE Pulse(p)
  BY <1>9 DEF Pulse, ownVars
<1>10. CASE Release(p)
  BY <1>10 DEF Release, Exits, ownVars, TypeOK
<1>11. CASE Unlink(p) BY <1>11, UnlinkKeeps
<1>12. CASE PublisherDies(p)
  BY <1>12 DEF PublisherDies, Exits, Alive, TypeOK
<1> QED BY <1>1, <1>2, <1>3, <1>4, <1>5, <1>6, <1>7, <1>8, <1>9, <1>10, <1>11, <1>12 DEF Step

-----------------------------------------------------------------------------
(* ... and for the startup.                                                 *)

(* The startup goes on without touching the lock.                           *)
LEMMA StartupMoveKeeps ==
    ASSUME IInv, TypeOK', UNCHANGED <<lock, raced, pc, seen>>,
           startup'.pc \in {"remove", "delete"} => ~Alive(startup'.found.owner),
           startup'.pc \in {"confirm", "await", "remove", "delete"}
               => startup'.found.state = "handoff",
           startup'.pc = "delete" => lock = startup'.found
    PROVE  IInv'
  BY DEF IInv, StaleIsDead, MarkerIsDead, MarkerFound, OwnersHold, MarkerStays, Alive

LEMMA ReplaceLockKeeps == ASSUME IInv, TypeOK', ReplaceLock PROVE IInv'
<1>1. CASE lock = NoLock
  <2>1. startup'.pc = "idle" /\ UNCHANGED <<lock, pc, seen>>
    BY <1>1, ThrowTyped DEF ReplaceLock, IInv, ownVars
  <2>2. raced' = raced
    BY <1>1 DEF ReplaceLock, IInv, TypeOK
  <2> QED BY <2>1, <2>2, StartupMoveKeeps
<1>2. CASE lock # NoLock
  <2>1. /\ lock' = Marker(startup.found.owner, startup.session)
        /\ startup' = [startup EXCEPT !.pc = "confirm", !.found = lock']
    BY <1>2 DEF ReplaceLock
  <2>2. startup'.pc = "confirm" /\ startup'.found = lock'
    BY <2>1 DEF IInv, TypeOK
  <2>3. StaleIsDead' /\ MarkerIsDead' /\ MarkerFound'
    BY <2>1, <2>2 DEF IInv, StaleIsDead, MarkerIsDead, MarkerFound, Alive, ReplaceLock, Marker, ownVars
  <2>4. ASSUME ~raced' PROVE OwnersHold' /\ MarkerStays'
    <3>1. OwnersHold /\ lock = startup.found
      BY <1>2, <2>4 DEF IInv, ReplaceLock
    <3> QED BY <2>1, <2>2, <3>1 DEF OwnersHold, MarkerStays, ReplaceLock, Marker
  <2> QED BY <2>3, <2>4 DEF IInv
<1> QED BY <1>1, <1>2

LEMMA RemoveMarkerKeeps == ASSUME IInv, TypeOK', RemoveMarker PROVE IInv'
<1>1. startup'.pc \in {"idle", "launch"}
  BY StartupGotoTyped, ThrowTyped DEF RemoveMarker, IInv, StartupSteps
<1>2. StaleIsDead' /\ MarkerIsDead' /\ MarkerFound'
  BY <1>1 DEF IInv, StaleIsDead, MarkerIsDead, MarkerFound, Alive, RemoveMarker, ownVars
<1>3. ASSUME ~raced' PROVE OwnersHold' /\ MarkerStays'
  <2>1. OwnersHold /\ lock = startup.found /\ ~Alive(startup.found.owner)
    BY <1>3 DEF IInv, MarkerStays, MarkerIsDead, RemoveMarker, At
  <2>2. \A q \in Publisher : pc[q] \notin Owning
    BY <2>1, PublisherAssumption DEF OwnersHold, Alive, Owning
  <2> QED BY <1>1, <2>2 DEF OwnersHold, MarkerStays, RemoveMarker
<1> QED BY <1>2, <1>3 DEF IInv

LEMMA LaunchKeeps == ASSUME IInv, TypeOK', NEW p \in Publisher, LaunchPublisher(p) PROVE IInv'
<1>1. pc' = [pc EXCEPT ![p] = "link"] /\ startup'.pc = "idle"
  BY DEF LaunchPublisher, Goto, IdleStartup
<1>2. \A q \in Publisher : seen[q] # p
  BY DEF LaunchPublisher, Unnamed
<1>3. StaleIsDead' /\ MarkerIsDead' /\ MarkerFound'
  BY <1>1, <1>2 DEF IInv, TypeOK, StaleIsDead, MarkerIsDead, MarkerFound, Alive, LaunchPublisher
<1>4. ASSUME ~raced' PROVE OwnersHold' /\ MarkerStays'
  BY <1>1, <1>4 DEF IInv, TypeOK, OwnersHold, MarkerStays, LaunchPublisher, Owning
<1> QED BY <1>3, <1>4 DEF IInv

LEMMA StartupKeeps == ASSUME IInv, Startup \/ BeginStartup \/ StartupDies PROVE IInv'
<1>0. TypeOK' /\ TypeOK
  BY StartupStepTyped DEF IInv
<1> USE <1>0, StartupMoveKeeps, StartupGotoTyped, ThrowTyped DEF StartupSteps, At, ownVars
<1>1. CASE ReadPublisherLock
  BY <1>1 DEF ReadPublisherLock, TypeOK
<1>2. CASE JudgeHandoff
  BY <1>2 DEF JudgeHandoff
<1>3. CASE JudgeActive
  BY <1>3 DEF JudgeActive
<1>4. CASE ValidateOwner
  BY <1>4 DEF ValidateOwner
<1>5. CASE ReplaceLock BY <1>5, ReplaceLockKeeps
<1>6. CASE ConfirmMarker
  BY <1>6 DEF ConfirmMarker, IInv, MarkerFound
<1>7. CASE AwaitExit
  BY <1>7 DEF AwaitExit, IInv, MarkerFound
<1>8. CASE ValidateMarker
  BY <1>8 DEF ValidateMarker, IInv, MarkerFound, MarkerIsDead
<1>9. CASE RemoveMarker BY <1>9, RemoveMarkerKeeps
<1>10. ASSUME NEW p \in Publisher, LaunchPublisher(p) PROVE IInv'
  BY <1>10, LaunchKeeps
<1>11. CASE BeginStartup
  BY <1>11 DEF BeginStartup, IdleStartup
<1>12. CASE StartupDies
  BY <1>12 DEF StartupDies
<1> QED BY <1>1, <1>2, <1>3, <1>4, <1>5, <1>6, <1>7, <1>8, <1>9, <1>10, <1>11, <1>12 DEF Startup

LEMMA AppKeeps == ASSUME IInv, AppStarts \/ AppExits \/ PackageReplaced PROVE IInv'
<1>1. TypeOK' /\ UNCHANGED <<lock, pc, seen, startup, raced>>
  BY AppTyped DEF IInv, AppStarts, AppExits, PackageReplaced, ownVars
<1> QED BY <1>1 DEF IInv, StaleIsDead, MarkerIsDead, MarkerFound, OwnersHold, MarkerStays, Alive

-----------------------------------------------------------------------------

LEMMA InitHolds == Init => IInv
<1> SUFFICES ASSUME Init PROVE IInv
  OBVIOUS
<1>1. lock \in Locks /\ startup \in StartupType
  BY LockTyped, PublisherAssumption DEF Init, IdleStartup, StartupType, StartupSteps
<1>2. 0 \in 0..MaxSessions /\ 0 \in 0..MaxUpdates /\ 0 \in 0..MaxFaults
  BY PublisherAssumption
<1>3. pc \in [Publisher -> Steps]
  BY DEF Init, Steps
<1>4. TypeOK
  BY <1>1, <1>2, <1>3 DEF Init, TypeOK, StartupType, StartupSteps, Steps
<1> QED BY <1>4 DEF Init, IInv, StaleIsDead, MarkerIsDead, MarkerFound, OwnersHold, MarkerStays,
                    IdleStartup, Owning

LEMMA Invariance == Spec => []IInv
<1>1. IInv /\ Next => IInv'
  BY PublisherKeeps, StartupKeeps, AppKeeps DEF Next
<1>2. IInv /\ UNCHANGED vars => IInv'
  BY DEF IInv, TypeOK, StaleIsDead, MarkerIsDead, MarkerFound, OwnersHold, MarkerStays, Alive,
         vars, appVars, ownVars
<1> QED BY <1>1, <1>2, InitHolds, PTL DEF Spec

(* The lock file, the publishers, the startup and the app keep their types. *)
THEOREM TypeCorrect == Spec => []TypeOK
<1>1. IInv => TypeOK
  BY DEF IInv
<1> QED BY <1>1, Invariance, PTL

(* Two publishers never pulse one renderer, through sessions, handoffs to a *)
(* newer package, deaths and startups that died, unless a lock was removed  *)
(* or replaced that was not the one judged before.                          *)
THEOREM OneOwnerPulses == Spec => []OneActiveOwner
<1>1. IInv => OneActiveOwner
  BY DEF IInv, OwnersHold, OneActiveOwner, Owning
<1> QED BY <1>1, Invariance, PTL
=============================================================================
