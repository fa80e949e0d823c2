----------------------- MODULE CoordinatorHandoff_proofs -----------------------
(***************************************************************************)
(* Proofs about the handoff of an app from one coordinator to the next, for *)
(* any coordinators, handoffs and faults.                                   *)
(*                                                                         *)
(* That who serves the app owns the lock is not inductive by itself.  A     *)
(* coordinator keeps the lock from the moment it made the file until it     *)
(* unlinks it: nobody else writes the file of another, only one process at  *)
(* a time is inside the reclaim directory, and what it removes there has an *)
(* owner that is gone, unless the race of read and probe was met.           *)
(***************************************************************************)
EXTENDS CoordinatorHandoff, TLAPS

Steps == Acquires \cup Runs \cup HandoffSteps

Serving == {"activate", "active", "arming", "quiesce"}
Holding == {"got", "attach", "activate", "active", "arming", "quiesce", "release", "unlink",
            "stop", "stopUnlink"}
Making == {"own", "reown"}
Outside == {"off", "take", "reclaim", "read", "probe", "rm", "retake", "refused", "publish",
            "waiting"}
Reclaiming == {"read", "probe", "rm", "retake", "reown", "unreclaim"}
Judging == {"probe", "rm", "retake"}

(* Who has written its identity inside the reclaim directory holds the lock *)
(* when it leaves the directory; who has not, does not.                     *)
Holds(c) == pc[c] \in Holding \/ (pc[c] = "unreclaim" /\ seen[c] = c)
Without(c) == pc[c] \in Outside \/ (pc[c] = "unreclaim" /\ seen[c] # c)

NotTheirs == \A c \in Coord : Without(c) => lock[1] # c

ReclaimIsTheirs == \A c \in Coord : pc[c] \in Reclaiming => reclaim = c

SeenIsOther == \A c \in Coord : pc[c] \in Judging => seen[c] \in Coord \ {c}

AttachedServe == \A c \in attached : pc[c] \in Serving

LockHeld == \A c \in Coord : /\ Holds(c) => lock = OwnedBy(c)
                             /\ pc[c] \in Making => lock = <<c, FALSE>>
                             /\ pc[c] # "restore"

(* What is about to be removed has an owner that never comes back.          *)
StaleIsDead == \A c \in Coord : pc[c] = "rm" => lock = OwnedBy(seen[c]) /\ pc[seen[c]] = "gone"

(* Before its first handoff the predecessor just serves.                    *)
HandsOver == attempt = 0 => pc[pred] \in {"active", "gone"}

IInv == /\ TypeOK /\ NotTheirs /\ ReclaimIsTheirs /\ SeenIsOther /\ AttachedServe
        /\ HandsOver
        /\ ~raced => LockHeld /\ StaleIsDead

-----------------------------------------------------------------------------
(* Types.                                                                   *)

LEMMA PredIs == pred \in Coord
  BY HandoffAssumption

LockType == (Coord \X BOOLEAN) \cup {Free}

LEMMA LockParts ==
    /\ Free \in LockType /\ Free[1] = NoOne /\ Free[2] = FALSE
    /\ \A c \in Coord : /\ OwnedBy(c) \in LockType /\ <<c, FALSE>> \in LockType
                        /\ OwnedBy(c)[1] = c /\ OwnedBy(c)[2] = TRUE
                        /\ <<c, FALSE>>[1] = c /\ <<c, FALSE>>[2] = FALSE
                        /\ OwnedBy(c) # Free /\ <<c, FALSE>> # Free
                        /\ c # NoOne
    /\ \A c, d \in Coord : OwnedBy(c) # <<d, FALSE>> /\ (OwnedBy(c) = OwnedBy(d) => c = d)
  BY HandoffAssumption DEF LockType, Free, OwnedBy

LEMMA OwnerIs ==
    ASSUME TypeOK
    PROVE  /\ lock \in LockType /\ Owner \in Coord \cup {NoOne}
           /\ \A c \in Coord : Owner = c <=> lock = OwnedBy(c)
           /\ Owner = NoOne \/ Owner = lock[1]
<1>1. lock \in LockType
  BY DEF TypeOK, LockType
<1>2. CASE lock = Free
  <2>1. Owner = NoOne
    BY <1>2, LockParts DEF Owner
  <2> QED BY <1>1, <1>2, <2>1, LockParts
<1>3. CASE lock \in Coord \X BOOLEAN
  <2>1. PICK d \in Coord, b \in BOOLEAN : lock = <<d, b>>
    BY <1>3
  <2>2. Owner = (IF b THEN d ELSE NoOne) /\ lock[1] = d
    BY <2>1 DEF Owner
  <2>3. \A c \in Coord : lock = OwnedBy(c) <=> d = c /\ b = TRUE
    BY <2>1 DEF OwnedBy
  <2> QED BY <1>1, <2>1, <2>2, <2>3, LockParts
<1> QED BY <1>1, <1>2, <1>3 DEF LockType

FaultType == [crash : Nat, failure : Nat, late : Nat]

LEMMA FaultTyped ==
    ASSUME TypeOK, Crashed \/ Failed \/ Late
    PROVE  faults' \in FaultType
<1>1. faults \in FaultType
  BY DEF TypeOK, FaultType
<1>2. faults' \in {[faults EXCEPT !.crash = @ + 1], [faults EXCEPT !.failure = @ + 1],
                   [faults EXCEPT !.late = @ + 1]}
  BY DEF Crashed, Failed, Late, Fault
<1> QED BY <1>1, <1>2 DEF FaultType

LEMMA GotoTyped ==
    ASSUME TypeOK, NEW c \in Coord, NEW s \in Steps, Goto(c, s)
    PROVE  /\ pc' \in [Coord -> Steps] /\ pc'[c] = s
           /\ \A d \in Coord \ {c} : pc'[d] = pc[d]
  BY DEF TypeOK, Goto, Steps

(* What a coordinator's step leaves alone.                                  *)
CoordTyped == /\ pc \in [Coord -> Steps] /\ attached \subseteq Coord
              /\ phase \in [Coord -> {"none", "starting", "active", "stopped"}]
LockTyped == /\ lock \in LockType /\ reclaim \in Coord \cup {NoOne}
             /\ seen \in [Coord -> Coord \cup {NoOne}] /\ raced \in BOOLEAN
HelperTyped ==
    /\ hpc \in [Attempt -> {"off", "arm", "wait", "launch", "launching", "poll", "ready",
                            "stop", "report", "gone"}]
    /\ before \in [Attempt -> SUBSET Coord]
    /\ launcher \in [Attempt \cup {User} -> Coord \cup {NoOne}]
    /\ candidate \in [Attempt -> Coord \cup {NoOne}]
    /\ result \in [Attempt -> {"none", "armed", "yes", "no"}]
RestTyped == attempt \in 0..Attempts /\ released \subseteq Attempt /\ faults \in FaultType

LEMMA TypedParts ==
    /\ TypeOK <=> CoordTyped /\ LockTyped /\ HelperTyped /\ RestTyped
    /\ TypeOK' <=> CoordTyped' /\ LockTyped' /\ HelperTyped' /\ RestTyped'
  BY DEF TypeOK, CoordTyped, LockTyped, HelperTyped, RestTyped, LockType, FaultType, Steps

LEMMA StepsAre == Steps = {"take", "own", "reown", "reclaim", "read", "probe", "rm", "retake",
                           "unreclaim", "got", "refused", "off", "attach", "activate", "active",
                           "stop", "stopUnlink", "gone", "arming", "quiesce", "release",
                           "unlink", "publish", "waiting", "restore"}
  BY DEF Steps, Acquires, Runs, HandoffSteps

-----------------------------------------------------------------------------
(* What every step has to show.                                             *)

LEMMA StillKeeps ==
    ASSUME IInv, UNCHANGED <<lockVars, coordVars, attempt>>, HelperTyped', RestTyped'
    PROVE  IInv'
<1>1. /\ UNCHANGED <<lock, reclaim, seen, raced, pc, attached, phase>>
  BY DEF lockVars, coordVars
<1>2. TypeOK'
  BY <1>1, TypedParts DEF IInv, CoordTyped, LockTyped
<1>3. NotTheirs' /\ ReclaimIsTheirs' /\ SeenIsOther' /\ AttachedServe' /\ HandsOver'
  BY <1>1 DEF IInv, NotTheirs, ReclaimIsTheirs, SeenIsOther, AttachedServe, HandsOver, Without
<1>4. ~raced' => LockHeld' /\ StaleIsDead'
  BY <1>1 DEF IInv, LockHeld, StaleIsDead, Holds
<1> QED BY <1>2, <1>3, <1>4 DEF IInv

(* A step of one coordinator: what it brings for itself, and that it takes  *)
(* nothing from the others.                                                 *)
LEMMA StepKeeps ==
    ASSUME IInv, NEW c \in Coord, NEW s \in Steps, Goto(c, s), pc[c] # "gone" \/ s = "gone",
           LockTyped', HelperTyped', RestTyped',
           attempt' = attempt \/ attempt' # 0, pc[c] = "active" => attempt' # 0 \/ s = "gone",
           phase' \in [Coord -> {"none", "starting", "active", "stopped"}],
           \A d \in Coord \ {c} : seen'[d] = seen[d],
           raced => raced',
           attached' \subseteq attached \cup {c}, c \in attached' => s \in Serving,
           s \in Outside \/ (s = "unreclaim" /\ seen'[c] # c) => lock'[1] # c,
           s \in Reclaiming => reclaim' = c,
           s \in Judging => seen'[c] \in Coord \ {c},
           \A d \in Coord \ {c} : (lock'[1] = d => lock[1] = d) /\ (reclaim = d => reclaim' = d),
           ~raced' => /\ s \in Holding \/ (s = "unreclaim" /\ seen'[c] = c) => lock' = OwnedBy(c)
                      /\ s \in Making => lock' = <<c, FALSE>>
                      /\ s = "rm" => lock' = OwnedBy(seen'[c]) /\ pc[seen'[c]] = "gone"
                      /\ s # "restore",
           ~raced' => \/ lock' = lock
                      \/ \A d \in Coord \ {c} : ~Holds(d) /\ pc[d] \notin Making \cup {"rm"}
    PROVE  IInv'
<1>1. /\ pc' \in [Coord -> Steps] /\ pc'[c] = s
      /\ \A d \in Coord \ {c} : pc'[d] = pc[d]
  BY GotoTyped DEF IInv
<1>2. TypeOK'
  BY <1>1, TypedParts DEF IInv, CoordTyped
<1>3. NotTheirs' /\ ReclaimIsTheirs' /\ SeenIsOther'
  BY <1>1 DEF IInv, NotTheirs, ReclaimIsTheirs, SeenIsOther, Without
<1>4. AttachedServe'
  BY <1>1, TypedParts DEF IInv, AttachedServe, CoordTyped
<1>5. ASSUME ~raced' PROVE LockHeld'
  <2>1. LockHeld
    BY <1>5 DEF IInv
  <2> QED BY <1>1, <1>5, <2>1 DEF LockHeld, Holds
<1>6. ASSUME ~raced' PROVE StaleIsDead'
  <2> SUFFICES ASSUME NEW d \in Coord, pc'[d] = "rm"
               PROVE  lock' = OwnedBy(seen'[d]) /\ pc'[seen'[d]] = "gone"
    BY DEF StaleIsDead
  <2>1. seen'[d] \in Coord \ {d}
    BY <1>3 DEF SeenIsOther, Judging
  <2>2. CASE d = c
    BY <1>1, <1>6, <2>1, <2>2
  <2>3. CASE d # c
    <3>1. pc[d] = "rm" /\ seen'[d] = seen[d]
      BY <1>1, <2>3
    <3>2. lock = OwnedBy(seen[d]) /\ pc[seen[d]] = "gone"
      BY <1>6, <3>1 DEF IInv, StaleIsDead
    <3>3. lock' = lock
      BY <1>6, <2>3, <3>1
    <3> QED BY <1>1, <2>1, <3>1, <3>2, <3>3
  <2> QED BY <2>2, <2>3
<1>7. HandsOver'
  BY <1>1, PredIs DEF IInv, HandsOver
<1> QED BY <1>2, <1>3, <1>4, <1>5, <1>6, <1>7 DEF IInv

(* A step that leaves the lock file, the reclaim directory and what was     *)
(* read there alone, and asks no more than what the coordinator has.        *)
LEMMA MoveKeeps ==
    ASSUME IInv, NEW c \in Coord, NEW s \in Steps \ (Reclaiming \cup Making),
           Goto(c, s), pc[c] # "gone" \/ s = "gone", UNCHANGED lockVars,
           attempt' = attempt \/ attempt' # 0, pc[c] = "active" => attempt' # 0 \/ s = "gone",
           phase' \in [Coord -> {"none", "starting", "active", "stopped"}],
           HelperTyped', RestTyped',
           attached' \subseteq attached \cup {c}, c \in attached' => s \in Serving,
           s \in Outside => lock[1] # c,
           ~raced => (s \in Holding => lock = OwnedBy(c)) /\ s # "restore"
    PROVE  IInv'
<1>1. UNCHANGED <<lock, reclaim, seen, raced>>
  BY DEF lockVars
<1>2. LockTyped'
  BY <1>1, TypedParts DEF IInv, LockTyped
<1>3. s \notin Judging \cup Making \cup {"unreclaim", "rm"}
  BY DEF Reclaiming, Judging
<1> QED BY <1>1, <1>2, <1>3, StepKeeps

(* Who holds the lock, or finds it free, is alone with it.                  *)
LEMMA Alone ==
    ASSUME IInv, ~raced, NEW c \in Coord,
           \/ lock = Free
           \/ lock = <<c, FALSE>>
           \/ lock = OwnedBy(c) /\ pc[c] # "gone"
    PROVE  \A d \in Coord \ {c} : ~Holds(d) /\ pc[d] \notin Making \cup {"rm"}
<1> SUFFICES ASSUME NEW d \in Coord \ {c}, Holds(d) \/ pc[d] \in Making \/ pc[d] = "rm"
             PROVE  FALSE
  OBVIOUS
<1>1. CASE pc[d] = "rm"
  <2>1. seen[d] \in Coord /\ lock = OwnedBy(seen[d]) /\ pc[seen[d]] = "gone"
    BY <1>1 DEF IInv, SeenIsOther, StaleIsDead, Judging
  <2>2. lock # Free /\ lock # <<c, FALSE>>
    BY <2>1, LockParts
  <2>3. seen[d] = c
    BY <2>1, <2>2, LockParts
  <2> QED BY <2>1, <2>2, <2>3
<1>2. CASE Holds(d) \/ pc[d] \in Making
  <2>1. lock = OwnedBy(d) \/ lock = <<d, FALSE>>
    BY <1>2 DEF IInv, LockHeld
  <2>2. lock[1] = d /\ lock # Free
    BY <2>1, LockParts
  <2>3. lock # OwnedBy(c) /\ lock # <<c, FALSE>>
    BY <2>2, LockParts
  <2> QED BY <2>2, <2>3
<1> QED BY <1>1, <1>2

-----------------------------------------------------------------------------
(* acquireLock.                                                             *)

LEMMA RefusalIs == ASSUME NEW c \in Coord PROVE Refusal(c) \in {"refused", "gone"}
  BY DEF Refusal

LEMMA OthersTyped ==
    ASSUME IInv, UNCHANGED <<attached, phase, attempt, helperVars, released, faults>>
    PROVE  /\ HelperTyped' /\ RestTyped'
           /\ phase' \in [Coord -> {"none", "starting", "active", "stopped"}]
           /\ UNCHANGED <<attached, phase>>
<1>1. CoordTyped /\ HelperTyped /\ RestTyped
  BY TypedParts DEF IInv
<1> QED BY <1>1 DEF CoordTyped, HelperTyped, RestTyped, helperVars

(* Who is attached serves.                                                  *)
LEMMA Detached ==
    ASSUME IInv, NEW c \in Coord, pc[c] \notin Serving
    PROVE  c \notin attached
  BY DEF IInv, AttachedServe

LEMMA TakeKeeps == ASSUME IInv, NEW c \in Coord, Take(c) PROVE IInv'
<1>0. /\ pc[c] = "take" /\ c \notin attached /\ lock[1] # c
      /\ UNCHANGED <<reclaim, seen, raced>>
      /\ UNCHANGED <<attached, phase, attempt, helperVars, released, faults>>
  BY Detached DEF Take, IInv, NotTheirs, Without, Outside, Serving
<1>1. CASE lock = Free
  <2>1. lock' = <<c, FALSE>> /\ Goto(c, "own")
    BY <1>1 DEF Take
  <2>2. LockTyped'
    BY <1>0, <2>1, LockParts, TypedParts DEF IInv, LockTyped
  <2>3. ~raced => \A d \in Coord \ {c} : ~Holds(d) /\ pc[d] \notin Making \cup {"rm"}
    BY <1>1, Alone
  <2>4. \A d \in Coord \ {c} : lock'[1] # d
    BY <2>1, LockParts
  <2> QED BY <1>0, <2>1, <2>2, <2>3, <2>4, OthersTyped, StepsAre, StepKeeps
          DEF Serving, Outside, Reclaiming, Judging, Holding
<1>2. CASE lock # Free
  <2>1. UNCHANGED lockVars /\ Goto(c, "reclaim")
    BY <1>0, <1>2 DEF Take, lockVars
  <2> QED BY <1>0, <2>1, OthersTyped, StepsAre, MoveKeeps
          DEF Serving, Outside, Reclaiming, Making, Holding
<1> QED BY <1>1, <1>2

LEMMA WriteIdentityKeeps == ASSUME IInv, NEW c \in Coord, WriteIdentity(c) PROVE IInv'
<1>0. /\ pc[c] \in Making /\ c \notin attached
      /\ UNCHANGED <<reclaim, raced>>
      /\ UNCHANGED <<attached, phase, attempt, helperVars, released, faults>>
  BY Detached DEF WriteIdentity, Making, Serving
<1>1. lock' = (IF lock[1] = c THEN OwnedBy(c) ELSE lock) /\ lock' \in LockType
  BY LockParts, OwnerIs DEF WriteIdentity, IInv
<1>2. \A d \in Coord \ {c} : lock'[1] = d => lock[1] = d
  BY <1>1, LockParts
<1>3. ~raced => lock = <<c, FALSE>> /\ lock' = OwnedBy(c)
  BY <1>0, <1>1, LockParts DEF IInv, LockHeld
<1>4. ~raced => \A d \in Coord \ {c} : ~Holds(d) /\ pc[d] \notin Making \cup {"rm"}
  BY <1>3, Alone
<1>5. CASE pc[c] = "own"
  <2>1. Goto(c, "got") /\ UNCHANGED seen
    BY <1>5 DEF WriteIdentity
  <2>2. LockTyped'
    BY <1>0, <1>1, <2>1, TypedParts DEF IInv, LockTyped
  <2> QED BY <1>0, <1>2, <1>3, <1>4, <1>5, <2>1, <2>2, OthersTyped, StepsAre, StepKeeps
          DEF Serving, Outside, Reclaiming, Judging, Making
<1>6. CASE pc[c] = "reown"
  <2>1. Goto(c, "unreclaim") /\ seen' = [seen EXCEPT ![c] = c]
    BY <1>6 DEF WriteIdentity
  <2>2. seen \in [Coord -> Coord \cup {NoOne}]
    BY TypedParts DEF IInv, LockTyped
  <2>3. LockTyped' /\ seen'[c] = c /\ \A d \in Coord \ {c} : seen'[d] = seen[d]
    BY <1>0, <1>1, <2>1, <2>2, TypedParts DEF IInv, LockTyped
  <2>4. reclaim' = c
    BY <1>0, <1>6 DEF IInv, ReclaimIsTheirs, Reclaiming
  <2> QED BY <1>0, <1>2, <1>3, <1>4, <1>6, <2>1, <2>3, <2>4, OthersTyped, StepsAre, StepKeeps
          DEF Serving, Outside, Judging, Making, Holding
<1> QED BY <1>0, <1>5, <1>6 DEF Making

LEMMA MakeReclaimKeeps == ASSUME IInv, NEW c \in Coord, MakeReclaim(c) PROVE IInv'
<1>0. /\ pc[c] = "reclaim" /\ c \notin attached /\ lock[1] # c
      /\ UNCHANGED <<lock, seen, raced>>
      /\ UNCHANGED <<attached, phase, attempt, helperVars, released, faults>>
  BY Detached DEF MakeReclaim, IInv, NotTheirs, Without, Outside, Serving
<1>1. CASE reclaim = NoOne
  <2>1. reclaim' = c /\ Goto(c, "read")
    BY <1>1 DEF MakeReclaim
  <2>2. LockTyped'
    BY <1>0, <2>1, TypedParts DEF IInv, LockTyped
  <2>3. \A d \in Coord : reclaim # d
    BY <1>1, LockParts
  <2> QED BY <1>0, <2>1, <2>2, <2>3, OthersTyped, StepsAre, StepKeeps
          DEF Serving, Judging, Holding, Making
<1>2. CASE reclaim # NoOne
  <2>1. UNCHANGED lockVars /\ Goto(c, Refusal(c))
    BY <1>0, <1>2 DEF MakeReclaim, lockVars
  <2>2. Refusal(c) \in Steps \ (Reclaiming \cup Making) /\ Refusal(c) \notin Holding
        /\ Refusal(c) # "restore"
    BY RefusalIs, StepsAre DEF Reclaiming, Making, Holding
  <2> QED BY <1>0, <2>1, <2>2, OthersTyped, MoveKeeps
<1> QED BY <1>1, <1>2

LEMMA ReadOwnerKeeps == ASSUME IInv, NEW c \in Coord, ReadOwner(c) PROVE IInv'
<1>0. /\ pc[c] = "read" /\ c \notin attached /\ lock[1] # c /\ reclaim = c
      /\ UNCHANGED <<lock, reclaim, raced>>
      /\ UNCHANGED <<attached, phase, attempt, helperVars, released, faults>>
  BY Detached DEF ReadOwner, IInv, NotTheirs, ReclaimIsTheirs, Without, Outside, Reclaiming,
     Serving
<1>1. Owner \in (Coord \ {c}) \cup {NoOne} /\ NoOne \notin Coord
  BY <1>0, OwnerIs, LockParts DEF IInv
<1>2. seen \in [Coord -> Coord \cup {NoOne}] /\ seen' = [seen EXCEPT ![c] = Owner]
  BY TypedParts DEF IInv, LockTyped, ReadOwner
<1>3. LockTyped' /\ seen'[c] = Owner /\ \A d \in Coord \ {c} : seen'[d] = seen[d]
  BY <1>0, <1>1, <1>2, TypedParts DEF IInv, LockTyped
<1>4. CASE Owner = NoOne
  <2>1. Goto(c, "unreclaim") /\ seen'[c] # c
    BY <1>1, <1>3, <1>4 DEF ReadOwner
  <2> QED BY <1>0, <1>3, <2>1, OthersTyped, StepsAre, StepKeeps
          DEF Serving, Judging, Holding, Making
<1>5. CASE Owner # NoOne
  <2>1. Goto(c, "probe") /\ seen'[c] \in Coord \ {c}
    BY <1>1, <1>3, <1>5 DEF ReadOwner
  <2> QED BY <1>0, <1>3, <2>1, OthersTyped, StepsAre, StepKeeps
          DEF Serving, Holding, Making
<1> QED BY <1>4, <1>5

LEMMA ProbeOwnerKeeps == ASSUME IInv, NEW c \in Coord, ProbeOwner(c) PROVE IInv'
<1>0. /\ pc[c] = "probe" /\ c \notin attached /\ lock[1] # c /\ reclaim = c
      /\ seen[c] \in Coord \ {c}
      /\ UNCHANGED <<lock, reclaim, seen>>
      /\ UNCHANGED <<attached, phase, attempt, helperVars, released, faults>>
  BY Detached DEF ProbeOwner, IInv, NotTheirs, ReclaimIsTheirs, SeenIsOther, Without, Outside,
     Reclaiming, Judging, Serving
<1>1. /\ raced' \in BOOLEAN
      /\ raced => raced'
      /\ ~raced' => Alive(seen[c]) \/ lock = OwnedBy(seen[c])
  BY TypedParts DEF ProbeOwner, IInv, LockTyped
<1>2. LockTyped'
  <2>1. LockTyped
    BY TypedParts DEF IInv
  <2> QED BY <1>0, <1>1, <2>1 DEF LockTyped
<1>3. CASE Alive(seen[c])
  <2>1. Goto(c, "unreclaim")
    BY <1>3 DEF ProbeOwner
  <2> QED BY <1>0, <1>1, <1>2, <2>1, OthersTyped, StepsAre, StepKeeps
          DEF Serving, Judging, Holding, Making
<1>4. CASE ~Alive(seen[c])
  <2>1. Goto(c, "rm")
    BY <1>4 DEF ProbeOwner
  <2>2. ASSUME ~raced' PROVE lock = OwnedBy(seen[c]) /\ pc[seen[c]] = "gone"
    <3>1. lock = OwnedBy(seen[c]) /\ lock[1] = seen[c]
      BY <1>0, <1>1, <1>4, <2>2, LockParts
    <3>2. pc[seen[c]] # "off"
      BY <1>0, <3>1 DEF IInv, NotTheirs, Without, Outside
    <3> QED BY <1>4, <3>1, <3>2 DEF Alive
  <2> QED BY <1>0, <1>1, <1>2, <2>1, <2>2, OthersTyped, StepsAre, StepKeeps
          DEF Serving, Holding, Making
<1> QED BY <1>3, <1>4

LEMMA RemoveStaleKeeps == ASSUME IInv, NEW c \in Coord, RemoveStale(c) PROVE IInv'
<1>0. /\ pc[c] = "rm" /\ c \notin attached /\ reclaim = c /\ seen[c] \in Coord \ {c}
      /\ lock' = Free /\ Goto(c, "retake")
      /\ UNCHANGED <<reclaim, seen, raced>>
      /\ UNCHANGED <<attached, phase, attempt, helperVars, released, faults>>
  BY Detached DEF RemoveStale, IInv, ReclaimIsTheirs, SeenIsOther, Reclaiming, Judging, Serving
<1>1. LockTyped' /\ \A d \in Coord : lock'[1] # d
  BY <1>0, LockParts, TypedParts DEF IInv, LockTyped
<1>2. ASSUME ~raced, NEW d \in Coord \ {c} PROVE ~Holds(d) /\ pc[d] \notin Making \cup {"rm"}
  <2>1. lock = OwnedBy(seen[c]) /\ pc[seen[c]] = "gone"
    BY <1>0, <1>2 DEF IInv, StaleIsDead
  <2>2. pc[d] # "rm"
    BY <1>0 DEF IInv, ReclaimIsTheirs, Reclaiming
  <2>3. ~Holds(d) /\ pc[d] \notin Making
    <3>1. Holds(d) \/ pc[d] \in Making => d = seen[c]
      BY <1>0, <1>2, <2>1, LockParts DEF IInv, LockHeld
    <3> QED BY <2>1, <3>1 DEF Holds, Holding, Making
  <2> QED BY <2>2, <2>3
<1> QED BY <1>0, <1>1, <1>2, OthersTyped, StepsAre, StepKeeps DEF Serving, Holding, Making

LEMMA RetakeKeeps == ASSUME IInv, NEW c \in Coord, Retake(c) PROVE IInv'
<1>0. /\ pc[c] = "retake" /\ c \notin attached /\ lock[1] # c /\ reclaim = c
      /\ seen[c] \in Coord \ {c}
      /\ UNCHANGED <<reclaim, seen, raced>>
      /\ UNCHANGED <<attached, phase, attempt, helperVars, released, faults>>
  BY Detached DEF Retake, IInv, NotTheirs, ReclaimIsTheirs, SeenIsOther, Without, Outside,
     Reclaiming, Judging, Serving
<1>1. CASE lock = Free
  <2>1. lock' = <<c, FALSE>> /\ Goto(c, "reown")
    BY <1>1 DEF Retake
  <2>2. LockTyped' /\ \A d \in Coord \ {c} : lock'[1] # d
    BY <1>0, <2>1, LockParts, TypedParts DEF IInv, LockTyped
  <2>3. ~raced => \A d \in Coord \ {c} : ~Holds(d) /\ pc[d] \notin Making \cup {"rm"}
    BY <1>1, Alone
  <2> QED BY <1>0, <2>1, <2>2, <2>3, OthersTyped, StepsAre, StepKeeps
          DEF Serving, Outside, Judging, Holding
<1>2. CASE lock # Free
  <2>1. lock' = lock /\ Goto(c, "unreclaim")
    BY <1>2 DEF Retake
  <2>2. LockTyped'
    BY <1>0, <2>1, TypedParts DEF IInv, LockTyped
  <2> QED BY <1>0, <2>1, <2>2, OthersTyped, StepsAre, StepKeeps
          DEF Serving, Judging, Holding, Making
<1> QED BY <1>1, <1>2

LEMMA RemoveReclaimKeeps == ASSUME IInv, NEW c \in Coord, RemoveReclaim(c) PROVE IInv'
<1>0. /\ pc[c] = "unreclaim" /\ c \notin attached /\ reclaim = c /\ reclaim' = NoOne
      /\ UNCHANGED <<lock, raced>>
      /\ UNCHANGED <<attached, phase, attempt, helperVars, released, faults>>
  BY Detached DEF RemoveReclaim, IInv, ReclaimIsTheirs, Reclaiming, Serving
<1>1. seen \in [Coord -> Coord \cup {NoOne}] /\ seen' = [seen EXCEPT ![c] = NoOne]
  BY TypedParts DEF IInv, LockTyped, RemoveReclaim
<1>2. LockTyped' /\ \A d \in Coord \ {c} : seen'[d] = seen[d]
  BY <1>0, <1>1, TypedParts DEF IInv, LockTyped
<1>3. CASE seen[c] = c
  <2>1. Goto(c, "got")
    BY <1>3 DEF RemoveReclaim
  <2>2. ~raced => lock' = OwnedBy(c)
    BY <1>0, <1>3 DEF IInv, LockHeld, Holds
  <2> QED BY <1>0, <1>2, <2>1, <2>2, OthersTyped, StepsAre, StepKeeps
          DEF Serving, Outside, Reclaiming, Judging, Making
<1>4. CASE seen[c] # c
  <2>1. Goto(c, Refusal(c)) /\ lock'[1] # c
    BY <1>0, <1>4 DEF RemoveReclaim, IInv, NotTheirs, Without
  <2>2. /\ Refusal(c) \in Steps
        /\ Refusal(c) \notin Reclaiming \cup Judging \cup Holding \cup Making
        /\ Refusal(c) \notin {"restore", "rm", "unreclaim"}
    BY RefusalIs, StepsAre DEF Reclaiming, Judging, Holding, Making
  <2> QED BY <1>0, <1>2, <2>1, <2>2, OthersTyped, StepKeeps
<1> QED BY <1>3, <1>4

LEMMA AcquiringKeeps == ASSUME IInv, NEW c \in Coord, Acquiring(c) PROVE IInv'
  BY TakeKeeps, WriteIdentityKeeps, MakeReclaimKeeps, ReadOwnerKeeps, ProbeOwnerKeeps,
     RemoveStaleKeeps, RetakeKeeps, RemoveReclaimKeeps DEF Acquiring

-----------------------------------------------------------------------------
(* Life and end of a coordinator.                                           *)

(* A step that touches neither the lock nor the helpers.                    *)
LEMMA HelpersTyped ==
    ASSUME IInv, UNCHANGED helperVars
    PROVE  HelperTyped'
  BY TypedParts DEF IInv, HelperTyped, helperVars

LEMMA RestStill ==
    ASSUME IInv, UNCHANGED <<attempt, released>>,
           UNCHANGED faults \/ Crashed \/ Failed \/ Late
    PROVE  RestTyped'
<1>1. RestTyped
  BY TypedParts DEF IInv
<1>2. faults' \in FaultType
  BY <1>1, FaultTyped DEF IInv, RestTyped
<1> QED BY <1>1, <1>2 DEF RestTyped

LEMMA PhaseTyped ==
    ASSUME IInv, NEW c \in Coord, NEW x \in {"none", "starting", "active", "stopped"},
           phase' = [phase EXCEPT ![c] = x] \/ UNCHANGED phase
    PROVE  phase' \in [Coord -> {"none", "starting", "active", "stopped"}]
  BY TypedParts DEF IInv, CoordTyped

(* Who gives the lock file back.                                            *)
LEMMA UnlinkKeeps ==
    ASSUME IInv, NEW c \in Coord, pc[c] \in {"unlink", "stopUnlink"}, NEW s \in {"publish", "gone"},
           Goto(c, s), lock' = Free,
           UNCHANGED <<reclaim, seen, raced, attached, phase, attempt, helperVars, released, faults>>
    PROVE  IInv'
<1>1. c \notin attached
  BY Detached DEF Serving
<1>2. LockTyped' /\ \A d \in Coord : lock'[1] # d
  BY LockParts, TypedParts DEF IInv, LockTyped
<1>3. ~raced => lock = OwnedBy(c) /\ pc[c] # "gone"
  BY DEF IInv, LockHeld, Holds, Holding
<1>4. ~raced => \A d \in Coord \ {c} : ~Holds(d) /\ pc[d] \notin Making \cup {"rm"}
  BY <1>3, Alone
<1> QED BY <1>1, <1>2, <1>4, OthersTyped, StepsAre, StepKeeps
    DEF Serving, Reclaiming, Judging, Holding, Making

(* A coordinator that dies leaves its files where they are.                 *)
LEMMA DiesKeeps ==
    ASSUME IInv, NEW c \in Coord, Dies(c), UNCHANGED <<lockVars, phase, attempt>>, HelperTyped',
           RestTyped'
    PROVE  IInv'
<1>1. attached' \subseteq attached \cup {c} /\ c \notin attached'
  BY DEF Dies
<1>2. "gone" \in Steps \ (Reclaiming \cup Making) /\ "gone" \notin Outside \cup Holding
  BY StepsAre DEF Reclaiming, Making, Outside, Holding
<1>3. phase' \in [Coord -> {"none", "starting", "active", "stopped"}]
  BY TypedParts DEF IInv, CoordTyped
<1> QED BY <1>1, <1>2, <1>3, MoveKeeps DEF Dies

LEMMA LifecycleKeeps == ASSUME IInv, NEW c \in Coord, Lifecycle(c) PROVE IInv'
<1>0. ~raced => (pc[c] \in Holding => lock = OwnedBy(c))
  BY DEF IInv, LockHeld, Holds
<1>1. CASE Starting(c)
  <2>1. /\ pc[c] = "got" /\ c \notin attached /\ Goto(c, "attach")
        /\ HelperTyped' /\ RestTyped'
        /\ phase' \in [Coord -> {"none", "starting", "active", "stopped"}]
    BY <1>1, Detached, HelpersTyped, RestStill, PhaseTyped DEF Starting, Serving
  <2> QED BY <1>0, <1>1, <2>1, StepsAre, MoveKeeps
          DEF Starting, Reclaiming, Making, Outside, Holding
<1>2. CASE Attach(c)
  <2>1. /\ pc[c] = "attach" /\ c \notin attached /\ HelperTyped' /\ RestTyped'
        /\ phase' \in [Coord -> {"none", "starting", "active", "stopped"}]
    BY <1>2, Detached, HelpersTyped, RestStill, PhaseTyped DEF Attach, Serving
  <2>2. CASE attached' = attached \cup {c} /\ Goto(c, "activate")
    BY <1>0, <1>2, <2>1, <2>2, StepsAre, MoveKeeps
       DEF Attach, Reclaiming, Making, Outside, Holding, Serving
  <2>3. CASE Goto(c, "stop") /\ UNCHANGED attached
    BY <1>0, <1>2, <2>1, <2>3, StepsAre, MoveKeeps DEF Attach, Reclaiming, Making, Outside, Holding
  <2> QED BY <1>2, <2>2, <2>3 DEF Attach
<1>3. CASE Activate(c)
  <2>1. /\ pc[c] = "activate" /\ Goto(c, "active") /\ HelperTyped' /\ RestTyped'
        /\ phase' \in [Coord -> {"none", "starting", "active", "stopped"}]
    BY <1>3, HelpersTyped, RestStill, PhaseTyped DEF Activate
  <2> QED BY <1>0, <1>3, <2>1, StepsAre, MoveKeeps
          DEF Activate, Reclaiming, Making, Outside, Holding, Serving
<1>4. CASE Stop(c)
  <2>1. /\ pc[c] = "stop" /\ HelperTyped' /\ RestTyped'
        /\ phase' \in [Coord -> {"none", "starting", "active", "stopped"}]
        /\ attached' \subseteq attached /\ c \notin attached'
    BY <1>4, HelpersTyped, RestStill, PhaseTyped DEF Stop
  <2>2. CASE Owner = c
    <3>1. lock = OwnedBy(c) /\ Goto(c, "stopUnlink")
      BY <1>4, <2>2, OwnerIs DEF IInv, Stop
    <3> QED BY <1>4, <2>1, <3>1, StepsAre, MoveKeeps DEF Stop, Reclaiming, Making, Outside
  <2>3. CASE Owner # c
    <3>1. Goto(c, "gone")
      BY <1>4, <2>3 DEF Stop
    <3> QED BY <1>4, <2>1, <3>1, StepsAre, MoveKeeps
            DEF Stop, Reclaiming, Making, Outside, Holding
  <2> QED BY <2>2, <2>3
<1>5. CASE StopUnlink(c)
  BY <1>5, UnlinkKeeps DEF StopUnlink
<1> QED BY <1>1, <1>2, <1>3, <1>4, <1>5 DEF Lifecycle

-----------------------------------------------------------------------------
(* The predecessor.                                                         *)

LEMMA BeginHandoffKeeps == ASSUME IInv, BeginHandoff PROVE IInv'
<1>1. /\ pc[pred] = "active" /\ Goto(pred, "arming") /\ UNCHANGED <<lockVars, attached, phase>>
      /\ phase' \in [Coord -> {"none", "starting", "active", "stopped"}]
  BY PredIs, PhaseTyped DEF BeginHandoff
<1>2. HelperTyped /\ RestTyped
  BY TypedParts DEF IInv
<1>3. HelperTyped'
  BY <1>2 DEF HelperTyped, BeginHandoff, HelperGoto
<1>4. RestTyped'
  BY <1>2, HandoffAssumption DEF RestTyped, BeginHandoff
<1>5. ~raced => lock = OwnedBy(pred)
  BY <1>1, PredIs DEF IInv, LockHeld, Holds, Holding
<1>6. attempt' # 0
  BY <1>2 DEF BeginHandoff, RestTyped
<1> QED BY <1>1, <1>3, <1>4, <1>5, <1>6, PredIs, StepsAre, MoveKeeps
    DEF Reclaiming, Making, Outside, Serving

(* A step of the predecessor that leaves the lock file alone.               *)
LEMMA PredMoves ==
    ASSUME IInv, NEW s \in Steps \ (Reclaiming \cup Making), Goto(pred, s),
           pc[pred] \notin {"active", "gone"}, attempt' = attempt, UNCHANGED <<lockVars, phase>>, HelperTyped', RestTyped',
           attached' \subseteq attached \cup {pred}, pred \in attached' => s \in Serving,
           s \in Outside => pc[pred] \in Outside,
           s \in Holding => pc[pred] \in Holding \/ (raced \/ lock = OwnedBy(pred)),
           s # "restore" \/ raced
    PROVE  IInv'
<1>1. phase' \in [Coord -> {"none", "starting", "active", "stopped"}]
  BY PredIs, PhaseTyped
<1>2. s \in Outside => lock[1] # pred
  BY PredIs DEF IInv, NotTheirs, Without
<1>3. ~raced => (s \in Holding => lock = OwnedBy(pred))
  BY PredIs DEF IInv, LockHeld, Holds
<1> QED BY <1>1, <1>2, <1>3, PredIs, MoveKeeps

LEMMA PredecessorKeeps == ASSUME IInv, Predecessor PROVE IInv'
<1>1. CASE Armed
  <2>1. /\ pc[pred] = "arming" /\ HelperTyped' /\ RestTyped'
        /\ UNCHANGED <<lockVars, attached, phase>>
        /\ (Goto(pred, "quiesce") \/ Goto(pred, "active")) /\ attempt' = attempt
    BY <1>1, HelpersTyped, RestStill DEF Armed
  <2> QED BY <2>1, StepsAre, PredMoves DEF Reclaiming, Making, Outside, Holding, Serving
<1>2. CASE Quiesce
  <2>1. /\ pc[pred] = "quiesce" /\ HelperTyped' /\ RestTyped' /\ UNCHANGED <<lockVars, phase>>
        /\ attempt' = attempt /\ Goto(pred, "release") /\ attached' \subseteq attached /\ pred \notin attached'
    BY <1>2, HelpersTyped, RestStill DEF Quiesce
  <2> QED BY <2>1, StepsAre, PredMoves DEF Reclaiming, Making, Outside, Holding
<1>3. CASE BeginRelease
  <2>1. /\ pc[pred] = "release" /\ HelperTyped' /\ RestTyped'
        /\ UNCHANGED <<lockVars, attached, phase>> /\ pred \notin attached /\ attempt' = attempt
    BY <1>3, PredIs, Detached, HelpersTyped, RestStill DEF BeginRelease, Serving
  <2>2. CASE Owner = pred
    <3>1. Goto(pred, "unlink")
      BY <1>3, <2>2 DEF BeginRelease
    <3> QED BY <2>1, <3>1, StepsAre, PredMoves DEF Reclaiming, Making, Outside, Holding
  <2>3. CASE Owner # pred
    <3>1. Goto(pred, "restore")
      BY <1>3, <2>3 DEF BeginRelease
    <3>2. raced
      BY <2>1, <2>3, PredIs, OwnerIs DEF IInv, LockHeld, Holds, Holding
    <3> QED BY <2>1, <3>1, <3>2, StepsAre, PredMoves DEF Reclaiming, Making, Outside, Holding
  <2> QED BY <2>2, <2>3
<1>4. CASE ReleaseLock
  BY <1>4, PredIs, UnlinkKeeps DEF ReleaseLock
<1>5. CASE PublishRelease
  <2>1. /\ pc[pred] = "publish" /\ HelperTyped' /\ UNCHANGED <<lockVars, attached, phase>>
        /\ pred \notin attached /\ (Goto(pred, "waiting") \/ Goto(pred, "take"))
        /\ attempt' = attempt
    BY <1>5, PredIs, Detached, HelpersTyped DEF PublishRelease, Serving
  <2>2. RestTyped'
    <3>1. RestTyped
      BY TypedParts DEF IInv
    <3>2. faults' \in FaultType
      BY <1>5, <3>1, FaultTyped DEF IInv, PublishRelease, RestTyped
    <3>3. released' \subseteq Attempt /\ attempt' \in 0..Attempts
      <4>1. attempt \in Attempt
        BY <2>1, <3>1, HandoffAssumption DEF IInv, HandsOver, Attempt, RestTyped
      <4> QED BY <1>5, <3>1, <4>1 DEF PublishRelease, RestTyped
    <3> QED BY <3>2, <3>3 DEF RestTyped
  <2> QED BY <2>1, <2>2, StepsAre, PredMoves DEF Reclaiming, Making, Outside, Holding
<1>6. CASE Answered
  <2>1. /\ pc[pred] = "waiting" /\ HelperTyped' /\ RestTyped'
        /\ UNCHANGED <<lockVars, attached, phase>> /\ pred \notin attached
        /\ (Goto(pred, "gone") \/ Goto(pred, "take")) /\ attempt' = attempt
    BY <1>6, PredIs, Detached, HelpersTyped, RestStill DEF Answered, Serving
  <2> QED BY <2>1, StepsAre, PredMoves DEF Reclaiming, Making, Outside, Holding
<1>7. CASE Refused
  <2>1. /\ pc[pred] = "refused" /\ HelperTyped' /\ RestTyped'
        /\ UNCHANGED <<lockVars, attached, phase>> /\ pred \notin attached
        /\ (Goto(pred, "gone") \/ Goto(pred, "take")) /\ attempt' = attempt
    BY <1>7, PredIs, Detached, HelpersTyped, RestStill DEF Refused, Serving
  <2> QED BY <2>1, StepsAre, PredMoves DEF Reclaiming, Making, Outside, Holding
<1>8. CASE Restore
  <2>1. /\ pc[pred] \in {"got", "restore"} /\ HelperTyped' /\ RestTyped' /\ attempt' = attempt
        /\ UNCHANGED <<lockVars, phase>> /\ pred \notin attached
        /\ \/ attached' = attached \cup {pred} /\ Goto(pred, "active")
           \/ UNCHANGED attached /\ Goto(pred, "stop")
    BY <1>8, PredIs, Detached, HelpersTyped, RestStill DEF Restore, Serving
  <2>2. pc[pred] = "got" \/ raced
    BY <2>1, PredIs DEF IInv, LockHeld
  <2> QED BY <2>1, <2>2, StepsAre, PredMoves DEF Reclaiming, Making, Outside, Holding, Serving
<1> QED BY <1>1, <1>2, <1>3, <1>4, <1>5, <1>6, <1>7, <1>8 DEF Predecessor

-----------------------------------------------------------------------------
(* Launchers and helpers.                                                   *)

(* A coordinator is started.                                                *)
LEMMA LaunchesKeeps ==
    ASSUME IInv, NEW c \in Coord, Launches(c), UNCHANGED <<lockVars, attached, phase, attempt>>,
           HelperTyped', RestTyped'
    PROVE  IInv'
<1>1. pc[c] = "off" /\ Goto(c, "take") /\ c \notin attached /\ lock[1] # c
  BY Detached DEF Launches, Serving, IInv, NotTheirs, Without, Outside
<1>2. phase' \in [Coord -> {"none", "starting", "active", "stopped"}]
  BY PhaseTyped
<1> QED BY <1>1, <1>2, StepsAre, MoveKeeps DEF Reclaiming, Making, Holding

LEMMA UserLaunchesKeeps == ASSUME IInv, NEW c \in Coord, UserLaunches(c) PROVE IInv'
<1>1. HelperTyped
  BY TypedParts DEF IInv
<1>2. HelperTyped'
  BY <1>1 DEF HelperTyped, UserLaunches
<1>3. RestTyped'
  BY RestStill DEF UserLaunches
<1> QED BY <1>2, <1>3, LaunchesKeeps DEF UserLaunches

LEMMA LauncherEndsKeeps ==
    ASSUME IInv, NEW k \in Attempt \cup {User}, LauncherEnds(k)
    PROVE  IInv'
<1> DEFINE c == launcher[k]
<1>1. HelperTyped
  BY TypedParts DEF IInv
<1>2. c \in Coord
  BY <1>1 DEF HelperTyped, LauncherEnds
<1>3. HelperTyped'
  BY <1>1 DEF HelperTyped, LauncherEnds
<1>4. RestTyped' /\ UNCHANGED <<lockVars, phase, attempt>>
  BY RestStill DEF LauncherEnds
<1>5. CASE UNCHANGED <<pc, attached>>
  BY <1>3, <1>4, <1>5, StillKeeps DEF coordVars
<1>6. CASE Dies(c)
  BY <1>2, <1>3, <1>4, <1>6, DiesKeeps
<1> QED BY <1>5, <1>6 DEF LauncherEnds

LEMMA HelperKeeps == ASSUME IInv, NEW k \in Attempt, Helper(k) PROVE IInv'
<1>0. HelperTyped
  BY TypedParts DEF IInv
<1>1. CASE Arm(k)
  <2>1. HelperTyped' /\ RestTyped'
    BY <1>0, <1>1, RestStill DEF Arm, HelperTyped, HelperGoto, Report
  <2> QED BY <1>1, <2>1, StillKeeps DEF Arm
<1>2. CASE AwaitRelease(k)
  <2>1. HelperTyped' /\ RestTyped'
    BY <1>0, <1>2, RestStill DEF AwaitRelease, HelperTyped, HelperGoto, Report
  <2> QED BY <1>2, <2>1, StillKeeps DEF AwaitRelease
<1>3. CASE Launch(k)
  <2>1. RestTyped' /\ UNCHANGED <<lockVars, attached, phase, attempt>>
    BY <1>3, RestStill DEF Launch
  <2>2. HelperTyped'
    BY <1>0, <1>3 DEF Launch, HelperTyped, HelperGoto
  <2>3. CASE UNCHANGED <<pc, launcher>>
    BY <2>1, <2>2, <2>3, StillKeeps DEF coordVars
  <2>4. ASSUME NEW c \in Coord, Launches(c) PROVE IInv'
    BY <2>1, <2>2, <2>4, LaunchesKeeps
  <2> QED BY <1>3, <2>3, <2>4 DEF Launch
<1>4. CASE Launched(k)
  <2>1. HelperTyped' /\ RestTyped'
    BY <1>0, <1>4, RestStill DEF Launched, HelperTyped, HelperGoto
  <2> QED BY <1>4, <2>1, StillKeeps DEF Launched
<1>5. CASE FindReady(k)
  <2>1. PICK c \in New(k) : candidate' = [candidate EXCEPT ![k] = c]
    BY <1>5 DEF FindReady
  <2>2. c \in Coord
    BY DEF New
  <2>3. HelperTyped' /\ RestTyped'
    BY <1>0, <1>5, <2>1, <2>2, RestStill DEF FindReady, HelperTyped, HelperGoto
  <2> QED BY <1>5, <2>3, StillKeeps DEF FindReady
<1>6. CASE GiveUp(k)
  <2>1. PICK c \in Coord \cup {NoOne} : candidate' = [candidate EXCEPT ![k] = c]
    BY <1>6 DEF GiveUp, New
  <2>2. HelperTyped' /\ RestTyped'
    BY <1>0, <1>6, <2>1, RestStill DEF GiveUp, HelperTyped, HelperGoto
  <2> QED BY <1>6, <2>2, StillKeeps DEF GiveUp
<1>7. CASE ReportReady(k)
  <2>1. HelperTyped' /\ RestTyped'
    BY <1>0, <1>7, RestStill DEF ReportReady, HelperTyped, HelperGoto, Report
  <2> QED BY <1>7, <2>1, StillKeeps DEF ReportReady
<1>8. CASE StopCandidate(k)
  <2>1. /\ HelperTyped' /\ RestTyped' /\ UNCHANGED <<lockVars, phase, attempt>>
    BY <1>0, <1>8, RestStill DEF StopCandidate, HelperTyped, HelperGoto
  <2>2. CASE UNCHANGED <<pc, attached>>
    BY <2>1, <2>2, StillKeeps DEF coordVars
  <2>3. ASSUME NEW c \in Coord, Dies(c) PROVE IInv'
    BY <2>1, <2>3, DiesKeeps
  <2>4. Owner \in Coord \cup {NoOne} /\ candidate[k] \in Coord \cup {NoOne}
    BY <1>0, OwnerIs DEF IInv, HelperTyped
  <2>5. UNCHANGED <<pc, attached>> \/ \E c \in Coord : Dies(c)
    BY <1>8, <2>4 DEF StopCandidate
  <2> QED BY <2>2, <2>3, <2>5
<1>9. CASE ReportFailure(k)
  <2>1. HelperTyped' /\ RestTyped'
    BY <1>0, <1>9, RestStill DEF ReportFailure, HelperTyped, HelperGoto, Report
  <2> QED BY <1>9, <2>1, StillKeeps DEF ReportFailure
<1> QED BY <1>1, <1>2, <1>3, <1>4, <1>5, <1>6, <1>7, <1>8, <1>9 DEF Helper

LEMMA HelperDiesKeeps == ASSUME IInv, NEW k \in Attempt, HelperDies(k) PROVE IInv'
<1>1. HelperTyped
  BY TypedParts DEF IInv
<1>2. HelperTyped' /\ RestTyped'
  BY <1>1, RestStill DEF HelperDies, HelperTyped, HelperGoto
<1> QED BY <1>2, StillKeeps DEF HelperDies

LEMMA CoordinatorDiesKeeps == ASSUME IInv, NEW c \in Coord, CoordinatorDies(c) PROVE IInv'
<1>1. HelperTyped' /\ RestTyped'
  BY HelpersTyped, RestStill DEF CoordinatorDies
<1> QED BY <1>1, DiesKeeps DEF CoordinatorDies

-----------------------------------------------------------------------------

LEMMA InitHolds == Init => IInv
<1> SUFFICES ASSUME Init PROVE IInv
  OBVIOUS
<1>1. pc[pred] = "active" /\ \A c \in Coord \ {pred} : pc[c] = "off"
  BY PredIs DEF Init
<1>2. lock = OwnedBy(pred) /\ lock[1] = pred
  BY PredIs, LockParts DEF Init
<1>3. CoordTyped /\ LockTyped /\ HelperTyped
  BY PredIs, LockParts, StepsAre DEF Init, CoordTyped, LockTyped, HelperTyped
<1>4. RestTyped
  BY HandoffAssumption DEF Init, RestTyped, FaultType
<1>5. NotTheirs /\ ReclaimIsTheirs /\ SeenIsOther
  BY <1>1, <1>2 DEF NotTheirs, ReclaimIsTheirs, SeenIsOther, Without, Outside, Reclaiming, Judging
<1>6. AttachedServe /\ HandsOver
  BY <1>1, PredIs DEF Init, AttachedServe, HandsOver, Serving
<1>7. LockHeld /\ StaleIsDead
  <2>1. \A c \in Coord : pc[c] \in {"active", "off"} /\ (pc[c] = "active" => c = pred)
    BY <1>1
  <2> QED BY <1>2, <2>1 DEF LockHeld, StaleIsDead, Holds, Holding, Making
<1> QED BY <1>3, <1>4, <1>5, <1>6, <1>7, TypedParts DEF IInv

LEMMA NextKeeps == ASSUME IInv, Next PROVE IInv'
<1> USE DEF Next
<1>1. CASE BeginHandoff \/ Predecessor
  BY <1>1, BeginHandoffKeeps, PredecessorKeeps
<1>2. ASSUME NEW c \in Coord, Acquiring(c) \/ Lifecycle(c) \/ UserLaunches(c) \/ CoordinatorDies(c)
      PROVE  IInv'
  BY <1>2, AcquiringKeeps, LifecycleKeeps, UserLaunchesKeeps, CoordinatorDiesKeeps
<1>3. ASSUME NEW k \in Attempt \cup {User}, LauncherEnds(k) PROVE IInv'
  BY <1>3, LauncherEndsKeeps
<1>4. ASSUME NEW k \in Attempt, Helper(k) \/ HelperDies(k) PROVE IInv'
  BY <1>4, HelperKeeps, HelperDiesKeeps
<1> QED BY <1>1, <1>2, <1>3, <1>4

LEMMA StutterKeeps == ASSUME IInv, UNCHANGED vars PROVE IInv'
<1>1. HelperTyped' /\ RestTyped'
  BY HelpersTyped, RestStill DEF vars
<1> QED BY <1>1, StillKeeps DEF vars

LEMMA Invariance == Spec => []IInv
<1>1. IInv /\ [Next]_vars => IInv'
  BY NextKeeps, StutterKeeps
<1> QED BY <1>1, InitHolds, PTL DEF Spec

(* Lock file, coordinators, helpers, launchers and their files keep their   *)
(* types.                                                                   *)
THEOREM TypeCorrect == Spec => []TypeOK
<1>1. IInv => TypeOK
  BY DEF IInv
<1> QED BY <1>1, Invariance, PTL

LEMMA ServerOwnsLock == IInv => AttachedOwnsLock
<1> SUFFICES ASSUME IInv, ~raced, NEW c \in attached PROVE lock = OwnedBy(c)
  BY DEF AttachedOwnsLock
<1>1. c \in Coord /\ pc[c] \in Holding
  BY TypedParts DEF IInv, AttachedServe, CoordTyped, Serving, Holding
<1> QED BY <1>1 DEF IInv, LockHeld, Holds

(* Two coordinators never serve one app, through any number of handoffs,    *)
(* launches, failures, deaths and recoveries: who has the app's renderer    *)
(* transport owns the session lock, unless acquireLock met the race of its  *)
(* read and its probe.                                                      *)
THEOREM OneServer == Spec => []AttachedOwnsLock
<1>1. IInv => AttachedOwnsLock
  BY ServerOwnsLock
<1> QED BY <1>1, Invariance, PTL

-----------------------------------------------------------------------------
(* The successor.  The handoffs come one after another: a helper goes beyond *)
(* its wait only with the release file of the handoff the predecessor waits  *)
(* for, and the predecessor stops waiting only for the helper's last word.   *)
(* So no helper is left that could stop the coordinator another one reported *)
(* ready, and a launcher spares whoever is active.                           *)

Fresh == faults.late = 0 /\ faults.crash = 0

Beyond == {"launch", "launching", "poll", "ready", "stop", "report"}

ReleasedSoFar == released \subseteq 1..attempt

PredIsNotStarted == /\ \A k \in Attempt \cup {User} : launcher[k] # pred
                    /\ \A k \in Attempt : candidate[k] # pred

ActiveServes == \A c \in Coord \ {pred} :
    /\ pc[c] \in {"activate", "active"} => c \in attached
    /\ pc[c] = "active" => phase[c] = "active"
    /\ phase[c] = "active" => pc[c] \in {"active", "gone"}

LastWord == \A k \in Attempt :
    /\ result[k] \in {"yes", "no"} => hpc[k] = "gone"
    /\ k > attempt => hpc[k] = "off" /\ result[k] = "none"

Serves(c) == c \in Coord \ {pred} /\ pc[c] = "active" /\ c \in attached

InTurn == \A k \in Attempt :
    /\ hpc[k] \in Beyond => k \in released
    /\ k \in released /\ hpc[k] \notin {"off", "gone"} => k = attempt /\ pc[pred] = "waiting"
    /\ result[k] = "yes" => k = attempt /\ pc[pred] \in {"waiting", "gone"}
    /\ hpc[k] = "ready" \/ result[k] = "yes" => Serves(candidate[k])

SInv == ReleasedSoFar /\ PredIsNotStarted /\ ActiveServes /\ LastWord /\ (Fresh => InTurn)

(* The counts of what went wrong only grow.                                 *)
LEMMA FreshBefore ==
    ASSUME TypeOK, UNCHANGED faults \/ Crashed \/ Failed \/ Late
    PROVE  /\ Fresh' => Fresh
           /\ Crashed \/ Late => ~Fresh'
<1>1. faults \in FaultType
  BY DEF TypeOK, FaultType
<1>2. CASE UNCHANGED faults /\ ~Crashed /\ ~Late
  BY <1>2 DEF Fresh
<1>3. CASE Crashed
  <2>1. faults'.crash = faults.crash + 1
    BY <1>1, <1>3 DEF Crashed, Fault, FaultType
  <2> QED BY <1>1, <2>1 DEF Fresh, FaultType
<1>4. CASE Late
  <2>1. faults'.late = faults.late + 1
    BY <1>1, <1>4 DEF Late, Fault, FaultType
  <2> QED BY <1>1, <2>1 DEF Fresh, FaultType
<1>5. CASE Failed /\ ~Crashed /\ ~Late
  <2>1. faults'.late = faults.late /\ faults'.crash = faults.crash
    BY <1>1, <1>5 DEF Failed, Fault, FaultType
  <2> QED BY <1>5, <2>1 DEF Fresh
<1> QED BY <1>2, <1>3, <1>4, <1>5

(* A step of one coordinator keeps the succession, if it ends neither who   *)
(* was reported ready nor the predecessor's wait.                           *)
LEMMA CoordinatorStep ==
    ASSUME IInv, SInv, NEW c \in Coord, NEW s \in Steps, Goto(c, s),
           UNCHANGED <<attempt, hpc, candidate, result, released>>, PredIsNotStarted',
           UNCHANGED faults \/ Crashed \/ Failed \/ Late,
           \A d \in Coord \ {c} : phase'[d] = phase[d] /\ (d \in attached => d \in attached'),
           c # pred => /\ s \in {"activate", "active"} => c \in attached'
                       /\ s = "active" => phase'[c] = "active"
                       /\ phase'[c] = "active" => s \in {"active", "gone"}
                       /\ pc[c] = "active" => ~Fresh',
           c = pred => pc[c] \notin {"waiting", "gone"} \/ ~Fresh'
    PROVE  SInv'
<1>1. /\ pc'[c] = s /\ \A d \in Coord \ {c} : pc'[d] = pc[d]
  BY GotoTyped DEF IInv
<1>2. ReleasedSoFar' /\ LastWord'
  BY DEF SInv, ReleasedSoFar, LastWord
<1>3. ActiveServes'
  BY <1>1 DEF SInv, ActiveServes
<1>4. ASSUME Fresh' PROVE InTurn'
  <2>1. InTurn
    BY <1>4, FreshBefore DEF SInv, IInv
  <2>2. pc[pred] \in {"waiting", "gone"} => pc'[pred] = pc[pred]
    BY <1>1, <1>4, PredIs
  <2>3. \A d \in Coord : Serves(d) => Serves(d)'
    BY <1>1, <1>4 DEF Serves
  <2>4. \A k \in Attempt : Serves(candidate[k]) => Serves(candidate[k])'
    BY <2>3 DEF Serves
  <2> QED BY <2>1, <2>2, <2>4 DEF InTurn
<1> QED BY <1>2, <1>3, <1>4 DEF SInv

(* A step of a helper that has the release file ends only helpers' words    *)
(* and coordinators nobody was told of.                                     *)
LEMMA HelperStep ==
    ASSUME IInv, SInv, NEW k \in Attempt, NEW s, HelperGoto(k, s),
           UNCHANGED <<attempt, released>>, PredIsNotStarted', ActiveServes',
           UNCHANGED faults \/ Crashed \/ Failed \/ Late,
           \A j \in Attempt \ {k} : result'[j] = result[j] /\ candidate'[j] = candidate[j],
           pc'[pred] = pc[pred],
           hpc[k] \in Beyond \/ (hpc[k] \in {"arm", "wait"} /\ UNCHANGED <<pc, attached>>),
           s \in Beyond => hpc[k] \in Beyond \/ k \in released,
           result'[k] \in {"yes", "no"} => s = "gone",
           Fresh' /\ (s = "ready" \/ result'[k] = "yes") =>
              hpc[k] \in Beyond /\ Serves(candidate[k])'
    PROVE  SInv'
<1>1. /\ hpc'[k] = s /\ \A j \in Attempt \ {k} : hpc'[j] = hpc[j]
  BY TypedParts DEF IInv, HelperTyped, HelperGoto
<1>2. ReleasedSoFar'
  BY DEF SInv, ReleasedSoFar
<1>3. LastWord'
  <2>1. ~(k > attempt)
    BY DEF SInv, LastWord, Beyond
  <2> QED BY <1>1, <2>1 DEF SInv, LastWord
<1>4. ASSUME Fresh' PROVE InTurn'
  <2>1. InTurn
    BY <1>4, FreshBefore DEF SInv, IInv
  <2>2. /\ s \in Beyond => k \in released
        /\ hpc[k] \in Beyond => k = attempt /\ pc[pred] = "waiting"
        /\ k \in released => k = attempt /\ pc[pred] = "waiting"
    BY <2>1 DEF InTurn, Beyond
  <2>3. ASSUME NEW j \in Attempt \ {k}, hpc[j] = "ready" \/ result[j] = "yes"
        PROVE  Serves(candidate[j])'
    <3>1. j = attempt
      BY <2>1, <2>3 DEF InTurn, Beyond
    <3>2. UNCHANGED <<pc, attached>>
      BY <2>2, <2>3, <3>1
    <3>3. Serves(candidate[j]) /\ candidate'[j] = candidate[j]
      BY <2>1, <2>3 DEF InTurn
    <3> QED BY <3>2, <3>3 DEF Serves
  <2>4. ASSUME NEW j \in Attempt \ {k}
        PROVE  /\ hpc'[j] \in Beyond => j \in released'
               /\ j \in released' /\ hpc'[j] \notin {"off", "gone"}
                    => j = attempt' /\ pc'[pred] = "waiting"
               /\ result'[j] = "yes" => j = attempt' /\ pc'[pred] \in {"waiting", "gone"}
               /\ hpc'[j] = "ready" \/ result'[j] = "yes" => Serves(candidate[j])'
    BY <1>1, <2>1, <2>3 DEF InTurn
  <2>5. /\ hpc'[k] \in Beyond => k \in released'
        /\ k \in released' /\ hpc'[k] \notin {"off", "gone"}
             => k = attempt' /\ pc'[pred] = "waiting"
        /\ result'[k] = "yes" => k = attempt' /\ pc'[pred] \in {"waiting", "gone"}
        /\ hpc'[k] = "ready" \/ result'[k] = "yes" => Serves(candidate[k])'
    BY <1>1, <1>4, <2>2
  <2> QED BY <2>4, <2>5 DEF InTurn
<1> QED BY <1>2, <1>3, <1>4 DEF SInv

LEMMA AcquiringStep == ASSUME IInv, SInv, NEW c \in Coord, Acquiring(c) PROVE SInv'
<1>1. /\ UNCHANGED <<attached, phase, attempt, helperVars, released, faults>>
      /\ pc[c] \in {"take", "own", "reown", "reclaim", "read", "probe", "rm", "retake",
                    "unreclaim"}
  BY DEF Acquiring, Take, WriteIdentity, MakeReclaim, ReadOwner, ProbeOwner, RemoveStale, Retake,
     RemoveReclaim
<1>2. PICK s \in {"own", "reown", "reclaim", "read", "probe", "rm", "retake", "unreclaim", "got",
                  "refused", "gone"} : Goto(c, s)
  BY <1>1, RefusalIs DEF Acquiring, Take, WriteIdentity, MakeReclaim, ReadOwner, ProbeOwner,
     RemoveStale, Retake, RemoveReclaim
<1>3. c # pred => phase[c] # "active"
  BY <1>1 DEF SInv, ActiveServes
<1> QED BY <1>1, <1>2, <1>3, StepsAre, CoordinatorStep DEF helperVars, SInv, PredIsNotStarted

LEMMA LifecycleStep == ASSUME IInv, SInv, NEW c \in Coord, Lifecycle(c) PROVE SInv'
<1>0. /\ phase \in [Coord -> {"none", "starting", "active", "stopped"}]
      /\ c # pred => /\ pc[c] \in {"activate", "active"} => c \in attached
                     /\ phase[c] = "active" => pc[c] \in {"active", "gone"}
  BY TypedParts DEF IInv, CoordTyped, SInv, ActiveServes
<1>1. CASE Starting(c)
  BY <1>0, <1>1, StepsAre, CoordinatorStep DEF Starting, helperVars, SInv, PredIsNotStarted
<1>2. CASE Attach(c)
  <2>1. PICK s \in {"activate", "stop"} :
          /\ Goto(c, s) /\ (s = "activate" => c \in attached')
          /\ attached \subseteq attached'
    BY <1>2 DEF Attach
  <2>2. /\ UNCHANGED faults \/ Crashed
        /\ UNCHANGED <<phase, attempt, helperVars, released>> /\ c # pred /\ pc[c] = "attach"
    BY <1>2 DEF Attach
  <2>3. phase[c] # "active" /\ UNCHANGED <<attempt, hpc, candidate, result, released>>
    BY <1>0, <2>2 DEF helperVars
  <2>4. PredIsNotStarted'
    BY <2>2 DEF helperVars, SInv, PredIsNotStarted
  <2>5. s \in Steps /\ s # "active"
    BY StepsAre
  <2>6. \A d \in Coord \ {c} : phase'[d] = phase[d] /\ (d \in attached => d \in attached')
    BY <2>1, <2>2
  <2>7. phase'[c] # "active" /\ (UNCHANGED faults \/ Crashed \/ Failed \/ Late)
    BY <2>2, <2>3
  <2> QED BY <2>1, <2>2, <2>3, <2>4, <2>5, <2>6, <2>7, CoordinatorStep
<1>3. CASE Activate(c)
  BY <1>0, <1>3, StepsAre, CoordinatorStep DEF Activate, helperVars, SInv, PredIsNotStarted
<1>4. CASE Stop(c)
  <2>1. PICK s \in {"stopUnlink", "gone"} : Goto(c, s)
    BY <1>4 DEF Stop
  <2> QED BY <1>0, <1>4, <2>1, StepsAre, CoordinatorStep
          DEF Stop, helperVars, SInv, PredIsNotStarted
<1>5. CASE StopUnlink(c)
  BY <1>0, <1>5, StepsAre, CoordinatorStep DEF StopUnlink, helperVars, SInv, PredIsNotStarted
<1> QED BY <1>1, <1>2, <1>3, <1>4, <1>5 DEF Lifecycle

LEMMA UserLaunchesStep == ASSUME IInv, SInv, NEW c \in Coord, UserLaunches(c) PROVE SInv'
<1>1. /\ c # pred /\ pc[c] = "off" /\ Goto(c, "take")
      /\ launcher' = [launcher EXCEPT ![User] = c]
      /\ UNCHANGED <<attached, phase, attempt, hpc, candidate, result, released, faults>>
  BY DEF UserLaunches, Launches
<1>2. PredIsNotStarted'
  BY <1>1, TypedParts DEF SInv, PredIsNotStarted, IInv, HelperTyped
<1>3. phase[c] # "active"
  BY <1>1 DEF SInv, ActiveServes
<1> QED BY <1>1, <1>2, <1>3, StepsAre, CoordinatorStep

LEMMA LauncherEndsStep ==
    ASSUME IInv, SInv, NEW k \in Attempt \cup {User}, LauncherEnds(k)
    PROVE  SInv'
<1> DEFINE c == launcher[k]
<1>1. /\ launcher \in [Attempt \cup {User} -> Coord \cup {NoOne}] /\ c \in Coord \ {pred}
      /\ launcher' = [launcher EXCEPT ![k] = NoOne]
      /\ UNCHANGED <<phase, attempt, hpc, candidate, result, released>>
      /\ UNCHANGED faults \/ Crashed \/ Late
  BY TypedParts DEF LauncherEnds, SInv, PredIsNotStarted, IInv, HelperTyped
<1>2. PredIsNotStarted'
  BY <1>1, HandoffAssumption DEF SInv, PredIsNotStarted
<1>3. CASE UNCHANGED <<pc, attached>>
  <2>1. Fresh' => Fresh
    BY <1>1, FreshBefore DEF IInv
  <2> QED BY <1>1, <1>2, <1>3, <2>1
          DEF SInv, ReleasedSoFar, ActiveServes, LastWord, InTurn, Serves
<1>4. CASE Dies(c) /\ (phase[c] # "active" \/ Late)
  <2>1. pc[c] = "active" => ~Fresh'
    BY <1>1, <1>4, FreshBefore DEF SInv, ActiveServes, IInv
  <2> QED BY <1>1, <1>2, <1>4, <2>1, StepsAre, CoordinatorStep DEF Dies
<1> QED BY <1>3, <1>4 DEF LauncherEnds

LEMMA CoordinatorDiesStep == ASSUME IInv, SInv, NEW c \in Coord, CoordinatorDies(c) PROVE SInv'
<1>1. ~Fresh'
  BY FreshBefore DEF CoordinatorDies, IInv
<1> QED BY <1>1, StepsAre, CoordinatorStep
    DEF CoordinatorDies, Dies, helperVars, SInv, PredIsNotStarted

-----------------------------------------------------------------------------
(* The predecessor hands over.                                              *)

LEMMA BeginHandoffStep == ASSUME IInv, SInv, BeginHandoff PROVE SInv'
<1>1. /\ pc[pred] = "active" /\ pc' = [pc EXCEPT ![pred] = "arming"] /\ attempt' = attempt + 1
      /\ hpc' = [hpc EXCEPT ![attempt + 1] = "arm"]
      /\ UNCHANGED <<attached, phase, launcher, candidate, result, released, faults>>
  BY DEF BeginHandoff, Goto, HelperGoto
<1>2. /\ attempt \in Nat /\ hpc \in [Attempt -> {"off", "arm", "wait", "launch", "launching",
                                                 "poll", "ready", "stop", "report", "gone"}]
      /\ pc \in [Coord -> Steps] /\ released \subseteq Attempt
  BY TypedParts DEF IInv, RestTyped, HelperTyped, CoordTyped
<1>3. attempt + 1 \notin released /\ released \subseteq 1..attempt'
  BY <1>1, <1>2 DEF SInv, ReleasedSoFar
<1>4. PredIsNotStarted' /\ ActiveServes'
  BY <1>1, <1>2, PredIs DEF SInv, PredIsNotStarted, ActiveServes
<1>5. LastWord'
  <2> SUFFICES ASSUME NEW k \in Attempt
               PROVE  /\ result[k] \in {"yes", "no"} => hpc'[k] = "gone"
                      /\ k > attempt + 1 => hpc'[k] = "off" /\ result[k] = "none"
    BY <1>1 DEF LastWord
  <2>1. k \in Nat
    BY HandoffAssumption DEF Attempt
  <2>2. CASE k = attempt + 1
    <3>1. result[k] = "none"
      BY <1>2, <2>2 DEF SInv, LastWord
    <3> QED BY <1>2, <2>2, <3>1
  <2>3. CASE k # attempt + 1
    <3>1. hpc'[k] = hpc[k]
      BY <1>1, <1>2, <2>3
    <3> QED BY <1>2, <2>1, <2>3, <3>1 DEF SInv, LastWord
  <2> QED BY <2>2, <2>3
<1>6. ASSUME Fresh' PROVE InTurn'
  <2>1. InTurn
    BY <1>1, <1>6 DEF SInv, Fresh
  <2>2. \A k \in Attempt : k \notin released \/ hpc[k] \in {"off", "gone"}
    BY <1>1, <2>1 DEF InTurn
  <2>3. \A k \in Attempt : hpc'[k] \notin Beyond /\ result[k] # "yes"
    BY <1>1, <1>2, <2>1, <2>2 DEF InTurn, Beyond
  <2>4. \A k \in Attempt : k \in released => hpc'[k] \in {"off", "gone"}
    BY <1>1, <1>2, <1>3, <2>2
  <2> QED BY <1>1, <2>3, <2>4 DEF InTurn, Beyond
<1> QED BY <1>1, <1>3, <1>4, <1>5, <1>6 DEF SInv, ReleasedSoFar

LEMMA PredecessorStep == ASSUME IInv, SInv, Predecessor PROVE SInv'
<1> USE PredIs
<1>1. CASE PublishRelease
  <2>1. /\ pc[pred] = "publish"
        /\ UNCHANGED <<attached, phase, attempt, hpc, launcher, candidate, result>>
        /\ \/ released' = released \cup {attempt} /\ pc' = [pc EXCEPT ![pred] = "waiting"]
              /\ UNCHANGED faults
           \/ Failed /\ pc' = [pc EXCEPT ![pred] = "take"] /\ UNCHANGED released
    BY <1>1 DEF PublishRelease, coordVars, helperVars, Goto
  <2>2. pc \in [Coord -> Steps] /\ attempt \in Nat
    BY TypedParts DEF IInv, CoordTyped, RestTyped
  <2>3. attempt # 0 /\ released \subseteq 1..attempt
    <3>1. HandsOver /\ ReleasedSoFar /\ pc[pred] = "publish"
      BY <2>1 DEF IInv, SInv
    <3> QED BY <3>1 DEF HandsOver, ReleasedSoFar
  <2>4. ReleasedSoFar'
    <3>1. attempt \in 1..attempt
      BY <2>2, <2>3
    <3>2. released' \subseteq released \cup {attempt} /\ attempt' = attempt
      BY <2>1
    <3> QED BY <2>3, <3>1, <3>2 DEF ReleasedSoFar
  <2>5. PredIsNotStarted' /\ ActiveServes' /\ LastWord'
    BY <2>1, <2>2 DEF SInv, PredIsNotStarted, ActiveServes, LastWord
  <2>6. ASSUME Fresh' PROVE InTurn'
    <3>1. InTurn
      BY <2>1, <2>6, FreshBefore DEF SInv, IInv
    <3>2. \A k \in Attempt : /\ result[k] # "yes"
                             /\ hpc[k] \notin Beyond
                             /\ k \in released => hpc[k] \in {"off", "gone"}
      BY <2>1, <3>1 DEF InTurn, Beyond
    <3>3. released' = released \/ (released' = released \cup {attempt} /\ pc'[pred] = "waiting")
      BY <2>1, <2>2
    <3> QED BY <2>1, <3>2, <3>3 DEF InTurn, Beyond
  <2> QED BY <2>4, <2>5, <2>6 DEF SInv
<1>2. CASE Answered
  <2>1. /\ pc[pred] = "waiting" /\ UNCHANGED <<attached, phase, attempt, released>>
        /\ UNCHANGED <<hpc, launcher, candidate, result>>
        /\ \/ result[attempt] = "yes" /\ pc' = [pc EXCEPT ![pred] = "gone"] /\ UNCHANGED faults
           \/ /\ result[attempt] # "yes" /\ hpc[attempt] = "gone"
              /\ pc' = [pc EXCEPT ![pred] = "take"] /\ UNCHANGED faults
           \/ Late /\ pc' = [pc EXCEPT ![pred] = "take"]
    <3>1. attempt \in Attempt
      BY <1>2, HandoffAssumption, TypedParts
         DEF Answered, IInv, HandsOver, Attempt, RestTyped
    <3> QED BY <1>2, <3>1 DEF Answered, coordVars, helperVars, Goto, SInv, LastWord
  <2>2. pc \in [Coord -> Steps]
    BY TypedParts DEF IInv, CoordTyped
  <2>3. PredIsNotStarted' /\ ActiveServes' /\ LastWord' /\ ReleasedSoFar'
    BY <2>1, <2>2 DEF SInv, PredIsNotStarted, ActiveServes, LastWord, ReleasedSoFar
  <2>4. ASSUME Fresh' PROVE InTurn'
    <3>1. InTurn
      BY <2>1, <2>4, FreshBefore DEF SInv, IInv
    <3>2. ~Late
      BY <2>4, FreshBefore DEF IInv
    <3>3. \A k \in Attempt : Serves(candidate[k]) => Serves(candidate[k])'
      BY <2>1, <2>2 DEF Serves
    <3>4. hpc[attempt] = "gone"
      <4>1. attempt \in Attempt
        BY <2>1, HandoffAssumption, TypedParts
           DEF IInv, HandsOver, Attempt, RestTyped
      <4> QED BY <2>1, <3>2, <4>1 DEF SInv, LastWord
    <3>5. \A k \in Attempt : k \in released => hpc[k] \in {"off", "gone"}
      BY <3>1, <3>4 DEF InTurn
    <3>6. \A k \in Attempt : result[k] = "yes" => k = attempt
      BY <3>1 DEF InTurn
    <3>7. (\E k \in Attempt : result[k] = "yes") => pc'[pred] = "gone"
      BY <2>1, <2>2, <3>2, <3>6
    <3> QED BY <2>1, <3>1, <3>3, <3>5, <3>6, <3>7 DEF InTurn, Beyond
  <2> QED BY <2>3, <2>4 DEF SInv
<1>3. CASE Armed
  <2>1. PICK s \in {"quiesce", "active"} : Goto(pred, s)
    BY <1>3 DEF Armed
  <2> QED BY <1>3, <2>1, StepsAre, CoordinatorStep DEF Armed, helperVars, SInv, PredIsNotStarted
<1>4. CASE Quiesce
  BY <1>4, StepsAre, CoordinatorStep DEF Quiesce, helperVars, SInv, PredIsNotStarted
<1>5. CASE BeginRelease
  <2>1. PICK s \in {"unlink", "restore"} : Goto(pred, s)
    BY <1>5 DEF BeginRelease
  <2> QED BY <1>5, <2>1, StepsAre, CoordinatorStep
          DEF BeginRelease, helperVars, SInv, PredIsNotStarted
<1>6. CASE ReleaseLock
  BY <1>6, StepsAre, CoordinatorStep DEF ReleaseLock, helperVars, SInv, PredIsNotStarted
<1>7. CASE Refused
  <2>1. PICK s \in {"take", "gone"} : Goto(pred, s)
    BY <1>7 DEF Refused
  <2> QED BY <1>7, <2>1, StepsAre, CoordinatorStep DEF Refused, helperVars, SInv, PredIsNotStarted
<1>8. CASE Restore
  <2>1. PICK s \in {"active", "stop"} : Goto(pred, s)
    BY <1>8 DEF Restore
  <2>2. /\ pc[pred] \in {"got", "restore"} /\ attached \subseteq attached'
        /\ \A d \in Coord \ {pred} : d \in attached => d \in attached'
        /\ UNCHANGED faults \/ Crashed
        /\ UNCHANGED <<phase, attempt, helperVars, released>>
    BY <1>8 DEF Restore
  <2> QED BY <2>1, <2>2, StepsAre, CoordinatorStep DEF helperVars, SInv, PredIsNotStarted
<1> QED BY <1>1, <1>2, <1>3, <1>4, <1>5, <1>6, <1>7, <1>8 DEF Predecessor

-----------------------------------------------------------------------------
(* The helpers take their turns.                                            *)

LEMMA HelperTurns == ASSUME IInv, SInv, NEW k \in Attempt, Helper(k) \/ HelperDies(k) PROVE SInv'
<1>0. /\ HelperTyped /\ PredIsNotStarted /\ ActiveServes /\ LastWord
  BY TypedParts DEF IInv, SInv
<1>1. CASE Arm(k)
  <2>1. /\ hpc[k] = "arm"
        /\ UNCHANGED <<pc, attached, phase, attempt, candidate, launcher, released>>
        /\ \/ result' = [result EXCEPT ![k] = "armed"] /\ HelperGoto(k, "wait") /\ UNCHANGED faults
           \/ Failed /\ result' = [result EXCEPT ![k] = "no"] /\ HelperGoto(k, "gone")
    BY <1>1 DEF Arm, coordVars, Report
  <2>2. PredIsNotStarted' /\ ActiveServes'
    BY <1>0, <2>1 DEF PredIsNotStarted, ActiveServes
  <2> QED BY <1>0, <2>1, <2>2, HelperStep DEF HelperTyped, Beyond
<1>2. CASE AwaitRelease(k)
  <2>1. /\ hpc[k] = "wait"
        /\ UNCHANGED <<pc, attached, phase, attempt, candidate, launcher, released>>
        /\ \/ k \in released /\ HelperGoto(k, "launch") /\ UNCHANGED <<result, faults>>
           \/ /\ result' = [result EXCEPT ![k] = "no"] /\ HelperGoto(k, "gone")
              /\ UNCHANGED faults \/ Failed
    BY <1>2 DEF AwaitRelease, coordVars, Report
  <2>2. PredIsNotStarted' /\ ActiveServes'
    BY <1>0, <2>1 DEF PredIsNotStarted, ActiveServes
  <2>3. result[k] \notin {"yes", "no"}
    BY <1>0, <2>1 DEF LastWord
  <2> QED BY <1>0, <2>1, <2>2, <2>3, HelperStep DEF HelperTyped, Beyond
<1>3. CASE Launch(k)
  <2>1. /\ hpc[k] = "launch" /\ HelperGoto(k, "launching")
        /\ UNCHANGED <<attached, phase, attempt, candidate, result, released, faults>>
    BY <1>3 DEF Launch
  <2>2. PredIsNotStarted' /\ ActiveServes' /\ pc'[pred] = pc[pred]
    <3>1. CASE UNCHANGED <<pc, launcher>>
      BY <1>0, <2>1, <3>1 DEF PredIsNotStarted, ActiveServes
    <3>2. ASSUME NEW c \in Coord, Launches(c), launcher' = [launcher EXCEPT ![k] = c]
          PROVE  PredIsNotStarted' /\ ActiveServes' /\ pc'[pred] = pc[pred]
      <4>1. c # pred /\ pc[c] = "off" /\ pc'[c] = "take"
            /\ \A d \in Coord \ {c} : pc'[d] = pc[d]
        BY <3>2, StepsAre, GotoTyped DEF Launches, IInv
      <4>2. PredIsNotStarted'
        BY <1>0, <2>1, <3>2, <4>1 DEF PredIsNotStarted, HelperTyped
      <4>3. ActiveServes'
        BY <1>0, <2>1, <4>1 DEF ActiveServes
      <4> QED BY <4>1, <4>2, <4>3, PredIs
    <3> QED BY <1>3, <3>1, <3>2 DEF Launch
  <2>3. result[k] \notin {"yes", "no"}
    BY <1>0, <2>1 DEF LastWord
  <2> QED BY <2>1, <2>2, <2>3, HelperStep DEF Beyond
<1>4. CASE Launched(k)
  <2>1. /\ hpc[k] = "launching" /\ HelperGoto(k, "poll")
        /\ UNCHANGED <<pc, attached, phase, attempt, candidate, result, released>>
        /\ UNCHANGED faults \/ Failed
        /\ launcher' \in {launcher, [launcher EXCEPT ![k] = NoOne]}
    BY <1>4 DEF Launched, coordVars
  <2>2. PredIsNotStarted' /\ ActiveServes'
    BY <1>0, <2>1, HandoffAssumption DEF PredIsNotStarted, ActiveServes, HelperTyped
  <2>3. result[k] \notin {"yes", "no"}
    BY <1>0, <2>1 DEF LastWord
  <2> QED BY <2>1, <2>2, <2>3, HelperStep DEF Beyond
<1>5. CASE FindReady(k)
  <2>1. PICK c \in New(k) : /\ phase[c] = "active" /\ Alive(c)
                            /\ candidate' = [candidate EXCEPT ![k] = c]
    BY <1>5 DEF FindReady
  <2>2. PICK s \in {"ready", "stop"} : HelperGoto(k, s)
    BY <1>5 DEF FindReady
  <2>3. /\ hpc[k] = "poll" /\ UNCHANGED <<pc, attached, phase, attempt, launcher, result, released>>
        /\ UNCHANGED faults \/ Failed
    BY <1>5 DEF FindReady, coordVars
  <2>4. c \in Coord \ {pred} /\ pc[c] = "active" /\ c \in attached
    BY <1>0, <2>1 DEF New, Alive, ActiveServes
  <2>5. candidate'[k] = c /\ \A j \in Attempt \ {k} : candidate'[j] = candidate[j]
    BY <1>0, <2>1 DEF HelperTyped
  <2>6. PredIsNotStarted' /\ ActiveServes' /\ Serves(candidate[k])'
    BY <1>0, <2>3, <2>4, <2>5 DEF PredIsNotStarted, ActiveServes, Serves
  <2>7. result[k] \notin {"yes", "no"}
    BY <1>0, <2>3 DEF LastWord
  <2> QED BY <2>2, <2>3, <2>5, <2>6, <2>7, HelperStep DEF Beyond
<1>6. CASE GiveUp(k)
  <2>1. PICK c \in New(k) \cup {NoOne} : candidate' = [candidate EXCEPT ![k] = c]
    BY <1>6 DEF GiveUp
  <2>2. /\ hpc[k] = "poll" /\ HelperGoto(k, "stop")
        /\ UNCHANGED <<pc, attached, phase, attempt, launcher, result, released, faults>>
    BY <1>6 DEF GiveUp, coordVars
  <2>3. PredIsNotStarted' /\ ActiveServes'
    BY <1>0, <2>1, <2>2, HandoffAssumption DEF PredIsNotStarted, ActiveServes, New, HelperTyped
  <2>4. \A j \in Attempt \ {k} : candidate'[j] = candidate[j]
    BY <1>0, <2>1 DEF HelperTyped
  <2>5. result[k] \notin {"yes", "no"}
    BY <1>0, <2>2 DEF LastWord
  <2> QED BY <2>2, <2>3, <2>4, <2>5, HelperStep DEF Beyond
<1>7. CASE ReportReady(k)
  <2>1. /\ hpc[k] = "ready" /\ HelperGoto(k, "gone")
        /\ UNCHANGED <<pc, attached, phase, attempt, launcher, candidate, released>>
        /\ UNCHANGED faults \/ Failed
        /\ \E r \in {"yes", "no"} : result' = [result EXCEPT ![k] = r]
    BY <1>7 DEF ReportReady, coordVars, Report
  <2>2. PredIsNotStarted' /\ ActiveServes'
    BY <1>0, <2>1 DEF PredIsNotStarted, ActiveServes
  <2>3. \A j \in Attempt \ {k} : result'[j] = result[j]
    BY <1>0, <2>1 DEF HelperTyped
  <2>4. ASSUME Fresh' PROVE Serves(candidate[k])'
    <3>1. Fresh
      BY <2>1, <2>4, FreshBefore DEF IInv
    <3>2. Serves(candidate[k])
      BY <2>1, <3>1 DEF SInv, InTurn
    <3> QED BY <2>1, <3>2 DEF Serves
  <2> QED BY <2>1, <2>2, <2>3, <2>4, HelperStep DEF Beyond
<1>8. CASE StopCandidate(k)
  <2>1. /\ hpc[k] = "stop" /\ HelperGoto(k, "report")
        /\ UNCHANGED <<phase, attempt, candidate, launcher, result, released>>
        /\ UNCHANGED faults \/ Failed
    BY <1>8 DEF StopCandidate
  <2>2. result[k] \notin {"yes", "no"}
    BY <1>0, <2>1 DEF LastWord
  <2>3. CASE UNCHANGED <<pc, attached>>
    <3>1. PredIsNotStarted' /\ ActiveServes'
      BY <1>0, <2>1, <2>3 DEF PredIsNotStarted, ActiveServes
    <3> QED BY <2>1, <2>2, <2>3, <3>1, HelperStep DEF Beyond
  <2>4. ASSUME NEW c \in Coord \ {pred}, Dies(c) PROVE SInv'
    <3>1. pc'[c] = "gone" /\ \A d \in Coord \ {c} : pc'[d] = pc[d]
      BY <2>4, StepsAre, GotoTyped DEF Dies, IInv
    <3>2. PredIsNotStarted' /\ ActiveServes' /\ pc'[pred] = pc[pred]
      BY <1>0, <2>1, <2>4, <3>1, PredIs DEF PredIsNotStarted, ActiveServes, Dies
    <3> QED BY <2>1, <2>2, <3>2, HelperStep DEF Beyond
  <2>5. \A c \in Coord \cup {NoOne} : c \notin {NoOne, pred} => c \in Coord \ {pred}
    OBVIOUS
  <2>6. UNCHANGED <<pc, attached>> \/ \E c \in Coord \ {pred} : Dies(c)
    <3>1. Owner \in Coord \cup {NoOne} /\ candidate[k] \in (Coord \cup {NoOne}) \ {pred}
      BY <1>0, OwnerIs DEF IInv, HelperTyped, PredIsNotStarted
    <3> QED BY <1>8, <3>1 DEF StopCandidate
  <2> QED BY <2>3, <2>4, <2>6
<1>9. CASE ReportFailure(k)
  <2>1. /\ hpc[k] = "report" /\ HelperGoto(k, "gone")
        /\ UNCHANGED <<pc, attached, phase, attempt, launcher, released, faults>>
        /\ result' = [result EXCEPT ![k] = "no"] /\ candidate' = [candidate EXCEPT ![k] = NoOne]
    BY <1>9 DEF ReportFailure, coordVars, Report
  <2>2. PredIsNotStarted' /\ ActiveServes'
    BY <1>0, <2>1, HandoffAssumption DEF PredIsNotStarted, ActiveServes, HelperTyped
  <2>3. /\ \A j \in Attempt \ {k} : result'[j] = result[j] /\ candidate'[j] = candidate[j]
        /\ result'[k] = "no"
    BY <1>0, <2>1 DEF HelperTyped
  <2> QED BY <2>1, <2>2, <2>3, HelperStep DEF Beyond
<1>10. CASE HelperDies(k)
  <2>1. /\ hpc[k] \notin {"off", "gone"} /\ HelperGoto(k, "gone") /\ Failed
        /\ UNCHANGED <<pc, attached, phase, attempt, launcher, candidate, result, released>>
    BY <1>10 DEF HelperDies, coordVars
  <2>2. PredIsNotStarted' /\ ActiveServes'
    BY <1>0, <2>1 DEF PredIsNotStarted, ActiveServes
  <2>3. result[k] \notin {"yes", "no"} /\ hpc[k] \in Beyond \cup {"arm", "wait"}
    BY <1>0, <2>1 DEF LastWord, HelperTyped, Beyond
  <2> QED BY <2>1, <2>2, <2>3, HelperStep DEF Beyond
<1> QED BY <1>1, <1>2, <1>3, <1>4, <1>5, <1>6, <1>7, <1>8, <1>9, <1>10 DEF Helper

LEMMA InitiallyInTurn == Init => SInv
<1> SUFFICES ASSUME Init PROVE SInv
  OBVIOUS
<1>1. \A c \in Coord \ {pred} : pc[c] = "off" /\ phase[c] = "none"
  BY DEF Init
<1>2. ActiveServes /\ ReleasedSoFar
  BY <1>1 DEF Init, ActiveServes, ReleasedSoFar
<1>3. PredIsNotStarted
  BY HandoffAssumption DEF Init, PredIsNotStarted
<1>4. LastWord /\ InTurn
  BY DEF Init, LastWord, InTurn, Beyond
<1> QED BY <1>2, <1>3, <1>4 DEF SInv

LEMMA TurnsKept == ASSUME IInv, SInv, [Next]_vars PROVE SInv'
<1>1. CASE BeginHandoff \/ Predecessor
  BY <1>1, BeginHandoffStep, PredecessorStep
<1>2. ASSUME NEW c \in Coord, Acquiring(c) \/ Lifecycle(c) \/ UserLaunches(c) \/ CoordinatorDies(c)
      PROVE  SInv'
  BY <1>2, AcquiringStep, LifecycleStep, UserLaunchesStep, CoordinatorDiesStep
<1>3. ASSUME NEW k \in Attempt \cup {User}, LauncherEnds(k) PROVE SInv'
  BY <1>3, LauncherEndsStep
<1>4. ASSUME NEW k \in Attempt, Helper(k) \/ HelperDies(k) PROVE SInv'
  BY <1>4, HelperTurns
<1>5. CASE UNCHANGED vars
  <2>1. UNCHANGED <<pc, attached, phase, attempt, hpc, launcher, candidate, result, released,
                    faults>>
    BY <1>5 DEF vars, coordVars, helperVars
  <2> QED BY <2>1 DEF SInv, ReleasedSoFar, PredIsNotStarted, ActiveServes, LastWord, InTurn,
                      Serves, Fresh
<1> QED BY <1>1, <1>2, <1>3, <1>4, <1>5 DEF Next

(* A successor that was reported ready serves the app for good and owns the *)
(* session lock: no helper, launcher or other coordinator stops it, in      *)
(* however many handoffs, as long as the predecessor's waits outlast its    *)
(* helper's and no coordinator dies by itself, and none takes its lock      *)
(* unless acquireLock met its race.                                         *)
THEOREM ReportedServes == Spec => []SuccessorServes
<1>1. IInv /\ SInv => SuccessorServes
  <2>1. SInv => (faults.late = 0 /\ faults.crash = 0 =>
                    \A k \in Attempt : result[k] = "yes" => candidate[k] \in attached)
    BY DEF SInv, InTurn, Serves, Fresh
  <2> QED BY <2>1, ServerOwnsLock DEF SuccessorServes, AttachedOwnsLock
<1>2. IInv /\ SInv /\ [Next]_vars => SInv'
  BY TurnsKept
<1> QED BY <1>1, <1>2, InitiallyInTurn, Invariance, PTL DEF Spec
=============================================================================
