------------------------- MODULE CoordinatorHandoff -------------------------
(***************************************************************************)
(* The handoff of a running app from one update coordinator to the next    *)
(* (update-session.js: acquireLock, releaseLockIfOwned, main,              *)
(* handoffCoordinator; coordinator-handoff.js).  After a live update the   *)
(* predecessor spawns a helper, waits until it is armed, closes its        *)
(* renderer transport, releases the session lock and publishes a release   *)
(* file; the helper starts the installed coordinator, waits until it is    *)
(* active, and reports; on failure it stops the candidate and the          *)
(* predecessor takes lock and transport back.  A launcher run by the user  *)
(* may start a coordinator too.  Each file operation is a step of its own; *)
(* the app stays open (its exit ends every coordinator), process ids are   *)
(* never reused, and the reclaim directory counts as one file.             *)
(***************************************************************************)
EXTENDS Naturals

CONSTANTS Coord,        \* coordinator processes
          pred,         \* ... the one that runs at first
          NoOne,
          Attempts,     \* handoffs the predecessor tries (3 in the code)
          MaxFaults     \* bound on deaths, failed calls and waits that end too early

ASSUME HandoffAssumption ==
    /\ pred \in Coord /\ NoOne \notin Coord
    /\ Attempts \in Nat \ {0} /\ MaxFaults \in Nat

Attempt == 1..Attempts
User == 0    \* the launcher run by the user

VARIABLES
    lock,       \* <<maker of the lock file, its identity is written>>
    reclaim,    \* maker of the reclaim directory
    pc, seen,   \* per coordinator: next step; lock owner read in acquireLock
    attached,   \* coordinators with an open renderer transport
    phase,      \* per coordinator: phase in its state file
    attempt,    \* the predecessor's current handoff
    hpc,        \* per handoff: the helper's next step
    before,     \* per handoff: coordinators whose session it knew before its launch
    launcher,   \* per handoff, and for the user: the coordinator its launcher is starting
    candidate,  \* ... the coordinator it believes it started
    result,     \* ... its result file
    released,   \* ... handoffs whose release file was published
    raced,      \* (history) a dead owner was read, but the lock is another's by now
    faults

lockVars == <<lock, reclaim, seen, raced>>
coordVars == <<pc, attached, phase>>
helperVars == <<hpc, before, launcher, candidate, result>>
vars == <<lockVars, coordVars, attempt, helperVars, released, faults>>

Free == <<NoOne, FALSE>>
OwnedBy(c) == <<c, TRUE>>
Owner == IF lock[2] THEN lock[1] ELSE NoOne

Alive(c) == pc[c] \notin {"off", "gone"}

Goto(c, step) == pc' = [pc EXCEPT ![c] = step]
HelperGoto(k, step) == hpc' = [hpc EXCEPT ![k] = step]
Report(k, r) == result' = [result EXCEPT ![k] = r]

\* A coordinator dies or cannot attach; a helper or launcher dies, a probe, a
\* write or a kill fails; a wait of the predecessor ends before what it awaits.
Fault(kind) == /\ faults.crash + faults.failure + faults.late < MaxFaults
               /\ faults' = [faults EXCEPT ![kind] = @ + 1]
Crashed == Fault("crash")
Failed == Fault("failure")
Late == Fault("late")

Init ==
    /\ lock = OwnedBy(pred) /\ reclaim = NoOne
    /\ pc = [c \in Coord |-> IF c = pred THEN "active" ELSE "off"]
    /\ seen = [c \in Coord |-> NoOne]
    /\ attached = {pred}
    /\ phase = [c \in Coord |-> IF c = pred THEN "active" ELSE "none"]
    /\ attempt = 0
    /\ hpc = [k \in Attempt |-> "off"] /\ before = [k \in Attempt |-> {}]
    /\ launcher = [k \in Attempt \cup {User} |-> NoOne] /\ candidate = [k \in Attempt |-> NoOne]
    /\ result = [k \in Attempt |-> "none"]
    /\ released = {}
    /\ raced = FALSE
    /\ faults = [crash |-> 0, failure |-> 0, late |-> 0]

-----------------------------------------------------------------------------
(* acquireLock.  It ends in "got" or in a refusal, which ends every coordinator
   but the predecessor.  Who has written its identity has "seen" itself. *)

Refusal(c) == IF c = pred THEN "refused" ELSE "gone"

Take(c) ==
    /\ pc[c] = "take"
    /\ IF lock = Free THEN lock' = <<c, FALSE>> /\ Goto(c, "own")
                      ELSE UNCHANGED lock /\ Goto(c, "reclaim")
    /\ UNCHANGED <<reclaim, seen, raced, attached, phase, attempt, helperVars, released, faults>>

\* The identity goes to the file the process created, which may be gone.
WriteIdentity(c) ==
    /\ lock' = IF lock[1] = c THEN OwnedBy(c) ELSE lock
    /\ \/ pc[c] = "own" /\ Goto(c, "got") /\ UNCHANGED seen
       \/ pc[c] = "reown" /\ Goto(c, "unreclaim") /\ seen' = [seen EXCEPT ![c] = c]
    /\ UNCHANGED <<reclaim, raced, attached, phase, attempt, helperVars, released, faults>>

MakeReclaim(c) ==
    /\ pc[c] = "reclaim"
    /\ IF reclaim = NoOne THEN reclaim' = c /\ Goto(c, "read")
                          ELSE UNCHANGED reclaim /\ Goto(c, Refusal(c))
    /\ UNCHANGED <<lock, seen, raced, attached, phase, attempt, helperVars, released, faults>>

ReadOwner(c) ==
    /\ pc[c] = "read"
    /\ seen' = [seen EXCEPT ![c] = Owner]
    /\ Goto(c, IF Owner = NoOne THEN "unreclaim" ELSE "probe")
    /\ UNCHANGED <<lock, reclaim, raced, attached, phase, attempt, helperVars, released, faults>>

ProbeOwner(c) ==
    /\ pc[c] = "probe"
    /\ Goto(c, IF Alive(seen[c]) THEN "unreclaim" ELSE "rm")
    /\ raced' = (raced \/ (~Alive(seen[c]) /\ lock # OwnedBy(seen[c])))
    /\ UNCHANGED <<lock, reclaim, seen, attached, phase, attempt, helperVars, released, faults>>

RemoveStale(c) ==
    /\ pc[c] = "rm"
    /\ lock' = Free /\ Goto(c, "retake")
    /\ UNCHANGED <<reclaim, seen, raced, attached, phase, attempt, helperVars, released, faults>>

Retake(c) ==
    /\ pc[c] = "retake"
    /\ IF lock = Free THEN lock' = <<c, FALSE>> /\ Goto(c, "reown")
                      ELSE UNCHANGED lock /\ Goto(c, "unreclaim")
    /\ UNCHANGED <<reclaim, seen, raced, attached, phase, attempt, helperVars, released, faults>>

RemoveReclaim(c) ==
    /\ pc[c] = "unreclaim"
    /\ reclaim' = IF reclaim = c THEN NoOne ELSE reclaim
    /\ Goto(c, IF seen[c] = c THEN "got" ELSE Refusal(c))
    /\ seen' = [seen EXCEPT ![c] = NoOne]
    /\ UNCHANGED <<lock, raced, attached, phase, attempt, helperVars, released, faults>>

Acquiring(c) == \/ Take(c) \/ WriteIdentity(c) \/ MakeReclaim(c) \/ ReadOwner(c)
                \/ ProbeOwner(c) \/ RemoveStale(c) \/ Retake(c) \/ RemoveReclaim(c)

-----------------------------------------------------------------------------
(* main() of a coordinator other than the predecessor. *)

Starting(c) ==
    /\ c # pred /\ pc[c] = "got"
    /\ phase' = [phase EXCEPT ![c] = "starting"] /\ Goto(c, "attach")
    /\ UNCHANGED <<lockVars, attached, attempt, helperVars, released, faults>>

Attach(c) ==
    /\ c # pred /\ pc[c] = "attach"
    /\ \/ attached' = attached \cup {c} /\ Goto(c, "activate") /\ UNCHANGED faults
       \/ Crashed /\ Goto(c, "stop") /\ UNCHANGED attached
    /\ UNCHANGED <<lockVars, phase, attempt, helperVars, released>>

Activate(c) ==
    /\ pc[c] = "activate"
    /\ phase' = [phase EXCEPT ![c] = "active"] /\ Goto(c, "active")
    /\ UNCHANGED <<lockVars, attached, attempt, helperVars, released, faults>>

\* The finally block: transport closed, state "stopped", releaseLockIfOwned.
Stop(c) ==
    /\ pc[c] = "stop"
    /\ attached' = attached \ {c}
    /\ phase' = [phase EXCEPT ![c] = "stopped"]
    /\ Goto(c, IF Owner = c THEN "stopUnlink" ELSE "gone")
    /\ UNCHANGED <<lockVars, attempt, helperVars, released, faults>>

StopUnlink(c) ==
    /\ pc[c] = "stopUnlink"
    /\ lock' = Free /\ Goto(c, "gone")
    /\ UNCHANGED <<reclaim, seen, raced, attached, phase, attempt, helperVars, released, faults>>

Lifecycle(c) == Starting(c) \/ Attach(c) \/ Activate(c) \/ Stop(c) \/ StopUnlink(c)

-----------------------------------------------------------------------------
(* handoffCoordinator() in the predecessor. *)

BeginHandoff ==
    /\ pc[pred] = "active" /\ attempt < Attempts
    /\ attempt' = attempt + 1
    /\ HelperGoto(attempt + 1, "arm") /\ Goto(pred, "arming")
    /\ UNCHANGED <<lockVars, attached, phase, before, launcher, candidate, result, released, faults>>

\* A helper that cannot arm leaves lock and transport where they are.
Armed ==
    /\ pc[pred] = "arming"
    /\ \/ result[attempt] = "armed" /\ Goto(pred, "quiesce") /\ UNCHANGED faults
       \/ result[attempt] = "no" /\ Goto(pred, "active") /\ UNCHANGED faults
       \/ hpc[attempt] = "gone" /\ result[attempt] = "none" /\ Goto(pred, "active") /\ UNCHANGED faults
       \/ Late /\ Goto(pred, "active")
    /\ UNCHANGED <<lockVars, attached, phase, attempt, helperVars, released>>

Quiesce ==
    /\ pc[pred] = "quiesce"
    /\ attached' = attached \ {pred} /\ Goto(pred, "release")
    /\ UNCHANGED <<lockVars, phase, attempt, helperVars, released, faults>>

\* A lock that is no longer its own makes the release fail.
BeginRelease ==
    /\ pc[pred] = "release"
    /\ Goto(pred, IF Owner = pred THEN "unlink" ELSE "restore")
    /\ UNCHANGED <<lockVars, attached, phase, attempt, helperVars, released, faults>>

ReleaseLock ==
    /\ pc[pred] = "unlink"
    /\ lock' = Free /\ Goto(pred, "publish")
    /\ UNCHANGED <<reclaim, seen, raced, attached, phase, attempt, helperVars, released, faults>>

PublishRelease ==
    /\ pc[pred] = "publish"
    /\ \/ released' = released \cup {attempt} /\ Goto(pred, "waiting") /\ UNCHANGED faults
       \/ Failed /\ Goto(pred, "take") /\ UNCHANGED released
    /\ UNCHANGED <<lockVars, attached, phase, attempt, helperVars>>

\* Mutant: the predecessor ends whatever the helper reports.
AnsweredAnyhow ==
    /\ pc[pred] = "waiting" /\ result[attempt] \in {"yes", "no"}
    /\ Goto(pred, "gone")
    /\ UNCHANGED <<lockVars, attached, phase, attempt, helperVars, released, faults>>

\* Success ends the predecessor; any other answer makes it take its lock back.
Answered ==
    /\ pc[pred] = "waiting"
    /\ \/ result[attempt] = "yes" /\ Goto(pred, "gone") /\ UNCHANGED faults
       \/ result[attempt] = "no" /\ Goto(pred, "take") /\ UNCHANGED faults
       \/ /\ hpc[attempt] = "gone" /\ launcher[attempt] = NoOne /\ result[attempt] = "armed"
          /\ Goto(pred, "take") /\ UNCHANGED faults
       \/ Late /\ Goto(pred, "take")
    /\ UNCHANGED <<lockVars, attached, phase, attempt, helperVars, released>>

\* A process died between creating its lock and writing its identity, or while
\* it held the reclaim directory: no coordinator can acquire the lock any more.
Stuck == \/ lock # Free /\ Owner = NoOne /\ ~Alive(lock[1])
         \/ reclaim # NoOne /\ ~Alive(reclaim)

Blocked == Stuck \/ (Owner # NoOne /\ Alive(Owner))

\* Mutant: the transport is restored although another holds the lock.
RefusedRestores ==
    /\ pc[pred] = "refused"
    /\ Goto(pred, "restore")
    /\ UNCHANGED <<lockVars, attached, phase, attempt, helperVars, released, faults>>

\* reacquireCoordinatorLock tries again for ten seconds, then the recovery is
\* incomplete and the predecessor ends without its lock.
Refused ==
    /\ pc[pred] = "refused"
    /\ \/ Goto(pred, "take") /\ UNCHANGED faults
       \/ Blocked /\ Goto(pred, "gone") /\ UNCHANGED faults
       \/ ~Blocked /\ Late /\ Goto(pred, "gone")
    /\ UNCHANGED <<lockVars, attached, phase, attempt, helperVars, released>>

\* restoreCoordinatorTransport; if it fails the recovery is incomplete.
Restore ==
    /\ pc[pred] \in {"got", "restore"}
    /\ \/ attached' = attached \cup {pred} /\ Goto(pred, "active") /\ UNCHANGED faults
       \/ Crashed /\ Goto(pred, "stop") /\ UNCHANGED attached
    /\ UNCHANGED <<lockVars, phase, attempt, helperVars, released>>

Predecessor == \/ Armed \/ Quiesce \/ BeginRelease \/ ReleaseLock \/ PublishRelease
               \/ Answered \/ Refused \/ Restore

-----------------------------------------------------------------------------
(* coordinator-handoff.js *)

Arm(k) ==
    /\ hpc[k] = "arm"
    /\ \/ Report(k, "armed") /\ HelperGoto(k, "wait") /\ UNCHANGED faults
       \/ Failed /\ Report(k, "no") /\ HelperGoto(k, "gone")
    /\ UNCHANGED <<lockVars, coordVars, attempt, before, launcher, candidate, released>>

\* Ten seconds for the release file and the free lock, then the app is probed.
AwaitRelease(k) ==
    /\ hpc[k] = "wait"
    /\ \/ k \in released /\ lock = Free /\ HelperGoto(k, "launch") /\ UNCHANGED <<result, faults>>
       \/ ~(k \in released /\ lock = Free)
          /\ Report(k, "no") /\ HelperGoto(k, "gone") /\ UNCHANGED faults
       \/ k \in released /\ lock = Free
          /\ Failed /\ Report(k, "no") /\ HelperGoto(k, "gone")
    /\ UNCHANGED <<lockVars, coordVars, attempt, before, launcher, candidate, released>>

\* Find-ReusableUpdateSession: the live owner of the lock, once it is active.
Reusable == \E c \in Coord : Alive(c) /\ Owner = c /\ phase[c] = "active"

Launches(c) == /\ c # pred /\ pc[c] = "off" /\ ~Reusable
               /\ Goto(c, "take")

\* The launcher starts the installed coordinator, or reuses one, or fails.
Launch(k) ==
    /\ hpc[k] = "launch"
    /\ before' = [before EXCEPT ![k] = {c \in Coord : pc[c] # "off"}]
    /\ \/ \E c \in Coord : Launches(c) /\ launcher' = [launcher EXCEPT ![k] = c]
       \/ UNCHANGED <<pc, launcher>>
    /\ HelperGoto(k, "launching")
    /\ UNCHANGED <<lockVars, attached, phase, attempt, candidate, result, released, faults>>

UserLaunches(c) ==
    /\ launcher[User] = NoOne /\ Launches(c)
    /\ launcher' = [launcher EXCEPT ![User] = c]
    /\ UNCHANGED <<lockVars, attached, phase, attempt, hpc, before, candidate, result, released, faults>>

Dies(c) == /\ Goto(c, "gone") /\ attached' = attached \ {c}

\* The launcher ends when its coordinator has written its receipt, just before it
\* is active, or is gone; one without a receipt in time it kills: a death of its
\* own if the user launched it.  A receipt may come between the last look and the
\* kill.
LauncherEnds(k) ==
    LET c == launcher[k]
    IN  /\ c # NoOne /\ launcher' = [launcher EXCEPT ![k] = NoOne]
        /\ \/ /\ ~Alive(c) \/ phase[c] = "active" \/ pc[c] = "activate"
              /\ UNCHANGED <<pc, attached, faults>>
           \/ /\ Alive(c) /\ phase[c] # "active" /\ Dies(c)
              /\ IF k = User THEN Crashed ELSE UNCHANGED faults
           \/ Alive(c) /\ phase[c] = "active" /\ Late /\ Dies(c)
        /\ UNCHANGED <<lockVars, phase, attempt, hpc, before, candidate, result, released>>

\* The helper's own limit ends the launcher but not the coordinator.
Launched(k) ==
    /\ hpc[k] = "launching"
    /\ \/ launcher[k] = NoOne /\ UNCHANGED <<launcher, faults>>
       \/ launcher[k] # NoOne /\ Failed /\ launcher' = [launcher EXCEPT ![k] = NoOne]
    /\ HelperGoto(k, "poll")
    /\ UNCHANGED <<lockVars, coordVars, attempt, before, candidate, result, released>>

\* Sessions that are new since the launch and have a state file.
New(k) == {c \in Coord \ (before[k] \cup {pred}) : phase[c] # "none"}

\* A new session is active and alive: it is ready, if the app and the installed
\* version are still the expected ones.
FindReady(k) ==
    /\ hpc[k] = "poll"
    /\ \E c \in New(k) :
         /\ phase[c] = "active" /\ Alive(c)
         /\ candidate' = [candidate EXCEPT ![k] = c]
    /\ \/ HelperGoto(k, "ready") /\ UNCHANGED faults
       \/ Failed /\ HelperGoto(k, "stop")
    /\ UNCHANGED <<lockVars, coordVars, attempt, before, launcher, result, released>>

GiveUp(k) ==
    /\ hpc[k] = "poll"
    /\ ~\E c \in New(k) : phase[c] = "active" /\ Alive(c)
    /\ candidate' \in {[candidate EXCEPT ![k] = c] : c \in IF New(k) = {} THEN {NoOne} ELSE New(k)}
    /\ HelperGoto(k, "stop")
    /\ UNCHANGED <<lockVars, coordVars, attempt, before, launcher, result, released, faults>>

\* Mutant: a readiness report stops the candidate too.
ReportReadyThenStop(k) ==
    /\ hpc[k] = "ready"
    /\ Report(k, "yes") /\ HelperGoto(k, "stop")
    /\ UNCHANGED <<lockVars, coordVars, attempt, before, launcher, candidate, released, faults>>

\* A result that cannot be written is reported as a failure.
ReportReady(k) ==
    /\ hpc[k] = "ready"
    /\ \/ Report(k, "yes") /\ UNCHANGED faults
       \/ Failed /\ Report(k, "no")
    /\ HelperGoto(k, "gone")
    /\ UNCHANGED <<lockVars, coordVars, attempt, before, launcher, candidate, released>>

\* captureExactLockOwner, then stopExactCandidate: whoever owns the lock now counts
\* as the candidate.  Whether it was stopped is nothing the predecessor reads.
StopCandidate(k) ==
    LET c == IF Owner \in {NoOne, pred} THEN candidate[k] ELSE Owner
    IN  /\ hpc[k] = "stop" /\ HelperGoto(k, "report")
        /\ \/ c # NoOne /\ Alive(c) /\ Dies(c) /\ UNCHANGED faults
           \/ (c # NoOne => ~Alive(c)) /\ UNCHANGED <<pc, attached, faults>>
           \/ c # NoOne /\ Alive(c) /\ Failed /\ UNCHANGED <<pc, attached>>
        /\ UNCHANGED <<lockVars, phase, attempt, before, launcher, candidate, result, released>>

ReportFailure(k) ==
    /\ hpc[k] = "report"
    /\ Report(k, "no") /\ HelperGoto(k, "gone")
    /\ before' = [before EXCEPT ![k] = {}] /\ candidate' = [candidate EXCEPT ![k] = NoOne]
    /\ UNCHANGED <<lockVars, coordVars, attempt, launcher, released, faults>>

Helper(k) == \/ Arm(k) \/ AwaitRelease(k) \/ Launch(k) \/ Launched(k) \/ FindReady(k)
             \/ GiveUp(k) \/ ReportReady(k)
             \/ StopCandidate(k) \/ ReportFailure(k)

-----------------------------------------------------------------------------
CoordinatorDies(c) ==
    /\ Alive(c) /\ Crashed /\ Dies(c)
    /\ UNCHANGED <<lockVars, phase, attempt, helperVars, released>>

\* Its launcher, if one is running, goes on by itself.
HelperDies(k) ==
    /\ hpc[k] \notin {"off", "gone"}
    /\ Failed /\ HelperGoto(k, "gone")
    /\ UNCHANGED <<lockVars, coordVars, attempt, before, launcher, candidate, result, released>>

Next == \/ BeginHandoff \/ Predecessor
        \/ \E c \in Coord : \/ Acquiring(c) \/ Lifecycle(c) \/ UserLaunches(c)
                            \/ CoordinatorDies(c)
        \/ \E k \in Attempt \cup {User} : LauncherEnds(k)
        \/ \E k \in Attempt : Helper(k) \/ HelperDies(k)

Spec == Init /\ [][Next]_vars

(* Running processes are scheduled and every wait of theirs ends. *)
FairSpec == /\ Spec /\ WF_vars(Predecessor)
            /\ \A c \in Coord : WF_vars(Acquiring(c) \/ Lifecycle(c))
            /\ \A k \in Attempt : WF_vars(Helper(k))
            /\ \A k \in Attempt \cup {User} : WF_vars(LauncherEnds(k))

-----------------------------------------------------------------------------
(* Properties. *)

Acquires == {"take", "own", "reown", "reclaim", "read", "probe", "rm", "retake", "unreclaim",
             "got", "refused"}
Runs == {"off", "attach", "activate", "active", "stop", "stopUnlink", "gone"}
HandoffSteps == {"arming", "quiesce", "release", "unlink", "publish", "waiting", "restore"}

TypeOK ==
    /\ lock \in (Coord \X BOOLEAN) \cup {Free}
    /\ reclaim \in Coord \cup {NoOne}
    /\ pc \in [Coord -> Acquires \cup Runs \cup HandoffSteps]
    /\ seen \in [Coord -> Coord \cup {NoOne}]
    /\ attached \subseteq Coord
    /\ phase \in [Coord -> {"none", "starting", "active", "stopped"}]
    /\ attempt \in 0..Attempts
    /\ hpc \in [Attempt -> {"off", "arm", "wait", "launch", "launching", "poll", "ready",
                            "stop", "report", "gone"}]
    /\ before \in [Attempt -> SUBSET Coord]
    /\ launcher \in [Attempt \cup {User} -> Coord \cup {NoOne}]
    /\ candidate \in [Attempt -> Coord \cup {NoOne}]
    /\ result \in [Attempt -> {"none", "armed", "yes", "no"}]
    /\ released \subseteq Attempt
    /\ raced \in BOOLEAN
    /\ faults \in [crash : Nat, failure : Nat, late : Nat]

\* Two coordinators never serve one app: who has a renderer transport owns the
\* session lock, through every handoff, failure and recovery, unless a reclaimer
\* met the race of acquireLock's read and probe.
AttachedOwnsLock == ~raced => \A c \in attached : lock = OwnedBy(c)

\* FEATURES: the predecessor "retires after the new coordinator publishes an
\* active heartbeat".  A successor reported ready serves the app from then on and
\* owns the session lock: no helper, launcher or other coordinator stops it or
\* takes the lock, as long as no coordinator dies by itself, the predecessor's
\* waits are longer than its helper's and, for the lock, acquireLock's race is
\* not met.
SuccessorServes ==
    faults.late = 0 /\ faults.crash = 0 =>
        \A k \in Attempt : result[k] = "yes" =>
            /\ candidate[k] \in attached
            /\ ~raced => lock = OwnedBy(candidate[k])

\* README: a handoff "restores the predecessor automatically if startup fails".
\* Once the lock was released the app is served again, by the predecessor or by a
\* successor, whatever happens to helper, launcher and candidate, unless a
\* coordinator dies by itself or cannot attach, the predecessor stops waiting too
\* early, or one that was stopped had just created its lock.
ServedAgain ==
    pc[pred] = "publish" ~> (attached # {} \/ Stuck \/ faults.crash > 0 \/ faults.late > 0)
=============================================================================
