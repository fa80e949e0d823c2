------------------------- MODULE PublisherHeartbeat -------------------------
(***************************************************************************)
(* The publisher of a renderer port: publisher-heartbeat.js, and the       *)
(* startup script that starts one (MobileProjectStartup.ps1).  A publisher *)
(* owns the lock file of its port while its app session lives, and pulses  *)
(* the renderer.  A startup reuses the publisher it finds, or asks one of  *)
(* an older package to retire by replacing its lock with a handoff marker, *)
(* waits for its exit and starts a successor.  Startups exclude each other *)
(* by a mutex, which a dead startup abandons; publishers do not.           *)
(*                                                                         *)
(* The lock file appears by a hard link and changes by a rename, so it is  *)
(* read whole; reading it, probing a process and removing it are steps of  *)
(* their own.  A process identity is not used again while a file or a      *)
(* process still names it.                                                 *)
(***************************************************************************)
EXTENDS Naturals

CONSTANTS Publisher,    \* publisher processes that may run at one time
          NoOne,
          MaxSessions,  \* bound: app processes that use the port, one by one
          MaxUpdates,   \* bound: replacements of the package
          MaxFaults     \* bound: deaths and identity queries that fail

ASSUME PublisherAssumption ==
    NoOne \notin Publisher /\ {MaxSessions, MaxUpdates, MaxFaults} \subseteq Nat

VARIABLES
    lock,      \* the lock file
    session,   \* the last app session on the port
    running,   \* ... its app process runs
    legacy,    \* publishers that run an older package's script
    updates,   \* (bound) packages replaced so far
    pc,        \* next step of each publisher, "off" when it does not run
    of,        \* the session it was started for
    seen,      \* the lock owner it read
    second,    \* it is in its second attempt to acquire the lock
    startup,   \* the startup script: next step, its session, the lock it found
    raced,     \* (history) a lock was removed or replaced in place of another one, that of
               \* a retired owner or of the one asked to retire
    faults

appVars == <<session, running, legacy, updates>>
ownVars == <<of, seen, second>>
vars == <<lock, appVars, pc, ownVars, startup, raced, faults>>

NoLock == [state |-> "none", owner |-> NoOne, session |-> 0]
Active(p) == [state |-> "active", owner |-> p, session |-> of[p]]
Marker(p, s) == [state |-> "handoff", owner |-> p, session |-> s]

\* release.owns: the token in the file is the publisher's own.
Owns(p) == lock.state = "active" /\ lock.owner = p

\* publisherOwnerState and publisherLockParentState
Alive(p) == p # NoOne /\ pc[p] # "off"
ParentAlive(s) == running /\ s = session

Goto(p, step) == pc' = [pc EXCEPT ![p] = step]
Fault == faults < MaxFaults /\ faults' = faults + 1

Exits(p) == /\ Goto(p, "off")
            /\ of' = [of EXCEPT ![p] = 0] /\ seen' = [seen EXCEPT ![p] = NoOne]
            /\ second' = [second EXCEPT ![p] = FALSE]
            /\ legacy' = legacy \ {p}

IdleStartup == [pc |-> "idle", session |-> 0, found |-> NoLock]

Init ==
    /\ lock = NoLock
    /\ session = 0 /\ running = FALSE /\ legacy = {} /\ updates = 0
    /\ pc = [p \in Publisher |-> "off"] /\ of = [p \in Publisher |-> 0]
    /\ seen = [p \in Publisher |-> NoOne] /\ second = [p \in Publisher |-> FALSE]
    /\ startup = IdleStartup
    /\ raced = FALSE /\ faults = 0

-----------------------------------------------------------------------------
(* acquireLock and the wait in run(). *)

PublishLock(p) ==
    /\ pc[p] = "link"
    /\ IF lock = NoLock THEN lock' = Active(p) /\ Goto(p, "loop")
                        ELSE UNCHANGED lock /\ Goto(p, "read")
    /\ UNCHANGED <<appVars, ownVars, startup, raced, faults>>

ReadOwner(p) ==
    /\ pc[p] = "read"
    /\ IF lock.state = "active"
       THEN seen' = [seen EXCEPT ![p] = lock.owner] /\ Goto(p, "probe")
       ELSE UNCHANGED seen /\ Goto(p, "refused")
    /\ UNCHANGED <<lock, appVars, of, second, startup, raced, faults>>

ProbeOwner(p) ==
    /\ pc[p] = "probe"
    /\ \/ Alive(seen[p]) /\ Goto(p, "refused") /\ UNCHANGED faults
       \/ ~Alive(seen[p]) /\ Goto(p, "rm") /\ UNCHANGED faults
       \/ Fault /\ Goto(p, "refused")
    /\ UNCHANGED <<lock, appVars, ownVars, startup, raced>>

\* After the second attempt the publisher is refused all the same.
RemoveStale(p) ==
    /\ pc[p] = "rm"
    /\ lock' = NoLock
    /\ raced' = (raced \/ (lock # NoLock /\ ~(lock.state = "active" /\ lock.owner = seen[p])))
    /\ Goto(p, IF second[p] THEN "refused" ELSE "link")
    /\ second' = [second EXCEPT ![p] = TRUE] /\ seen' = [seen EXCEPT ![p] = NoOne]
    /\ UNCHANGED <<appVars, of, startup, faults>>

\* It waits as long as the lock is gone or that of a session that has ended.
Wait(p) ==
    /\ pc[p] = "refused"
    /\ lock = NoLock \/ ~ParentAlive(lock.session)
    /\ Goto(p, "link")
    /\ second' = [second EXCEPT ![p] = FALSE] /\ seen' = [seen EXCEPT ![p] = NoOne]
    /\ UNCHANGED <<lock, appVars, of, startup, raced, faults>>

\* The lock of a live session, one whose session cannot be identified, or the end
\* of the thirty seconds.
GiveUp(p) ==
    /\ pc[p] = "refused" /\ Exits(p)
    /\ UNCHANGED <<lock, session, running, updates, startup, raced, faults>>

-----------------------------------------------------------------------------
(* The loop of run() and the release. *)

CheckLock(p) ==
    /\ pc[p] = "loop"
    /\ Goto(p, IF Owns(p) THEN "parent" ELSE "release")
    /\ UNCHANGED <<lock, appVars, ownVars, startup, raced, faults>>

\* Mutant: a parent that has ended counts as one that cannot be identified.
CheckParentLeniently(p) ==
    /\ pc[p] = "parent"
    /\ Goto(p, IF ParentAlive(of[p]) THEN "pulse" ELSE "loop")
    /\ UNCHANGED <<lock, appVars, ownVars, startup, raced, faults>>

\* Six failed identity queries in a row, or a signal, end the loop as well.
CheckParent(p) ==
    /\ pc[p] = "parent"
    /\ \/ Goto(p, IF ParentAlive(of[p]) THEN "pulse" ELSE "release") /\ UNCHANGED faults
       \/ Fault /\ Goto(p, "release")
    /\ UNCHANGED <<lock, appVars, ownVars, startup, raced>>

Pulse(p) ==
    /\ pc[p] = "pulse" /\ Goto(p, "loop")
    /\ UNCHANGED <<lock, appVars, ownVars, startup, raced, faults>>

\* releaseLock reads its token, then removes the file.
Release(p) ==
    /\ pc[p] = "release"
    /\ IF Owns(p) THEN Goto(p, "unlink") /\ UNCHANGED <<ownVars, legacy>> ELSE Exits(p)
    /\ UNCHANGED <<lock, session, running, updates, startup, raced, faults>>

Unlink(p) ==
    /\ pc[p] = "unlink"
    /\ lock' = NoLock /\ Exits(p)
    /\ UNCHANGED <<session, running, updates, startup, raced, faults>>

Step(p) == \/ PublishLock(p) \/ ReadOwner(p) \/ ProbeOwner(p) \/ RemoveStale(p)
           \/ Wait(p) \/ GiveUp(p)
           \/ CheckLock(p) \/ CheckParent(p) \/ Pulse(p) \/ Release(p) \/ Unlink(p)

-----------------------------------------------------------------------------
(* Start-PublisherHeartbeat *)

At(step) == startup.pc = step
StartupGoto(step) == startup' = [startup EXCEPT !.pc = step]
Throw == startup' = IdleStartup

BeginStartup ==
    /\ At("idle") /\ running
    /\ startup' = [IdleStartup EXCEPT !.pc = "read", !.session = session]
    /\ UNCHANGED <<lock, appVars, pc, ownVars, raced, faults>>

ReadPublisherLock ==
    /\ At("read")
    /\ startup' = [startup EXCEPT !.pc = IF lock = NoLock THEN "launch" ELSE "judge",
                                  !.found = lock]
    /\ UNCHANGED <<lock, appVars, pc, ownVars, raced, faults>>

SameSession == startup.found.session = startup.session

\* Mutant: a marker of another session is always left alone.
JudgeHandoffStrictly ==
    /\ At("judge") /\ startup.found.state = "handoff"
    /\ IF SameSession THEN StartupGoto("await") ELSE Throw
    /\ UNCHANGED <<lock, appVars, pc, ownVars, raced, faults>>

\* A marker of this session is completed; one of another session is removed once
\* its processes have ended.
JudgeHandoff ==
    /\ At("judge") /\ startup.found.state = "handoff"
    /\ IF SameSession THEN StartupGoto("await")
       ELSE IF Alive(startup.found.owner) THEN Throw ELSE StartupGoto("remove")
    /\ UNCHANGED <<lock, appVars, pc, ownVars, raced, faults>>

\* A publisher of this session is reused, or replaced if its script is an older
\* package's; one that ended leaves its lock to the successor; any other, or one
\* that cannot be proven, is left alone.
JudgeActive ==
    LET owner == startup.found.owner
    IN  /\ At("judge") /\ startup.found.state = "active"
        /\ \/ ~Alive(owner) /\ StartupGoto("launch") /\ UNCHANGED faults
           \/ /\ Alive(owner) /\ SameSession /\ owner \in legacy
              /\ StartupGoto("validate") /\ UNCHANGED faults
           \/ Alive(owner) /\ (SameSession => owner \notin legacy) /\ Throw /\ UNCHANGED faults
           \/ Fault /\ Throw
        /\ UNCHANGED <<lock, appVars, pc, ownVars, raced>>

ValidateOwner ==
    /\ At("validate")
    /\ IF lock = startup.found /\ Alive(lock.owner) THEN StartupGoto("replace") ELSE Throw
    /\ UNCHANGED <<lock, appVars, pc, ownVars, raced, faults>>

\* File.Replace needs a file to replace, whosever it is by now.
ReplaceLock ==
    /\ At("replace")
    /\ IF lock = NoLock THEN Throw /\ UNCHANGED lock
       ELSE /\ lock' = Marker(startup.found.owner, startup.session)
            /\ startup' = [startup EXCEPT !.pc = "confirm", !.found = lock']
    /\ raced' = (raced \/ lock \notin {startup.found, NoLock})
    /\ UNCHANGED <<appVars, pc, ownVars, faults>>

ConfirmMarker ==
    /\ At("confirm")
    /\ IF lock = startup.found THEN StartupGoto("await") ELSE Throw
    /\ UNCHANGED <<lock, appVars, pc, ownVars, raced, faults>>

\* Mutant: the exit of the previous publisher is not awaited.
AwaitNothing ==
    /\ At("await") /\ StartupGoto("remove")
    /\ UNCHANGED <<lock, appVars, pc, ownVars, raced, faults>>

\* After thirty seconds the marker is kept for the next startup.
AwaitExit ==
    /\ At("await")
    /\ IF Alive(startup.found.owner) THEN Throw ELSE StartupGoto("remove")
    /\ UNCHANGED <<lock, appVars, pc, ownVars, raced, faults>>

ValidateMarker ==
    /\ At("remove")
    /\ IF lock = startup.found THEN StartupGoto("delete") ELSE Throw
    /\ UNCHANGED <<lock, appVars, pc, ownVars, raced, faults>>

RemoveMarker ==
    /\ At("delete")
    /\ lock' = NoLock
    /\ IF lock = NoLock THEN Throw ELSE StartupGoto("launch")
    /\ UNCHANGED <<appVars, pc, ownVars, raced, faults>>

Unnamed(p) == /\ pc[p] = "off" /\ lock.owner # p
              /\ \A q \in Publisher : seen[q] # p

\* The startup script has no more to do with the lock.
LaunchPublisher(p) ==
    /\ At("launch") /\ Unnamed(p)
    /\ Goto(p, "link") /\ of' = [of EXCEPT ![p] = startup.session]
    /\ startup' = IdleStartup
    /\ UNCHANGED <<lock, appVars, seen, second, raced, faults>>

Startup == \/ ReadPublisherLock \/ JudgeHandoff \/ JudgeActive
           \/ ValidateOwner \/ ReplaceLock \/ ConfirmMarker \/ AwaitExit
           \/ ValidateMarker \/ RemoveMarker
           \/ \E p \in Publisher : LaunchPublisher(p)

-----------------------------------------------------------------------------
AppStarts ==
    /\ ~running /\ session < MaxSessions
    /\ session' = session + 1 /\ running' = TRUE
    /\ UNCHANGED <<lock, legacy, updates, pc, ownVars, startup, raced, faults>>

AppExits ==
    /\ running /\ running' = FALSE
    /\ UNCHANGED <<lock, session, legacy, updates, pc, ownVars, startup, raced, faults>>

\* Whoever runs by now runs an older package's script.
PackageReplaced ==
    /\ At("idle") /\ updates < MaxUpdates
    /\ updates' = updates + 1 /\ legacy' = {p \in Publisher : Alive(p)}
    /\ UNCHANGED <<lock, session, running, pc, ownVars, startup, raced, faults>>

PublisherDies(p) ==
    /\ Alive(p) /\ Fault /\ Exits(p)
    /\ UNCHANGED <<lock, session, running, updates, startup, raced>>

StartupDies ==
    /\ ~At("idle") /\ Fault /\ Throw
    /\ UNCHANGED <<lock, appVars, pc, ownVars, raced>>

Next == \/ \E p \in Publisher : Step(p) \/ PublisherDies(p)
        \/ BeginStartup \/ Startup \/ StartupDies
        \/ AppStarts \/ AppExits \/ PackageReplaced

Spec == Init /\ [][Next]_vars

(* A running process is scheduled, and the thirty seconds of a wait pass. *)
FairSpec == Spec /\ WF_vars(Startup)
                 /\ \A p \in Publisher : WF_vars(Step(p)) /\ SF_vars(GiveUp(p))

(* The startup script is run again and again while the app runs. *)
StartedAgain == WF_vars(BeginStartup)

-----------------------------------------------------------------------------
(* Properties. *)

Locks == [state : {"none", "active", "handoff"}, owner : Publisher \cup {NoOne},
          session : 0..MaxSessions]

TypeOK ==
    /\ lock \in Locks
    /\ session \in 0..MaxSessions /\ {running, raced} \subseteq BOOLEAN
    /\ legacy \subseteq Publisher /\ updates \in 0..MaxUpdates
    /\ pc \in [Publisher -> {"off", "link", "read", "probe", "rm", "refused", "loop",
                             "parent", "pulse", "release", "unlink"}]
    /\ of \in [Publisher -> 0..MaxSessions]
    /\ seen \in [Publisher -> Publisher \cup {NoOne}] /\ second \in [Publisher -> BOOLEAN]
    /\ startup \in [pc : {"idle", "read", "judge", "validate", "replace", "confirm", "await",
                          "remove", "delete", "launch"},
                    session : 0..MaxSessions, found : Locks]
    /\ faults \in 0..MaxFaults

\* CHANGELOG: "Cooperatively retire an owned legacy publisher before starting its
\* replacement, preserving one active owner."  Who pulses the renderer is the one
\* the lock names, as its owner or as the one asked to retire, so that two never
\* do, unless a lock was removed or replaced that was not the one judged before.
OneActiveOwner ==
    ~raced => \A p \in Publisher : pc[p] = "pulse" => lock.owner = p

\* CHANGELOG: "stop a retiring helper when a successor owns the lock".  The end of
\* a session ends every publisher started for it, the waiting ones too.
PublishersEnd ==
    \A p \in Publisher, s \in 1..MaxSessions :
        of[p] = s /\ ~ParentAlive(s) ~> of[p] # s

\* A running app has a publisher of its own again and again, whatever locks and
\* markers were left by the death of a publisher or a startup, by an earlier
\* session or by an earlier package.
SessionPublished ==
    StartedAgain =>
        (running ~> (~running \/ \E p \in Publisher : pc[p] = "pulse" /\ of[p] = session))
=============================================================================
