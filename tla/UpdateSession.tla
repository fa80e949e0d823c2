---------------------------- MODULE UpdateSession ----------------------------
(***************************************************************************)
(* The update coordinator of one app session: UpdateSessionController of   *)
(* update-session.js with the calls its adapters make.                     *)
(*                                                                         *)
(* The coordinator is one event loop: a step resumes one `await', with any *)
(* answer it may bring, and runs to the next.  Four activities interleave: *)
(* the check, the queue request that waits for a check, the queued update  *)
(* and the monitor of the app process, with the user's requests between.   *)
(*                                                                         *)
(* The updater is seen as module AtomicInstall has it: it installs a       *)
(* release, leaves everything as it was, or leaves a pending journal.      *)
(* The user may run it beside the session, which then finds another        *)
(* release on disk than the one it installed or checked.                   *)
(***************************************************************************)
EXTENDS Naturals

CONSTANTS MaxVersion,       \* bound: releases 1, 2, ... are published in order
          HandoffAttempts,  \* attempts to hand over to the new coordinator
          MaxFaults         \* bound: calls that fail or are lost

ASSUME BoundAssumption ==
    MaxVersion \in Nat \ {0} /\ HandoffAttempts \in Nat \ {0} /\ MaxFaults \in Nat

Version == 1..MaxVersion
None == 0       \* no release, no journal
Mixed == 0      \* an install root between two releases

VARIABLES
    app,        \* the app process of this session: "running" or "gone"
    quitting,   \* it was told to quit, and has not by the time Close gave up
    loaded,     \* release whose renderer script runs in the app
    latest,     \* newest published release
    installed,  \* release in the install root, or Mixed
    journal,    \* release of the pending update transaction, or None
    before,     \* release that was installed when that transaction began
    foreign,    \* (history) a run of the updater outside the session replaced the
                \* install, and the session has completed no update since
    prepared,   \* releases with a prepared directory in this session
    orphan,     \* updater command whose process tree outlived its timeout
    alive,      \* the coordinator process
    status,     \* what the sidebar shows, with the VERSION file it was shown with
    release,    \* the release the last check found, or None
    check,      \* check(): "none", "announce" or "ask"
    waiting,    \* queue(): "none", "checking" or "checked"
    op,         \* the await #runQueuedUpdate is at, "none" when there is no update
    job,        \* its local variables
    stale,      \* this.generation has moved on since the update began
    closing,    \* closingInitiated
    stopping,
    monitor,    \* monitorApp(): "none" or "probing"
    confirmed,  \* releases recorded as confirmed in the update history
    notice,     \* telling the user of a failure outside the app: "none", "shown"
                \* or "lost", when that call failed as well
    cancelled,  \* (history) a cancel of the current update was accepted
    faults      \* (bound) failed calls so far

appVars == <<app, quitting, loaded>>
diskVars == <<installed, journal, before, prepared, orphan>>
worldVars == <<latest, foreign>>
askVars == <<worldVars, check, waiting, monitor>>
modeVars == <<alive, stale, cancelled>>
logVars == <<confirmed, notice>>
vars == <<appVars, diskVars, askVars, modeVars, logVars, status, release, op, job,
          closing, stopping, faults>>

NoJob == [version |-> None, prior |-> None, appClosed |-> FALSE, applyAttempted |-> FALSE,
          hot |-> FALSE, recovered |-> FALSE, relaunchAttempted |-> FALSE,
          retain |-> FALSE, attempt |-> 0]

Status(state, version) ==
    [state |-> state, version |-> version, installed |-> None, canQueue |-> FALSE,
     canCancel |-> FALSE]
Cancellable(state, version) == [Status(state, version) EXCEPT !.canCancel = TRUE]
Queueable(version) == [Status("available", version) EXCEPT !.canQueue = TRUE]

Fault == faults < MaxFaults /\ faults' = faults + 1
NoFault == UNCHANGED faults

Await(step, locals) == op' = step /\ job' = locals

\* What reading the VERSION file of the install root may bring.
Reads == IF installed' = Mixed THEN {None, before', journal'} ELSE {installed'}

\* "current" follows what is on disk, and is withdrawn when that cannot be read.
Snapshot(s, read) ==
    LET shown == IF s.state # "current" THEN s
                 ELSE IF read = None THEN Status("unavailable", None)
                 ELSE Status("current", read)
    IN  [shown EXCEPT !.installed = read]

Shows(s) == \E read \in Reads : status' = Snapshot(s, read)

-----------------------------------------------------------------------------
Init ==
    /\ app = "running" /\ quitting = FALSE /\ loaded = 1
    /\ latest = 1 /\ installed = 1 /\ journal = None /\ before = None
    /\ foreign = FALSE /\ prepared = {} /\ orphan = "none"
    /\ alive = TRUE /\ status = [Status("unavailable", None) EXCEPT !.installed = 1]
    /\ release = None
    /\ check = "none" /\ waiting = "none" /\ op = "none" /\ job = NoJob
    /\ stale = FALSE /\ closing = FALSE /\ stopping = FALSE
    /\ monitor = "none" /\ confirmed = {} /\ notice = "none"
    /\ cancelled = FALSE /\ faults = 0

-----------------------------------------------------------------------------
(* The updater as a child process.  Its update lock admits one command, and   *)
(* check and prepare refuse while a journal is pending.                       *)

CanRead == orphan = "none" /\ journal = None

SameInstall == UNCHANGED <<installed, journal, before>>

Applies(v) == installed' = v /\ journal' = None /\ before' = None
LeavesPending(v) == installed' = Mixed /\ journal' = v /\ before' = installed

\* Forward from the prepared directory, or back from the rollback copies.
Settles ==
    IF journal = None THEN SameInstall
    ELSE /\ installed' \in (prepared \cap {journal}) \cup {before}
         /\ journal' = None /\ before' = None

\* A command that timed out and could not be proven stopped runs on unobserved.
OrphanEnds ==
    /\ orphan # "none" /\ orphan' = "none"
    /\ \/ orphan = "prepare" /\ prepared' = prepared \cup {job.version} /\ SameInstall
       \/ /\ orphan = "apply" /\ UNCHANGED prepared
          /\ Applies(job.version) \/ LeavesPending(job.version)
       \/ orphan = "recover" /\ Settles /\ UNCHANGED prepared
       \/ SameInstall /\ UNCHANGED prepared
    /\ UNCHANGED <<appVars, askVars, modeVars, logVars, status, release, op, job, closing,
                   stopping, faults>>

\* The user runs the updater: it recovers what is pending and may go on to the
\* newest release.  The update lock keeps it apart from this session's commands,
\* the launch guard from a launcher.
UpdatesElsewhere ==
    /\ orphan = "none"
    /\ \/ journal # None /\ Settles /\ UNCHANGED foreign
       \/ (journal # None \/ installed < latest) /\ Applies(latest) /\ foreign' = TRUE
    /\ UNCHANGED <<appVars, prepared, orphan, latest, check, waiting, monitor, modeVars,
                   logVars, status, release, op, job, closing, stopping, faults>>

Publish ==
    /\ latest < MaxVersion /\ latest' = latest + 1
    /\ UNCHANGED <<appVars, diskVars, foreign, check, waiting, monitor, modeVars, logVars, status,
                   release, op, job, closing, stopping, faults>>

\* The user quits the app, it crashes, or it follows a quit request late.
AppExits ==
    /\ app = "running" /\ alive
    /\ app' = "gone"
    /\ UNCHANGED <<quitting, loaded, diskVars, askVars, modeVars, logVars, status, release,
                   op, job, closing, stopping, faults>>

-----------------------------------------------------------------------------
(* How an update ends. *)

\* Mutant: retainPrepared is ignored.
FinishWithoutRetaining ==
    /\ op' = "none" /\ UNCHANGED <<job, orphan>>
    /\ prepared' = prepared \ {job.version}
    /\ SameInstall

\* The finally block.
Finish ==
    /\ op' = "none" /\ UNCHANGED <<job, orphan>>
    /\ prepared' = IF job.retain THEN prepared ELSE prepared \ {job.version}
    /\ SameInstall

(* The catch block, from one await to the next. *)

Report(locals) == Await("report", locals) /\ Shows(Status("error", locals.version))

\* Mutant: a failure after closing is shown in the closed app only.
ThenReport(locals) == Report(locals)

ThenNotify(locals) ==
    IF locals.appClosed THEN Await("notify", locals) /\ UNCHANGED status ELSE Report(locals)

\* Mutant: the app comes back whether or not recovery succeeded.
ThenRelaunchAnyway(locals) ==
    IF locals.appClosed /\ ~locals.relaunchAttempted
    THEN /\ Await("relaunchAgain", [locals EXCEPT !.relaunchAttempted = TRUE])
         /\ UNCHANGED status
    ELSE ThenNotify(locals)

ThenRelaunch(locals) ==
    IF locals.appClosed /\ locals.recovered /\ ~locals.relaunchAttempted
    THEN /\ Await("relaunchAgain", [locals EXCEPT !.relaunchAttempted = TRUE])
         /\ UNCHANGED status
    ELSE ThenNotify(locals)

ThenRestore(locals) ==
    IF /\ ~locals.appClosed /\ locals.hot /\ locals.prior # None
       /\ ~locals.applyAttempted \/ locals.recovered
    THEN Await("restore", locals) /\ UNCHANGED status
    ELSE ThenRelaunch(locals)

Fail(unverified) ==
    LET due == (job.appClosed \/ job.applyAttempted) /\ ~job.recovered
    IN  /\ closing' = (closing /\ job.appClosed)
        /\ \/ due /\ ~unverified /\ Await("recoverAgain", job) /\ UNCHANGED status
           \/ due /\ unverified /\ ThenRestore([job EXCEPT !.retain = TRUE])
           \/ ~due /\ ThenRestore(job)

-----------------------------------------------------------------------------
(* check() and queue().  Requests come from the renderer, over a transport   *)
(* that is closed once the coordinator is stopping.                          *)

Listening == alive /\ ~stopping /\ app = "running"

BeginCheck == check' = "announce" /\ Shows(Status("checking", None))

\* The check button, or the half-hourly timer.
RequestCheck ==
    /\ Listening /\ op = "none" /\ waiting = "none" /\ check = "none"
    /\ status.state \notin {"closing", "updating", "restarting"}
    /\ UNCHANGED <<appVars, diskVars, worldVars, waiting, monitor, modeVars, logVars, release,
                   op, job, closing, stopping, faults>>
    /\ BeginCheck

\* A history request, or a renderer that is attached again, shows the status anew.
Refresh ==
    /\ Listening
    /\ UNCHANGED <<appVars, diskVars, askVars, modeVars, logVars, release, op, job, closing,
                   stopping>>
    /\ \/ NoFault /\ Shows(status)
       \/ Fault /\ status' = Snapshot(status, None)

CheckEnds == check' = "none" /\ waiting' = IF waiting = "checking" THEN "checked" ELSE waiting

CheckAnnounced ==
    /\ check = "announce"
    /\ UNCHANGED <<appVars, diskVars, worldVars, monitor, modeVars, logVars, release, op, job,
                   closing, stopping>>
    /\ \/ check' = "ask" /\ NoFault /\ UNCHANGED <<waiting, status>>
       \/ CheckEnds /\ Fault /\ Shows(Status("error", None))

\* Mutant: a release pinned by an earlier check stays pinned.
CheckKeepsRelease ==
    /\ check = "ask" /\ CheckEnds
    /\ UNCHANGED <<appVars, diskVars, worldVars, monitor, modeVars, logVars, op, job, closing,
                   stopping>>
    /\ \/ /\ CanRead /\ NoFault
          /\ \/ /\ latest > installed
                /\ release' = IF release = None THEN latest ELSE release
                /\ Shows(Queueable(latest)) \/ Shows(Status("unavailable", latest))
             \/ /\ latest = installed /\ release' = None
                /\ Shows(Status("current", installed))
       \/ ~CanRead /\ NoFault /\ Shows(Status("error", None)) /\ UNCHANGED release
       \/ Fault /\ Shows(Status("error", None)) /\ UNCHANGED release

\* The answer pins the newest release, unless this install cannot be written.
CheckAnswered ==
    /\ check = "ask" /\ CheckEnds
    /\ UNCHANGED <<appVars, diskVars, worldVars, monitor, modeVars, logVars, op, job, closing,
                   stopping>>
    /\ \/ /\ CanRead /\ NoFault
          /\ \/ /\ latest > installed
                /\ release' = latest
                /\ Shows(Queueable(latest)) \/ Shows(Status("unavailable", latest))
             \/ /\ latest = installed /\ release' = None
                /\ Shows(Status("current", installed))
       \/ ~CanRead /\ NoFault /\ Shows(Status("error", None)) /\ UNCHANGED release
       \/ Fault /\ Shows(Status("error", None)) /\ UNCHANGED release

\* #runQueuedUpdate up to its first await: leftovers of this release go.
StartUpdate ==
    /\ prepared' = prepared \ {release}
    /\ SameInstall /\ UNCHANGED <<orphan, alive>>
    /\ Shows(Cancellable("preparing", release))
    /\ Await("announcePrepare", [NoJob EXCEPT !.version = release, !.prior = status.installed])
    /\ stale' = FALSE /\ cancelled' = FALSE

\* Queueing needs the release the sidebar showed; otherwise it checks first.
RequestQueue ==
    /\ Listening /\ waiting = "none" /\ op = "none"
    /\ \/ /\ release # None /\ status.canQueue
          /\ StartUpdate /\ UNCHANGED <<check, waiting>>
       \/ /\ release = None \/ ~status.canQueue
          /\ waiting' = "checking"
          /\ UNCHANGED <<diskVars, modeVars, op, job>>
          /\ IF check = "none" THEN BeginCheck ELSE UNCHANGED <<check, status>>
    /\ UNCHANGED <<appVars, worldVars, monitor, logVars, release, closing, stopping, faults>>

ResumeQueue ==
    /\ waiting = "checked" /\ waiting' = "none"
    /\ \/ op = "none" /\ release # None /\ status.canQueue /\ StartUpdate
       \/ /\ op # "none" \/ release = None \/ ~status.canQueue
          /\ UNCHANGED <<diskVars, modeVars, status, op, job>>
    /\ UNCHANGED <<appVars, worldVars, check, monitor, logVars, release, closing, stopping, faults>>

RequestCancel ==
    /\ Listening /\ status.canCancel /\ op # "none"
    /\ stale' = TRUE /\ cancelled' = TRUE
    /\ UNCHANGED <<appVars, diskVars, askVars, alive, logVars, release, op, job, closing,
                   stopping, faults>>
    /\ Shows(Status("preparing", job.version))

-----------------------------------------------------------------------------
(* #runQueuedUpdate.  Each announcement is a setStatus: the status changes    *)
(* before it, the await is the publication to the renderer.                   *)

\* Mutant: only a cancel is looked at, not the end of the session.
WithdrawnByUser == cancelled

Withdrawn == stale \/ stopping

\* The update was cancelled or the session is over.
Withdraw ==
    /\ prepared' = prepared \ {job.version} /\ SameInstall /\ UNCHANGED <<orphan, job>>
    /\ IF stopping THEN op' = "none" /\ UNCHANGED status
                   ELSE op' = "announceCancelled" /\ Shows(Queueable(job.version))

\* The top of the activity loop.
Loop == IF Withdrawn THEN Withdraw
                     ELSE Await("query", job) /\ UNCHANGED <<status, diskVars>>

Quiet == UNCHANGED <<askVars, modeVars, logVars>>

Announced(step) == op = step /\ NoFault /\ Quiet /\ UNCHANGED <<appVars, release, stopping>>

AnnouncedWait ==
    /\ \E step \in {"announceQueued", "announceWaiting"} : Announced(step)
    /\ Loop /\ UNCHANGED closing

AnnouncedEnd ==
    /\ \E step \in {"announceCancelled", "announceUnwritable", "announceDeferred", "report"} :
          Announced(step)
    /\ Finish /\ UNCHANGED <<status, closing>>

\* The awaits that follow an announcement, and what is noted on the way.
AnnouncedCall ==
    /\ \/ Announced("announcePrepare") /\ Await("prepare", job)
       \/ Announced("announceHot") /\ Await("hotReload", [job EXCEPT !.hot = TRUE])
       \/ Announced("announceApply") /\ Await("apply", [job EXCEPT !.applyAttempted = TRUE])
       \/ Announced("announceCurrent") /\ Await("handoff", [job EXCEPT !.attempt = 1])
       \/ /\ Announced("announceRestart")
          /\ Await("relaunch", [job EXCEPT !.relaunchAttempted = TRUE])
    /\ UNCHANGED <<diskVars, status, closing>>

AnnouncedClosing ==
    /\ Announced("announceClosing")
    /\ closing' = TRUE /\ Await("close", job) /\ UNCHANGED <<diskVars, status>>

\* setStatus throws when the renderer cannot be reached, unless it is closing.
AnnouncementFails ==
    /\ op \in {"announcePrepare", "announceQueued", "announceWaiting", "announceCancelled",
               "announceUnwritable", "announceHot", "announceApply", "announceCurrent",
               "announceDeferred", "announceClosing"}
    /\ Quiet /\ UNCHANGED <<appVars, diskVars, release, stopping>>
    /\ ~closing /\ Fault /\ Fail(FALSE)

Prepare ==
    /\ op = "prepare"
    /\ \/ /\ CanRead /\ NoFault
          /\ IF Withdrawn
             THEN Withdraw
             ELSE /\ prepared' = prepared \cup {job.version} /\ SameInstall /\ UNCHANGED orphan
                  /\ Shows(Cancellable("queued", job.version)) /\ Await("announceQueued", job)
          /\ UNCHANGED closing
       \/ /\ Fault \/ (~CanRead /\ NoFault)
          /\ UNCHANGED diskVars /\ Fail(FALSE)
       \/ /\ Fault /\ orphan = "none" /\ orphan' = "prepare"
          /\ SameInstall /\ UNCHANGED prepared /\ Fail(TRUE)
    /\ Quiet /\ UNCHANGED <<appVars, release, stopping>>

\* Busy and unknown activity keep the update queued.
FindBusy ==
    /\ op = "query" /\ NoFault
    /\ Quiet /\ UNCHANGED <<appVars, diskVars, release, closing, stopping>>
    /\ Shows(Cancellable("queued", job.version)) /\ Await("announceWaiting", job)

FindIdle ==
    /\ op = "query" /\ NoFault /\ app = "running" /\ Await("confirm", job)
    /\ Quiet /\ UNCHANGED <<appVars, diskVars, status, release, closing, stopping>>

BusyAgain ==
    /\ op = "confirm" /\ NoFault /\ Loop
    /\ Quiet /\ UNCHANGED <<appVars, release, closing, stopping>>

\* Mutant: the generation is not compared again after the loop.
StillIdleUnchecked ==
    /\ op = "confirm" /\ NoFault /\ app = "running"
    /\ Quiet /\ UNCHANGED <<appVars, diskVars, release, closing, stopping>>
    /\ \/ Shows(Status("unavailable", job.version)) /\ Await("announceUnwritable", job)
       \/ Shows(Status("updating", job.version)) /\ Await("announceHot", job)
       \/ Shows(Status("closing", job.version)) /\ Await("announceClosing", job)

\* Idle twice: the update leaves the queue, hot or by closing the app.
StillIdle ==
    /\ op = "confirm" /\ NoFault /\ app = "running"
    /\ IF Withdrawn
       THEN Withdraw
       ELSE /\ UNCHANGED diskVars
            /\ \/ Shows(Status("unavailable", job.version)) /\ Await("announceUnwritable", job)
               \/ Shows(Status("updating", job.version)) /\ Await("announceHot", job)
               \/ Shows(Status("closing", job.version)) /\ Await("announceClosing", job)
    /\ Quiet /\ UNCHANGED <<appVars, release, closing, stopping>>

\* platform.hotReload(v): probe, inject, wait for readiness, probe again.
Reloads(v) == app = "running" /\ loaded' = v
MayReload(v) == loaded' \in IF app = "running" THEN {loaded, v} ELSE {loaded}

HotReload ==
    /\ op = "hotReload"
    /\ Quiet /\ UNCHANGED <<app, quitting, diskVars, release, stopping>>
    /\ \/ /\ Reloads(job.version) /\ NoFault
          /\ Shows(Status("updating", job.version)) /\ Await("announceApply", job)
          /\ UNCHANGED closing
       \/ app = "gone" /\ NoFault /\ Fail(FALSE) /\ UNCHANGED loaded
       \/ Fault /\ MayReload(job.version) /\ Fail(FALSE)

\* Quitting may be dispatched and take effect after Close gave up waiting.
Close ==
    /\ op = "close"
    /\ Quiet /\ UNCHANGED <<loaded, diskVars, release, stopping>>
    /\ \/ /\ app' = "gone" /\ NoFault /\ UNCHANGED <<quitting, closing>>
          /\ Shows(Status("updating", job.version))
          /\ Await("announceInstall", [job EXCEPT !.appClosed = TRUE])
       \/ app = "gone" /\ NoFault /\ Fail(FALSE) /\ UNCHANGED <<app, quitting>>
       \/ Fault /\ Fail(FALSE) /\ quitting' \in {quitting, app = "running"} /\ UNCHANGED app

AnnouncedInstall ==
    /\ Announced("announceInstall")
    /\ Await("apply", [job EXCEPT !.applyAttempted = TRUE])
    /\ UNCHANGED <<diskVars, status, closing>>

Apply ==
    /\ op = "apply"
    /\ \/ /\ CanRead /\ Applies(job.version) /\ foreign' = FALSE /\ NoFault
          /\ Await("verify", job) /\ UNCHANGED <<orphan, status, closing>>
       \/ /\ Fault /\ UNCHANGED <<orphan, foreign>>
          /\ \/ SameInstall
             \/ CanRead /\ (Applies(job.version) \/ LeavesPending(job.version))
          /\ Fail(FALSE)
       \/ /\ Fault /\ orphan = "none" /\ orphan' = "apply" /\ SameInstall /\ UNCHANGED foreign
          /\ Fail(TRUE)
    /\ UNCHANGED <<appVars, prepared, latest, check, waiting, monitor, modeVars, logVars,
                   release, stopping>>

\* Recover once more, which proves the installed files.
Verify ==
    /\ op = "verify"
    /\ \/ /\ orphan = "none" /\ Settles /\ NoFault /\ UNCHANGED orphan
          /\ IF job.appClosed
             THEN /\ Shows(Status("restarting", job.version))
                  /\ Await("announceRestart", [job EXCEPT !.recovered = TRUE])
             ELSE Await("probe", [job EXCEPT !.recovered = TRUE]) /\ UNCHANGED status
          /\ UNCHANGED closing
       \/ Fault /\ SameInstall /\ UNCHANGED orphan /\ Fail(FALSE)
       \/ Fault /\ orphan = "none" /\ orphan' = "recover" /\ SameInstall /\ Fail(TRUE)
    /\ UNCHANGED <<appVars, prepared, askVars, modeVars, logVars, release, stopping>>

Probe ==
    /\ op = "probe"
    /\ UNCHANGED <<appVars, diskVars, askVars, modeVars, notice, stopping>>
    /\ \/ /\ app = "running" /\ NoFault
          /\ release' = None /\ confirmed' = confirmed \cup {job.version}
          /\ Shows(Status("current", job.version)) /\ Await("announceCurrent", job)
          /\ UNCHANGED closing
       \/ /\ (app = "gone" /\ NoFault) \/ Fault
          /\ Fail(FALSE) /\ UNCHANGED <<release, confirmed>>

\* coordinator-handoff.js seen from here: the successor is active, nobody
\* holds the session any more, or this coordinator carries on.
Handoff ==
    /\ op = "handoff"
    /\ \/ NoFault /\ stopping' = TRUE /\ Finish /\ UNCHANGED status
       \/ Fault /\ stopping' = TRUE /\ Finish /\ UNCHANGED status
       \/ /\ Fault /\ job.attempt < HandoffAttempts
          /\ Await("handoff", [job EXCEPT !.attempt = @ + 1])
          /\ UNCHANGED <<diskVars, status, stopping>>
       \/ /\ Fault /\ job.attempt = HandoffAttempts
          /\ UNCHANGED <<diskVars, stopping>>
          /\ Shows(Status("current", job.version)) /\ Await("announceDeferred", job)
    /\ Quiet /\ UNCHANGED <<appVars, release, closing>>

\* The new app process loads what is installed; a launcher that missed the
\* readiness deadline may still bring it up.
Launched == app' = "running" /\ loaded' = installed /\ UNCHANGED quitting
MaybeLaunched == Launched \/ UNCHANGED appVars

\* Mutant: the update is recorded as confirmed before the app reports ready.
RelaunchConfirmsEarly ==
    /\ op = "relaunch" /\ confirmed' = confirmed \cup {job.version}
    /\ \/ /\ Launched /\ NoFault /\ stopping' = TRUE
          /\ Finish /\ UNCHANGED <<status, closing>>
       \/ /\ Fault /\ MaybeLaunched /\ UNCHANGED <<diskVars, stopping>>
          /\ Fail(FALSE)
    /\ UNCHANGED <<askVars, modeVars, notice, release>>

Relaunch ==
    /\ op = "relaunch"
    /\ \/ /\ Launched /\ NoFault
          /\ confirmed' = confirmed \cup {job.version} /\ stopping' = TRUE
          /\ Finish /\ UNCHANGED <<status, closing>>
       \/ /\ Fault /\ MaybeLaunched /\ UNCHANGED <<diskVars, confirmed, stopping>>
          /\ Fail(FALSE)
    /\ UNCHANGED <<askVars, modeVars, notice, release>>

-----------------------------------------------------------------------------
(* The awaits of the catch block. *)

RecoverAgain ==
    /\ op = "recoverAgain"
    /\ \/ /\ orphan = "none" /\ Settles /\ NoFault /\ UNCHANGED orphan
          /\ ThenRestore([job EXCEPT !.recovered = TRUE])
       \/ /\ Fault
          /\ \/ SameInstall /\ orphan' \in IF orphan = "none" THEN {"none", "recover"} ELSE {orphan}
             \/ orphan = "none" /\ Settles /\ UNCHANGED orphan
          /\ ThenRestore([job EXCEPT !.retain = TRUE])
    /\ Quiet /\ UNCHANGED <<appVars, prepared, release, closing, stopping>>

\* Mutant: the install root is not asked which release it holds.
RestoreUnchecked ==
    /\ op = "restore"
    /\ \/ Reloads(job.prior) /\ NoFault
       \/ app = "gone" /\ NoFault /\ UNCHANGED loaded
       \/ Fault /\ MayReload(job.prior)
    /\ Quiet /\ UNCHANGED <<app, quitting, diskVars, release, closing, stopping>>
    /\ ThenRelaunch(job)

\* hotReload of the release that was installed before, from the install root.
Restore ==
    /\ op = "restore"
    /\ \/ installed = job.prior /\ Reloads(job.prior) /\ NoFault
       \/ (installed # job.prior \/ app = "gone") /\ NoFault /\ UNCHANGED loaded
       \/ installed = job.prior /\ Fault /\ MayReload(job.prior)
    /\ Quiet /\ UNCHANGED <<app, quitting, diskVars, release, closing, stopping>>
    /\ ThenRelaunch(job)

RelaunchAgain ==
    /\ op = "relaunchAgain"
    /\ \/ Launched /\ NoFault
       \/ Fault /\ MaybeLaunched
    /\ Quiet /\ UNCHANGED <<diskVars, release, closing, stopping>>
    /\ ThenNotify(job)

\* notifyFailure swallows its own failure; nothing tries again.
Notify ==
    /\ op = "notify"
    /\ \/ NoFault /\ notice' = "shown"
       \/ Fault /\ notice' = "lost"
    /\ UNCHANGED <<appVars, diskVars, askVars, modeVars, confirmed, release, closing>>
    /\ stopping' = TRUE /\ Report(job)

-----------------------------------------------------------------------------
(* monitorApp(), and the end of the coordinator. *)

MonitorBegins ==
    /\ alive /\ monitor = "none" /\ ~closing /\ ~stopping
    /\ IF app = "gone" THEN stopping' = TRUE /\ stale' = TRUE /\ UNCHANGED monitor
                       ELSE monitor' = "probing" /\ UNCHANGED <<stopping, stale>>
    /\ UNCHANGED <<appVars, diskVars, worldVars, check, waiting, alive, cancelled, logVars,
                   status, release, op, job, closing, faults>>

\* The strict probe answers, or fails and counts as "not running".
MonitorAnswered ==
    /\ monitor = "probing" /\ monitor' = "none"
    /\ \/ app = "running" /\ NoFault /\ UNCHANGED <<stopping, stale>>
       \/ /\ (app = "gone" /\ NoFault) \/ Fault
          /\ stopping' = TRUE /\ stale' = TRUE
    /\ UNCHANGED <<appVars, diskVars, worldVars, check, waiting, alive, cancelled, logVars,
                   status, release, op, job, closing>>

Exit ==
    /\ alive /\ stopping /\ op = "none"
    /\ alive' = FALSE
    /\ check' = "none" /\ waiting' = "none" /\ monitor' = "none"
    /\ UNCHANGED <<appVars, diskVars, worldVars, stale, cancelled, logVars, status, release,
                   op, job, closing, stopping, faults>>

-----------------------------------------------------------------------------
Requests == RequestCheck \/ RequestQueue \/ RequestCancel \/ Refresh

Checking == CheckAnnounced \/ CheckAnswered \/ ResumeQueue

Updating == \/ AnnouncedWait \/ AnnouncedEnd \/ AnnouncedCall \/ AnnouncedClosing
            \/ AnnouncedInstall \/ AnnouncementFails
            \/ Prepare \/ FindBusy \/ FindIdle \/ BusyAgain \/ StillIdle
            \/ HotReload \/ Close \/ Apply \/ Verify \/ Probe \/ Handoff \/ Relaunch
            \/ RecoverAgain \/ Restore \/ RelaunchAgain \/ Notify

Monitoring == MonitorBegins \/ MonitorAnswered

Next == \/ Requests \/ (alive /\ Checking) \/ Updating \/ (alive /\ Monitoring) \/ Exit
        \/ OrphanEnds \/ UpdatesElsewhere \/ Publish \/ AppExits

Spec == Init /\ [][Next]_vars

(* Every await of the coordinator is answered: its commands have timeouts. *)
FairSpec == Spec /\ WF_vars(Updating) /\ WF_vars(alive /\ Checking)
                 /\ WF_vars(alive /\ Monitoring) /\ WF_vars(Exit)

(* Whoever uses the app sooner or later leaves it idle for long enough. *)
IdleAgain == SF_vars(FindIdle) /\ SF_vars(StillIdle)

-----------------------------------------------------------------------------
(* Properties. *)

Announcements == {"announcePrepare", "announceQueued", "announceWaiting", "announceCancelled",
                  "announceUnwritable", "announceHot", "announceApply", "announceCurrent",
                  "announceDeferred", "announceClosing", "announceInstall", "announceRestart",
                  "report"}
Calls == {"prepare", "query", "confirm", "hotReload", "close", "apply", "verify", "probe",
          "handoff", "relaunch", "recoverAgain", "restore", "relaunchAgain", "notify"}
States == {"unavailable", "checking", "current", "available", "queued", "preparing", "closing",
           "updating", "restarting", "error"}

TypeOK ==
    /\ app \in {"running", "gone"} /\ quitting \in BOOLEAN
    /\ {loaded, latest, installed, journal, before, release} \subseteq 0..MaxVersion
    /\ prepared \subseteq Version /\ confirmed \subseteq Version
    /\ orphan \in {"none", "prepare", "apply", "recover"}
    /\ {alive, stale, closing, stopping, foreign, cancelled} \subseteq BOOLEAN
    /\ notice \in {"none", "shown", "lost"}
    /\ status \in [state : States, version : 0..MaxVersion, installed : 0..MaxVersion,
                   canQueue : BOOLEAN, canCancel : BOOLEAN]
    /\ check \in {"none", "announce", "ask"} /\ waiting \in {"none", "checking", "checked"}
    /\ monitor \in {"none", "probing"}
    /\ op \in Announcements \cup Calls \cup {"none"}
    /\ job \in [version : 0..MaxVersion, prior : 0..MaxVersion, appClosed : BOOLEAN,
                applyAttempted : BOOLEAN, hot : BOOLEAN, recovered : BOOLEAN,
                relaunchAttempted : BOOLEAN, retain : BOOLEAN, attempt : 0..HandoffAttempts]
    /\ faults \in 0..MaxFaults

\* The prepared directory a pending journal refers to is never removed, neither
\* by the update that left it nor by a later one (retainPrepared, and check and
\* prepare refusing while the journal is pending): recovery can go forward.
PreparedKept == journal # None => journal \in prepared

\* ChatGPT is started again only on files proven whole: no half-installed
\* release, no pending journal and no updater still running.
RelaunchIsSafe ==
    op \in {"relaunch", "relaunchAgain"} =>
        installed # Mixed /\ journal = None /\ orphan = "none"

\* FEATURES: "Cancel is available until installation begins".  An update whose
\* cancellation was accepted never reloads, closes or replaces anything.
CancelHonoured ==
    cancelled => op \notin {"announceHot", "hotReload", "announceApply", "announceClosing",
                            "close", "announceInstall", "apply", "verify", "relaunch"}

\* The sidebar's buttons mean what they say: Cancel only while there is an update
\* to cancel, Update only for the pinned release that the status names.
ButtonsTruthful ==
    alive /\ ~stopping =>
        /\ status.canCancel => op # "none" /\ ~job.hot /\ ~job.applyAttempted
        /\ status.canQueue => release # None /\ release = status.version

\* A session that says its release is current runs that release's renderer.
\* snapshotStatus makes "current" follow the disk, so a run of the updater beside
\* the session is excused: then the app runs an older release than "current" names.
CurrentIsLoaded ==
    alive /\ status.state = "current" /\ app = "running" /\ ~foreign => loaded = status.version

\* FEATURES: "live reload or relaunch confirmation is recorded only after
\* readiness is acknowledged".  The app runs a whole installation, and it is that
\* of the confirmed release unless somebody else updated it meanwhile.
ConfirmedIsLoaded ==
    [][\A v \in confirmed' \ confirmed :
          /\ app' = "running" /\ installed' # Mixed /\ journal' = None
          /\ foreign' \/ (loaded' = v /\ installed' = v)]_vars

\* An app the update closed comes back, or its user is told why it does not.  Only
\* a notification that fails itself leaves the user untold (notice "lost").
ClosedAppReturns == op = "announceInstall" ~> (app = "running" \/ notice # "none")

\* A coordinator that is stopping ends, whatever its update was waiting for.
StoppingEnds == stopping ~> ~alive

\* Every queued update ends: installed, cancelled or failed, if the app is idle
\* for long enough again and again.
QueuedEnds == IdleAgain => (op = "announcePrepare" ~> op = "none")

\* What waits for idleness ends: with the session, with the idleness, or withdrawn.
WaitingEnds == StoppingEnds /\ QueuedEnds

\* README: changing updates use "the existing graceful close and relaunch path".
\* An app that quit because the update told it to comes back, or the user is told.
QuitIsFollowedUp == quitting /\ app = "gone" ~> (app = "running" \/ notice # "none")
=============================================================================
