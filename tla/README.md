# Formal models of ChatGPT Remote Enabler

TLA+ models of the parts of this repository that change files, processes and
locks on a user's machine: the journaled update of an installation, the lock
around it, the coordinator that runs updates inside an app session, the handoff
of that session from one coordinator to the next, the publisher that pulses
the app's renderer, the coordinator's bridge into the app's page, the debugger
that several programs share inside the app, and the two parts of the injected
page script that act on a user's tasks: the listing of local tasks and their
automatic cleanup.  Each module is
translated from the source; `PROJECT.json` maps every definition to the lines
it stands for.  TLC checks small instances, TLAPS proves the theorems listed
below for every value of the constants.

Paths below are relative to the repository root; `W/` is `src/windows/` and
`MP/` is `src/windows/CodexRemoteMobileProject/`.  The macOS tree ships the same
`update-transaction.js`, `update-session.js`, `coordinator-handoff.js` and
`publisher-heartbeat.js`, `update-session-cdp.js`,
`renderer-mobile-project-view.js` and `runtime/lib/electron-attach.js` and differs in its shell scripts only.

## 1. The system

### Processes and what they share

A user starts ChatGPT through a launcher.  The startup script
(`MP/MobileProjectStartup.ps1`) starts the app with a debugger port, injects
the renderer script, starts a *publisher heartbeat* process and starts, through
`MP/UpdateSessionLauncher.ps1`, one *update coordinator*
(`MP/update-session.js`) for this app process.  The coordinator talks to the
renderer over the debugger port (`MP/update-session-cdp.js`), to the release
host and the disk through the updater script (`W/Update-ChatGPTRemote.ps1`), and
to the app process through `MP/UpdateSessionPlatform.ps1`.  The updater script
hands the replacement of files to `W/update-transaction.js`.  After an update
that did not restart the app the coordinator spawns
`MP/coordinator-handoff.js`, which starts the new release's coordinator in its
place.  These processes share only files: the install root, prepared releases,
the journal, four kinds of lock, state and result files.

### Components

| component | state | operations | talks to |
|---|---|---|---|
| File transaction (`update-transaction.js`) | install root, prepared directories, rollback copies, `transaction.json` | apply, recover, roll back, verify | called by the updater script |
| Writer lock (same file) | lock directory with `owner.json`, `.reclaim` directory | acquire, reclaim, release | file system, process probes |
| Session controller (`update-session.js`) | status, pinned release, queued update and its locals, generation, flags, prepared release, update history | check, queue, cancel, update, monitor, relaunch, notify | updater script, platform helper, renderer |
| Session lock and handoff (`update-session.js`, `coordinator-handoff.js`) | lock file with identity, reclaim directory, state file per session, result and release file per handoff | acquire, release, reacquire, hand off, launch, report, stop candidate | launcher scripts, renderer transport |
| Publisher heartbeat (`publisher-heartbeat.js`) | lock file (active or handoff), identity failures | acquire, wait, pulse, release | renderer, startup script |
| Renderer transport (`update-session-cdp.js`) | session, binding, persistent script, reconnect generation, convergence | attach, re-attach, publish, invalidate, close | app's debugger port |
| Session retention (`update-session.js`) | session, bundle and prepared directories | prune | file transaction's journal |
| Installed-release maintenance (`maintenance.js`) | directories of older releases, backups, logs | prune | updater script |
| Updater script | release metadata, archives, prepared directories | check, prepare, apply, recover, repair | file transaction, git, network |
| Release lookup, checkout update (`git-release.js`, `git-checkout-update.js`) | temporary clones | resolve tag, verify, fast-forward | git |
| Per-user installation (`StableInstall.ps1`, setup programs) | versioned directories, shortcuts | install, swap, roll back | operating system |
| Startup and launchers | processes, shortcuts, receipts | start, find, reuse, stop | operating system |
| Coordinator repair (`RepairUpdateCoordinator.ps1`) | legacy coordinator, its task | prove, retire, replace | handoff |
| Shared debugger attachment (`W/CodexRemoteSimple/runtime/lib/electron-attach.js`) | object at the window with its sessions, count and timer; client with session, heartbeat and close state | bootstrap, command, heartbeat, release, sweep, detach | app's main process over its inspector, Electron's debugger |
| Attach runtime (`W/CodexRemoteSimple/runtime`) | injected payloads, proxy bridge | start, discover, inject | app process |
| Local task listing (`renderer-mobile-project-view.js`) | registry of gates and quarantines that outlives a view, runtime with generation, recovery flag | discover, enqueue, list page by page, cancel, quarantine, recover | app-server, coordinator (activity), task cleanup |
| Automatic task cleanup (same file) | switch, records and lease in `localStorage`, Web Lock, timer and run of each window | schedule, take snapshots, archive, delete, record | app-server, other windows |
| Renderer project view | view state in the page | discover remote inventories, render, transfer | app-server |

### Where it is hard

* A crash, a failed call or a changed file at any instant of an update: the
  install root may be between two releases, and only the journal knows.
* Two commands, each in several file-system calls, on one lock; owners that die
  while they hold it; a reclaimer that judges an owner by an old record.
* Calls into a page that may reload, navigate or lose its connection between a
  call and its answer, with attempts, cleanups and a close that overlap.
* Several windows that share `localStorage` without transactions, beside a user
  who changes the very tasks a run of ten requests is deciding about.
* A debugger with one owner that several programs share by leaving code in the
  app: each may die, be slow or come back to an object that has been replaced.
* Requests that cannot be withdrawn and may be answered after their caller, its
  view or its app-server is gone.
* One event loop with four activities that interleave at every `await`; commands
  that time out while their process tree goes on; an app that quits late.
* A session whose owner changes hands between three processes that see each
  other through files, with a timeout at every step.

Section 5 of this document and `hazards` in `PROJECT.json` list the hazards one
by one at the line where they bite, with the property that covers each.

### What makes each component correct

* File transaction: with no journal pending the installation is one whole
  release; a pending transaction is never overwritten; rollback restores every
  file it may have changed; recovery, repeated, ends.
* Writer lock: one writer, one reclaimer, and a dead writer's lock is taken over.
* Controller: never relaunch on files not proven whole; never lose the prepared
  release a journal needs; honour an accepted cancellation; never call a release
  current or confirmed unless it runs, somebody else's update apart; bring back the app it closed; end.
* Handoff: who serves the app owns its lock; a successor reported ready is not
  stopped; the app is served again whatever happens to helper and candidate.
* Publisher: one publisher pulses at a time; none outlives its session; a running
  app gets one whatever locks and markers were left behind.
* Transport: every connection has one owner; the page runs the current session's
  bridge and shows the controller's last status; a lost session comes back; close
  ends.
* Shared debugger: nobody's end is the end of another's session; a debugger of
  somebody else is never detached; ours is given back when nobody is left.
* Task cleanup: one run at a time; nothing is archived or deleted that something
  spoke against before the request was sent; nothing is deleted before its week of
  recovery; what the user leaves alone goes in the end.
* Task listing: one unsettled listing per client; "idle" only from a whole listing
  of the present runtime; every caller is told and a quarantine ends.
* Retention and maintenance: nothing a journal, a live session or a running
  coordinator refers to is pruned.

## 2. Modules

### AtomicInstall

The abstract promise of an update: the files of an installation change only
from one whole release to the next, and a pending transaction may end either
way.  `UpdateTransaction` implements it (`AllOrNothing`), and `UpdateSession`
uses the updater in exactly these terms.

### UpdateTransaction (`MCUpdateTransaction` gives TLC its releases)

`install`, `prepared`, `backup` and `journal` are the disk; `pc`, `want`, `mode`,
`mem`, `idx` are the writer process and are lost in a crash.  A step is one
durable change or one read on which a later step relies:

| action | code |
|---|---|
| `PrepareRelease`, `RemovePrepared` | the updater script's prepare and cleanup |
| `ApplyPrepared`, `Recover`, `RecoverWithoutJournal`, `OpenJournal` | `applyPrepared`, `recover` |
| `InspectInstall`, `DurableBackup`, `WriteJournal` | `buildJournal` |
| `ValidateJournal`, `MarkApplying`, `BeginCopy`, `RemoveRetired`, `ReplaceFile`, `ConfirmCopy`, `RecordOperation`, `EndOfOperations` | `applyJournal`, `copyAndVerify` |
| `BeginRollback`, `BeginRestore`, `RemoveAdded`, `EndOfRollback` | `rollbackJournal` |
| `VerifyInstall`, `RemoveJournal` | `parseManifest` on the root, `removeJournal` |
| `Crash`, `IoFault`, `DamageInstall`, `DamageStore` | environment |

A path's content is a token: one of the bytes releases ship, absent, or corrupt.
Hashes are equality of tokens.  The order of the operations is every order
`buildJournal` may produce: updater script, manifest and retired paths have their
places, the others are sorted by `Rank`.  Reading the installed manifest and
planning the operations is one step.  Symbolic links, permissions and the schema
checks of the journal file itself are left out: the journal is written by
rename, so it is read whole or not at all.

### WriterLock (`MCWriterLock` gives the symmetry)

One file-system call or process probe per action, a crash between any two.  `at`
is the step of each process, `failures` what has failed so far; the lock directory is
a pair (exists, owner).  `raced` is a history variable that
records the one race the code has: an owner released its lock and ended after a
reclaimer read its record and before the reclaimer probed its process.  Its names
differ from `UpdateTransaction`'s, the program of the same source file, so that the
proofs about both stand in one module, `UpdateTransaction_proofs`.

### UpdateSession

The controller of one app session and the calls of its adapters.  The
coordinator is an event loop: an action resumes one `await` with any answer it
may bring and runs to the next.  `op` names the await `#runQueuedUpdate` is at,
`check`, `waiting` and `monitor` those of the other activities; `job` holds the
local variables of the update; `status` is what was last published.  The action
names follow the code's calls: `Prepare`, `FindIdle`, `StillIdle`, `HotReload`,
`Close`, `Apply`, `Verify`, `Probe`, `Handoff`, `Relaunch`, and for the catch
block `RecoverAgain`, `Restore`, `RelaunchAgain`, `Notify`.  `orphan` is an
updater command that outlived its timeout: the coordinator carries on beside it.
It keeps the writer lock, so no second command succeeds until it ends.

Every announcement goes through `snapshotStatus`: it reads `VERSION` anew and makes a
status "current" follow the disk, or withdraws it when nothing can be read
(`Reads`, `Snapshot`, `Shows`); a history request and a renderer that is attached
again do the same (`Refresh`).  That matters because the user may run the updater
beside the session (`UpdatesElsewhere`).  `foreign` is the history of such a run that
replaced the installation, until the session completes an update of its own: until
then "current" may name a release the app does not run, since `check` compares the
release with the installation and not with the renderer
(`MP/update-session.js:908-915`, `959-961`).  The project's own tests want that
(`tools/UpdateSession.SelfTest.js:215`: a retained coordinator must report the
current disk installation), so `CurrentIsLoaded` excuses it.  A relaunch may in the
same way confirm its release while the app loads the one that was put in its place.
`notifyFailure` has fifteen seconds, swallows its failure and is not repeated:
`notice` is then "lost".

Assumed: an updater command takes effect at one instant (`AtomicInstall` is what
it promises); a run of the updater beside the session completes, and the update lock
and the launch guard keep it apart from the session's commands and from launchers;
`VERSION` of a whole installation fails to be read only at a `Refresh` (elsewhere that
equals the announcement followed by such a `Refresh`); requests arrive while the transport is open; a repeated request
identifier is treated as a new request.  Wording of messages, the update
history's other records and the log are left out.

### CoordinatorHandoff

Three kinds of process: coordinators (`pc`, `seen`, `attached`, `phase`), one
helper per handoff (`hpc`, `before`, `candidate`, `result`), and launchers, one
per handoff and one run by the user (`launcher`).  The lock file is a pair
(maker, identity written), so that a death between creating and writing it is a
state of its own.  The predecessor's steps are those of `handoffCoordinator`:
`BeginHandoff`, `Armed`, `Quiesce`, `BeginRelease`, `ReleaseLock`,
`PublishRelease`, `Answered`, `Refused`, `Restore`; every coordinator acquires
through `Take` ... `RemoveReclaim` (`acquireLock`); the helper's steps are `Arm`
... `ReportFailure`.  `raced` is the history of the same kind of race as in
`WriterLock`.

Assumed: the app stays open (its exit ends every coordinator); process ids are
not reused; the reclaim directory and the owner file in it count as one file.

### PublisherHeartbeat

Publishers (`pc`, `of`, `seen`, `second`), the startup script (`startup`) and the
lock file of one renderer port.  A publisher acquires through `PublishLock`,
`ReadOwner`, `ProbeOwner`, `RemoveStale` (`acquireLock`), waits or gives up (`Wait`,
`GiveUp`), and then runs `CheckLock`, `CheckParent`, `Pulse` until `Release` and
`Unlink`.  The startup script reads and judges the lock (`ReadPublisherLock`,
`JudgeHandoff`, `JudgeActive`), asks a publisher of an older package to retire by
putting a marker in its lock's place (`ValidateOwner`, `ReplaceLock`,
`ConfirmMarker`), awaits its exit, removes the marker (`AwaitExit`,
`ValidateMarker`, `RemoveMarker`) and starts the successor (`LaunchPublisher`).
`raced` is the history of two races of the code: a publisher removes a lock other
than the one it judged, and the startup's `File.Replace`, which runs after the
exclusive handle is closed, hits a lock other than the one it validated.

Assumed: one startup at a time (the launcher mutex; an abandoned one is taken
over, which is why a startup may die at any step), so the marker's requester is gone
whenever another startup judges the marker, and `JudgeHandoff` leaves out the probe of
the requester and its answers "alive" and "unknown"
(`MP/MobileProjectStartup.ps1:600-616`, `807-818`); a process identity is not used
again while something names it (pid and start time); one older package is told
from the installed one, as the code compares script paths.

### CdpTransport

The class `CdpTransport`: attachments are slots of `Session`, each with its
connection, binding and bootstrap script (`link`) and the step its cleanup is at
(`clean`); `att` is where the first attach and the re-attach loop are, `conv` the
convergence after a reload, `pub` and `probe` a publication and a health probe
under way; `page` is the document, `scripts` what every new one will run, and
`earlier` the scripts that run before each of them: a document ends up with the
bridge of the script that runs last.

| action | code |
|---|---|
| `Connect`, `ConnectFails`, `RemoveOld`, `AddScript`, `Bootstrap`, `Announce`, `Commit`, `AttachFails` | `#attachOnce`, one await each |
| `StartReattach`, `StopRetrying` | `#startReattach` and its retry loop |
| `Dispose`, `RemoveScript`, `RemoveBinding` | `#invalidateSession` and the cleanup it starts, `#removePersistent` |
| `SocketClosed`, `ContextCreated` | events of the connection |
| `Converge`, `ConvergeAnswered`, `ConvergeDeadline` | `#scheduleConvergence` |
| `Publish`, `PublishSent`, `PublishGivesUp`, `PublishAnswered` | `publish` |
| `QueryActivity`, `ProbeHealth`, `ProbeFailed` | `queryActivity`, health watchdog |
| `ExpectClose`, `ExpectNoClose`, `Close`, `CloseSession`, `Restore` | the controller's calls |
| `Leave`, `Return`, `Lose` | environment: a reload, a lost connection |

Assumed: a call takes effect when it is sent or not at all, and its answer may be
lost; scripts installed over a connection that ended stay in the page.  A slot is
used again when nothing names it.  Requests coming from the page, their
identifiers and the content of an activity answer are left out.

`overlapped` is the history of one race: the cleanup of a lost session may start
a re-attach while a first attach of the same transport is under way; both commit
and the session committed first is never closed (`MP/update-session-cdp.js:551`).
The properties exclude it and TLC stops there (`RaceFree`).  `missed` records a
reload whose convergence gave up or was refused, after which the page shows an
older status until the next publication.

### ElectronAttach

Windows that have no debugger port of their own are reached through the inspector
of the app's main process: each `ElectronAttachClient` sends expressions that run
there, in one thread.  The first attaches the window's debugger and leaves an
object at the window (`root`, `members`, `refs`); later ones join it, each with a
flattened session of its own (`flat`; `sid` once the object knows its id).  `app`
is the await a client's expression is at, `home` the object it captured, `pc` the
client itself, `answer` and `gone` what is on its way to it.

| action | code |
|---|---|
| `Bootstrap` (`Join`, `Found`), `Refused`, `TargetKnown`, `SessionOpen`, `BootstrapFails` | `connect`, `buildBootstrapExpression` |
| `Sweep`, `Released` | `sweepLeases`, `release` after its await |
| `Attached`, `GivesUp`, `HearDetach`, `Heartbeat`, `Close`, `Lose` | the client: `connect`, `_onMainEvent`, `_heartbeat`, `close`, `_onMainClose` |
| `TakenAway`, `Unplugged`, `ForeignAttaches`, `ForeignDetaches` | environment: `detachAll` by an event, a detachment without one, other users |

Assumed: an expression runs when it is sent; when the debugger is detached the
commands that wait reject; a client connects once (`connectElectronTarget` makes a
new one each time).  Names and ownership of bindings, discovery and forwarded
events are left out.  `unheard` is the history of a detachment without an event:
until the next bootstrap notices it the object stands for a debugger that is not
ours, and if somebody else attaches meanwhile `isAttached()` cannot tell the two
apart.

A gap the properties do not speak of: a session whose lease runs out while its
bootstrap awaits `Target.attachToTarget` is opened all the same, after its record
is gone (line 324).  Its client finds out at its first heartbeat and its release
finds nothing, so the flattened session stays open until the last client leaves.

### TaskMaintenance (`MCTaskMaintenance` gives TLC the parent of each task)

The automatic cleanup in several windows (`View`), with the server's tasks and the
user beside them.  `enabled`, `records` and `lease` are the shared
`localStorage`, `lock` the Web Lock; `armed` and `run` are each window's timer
and the run it is in, with the snapshots the run has read.

| action | code |
|---|---|
| `Fire`, `Start` | the timer, `runAutoArchiveNow`, `acquireAutoArchiveLease` |
| `ListActive`, `ListArchived` | the first snapshot, `synchronizeTrackedArchivedThreads` |
| `NothingToDo`, `Choose` | `eligibleAutoArchiveThreads`, `eligibleAutoDeleteThreads` |
| `ReadPinsAgain`, `Send`, `NoLongerEligible` | the revalidation before each request |
| `Serve`, `Reject`, `TimeOut`, `Fails`, `Renew` | the answer, `sendRequestWithTimeout`, the lease renewal |
| `Finish`, `End` (inside the above) | the records written back, the next timer |
| `SwitchOff`, `SwitchOn`, `Uninstall`, `Render` | `setAutoArchive`, `uninstall`, `render` |
| `Pin`, `Show`, `ArchiveByHand`, `Restore`, `Stall`, `Close`, `Open`, `WeekPasses`, `LeaseExpires` | users, windows, clock |

Time is counted in weeks: what is there when a week passes is older than both
limits.  A listing is the state of the server at one moment.  `kept` is the
history `KeptIsSpared` is about: which reasons have ever spoken against the
request since the revalidation began to read.  `slipped` excuses two known gaps:
a task restored and archived again between two recording runs keeps its first
record, and a run that was under way while another window switched cleanup off
and on writes its old records back; both let a delete come earlier than the week
`src/FEATURES.md:164-171` and `src/README.md:280-284` describe.

Assumed: the bridge to the app-server settles (a bridge that never did would keep
the Web Lock for ever); a switch in another window during the revalidation does
not stop the one request that is being decided.  The preview and the cleanup
history are left out.

### ThreadListGate

The listing of local tasks.  `present` and `retired` are the app-server's request
clients, `runtime` and `gen` the view's current one; `gate`, `held` and `recovery`
are the registry on the page, which survives the view; `call` are the callers,
each behind another in its gate.

| action | code |
|---|---|
| `Discover` | `assignLocalRuntime` |
| `StartActivity`, `StartHydration`, `Capture`, `StartCleanup` | `updateActivity`, `hydrateNativeInventories`, the cleanup's two snapshots |
| `Enter`, `Cancel` | the wait for the call before, the deadline while waiting |
| `Answer`, `Refuse` | `listAllRuntimeThreads`, page by page |
| `TimeOut`, `Settle` | the deadline after asking, `quarantineLocalThreadListClient`, the late answer |
| `Restart`, `Inject` | environment; `uninstall` and a new view |

`forked` is the history of one race of the code: a caller that captured its
runtime before an await (the cleanup, after reading its pins) enqueues with an old
generation and replaces the gate of a client that has been assigned again
(`MP/renderer-mobile-project-view.js:6275`), so that two listings run on one
client.  `MP/tests/ThreadVisibility.SelfTest.js:547` says late-settlement
recovery must never overlap requests on the same client; the properties hold
except there.  `heard` is the history of what
each page showed an activity scan and through which runtime and generation it came;
it is what `IdleIsEarned` relates a report to.  Assumed of the app: once it offers
another client it never offers the old one again, and the old one answers no more
(`retired` only grows).  Suspects left by a view of an older release are left out.  Not
modelled either: the listing of a disposed view empties the page's
`lastLocalInventory` when it ends.

## 3. Runs

| run | instance | what it shows |
|---|---|---|
| `transaction_faults` | two releases of four paths; 3 faults among 2 crashes, 1 failed call and 1 altered file (installed, prepared or rollback copy) | write-ahead, rollback and forward recovery keep the installation whole and implement `AtomicInstall`; a pending transaction settles when recovery is run again |
| `transaction_interrupted` | 1 crash | violation: a temporary file of a dead writer blocks recovery for ever |
| `transaction_rewound` | 1 crash, 1 failed call, 1 altered installed file | violation: after a rewind, rollback restores a prefix only |
| `lock_safety` | 3 processes, 2 crashes, 1 failed write | exclusion, one reclaimer, take-over of a dead owner's lock |
| `session` | 3 releases, 2 hand-over attempts, 2 faults, an updater run beside the session | the controller's safety; a closed app returns or its user is told unless that fails too, the coordinator stops, an update ends |
| `session_late_quit` | 2 releases, 1 fault | violation: an app that quits after the close gave up is abandoned |
| `handoff` | predecessor, 2 other coordinators, 2 handoffs, 1 fault | ownership, a reported successor keeps the app and its lock, the app is served again |
| `publisher` | 2 publishers at a time, 2 app sessions, 1 package replacement, 1 death or failed query | one publisher pulses, none outlives its session, a running app gets one |
| `transport` | 3 attachments at a time, 1 new status, 1 reload, 1 lost call or connection, 1 close or expected close | one owner per connection, the page runs the current bridge with the latest status, a lost session comes back, close ends |
| `maintenance` | 2 windows, a task and the task it was started from, 2 troubles | one run at a time, nothing spoken for is touched, a week of recovery, idle tasks go |
| `attach` | 3 clients on one window, 3 faults, other users of the debugger | sessions of others go on, a foreign debugger is spared, ours is given back |
| `thread_list` | 2 clients, 1 activity scan, 2 hydrations, 1 cleanup, 2 pages, 2 faults | one listing per client, idleness from every page through the present runtime, recovery and an answer in the end |

The largest are `transaction_faults` (649 000 states), `handoff` (479 000),
`thread_list` (470 000), `transport` (433 000) and `session` (276 000).

### Why these bounds

* Transaction: the two releases share one path unchanged in role (manifest and
  updater replaced) and have one added and one retired path, so each kind of
  operation occurs, forward and back.  A direction can only be reversed by a
  failure and resumed after a crash; two crashes and a failure, three
  faults together, give forward, back and a resumed back, the longest chain the journal distinguishes.
* Writer lock: the race needs an owner, a reclaimer and a third that acquires
  in between; two crashes kill an owner and its reclaimer.
* Controller: three releases allow a prepared one, a newer one found meanwhile
  and the installed one to differ, and an updater beside the session to install yet
  another.  Two faults are a failing update and a failing step of its repair, relaunch
  or notification; the deeper error paths repeat a call that failed before.  Two
  attempts to hand over, where the code has three, reach both the retry and the
  giving up.  All properties were also checked with three faults and three attempts
  (670 000 states).
* Handoff: two further coordinators are needed for a candidate and one that the
  user starts beside it; two handoffs for a late helper of the first beside the
  second.  The code tries three times; the third begins like the second.
* Publisher: a slot of `Publisher` is used again when its process has ended, so a
  run sees more than two publishers one after the other; two at a time are an
  owner and its successor.  Two sessions make a lock or a marker of an earlier
  session possible, one replacement of the package an older publisher.  The
  invariants hold with three publishers as well, without the liveness part.
* Transport: three attachments are a lost one still cleaning up, the current one
  and the next attempt.  One reload, one status and one fault already meet in
  every order; the invariants were also explored with two reloads (5.1 million
  states), two faults (6.3 million) and two statuses (1.8 million).
* Shared debugger: three clients are one that leaves, one that joins while it does,
  and one whose bootstrap replaces the object that the first goes on with.  Three
  faults let each of them fail once.
* Maintenance: two windows contend for lock and lease, and a child and its parent
  are the smallest family the order of archiving and deleting speaks about.  A
  trouble is any act of the user, any frozen or closed window, any lost or refused
  request: with two, a restore and a new archiving, or an act of the user and a
  lost answer, fall between any two steps.  The safety properties were explored
  with three as well (1.3 million states).
* Listing: two clients are the present one and its successor after the one restart
  they allow; four callers make rows of waiters longer than the two
  faults can shorten; two pages make a listing that is interrupted in the middle.

`CHECK_DEADLOCK FALSE` is set for the controller, the handoff, the publisher, the
transport, the shared debugger and the cleanup, whose processes and clients end, or
whose windows are all closed; and for the listing, where a quarantine that never ends
is to be reported as a violation of `GateMovesOn` rather than as a deadlock.  The listing itself
never stops: its safety properties were also checked with deadlock checking on.

### Fairness, and why the code gives it

* `UpdateTransaction`: a running writer takes its next step (it is sequential
  code), and when none is running `recover` is run while a journal is pending (every
  start of the app and every updater command runs it).  Crashes and failures are not fair and are
  bounded, so eventually a run is undisturbed.
* `WriterLock`: a running process takes its next step, and the updater is invoked
  again and again.
* `UpdateSession`: every await is answered, because every command, probe and
  renderer call of the code has a timeout.  Requests, releases and the exit of the
  app are not fair.  `QueuedEnds` takes as its premise, in the formula, that the
  user leaves the app idle for long enough again and again.
* `CoordinatorHandoff`: running coordinators, helpers and launchers take their next
  step, and every wait of theirs ends (each loop has a deadline).  Handoffs and
  launches by the user are not fair.
* `PublisherHeartbeat`: running publishers and a running startup take their next
  step, and a publisher that is refused again and again gives up after thirty
  seconds (strong fairness of `GiveUp`: its retries disable it in between).  That
  the startup script is run again while the app runs is a premise in
  `SessionPublished`.  App, package and deaths are not fair.
* `CdpTransport`: while a step of an attempt, of a cleanup or of a close is due, or
  the end of a socket or a settled promise has not been looked at, some of it
  happens: every call has a timeout, and the event loop does not starve.  It is one
  weak fairness over all of them; nothing is asked of the controller, of the health
  watchdog or of the page.
* `ElectronAttach`: commands are answered or fail, and the lease of a client that is
  gone runs out (the object's timer is the app's).  Nothing is asked of clients.
* `TaskMaintenance`: timers fire, a run takes its next step or fails, a request
  nobody will answer times out, the server settles what it accepted, a lease
  expires.  That weeks pass between runs is strong fairness of the clock, since
  runs disable it again and again.
* `ThreadListGate`: the view discovers its runtime and hydrates again and again
  (each render schedules it), a waiter whose turn it is enters, a client that is
  still offered answers or settles what it was asked, and deadlines pass on one
  that is not.  A deadline that passes on a client that is still offered counts as
  a fault.

### Properties worth an explanation

* `RollbackReaches`: `rollbackJournal` undoes operations up to the durable count and
  one more.  Any destination that is not as it was must lie within that reach, its
  rollback copy must be in place unless the stored copies were damaged, and a rollback
  that has run to its end must leave no such destination.  This holds exactly as long
  as no resume lowers the count, which `transaction_rewound` shows to happen once an
  installed file is altered.
* `ExclusiveUnlessRaced` is exclusion but for the race recorded by `raced`: a
  reclaimer that judges an owner by the record it read before may remove the
  directory of a later owner, and two writers run.
* `PreparedKept` relates three places of the code: `retainPrepared` in the update,
  the refusal of `prepare` while a journal is pending, and the cleanup at the end.
* `CurrentIsLoaded` and `ConfirmedIsLoaded`: after a failed apply that recovery
  completes forward, the reload of the prior renderer is refused because it no
  longer is what is installed, so the new renderer stays.  `src/CHANGELOG.md:492-494`
  says the prior renderer is reloaded; what holds is that the controller never
  reports a release current that the page does not run, unless an updater outside the
  session put another release on disk (`foreign`).
* `ClosedAppReturns` ends in the app back, the user told, or the notification itself
  lost: the code tries it once.
* `SuccessorServes` says that the successor has the transport and, `raced` apart, the
  lock.  It and `ServedAgain` carry premises on `faults.late` and
  `faults.crash`: a predecessor that stops waiting before its helper has
  answered, and a coordinator that dies by itself, are outside what the code can
  repair.  Crashes of helper and launcher and failed calls are inside.
* `Stuck` in `ServedAgain`: a candidate that is stopped between creating the lock
  file and writing its identity leaves a lock without an owner, which
  `acquireLock` never reclaims (`MP/update-session.js:1336`).  The predecessor then
  cannot take its lock back and the session has no coordinator until the app is
  restarted.
* `OneActiveOwner` names who may pulse: the lock's owner, or the one the marker asks
  to retire, which may finish the round it is in.  It fails if the successor is
  started before the marker's previous owner has exited.
* `ScriptRemembered`, in `NothingLeaks`: a bootstrap script whose removal was not confirmed would run
  in every later document beside the new one; the transport must keep its
  identifier while another cleanup writes the same field.
* `LatestStatusShown`: every reload shows once more the status baked into the
  bootstrap, so a reload during an announcement or a publication needs the
  convergence; it holds in every quiet state but after a missed convergence.
* `KeptIsSpared` is about the whole interval between the first read of the
  revalidation and the request: what came before its read is seen by it, what came
  after is seen by a later check of the same run or cannot be known, and then it is
  not in `kept`.
* `WaitingEnds`, `NothingLeaks`, `GateMovesOn` and `CleanupGoesOn` each state two facts
  about one thing and are checked as one.
* `OthersGoOn` lists the only ways an open session may end: its client leaves, its
  lease runs out, the debugger is taken away.  The releases, bootstraps and belated
  clean-ups of all the others are not among them.
* `StaysScheduled`, in `CleanupGoesOn`, is an action property: no end of a run, of whichever of its ways
  out, leaves a view with cleanup switched on without a timer.
* `IdleIsEarned`, an action property: in the step in which a scan comes to say idle,
  every page, the last included, has been read since the scan began, showed idle tasks,
  and came through the runtime and generation present after that step.
* `KnownWhenRecovered`: an update that waits for idleness never hears a definite
  answer while a listing was given up and no inventory has been read since.

## 4. Proofs

| theorem | states |
|---|---|
| `UpdateTransaction_proofs!TypeCorrect` | `Spec => []TypeOK` |
| `UpdateTransaction_proofs!SettledInstallIsWhole` | `Spec => []SettledIsWhole` |
| `UpdateTransaction_proofs!RollbackReachesAll` | `Spec => []RollbackReaches` |
| `UpdateTransaction_proofs!JournalAheadOfFiles` | `Spec => WriteAhead` |
| `UpdateTransaction_proofs!TransactionIsAtomic` | `Spec => AllOrNothing` |
| `UpdateTransaction_proofs!LockTypeCorrect` | `LockSpec => []LockTypeOK` |
| `UpdateTransaction_proofs!OneReclaimer` | `LockSpec => []ReclaimExclusive` |
| `UpdateTransaction_proofs!LockExcludes` | `LockSpec => []ExclusiveUnlessRaced` |
| `PublisherHeartbeat_proofs!TypeCorrect` | `Spec => []TypeOK` |
| `PublisherHeartbeat_proofs!OneOwnerPulses` | `Spec => []OneActiveOwner` |
| `TaskMaintenance_proofs!TypeCorrect` | `Spec => []TypeOK` |
| `TaskMaintenance_proofs!OneRun` | `Spec => []OneAtATime` |
| `TaskMaintenance_proofs!NothingTrackedWhenOff` | `Spec => []TrackingEndsWithSwitch` |
| `TaskMaintenance_proofs!KeptSpared` | `Spec => KeptIsSpared` |
| `TaskMaintenance_proofs!DeletedRecovered` | `Spec => DeletedAfterRecovery` |
| `TaskMaintenance_proofs!ScheduleStays` | `Spec => StaysScheduled` |
| `ThreadListGate_proofs!TypeCorrect` | `Spec => []TypeOK` |
| `ThreadListGate_proofs!OneListing` | `Spec => []OneListingPerClient` |
| `ThreadListGate_proofs!HoldsEnd` | `Spec => []HoldIsBacked` |
| `ThreadListGate_proofs!IdleEarned` | `Spec => IdleIsEarned` |
| `ThreadListGate_proofs!KnownOnlyRecovered` | `Spec => KnownWhenRecovered` |
| `ElectronAttach_proofs!TypeCorrect` | `Spec => []TypeOK` |
| `ElectronAttach_proofs!SessionsAreReal` | `Spec => []OpenIsReal` |
| `ElectronAttach_proofs!LeavingIsPrivate` | `Spec => OthersGoOn` |
| `ElectronAttach_proofs!NoForeignDetached` | `Spec => ForeignSpared` |
| `CoordinatorHandoff_proofs!TypeCorrect` | `Spec => []TypeOK` |
| `CoordinatorHandoff_proofs!OneServer` | `Spec => []AttachedOwnsLock` |
| `CoordinatorHandoff_proofs!ReportedServes` | `Spec => []SuccessorServes` |
| `CdpTransport_proofs!TypeCorrect` | `Spec => []TypeOK` |
| `CdpTransport_proofs!NoLeak` | `Spec => []NothingLeaks` |
| `CdpTransport_proofs!PageIsCurrent` | `Spec => []BridgeIsCurrent` |
| `CdpTransport_proofs!StatusIsLatest` | `Spec => []LatestStatusShown` |
| `UpdateSession_proofs!TypeCorrect` | `Spec => []TypeOK` |
| `UpdateSession_proofs!JournalHasItsRelease` | `Spec => []PreparedKept` |
| `UpdateSession_proofs!RelaunchOnWhole` | `Spec => []RelaunchIsSafe` |
| `UpdateSession_proofs!CancelStops` | `Spec => []CancelHonoured` |
| `UpdateSession_proofs!ButtonsAreTrue` | `Spec => []ButtonsTruthful` |
| `UpdateSession_proofs!CurrentIsTrue` | `Spec => []CurrentIsLoaded` |
| `UpdateSession_proofs!ConfirmedWhenLoaded` | `Spec => ConfirmedIsLoaded` |

The assumptions are those the modules name: paths are finite, ordered and
distinct from each other, every release ships a manifest that identifies it, kinds
of callers do not overlap, and tokens such as `Absent`, `NoRelease`, `None` and
`NoOne` are not members of the sets they stand beside.  Nothing is assumed of the
number of paths, releases, processes, publishers, coordinators, handoff attempts,
windows, tasks, clients, callers, pages, attachments, statuses, reloads, crashes,
failures or altered files.  A theorem excuses what its property excuses and nothing
else: `raced`, `overlapped`, `missed`, `slipped`, `forked`, `foreign`, `Undamaged` and
the premises on `faults` are the properties' own.

*Transaction.*  `SettledIsWhole` is not inductive: removing the journal needs
that what was just verified is still there.  `IInv` adds `Control`, what each
value of `pc` implies about the journal and the writer's copy of it (a writer past
`WriteJournal` has a journal on disk; its target is a release; its index is in
range), and `Guarded`, that a writer about to remove the journal stands on a whole
installation.  Changes from outside enlarge `damaged`, on which `Whole` does not
depend, so no bound on them is needed.

The three facts about the files rest on a second invariant, `TInv`.  `Paired` relates
the writer's journal object to the journal on disk: the same transaction, with every
path listed once and a rollback copy of each.  `Progress`, which holds while nobody
else alters files, says that the files are always a cut of the operation list, as
released up to some operation and as before from there on, and where that cut may be:
at most one operation past the durable count.  So the operations that a rollback
undoes are all that differ, the copy of each is in place unless the stored copies were
damaged, and a rollback that has reached its verification has no operation left that
differs.  Each replaced file belongs to a transaction whose
journal was written first.  `TransactionIsAtomic` takes each step of the writer to
one of `AtomicInstall` or a stutter: writing the journal begins an update, removing it
settles one, on the new release or on what was there (`Files`, `PendingStays`).

*Writer lock.*  `ReclaimInv` says what the reclaim directory contains at each step
of a reclaimer, which makes it exclusive unconditionally.  `Excluding`, which holds
as long as `raced` does not, says who is between making and removing the lock
directory (`OneInside`, `InsideOwns`), that a recorded owner is a holder or dead
(`OwnerKnown`), and, the heart of it, what a reclaimer that probed an owner may
rely on (`Judged`): either the owner is still inside, or the directory is
condemned, exists and nobody is inside, until the reclaimer renames it away.

*Publisher.*  A publisher keeps the lock from its link to its release
(`OwnersHold`) because whoever removes a lock has seen its owner dead
(`StaleIsDead`, `MarkerIsDead`), and the dead stay dead while something names
them.  `MarkerFound` and `MarkerStays` carry this through the startup script's
exchange of a lock for a marker and back.

*Task cleanup.*  Runs exclude each other because every run has the Web Lock from
the moment its window got it (`LockHeld`); the lease, which a frozen window loses,
plays no part in it.  `TrackingEndsWithSwitch` is inductive with the types: the
step that writes records back looks at the switch at the same instant.  That a
request spares what should be kept follows from `Seen`: of each reason that has held
since the revalidation began, the answers read so far show that it does, so the check
after the last of them refuses.  That a task is deleted only after its week follows
from what the stored records say of the tasks (`Stored`) and what a run's own copy says
while it may still write it back (`Listed`); a view waits for the one answer to the
one request it sent (`Waits`), so an answer is never taken for another's.
`ScheduleStays` needs the types only: each step that ends a run arms the timer.

*Task listing.*  The calls of the present runtime on one client stand in a queue:
no two of them wait for the same one, none for the last (`Queued`, which needs
neither finiteness nor connectedness of the queue).  Who has asked is the first of
it and is of the present runtime, or holds its client in quarantine
(`AskersAreKnown`); a client in quarantine is not the runtime (`RuntimeIsFree`).
So two askers would be one.  `GateIsPresent`, `Older` and `Placed` carry this over
reassignments and injections.  `Listening` says that an activity scan under way is
alone and that every page before the one it is at was read through its own client and
generation (`ReadBefore`); `Says` reports idle at the last page only, and only while
the call's client and generation are the present ones, from which idleness is earned.  An activity of the
present runtime is listed only while no recovery is pending (`Known`): it began when
none was, and giving up a listing takes the runtime away with it.

*Handoff.*  A coordinator keeps its lock from making the file to unlinking it
(`LockHeld`), because nobody writes over another's file (`NotTheirs`), only one
process is inside the reclaim directory (`ReclaimIsTheirs`), and what that one
removes belongs to an owner that is gone and never comes back (`StaleIsDead`).  Who
is attached stands at a step at which it holds the lock (`AttachedServe`).  All of
it is conditional on `~raced`, as the property is.

That a reported successor serves needs that handoffs take turns (`InTurn`): a helper is
past its wait only with the release file of the attempt the predecessor is waiting for,
and while no coordinator has crashed and no answer was late, the predecessor stops
waiting only for that helper's last word (`LastWord`).  So no helper is left that could
stop the coordinator another one reported ready; a launcher spares whoever is active
(`ActiveServes`).  That it owns the lock is `AttachedOwnsLock` again.

*Transport.*  `Skeleton` says who may do what as long as no re-attach was started beside
a first attach: one attempt at a time, none while there is a session, every other
connection in the hands of one cleanup.  From it follow, each from those before, which
script is the remembered one (`Remembered`), that the script of the attachment in force
runs after all others (`Ordered`), that the bridge in the page is therefore its own
(`InForce`), what an announcement under way has shown (`Announced`), and that while
the page does not show the newest status somebody still owes it (`Shown`, `Owed`).

*Shared debugger.*  Only the window's object has members (`Alone`), its count is how
many they are (`Counted`, by the library's facts about cardinality), everyone is in
the object its bootstrap captured (`AtHome`), an open session is in the window's
object and in the debugger (`Opened`), and that object stands for our hold of the
debugger (`Held`).  So a clean-up that finds a count of zero finds an object without
members, and one that finds another object at the window changes nothing
(`ClearKeeps`, `ReleaseKeeps`, `ReleaseSpares`).

*Controller.*  None of its properties is inductive.  `Disk` says what a pending
journal, or an updater that outlived its timeout, can still do: a journal implies
that its release is retained or that the recovery is about to run, and whoever has
recovered faces neither.  `Runs` relates the renderer the app runs to what is
installed or about to be; where they tie the installation to releases of the session
they are suspended by `foreign`.  `Stage` states what holds at each await; `Shown` that
Cancel is offered only before the last idle check has passed, and Update only for
the release the check pinned with nothing pending; `Turns` that checks, requests and
updates exclude each other; `Cancelled` that a cancelled update never passes that
check.  `FailFails`, `FailedKeeps` and `CaughtKeeps` carry it through the catch
block, which is entered from every one of the awaits.

Every invariant and every action property of the passing runs is stated by a theorem.
`CleanupGoesOn` is proved in part: `StaysScheduled` is, `IdleTasksGo` is not.  Only
model-checked: liveness under fairness, which is out of the prover's reach
(`PendingSettles`, `DeadOwnerReclaimed`, `ClosedAppReturns`, `WaitingEnds`,
`ServedAgain`, `PublishersEnd`, `SessionPublished`, `Reconnects`, `CloseReturns`,
`IdleTasksGo`, `GateMovesOn`, `DebuggerFreed`).  What would need induction over data is
avoided: the operations of a transaction are reasoned about by their index, and the
order of bootstrap scripts is kept as a relation.  No module uses a recursive operator.
No run names the type invariants: the theorems stand for them.

## 5. Findings and hazards

`findings` in `PROJECT.json` gives three disagreements between the code and what
its documents say, each with the run that exhibits it:

1. A crash between creating and renaming a temporary file leaves it in the install
   root, where the verification refuses it, so neither recovery nor rollback ever
   succeeds again (`transaction_interrupted`).
2. `validatedResumeIndex` lowers the durable count; a failure after that rolls back
   a prefix only (`transaction_rewound`).
3. An app that obeys the quit request after `closeGracefully` gave up is neither
   relaunched nor reported (`session_late_quit`).

Other gaps the models met are excused by a history variable in the property they
would break, and described with their modules above: two writers after a stale
judgement (`WriterLock!raced`, and the same in `CoordinatorHandoff` and
`PublisherHeartbeat`), a leaked session (`CdpTransport!overlapped`), an early
delete (`TaskMaintenance!slipped`), two listings on a client
(`ThreadListGate!forked`), a "current" that follows a foreign update
(`UpdateSession!foreign`).

`hazards` lists what is hard to test, at its line.  Those without a property say
why: the code promises nothing there (a lock left without an owner), the model
leaves the detail out (process ids, request identifiers), or the component is not
modelled yet.

## 6. What is not modelled, and why

* Renderer project view: rendering, remote inventories, project registration,
  aliases, peer transfers and the cleanup's preview: user interface, and state of
  the page that the next render makes anew.  Its two parts that act on tasks are
  `TaskMaintenance` and `ThreadListGate`.  What the listing answers to an activity
  scan is an input of the controller in `UpdateSession`.
* Startup UI, shortcuts, tray and progress windows: little state that outlives a
  call.
* Enabling the feature, proxy configuration, desktop app update: sequences of
  operating-system calls that are almost all external.
* Release lookup and archive checks: network and git; the choice of a release is
  an input of the controller.
* Build tools and tests.
* Of the modelled components: message texts, logs, history records, request
  identifiers, symbolic links, permissions, and the reuse of process ids.

## 7. Plan

Modules in order of importance; the first nine are modelled and checked as
described above, and proved as section 4 says.

| step | module | composes | abstract specification | theorems |
|---|---|---|---|---|
| 1 | `UpdateTransaction` | `AtomicInstall` | `AtomicInstall` | done |
| 2 | `WriterLock` | | mutual exclusion | done |
| 3 | `UpdateSession` | `AtomicInstall` in its updater calls | | done |
| 4 | `CoordinatorHandoff` | | one server per session | done |
| 5 | `PublisherHeartbeat` with the startup script's handoff marker | | one publisher per lock | done |
| 6 | `CdpTransport`: attach, re-attach, invalidation, convergence, close | | last status wins | done |
| 7 | `TaskMaintenance`: the cleanup of tasks in several windows | | | done |
| 8 | `ThreadListGate`: one listing per client | | | done |
| 9 | `ElectronAttach`: the debugger several clients share | | | done |
| 10 | retention of sessions, bundles and prepared releases | `UpdateTransaction`'s journal | | nothing referred to is pruned |
| 11 | maintenance pruning, checkout update | | | |
| 12 | attach runtime: orchestrator and discovery | | | |
| 13 | PowerShell sequences: `StableInstall`, repair and recovery of the updater script, `RepairUpdateCoordinator` | `AtomicInstall` | `AtomicInstall` | |
