------------------------- MODULE UpdateSession_proofs -------------------------
(***************************************************************************)
(* Proofs about the update coordinator of an app session, for any number of *)
(* releases, handover attempts and faults.                                  *)
(***************************************************************************)
EXTENDS UpdateSession, TLAPS

Ops == Announcements \cup Calls \cup {"none"}

StatusType == [state : States, version : 0..MaxVersion, installed : 0..MaxVersion,
               canQueue : BOOLEAN, canCancel : BOOLEAN]
JobType == [version : 0..MaxVersion, prior : 0..MaxVersion, appClosed : BOOLEAN,
            applyAttempted : BOOLEAN, hot : BOOLEAN, recovered : BOOLEAN,
            relaunchAttempted : BOOLEAN, retain : BOOLEAN, attempt : 0..HandoffAttempts]

AppTyped == app \in {"running", "gone"} /\ quitting \in BOOLEAN /\ loaded \in 0..MaxVersion
DiskTyped == /\ installed \in 0..MaxVersion /\ journal \in 0..MaxVersion /\ before \in 0..MaxVersion
             /\ prepared \subseteq Version /\ orphan \in {"none", "prepare", "apply", "recover"}
AskTyped == /\ latest \in Version /\ check \in {"none", "announce", "ask"}
            /\ waiting \in {"none", "checking", "checked"} /\ monitor \in {"none", "probing"}
            /\ foreign \in BOOLEAN
ModeTyped == alive \in BOOLEAN /\ stale \in BOOLEAN /\ cancelled \in BOOLEAN
LogTyped == confirmed \subseteq Version /\ notice \in {"none", "shown", "lost"}
RunTyped == /\ status \in StatusType /\ release \in 0..MaxVersion /\ op \in Ops /\ job \in JobType
            /\ closing \in BOOLEAN /\ stopping \in BOOLEAN /\ faults \in 0..MaxFaults
            /\ op # "none" => job.version \in Version

Typed == AppTyped /\ DiskTyped /\ AskTyped /\ ModeTyped /\ LogTyped /\ RunTyped

-----------------------------------------------------------------------------
(* Types.                                                                   *)

LEMMA TypedIsTypeOK == Typed => TypeOK
  BY DEF Typed, AppTyped, DiskTyped, AskTyped, ModeTyped, LogTyped, RunTyped, TypeOK, Ops,
     StatusType, JobType, Version

LEMMA VersionIs == Version \subseteq 0..MaxVersion /\ 1 \in Version /\ None \notin Version
  BY BoundAssumption DEF Version, None

LEMMA NoneTyped == None \in 0..MaxVersion
  BY BoundAssumption DEF None

LEMMA OpsAre ==
    Ops = {"announcePrepare", "announceQueued", "announceWaiting", "announceCancelled",
           "announceUnwritable", "announceHot", "announceApply", "announceCurrent",
           "announceDeferred", "announceClosing", "announceInstall", "announceRestart",
           "report", "prepare", "query", "confirm", "hotReload", "close", "apply", "verify",
           "probe", "handoff", "relaunch", "recoverAgain", "restore", "relaunchAgain",
           "notify", "none"}
  BY DEF Ops, Announcements, Calls

LEMMA StatusTyped ==
    \A s \in States, v \in 0..MaxVersion :
        /\ Status(s, v) \in StatusType /\ Cancellable(s, v) \in StatusType
        /\ Queueable(v) \in StatusType
  BY NoneTyped DEF Status, Cancellable, Queueable, StatusType, States

LEMMA StatusIs ==
    \A s \in States, v \in 0..MaxVersion :
        /\ Status(s, v).state = s /\ Status(s, v).version = v
        /\ Status(s, v).canQueue = FALSE /\ Status(s, v).canCancel = FALSE
        /\ Cancellable(s, v).state = s /\ Cancellable(s, v).version = v
        /\ Cancellable(s, v).canQueue = FALSE /\ Cancellable(s, v).canCancel = TRUE
        /\ Queueable(v).state = "available" /\ Queueable(v).version = v
        /\ Queueable(v).canQueue = TRUE /\ Queueable(v).canCancel = FALSE
  BY DEF Status, Cancellable, Queueable

LEMMA StatesAre ==
    /\ "unavailable" \in States /\ "checking" \in States /\ "current" \in States
    /\ "available" \in States /\ "queued" \in States /\ "preparing" \in States
    /\ "closing" \in States /\ "updating" \in States /\ "restarting" \in States
    /\ "error" \in States
  BY DEF States

(* What reaches the sidebar of a status that is set.                        *)
Alike(t, s) == /\ t.state = s.state /\ t.version = s.version
               /\ t.canQueue = s.canQueue /\ t.canCancel = s.canCancel

Follows(t, s, read) ==
    /\ t \in StatusType
    /\ s.state # "current" => Alike(t, s)
    /\ s.state = "current" =>
          /\ t.canQueue = FALSE /\ t.canCancel = FALSE
          /\ \/ t.state = "unavailable"
             \/ t.state = "current" /\ t.version = read /\ read # None

LEMMA SnapshotIs ==
    ASSUME NEW s \in StatusType, NEW read \in 0..MaxVersion
    PROVE  Follows(Snapshot(s, read), s, read)
<1> DEFINE u == IF s.state # "current" THEN s
                ELSE IF read = None THEN Status("unavailable", None)
                ELSE Status("current", read)
<1>1. /\ u \in StatusType
      /\ s.state # "current" => u = s
      /\ s.state = "current" =>
            /\ u.canQueue = FALSE /\ u.canCancel = FALSE
            /\ \/ u.state = "unavailable"
               \/ u.state = "current" /\ u.version = read /\ read # None
  BY StatusTyped, StatusIs, StatesAre, NoneTyped
<1>2. Snapshot(s, read) = [u EXCEPT !.installed = read]
  BY DEF Snapshot
<1> HIDE DEF u
<1> QED BY <1>1, <1>2 DEF StatusType, Alike, Follows

ReadsTyped == Reads \subseteq 0..MaxVersion

LEMMA SameReads ==
    ASSUME DiskTyped, UNCHANGED <<installed, journal, before>>
    PROVE  ReadsTyped /\ (installed # Mixed => Reads = {installed})
  BY NoneTyped DEF DiskTyped, ReadsTyped, Reads

LEMMA ShowsPlain ==
    ASSUME ReadsTyped, NEW s \in States \ {"current"}, NEW v \in 0..MaxVersion
    PROVE  /\ Shows(Status(s, v)) =>
                 /\ status' \in StatusType /\ status'.state = s /\ status'.version = v
                 /\ ~status'.canQueue /\ ~status'.canCancel
           /\ Shows(Cancellable(s, v)) =>
                 status' \in StatusType /\ status'.state = s /\ ~status'.canQueue
           /\ Shows(Queueable(v)) =>
                 /\ status' \in StatusType /\ status'.state = "available"
                 /\ status'.version = v /\ ~status'.canCancel
<1>1. ASSUME NEW t \in StatusType, t.state # "current", Shows(t)
      PROVE  status' \in StatusType /\ Alike(status', t)
  <2>1. PICK read \in 0..MaxVersion : status' = Snapshot(t, read)
    BY <1>1 DEF Shows, ReadsTyped
  <2> QED BY <1>1, <2>1, SnapshotIs DEF Follows
<1>2. /\ Status(s, v) \in StatusType /\ Cancellable(s, v) \in StatusType
      /\ Queueable(v) \in StatusType
  BY StatusTyped
<1>3. /\ Status(s, v).state = s /\ Status(s, v).version = v
      /\ Status(s, v).canQueue = FALSE /\ Status(s, v).canCancel = FALSE
      /\ Cancellable(s, v).state = s /\ Cancellable(s, v).canQueue = FALSE
      /\ Queueable(v).state = "available" /\ Queueable(v).version = v
      /\ Queueable(v).canCancel = FALSE
  BY StatusIs
<1> QED BY <1>1, <1>2, <1>3 DEF Alike

(* "current" names what is on disk.                                         *)
LEMMA ShowsCurrent ==
    ASSUME DiskTyped, UNCHANGED <<installed, journal, before>>, installed # Mixed,
           NEW v \in 0..MaxVersion, Shows(Status("current", v))
    PROVE  /\ status' \in StatusType /\ ~status'.canQueue /\ ~status'.canCancel
           /\ status'.state = "current" => status'.version = installed
<1>1. status' = Snapshot(Status("current", v), installed) /\ installed \in 0..MaxVersion
  BY SameReads DEF Shows, DiskTyped
<1>2. Status("current", v) \in StatusType /\ Status("current", v).state = "current"
  BY StatusTyped, StatusIs, StatesAre
<1>3. Follows(status', Status("current", v), installed)
  BY <1>1, <1>2, SnapshotIs
<1> QED BY <1>2, <1>3 DEF Follows

LEMMA FaultTyped == ASSUME RunTyped, Fault PROVE faults' \in 0..MaxFaults
  BY BoundAssumption DEF RunTyped, Fault

(* What the parts of the catch block leave to be done.                      *)
SameJob(l) == /\ job'.version = l.version /\ job'.prior = l.prior /\ job'.appClosed = l.appClosed
              /\ job'.applyAttempted = l.applyAttempted /\ job'.hot = l.hot
              /\ job'.recovered = l.recovered /\ job'.retain = l.retain

Caught(l) ==
    /\ job' \in JobType /\ SameJob(l) /\ status' \in StatusType
    /\ op' \in {"restore", "relaunchAgain", "notify", "report"}
    /\ op' = "restore" => ~l.appClosed /\ l.hot /\ (~l.applyAttempted \/ l.recovered)
    /\ op' = "relaunchAgain" => l.appClosed /\ l.recovered
    /\ op' = "notify" => l.appClosed
    /\ op' # "report" => status' = status
    /\ op' = "report" => status'.state = "error" /\ ~status'.canQueue /\ ~status'.canCancel

LEMMA ReportShows ==
    ASSUME ReadsTyped, NEW l \in JobType, Report(l)
    PROVE  /\ op' = "report" /\ job' = l
           /\ status' \in StatusType /\ status'.state = "error"
           /\ ~status'.canQueue /\ ~status'.canCancel
<1>1. l.version \in 0..MaxVersion
  BY DEF JobType
<1> QED BY <1>1, ShowsPlain, StatesAre DEF Report, Await

LEMMA ThenNotifyCaught ==
    ASSUME RunTyped, ReadsTyped, NEW l \in JobType, ThenNotify(l)
    PROVE  Caught(l) /\ op' \in {"notify", "report"}
<1>1. CASE l.appClosed
  BY <1>1 DEF ThenNotify, Await, Caught, SameJob, RunTyped
<1>2. CASE ~l.appClosed
  <2>1. Report(l)
    BY <1>2 DEF ThenNotify
  <2> QED BY <2>1, ReportShows DEF Caught, SameJob
<1> QED BY <1>1, <1>2

LEMMA ThenRelaunchCaught ==
    ASSUME RunTyped, ReadsTyped, NEW l \in JobType, ThenRelaunch(l)
    PROVE  Caught(l) /\ op' # "restore"
<1>1. CASE l.appClosed /\ l.recovered /\ ~l.relaunchAttempted
  <2> DEFINE m == [l EXCEPT !.relaunchAttempted = TRUE]
  <2>1. m \in JobType /\ m.version = l.version /\ m.prior = l.prior /\ m.appClosed = l.appClosed
        /\ m.applyAttempted = l.applyAttempted /\ m.hot = l.hot /\ m.recovered = l.recovered
        /\ m.retain = l.retain
    BY DEF JobType
  <2>2. op' = "relaunchAgain" /\ job' = m /\ status' = status
    BY <1>1 DEF ThenRelaunch, Await
  <2> QED BY <1>1, <2>1, <2>2 DEF Caught, SameJob, RunTyped
<1>2. CASE ~(l.appClosed /\ l.recovered /\ ~l.relaunchAttempted)
  <2>1. ThenNotify(l)
    BY <1>2 DEF ThenRelaunch
  <2> QED BY <2>1, ThenNotifyCaught
<1> QED BY <1>1, <1>2

LEMMA ThenRestoreCaught ==
    ASSUME RunTyped, ReadsTyped, NEW l \in JobType, ThenRestore(l)
    PROVE  Caught(l)
<1>1. CASE /\ ~l.appClosed /\ l.hot /\ (~l.applyAttempted \/ l.recovered)
           /\ Await("restore", l) /\ UNCHANGED status
  BY <1>1 DEF Await, Caught, SameJob, RunTyped
<1>2. CASE ThenRelaunch(l)
  BY <1>2, ThenRelaunchCaught
<1> QED BY <1>1, <1>2 DEF ThenRestore

Retaining == [job EXCEPT !.retain = TRUE]

LEMMA RetainingIs ==
    ASSUME RunTyped
    PROVE  /\ Retaining \in JobType /\ Retaining.version = job.version
           /\ Retaining.prior = job.prior /\ Retaining.appClosed = job.appClosed
           /\ Retaining.applyAttempted = job.applyAttempted /\ Retaining.hot = job.hot
           /\ Retaining.recovered = job.recovered /\ Retaining.retain = TRUE
  BY DEF RunTyped, JobType, Retaining

Due == (job.appClosed \/ job.applyAttempted) /\ ~job.recovered

(* How an update fails: recovery is tried unless there is nothing to        *)
(* recover, or a command that may still run makes it pointless.             *)
LEMMA FailCaught ==
    ASSUME RunTyped, ReadsTyped, NEW u \in BOOLEAN, Fail(u)
    PROVE  /\ closing' \in BOOLEAN
           /\ \/ Due /\ u = FALSE /\ op' = "recoverAgain" /\ job' = job /\ status' = status
              \/ Due /\ u = TRUE /\ Caught(Retaining)
              \/ ~Due /\ Caught(job)
<1>1. closing' \in BOOLEAN
  BY DEF Fail, RunTyped
<1>2. \/ Due /\ ~u /\ op' = "recoverAgain" /\ job' = job /\ status' = status
      \/ Due /\ u /\ ThenRestore(Retaining)
      \/ ~Due /\ ThenRestore(job)
  BY DEF Fail, Due, Retaining, Await
<1>3. ThenRestore(Retaining) => Caught(Retaining)
  BY ThenRestoreCaught, RetainingIs
<1>4. ThenRestore(job) => Caught(job)
  BY ThenRestoreCaught DEF RunTyped
<1> QED BY <1>1, <1>2, <1>3, <1>4

-----------------------------------------------------------------------------
(* The invariant.  First the stages of an update by the await it is at.     *)

Cancelables == {"announcePrepare", "prepare", "announceQueued", "announceWaiting", "query",
                "confirm"}
Hot == {"hotReload", "announceApply"}
Fresh == Cancelables \cup Hot \cup {"announceCancelled", "announceUnwritable", "announceHot",
                                    "announceClosing", "close", "announceInstall"}
Unpacked == {"announceQueued", "announceWaiting", "query", "confirm", "announceUnwritable",
             "announceHot", "announceClosing", "hotReload", "close", "announceApply",
             "announceInstall", "apply"}
Open == {"probe", "announceCurrent", "handoff", "announceDeferred"}
Done == Open \cup {"announceRestart", "relaunch"}
Reloaded == {"announceApply", "announceInstall", "apply", "verify"} \cup Open
Past == {"announceHot", "hotReload", "announceApply", "announceClosing", "close",
         "announceInstall", "apply", "verify", "announceRestart", "relaunch"}

(* What a pending journal or a running updater can still do to the install  *)
(* root and to the app that runs from it.  A run of the updater beside the  *)
(* session suspends what ties the install to the releases of the session.   *)
Disk ==
    /\ PreparedKept
    /\ installed = Mixed => journal # None
    /\ journal # None => before \in Version /\ (~foreign => before < latest)
    /\ journal # None \/ orphan = "apply" => job.applyAttempted
    /\ journal # None => job.retain \/ op = "recoverAgain"
    /\ orphan # "none" => job.version \in Version
    /\ orphan = "apply" => job.retain /\ job.version \in prepared /\ journal = None
    /\ orphan = "apply" /\ ~foreign => installed < job.version
    /\ job.recovered => journal = None /\ orphan = "none"
    /\ release <= latest /\ job.version <= latest

(* Which renderer the app runs, next to what is or will be installed.       *)
Runs ==
    app = "running" =>
        /\ ~foreign => loaded = installed \/ installed < latest
        /\ journal # None => loaded = journal
        /\ orphan = "apply" => loaded = job.version
        /\ op \in Reloaded => loaded = job.version
        /\ status.state = "current" /\ ~foreign => loaded = status.version

(* What holds at each stage of the update.                                  *)
Stage ==
    /\ op \in Fresh =>
          /\ ~job.applyAttempted /\ ~job.recovered /\ journal = None /\ orphan = "none"
          /\ release = job.version /\ (~foreign => installed < job.version)
    /\ op \in Fresh \ {"announceInstall"} => ~job.appClosed
    /\ op \in Fresh \ Hot => ~job.hot
    /\ op \in Unpacked => job.version \in prepared
    /\ op \in {"apply", "verify"} =>
          job.applyAttempted /\ ~job.recovered /\ journal = None /\ orphan = "none"
    /\ op = "apply" /\ ~foreign => installed < job.version
    /\ op = "verify" /\ ~foreign => installed = job.version
    /\ op \in Done => job.recovered /\ (~foreign => installed = job.version)
    /\ op \in Open \cup {"restore"} => ~job.appClosed
    /\ op = "recoverAgain" => ~job.recovered
    /\ op = "restore" => ~job.applyAttempted \/ job.recovered
    /\ op = "relaunchAgain" => job.recovered

(* What the sidebar shows.                                                  *)
Shown ==
    /\ status.canCancel => op \in Cancelables \/ (op = "none" /\ stopping)
    /\ status.canQueue =>
          /\ op \in {"none", "announceCancelled"} /\ check = "none"
          /\ release # None /\ release = status.version /\ (~foreign => installed < release)
          /\ orphan = "none" /\ journal = None
    /\ status.state = "current" =>
          /\ op \in {"none", "restore"} \cup Open /\ orphan = "none" /\ journal = None
          /\ ~foreign => installed = status.version

(* Checks, requests and updates exclude each other.                         *)
Turns ==
    /\ check # "none" \/ waiting # "none" => op = "none"
    /\ waiting = "checked" => check = "none"

Cancelled == cancelled => stale /\ op \notin Past

IInv == Typed /\ Disk /\ Runs /\ Stage /\ Shown /\ Turns /\ Cancelled

-----------------------------------------------------------------------------
(* The local variables, one assignment at a time.                           *)

JobIs(m, l) == /\ m \in JobType /\ m.version = l.version /\ m.prior = l.prior
               /\ m.appClosed = l.appClosed /\ m.hot = l.hot
               /\ m.applyAttempted = l.applyAttempted /\ m.recovered = l.recovered
               /\ m.retain = l.retain

LEMMA HotSet ==
    ASSUME NEW l \in JobType PROVE
        LET m == [l EXCEPT !.hot = TRUE] IN
        /\ m \in JobType /\ m.version = l.version /\ m.prior = l.prior /\ m.hot
        /\ m.appClosed = l.appClosed /\ m.applyAttempted = l.applyAttempted
        /\ m.recovered = l.recovered /\ m.retain = l.retain
  BY DEF JobType

LEMMA AttemptedSet ==
    ASSUME NEW l \in JobType PROVE
        LET m == [l EXCEPT !.applyAttempted = TRUE] IN
        /\ m \in JobType /\ m.version = l.version /\ m.prior = l.prior /\ m.hot = l.hot
        /\ m.appClosed = l.appClosed /\ m.applyAttempted
        /\ m.recovered = l.recovered /\ m.retain = l.retain
  BY DEF JobType

LEMMA ClosedSet ==
    ASSUME NEW l \in JobType PROVE
        LET m == [l EXCEPT !.appClosed = TRUE] IN
        /\ m \in JobType /\ m.version = l.version /\ m.prior = l.prior /\ m.hot = l.hot
        /\ m.appClosed /\ m.applyAttempted = l.applyAttempted
        /\ m.recovered = l.recovered /\ m.retain = l.retain
  BY DEF JobType

LEMMA RecoveredSet ==
    ASSUME NEW l \in JobType PROVE
        LET m == [l EXCEPT !.recovered = TRUE] IN
        /\ m \in JobType /\ m.version = l.version /\ m.prior = l.prior /\ m.hot = l.hot
        /\ m.appClosed = l.appClosed /\ m.applyAttempted = l.applyAttempted
        /\ m.recovered /\ m.retain = l.retain
  BY DEF JobType

LEMMA RelaunchSet ==
    ASSUME NEW l \in JobType PROVE JobIs([l EXCEPT !.relaunchAttempted = TRUE], l)
  BY DEF JobType, JobIs

LEMMA AttemptSet ==
    ASSUME NEW l \in JobType, NEW n \in 0..HandoffAttempts PROVE JobIs([l EXCEPT !.attempt = n], l)
  BY DEF JobType, JobIs

LEMMA NewJob ==
    ASSUME NEW v \in 0..MaxVersion, NEW w \in 0..MaxVersion PROVE
        LET m == [NoJob EXCEPT !.version = v, !.prior = w] IN
        /\ m \in JobType /\ m.version = v /\ m.prior = w /\ ~m.hot
        /\ ~m.appClosed /\ ~m.applyAttempted /\ ~m.recovered /\ ~m.retain
<1>1. None \in 0..MaxVersion /\ 0 \in 0..HandoffAttempts
  BY BoundAssumption DEF None
<1> QED BY <1>1 DEF JobType, NoJob

-----------------------------------------------------------------------------
(* A failing step.                                                          *)

Catching == {"recoverAgain", "restore", "relaunchAgain", "notify", "report"}

Failed ==
    /\ job' \in JobType /\ closing' \in BOOLEAN /\ status' \in StatusType /\ op' \in Catching
    /\ job'.version = job.version /\ job'.prior = job.prior /\ job'.appClosed = job.appClosed
    /\ job'.applyAttempted = job.applyAttempted /\ job'.hot = job.hot
    /\ job'.recovered = job.recovered
    /\ job.retain => job'.retain
    /\ job.applyAttempted /\ ~job.recovered => job'.retain \/ op' = "recoverAgain"
    /\ op' = "recoverAgain" => ~job.recovered
    /\ op' = "restore" => ~job.appClosed /\ (~job.applyAttempted \/ job.recovered)
    /\ op' = "relaunchAgain" => job.recovered
    /\ op' # "report" => status' = status /\ op \notin Cancelables \cup {"announceCancelled"}
    /\ op' = "report" => status'.state = "error" /\ ~status'.canQueue /\ ~status'.canCancel
    /\ status.state = "current" => op' \in {"report", "restore"}

LEMMA FailFails ==
    ASSUME IInv, ReadsTyped, NEW u \in BOOLEAN, Fail(u), op \notin Catching \cup {"none"}
    PROVE  Failed /\ (u /\ job.applyAttempted /\ ~job.recovered => job'.retain)
<1> USE DEF IInv, Typed
<1>1. closing' \in BOOLEAN
  BY FailCaught
<1>2. job \in JobType /\ status \in StatusType
  BY DEF RunTyped
<1>3. /\ op \in Cancelables \cup {"announceCancelled"} =>
              ~job.appClosed /\ ~job.applyAttempted /\ ~job.hot
      /\ status.state = "current" => ~job.appClosed /\ job.recovered
  BY DEF Stage, Shown, Fresh, Hot, Cancelables, Open, Done, Catching
<1>4. CASE Due /\ u = FALSE /\ op' = "recoverAgain" /\ job' = job /\ status' = status
  BY <1>1, <1>2, <1>3, <1>4 DEF Failed, Due, Catching
<1>5. CASE Due /\ u = TRUE /\ Caught(Retaining)
  BY <1>1, <1>2, <1>3, <1>5, RetainingIs DEF Failed, Due, Catching, Caught, SameJob
<1>6. CASE ~Due /\ Caught(job)
  BY <1>1, <1>2, <1>3, <1>6 DEF Failed, Due, Catching, Caught, SameJob
<1> QED BY <1>4, <1>5, <1>6, FailCaught

LEMMA FailedKeeps ==
    ASSUME IInv, Failed, op \notin Catching \cup {"none"},
           UNCHANGED <<release, check, waiting, cancelled, stale, foreign>>,
           op \in Open => UNCHANGED <<installed, journal, orphan>>
    PROVE  Stage' /\ Shown' /\ Turns' /\ Cancelled'
<1> USE DEF IInv, Catching
<1>1. Stage'
  BY DEF Stage, Failed, Typed, RunTyped, Fresh, Hot, Cancelables, Unpacked, Open, Done
<1>2. Shown'
  <2>1. ~status'.canCancel /\ ~status'.canQueue
    BY DEF Failed, Shown
  <2>2. status'.state = "current" =>
           /\ op' = "restore" /\ orphan' = "none" /\ journal' = None
           /\ ~foreign' => installed' = status'.version
    BY DEF Failed, Shown
  <2> QED BY <2>1, <2>2 DEF Shown
<1>3. Turns'
  BY DEF Turns
<1>4. Cancelled'
  BY DEF Cancelled, Past, Failed
<1> QED BY <1>1, <1>2, <1>3, <1>4

(* What becomes of the install root and the app, when a step fails and      *)
(* leaves both alone.                                                       *)
LEMMA FailedDisk ==
    ASSUME IInv, Failed, op \notin Catching \cup {"none"},
           UNCHANGED <<release, latest, foreign, diskVars>>
    PROVE  Disk'
  BY DEF IInv, Disk, Failed, Catching, diskVars, PreparedKept

LEMMA FailedRuns ==
    ASSUME IInv, Failed, op \notin Catching \cup {"none"},
           UNCHANGED <<latest, foreign, installed, journal, orphan, loaded>>, app' \in {app, "gone"}
    PROVE  Runs'
<1>1. op' \notin Reloaded /\ (status'.state = "current" => status' = status)
  BY DEF Failed, Catching, Reloaded, Open
<1>2. SUFFICES ASSUME app = "running"
               PROVE  /\ ~foreign => loaded = installed \/ installed < latest
                      /\ journal # None => loaded = journal
                      /\ orphan = "apply" => loaded = job.version
                      /\ status.state = "current" /\ ~foreign => loaded = status.version
  <2>1. app' = "running" => app = "running"
    OBVIOUS
  <2>2. job'.version = job.version
    BY DEF Failed
  <2> QED BY <1>1, <2>1, <2>2 DEF Runs
<1> QED BY <1>2 DEF IInv, Runs

-----------------------------------------------------------------------------
(* Steps from outside, and the monitor: no update moves on.                 *)

LEMMA PublishKeeps == ASSUME IInv, Publish PROVE IInv'
<1> USE DEF Publish, appVars, diskVars, modeVars, logVars
<1>1. latest' = latest + 1 /\ latest' \in Version /\ latest \in Nat /\ loaded \in Nat
      /\ installed \in Nat /\ before \in Nat /\ release \in Nat /\ job.version \in Nat
  BY BoundAssumption DEF IInv, Typed, AskTyped, DiskTyped, AppTyped, RunTyped, JobType, Version
<1>2. Typed'
  BY <1>1 DEF IInv, Typed, AppTyped, DiskTyped, AskTyped, ModeTyped, LogTyped, RunTyped
<1>3. Disk'
  BY <1>1 DEF IInv, Disk, PreparedKept, Version
<1>4. Runs'
  BY <1>1 DEF IInv, Runs
<1>5. Stage' /\ Shown' /\ Turns' /\ Cancelled'
  BY DEF IInv, Stage, Shown, Turns, Cancelled
<1> QED BY <1>2, <1>3, <1>4, <1>5 DEF IInv

LEMMA AppExitsKeeps == ASSUME IInv, AppExits PROVE IInv'
<1> USE DEF AppExits, askVars, worldVars, diskVars, modeVars, logVars
<1>1. Typed'
  BY DEF IInv, Typed, AppTyped, DiskTyped, AskTyped, ModeTyped, LogTyped, RunTyped
<1>2. Disk'
  BY DEF IInv, Disk, PreparedKept
<1>3. Runs'
  BY DEF IInv, Runs
<1>4. Stage' /\ Shown' /\ Turns' /\ Cancelled'
  BY DEF IInv, Stage, Shown, Turns, Cancelled
<1> QED BY <1>1, <1>2, <1>3, <1>4 DEF IInv

LEMMA MonitorKeeps == ASSUME IInv, Monitoring PROVE IInv'
<1> USE DEF Monitoring, MonitorBegins, MonitorAnswered, worldVars, appVars, diskVars, logVars
<1>0. stopping' \in BOOLEAN /\ stale' \in BOOLEAN /\ faults' \in 0..MaxFaults
      /\ (stopping => stopping') /\ (stale => stale') /\ monitor' \in {"none", "probing"}
  BY FaultTyped DEF IInv, Typed, RunTyped, ModeTyped, AskTyped, NoFault
<1>1. Typed'
  BY <1>0 DEF IInv, Typed, AppTyped, DiskTyped, AskTyped, ModeTyped, LogTyped, RunTyped
<1>2. Disk'
  BY DEF IInv, Disk, PreparedKept
<1>3. Runs'
  BY DEF IInv, Runs
<1>4. Stage' /\ Shown' /\ Turns' /\ Cancelled'
  BY <1>0 DEF IInv, Stage, Shown, Turns, Cancelled
<1> QED BY <1>1, <1>2, <1>3, <1>4 DEF IInv

LEMMA ExitKeeps == ASSUME IInv, Exit PROVE IInv'
<1> USE DEF Exit, worldVars, appVars, diskVars, logVars
<1>1. Typed'
  BY DEF IInv, Typed, AppTyped, DiskTyped, AskTyped, ModeTyped, LogTyped, RunTyped
<1>2. Disk'
  BY DEF IInv, Disk, PreparedKept
<1>3. Runs'
  BY DEF IInv, Runs
<1>4. Stage' /\ Shown' /\ Turns' /\ Cancelled'
  BY DEF IInv, Stage, Shown, Turns, Cancelled
<1> QED BY <1>1, <1>2, <1>3, <1>4 DEF IInv

(* The updater's ways to leave the install root.                            *)
LEMMA SettlesTo ==
    ASSUME IInv, Settles
    PROVE  /\ installed' \in 0..MaxVersion /\ journal' = None /\ before' \in 0..MaxVersion
           /\ journal # None => installed' # Mixed
           /\ journal = None => installed' = installed
           /\ ~foreign => installed' = installed \/ installed' = journal \/ installed' < latest
           /\ installed' = Mixed => FALSE
<1>1. None \in 0..MaxVersion
  BY BoundAssumption DEF None
<1> QED BY <1>1 DEF IInv, Typed, DiskTyped, Disk, Settles, SameInstall, PreparedKept, Version,
     None, Mixed

LEMMA OrphanEndsKeeps == ASSUME IInv, OrphanEnds PROVE IInv'
<1> USE DEF OrphanEnds, appVars, askVars, worldVars, modeVars, logVars
<1>1. job.version \in Version /\ ~job.recovered /\ ~status.canQueue /\ op \notin Fresh
      /\ op \notin {"apply", "verify"} /\ op \notin Done
      /\ (op = "restore" => ~job.applyAttempted)
  BY DEF IInv, Disk, Stage, Shown
<1>2. job.version \in 0..MaxVersion /\ None \in 0..MaxVersion /\ latest \in Nat
      /\ job.version \in Nat /\ loaded \in Nat /\ installed \in Nat
  BY <1>1, BoundAssumption DEF Version, None, IInv, Typed, AskTyped, AppTyped, DiskTyped
<1>3. status.state # "current"
  BY DEF IInv, Shown
<1>4. Stage' /\ Shown' /\ Turns' /\ Cancelled'
  <2>1. Stage'
    BY <1>1 DEF IInv, Stage, Unpacked, Fresh, Hot, Cancelables
  <2>2. Shown'
    BY <1>1, <1>3 DEF IInv, Shown
  <2> QED BY <2>1, <2>2 DEF IInv, Turns, Cancelled
<1>5. CASE orphan = "prepare" /\ prepared' = prepared \cup {job.version} /\ SameInstall
  <2>1. Typed'
    BY <1>1, <1>5 DEF IInv, Typed, AppTyped, DiskTyped, AskTyped, ModeTyped, LogTyped, RunTyped, SameInstall
  <2>2. Disk'
    BY <1>1, <1>5 DEF IInv, Disk, SameInstall, PreparedKept
  <2>3. Runs'
    BY <1>5 DEF IInv, Runs, SameInstall
  <2> QED BY <2>1, <2>2, <2>3, <1>4 DEF IInv
<1>6. CASE orphan = "apply" /\ prepared' = prepared /\ Applies(job.version)
  <2>1. Typed'
    BY <1>2, <1>6 DEF IInv, Typed, AppTyped, DiskTyped, AskTyped, ModeTyped, LogTyped, RunTyped, Applies
  <2>2. Disk'
    BY <1>1, <1>2, <1>6 DEF IInv, Disk, Applies, PreparedKept, Version, Mixed, None
  <2>3. Runs'
    BY <1>6 DEF IInv, Runs, Applies
  <2> QED BY <2>1, <2>2, <2>3, <1>4 DEF IInv
<1>7. CASE orphan = "apply" /\ prepared' = prepared /\ LeavesPending(job.version)
  <2>1. Typed'
    BY <1>2, <1>7 DEF IInv, Typed, AppTyped, DiskTyped, AskTyped, ModeTyped, LogTyped, RunTyped,
       LeavesPending, Mixed, None
  <2>2. Disk'
    BY <1>1, <1>2, <1>7 DEF IInv, Disk, LeavesPending, PreparedKept, Version, Mixed, None, Typed, DiskTyped
  <2>3. Runs'
    BY <1>1, <1>2, <1>7 DEF IInv, Runs, Disk, LeavesPending, Version, Mixed, None
  <2> QED BY <2>1, <2>2, <2>3, <1>4 DEF IInv
<1>8. CASE orphan = "recover" /\ prepared' = prepared /\ Settles
  <2>1. Typed'
    BY <1>2, <1>8, SettlesTo DEF IInv, Typed, AppTyped, DiskTyped, AskTyped, ModeTyped, LogTyped, RunTyped
  <2>2. Disk'
    BY <1>8, <1>1, SettlesTo DEF IInv, Disk, PreparedKept
  <2>3. Runs'
    BY <1>8, SettlesTo DEF IInv, Runs, Disk, Settles, SameInstall
  <2> QED BY <2>1, <2>2, <2>3, <1>4 DEF IInv
<1>9. CASE prepared' = prepared /\ SameInstall
  <2>1. Typed'
    BY <1>9 DEF IInv, Typed, AppTyped, DiskTyped, AskTyped, ModeTyped, LogTyped, RunTyped, SameInstall
  <2>2. Disk'
    BY <1>1, <1>9 DEF IInv, Disk, SameInstall, PreparedKept
  <2>3. Runs'
    BY <1>9 DEF IInv, Runs, SameInstall
  <2> QED BY <2>1, <2>2, <2>3, <1>4 DEF IInv
<1> QED BY <1>5, <1>6, <1>7, <1>8, <1>9

(* The user's own run of the updater: what it installs is not this          *)
(* session's, and what it recovers is whole.                                *)
LEMMA UpdatesElsewhereKeeps == ASSUME IInv, UpdatesElsewhere PROVE IInv'
<1> USE DEF IInv
<1>0. /\ orphan = "none" /\ orphan' = "none" /\ prepared' = prepared /\ latest' = latest
      /\ UNCHANGED <<appVars, check, waiting, monitor, modeVars, logVars, status, release, op,
                     job, closing, stopping, faults>>
  BY DEF UpdatesElsewhere
<1> USE DEF appVars, modeVars, logVars
<1>1. /\ installed' \in 0..MaxVersion /\ installed' # Mixed /\ journal' = None
      /\ before' \in 0..MaxVersion /\ foreign' \in BOOLEAN
      /\ foreign' \/ (~foreign /\ journal # None /\ Settles)
  <2>1. CASE journal # None /\ Settles /\ UNCHANGED foreign
    BY <2>1, SettlesTo DEF Typed, AskTyped
  <2>2. CASE Applies(latest) /\ foreign' = TRUE
    BY <2>2, VersionIs, NoneTyped DEF Applies, Typed, AskTyped, Mixed, None
  <2> QED BY <2>1, <2>2 DEF UpdatesElsewhere
<1>2. Typed'
  BY <1>0, <1>1, NoneTyped DEF Typed, AppTyped, DiskTyped, AskTyped, ModeTyped, LogTyped, RunTyped
<1>3. Disk'
  BY <1>0, <1>1 DEF Disk, PreparedKept
<1>4. Runs'
  BY <1>0, <1>1, SettlesTo DEF Runs
<1>5. ~foreign' => op \notin Fresh \cup Done \cup {"apply", "verify"} /\ ~status.canQueue
                   /\ status.state # "current"
  BY <1>1 DEF Stage, Disk, Shown
<1>6. Stage'
  BY <1>0, <1>1, <1>5 DEF Stage
<1>7. Shown'
  BY <1>0, <1>1, <1>5 DEF Shown
<1>8. Turns' /\ Cancelled'
  BY <1>0 DEF Turns, Cancelled
<1> QED BY <1>2, <1>3, <1>4, <1>6, <1>7, <1>8

-----------------------------------------------------------------------------
(* Checks and requests.                                                     *)

Idle == /\ op = "none"
        /\ UNCHANGED <<app, loaded, diskVars, worldVars, op, job, stopping, closing, quitting,
                       monitor, modeVars, logVars>>

LEMMA CheckKeeps ==
    ASSUME IInv, Idle, faults' \in 0..MaxFaults, check' \in {"none", "announce", "ask"},
           waiting' \in {"none", "checking", "checked"}, waiting' = "checked" => check' = "none",
           release' \in 0..MaxVersion, release' <= latest,
           status' \in StatusType, ~status'.canCancel \/ status' = status,
           status'.canQueue => /\ check' = "none" /\ release' # None /\ release' = status'.version
                               /\ (~foreign => installed < release') /\ CanRead,
           status'.state = "current" =>
              status' = status \/ (status'.version = installed /\ latest = installed /\ CanRead)
    PROVE  IInv'
<1> USE DEF Idle, diskVars, modeVars, logVars, worldVars
<1>1. Typed'
  BY DEF IInv, Typed, AppTyped, DiskTyped, AskTyped, ModeTyped, LogTyped, RunTyped
<1>2. Disk'
  BY DEF IInv, Disk, PreparedKept
<1>3. Runs'
  BY DEF IInv, Runs, Typed, AskTyped, DiskTyped, Version
<1>4. Stage'
  BY DEF IInv, Stage, Fresh, Hot, Cancelables, Unpacked, Open, Done
<1>5. Shown'
  BY DEF IInv, Shown, Cancelables, CanRead
<1>6. Turns' /\ Cancelled'
  BY DEF IInv, Turns, Cancelled
<1> QED BY <1>1, <1>2, <1>3, <1>4, <1>5, <1>6 DEF IInv

LEMMA BlankStatus ==
    ASSUME DiskTyped, UNCHANGED diskVars, NEW s \in {"checking", "error"}, Shows(Status(s, None))
    PROVE  /\ status' \in StatusType /\ status'.state = s
           /\ ~status'.canQueue /\ ~status'.canCancel
<1>1. ReadsTyped
  BY SameReads DEF diskVars
<1> QED BY <1>1, ShowsPlain, StatesAre, NoneTyped

LEMMA RequestCheckKeeps == ASSUME IInv, RequestCheck PROVE IInv'
<1>1. Idle
  BY DEF RequestCheck, Idle, appVars
<1>2. /\ release' = release /\ faults' = faults /\ check' = "announce" /\ waiting' = "none"
      /\ Shows(Status("checking", None))
  BY DEF RequestCheck, BeginCheck
<1>3. /\ status' \in StatusType /\ status'.state = "checking"
      /\ ~status'.canQueue /\ ~status'.canCancel
  BY <1>1, <1>2, BlankStatus DEF IInv, Typed, Idle
<1> QED BY <1>1, <1>2, <1>3, CheckKeeps DEF IInv, Typed, RunTyped, Disk

LEMMA CheckAnnouncedKeeps == ASSUME IInv, CheckAnnounced PROVE IInv'
<1> USE DEF IInv
<1>1. Idle
  BY DEF CheckAnnounced, Idle, appVars, Turns
<1>2. faults' \in 0..MaxFaults /\ release' = release
  BY FaultTyped DEF Typed, RunTyped, CheckAnnounced, NoFault
<1>3. CASE check' = "ask" /\ UNCHANGED <<waiting, status>>
  <2>1. waiting # "checked" /\ ~status.canQueue
    BY DEF CheckAnnounced, Turns, Shown
  <2> QED BY <1>1, <1>2, <1>3, <2>1, CheckKeeps DEF Typed, RunTyped, AskTyped, Disk
<1>4. CASE CheckEnds /\ Shows(Status("error", None))
  <2>1. /\ status' \in StatusType /\ status'.state = "error"
        /\ ~status'.canQueue /\ ~status'.canCancel
    BY <1>1, <1>4, BlankStatus DEF Typed, Idle
  <2> QED BY <1>1, <1>2, <1>4, <2>1, CheckKeeps DEF CheckEnds, Typed, RunTyped, AskTyped, Disk
<1> QED BY <1>3, <1>4 DEF CheckAnnounced

LEMMA CheckAnsweredKeeps == ASSUME IInv, CheckAnswered PROVE IInv'
<1> USE DEF IInv
<1>1. Idle
  BY DEF CheckAnswered, Idle, appVars, Turns
<1>2. faults' \in 0..MaxFaults
  BY FaultTyped DEF Typed, RunTyped, CheckAnswered, NoFault
<1>3. check' = "none" /\ waiting' \in {"none", "checking", "checked"}
  BY DEF CheckAnswered, CheckEnds, Typed, AskTyped
<1>4. latest \in 0..MaxVersion /\ latest \in Nat /\ latest # None /\ installed \in 0..MaxVersion
  BY BoundAssumption DEF Typed, AskTyped, DiskTyped, Version, None
<1>a. ReadsTyped /\ DiskTyped /\ UNCHANGED <<installed, journal, before>>
  BY <1>1, SameReads DEF Typed, Idle, diskVars
<1>5. CASE CanRead /\ latest > installed /\ release' = latest /\ Shows(Queueable(latest))
  <2>1. /\ status' \in StatusType /\ ~status'.canCancel /\ status'.state = "available"
        /\ status'.version = latest
    BY <1>4, <1>5, <1>a, ShowsPlain, StatesAre
  <2> QED BY <1>1, <1>2, <1>3, <1>4, <1>5, <2>1, CheckKeeps
<1>6. CASE /\ CanRead /\ latest > installed /\ release' = latest
           /\ Shows(Status("unavailable", latest))
  <2>1. /\ status' \in StatusType /\ ~status'.canCancel /\ ~status'.canQueue
        /\ status'.state = "unavailable"
    BY <1>4, <1>6, <1>a, ShowsPlain, StatesAre
  <2> QED BY <1>1, <1>2, <1>3, <1>4, <1>6, <2>1, CheckKeeps
<1>7. CASE /\ CanRead /\ latest = installed /\ release' = None
           /\ Shows(Status("current", installed))
  <2>1. /\ status' \in StatusType /\ ~status'.canCancel /\ ~status'.canQueue
        /\ status'.state = "current" => status'.version = installed
    BY <1>4, <1>7, <1>a, ShowsCurrent DEF Mixed, None
  <2>2. None \in 0..MaxVersion /\ None <= latest
    BY <1>4, NoneTyped DEF None
  <2> QED BY <1>1, <1>2, <1>3, <1>4, <1>7, <2>1, <2>2, CheckKeeps
<1>8. CASE release' = release /\ Shows(Status("error", None))
  <2>1. /\ status' \in StatusType /\ status'.state = "error"
        /\ ~status'.canQueue /\ ~status'.canCancel
    BY <1>1, <1>8, BlankStatus DEF Typed, Idle
  <2> QED BY <1>1, <1>2, <1>3, <1>8, <2>1, CheckKeeps DEF Typed, RunTyped, Disk
<1> QED BY <1>5, <1>6, <1>7, <1>8 DEF CheckAnswered

(* The status is shown anew: "current" names what is on disk.               *)
LEMMA RefreshKeeps == ASSUME IInv, Refresh PROVE IInv'
<1> USE DEF IInv
<1>0. /\ UNCHANGED <<appVars, diskVars, askVars, modeVars, logVars, release, op, job, closing,
                     stopping>>
      /\ faults' \in 0..MaxFaults /\ installed \in 0..MaxVersion
  BY FaultTyped DEF Refresh, Typed, RunTyped, DiskTyped, NoFault
<1> USE DEF appVars, diskVars, askVars, worldVars, modeVars, logVars
<1>1. PICK read \in 0..MaxVersion : /\ status' = Snapshot(status, read)
                                    /\ installed # Mixed => read \in {installed, None}
  <2>1. CASE Shows(status)
    <3>1. ReadsTyped /\ (installed # Mixed => Reads = {installed})
      BY <1>0, SameReads DEF Typed
    <3> QED BY <2>1, <3>1 DEF Shows, ReadsTyped
  <2>2. CASE status' = Snapshot(status, None)
    BY <2>2, NoneTyped
  <2> QED BY <2>1, <2>2 DEF Refresh
<1>2. /\ status' \in StatusType
      /\ status.state # "current" => Alike(status', status)
      /\ status.state = "current" =>
            /\ ~status'.canQueue /\ ~status'.canCancel
            /\ status'.state = "current" => status'.version = installed
  <2>1. status \in StatusType /\ (status.state = "current" => installed # Mixed)
    BY DEF Typed, RunTyped, Shown, Disk
  <2>2. Follows(status', status, read)
    BY <1>1, <2>1, SnapshotIs
  <2> QED BY <1>1, <2>1, <2>2 DEF Follows
<1>3. Typed'
  BY <1>0, <1>2 DEF Typed, AppTyped, DiskTyped, AskTyped, ModeTyped, LogTyped, RunTyped
<1>4. Disk'
  BY <1>0 DEF Disk, PreparedKept
<1>5. Runs'
  BY <1>0, <1>2 DEF Runs, Shown, Alike
<1>6. Stage' /\ Turns' /\ Cancelled'
  BY <1>0 DEF Stage, Turns, Cancelled
<1>7. Shown'
  BY <1>0, <1>2 DEF Shown, Alike
<1> QED BY <1>3, <1>4, <1>5, <1>6, <1>7

LEMMA StartUpdateKeeps ==
    ASSUME IInv, StartUpdate, op = "none", release # None, status.canQueue,
           UNCHANGED <<appVars, worldVars, check, monitor, logVars, release, closing, stopping, faults>>,
           waiting' = "none"
    PROVE  IInv'
<1> USE DEF IInv, appVars, worldVars, logVars
<1>1. /\ release \in Version /\ release \in 0..MaxVersion /\ status.installed \in 0..MaxVersion
      /\ (~foreign => installed < release) /\ journal = None /\ orphan = "none" /\ check = "none"
  BY DEF Typed, RunTyped, DiskTyped, StatusType, Version, None, Shown
<1>2. /\ job' \in JobType /\ job'.version = release /\ ~job'.hot
      /\ ~job'.appClosed /\ ~job'.applyAttempted /\ ~job'.recovered /\ ~job'.retain
  BY <1>1, NewJob DEF StartUpdate, Await
<1>3. /\ status' \in StatusType /\ ~status'.canQueue /\ status'.state = "preparing"
  <2>1. ReadsTyped
    BY SameReads DEF Typed, StartUpdate, SameInstall
  <2> QED BY <1>1, <2>1, ShowsPlain, StatesAre DEF StartUpdate
<1>4. /\ op' = "announcePrepare" /\ prepared' = prepared \ {release} /\ ~stale' /\ ~cancelled'
      /\ stale' \in BOOLEAN /\ cancelled' \in BOOLEAN
      /\ UNCHANGED <<installed, journal, before, orphan, alive>>
  BY DEF StartUpdate, Await, SameInstall
<1>5. Typed'
  BY <1>1, <1>2, <1>3, <1>4, OpsAre DEF Typed, AppTyped, DiskTyped, AskTyped, ModeTyped, LogTyped, RunTyped
<1>6. Disk'
  BY <1>1, <1>2, <1>4 DEF Disk, PreparedKept
<1>7. Runs'
  BY <1>1, <1>2, <1>3, <1>4 DEF Runs, Reloaded, Open
<1>8. Stage'
  BY <1>1, <1>2, <1>4 DEF Stage, Fresh, Hot, Cancelables, Unpacked, Open, Done
<1>9. Shown'
  BY <1>3, <1>4 DEF Shown, Cancelables
<1>10. Turns' /\ Cancelled'
  BY <1>1, <1>4 DEF Turns, Cancelled
<1> QED BY <1>5, <1>6, <1>7, <1>8, <1>9, <1>10

LEMMA RequestQueueKeeps == ASSUME IInv, RequestQueue PROVE IInv'
<1> USE DEF IInv
<1>1. CASE release # None /\ status.canQueue /\ StartUpdate /\ UNCHANGED <<check, waiting>>
  BY <1>1, StartUpdateKeeps DEF RequestQueue
<1>2. CASE /\ release = None \/ ~status.canQueue
           /\ waiting' = "checking"
           /\ IF check = "none" THEN BeginCheck ELSE UNCHANGED <<check, status>>
           /\ UNCHANGED <<diskVars, modeVars, op, job>>
  <2>1. Idle /\ UNCHANGED <<release, faults>>
    BY <1>2 DEF RequestQueue, Idle, appVars
  <2>2. CASE check = "none" /\ BeginCheck
    <3>1. /\ status' \in StatusType /\ status'.state = "checking"
          /\ ~status'.canQueue /\ ~status'.canCancel
      BY <2>1, <2>2, BlankStatus DEF BeginCheck, Typed, Idle
    <3> QED BY <1>2, <2>1, <2>2, <3>1, CheckKeeps DEF BeginCheck, Typed, RunTyped, Disk
  <2>3. CASE check # "none" /\ UNCHANGED <<check, status>>
    <3>1. ~status.canQueue
      BY <2>3 DEF Shown
    <3> QED BY <1>2, <2>1, <2>3, <3>1, CheckKeeps DEF Typed, RunTyped, AskTyped, Disk
  <2> QED BY <1>2, <2>2, <2>3
<1> QED BY <1>1, <1>2 DEF RequestQueue

LEMMA ResumeQueueKeeps == ASSUME IInv, ResumeQueue PROVE IInv'
<1> USE DEF IInv
<1>1. CASE op = "none" /\ release # None /\ status.canQueue /\ StartUpdate
  BY <1>1, StartUpdateKeeps DEF ResumeQueue
<1>2. CASE UNCHANGED <<diskVars, modeVars, status, op, job>>
  <2>1. Idle /\ UNCHANGED <<release, faults, check>> /\ check = "none" /\ waiting' = "none"
    BY <1>2 DEF ResumeQueue, Idle, appVars, Turns
  <2>2. status.canQueue =>
          release # None /\ release = status.version /\ (~foreign => installed < release) /\ CanRead
    BY DEF Shown, CanRead
  <2> QED BY <1>2, <2>1, <2>2, CheckKeeps DEF Typed, RunTyped, Disk
<1> QED BY <1>1, <1>2 DEF ResumeQueue

LEMMA RequestCancelKeeps == ASSUME IInv, RequestCancel PROVE IInv'
<1> USE DEF IInv, RequestCancel, appVars, diskVars, askVars, worldVars, logVars
<1>1. op \in Cancelables
  BY DEF Shown
<1>2. /\ status' \in StatusType /\ ~status'.canQueue /\ ~status'.canCancel
      /\ status'.state = "preparing"
  <2>1. ReadsTyped /\ job.version \in 0..MaxVersion
    BY SameReads DEF Typed, RunTyped, JobType
  <2> QED BY <2>1, ShowsPlain, StatesAre
<1>3. Typed'
  BY <1>2 DEF Typed, AppTyped, DiskTyped, AskTyped, ModeTyped, LogTyped, RunTyped
<1>4. Disk'
  BY DEF Disk, PreparedKept
<1>5. Runs'
  BY <1>2 DEF Runs
<1>6. Stage' /\ Turns'
  BY DEF Stage, Turns
<1>7. Shown'
  BY <1>2 DEF Shown
<1>8. Cancelled'
  BY <1>1 DEF Cancelled, Cancelables, Past
<1> QED BY <1>3, <1>4, <1>5, <1>6, <1>7, <1>8

-----------------------------------------------------------------------------
(* The update moves on, and leaves the install root and the app alone.      *)

Advances ==
    /\ op \notin {"none", "recoverAgain"} /\ op' \in Ops \ {"none"}
    /\ job' \in JobType /\ job'.version = job.version /\ job'.prior = job.prior
    /\ job'.retain = job.retain /\ job'.recovered = job.recovered
    /\ job.applyAttempted => job'.applyAttempted
    /\ status' \in StatusType /\ closing' \in BOOLEAN /\ stopping' \in BOOLEAN
    /\ faults' \in 0..MaxFaults
    /\ UNCHANGED <<appVars, diskVars, askVars, modeVars, logVars, release>>

LEMMA AdvanceKeeps ==
    ASSUME IInv, Advances, Stage', Shown', cancelled => op' \notin Past,
           app = "running" /\ op' \in Reloaded => loaded = job.version,
           status'.state = "current" => status' = status
    PROVE  IInv'
<1> USE DEF IInv, Advances, appVars, diskVars, askVars, worldVars, modeVars, logVars
<1>1. Typed'
  BY DEF Typed, AppTyped, DiskTyped, AskTyped, ModeTyped, LogTyped, RunTyped
<1>2. Disk'
  BY DEF Disk, PreparedKept
<1>3. Runs'
  BY DEF Runs
<1>4. Turns' /\ Cancelled'
  BY DEF Turns, Cancelled
<1> QED BY <1>1, <1>2, <1>3, <1>4

LEMMA StepTypes ==
    ASSUME Typed
    PROVE  /\ job \in JobType /\ status \in StatusType /\ closing \in BOOLEAN
           /\ stopping \in BOOLEAN /\ job.version \in 0..MaxVersion /\ faults \in 0..MaxFaults
           /\ TRUE \in BOOLEAN
  BY DEF Typed, RunTyped, JobType

(* What an announcement of the update shows.                                *)
LEMMA StepShows ==
    ASSUME Typed, UNCHANGED <<installed, journal, before>>
    PROVE  /\ ReadsTyped
           /\ \A s \in States \ {"current"} :
                 /\ Shows(Status(s, job.version)) =>
                       /\ status' \in StatusType /\ status'.state = s
                       /\ status'.version = job.version
                       /\ ~status'.canQueue /\ ~status'.canCancel
                 /\ Shows(Cancellable(s, job.version)) =>
                       status' \in StatusType /\ status'.state = s /\ ~status'.canQueue
           /\ Shows(Queueable(job.version)) =>
                 /\ status' \in StatusType /\ status'.state = "available"
                 /\ status'.version = job.version /\ ~status'.canCancel
<1>1. ReadsTyped /\ job.version \in 0..MaxVersion
  BY SameReads, StepTypes DEF Typed
<1>2. "available" \in States \ {"current"}
  BY StatesAre
<1> QED BY <1>1, <1>2, ShowsPlain

LEMMA FindKeeps == ASSUME IInv, FindBusy \/ FindIdle PROVE IInv'
<1>0. /\ status' \in StatusType /\ (status'.state = "current" => status' = status)
      /\ status' = status \/ ~status'.canQueue
  <2>1. UNCHANGED <<installed, journal, before>> /\ "queued" \in States
    BY StatesAre DEF FindBusy, FindIdle, diskVars
  <2> QED BY <2>1, StepTypes, StepShows DEF FindBusy, FindIdle, IInv
<1>1. Advances
  BY <1>0, StepTypes, OpsAre DEF FindBusy, FindIdle, Advances, IInv, Quiet, NoFault, Await
<1>2. Stage'
  BY DEF IInv, FindBusy, FindIdle, Stage, Await, diskVars, Quiet, askVars, worldVars,
     Fresh, Hot, Cancelables, Unpacked, Open, Done
<1>3. Shown'
  BY <1>0 DEF IInv, FindBusy, FindIdle, Shown, Await, Cancelables, Open
<1>4. op' \in {"announceWaiting", "confirm"}
  BY DEF FindBusy, FindIdle, Await
<1> QED BY <1>0, <1>1, <1>2, <1>3, <1>4, AdvanceKeeps DEF Past, Reloaded, Open

(* A cancelled update, or the end of the session.                           *)
LEMMA WithdrawKeeps ==
    ASSUME IInv, Withdraw, op \in Cancelables, faults' \in 0..MaxFaults,
           UNCHANGED <<appVars, askVars, modeVars, logVars, release, closing, stopping>>
    PROVE  IInv'
<1> USE DEF IInv, appVars, askVars, worldVars, modeVars, logVars
<1>1. /\ prepared' = prepared \ {job.version} /\ job' = job
      /\ UNCHANGED <<installed, journal, before, orphan>>
      /\ \/ stopping /\ op' = "none" /\ status' = status
         \/ op' = "announceCancelled" /\ Shows(Queueable(job.version))
  BY DEF Withdraw, SameInstall
<1>2. /\ ~job.applyAttempted /\ ~job.recovered /\ journal = None /\ orphan = "none"
      /\ release = job.version /\ (~foreign => installed < job.version) /\ ~job.appClosed /\ ~job.hot
      /\ job.version # None /\ op # "none"
  BY DEF Stage, Fresh, Hot, Cancelables, Typed, RunTyped, Version, None
<1>3. check = "none" /\ waiting = "none"
  BY <1>2 DEF Turns, Typed, AskTyped
<1>4. /\ status' \in StatusType /\ (status'.canCancel => stopping /\ op' = "none")
      /\ status'.state # "current" /\ (status'.canQueue => status'.version = job.version)
      /\ (status'.canQueue => op' = "announceCancelled")
  <2>1. CASE status' = status /\ stopping /\ op' = "none"
    BY <2>1 DEF Shown, Cancelables, Open, Typed, RunTyped
  <2>2. CASE Shows(Queueable(job.version)) /\ op' = "announceCancelled"
    BY <1>1, <2>2, StepShows
  <2> QED BY <1>1, <2>1, <2>2
<1>5. Typed'
  BY <1>1, <1>4, OpsAre DEF Typed, AppTyped, DiskTyped, AskTyped, ModeTyped, LogTyped, RunTyped, Cancelables
<1>6. Disk'
  BY <1>1, <1>2 DEF Disk, PreparedKept
<1>7. Runs'
  BY <1>1, <1>2, <1>4 DEF Runs, Reloaded, Open
<1>8. Stage'
  BY <1>1, <1>2 DEF Stage, Fresh, Hot, Cancelables, Unpacked, Open, Done
<1>9. Shown'
  BY <1>1, <1>2, <1>3, <1>4 DEF Shown
<1>10. Turns' /\ Cancelled'
  BY <1>1, <1>3 DEF Turns, Cancelled, Past
<1> QED BY <1>5, <1>6, <1>7, <1>8, <1>9, <1>10

LEMMA LoopKeeps ==
    ASSUME IInv, Loop, op \in {"announceQueued", "announceWaiting", "confirm"}, NoFault, Quiet,
           UNCHANGED <<appVars, release, closing, stopping>>
    PROVE  IInv'
<1>1. CASE Withdraw
  BY <1>1, WithdrawKeeps, StepTypes DEF NoFault, Quiet, Cancelables, IInv
<1>2. CASE Await("query", job) /\ UNCHANGED <<status, diskVars>>
  <2>1. Advances
    BY <1>2, StepTypes, OpsAre DEF Advances, IInv, Quiet, NoFault, Await
  <2>2. Stage'
    BY <1>2 DEF IInv, Stage, Await, diskVars, Quiet, askVars, worldVars, Fresh, Hot, Cancelables, Unpacked, Open, Done
  <2>3. Shown'
    BY <1>2 DEF IInv, Shown, Await, diskVars, Quiet, askVars, worldVars, Cancelables, Open
  <2> QED BY <1>2, <2>1, <2>2, <2>3, AdvanceKeeps DEF Past, Reloaded, Open, Await
<1> QED BY <1>1, <1>2 DEF Loop

LEMMA AnnouncedWaitKeeps == ASSUME IInv, AnnouncedWait PROVE IInv'
  BY LoopKeeps DEF AnnouncedWait, Announced

LEMMA BusyAgainKeeps == ASSUME IInv, BusyAgain PROVE IInv'
  BY LoopKeeps DEF BusyAgain

LEMMA StillIdleKeeps == ASSUME IInv, StillIdle PROVE IInv'
<1>1. CASE Withdrawn /\ Withdraw
  BY <1>1, WithdrawKeeps, StepTypes DEF StillIdle, NoFault, Quiet, Cancelables, IInv
<1>2. CASE /\ ~Withdrawn /\ UNCHANGED diskVars
           /\ \/ /\ Shows(Status("unavailable", job.version))
                 /\ Await("announceUnwritable", job)
              \/ Shows(Status("updating", job.version)) /\ Await("announceHot", job)
              \/ Shows(Status("closing", job.version)) /\ Await("announceClosing", job)
  <2>1. /\ op' \in {"announceUnwritable", "announceHot", "announceClosing"} /\ job' = job
        /\ status' \in StatusType /\ ~status'.canQueue /\ ~status'.canCancel
        /\ status'.state # "current"
    <3>1. UNCHANGED <<installed, journal, before>>
      BY <1>2 DEF diskVars
    <3> QED BY <1>2, <3>1, StepShows, StatesAre DEF Await, IInv
  <2>2. Advances
    BY <1>2, <2>1, StepTypes, OpsAre DEF StillIdle, Advances, IInv, Quiet, NoFault
  <2>3. Stage'
    BY <1>2, <2>1 DEF IInv, StillIdle, Stage, diskVars, Quiet, askVars, worldVars, Fresh, Hot, Cancelables, Unpacked, Open, Done
  <2>4. Shown'
    BY <2>1 DEF Shown
  <2>5. ~cancelled
    BY <1>2 DEF IInv, Cancelled, Withdrawn
  <2> QED BY <2>1, <2>2, <2>3, <2>4, <2>5, AdvanceKeeps DEF Reloaded, Open
<1> QED BY <1>1, <1>2 DEF StillIdle

LEMMA AnnouncedCallKeeps == ASSUME IInv, AnnouncedCall PROVE IInv'
<1> USE DEF AnnouncedCall, Announced, Await, Quiet, askVars, worldVars
<1>1. /\ job' \in JobType /\ job'.version = job.version /\ job'.prior = job.prior
      /\ job'.retain = job.retain /\ job'.recovered = job.recovered
      /\ job'.appClosed = job.appClosed
      /\ (job.applyAttempted => job'.applyAttempted)
      /\ (op = "announceApply" => job'.applyAttempted)
      /\ (op # "announceApply" => job'.applyAttempted = job.applyAttempted)
      /\ (op # "announceHot" => job'.hot = job.hot)
  <2>1. 1 \in 0..HandoffAttempts
    BY BoundAssumption
  <2>2. job \in JobType
    BY StepTypes DEF IInv
  <2>3. CASE op = "announcePrepare" /\ job' = job
    BY <2>2, <2>3
  <2>4. CASE op = "announceHot" /\ job' = [job EXCEPT !.hot = TRUE]
    BY <2>2, <2>4, HotSet
  <2>5. CASE op = "announceApply" /\ job' = [job EXCEPT !.applyAttempted = TRUE]
    BY <2>2, <2>5, AttemptedSet
  <2>6. CASE op = "announceCurrent" /\ job' = [job EXCEPT !.attempt = 1]
    BY <2>1, <2>2, <2>6, AttemptSet DEF JobIs
  <2>7. CASE op = "announceRestart" /\ job' = [job EXCEPT !.relaunchAttempted = TRUE]
    BY <2>2, <2>7, RelaunchSet DEF JobIs
  <2> QED BY <2>3, <2>4, <2>5, <2>6, <2>7
<1>2. Advances
  BY <1>1, StepTypes, OpsAre DEF Advances, IInv, NoFault
<1>3. Stage'
  BY <1>1 DEF IInv, Stage, diskVars, Fresh, Hot, Cancelables, Unpacked, Open, Done
<1>4. Shown'
  BY <1>1 DEF IInv, Shown, Stage, diskVars, Cancelables, Open
<1>5. cancelled => op' \notin Past
  BY DEF IInv, Cancelled, Past
<1>6. app = "running" /\ op' \in Reloaded => loaded = job.version
  BY DEF IInv, Runs, Reloaded, Open
<1> QED BY <1>2, <1>3, <1>4, <1>5, <1>6, AdvanceKeeps

LEMMA AnnouncedClosingKeeps == ASSUME IInv, AnnouncedClosing PROVE IInv'
<1> USE DEF AnnouncedClosing, Announced, Await, Quiet, askVars, worldVars
<1>1. Advances
  BY StepTypes, OpsAre DEF Advances, IInv, NoFault
<1>2. Stage'
  BY DEF IInv, Stage, diskVars, Fresh, Hot, Cancelables, Unpacked, Open, Done
<1>3. Shown'
  BY DEF IInv, Shown, diskVars, Cancelables, Open
<1>4. cancelled => op' \notin Past
  BY DEF IInv, Cancelled, Past
<1> QED BY <1>1, <1>2, <1>3, <1>4, AdvanceKeeps DEF Reloaded, Open

LEMMA AnnouncedInstallKeeps == ASSUME IInv, AnnouncedInstall PROVE IInv'
<1> USE DEF AnnouncedInstall, Announced, Await, Quiet, askVars, worldVars
<1>1. /\ job' \in JobType /\ job'.version = job.version /\ job'.prior = job.prior
      /\ job'.retain = job.retain /\ job'.recovered = job.recovered
      /\ job'.appClosed = job.appClosed /\ job'.applyAttempted /\ job'.hot = job.hot
  BY StepTypes, AttemptedSet DEF IInv
<1>2. Advances
  BY <1>1, StepTypes, OpsAre DEF Advances, IInv, NoFault
<1>3. Stage'
  BY <1>1 DEF IInv, Stage, diskVars, Fresh, Hot, Cancelables, Unpacked, Open, Done
<1>4. Shown'
  BY DEF IInv, Shown, diskVars, Cancelables, Open
<1>5. cancelled => op' \notin Past
  BY DEF IInv, Cancelled, Past
<1>6. app = "running" /\ op' \in Reloaded => loaded = job.version
  BY DEF IInv, Runs, Reloaded, Open
<1> QED BY <1>2, <1>3, <1>4, <1>5, <1>6, AdvanceKeeps

-----------------------------------------------------------------------------
(* The calls of the update, each with its ways to fail.                     *)

\* A failure that leaves everything outside as it was, the app maybe gone.
LEMMA PlainFailKeeps ==
    ASSUME IInv, Fail(FALSE), op \notin Catching \cup {"none"}, faults' \in 0..MaxFaults,
           quitting' \in BOOLEAN,
           UNCHANGED <<app, loaded, diskVars, askVars, modeVars, logVars, release, stopping>>
    PROVE  IInv'
<1> USE DEF IInv, askVars, worldVars, modeVars, logVars
<1>1. Failed
  <2>1. ReadsTyped
    BY SameReads DEF Typed, diskVars
  <2> QED BY <2>1, FailFails
<1>2. Stage' /\ Shown' /\ Turns' /\ Cancelled'
  BY <1>1, FailedKeeps DEF diskVars
<1>3. Disk' /\ Runs'
  BY <1>1, FailedDisk, FailedRuns DEF diskVars
<1>4. Typed'
  BY <1>1, OpsAre DEF Typed, AppTyped, DiskTyped, AskTyped, ModeTyped, LogTyped, RunTyped,
     Failed, Catching, diskVars
<1> QED BY <1>2, <1>3, <1>4

LEMMA AnnouncementFailsKeeps == ASSUME IInv, AnnouncementFails PROVE IInv'
<1>1. faults' \in 0..MaxFaults /\ quitting \in BOOLEAN
  BY FaultTyped DEF IInv, Typed, AppTyped, AnnouncementFails
<1> QED BY <1>1, PlainFailKeeps DEF AnnouncementFails, Quiet, appVars, Catching

LEMMA PrepareKeeps == ASSUME IInv, Prepare PROVE IInv'
<1> USE DEF IInv
<1>0. /\ faults' \in 0..MaxFaults /\ quitting \in BOOLEAN /\ job.version \in Version
      /\ op = "prepare" /\ Quiet /\ UNCHANGED <<appVars, release, stopping>>
  BY FaultTyped DEF Typed, AppTyped, RunTyped, Prepare, NoFault
<1>1. CASE Withdrawn /\ Withdraw /\ UNCHANGED closing
  BY <1>0, <1>1, WithdrawKeeps DEF Quiet, Cancelables
<1>2. CASE /\ ~Withdrawn /\ prepared' = prepared \cup {job.version}
           /\ Shows(Cancellable("queued", job.version))
           /\ Await("announceQueued", job) /\ SameInstall /\ UNCHANGED <<orphan, closing>>
  <2> USE <1>0, <1>2 DEF Await, SameInstall, Quiet, appVars, askVars, worldVars, modeVars, logVars
  <2>1. /\ status' \in StatusType /\ ~status'.canQueue /\ status'.state = "queued"
    BY StepShows, StatesAre
  <2>2. Typed'
    BY <2>1, OpsAre DEF Typed, AppTyped, DiskTyped, AskTyped, ModeTyped, LogTyped, RunTyped
  <2>3. Disk'
    BY DEF Disk, PreparedKept
  <2>4. Runs'
    BY <2>1 DEF Runs, Reloaded, Open
  <2>5. Stage'
    BY DEF Stage, Fresh, Hot, Cancelables, Unpacked, Open, Done
  <2>6. Shown'
    BY <2>1 DEF Shown, Cancelables
  <2>7. Turns' /\ Cancelled'
    BY DEF Turns, Cancelled, Past
  <2> QED BY <2>2, <2>3, <2>4, <2>5, <2>6, <2>7
<1>3. CASE Fail(FALSE) /\ UNCHANGED diskVars
  BY <1>0, <1>3, PlainFailKeeps DEF Quiet, appVars, Catching
<1>4. CASE /\ Fail(TRUE) /\ orphan = "none" /\ orphan' = "prepare"
           /\ SameInstall /\ UNCHANGED prepared
  <2> USE <1>0, <1>4 DEF SameInstall, Quiet, appVars, askVars, worldVars, modeVars, logVars
  <2>1. Failed
    BY FailFails, StepShows DEF Catching
  <2>2. ~job.recovered
    BY DEF Stage, Fresh, Cancelables
  <2>3. Typed'
    BY <2>1, OpsAre DEF Typed, AppTyped, DiskTyped, AskTyped, ModeTyped, LogTyped, RunTyped,
       Failed, Catching
  <2>4. Disk'
    BY <2>1, <2>2 DEF Disk, Failed, PreparedKept
  <2>5. Runs'
    <3>1. op' \notin Reloaded
      BY <2>1 DEF Failed, Catching, Reloaded, Open
    <3>2. status'.state # "current"
      BY <2>1 DEF Failed, Shown, Open, Catching, Cancelables
    <3> QED BY <3>1, <3>2 DEF Runs
  <2>6. Stage' /\ Shown' /\ Turns' /\ Cancelled'
    BY <2>1, FailedKeeps DEF Catching, Open
  <2> QED BY <2>3, <2>4, <2>5, <2>6
<1> QED BY <1>1, <1>2, <1>3, <1>4 DEF Prepare

LEMMA HotReloadKeeps == ASSUME IInv, HotReload PROVE IInv'
<1> USE DEF IInv
<1>0. /\ faults' \in 0..MaxFaults /\ quitting \in BOOLEAN /\ job.version \in Version
      /\ job.version \in 0..MaxVersion
      /\ op = "hotReload" /\ Quiet /\ UNCHANGED <<app, quitting, diskVars, release, stopping>>
  BY FaultTyped, VersionIs DEF Typed, AppTyped, RunTyped, HotReload, NoFault
<1>1. /\ journal = None /\ orphan = "none" /\ (~foreign => installed < job.version) /\ job.version <= latest
      /\ installed \in Nat /\ latest \in Nat /\ job.version \in Nat
  BY <1>0 DEF Stage, Fresh, Hot, Disk, Typed, DiskTyped, AskTyped, Version
<1>2. CASE /\ Reloads(job.version) /\ Shows(Status("updating", job.version))
           /\ Await("announceApply", job) /\ UNCHANGED closing
  <2> USE <1>0, <1>2 DEF Await, Quiet, diskVars, askVars, worldVars, modeVars, logVars, Reloads
  <2>1. /\ status' \in StatusType /\ ~status'.canQueue /\ ~status'.canCancel
        /\ status'.state = "updating"
    BY StepShows, StatesAre
  <2>2. Typed'
    BY <2>1, OpsAre DEF Typed, AppTyped, DiskTyped, AskTyped, ModeTyped, LogTyped, RunTyped
  <2>3. Disk'
    BY DEF Disk, PreparedKept
  <2>4. Runs'
    BY <1>1, <2>1 DEF Runs
  <2>5. Stage'
    BY DEF Stage, Fresh, Hot, Cancelables, Unpacked, Open, Done
  <2>6. Shown'
    BY <2>1 DEF Shown
  <2>7. Turns' /\ Cancelled'
    BY DEF Turns, Cancelled, Past
  <2> QED BY <2>2, <2>3, <2>4, <2>5, <2>6, <2>7
<1>3. CASE Fail(FALSE) /\ UNCHANGED loaded
  BY <1>0, <1>3, PlainFailKeeps DEF Quiet, Catching
<1>4. CASE Fail(FALSE) /\ MayReload(job.version)
  <2> USE <1>0, <1>4 DEF Quiet, diskVars, askVars, worldVars, modeVars, logVars
  <2>1. Failed
    BY FailFails, StepShows DEF Catching
  <2>2. loaded' \in 0..MaxVersion /\ (app = "running" => loaded' = loaded \/ loaded' = job.version)
    BY DEF MayReload, Typed, AppTyped
  <2>3. Typed'
    BY <2>1, <2>2, OpsAre DEF Typed, AppTyped, DiskTyped, AskTyped, ModeTyped, LogTyped, RunTyped,
       Failed, Catching
  <2>4. Disk'
    BY <2>1, FailedDisk DEF Catching
  <2>5. Runs'
    <3>1. op' \notin Reloaded
      BY <2>1 DEF Failed, Catching, Reloaded, Open
    <3>2. status'.state # "current"
      BY <2>1 DEF Failed, Shown, Open
    <3> QED BY <1>1, <2>2, <3>1, <3>2 DEF Runs
  <2>6. Stage' /\ Shown' /\ Turns' /\ Cancelled'
    BY <2>1, FailedKeeps DEF Catching
  <2> QED BY <2>3, <2>4, <2>5, <2>6
<1> QED BY <1>2, <1>3, <1>4 DEF HotReload

LEMMA CloseKeeps == ASSUME IInv, Close PROVE IInv'
<1> USE DEF IInv
<1>0. /\ faults' \in 0..MaxFaults /\ quitting \in BOOLEAN /\ quitting' \in BOOLEAN
      /\ op = "close" /\ Quiet /\ UNCHANGED <<loaded, diskVars, release, stopping>>
  BY FaultTyped DEF Typed, AppTyped, RunTyped, Close, NoFault
<1>1. CASE /\ app' = "gone" /\ UNCHANGED <<quitting, closing>>
           /\ Shows(Status("updating", job.version))
           /\ Await("announceInstall", [job EXCEPT !.appClosed = TRUE])
  <2> USE <1>0, <1>1 DEF Await, Quiet, diskVars, askVars, worldVars, modeVars, logVars
  <2>1. /\ status' \in StatusType /\ ~status'.canQueue /\ ~status'.canCancel
        /\ status'.state = "updating"
    BY StepShows, StatesAre
  <2>2. /\ job' \in JobType /\ job'.version = job.version /\ job'.prior = job.prior
        /\ job'.hot = job.hot /\ job'.appClosed /\ job'.applyAttempted = job.applyAttempted
        /\ job'.recovered = job.recovered /\ job'.retain = job.retain
    BY StepTypes, ClosedSet
  <2>3. Typed'
    BY <2>1, <2>2, OpsAre DEF Typed, AppTyped, DiskTyped, AskTyped, ModeTyped, LogTyped, RunTyped
  <2>4. Disk'
    BY <2>2 DEF Disk, PreparedKept
  <2>5. Runs'
    BY DEF Runs
  <2>6. Stage'
    BY <2>2 DEF Stage, Fresh, Hot, Cancelables, Unpacked, Open, Done
  <2>7. Shown'
    BY <2>1 DEF Shown
  <2>8. Turns' /\ Cancelled'
    BY DEF Turns, Cancelled, Past
  <2> QED BY <2>3, <2>4, <2>5, <2>6, <2>7, <2>8
<1>2. CASE Fail(FALSE) /\ UNCHANGED app
  BY <1>0, <1>2, PlainFailKeeps DEF Quiet, Catching
<1> QED BY <1>1, <1>2 DEF Close

LEMMA ApplyKeeps == ASSUME IInv, Apply PROVE IInv'
<1> USE DEF IInv
<1>0. /\ faults' \in 0..MaxFaults /\ job.version \in Version /\ job.version \in 0..MaxVersion
      /\ op = "apply" /\ UNCHANGED <<appVars, prepared, latest, check, waiting, monitor, modeVars,
                                      logVars, release, stopping>>
  BY FaultTyped, VersionIs DEF Typed, RunTyped, Apply, NoFault
<1>1. /\ journal = None /\ orphan = "none" /\ (~foreign => installed < job.version) /\ job.version <= latest
      /\ installed \in Nat /\ latest \in Nat /\ job.version \in Nat /\ loaded \in Nat
      /\ job.applyAttempted /\ ~job.recovered /\ job.version \in prepared
      /\ (app = "running" => loaded = job.version) /\ installed \in Version
  BY <1>0 DEF Stage, Disk, Typed, DiskTyped, AskTyped, AppTyped, Version, Unpacked, Runs,
     Reloaded, Mixed, None
<1>2. ~status.canQueue /\ ~status.canCancel /\ status.state # "current"
  BY <1>0 DEF Shown, Cancelables, Open
<1>3. None \in 0..MaxVersion /\ None \notin Version /\ None = 0 /\ Mixed = 0
  BY NoneTyped, VersionIs DEF None, Mixed
<1> USE DEF appVars, askVars, worldVars, modeVars, logVars
<1>4. CASE /\ Applies(job.version) /\ foreign' = FALSE /\ Await("verify", job)
           /\ UNCHANGED <<orphan, status, closing>>
  <2> USE <1>0, <1>4 DEF Await, Applies
  <2>1. Typed'
    <3>1. foreign' \in BOOLEAN
      BY ZenonT(10)
    <3> QED BY <1>3, <3>1, OpsAre DEF Typed, AppTyped, DiskTyped, AskTyped, ModeTyped, LogTyped, RunTyped
  <2>2. Disk'
    BY <1>1, <1>3 DEF Disk, PreparedKept, Version
  <2>3. Runs'
    BY <1>1, <1>2 DEF Runs
  <2>4. Stage'
    BY <1>1 DEF Stage, Fresh, Hot, Cancelables, Unpacked, Open, Done
  <2>5. Shown'
    BY <1>2 DEF Shown
  <2>6. Turns' /\ Cancelled'
    BY DEF Turns, Cancelled, Past
  <2> QED BY <2>1, <2>2, <2>3, <2>4, <2>5, <2>6
<1>5. ASSUME NEW u \in BOOLEAN, Fail(u), ReadsTyped, UNCHANGED foreign
      PROVE  /\ Failed /\ Stage' /\ Shown' /\ Turns' /\ Cancelled'
             /\ op' \notin Reloaded /\ status'.state # "current"
             /\ (u => job'.retain) /\ (job'.retain \/ op' = "recoverAgain")
  <2>1. Failed /\ (u => job'.retain)
    BY <1>0, <1>1, <1>5, FailFails DEF Catching
  <2>2. Stage' /\ Shown' /\ Turns' /\ Cancelled'
    BY <1>0, <1>5, <2>1, FailedKeeps DEF Catching, Open
  <2>3. op' \notin Reloaded
    BY <2>1 DEF Failed, Catching, Reloaded, Open
  <2>4. status'.state # "current"
    BY <1>2, <2>1 DEF Failed
  <2>5. job'.retain \/ op' = "recoverAgain"
    BY <1>1, <2>1 DEF Failed
  <2> QED BY <2>1, <2>2, <2>3, <2>4, <2>5
<1>6. ASSUME Fail(FALSE), UNCHANGED <<orphan, foreign>>, SameInstall PROVE IInv'
  BY <1>0, <1>6, PlainFailKeeps DEF Catching, SameInstall, diskVars, Typed, AppTyped
<1>7. ASSUME Fail(FALSE), UNCHANGED <<orphan, foreign>>, Applies(job.version) PROVE IInv'
  <2> USE <1>0, <1>7 DEF Applies
  <2>0. /\ Failed /\ Stage' /\ Shown' /\ Turns' /\ Cancelled'
        /\ op' \notin Reloaded /\ status'.state # "current"
        /\ (job'.retain \/ op' = "recoverAgain")
    <3>1. ReadsTyped
      BY <1>1, <1>3 DEF ReadsTyped, Reads, Version
    <3> QED BY <1>5, <3>1
  <2>1. Typed'
    BY <1>3, <2>0, OpsAre DEF Typed, AppTyped, DiskTyped, AskTyped, ModeTyped, LogTyped, RunTyped,
       Failed, Catching
  <2>2. Disk'
    BY <1>1, <1>3, <2>0 DEF Disk, PreparedKept, Failed
  <2>3. Runs'
    BY <1>1, <2>0 DEF Runs
  <2> QED BY <2>0, <2>1, <2>2, <2>3
<1>8. ASSUME Fail(FALSE), UNCHANGED <<orphan, foreign>>, LeavesPending(job.version) PROVE IInv'
  <2> USE <1>0, <1>8 DEF LeavesPending
  <2>0. /\ Failed /\ Stage' /\ Shown' /\ Turns' /\ Cancelled'
        /\ op' \notin Reloaded /\ status'.state # "current"
        /\ (job'.retain \/ op' = "recoverAgain")
    <3>1. ReadsTyped
      BY <1>1, <1>3 DEF ReadsTyped, Reads, Version
    <3> QED BY <1>5, <3>1
  <2>1. Typed'
    BY <1>3, <2>0, OpsAre DEF Typed, AppTyped, DiskTyped, AskTyped, ModeTyped, LogTyped, RunTyped,
       Failed, Catching
  <2>2. Disk'
    BY <1>1, <1>3, <2>0 DEF Disk, PreparedKept, Failed
  <2>3. Runs'
    BY <1>1, <1>3, <2>0 DEF Runs, Version
  <2> QED BY <2>0, <2>1, <2>2, <2>3
<1>9. ASSUME Fail(TRUE), orphan' = "apply", UNCHANGED foreign, SameInstall PROVE IInv'
  <2> USE <1>0, <1>9 DEF SameInstall
  <2>0. /\ Failed /\ Stage' /\ Shown' /\ Turns' /\ Cancelled'
        /\ op' \notin Reloaded /\ status'.state # "current"
        /\ job'.retain /\ (job'.retain \/ op' = "recoverAgain")
    BY <1>5, StepShows
  <2>1. Typed'
    BY <2>0, OpsAre DEF Typed, AppTyped, DiskTyped, AskTyped, ModeTyped, LogTyped, RunTyped,
       Failed, Catching
  <2>2. Disk'
    BY <1>1, <1>3, <2>0 DEF Disk, PreparedKept, Failed
  <2>3. Runs'
    BY <1>1, <2>0 DEF Runs, Failed
  <2> QED BY <2>0, <2>1, <2>2, <2>3
<1> QED BY <1>4, <1>6, <1>7, <1>8, <1>9 DEF Apply

LEMMA VerifyKeeps == ASSUME IInv, Verify PROVE IInv'
<1> USE DEF IInv
<1>0. /\ faults' \in 0..MaxFaults /\ job.version \in Version /\ job.version \in 0..MaxVersion
      /\ op = "verify" /\ UNCHANGED <<appVars, prepared, askVars, modeVars, logVars, release, stopping>>
  BY FaultTyped, VersionIs DEF Typed, RunTyped, Verify, NoFault
<1>1. /\ journal = None /\ orphan = "none" /\ (~foreign => installed = job.version)
      /\ job.applyAttempted /\ ~job.recovered
      /\ (app = "running" => loaded = job.version)
  BY <1>0 DEF Stage, Runs, Reloaded
<1>2. ~status.canQueue /\ ~status.canCancel /\ status.state # "current"
  BY <1>0 DEF Shown, Cancelables, Open
<1> USE DEF appVars, askVars, worldVars, modeVars, logVars
<1>3. CASE /\ Settles /\ UNCHANGED <<orphan, closing>>
           /\ \/ /\ job.appClosed /\ Shows(Status("restarting", job.version))
                 /\ Await("announceRestart", [job EXCEPT !.recovered = TRUE])
              \/ /\ ~job.appClosed /\ UNCHANGED status
                 /\ Await("probe", [job EXCEPT !.recovered = TRUE])
  <2> USE <1>0, <1>3 DEF Await
  <2>1. UNCHANGED <<installed, journal, before>>
    BY <1>1 DEF Settles, SameInstall
  <2>2. /\ job' \in JobType /\ job'.version = job.version /\ job'.prior = job.prior
        /\ job'.hot = job.hot /\ job'.appClosed = job.appClosed
        /\ job'.applyAttempted = job.applyAttempted /\ job'.recovered /\ job'.retain = job.retain
    <3>1. job \in JobType
      BY StepTypes
    <3>2. job' = [job EXCEPT !.recovered = TRUE]
      OBVIOUS
    <3> HIDE <1>0, <1>3 DEF Await
    <3> QED BY <3>1, <3>2, RecoveredSet
  <2>3. /\ status' \in StatusType /\ ~status'.canQueue /\ ~status'.canCancel
        /\ status'.state # "current"
    BY <1>2, <2>1, StepTypes, StepShows, StatesAre
  <2>4. Typed'
    BY <2>1, <2>2, <2>3, OpsAre DEF Typed, AppTyped, DiskTyped, AskTyped, ModeTyped, LogTyped, RunTyped
  <2>5. Disk'
    BY <1>1, <2>1, <2>2 DEF Disk, PreparedKept
  <2>6. Runs'
    BY <1>1, <2>1, <2>2, <2>3 DEF Runs
  <2>7. Stage'
    BY <1>1, <2>1, <2>2 DEF Stage, Fresh, Hot, Cancelables, Unpacked, Open, Done
  <2>8. Shown'
    BY <2>3 DEF Shown
  <2>9. Turns' /\ Cancelled'
    BY DEF Turns, Cancelled, Past
  <2> QED BY <2>4, <2>5, <2>6, <2>7, <2>8, <2>9
<1>4. CASE Fail(FALSE) /\ SameInstall /\ UNCHANGED orphan
  BY <1>0, <1>4, PlainFailKeeps DEF Catching, SameInstall, diskVars, Typed, AppTyped
<1>5. CASE Fail(TRUE) /\ orphan' = "recover" /\ SameInstall
  <2> USE <1>0, <1>5 DEF SameInstall
  <2>1. Failed
    BY FailFails, StepShows DEF Catching
  <2>2. Typed'
    BY <2>1, OpsAre DEF Typed, AppTyped, DiskTyped, AskTyped, ModeTyped, LogTyped, RunTyped,
       Failed, Catching
  <2>3. Disk'
    BY <1>1, <2>1 DEF Disk, PreparedKept, Failed
  <2>4. Runs'
    <3>1. op' \notin Reloaded
      BY <2>1 DEF Failed, Catching, Reloaded, Open
    <3>2. status'.state # "current"
      BY <1>2, <2>1 DEF Failed
    <3> QED BY <3>1, <3>2 DEF Runs
  <2>5. Stage' /\ Shown' /\ Turns' /\ Cancelled'
    BY <2>1, FailedKeeps DEF Catching, Open
  <2> QED BY <2>2, <2>3, <2>4, <2>5
<1> QED BY <1>3, <1>4, <1>5 DEF Verify

LEMMA ProbeKeeps == ASSUME IInv, Probe PROVE IInv'
<1> USE DEF IInv
<1>0. /\ faults' \in 0..MaxFaults /\ job.version \in Version
      /\ op = "probe" /\ UNCHANGED <<appVars, diskVars, askVars, modeVars, notice, stopping>>
  BY FaultTyped DEF Typed, RunTyped, Probe, NoFault
<1>1. CASE /\ release' = None /\ confirmed' = confirmed \cup {job.version}
           /\ Shows(Status("current", job.version)) /\ Await("announceCurrent", job)
           /\ UNCHANGED closing
  <2> USE <1>0, <1>1 DEF Await, appVars, diskVars, askVars, worldVars, modeVars
  <2>1. /\ status' \in StatusType /\ ~status'.canQueue /\ ~status'.canCancel
        /\ status'.state = "current" => status'.version = installed
    <3>1. installed # Mixed /\ job.version \in 0..MaxVersion
      BY DEF Stage, Done, Open, Disk, Typed, RunTyped, JobType
    <3> QED BY <3>1, ShowsCurrent DEF Typed
  <2>2. release' \in 0..MaxVersion /\ release' <= latest
    BY NoneTyped DEF None, Typed, AskTyped, Version
  <2>3. Typed'
    BY <2>1, <2>2, OpsAre DEF Typed, AppTyped, DiskTyped, AskTyped, ModeTyped, LogTyped, RunTyped
  <2>4. Disk'
    BY <2>2 DEF Disk, PreparedKept
  <2>5. Runs'
    BY <2>1 DEF Runs, Stage, Done, Reloaded, Open
  <2>6. Stage'
    BY DEF Stage, Fresh, Hot, Cancelables, Unpacked, Open, Done
  <2>7. Shown'
    BY <2>1 DEF Shown, Stage, Disk, Done, Open
  <2>8. Turns' /\ Cancelled'
    BY DEF Turns, Cancelled, Past
  <2> QED BY <2>3, <2>4, <2>5, <2>6, <2>7, <2>8
<1>2. CASE Fail(FALSE) /\ UNCHANGED <<release, confirmed>>
  BY <1>0, <1>2, PlainFailKeeps DEF Catching, logVars, appVars, Typed, AppTyped
<1> QED BY <1>1, <1>2 DEF Probe

-----------------------------------------------------------------------------
(* How an update ends.                                                      *)

LEMMA FinishKeeps ==
    ASSUME IInv, Finish, op \notin {"none", "recoverAgain"}, status' = status,
           faults' \in 0..MaxFaults, stopping' \in BOOLEAN, confirmed' \subseteq Version,
           status.canCancel => stopping', quitting' \in BOOLEAN,
           \/ UNCHANGED <<app, loaded>>
           \/ /\ app' = "running" /\ loaded' = installed /\ status.state # "current"
              /\ journal = None /\ orphan = "none",
           UNCHANGED <<askVars, modeVars, notice, release, closing>>
    PROVE  IInv'
<1> USE DEF IInv, Finish, SameInstall, askVars, worldVars, modeVars
<1>1. Typed'
  BY OpsAre DEF Typed, AppTyped, DiskTyped, AskTyped, ModeTyped, LogTyped, RunTyped
<1>2. Disk'
  BY DEF Disk, PreparedKept
<1>3. Runs'
  BY DEF Runs, Reloaded, Open
<1>4. Stage'
  BY DEF Stage, Fresh, Hot, Cancelables, Unpacked, Open, Done
<1>5. Shown'
  BY DEF Shown, Cancelables
<1>6. Turns' /\ Cancelled'
  BY DEF Turns, Cancelled, Past
<1> QED BY <1>1, <1>2, <1>3, <1>4, <1>5, <1>6

LEMMA AnnouncedEndKeeps == ASSUME IInv, AnnouncedEnd PROVE IInv'
<1>1. ~status.canCancel
  BY DEF IInv, Shown, AnnouncedEnd, Announced, Cancelables
<1> QED BY <1>1, FinishKeeps DEF AnnouncedEnd, Announced, Quiet, NoFault, appVars, logVars,
           IInv, Typed, RunTyped, AppTyped, LogTyped

LEMMA HandoffKeeps == ASSUME IInv, Handoff PROVE IInv'
<1>0. /\ faults' \in 0..MaxFaults /\ op = "handoff" /\ Quiet
      /\ UNCHANGED <<appVars, release, closing>>
  BY FaultTyped DEF IInv, Typed, RunTyped, Handoff, NoFault
<1>1. CASE stopping' = TRUE /\ Finish /\ UNCHANGED status
  BY <1>0, <1>1, FinishKeeps DEF Quiet, appVars, logVars, IInv, Typed, AppTyped, LogTyped
<1>2. CASE /\ job.attempt < HandoffAttempts
           /\ Await("handoff", [job EXCEPT !.attempt = @ + 1])
           /\ UNCHANGED <<diskVars, status, stopping>>
  <2>1. job.attempt + 1 \in 0..HandoffAttempts /\ job \in JobType
    BY <1>2, BoundAssumption DEF IInv, Typed, RunTyped, JobType
  <2>2. JobIs(job', job)
    BY <1>2, <2>1, AttemptSet DEF Await
  <2>3. Advances
    BY <1>0, <1>2, <2>2, StepTypes, OpsAre DEF Advances, IInv, Quiet, Await, JobIs
  <2>4. Stage'
    BY <1>0, <1>2, <2>2 DEF IInv, Stage, diskVars, Await, JobIs, Quiet, askVars, worldVars
  <2>5. Shown'
    BY <1>0, <1>2, <2>2 DEF IInv, Shown, diskVars, Await, Quiet, askVars, worldVars
  <2>6. op' \notin Past /\ (app = "running" => loaded = job.version)
    BY <1>0, <1>2 DEF IInv, Runs, Await, Past, Reloaded, Open
  <2> QED BY <1>2, <2>3, <2>4, <2>5, <2>6, AdvanceKeeps
<1>3. CASE /\ Shows(Status("current", job.version)) /\ Await("announceDeferred", job)
           /\ UNCHANGED <<diskVars, stopping>>
  <2> USE <1>0, <1>3 DEF IInv, Await, Quiet, appVars, diskVars, askVars, worldVars, modeVars, logVars
  <2>1. /\ status' \in StatusType /\ ~status'.canQueue /\ ~status'.canCancel
        /\ status'.state = "current" => status'.version = installed
    <3>1. installed # Mixed /\ job.version \in 0..MaxVersion
      BY DEF Stage, Done, Open, Disk, Typed, RunTyped, JobType
    <3> QED BY <3>1, ShowsCurrent DEF Typed
  <2>2. Typed'
    BY <2>1, OpsAre DEF Typed, AppTyped, DiskTyped, AskTyped, ModeTyped, LogTyped, RunTyped
  <2>3. Disk'
    BY DEF Disk, PreparedKept
  <2>4. Runs'
    BY <2>1 DEF Runs, Stage, Done, Reloaded, Open
  <2>5. Stage'
    BY DEF Stage, Fresh, Hot, Cancelables, Unpacked, Open, Done
  <2>6. Shown'
    BY <2>1 DEF Shown, Stage, Disk, Done, Open
  <2>7. Turns' /\ Cancelled'
    BY DEF Turns, Cancelled, Past
  <2> QED BY <2>2, <2>3, <2>4, <2>5, <2>6, <2>7
<1> QED BY <1>1, <1>2, <1>3 DEF Handoff

LEMMA RelaunchKeeps == ASSUME IInv, Relaunch PROVE IInv'
<1> USE DEF IInv
<1>0. /\ faults' \in 0..MaxFaults /\ op = "relaunch" /\ job.version \in Version
      /\ UNCHANGED <<askVars, modeVars, notice, release>>
  BY FaultTyped DEF Typed, RunTyped, Relaunch, NoFault
<1>1. /\ journal = None /\ orphan = "none" /\ job.recovered
      /\ status.state # "current" /\ installed \in 0..MaxVersion /\ ~status.canCancel
  BY <1>0 DEF Stage, Done, Disk, Shown, Open, Typed, DiskTyped, Cancelables
<1>2. CASE /\ Launched /\ confirmed' = confirmed \cup {job.version} /\ stopping' = TRUE
           /\ Finish /\ UNCHANGED <<status, closing>>
  BY <1>0, <1>1, <1>2, FinishKeeps DEF Launched, Typed, AppTyped, LogTyped
<1>3. CASE MaybeLaunched /\ Fail(FALSE) /\ UNCHANGED <<diskVars, confirmed, stopping>>
  <2> USE <1>0, <1>3 DEF diskVars, askVars, worldVars, modeVars
  <2>1. Failed
    BY FailFails, StepShows DEF Catching
  <2>2. \/ UNCHANGED <<app, loaded, quitting>>
        \/ app' = "running" /\ loaded' = installed /\ quitting' = quitting
    BY DEF MaybeLaunched, Launched, appVars
  <2>3. Typed'
    BY <1>1, <2>1, <2>2, OpsAre DEF Typed, AppTyped, DiskTyped, AskTyped, ModeTyped, LogTyped,
       RunTyped, Failed, Catching
  <2>4. Disk'
    BY <2>1, FailedDisk DEF Catching
  <2>5. Runs'
    <3>1. op' \notin Reloaded
      BY <2>1 DEF Failed, Catching, Reloaded, Open
    <3>2. status'.state # "current"
      BY <1>1, <2>1 DEF Failed
    <3> QED BY <1>1, <2>2, <3>1, <3>2 DEF Runs
  <2>6. Stage' /\ Shown' /\ Turns' /\ Cancelled'
    BY <2>1, FailedKeeps DEF Catching, Open
  <2> QED BY <2>3, <2>4, <2>5, <2>6
<1> QED BY <1>2, <1>3 DEF Relaunch

-----------------------------------------------------------------------------
(* The awaits of the catch block.                                           *)

LEMMA CaughtKeeps ==
    ASSUME IInv, NEW l \in JobType, Caught(l), op \in {"recoverAgain", "restore", "relaunchAgain"},
           l.version = job.version, l.prior = job.prior, l.appClosed = job.appClosed,
           op' = "restore" => op = "recoverAgain",
           UNCHANGED <<release, check, waiting, cancelled, stale, foreign>>
    PROVE  /\ Stage' /\ Shown' /\ Turns' /\ Cancelled' /\ status'.state # "current"
           /\ op' \notin Reloaded \cup {"none", "recoverAgain"} /\ op' \in Ops
<1> USE DEF IInv
<1>1. /\ op' \in {"restore", "relaunchAgain", "notify", "report"} /\ op # "none"
      /\ ~status.canQueue /\ ~status.canCancel
      /\ (status.state = "current" => op = "restore" /\ ~job.appClosed)
  BY DEF Caught, Shown, Stage, Cancelables, Open
<1>2. ~status'.canQueue /\ ~status'.canCancel /\ status'.state # "current"
  <2>1. CASE op' = "report"
    BY <2>1 DEF Caught
  <2>2. CASE op' # "report"
    BY <1>1, <2>2 DEF Caught
  <2> QED BY <2>1, <2>2
<1>3. Stage'
  BY <1>1 DEF Stage, Caught, SameJob, Fresh, Hot, Cancelables, Unpacked, Open, Done
<1>4. Shown' /\ Turns' /\ Cancelled'
  BY <1>1, <1>2 DEF Shown, Turns, Cancelled, Past
<1> QED BY <1>1, <1>2, <1>3, <1>4, OpsAre DEF Reloaded, Open

LEMMA RecoverAgainKeeps == ASSUME IInv, RecoverAgain PROVE IInv'
<1> USE DEF IInv
<1>0. /\ faults' \in 0..MaxFaults /\ op = "recoverAgain" /\ job \in JobType /\ Quiet
      /\ job.version \in Version /\ ~job.recovered
      /\ UNCHANGED <<appVars, prepared, release, closing, stopping>>
  BY FaultTyped DEF Typed, RunTyped, RecoverAgain, NoFault, Stage
<1> USE DEF Quiet, appVars, askVars, worldVars, modeVars, logVars
<1>1. None \in 0..MaxVersion
  BY NoneTyped
<1>2. CASE /\ orphan = "none" /\ Settles /\ UNCHANGED orphan
           /\ ThenRestore([job EXCEPT !.recovered = TRUE])
  <2>0. ReadsTyped
    BY <1>1, <1>2, SettlesTo DEF ReadsTyped, Reads
  <2> DEFINE l == [job EXCEPT !.recovered = TRUE]
  <2>1. /\ l \in JobType /\ l.version = job.version /\ l.prior = job.prior
        /\ l.appClosed = job.appClosed /\ l.recovered /\ l.retain = job.retain
        /\ l.applyAttempted = job.applyAttempted
    BY <1>0, RecoveredSet
  <2> HIDE DEF l
  <2>2. Caught(l)
    BY <1>2, <2>0, <2>1, ThenRestoreCaught DEF Typed, l
  <2>3. /\ Stage' /\ Shown' /\ Turns' /\ Cancelled' /\ status'.state # "current"
        /\ op' \notin Reloaded \cup {"none", "recoverAgain"} /\ op' \in Ops
    BY <1>0, <2>1, <2>2, CaughtKeeps
  <2>4. /\ job' \in JobType /\ job'.version = job.version /\ job'.recovered
        /\ status' \in StatusType
    BY <2>1, <2>2 DEF Caught, SameJob
  <2>5. Typed'
    BY <1>0, <1>1, <1>2, <2>3, <2>4, SettlesTo DEF Typed, AppTyped, DiskTyped, AskTyped, ModeTyped,
       LogTyped, RunTyped
  <2>6. Disk'
    BY <1>0, <1>2, <2>4, SettlesTo DEF Disk, PreparedKept
  <2>7. Runs'
    BY <1>0, <1>2, <2>3, <2>4, SettlesTo DEF Runs, Disk, Settles, SameInstall
  <2> QED BY <2>3, <2>5, <2>6, <2>7
<1>3. CASE /\ ThenRestore(Retaining)
           /\ \/ SameInstall /\ orphan' \in IF orphan = "none" THEN {"none", "recover"} ELSE {orphan}
              \/ orphan = "none" /\ Settles /\ UNCHANGED orphan
  <2>0. ReadsTyped
    BY <1>1, <1>3, SettlesTo, SameReads DEF ReadsTyped, Reads, SameInstall, Typed
  <2>1. Caught(Retaining)
    BY <1>3, <2>0, RetainingIs, ThenRestoreCaught DEF Typed
  <2>2. /\ Stage' /\ Shown' /\ Turns' /\ Cancelled' /\ status'.state # "current"
        /\ op' \notin Reloaded \cup {"none", "recoverAgain"} /\ op' \in Ops
    BY <1>0, <2>1, RetainingIs, CaughtKeeps DEF Typed
  <2>3. /\ job' \in JobType /\ job'.version = job.version /\ ~job'.recovered /\ job'.retain
        /\ job'.applyAttempted = job.applyAttempted /\ status' \in StatusType
    BY <1>0, <2>1, RetainingIs DEF Caught, SameJob, Typed
  <2>4. CASE /\ SameInstall
             /\ orphan' \in IF orphan = "none" THEN {"none", "recover"} ELSE {orphan}
    <3>1. Typed'
      BY <1>0, <2>2, <2>3, <2>4 DEF Typed, AppTyped, DiskTyped, AskTyped, ModeTyped,
         LogTyped, RunTyped, SameInstall
    <3>2. Disk'
      BY <1>0, <2>3, <2>4 DEF Disk, PreparedKept, SameInstall
    <3>3. Runs'
      BY <1>0, <2>2, <2>3, <2>4 DEF Runs, SameInstall
    <3> QED BY <2>2, <3>1, <3>2, <3>3
  <2>5. CASE orphan = "none" /\ Settles /\ UNCHANGED orphan
    <3>1. Typed'
      BY <1>0, <1>1, <2>2, <2>3, <2>5, SettlesTo DEF Typed, AppTyped, DiskTyped, AskTyped, ModeTyped,
         LogTyped, RunTyped
    <3>2. Disk'
      BY <1>0, <2>3, <2>5, SettlesTo DEF Disk, PreparedKept
    <3>3. Runs'
      BY <1>0, <2>2, <2>3, <2>5, SettlesTo DEF Runs, Disk, Settles, SameInstall
    <3> QED BY <2>2, <3>1, <3>2, <3>3
  <2> QED BY <1>3, <2>4, <2>5
<1> QED BY <1>2, <1>3 DEF RecoverAgain, Retaining

LEMMA RestoreKeeps == ASSUME IInv, Restore PROVE IInv'
<1> USE DEF IInv
<1>0. /\ faults' \in 0..MaxFaults /\ op = "restore" /\ job \in JobType /\ Quiet
      /\ job.prior \in 0..MaxVersion /\ ThenRelaunch(job)
      /\ UNCHANGED <<app, quitting, diskVars, release, closing, stopping>>
  BY FaultTyped DEF Typed, RunTyped, JobType, Restore, NoFault
<1>a. ReadsTyped
  BY <1>0, SameReads DEF Typed, diskVars
<1>1. /\ Caught(job) /\ op' # "restore"
      /\ job' \in JobType /\ status' \in StatusType /\ job'.version = job.version
      /\ job'.retain = job.retain /\ job'.recovered = job.recovered
      /\ job'.applyAttempted = job.applyAttempted
  BY <1>0, <1>a, ThenRelaunchCaught DEF Typed, Caught, SameJob
<1>2. /\ Stage' /\ Shown' /\ Turns' /\ Cancelled' /\ status'.state # "current"
      /\ op' \notin Reloaded \cup {"none", "recoverAgain"} /\ op' \in Ops
  BY <1>0, <1>1, CaughtKeeps DEF Quiet, askVars, worldVars, modeVars
<1>3. /\ loaded' \in 0..MaxVersion
      /\ app = "running" => loaded' = loaded \/ loaded' = installed
  BY <1>0 DEF Restore, Reloads, MayReload, Typed, AppTyped
<1>4. journal = None /\ orphan # "apply"
  BY <1>0 DEF Stage, Disk
<1> USE DEF Quiet, diskVars, askVars, worldVars, modeVars, logVars
<1>5. Typed'
  BY <1>0, <1>1, <1>2, <1>3 DEF Typed, AppTyped, DiskTyped, AskTyped, ModeTyped, LogTyped, RunTyped
<1>6. Disk'
  BY <1>0, <1>1, <1>4 DEF Disk, PreparedKept
<1>7. Runs'
  BY <1>0, <1>2, <1>3, <1>4 DEF Runs
<1> QED BY <1>2, <1>5, <1>6, <1>7

LEMMA RelaunchAgainKeeps == ASSUME IInv, RelaunchAgain PROVE IInv'
<1> USE DEF IInv
<1>0. /\ faults' \in 0..MaxFaults /\ op = "relaunchAgain" /\ job \in JobType /\ Quiet
      /\ installed \in 0..MaxVersion /\ job.recovered /\ ThenNotify(job)
      /\ UNCHANGED <<diskVars, release, closing, stopping>>
  BY FaultTyped DEF Typed, RunTyped, DiskTyped, RelaunchAgain, NoFault, Stage
<1>a. ReadsTyped
  BY <1>0, SameReads DEF Typed, diskVars
<1>1. /\ Caught(job) /\ op' # "restore"
      /\ job' \in JobType /\ status' \in StatusType /\ job'.version = job.version
      /\ job'.retain = job.retain /\ job'.recovered = job.recovered
      /\ job'.applyAttempted = job.applyAttempted
  BY <1>0, <1>a, ThenNotifyCaught DEF Typed, Caught, SameJob
<1>2. /\ Stage' /\ Shown' /\ Turns' /\ Cancelled' /\ status'.state # "current"
      /\ op' \notin Reloaded \cup {"none", "recoverAgain"} /\ op' \in Ops
  BY <1>0, <1>1, CaughtKeeps DEF Quiet, askVars, worldVars, modeVars
<1>3. \/ UNCHANGED <<app, loaded, quitting>>
      \/ app' = "running" /\ loaded' = installed /\ quitting' = quitting
  BY DEF RelaunchAgain, MaybeLaunched, Launched, appVars
<1>4. journal = None /\ orphan = "none"
  BY <1>0 DEF Disk
<1> USE DEF Quiet, diskVars, askVars, worldVars, modeVars, logVars
<1>5. Typed'
  BY <1>0, <1>1, <1>2, <1>3 DEF Typed, AppTyped, DiskTyped, AskTyped, ModeTyped, LogTyped, RunTyped
<1>6. Disk'
  BY <1>0, <1>1, <1>4 DEF Disk, PreparedKept
<1>7. Runs'
  BY <1>0, <1>2, <1>3, <1>4 DEF Runs
<1> QED BY <1>2, <1>5, <1>6, <1>7

LEMMA NotifyKeeps == ASSUME IInv, Notify PROVE IInv'
<1> USE DEF IInv, Notify, NoFault, appVars, diskVars, askVars, worldVars, modeVars
<1>1. /\ status' \in StatusType /\ ~status'.canQueue /\ ~status'.canCancel
      /\ status'.state = "error" /\ op' = "report" /\ job' = job
  <2>1. ReadsTyped /\ job \in JobType /\ Report(job)
    BY SameReads, StepTypes DEF Typed
  <2> QED BY <2>1, ReportShows
<1>a. faults' \in 0..MaxFaults /\ notice' \in {"none", "shown", "lost"}
  BY FaultTyped DEF Typed, RunTyped
<1>2. Typed'
  BY <1>1, <1>a, OpsAre DEF Typed, AppTyped, DiskTyped, AskTyped, ModeTyped, LogTyped, RunTyped
<1>3. Disk'
  BY <1>1 DEF Disk, PreparedKept
<1>4. Runs'
  BY <1>1 DEF Runs, Reloaded, Open
<1>5. Stage'
  BY <1>1 DEF Stage, Fresh, Hot, Cancelables, Unpacked, Open, Done
<1>6. Shown'
  BY <1>1 DEF Shown
<1>7. Turns' /\ Cancelled'
  BY <1>1 DEF Turns, Cancelled, Past
<1> QED BY <1>2, <1>3, <1>4, <1>5, <1>6, <1>7

-----------------------------------------------------------------------------
(* The theorems.                                                            *)

LEMMA InitInv == Init => IInv
<1> SUFFICES ASSUME Init PROVE IInv
  OBVIOUS
<1>1. /\ 1 \in Version /\ None \in 0..MaxVersion /\ 1 \in 0..MaxVersion
      /\ 0 \in 0..MaxFaults /\ 0 \in 0..HandoffAttempts
  BY BoundAssumption DEF Version, None
<1>2. /\ status \in StatusType /\ ~status.canQueue /\ ~status.canCancel
      /\ status.state # "current"
  BY <1>1, StatesAre DEF Init, Status, StatusType
<1>3. /\ job \in JobType /\ job.version = 0 /\ ~job.recovered /\ ~job.applyAttempted
  BY <1>1 DEF Init, NoJob, JobType, None
<1>4. Typed
  BY <1>1, <1>2, <1>3, OpsAre DEF Init, Typed, AppTyped, DiskTyped, AskTyped, ModeTyped, LogTyped, RunTyped
<1>5. Disk /\ Runs
  BY <1>2, <1>3 DEF Init, Disk, Runs, PreparedKept, None, Mixed, Reloaded, Open
<1>6. Stage
  BY DEF Init, Stage, Fresh, Hot, Cancelables, Unpacked, Open, Done
<1>7. Shown /\ Turns /\ Cancelled
  BY <1>2 DEF Init, Shown, Turns, Cancelled
<1> QED BY <1>4, <1>5, <1>6, <1>7 DEF IInv

LEMMA UpdatingKeeps == ASSUME IInv, Updating PROVE IInv'
  BY AnnouncedWaitKeeps, AnnouncedEndKeeps, AnnouncedCallKeeps, AnnouncedClosingKeeps,
     AnnouncedInstallKeeps, AnnouncementFailsKeeps, PrepareKeeps, FindKeeps, BusyAgainKeeps,
     StillIdleKeeps, HotReloadKeeps, CloseKeeps, ApplyKeeps, VerifyKeeps, ProbeKeeps,
     HandoffKeeps, RelaunchKeeps, RecoverAgainKeeps, RestoreKeeps, RelaunchAgainKeeps, NotifyKeeps
     DEF Updating

LEMMA NextInv == IInv /\ [Next]_vars => IInv'
<1> SUFFICES ASSUME IInv, [Next]_vars PROVE IInv'
  OBVIOUS
<1>1. CASE Requests
  BY <1>1, RequestCheckKeeps, RequestQueueKeeps, RequestCancelKeeps, RefreshKeeps DEF Requests
<1>2. CASE Checking
  BY <1>2, CheckAnnouncedKeeps, CheckAnsweredKeeps, ResumeQueueKeeps DEF Checking
<1>3. CASE Updating
  BY <1>3, UpdatingKeeps
<1>4. CASE Monitoring
  BY <1>4, MonitorKeeps
<1>5. CASE Exit \/ OrphanEnds \/ UpdatesElsewhere \/ Publish \/ AppExits
  BY <1>5, ExitKeeps, OrphanEndsKeeps, UpdatesElsewhereKeeps, PublishKeeps, AppExitsKeeps
<1>6. CASE UNCHANGED vars
  <2> USE <1>6 DEF vars, appVars, diskVars, askVars, worldVars, modeVars, logVars
  <2>1. Typed'
    BY DEF IInv, Typed, AppTyped, DiskTyped, AskTyped, ModeTyped, LogTyped, RunTyped
  <2>2. Disk' /\ Runs'
    BY DEF IInv, Disk, Runs, PreparedKept
  <2>3. Stage' /\ Shown' /\ Turns' /\ Cancelled'
    BY DEF IInv, Stage, Shown, Turns, Cancelled
  <2> QED BY <2>1, <2>2, <2>3 DEF IInv
<1> QED BY <1>1, <1>2, <1>3, <1>4, <1>5, <1>6 DEF Next

LEMMA Invariant == Spec => []IInv
  BY InitInv, NextInv, PTL DEF Spec

\* Every variable of the controller keeps its type.
THEOREM TypeCorrect == Spec => []TypeOK
<1>1. IInv => TypeOK
  BY TypedIsTypeOK DEF IInv
<1> QED BY <1>1, Invariant, PTL

\* The prepared directory a pending journal refers to is there as long as the
\* journal is (retainPrepared), through any number of updates.
THEOREM JournalHasItsRelease == Spec => []PreparedKept
<1>1. IInv => PreparedKept
  BY DEF IInv, Disk
<1> QED BY <1>1, Invariant, PTL

\* ChatGPT is started again only on a whole installation that no updater touches.
THEOREM RelaunchOnWhole == Spec => []RelaunchIsSafe
<1>1. IInv => RelaunchIsSafe
  BY DEF IInv, RelaunchIsSafe, Stage, Disk, Done
<1> QED BY <1>1, Invariant, PTL

\* An update whose cancellation was accepted never gets past the idle check.
THEOREM CancelStops == Spec => []CancelHonoured
<1>1. IInv => CancelHonoured
  BY DEF IInv, CancelHonoured, Cancelled, Past
<1> QED BY <1>1, Invariant, PTL

\* Cancel is offered while there is an update to cancel, Update for the pinned
\* release only.
THEOREM ButtonsAreTrue == Spec => []ButtonsTruthful
<1>1. IInv => ButtonsTruthful
  BY DEF IInv, ButtonsTruthful, Shown, Stage, Fresh, Hot, Cancelables
<1> QED BY <1>1, Invariant, PTL

\* An app that runs beside the status "current" runs the release it names, as
\* long as no run of the updater beside the session has replaced the install.
THEOREM CurrentIsTrue == Spec => []CurrentIsLoaded
<1>1. IInv => CurrentIsLoaded
  BY DEF IInv, CurrentIsLoaded, Runs
<1> QED BY <1>1, Invariant, PTL

Confirms == \A v \in confirmed' \ confirmed :
                /\ app' = "running" /\ installed' # Mixed /\ journal' = None
                /\ foreign' \/ (loaded' = v /\ installed' = v)

LEMMA StepConfirms == ASSUME IInv, Next PROVE Confirms
<1>1. CASE Probe
  <2>1. app = "running" => /\ installed # Mixed /\ journal = None
                           /\ foreign \/ (installed = job.version /\ loaded = job.version)
    BY <1>1 DEF IInv, Probe, Stage, Runs, Disk, Done, Open, Reloaded
  <2>2. UNCHANGED <<app, loaded, installed, journal, foreign>>
    BY <1>1 DEF Probe, appVars, diskVars, askVars, worldVars
  <2>3. CASE app = "running" /\ confirmed' = confirmed \cup {job.version}
    BY <2>1, <2>2, <2>3 DEF Confirms
  <2>4. CASE UNCHANGED confirmed
    BY <2>4 DEF Confirms
  <2> QED BY <1>1, <2>3, <2>4 DEF Probe
<1>2. CASE Relaunch
  <2>1. /\ installed # Mixed /\ journal = None /\ (foreign \/ installed = job.version)
        /\ foreign' = foreign
    BY <1>2 DEF IInv, Relaunch, Stage, Disk, Done, askVars, worldVars
  <2>2. CASE Launched /\ confirmed' = confirmed \cup {job.version} /\ Finish
    BY <2>1, <2>2 DEF Confirms, Launched, Finish, SameInstall
  <2>3. CASE UNCHANGED confirmed
    BY <2>3 DEF Confirms
  <2> QED BY <1>2, <2>2, <2>3 DEF Relaunch
<1>3. CASE UNCHANGED confirmed
  BY <1>3 DEF Confirms
<1>4. Requests \/ Checking \/ Monitoring => UNCHANGED confirmed
  BY DEF Requests, RequestCheck, RequestQueue, RequestCancel, Refresh, Checking, CheckAnnounced,
     CheckAnswered, ResumeQueue, Monitoring, MonitorBegins, MonitorAnswered, logVars
<1>5. Exit \/ OrphanEnds \/ UpdatesElsewhere \/ Publish \/ AppExits => UNCHANGED confirmed
  BY DEF Exit, OrphanEnds, UpdatesElsewhere, Publish, AppExits, logVars
<1>6. Updating => Probe \/ Relaunch \/ UNCHANGED confirmed
  <2>1. /\ AnnouncedWait => UNCHANGED confirmed
        /\ AnnouncedEnd => UNCHANGED confirmed
        /\ AnnouncedCall => UNCHANGED confirmed
        /\ AnnouncedClosing => UNCHANGED confirmed
        /\ AnnouncedInstall => UNCHANGED confirmed
        /\ AnnouncementFails => UNCHANGED confirmed
    BY DEF AnnouncedWait, AnnouncedEnd, AnnouncedCall, AnnouncedClosing, AnnouncedInstall,
       AnnouncementFails, Announced, Quiet, logVars
  <2>2. /\ Prepare => UNCHANGED confirmed
        /\ FindBusy => UNCHANGED confirmed
        /\ FindIdle => UNCHANGED confirmed
        /\ BusyAgain => UNCHANGED confirmed
        /\ StillIdle => UNCHANGED confirmed
        /\ HotReload => UNCHANGED confirmed
        /\ Close => UNCHANGED confirmed
    BY DEF Prepare, FindBusy, FindIdle, BusyAgain, StillIdle, HotReload, Close, Quiet, logVars
  <2>3. /\ Apply => UNCHANGED confirmed
        /\ Verify => UNCHANGED confirmed
        /\ Handoff => UNCHANGED confirmed
        /\ RecoverAgain => UNCHANGED confirmed
        /\ Restore => UNCHANGED confirmed
        /\ RelaunchAgain => UNCHANGED confirmed
        /\ Notify => UNCHANGED confirmed
    BY DEF Apply, Verify, Handoff, RecoverAgain, Restore, RelaunchAgain, Notify, Quiet, logVars
  <2> QED BY <2>1, <2>2, <2>3 DEF Updating
<1> QED BY <1>1, <1>2, <1>3, <1>4, <1>5, <1>6 DEF Next

\* A release is recorded as confirmed at a moment when the app runs a whole
\* installation and no transaction is pending; it is the confirmed release that is
\* installed and that the app runs, unless another updater was at work meanwhile.
THEOREM ConfirmedWhenLoaded == Spec => ConfirmedIsLoaded
<1>1. IInv /\ [Next]_vars => [Confirms]_vars
  BY StepConfirms
<1> QED BY <1>1, Invariant, PTL DEF Spec, ConfirmedIsLoaded, Confirms

=============================================================================
