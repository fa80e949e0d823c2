--------------------------- MODULE TaskMaintenance ---------------------------
(***************************************************************************)
(* Automatic cleanup of old tasks, from renderer-mobile-project-view.js:   *)
(* idle tasks are archived after a week, archived ones are deleted for     *)
(* good after a week of recovery.  Every window of the app runs its own    *)
(* view; the views share localStorage (the switch, the records of when     *)
(* each task was first seen archived, a lease) and one Web Lock, and the   *)
(* user goes on pinning, opening, archiving and restoring tasks while a    *)
(* view works through a run of some ten requests.                          *)
(*                                                                         *)
(* Time is counted in weeks: what is there when a week passes is older     *)
(* than the limits AUTO_ARCHIVE_DAYS and AUTO_DELETE_AFTER_ARCHIVE_DAYS.   *)
(* A listing is the state of the server at one moment of its pages.        *)
(***************************************************************************)
EXTENDS Naturals, FiniteSets

CONSTANTS View, Task, None, Gone,
          Parent,       \* parentThreadId of each task
          MaxTroubles   \* what the user and the windows do, requests that fail or
                        \* vanish, views that stall

ASSUME ParentAssumption == Parent \in [Task -> Task \union {None}]
ASSUME NoneAssumption == None \notin View \union Task /\ Gone \notin View \union {None}
ASSUME BoundAssumption == MaxTroubles \in Nat

VARIABLES place, dormant, pinned, shown,        \* the server's tasks and the sidebars
          enabled, records, lease,              \* localStorage
          lock,                                 \* the Web Lock
          view, armed, run, requests,           \* the views and what they sent
          whole, slipped, kept,                 \* history, for the properties
          troubles

server == <<place, dormant, pinned, shown>>
storage == <<enabled, records, lease>>
views == <<lock, view, armed, run, requests>>
history == <<whole, slipped>>
vars == <<server, storage, views, history, kept, troubles>>

Place == {"active", "archived", "deleted"}
Record == {"none", "fresh", "due"}
Looking == {"active", "archived", "pins"}           \* awaits of the first snapshot
Rechecking == {"rpins", "ractive", "rarchived"}     \* awaits of the revalidation
Reason == {"pinned", "loaded", "place", "recent", "activeChild", "archivedChild"}
Op == {"archive", "delete"}

NoRecords == [t \in Task |-> "none"]
NoLease == [owner |-> None, live |-> FALSE]
NoRun == [at |-> "idle", op |-> "archive", task |-> None, valid |-> FALSE, late |-> FALSE,
          crossed |-> FALSE, ready |-> {}, parents |-> {}, archived |-> {}, cold |-> {},
          pins |-> {}, records |-> NoRecords]

RunType == [at : {"idle", "bridge", "sent"} \union Looking \union Rechecking,
            op : Op, task : Task \union {None},
            valid : BOOLEAN,                    \* autoArchiveGeneration is still the run's
            late : BOOLEAN,                     \* runDeadline has passed
            crossed : BOOLEAN,                  \* (history) switched on in another view meanwhile
            ready : SUBSET Task,                \* activeThreads idle and old
            parents : SUBSET Task,              \* parentsWithKnownChildren
            archived : SUBSET Task, cold : SUBSET Task,   \* archivedThreads, those not loaded
            pins : SUBSET Task, records : [Task -> Record]]

TypeOK ==
    /\ place \in [Task -> Place]
    /\ dormant \subseteq Task /\ pinned \subseteq Task
    /\ shown \in [View -> Task \union {None}]
    /\ enabled \in BOOLEAN
    /\ records \in [Task -> Record]
    /\ lease \in [owner : View \union {None, Gone}, live : BOOLEAN]
    /\ lock \in View \union {None}
    /\ view \in [View -> {"up", "stopped", "gone"}]
    /\ armed \in [View -> BOOLEAN]
    /\ run \in [View -> RunType]
    /\ requests \subseteq [op : Op, task : Task, from : View \union {None}]
    /\ whole \subseteq Task /\ slipped \subseteq Task
    /\ kept \in [View -> SUBSET Reason]
    /\ troubles \in 0..MaxTroubles

Init ==
    /\ place \in [Task -> {"active", "archived"}]
    /\ dormant = {} /\ pinned = {}
    /\ shown = [w \in View |-> None]
    /\ enabled = TRUE /\ records = NoRecords /\ lease = NoLease
    /\ lock = None
    /\ view = [w \in View |-> "up"] /\ armed = [w \in View |-> TRUE]
    /\ run = [w \in View |-> NoRun]
    /\ requests = {}
    /\ whole = {} /\ slipped = {}
    /\ kept = [w \in View |-> {}]
    /\ troubles = 0

-----------------------------------------------------------------------------
Trouble == troubles < MaxTroubles /\ troubles' = troubles + 1

(* Reading the tasks.                                                      *)

In(p) == {t \in Task : place[t] = p}
Exists(t) == place[t] # "deleted"
Loaded(t) == \E w \in View : view[w] = "up" /\ shown[w] = t
ParentsOf(S) == {Parent[c] : c \in S} \ {None}

(* autoArchivePending: the run has its lease.                              *)
Pending(w) == run[w].at \notin {"idle", "bridge"}

(* acquireAutoArchiveLease succeeds.                                       *)
CanLease(w) == lease.owner = w \/ ~lease.live
Leased(w) == [owner |-> w, live |-> TRUE]

(* scheduleAutoArchive, once the view is no longer pending.                *)
Schedule(w) == armed' = [armed EXCEPT ![w] = @ \/ (enabled /\ view[w] = "up")]

(* Mutant: tasks that were restored keep their record.                     *)
SynchronizedKeepingRestored(old, archived) ==
    [t \in Task |-> IF t \in archived /\ old[t] = "none" THEN "fresh" ELSE old[t]]

(* synchronizeTrackedArchivedThreads: forget what is no longer archived,   *)
(* start a record for what is archived and has none.                       *)
Synchronized(old, archived) ==
    [t \in Task |-> IF t \notin archived THEN "none"
                    ELSE IF old[t] = "none" THEN "fresh" ELSE old[t]]

(* eligibleAutoDeleteThreads and eligibleAutoArchiveThreads.               *)
Deletable(cold, parents, pins, recs) ==
    {t \in cold \ (parents \union pins) : recs[t] = "due"}
Archivable(w, ready, parents, pins) == ready \ (parents \union pins \union {shown[w]})

-----------------------------------------------------------------------------
(* How a run ends.                                                         *)

(* Mutant: the next run is not scheduled.                                  *)
EndUnscheduled(w) ==
    /\ run' = [run EXCEPT ![w] = NoRun]
    /\ lock' = IF lock = w THEN None ELSE lock
    /\ lease' = IF lease.owner = w THEN NoLease ELSE lease
    /\ view' = [view EXCEPT ![w] = IF @ = "stopped" THEN "gone" ELSE @]
    /\ UNCHANGED armed

(* The finally clause; the Web Lock goes with the callback that held it.   *)
End(w) ==
    /\ run' = [run EXCEPT ![w] = NoRun]
    /\ lock' = IF lock = w THEN None ELSE lock
    /\ lease' = IF lease.owner = w THEN NoLease ELSE lease
    /\ view' = [view EXCEPT ![w] = IF @ = "stopped" THEN "gone" ELSE @]
    /\ Schedule(w)

(* Nothing is recorded; history: what has no record cannot have a stale one. *)
Unrecorded == UNCHANGED records /\ slipped' = {t \in slipped : records[t] # "none"}

(* The outer catch.                                                        *)
Abort(w) == End(w) /\ Unrecorded

(* Mutant: the switch is not read again.                                   *)
MayRecordUnread(w) == run[w].valid /\ view[w] = "up"

(* Whether the run may still write the records.                            *)
MayRecord(w) == run[w].valid /\ enabled /\ view[w] = "up"

(* The end of a run that was not aborted: the records are written.         *)
(* History: a written record is younger than the task's last restore only  *)
(* if the run listed the task as not archived.                             *)
Finish(w, recs) ==
    /\ End(w)
    /\ IF MayRecord(w)
       THEN /\ records' = recs
            /\ slipped' = (slipped \intersect run[w].archived)
                          \union IF run[w].crossed
                                 THEN {t \in run[w].archived : recs[t] # "none"} ELSE {}
       ELSE Unrecorded

-----------------------------------------------------------------------------
(* A run of a view.                                                        *)

Advance(w, changed) == run' = [run EXCEPT ![w] = changed]

(* Mutant: the lease alone is trusted.                                     *)
FireUnlocked(w) ==
    /\ view[w] = "up" /\ armed[w]
    /\ LET granted == enabled /\ run[w].at = "idle"
       IN /\ armed' = [armed EXCEPT ![w] = FALSE]
          /\ lock' = IF granted THEN w ELSE lock
          /\ IF granted THEN Advance(w, [NoRun EXCEPT !.at = "bridge"]) ELSE UNCHANGED run
    /\ UNCHANGED <<server, storage, view, requests, history, troubles>>

(* The timer fires, runAutoArchiveNow: the Web Lock is asked for, and      *)
(* when another run has it the timer is set again.                         *)
Fire(w) ==
    /\ view[w] = "up" /\ armed[w]
    /\ LET wanted == enabled /\ ~Pending(w)
           granted == wanted /\ lock = None
       IN /\ armed' = [armed EXCEPT ![w] = wanted /\ ~granted]
          /\ lock' = IF granted THEN w ELSE lock
          /\ IF granted THEN Advance(w, [NoRun EXCEPT !.at = "bridge"]) ELSE UNCHANGED run
    /\ UNCHANGED <<server, storage, view, requests, history, troubles>>

(* The local bridge answered; without the lease the run is put off.        *)
Start(w) ==
    /\ run[w].at = "bridge"
    /\ IF CanLease(w)
       THEN /\ lease' = Leased(w)
            /\ Advance(w, [NoRun EXCEPT !.at = "active", !.valid = TRUE])
            /\ UNCHANGED <<lock, view, armed>>
       ELSE End(w)
    /\ UNCHANGED <<server, enabled, records, requests, history, troubles>>

(* listAllLocalThreads, active: of the first snapshot or the second.       *)
ListActive(w) ==
    /\ run[w].at \in {"active", "ractive"}
    /\ view[w] = "up" /\ ~run[w].late
    /\ Advance(w, [run[w] EXCEPT
           !.at = IF @ = "active" THEN "archived" ELSE "rarchived",
           !.ready = {t \in In("active") \intersect dormant : ~Loaded(t)},
           !.parents = ParentsOf(In("active"))])
    /\ UNCHANGED <<server, storage, lock, view, armed, requests, history, troubles>>

ListArchived(w) ==
    /\ run[w].at = "archived"
    /\ view[w] = "up" /\ ~run[w].late
    /\ Advance(w, [run[w] EXCEPT
           !.at = "pins",
           !.archived = In("archived"),
           !.cold = {t \in In("archived") : ~Loaded(t)},
           !.parents = @ \union ParentsOf(In("archived"))])
    /\ UNCHANGED <<server, storage, lock, view, armed, requests, history, troubles>>

(* The pinned tasks are known: with no candidate, or no right to go on,    *)
(* the run only records what is archived.                                  *)
Candidates(w, op) ==
    IF op = "delete"
    THEN Deletable(run[w].cold, run[w].parents, pinned,
                   Synchronized(records, run[w].archived))
    ELSE Archivable(w, run[w].ready, run[w].parents, pinned)

MayGoOn(w) == ~run[w].late /\ run[w].valid /\ CanLease(w)

NothingToDo(w) ==
    /\ run[w].at = "pins" /\ view[w] = "up"
    /\ \/ \A op \in Op : Candidates(w, op) = {}
       \/ ~MayGoOn(w)
       \/ ~enabled
    /\ Finish(w, Synchronized(records, run[w].archived))
    /\ UNCHANGED <<server, enabled, requests, whole, troubles>>

(* One task is taken, one to delete first, and everything is read again.   *)
Choose(w) ==
    /\ run[w].at = "pins" /\ view[w] = "up"
    /\ MayGoOn(w) /\ enabled
    /\ \E op \in Op :
         /\ op = "archive" => Candidates(w, "delete") = {}
         /\ \E t \in Candidates(w, op) :
              Advance(w, [run[w] EXCEPT !.at = "rpins", !.op = op, !.task = t,
                             !.records = Synchronized(records, run[w].archived),
                             !.ready = {}, !.parents = {}, !.cold = {}])
    /\ lease' = Leased(w)
    /\ UNCHANGED <<server, enabled, records, lock, view, armed, requests, history, troubles>>

(* Mutant: the pins of the first snapshot are believed.                    *)
BelieveFirstPins(w) ==
    /\ run[w].at = "rpins"
    /\ view[w] = "up" /\ ~run[w].late
    /\ Advance(w, [run[w] EXCEPT !.at = "ractive"])
    /\ UNCHANGED <<server, storage, lock, view, armed, requests, history, troubles>>

(* The pinned tasks again.                                                 *)
ReadPinsAgain(w) ==
    /\ run[w].at = "rpins"
    /\ view[w] = "up" /\ ~run[w].late
    /\ Advance(w, [run[w] EXCEPT !.at = "ractive", !.pins = pinned])
    /\ UNCHANGED <<server, storage, lock, view, armed, requests, history, troubles>>

(* The archived tasks again, and with them the decision: the records are   *)
(* the stored ones, the selected row is that of this window.               *)
StillEligible(w) ==
    LET t == run[w].task
        cold == {u \in In("archived") : ~Loaded(u)}
        parents == run[w].parents \union ParentsOf(In("archived"))
    IN /\ shown[w] # t
       /\ \/ run[w].op = "delete" /\ t \in Deletable(cold, parents, run[w].pins, records)
          \/ run[w].op = "archive" /\ t \in Archivable(w, run[w].ready, parents, run[w].pins)

Send(w) ==
    /\ run[w].at = "rarchived" /\ view[w] = "up"
    /\ StillEligible(w) /\ MayGoOn(w)
    /\ lease' = Leased(w)
    /\ requests' = requests \union {[op |-> run[w].op, task |-> run[w].task, from |-> w]}
    /\ Advance(w, [run[w] EXCEPT !.at = "sent", !.ready = {}, !.parents = {},
                                 !.cold = {}, !.pins = {}])
    /\ UNCHANGED <<server, enabled, records, lock, view, armed, history, troubles>>

NoLongerEligible(w) ==
    /\ run[w].at = "rarchived" /\ view[w] = "up"
    /\ ~(StillEligible(w) /\ MayGoOn(w))
    /\ Finish(w, run[w].records)
    /\ UNCHANGED <<server, enabled, requests, whole, troubles>>

(* A request fails.  In the first snapshot that ends the run; after it     *)
(* only a runtime that changed does, other failures are counted.           *)
Fails(w) ==
    /\ run[w].at \in Looking \union Rechecking
    /\ \/ run[w].late /\ UNCHANGED troubles           \* maintenanceDeadlineError
       \/ view[w] = "stopped" /\ UNCHANGED troubles   \* the runtime is gone
       \/ Trouble
    /\ \/ (run[w].at \in Looking \/ view[w] = "stopped" \/ ~run[w].late) /\ Abort(w)
       \/ run[w].at \in Rechecking /\ view[w] = "up" /\ Finish(w, run[w].records)
    /\ UNCHANGED <<server, enabled, requests, whole>>

(* The lease's timer; a lease that went to another view ends the run.      *)
Renew(w) ==
    /\ Pending(w) /\ view[w] = "up" /\ lease # Leased(w)
    /\ IF CanLease(w) THEN lease' = Leased(w) /\ UNCHANGED run
       ELSE Advance(w, [run[w] EXCEPT !.valid = FALSE]) /\ UNCHANGED lease
    /\ UNCHANGED <<server, enabled, records, lock, view, armed, requests, history, troubles>>

(* The window is frozen for longer than a run and its lease may last.      *)
Stall(w) ==
    /\ Pending(w) /\ ~run[w].late /\ Trouble
    /\ Advance(w, [run[w] EXCEPT !.late = TRUE])
    /\ lease' = [lease EXCEPT !.live = FALSE]
    /\ UNCHANGED <<server, enabled, records, lock, view, armed, requests, history>>

-----------------------------------------------------------------------------
(* The server and its answer.                                              *)

Outcome(r) == [records |-> [run[r.from].records EXCEPT
                              ![r.task] = IF r.op = "delete" THEN "none" ELSE "fresh"]]

(* The request takes effect, or is refused because the task has moved.     *)
(* The answer finds its run, unless that has timed out or its view stopped. *)
Serve(r) ==
    /\ r \in requests
    /\ LET fits == IF r.op = "delete" THEN Exists(r.task) ELSE place[r.task] = "active"
       IN /\ place' = IF ~fits THEN place
                      ELSE [place EXCEPT ![r.task] = IF r.op = "delete" THEN "deleted"
                                                     ELSE "archived"]
          /\ IF r.from = None THEN UNCHANGED <<storage, lock, view, armed, run, slipped>>
             ELSE /\ IF view[r.from] = "stopped" THEN Abort(r.from)
                     ELSE Finish(r.from, IF fits THEN Outcome(r).records
                                         ELSE run[r.from].records)
                  /\ UNCHANGED enabled
    /\ requests' = requests \ {r}
    /\ UNCHANGED <<dormant, pinned, shown, whole, troubles>>

(* The request is rejected, or lost with the server's connection.          *)
Reject(r) ==
    /\ r \in requests /\ Trouble
    /\ requests' = requests \ {r}
    /\ \/ UNCHANGED <<storage, lock, view, armed, run, slipped>>
       \/ /\ r.from # None /\ view[r.from] = "up"
          /\ Finish(r.from, run[r.from].records)
          /\ UNCHANGED enabled
    /\ UNCHANGED <<server, whole>>

(* The run stops waiting; the request, when it is not lost, may still take *)
(* effect.                                                                 *)
Unanswerable(w) == run[w].at = "sent" /\ \A r \in requests : r.from # w

TimeOut(w) ==
    /\ run[w].at = "sent"
    /\ \/ Unanswerable(w) /\ UNCHANGED troubles
       \/ ~Unanswerable(w) /\ Trouble
    /\ IF view[w] = "stopped" THEN Abort(w) ELSE Finish(w, run[w].records)
    /\ requests' = {IF r.from = w THEN [r EXCEPT !.from = None] ELSE r : r \in requests}
    /\ UNCHANGED <<server, enabled, whole>>

-----------------------------------------------------------------------------
(* The user, the windows and time.                                         *)

Pin(t) ==
    /\ Trouble /\ Exists(t)
    /\ pinned' = IF t \in pinned THEN pinned \ {t} ELSE pinned \union {t}
    /\ UNCHANGED <<place, dormant, shown, storage, views, history>>

(* A window shows another task or none; the user may work in it.           *)
Show(w) ==
    /\ Trouble /\ view[w] = "up"
    /\ \E t \in {u \in Task : Exists(u)} \union {None} :
         /\ shown' = [shown EXCEPT ![w] = t]
         /\ dormant' \in IF t \in In("active") THEN {dormant, dormant \ {t}} ELSE {dormant}
    /\ UNCHANGED <<place, pinned, storage, views, history>>

ArchiveByHand(t) ==
    /\ Trouble /\ place[t] = "active"
    /\ place' = [place EXCEPT ![t] = "archived"]
    /\ UNCHANGED <<dormant, pinned, shown, storage, views, history>>

(* History: a record that is stored, or that a run will write, is stale.   *)
Restore(t) ==
    /\ Trouble /\ place[t] = "archived"
    /\ place' = [place EXCEPT ![t] = "active"]
    /\ whole' = whole \ {t}
    /\ slipped' = IF records[t] # "none" \/ \E w \in View : t \in run[w].archived
                  THEN slipped \union {t} ELSE slipped
    /\ UNCHANGED <<dormant, pinned, shown, storage, views>>

(* setAutoArchive.                                                         *)
SwitchOff(w) ==
    /\ Trouble /\ view[w] = "up"
    /\ run' = [run EXCEPT ![w].valid = FALSE]
    /\ armed' = [armed EXCEPT ![w] = FALSE]
    /\ enabled' = FALSE /\ records' = NoRecords
    /\ slipped' = {}
    /\ UNCHANGED <<server, lease, lock, view, requests, whole>>

(* History: a run of another view does not notice.                         *)
SwitchOn(w) ==
    /\ Trouble /\ view[w] = "up" /\ ~enabled
    /\ run' = [v \in View |-> IF v = w THEN [run[w] EXCEPT !.valid = FALSE]
                              ELSE [run[v] EXCEPT !.crossed = Pending(v)]]
    /\ armed' = [armed EXCEPT ![w] = @ \/ ~Pending(w)]
    /\ enabled' = TRUE
    /\ whole' = {}
    /\ UNCHANGED <<server, records, lease, lock, view, requests, slipped>>

(* uninstall: a run under way goes on until its next step fails.           *)
Uninstall(w) ==
    /\ Trouble /\ view[w] = "up"
    /\ view' = [view EXCEPT ![w] = IF run[w].at = "idle" THEN "gone" ELSE "stopped"]
    /\ armed' = [armed EXCEPT ![w] = FALSE]
    /\ run' = [run EXCEPT ![w].valid = FALSE]
    /\ shown' = [shown EXCEPT ![w] = None]
    /\ UNCHANGED <<place, dormant, pinned, storage, lock, requests, history>>

(* The window goes: its Web Lock with it, its lease and requests without.  *)
Close(w) ==
    /\ Trouble /\ view[w] # "gone"
    /\ view' = [view EXCEPT ![w] = "gone"]
    /\ armed' = [armed EXCEPT ![w] = FALSE]
    /\ run' = [run EXCEPT ![w] = NoRun]
    /\ shown' = [shown EXCEPT ![w] = None]
    /\ lock' = IF lock = w THEN None ELSE lock
    /\ lease' = IF lease.owner = w THEN [lease EXCEPT !.owner = Gone] ELSE lease
    /\ requests' = {IF r.from = w THEN [r EXCEPT !.from = None] ELSE r : r \in requests}
    /\ UNCHANGED <<place, dormant, pinned, enabled, records, history>>

(* A view is installed and renders.                                        *)
Open(w) ==
    /\ Trouble /\ view[w] = "gone"
    /\ view' = [view EXCEPT ![w] = "up"]
    /\ armed' = [armed EXCEPT ![w] = enabled]
    /\ UNCHANGED <<server, storage, lock, run, requests, history>>

(* render sets a timer that is missing.                                    *)
Render(w) ==
    /\ view[w] = "up" /\ enabled /\ ~Pending(w) /\ ~armed[w]
    /\ armed' = [armed EXCEPT ![w] = TRUE]
    /\ UNCHANGED <<server, storage, lock, view, run, requests, history, troubles>>

(* The lease of a window that is gone runs out.                            *)
LeaseExpires ==
    /\ lease.live /\ lease.owner = Gone
    /\ lease' = [lease EXCEPT !.live = FALSE]
    /\ UNCHANGED <<server, enabled, records, views, history, troubles>>

Aged(recs) == [t \in Task |-> IF recs[t] = "none" THEN "none" ELSE "due"]

AnyPending == \E w \in View : Pending(w)

(* In the middle of a run only a computer that was suspended sees it pass. *)
WeekPasses ==
    /\ IF AnyPending THEN Trouble ELSE UNCHANGED troubles
    /\ dormant' = {t \in Task : Exists(t)}
    /\ whole' = whole \union In("archived")
    /\ records' = Aged(records)
    /\ run' = [w \in View |-> IF Pending(w)
                  THEN [run[w] EXCEPT !.late = TRUE, !.records = Aged(@)] ELSE run[w]]
    /\ lease' = [lease EXCEPT !.live = FALSE]
    /\ UNCHANGED <<place, pinned, shown, enabled, lock, view, armed, requests,
                   slipped>>

-----------------------------------------------------------------------------

(* What speaks against an operation on a task.                             *)
Against(op, t, why) ==
    LET children == {c \in Task : Parent[c] = t}
    IN CASE why = "pinned" -> t \in pinned
         [] why = "loaded" -> Loaded(t)
         [] why = "place" -> place[t] # IF op = "delete" THEN "archived" ELSE "active"
         [] why = "recent" -> op = "archive" /\ t \notin dormant
         [] why = "activeChild" -> \E c \in children : place[c] = "active"
         [] why = "archivedChild" -> \E c \in children : place[c] = "archived"

(* History: what has spoken against the run's task ever since the first    *)
(* answer of the revalidation.                                             *)
Watch ==
    kept' = [w \in View |->
        {why \in IF run[w].at = "rpins" THEN Reason ELSE kept[w] :
            /\ run'[w].at \in Rechecking \ {"rpins"}
            /\ \E op \in Op, t \in Task :
                  /\ run'[w].op = op /\ run'[w].task = t
                  /\ Against(op, t, why)'}]

RunOf(w) ==
    \/ Start(w) \/ ListActive(w) \/ ListArchived(w) \/ NothingToDo(w) \/ Choose(w)
    \/ ReadPinsAgain(w) \/ Send(w) \/ NoLongerEligible(w)

Next ==
    \/ \E w \in View :
         \/ Fire(w) /\ Watch
         \/ Start(w) /\ Watch
         \/ ListActive(w) /\ Watch
         \/ ListArchived(w) /\ Watch
         \/ NothingToDo(w) /\ Watch
         \/ Choose(w) /\ Watch
         \/ ReadPinsAgain(w) /\ Watch
         \/ Send(w) /\ Watch
         \/ NoLongerEligible(w) /\ Watch
         \/ Fails(w) /\ Watch
         \/ TimeOut(w) /\ Watch
         \/ Renew(w) /\ Watch
         \/ Stall(w) /\ Watch
         \/ Render(w) /\ Watch
         \/ Show(w) /\ Watch
         \/ SwitchOff(w) /\ Watch
         \/ SwitchOn(w) /\ Watch
         \/ Uninstall(w) /\ Watch
         \/ Close(w) /\ Watch
         \/ Open(w) /\ Watch
    \/ \E r \in requests : Serve(r) /\ Watch
    \/ \E r \in requests : Reject(r) /\ Watch
    \/ \E t \in Task : Pin(t) /\ Watch
    \/ \E t \in Task : ArchiveByHand(t) /\ Watch
    \/ \E t \in Task : Restore(t) /\ Watch
    \/ LeaseExpires /\ Watch
    \/ WeekPasses /\ Watch

Spec == Init /\ [][Next]_vars

MustFail(w) == (run[w].late \/ view[w] = "stopped") /\ Fails(w)

(* A timer fires, a bridge and a listing answer or are given up, time      *)
(* passes; the server settles what it has accepted.                        *)
Fairness ==
    /\ \A w \in View :
         /\ WF_vars(Fire(w) /\ Watch)
         /\ WF_vars((RunOf(w) \/ MustFail(w)) /\ Watch)
         /\ WF_vars(Unanswerable(w) /\ TimeOut(w) /\ Watch)
    /\ WF_vars((\E r \in requests : Serve(r)) /\ Watch)
    /\ WF_vars(LeaseExpires /\ Watch)
    /\ SF_vars(~AnyPending /\ WeekPasses /\ Watch)

FairSpec == Spec /\ Fairness

-----------------------------------------------------------------------------

(* Never two runs at once, whatever windows froze, closed or let their     *)
(* lease expire: the runs share the records and the tasks they look at.    *)
OneAtATime == \A v, w \in View : Pending(v) /\ Pending(w) => v = w

(* While cleanup is off nothing is tracked, also when a window turned it   *)
(* off in the middle of another window's run.                              *)
TrackingEndsWithSwitch == ~enabled => records = NoRecords

(* A request is sent for a task only if nothing has spoken against it ever *)
(* since the revalidation began to read: not a pin, an open window, a      *)
(* restore, an activity or a child, at whatever moment of the run it came. *)
KeptIsSpared == [][\A r \in requests' \ requests : r.from # None => kept[r.from] = {}]_vars

(* What is deleted was in the archive for a whole week of recovery, unless *)
(* its record outlived a restore that no run noticed, or a switching off   *)
(* and on in another window during a run.                                  *)
DeletedAfterRecovery ==
    [][\A r \in requests' \ requests :
          r.op = "delete" /\ r.from # None => r.task \in whole \union slipped]_vars

(* A view that was waiting for its next run, or in one, goes on to the     *)
(* next whatever happens to the run, while cleanup is on and the view up.  *)
StaysScheduled ==
    [][\A w \in View :
          /\ armed[w] \/ run[w].at # "idle"
          /\ enabled' /\ view[w] = "up" /\ view'[w] = "up"
          => armed'[w] \/ run'[w].at # "idle"]_vars

(* No task stays a candidate for ever: what the user leaves alone is       *)
(* archived and then deleted, children before their parent, while cleanup  *)
(* is on and some view has its timer or a run.                             *)
LeftAlone(t) ==
    /\ enabled /\ \E w \in View : view[w] = "up" /\ (armed[w] \/ run[w].at # "idle")
    /\ Exists(t) /\ t \notin pinned /\ ~Loaded(t)
    /\ \A c \in Task : Parent[c] = t => ~Exists(c)

IdleTasksGo == \A t \in Task : []<>~LeftAlone(t)

(* Cleanup goes on: neither a view nor a task is forgotten.                *)
CleanupGoesOn == StaysScheduled /\ IdleTasksGo
=============================================================================
