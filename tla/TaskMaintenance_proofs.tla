------------------------ MODULE TaskMaintenance_proofs ------------------------
(***************************************************************************)
(* Proofs about the automatic cleanup, for any windows, tasks and troubles. *)
(*                                                                         *)
(* Type correctness comes first.  That runs exclude each other is not      *)
(* inductive by itself: what is preserved is that every run, from the      *)
(* moment its view got the Web Lock, still has it.  That nothing is        *)
(* tracked while cleanup is off is inductive together with the types.      *)
(*                                                                         *)
(* That a request spares what should be kept rests on what each answer of  *)
(* the revalidation has caught (Seen): each reason that has held since it  *)
(* began held when the answer was read that could show it.  That a task is *)
(* deleted only after a week of recovery rests on what the stored records, *)
(* and those a run carries along, say of the tasks (Stored, Listed), on    *)
(* the exclusion of runs, and on a view waiting for the one answer to the  *)
(* one request it sent.                                                    *)
(***************************************************************************)
EXTENDS TaskMaintenance, TLAPS

(* TypeOK but for the history variable kept, which only Watch changes.     *)
Typed ==
    /\ place \in [Task -> Place]
    /\ dormant \subseteq Task /\ pinned \subseteq Task
    /\ shown \in [View -> Task \union {None}]
    /\ enabled \in BOOLEAN
    /\ records \in [Task -> Record]
    /\ lease \in [owner : View \union {None, Gone}, live : BOOLEAN]
    /\ lock \in View \union {None}
    /\ view \in [View -> {"up", "stopped", "gone"}]
    /\ armed \in [View -> BOOLEAN]
    /\ run \in [View -> RunType]
    /\ requests \subseteq [op : Op, task : Task, from : View \union {None}]
    /\ whole \subseteq Task /\ slipped \subseteq Task
    /\ troubles \in 0..MaxTroubles

(* A run has the Web Lock of its view.                                     *)
LockHeld == \A v \in View : run[v].at # "idle" => lock = v

IInv == Typed /\ LockHeld /\ TrackingEndsWithSwitch

-----------------------------------------------------------------------------
(* Values of runs and records.                                             *)

LEMMA NoRunTyped == NoRun \in RunType
  BY DEF NoRun, NoRecords, RunType, Record, Looking, Rechecking, Op

LEMMA BeginTyped ==
    /\ [NoRun EXCEPT !.at = "bridge"] \in RunType
    /\ [NoRun EXCEPT !.at = "active", !.valid = TRUE] \in RunType
  BY DEF NoRun, NoRecords, RunType, Record, Looking, Rechecking, Op

LEMMA ParentsTyped == ASSUME NEW S \in SUBSET Task PROVE ParentsOf(S) \subseteq Task
  BY ParentAssumption DEF ParentsOf

LEMMA SynchronizedTyped ==
    ASSUME NEW old \in [Task -> Record], NEW archived \in SUBSET Task
    PROVE  Synchronized(old, archived) \in [Task -> Record]
  BY DEF Synchronized, Record

LEMMA AgedTyped == ASSUME NEW recs \in [Task -> Record] PROVE Aged(recs) \in [Task -> Record]
  BY DEF Aged, Record

LEMMA AgedNothing == Aged(NoRecords) = NoRecords
  BY DEF Aged, NoRecords

LEMMA LeasedTyped ==
    ASSUME NEW w \in View
    PROVE  Leased(w) \in [owner : View \union {None, Gone}, live : BOOLEAN]
  BY DEF Leased

(* A trouble stays within its bound.                                       *)
LEMMA TroubleTyped == ASSUME Typed, Trouble PROVE troubles' \in 0..MaxTroubles
  BY BoundAssumption DEF Typed, Trouble

(* The steps of a run change some of its fields.                           *)

LEMMA MovedTyped ==
    ASSUME NEW r \in RunType, NEW p \in Looking \union Rechecking \union {"sent"},
           NEW A \in SUBSET Task, NEW B \in SUBSET Task, NEW C \in SUBSET Task
    PROVE  /\ [r EXCEPT !.at = p, !.ready = A, !.parents = B] \in RunType
           /\ [r EXCEPT !.at = p, !.archived = A, !.cold = B, !.parents = C] \in RunType
           /\ [r EXCEPT !.at = p, !.pins = A] \in RunType
           /\ [r EXCEPT !.at = p, !.ready = {}, !.parents = {}, !.cold = {}, !.pins = {}]
                 \in RunType
  BY DEF RunType, Looking, Rechecking

LEMMA ChosenTyped ==
    ASSUME NEW r \in RunType, NEW op \in Op, NEW t \in Task, NEW recs \in [Task -> Record]
    PROVE  [r EXCEPT !.at = "rpins", !.op = op, !.task = t, !.records = recs,
                     !.ready = {}, !.parents = {}, !.cold = {}] \in RunType
  BY DEF RunType, Rechecking

LEMMA MarkedTyped ==
    ASSUME NEW r \in RunType, NEW recs \in [Task -> Record], NEW x \in BOOLEAN
    PROVE  /\ [r EXCEPT !.valid = FALSE] \in RunType
           /\ [r EXCEPT !.late = TRUE] \in RunType
           /\ [r EXCEPT !.crossed = x] \in RunType
           /\ [r EXCEPT !.late = TRUE, !.records = recs] \in RunType
           /\ [r EXCEPT !.valid = FALSE].at = r.at
           /\ [r EXCEPT !.crossed = x].at = r.at
           /\ [r EXCEPT !.late = TRUE, !.records = recs].at = r.at
  BY DEF RunType

LEMMA FieldsTyped ==
    ASSUME IInv, NEW w \in View
    PROVE  /\ run[w] \in RunType /\ run[w].op \in Op /\ run[w].task \in Task \union {None}
           /\ run[w].ready \in SUBSET Task /\ run[w].parents \in SUBSET Task
           /\ run[w].archived \in SUBSET Task /\ run[w].cold \in SUBSET Task
           /\ run[w].pins \in SUBSET Task /\ run[w].records \in [Task -> Record]
  BY DEF IInv, Typed, RunType

(* The next run of a view that goes on with its run.                       *)
LEMMA AdvanceKeeps ==
    ASSUME IInv, NEW w \in View, NEW r \in RunType, run[w].at # "idle",
           run' = [run EXCEPT ![w] = r], lock' = lock
    PROVE  run' \in [View -> RunType] /\ LockHeld'
  BY DEF IInv, Typed, LockHeld

(* Runs that stay where they are.                                          *)
LEMMA StayingKeeps ==
    ASSUME IInv, run' \in [View -> RunType], lock' = lock,
           \A v \in View : run'[v].at = run[v].at
    PROVE  LockHeld'
  BY DEF IInv, LockHeld

-----------------------------------------------------------------------------
(* The end of a run.                                                       *)

EndTyped ==
    /\ run \in [View -> RunType] /\ lock \in View \union {None}
    /\ lease \in [owner : View \union {None, Gone}, live : BOOLEAN]
    /\ view \in [View -> {"up", "stopped", "gone"}]
    /\ armed \in [View -> BOOLEAN]

LEMMA EndKeeps ==
    ASSUME IInv, NEW w \in View, End(w), enabled' = enabled
    PROVE  EndTyped' /\ LockHeld'
<1>1. run' \in [View -> RunType]
  BY NoRunTyped DEF IInv, Typed, End
<1>2. armed' \in [View -> BOOLEAN]
  BY DEF IInv, Typed, End, Schedule
<1>3. /\ lock' \in View \union {None}
      /\ lease' \in [owner : View \union {None, Gone}, live : BOOLEAN]
      /\ view' \in [View -> {"up", "stopped", "gone"}]
  BY DEF IInv, Typed, End, NoLease
<1>4. LockHeld'
  <2> SUFFICES ASSUME NEW v \in View, run'[v].at # "idle" PROVE lock' = v
    BY DEF LockHeld
  <2>1. run'[w].at = "idle"
    BY DEF IInv, Typed, End, NoRun
  <2>2. run[v].at # "idle" /\ v # w
    BY <2>1 DEF IInv, Typed, End
  <2> QED BY <2>2, NoneAssumption DEF IInv, LockHeld, End
<1> QED BY <1>1, <1>2, <1>3, <1>4 DEF EndTyped

LEMMA AbortKeeps ==
    ASSUME IInv, NEW w \in View, Abort(w), enabled' = enabled
    PROVE  /\ EndTyped' /\ LockHeld' /\ TrackingEndsWithSwitch'
           /\ records' \in [Task -> Record] /\ slipped' \subseteq Task
<1>1. End(w) /\ records' = records /\ slipped' \subseteq slipped
  BY DEF Abort, Unrecorded
<1> QED BY <1>1, EndKeeps DEF IInv, Typed, TrackingEndsWithSwitch

LEMMA FinishKeeps ==
    ASSUME IInv, NEW w \in View, NEW STATE recs, recs \in [Task -> Record],
           Finish(w, recs), enabled' = enabled
    PROVE  /\ EndTyped' /\ LockHeld' /\ TrackingEndsWithSwitch'
           /\ records' \in [Task -> Record] /\ slipped' \subseteq Task
<1>1. EndTyped' /\ LockHeld'
  BY EndKeeps DEF Finish
<1>2. run[w].archived \subseteq Task
  BY DEF IInv, Typed, RunType
<1>3. CASE MayRecord(w)
  <2>1. records' = recs /\ slipped' \subseteq slipped \union run[w].archived /\ enabled
    BY <1>3 DEF Finish, MayRecord
  <2> QED BY <1>1, <1>2, <2>1 DEF IInv, Typed, TrackingEndsWithSwitch
<1>4. CASE ~MayRecord(w)
  <2>1. records' = records /\ slipped' \subseteq slipped
    BY <1>4 DEF Finish, Unrecorded
  <2> QED BY <1>1, <2>1 DEF IInv, Typed, TrackingEndsWithSwitch
<1> QED BY <1>3, <1>4

-----------------------------------------------------------------------------
(* The steps of a run.                                                     *)

LEMMA FireKeeps == ASSUME IInv, NEW w \in View, Fire(w) PROVE IInv'
<1>1. CASE enabled /\ ~Pending(w) /\ lock = None
  <2>1. run' = [run EXCEPT ![w] = [NoRun EXCEPT !.at = "bridge"]] /\ lock' = w
    BY <1>1 DEF Fire, Advance
  <2>2. run' \in [View -> RunType]
    BY <2>1, BeginTyped DEF IInv, Typed
  <2>3. LockHeld'
    BY <1>1, <2>1, NoneAssumption DEF IInv, Typed, LockHeld
  <2> QED BY <1>1, <2>1, <2>2, <2>3 DEF IInv, Typed, TrackingEndsWithSwitch, Fire, server, storage, history
<1>2. CASE ~(enabled /\ ~Pending(w) /\ lock = None)
  <2>1. run' = run /\ lock' = lock
    BY <1>2 DEF Fire
  <2> QED BY <1>2, <2>1 DEF IInv, Typed, LockHeld, TrackingEndsWithSwitch, Fire, server, storage, history, Pending
<1> QED BY <1>1, <1>2

LEMMA StartKeeps == ASSUME IInv, NEW w \in View, Start(w) PROVE IInv'
<1>1. CASE CanLease(w)
  <2>1. run' \in [View -> RunType] /\ LockHeld'
    BY <1>1, BeginTyped, AdvanceKeeps DEF Start, Advance
  <2>2. lease' \in [owner : View \union {None, Gone}, live : BOOLEAN]
    BY <1>1, LeasedTyped DEF Start
  <2> QED BY <1>1, <2>1, <2>2 DEF IInv, Typed, TrackingEndsWithSwitch, Start, server, history
<1>2. CASE ~CanLease(w)
  <2>1. EndTyped' /\ LockHeld'
    BY <1>2, EndKeeps DEF Start
  <2> QED BY <1>2, <2>1 DEF IInv, Typed, EndTyped, TrackingEndsWithSwitch, Start, server, history
<1> QED BY <1>1, <1>2

LEMMA ListActiveKeeps == ASSUME IInv, NEW w \in View, ListActive(w) PROVE IInv'
<1> DEFINE p == IF run[w].at = "active" THEN "archived" ELSE "rarchived"
           A == {t \in In("active") \intersect dormant : ~Loaded(t)}
           B == ParentsOf(In("active"))
<1>1. run' = [run EXCEPT ![w] = [run[w] EXCEPT !.at = p, !.ready = A, !.parents = B]]
  BY DEF ListActive, Advance
<1>2. p \in Looking \union Rechecking \union {"sent"} /\ A \in SUBSET Task /\ B \in SUBSET Task
  BY ParentsTyped DEF Looking, Rechecking, In
<1> HIDE DEF p, A, B
<1>3. run' \in [View -> RunType] /\ LockHeld'
  BY <1>1, <1>2, MovedTyped, FieldsTyped, AdvanceKeeps DEF ListActive
<1> QED BY <1>3 DEF IInv, Typed, TrackingEndsWithSwitch, ListActive, server, storage, history

LEMMA ListArchivedKeeps == ASSUME IInv, NEW w \in View, ListArchived(w) PROVE IInv'
<1> DEFINE A == In("archived")
           B == {t \in In("archived") : ~Loaded(t)}
           C == run[w].parents \union ParentsOf(In("archived"))
<1>1. run' = [run EXCEPT ![w] = [run[w] EXCEPT !.at = "pins", !.archived = A, !.cold = B,
                                              !.parents = C]]
  BY FieldsTyped DEF ListArchived, Advance, RunType
<1>2. A \in SUBSET Task /\ B \in SUBSET Task /\ C \in SUBSET Task
  BY ParentsTyped, FieldsTyped DEF In
<1>3. "pins" \in Looking \union Rechecking \union {"sent"}
  BY DEF Looking
<1> HIDE DEF A, B, C
<1>4. run' \in [View -> RunType] /\ LockHeld'
  BY <1>1, <1>2, <1>3, MovedTyped, FieldsTyped, AdvanceKeeps DEF ListArchived
<1> QED BY <1>4 DEF IInv, Typed, TrackingEndsWithSwitch, ListArchived, server, storage, history

LEMMA ChooseKeeps == ASSUME IInv, NEW w \in View, Choose(w) PROVE IInv'
<1> DEFINE recs == Synchronized(records, run[w].archived)
<1>1. recs \in [Task -> Record]
  BY SynchronizedTyped, FieldsTyped DEF IInv, Typed
<1>2. PICK op \in Op : \E t \in Candidates(w, op) :
          run' = [run EXCEPT ![w] = [run[w] EXCEPT !.at = "rpins", !.op = op, !.task = t,
                      !.records = recs, !.ready = {}, !.parents = {}, !.cold = {}]]
  BY DEF Choose, Advance
<1>3. Candidates(w, op) \subseteq Task
  BY FieldsTyped DEF Candidates, Deletable, Archivable
<1> HIDE DEF recs
<1>4. PICK r \in RunType : run' = [run EXCEPT ![w] = r]
  BY <1>1, <1>2, <1>3, ChosenTyped, FieldsTyped
<1>5. run' \in [View -> RunType] /\ LockHeld'
  BY <1>4, AdvanceKeeps DEF Choose
<1> QED BY <1>5 DEF IInv, Typed, TrackingEndsWithSwitch, Choose, server, history, Leased

LEMMA ReadPinsAgainKeeps == ASSUME IInv, NEW w \in View, ReadPinsAgain(w) PROVE IInv'
<1>1. /\ pinned \in SUBSET Task
      /\ "ractive" \in Looking \union Rechecking \union {"sent"}
  BY DEF IInv, Typed, Rechecking
<1>2. [run[w] EXCEPT !.at = "ractive", !.pins = pinned] \in RunType
  BY <1>1, MovedTyped, FieldsTyped
<1>3. run' \in [View -> RunType] /\ LockHeld'
  BY <1>2, AdvanceKeeps DEF ReadPinsAgain, Advance
<1> QED BY <1>3 DEF IInv, Typed, TrackingEndsWithSwitch, ReadPinsAgain, server, storage, history

LEMMA SendKeeps == ASSUME IInv, NEW w \in View, Send(w) PROVE IInv'
<1>1. "sent" \in Looking \union Rechecking \union {"sent"} /\ {} \in SUBSET Task
  OBVIOUS
<1>2. [run[w] EXCEPT !.at = "sent", !.ready = {}, !.parents = {}, !.cold = {}, !.pins = {}]
          \in RunType
  BY <1>1, MovedTyped, FieldsTyped
<1>3. run' \in [View -> RunType] /\ LockHeld'
  BY <1>2, AdvanceKeeps DEF Send, Advance
<1>4. run[w].task \in Task
  <2>1. run[w].cold \subseteq Task /\ run[w].ready \subseteq Task
    BY FieldsTyped
  <2> QED BY <2>1 DEF Send, StillEligible, Deletable, Archivable, In
<1>5. requests' \subseteq [op : Op, task : Task, from : View \union {None}]
  BY <1>4, FieldsTyped DEF IInv, Typed, Send
<1> QED BY <1>3, <1>5 DEF IInv, Typed, TrackingEndsWithSwitch, Send, server, history, Leased

LEMMA StallKeeps == ASSUME IInv, NEW w \in View, Stall(w) PROVE IInv'
<1>1. [run[w] EXCEPT !.late = TRUE] \in RunType
  BY MarkedTyped, FieldsTyped
<1>2. run' \in [View -> RunType] /\ LockHeld'
  BY <1>1, AdvanceKeeps DEF Stall, Advance, Pending
<1> QED BY <1>2, TroubleTyped DEF IInv, Typed, TrackingEndsWithSwitch, Stall, server, history

LEMMA RenewKeeps == ASSUME IInv, NEW w \in View, Renew(w) PROVE IInv'
<1>1. run' \in [View -> RunType] /\ LockHeld'
  <2>1. CASE CanLease(w)
    BY <2>1 DEF IInv, Typed, LockHeld, Renew
  <2>2. CASE ~CanLease(w)
    <3>1. [run[w] EXCEPT !.valid = FALSE] \in RunType
      BY MarkedTyped, FieldsTyped
    <3> QED BY <2>2, <3>1, AdvanceKeeps DEF Renew, Advance, Pending
  <2> QED BY <2>1, <2>2
<1>2. lease' \in [owner : View \union {None, Gone}, live : BOOLEAN]
  BY LeasedTyped DEF Renew, IInv, Typed
<1> QED BY <1>1, <1>2 DEF IInv, Typed, TrackingEndsWithSwitch, Renew, server, history

LEMMA NothingToDoKeeps == ASSUME IInv, NEW w \in View, NothingToDo(w) PROVE IInv'
<1>1. /\ EndTyped' /\ LockHeld' /\ TrackingEndsWithSwitch'
      /\ records' \in [Task -> Record] /\ slipped' \subseteq Task
  <2>1. Synchronized(records, run[w].archived) \in [Task -> Record]
    BY SynchronizedTyped DEF IInv, Typed, RunType
  <2> QED BY <2>1, FinishKeeps DEF NothingToDo
<1> QED BY <1>1, TroubleTyped DEF IInv, Typed, EndTyped, NothingToDo, server

LEMMA NoLongerEligibleKeeps == ASSUME IInv, NEW w \in View, NoLongerEligible(w) PROVE IInv'
<1>1. /\ EndTyped' /\ LockHeld' /\ TrackingEndsWithSwitch'
      /\ records' \in [Task -> Record] /\ slipped' \subseteq Task
  <2>1. run[w].records \in [Task -> Record]
    BY DEF IInv, Typed, RunType
  <2> QED BY <2>1, FinishKeeps DEF NoLongerEligible
<1> QED BY <1>1, TroubleTyped DEF IInv, Typed, EndTyped, NoLongerEligible, server

LEMMA FailsKeeps == ASSUME IInv, NEW w \in View, Fails(w) PROVE IInv'
<1>1. /\ EndTyped' /\ LockHeld' /\ TrackingEndsWithSwitch'
      /\ records' \in [Task -> Record] /\ slipped' \subseteq Task
  <2>1. run[w].records \in [Task -> Record]
    BY DEF IInv, Typed, RunType
  <2> QED BY <2>1, FinishKeeps, AbortKeeps DEF Fails
<1> QED BY <1>1, TroubleTyped DEF IInv, Typed, EndTyped, Fails, server

LEMMA TimeOutKeeps == ASSUME IInv, NEW w \in View, TimeOut(w) PROVE IInv'
<1>1. /\ EndTyped' /\ LockHeld' /\ TrackingEndsWithSwitch'
      /\ records' \in [Task -> Record] /\ slipped' \subseteq Task
  <2>1. run[w].records \in [Task -> Record]
    BY DEF IInv, Typed, RunType
  <2> QED BY <2>1, FinishKeeps, AbortKeeps DEF TimeOut
<1>2. requests' \subseteq [op : Op, task : Task, from : View \union {None}]
  BY DEF IInv, Typed, TimeOut
<1> QED BY <1>1, <1>2, TroubleTyped DEF IInv, Typed, EndTyped, TimeOut, server

-----------------------------------------------------------------------------
(* The server and its answer.                                              *)

LEMMA ServeKeeps == ASSUME IInv, NEW r \in requests, Serve(r) PROVE IInv'
<1>1. /\ r \in [op : Op, task : Task, from : View \union {None}]
      /\ place' \in [Task -> Place]
  BY DEF IInv, Typed, Serve, Place
<1>2. /\ EndTyped' /\ LockHeld' /\ TrackingEndsWithSwitch' /\ enabled' = enabled
      /\ records' \in [Task -> Record] /\ slipped' \subseteq Task
  <2>1. CASE r.from = None
    BY <2>1 DEF IInv, Typed, EndTyped, LockHeld, TrackingEndsWithSwitch, Serve, storage
  <2>2. CASE r.from # None
    <3>1. r.from \in View /\ enabled' = enabled
      BY <1>1, <2>2 DEF Serve
    <3>2. run[r.from].records \in [Task -> Record]
      BY <3>1 DEF IInv, Typed, RunType
    <3>3. Outcome(r).records \in [Task -> Record]
      BY <1>1, <3>2 DEF Outcome, Record
    <3>4. \/ Abort(r.from) \/ Finish(r.from, Outcome(r).records)
          \/ Finish(r.from, run[r.from].records)
      BY <2>2 DEF Serve
    <3> QED BY <3>1, <3>2, <3>3, <3>4, FinishKeeps, AbortKeeps
  <2> QED BY <2>1, <2>2
<1> QED BY <1>1, <1>2 DEF IInv, Typed, EndTyped, Serve

LEMMA RejectKeeps == ASSUME IInv, NEW r \in requests, Reject(r) PROVE IInv'
<1>1. /\ EndTyped' /\ LockHeld' /\ TrackingEndsWithSwitch' /\ enabled' = enabled
      /\ records' \in [Task -> Record] /\ slipped' \subseteq Task
  <2>1. CASE UNCHANGED <<storage, lock, view, armed, run, slipped>>
    BY <2>1 DEF IInv, Typed, EndTyped, LockHeld, TrackingEndsWithSwitch, storage
  <2>2. CASE r.from # None /\ Finish(r.from, run[r.from].records) /\ UNCHANGED enabled
    <3>1. r.from \in View
      BY <2>2 DEF IInv, Typed
    <3>2. run[r.from].records \in [Task -> Record]
      BY <3>1 DEF IInv, Typed, RunType
    <3> QED BY <2>2, <3>1, <3>2, FinishKeeps
  <2> QED BY <2>1, <2>2 DEF Reject
<1> QED BY <1>1, TroubleTyped DEF IInv, Typed, EndTyped, Reject, server

-----------------------------------------------------------------------------
(* The user, the windows and time.                                         *)

LEMMA PinKeeps == ASSUME IInv, NEW t \in Task, Pin(t) PROVE IInv'
  BY TroubleTyped DEF IInv, Typed, LockHeld, TrackingEndsWithSwitch, Pin, storage, views, history, Place, server

LEMMA ArchiveByHandKeeps == ASSUME IInv, NEW t \in Task, ArchiveByHand(t) PROVE IInv'
  BY TroubleTyped DEF IInv, Typed, LockHeld, TrackingEndsWithSwitch, ArchiveByHand, storage, views, history, Place, server

LEMMA RestoreKeeps == ASSUME IInv, NEW t \in Task, Restore(t) PROVE IInv'
  BY TroubleTyped DEF IInv, Typed, LockHeld, TrackingEndsWithSwitch, Restore, storage, views, history, Place, server

LEMMA ShowKeeps == ASSUME IInv, NEW w \in View, Show(w) PROVE IInv'
  BY TroubleTyped DEF IInv, Typed, LockHeld, TrackingEndsWithSwitch, Show, storage, views, history, server

LEMMA RenderKeeps == ASSUME IInv, NEW w \in View, Render(w) PROVE IInv'
  BY TroubleTyped DEF IInv, Typed, LockHeld, TrackingEndsWithSwitch, Render, storage, views, history, server

LEMMA OpenKeeps == ASSUME IInv, NEW w \in View, Open(w) PROVE IInv'
  BY TroubleTyped DEF IInv, Typed, LockHeld, TrackingEndsWithSwitch, Open, storage, views, history, server

LEMMA LeaseExpiresKeeps == ASSUME IInv, LeaseExpires PROVE IInv'
  BY DEF IInv, Typed, LockHeld, TrackingEndsWithSwitch, LeaseExpires, server, views, history

LEMMA SwitchOffKeeps == ASSUME IInv, NEW w \in View, SwitchOff(w) PROVE IInv'
<1>1. run' \in [View -> RunType] /\ LockHeld'
  <2>1. run' = [run EXCEPT ![w] = [run[w] EXCEPT !.valid = FALSE]]
    BY DEF SwitchOff
  <2>3. run' \in [View -> RunType] /\ \A v \in View : run'[v].at = run[v].at
    BY <2>1, MarkedTyped, FieldsTyped DEF IInv, Typed
  <2> QED BY <2>3, StayingKeeps DEF SwitchOff
<1> QED BY <1>1, TroubleTyped DEF IInv, Typed, TrackingEndsWithSwitch, SwitchOff, server, NoRecords, Record

LEMMA SwitchOnKeeps == ASSUME IInv, NEW w \in View, SwitchOn(w) PROVE IInv'
<1>1. run' \in [View -> RunType] /\ LockHeld'
  <2>1. run' = [v \in View |-> IF v = w THEN [run[w] EXCEPT !.valid = FALSE]
                               ELSE [run[v] EXCEPT !.crossed = Pending(v)]]
    BY DEF SwitchOn
  <2>2. \A v \in View : Pending(v) \in BOOLEAN
    BY DEF Pending
  <2>3. run' \in [View -> RunType] /\ \A v \in View : run'[v].at = run[v].at
    BY <2>1, <2>2, MarkedTyped, FieldsTyped
  <2> QED BY <2>3, StayingKeeps DEF SwitchOn
<1> QED BY <1>1, TroubleTyped DEF IInv, Typed, TrackingEndsWithSwitch, SwitchOn, server

LEMMA UninstallKeeps == ASSUME IInv, NEW w \in View, Uninstall(w) PROVE IInv'
<1>1. run' \in [View -> RunType] /\ LockHeld'
  <2>1. run' = [run EXCEPT ![w] = [run[w] EXCEPT !.valid = FALSE]]
    BY DEF Uninstall
  <2>3. run' \in [View -> RunType] /\ \A v \in View : run'[v].at = run[v].at
    BY <2>1, MarkedTyped, FieldsTyped DEF IInv, Typed
  <2> QED BY <2>3, StayingKeeps DEF Uninstall
<1> QED BY <1>1, TroubleTyped DEF IInv, Typed, TrackingEndsWithSwitch, Uninstall, storage, history

LEMMA CloseKeeps == ASSUME IInv, NEW w \in View, Close(w) PROVE IInv'
<1>1. run' \in [View -> RunType]
  BY NoRunTyped DEF IInv, Typed, Close
<1>2. LockHeld'
  <2> SUFFICES ASSUME NEW v \in View, run'[v].at # "idle" PROVE lock' = v
    BY DEF LockHeld
  <2>1. run'[w].at = "idle"
    BY DEF IInv, Typed, Close, NoRun
  <2>2. run[v].at # "idle" /\ v # w
    BY <2>1 DEF IInv, Typed, Close
  <2> QED BY <2>2, NoneAssumption DEF IInv, LockHeld, Close
<1>3. requests' \subseteq [op : Op, task : Task, from : View \union {None}]
  BY DEF IInv, Typed, Close
<1> QED BY <1>1, <1>2, <1>3, TroubleTyped DEF IInv, Typed, TrackingEndsWithSwitch, Close, history

LEMMA WeekPassesKeeps == ASSUME IInv, WeekPasses PROVE IInv'
<1>1. run' \in [View -> RunType] /\ LockHeld'
  <2>1. \A v \in View : Aged(run[v].records) \in [Task -> Record]
    BY AgedTyped, FieldsTyped
  <2>2. run' = [v \in View |-> IF Pending(v)
                   THEN [run[v] EXCEPT !.late = TRUE, !.records = Aged(run[v].records)]
                   ELSE run[v]]
    BY FieldsTyped DEF WeekPasses, RunType
  <2>3. run' \in [View -> RunType] /\ \A v \in View : run'[v].at = run[v].at
    BY <2>1, <2>2, MarkedTyped, FieldsTyped
  <2> QED BY <2>3, StayingKeeps DEF WeekPasses, views
<1>2. records' \in [Task -> Record] /\ TrackingEndsWithSwitch'
  BY AgedTyped, AgedNothing DEF IInv, Typed, TrackingEndsWithSwitch, WeekPasses
<1>3. troubles' \in 0..MaxTroubles
  BY TroubleTyped DEF WeekPasses, IInv, Typed
<1> QED BY <1>1, <1>2, <1>3 DEF IInv, Typed, WeekPasses, In

-----------------------------------------------------------------------------

LEMMA InitHolds == Init => IInv
  BY NoRunTyped, NoneAssumption, BoundAssumption
  DEF Init, IInv, Typed, LockHeld, TrackingEndsWithSwitch, NoRun, NoRecords, NoLease, Place, Record

LEMMA NextKeeps == ASSUME IInv, Next PROVE IInv'
  BY FireKeeps, StartKeeps, ListActiveKeeps, ListArchivedKeeps, NothingToDoKeeps, ChooseKeeps,
     ReadPinsAgainKeeps, SendKeeps, NoLongerEligibleKeeps, FailsKeeps, TimeOutKeeps,
     RenewKeeps, StallKeeps, RenderKeeps, ShowKeeps, SwitchOffKeeps, SwitchOnKeeps,
     UninstallKeeps, CloseKeeps, OpenKeeps, ServeKeeps, RejectKeeps, PinKeeps,
     ArchiveByHandKeeps, RestoreKeeps, LeaseExpiresKeeps, WeekPassesKeeps
  DEF Next

LEMMA StutterKeeps == ASSUME IInv, UNCHANGED vars PROVE IInv'
  BY DEF IInv, Typed, LockHeld, TrackingEndsWithSwitch, vars, server, storage, views, history

LEMMA Invariance == Spec => []IInv
<1>1. IInv /\ [Next]_vars => IInv'
  BY NextKeeps, StutterKeeps
<1> QED BY <1>1, InitHolds, PTL DEF Spec

LEMMA WatchTyped == Spec => [](kept \in [View -> SUBSET Reason])
<1>1. Init => kept \in [View -> SUBSET Reason]
  BY DEF Init
<1>2. kept \in [View -> SUBSET Reason] /\ [Next]_vars => (kept \in [View -> SUBSET Reason])'
  <2>1. Next => Watch
    BY DEF Next
  <2>2. kept \in [View -> SUBSET Reason] /\ Watch => (kept \in [View -> SUBSET Reason])'
    BY DEF Watch
  <2> QED BY <2>1, <2>2 DEF vars
<1> QED BY <1>1, <1>2, PTL DEF Spec

(* The server's tasks, what the windows share in their storage and every   *)
(* run keep their types, whatever the windows, users and requests do.      *)
THEOREM TypeCorrect == Spec => []TypeOK
<1>1. IInv /\ kept \in [View -> SUBSET Reason] => TypeOK
  BY DEF IInv, Typed, TypeOK
<1> QED BY <1>1, Invariance, WatchTyped, PTL

(* Two windows never run a cleanup at the same time, whatever happens to   *)
(* their leases: between the lock and the end of the run no other view can *)
(* begin one.                                                              *)
THEOREM OneRun == Spec => []OneAtATime
<1>1. IInv => OneAtATime
  BY DEF IInv, LockHeld, OneAtATime, Pending
<1> QED BY <1>1, Invariance, PTL

(* While cleanup is switched off no record of an archived task is kept, so *)
(* that the week of recovery starts anew when it is switched on.           *)
THEOREM NothingTrackedWhenOff == Spec => []TrackingEndsWithSwitch
<1>1. IInv => TrackingEndsWithSwitch
  BY DEF IInv
<1> QED BY <1>1, Invariance, PTL
-----------------------------------------------------------------------------
(* What a run has seen of its task.  The revalidation reads the pins, then *)
(* the active tasks, then the archived ones, a step each; what spoke       *)
(* against the task when it read is in its answers, and what kept speaking *)
(* against it is still true when the last answer comes.                    *)

Speaks(v, why) ==
    \E op \in Op, t \in Task : run[v].op = op /\ run[v].task = t /\ Against(op, t, why)

Seen(v) ==
    /\ \A why \in kept[v] : Speaks(v, why)
    /\ "pinned" \in kept[v] => run[v].task \in run[v].pins
    /\ run[v].at = "rarchived" =>
         /\ run[v].op = "archive" /\ kept[v] \intersect {"loaded", "place", "recent"} # {}
              => run[v].task \notin run[v].ready
         /\ "activeChild" \in kept[v] => run[v].task \in run[v].parents

Unwatched(v) == run[v].at \notin {"ractive", "rarchived"} => kept[v] = {}

Attentive == kept \in [View -> SUBSET Reason] /\ \A v \in View : Seen(v) /\ Unwatched(v)

LEMMA WatchKeepsType ==
    ASSUME Watch, kept \in [View -> SUBSET Reason] PROVE kept' \in [View -> SUBSET Reason]
  BY DEF Watch

(* What Watch does for a view.                                             *)
LEMMA WatchEffect ==
    ASSUME Watch, NEW v \in View
    PROVE  /\ run[v].at # "rpins" => kept'[v] \subseteq kept[v]
           /\ run'[v].at \notin {"ractive", "rarchived"} => kept'[v] = {}
           /\ \A why \in kept'[v] : Speaks(v, why)'
  BY DEF Watch, Speaks, Rechecking

(* A view whose revalidation does not read keeps what it has seen.         *)
LEMMA UnreadKeeps ==
    ASSUME Watch, NEW v \in View, Seen(v),
           \/ run'[v].at \notin {"ractive", "rarchived"}
           \/ /\ run'[v].at = run[v].at /\ run'[v].op = run[v].op /\ run'[v].task = run[v].task
              /\ run'[v].pins = run[v].pins /\ run'[v].ready = run[v].ready
              /\ run'[v].parents = run[v].parents
    PROVE  Seen(v)' /\ Unwatched(v)'
<1>1. /\ run[v].at # "rpins" => kept'[v] \subseteq kept[v]
      /\ run'[v].at \notin {"ractive", "rarchived"} => kept'[v] = {}
      /\ \A why \in kept'[v] : Speaks(v, why)'
  BY WatchEffect
<1>2. CASE run'[v].at \notin {"ractive", "rarchived"}
  BY <1>1, <1>2 DEF Seen, Unwatched
<1>3. CASE run'[v].at \in {"ractive", "rarchived"}
  BY <1>1, <1>3 DEF Seen, Unwatched
<1> QED BY <1>2, <1>3

(* The other views when one goes on or ends.                               *)
LEMMA OthersUnread ==
    ASSUME Watch, Attentive, NEW w \in View, \A v \in View \ {w} : run'[v] = run[v],
           Seen(w)' /\ Unwatched(w)'
    PROVE  Attentive'
<1>1. kept' \in [View -> SUBSET Reason]
  BY WatchKeepsType DEF Attentive
<1>2. \A v \in View \ {w} : Seen(v)' /\ Unwatched(v)'
  BY UnreadKeeps DEF Attentive
<1> QED BY <1>1, <1>2 DEF Attentive

(* A run that moves on without reading, or ends.                           *)
LEMMA MovingKeepsSeen ==
    ASSUME IInv, Attentive, Watch, NEW w \in View, NEW r \in RunType, run' = [run EXCEPT ![w] = r],
           \/ r.at \notin {"ractive", "rarchived"}
           \/ /\ r.at = run[w].at /\ r.op = run[w].op /\ r.task = run[w].task
              /\ r.pins = run[w].pins /\ r.ready = run[w].ready /\ r.parents = run[w].parents
    PROVE  Attentive'
<1>1. run'[w] = r /\ \A v \in View \ {w} : run'[v] = run[v]
  BY DEF IInv, Typed
<1> QED BY <1>1, UnreadKeeps, OthersUnread DEF Attentive

LEMMA EndKeepsSeen ==
    ASSUME IInv, Attentive, Watch, NEW w \in View, End(w) PROVE Attentive'
<1>1. NoRun.at \notin {"ractive", "rarchived"}
  BY DEF NoRun
<1> QED BY <1>1, NoRunTyped, MovingKeepsSeen DEF End

LEMMA StayingKeepsSeen ==
    ASSUME Attentive, Watch,
           \A v \in View :
             /\ run'[v].at = run[v].at /\ run'[v].op = run[v].op /\ run'[v].task = run[v].task
             /\ run'[v].pins = run[v].pins /\ run'[v].ready = run[v].ready
             /\ run'[v].parents = run[v].parents
    PROVE  Attentive'
<1>1. kept' \in [View -> SUBSET Reason]
  BY WatchKeepsType DEF Attentive
<1> QED BY <1>1, UnreadKeeps DEF Attentive

(* The revalidation reads the pins.                                        *)
LEMMA ReadPinsAgainSees ==
    ASSUME IInv, Attentive, Watch, NEW w \in View, ReadPinsAgain(w) PROVE Attentive'
<1> DEFINE r == [run[w] EXCEPT !.at = "ractive", !.pins = pinned]
<1>1. run' = [run EXCEPT ![w] = r] /\ UNCHANGED <<place, dormant, pinned, shown>>
  BY DEF ReadPinsAgain, Advance, server
<1>2. r.at = "ractive" /\ r.pins = pinned /\ r.op = run[w].op /\ r.task = run[w].task
  BY FieldsTyped DEF RunType
<1> HIDE DEF r
<1>3. run'[w] = r /\ \A v \in View \ {w} : run'[v] = run[v]
  BY <1>1 DEF IInv, Typed
<1>4. \A why \in kept'[w] : Speaks(w, why)'
  BY WatchEffect
<1>5. "pinned" \in kept'[w] => run'[w].task \in pinned'
  BY <1>4 DEF Speaks, Against
<1> QED BY <1>1, <1>2, <1>3, <1>4, <1>5, OthersUnread DEF Seen, Unwatched

LEMMA AgainstStays ==
    ASSUME NEW op, NEW t, NEW why, UNCHANGED <<place, dormant, pinned, shown, view>>
    PROVE  Against(op, t, why)' = Against(op, t, why)
  BY DEF Against, Loaded

(* The revalidation reads the active tasks.                                *)
LEMMA ListActiveSees ==
    ASSUME IInv, Attentive, Watch, NEW w \in View, ListActive(w) PROVE Attentive'
<1> DEFINE p == IF run[w].at = "active" THEN "archived" ELSE "rarchived"
           A == {t \in In("active") \intersect dormant : ~Loaded(t)}
           B == ParentsOf(In("active"))
           r == [run[w] EXCEPT !.at = p, !.ready = A, !.parents = B]
<1>1. run' = [run EXCEPT ![w] = r] /\ UNCHANGED <<place, dormant, pinned, shown, view>>
  BY DEF ListActive, Advance, server
<1>2. /\ r.at = p /\ r.ready = A /\ r.parents = B /\ r.pins = run[w].pins
      /\ r.op = run[w].op /\ r.task = run[w].task
  BY FieldsTyped DEF RunType
<1> HIDE DEF r
<1>3. run'[w] = r /\ \A v \in View \ {w} : run'[v] = run[v]
  BY <1>1 DEF IInv, Typed
<1>4. \A why \in kept'[w] : Speaks(w, why)'
  BY WatchEffect
<1>5. run[w].at \in {"active", "ractive"}
  BY DEF ListActive
<1>6. kept'[w] \subseteq kept[w]
  BY <1>5, WatchEffect
<1>7. CASE run[w].at = "active"
  BY <1>2, <1>3, <1>7, OthersUnread, UnreadKeeps DEF Attentive
<1>8. CASE run[w].at = "ractive"
  <2>1. ASSUME NEW why \in kept'[w] PROVE r.task \in Task /\ Against(r.op, r.task, why)
    <3>1. PICK op \in Op, t \in Task : r.op = op /\ r.task = t /\ Against(op, t, why)'
      BY <1>3, <1>4, <2>1 DEF Speaks
    <3> QED BY <1>1, <3>1, AgainstStays
  <2>2. /\ r.op = "archive" /\ "loaded" \in kept'[w] => r.task \notin A
        /\ r.op = "archive" /\ "place" \in kept'[w] => r.task \notin A
        /\ r.op = "archive" /\ "recent" \in kept'[w] => r.task \notin A
    BY <2>1 DEF Against, In
  <2>4. "activeChild" \in kept'[w] => r.task \in B
    <3> SUFFICES ASSUME "activeChild" \in kept'[w] PROVE r.task \in B
      OBVIOUS
    <3>1. r.task \in Task /\ \E c \in Task : Parent[c] = r.task /\ place[c] = "active"
      BY <2>1 DEF Against
    <3> QED BY <3>1, NoneAssumption DEF ParentsOf, In
  <2>5. "pinned" \in kept'[w] => r.task \in r.pins
    BY <1>2, <1>6 DEF Attentive, Seen
  <2>6. Seen(w)' /\ Unwatched(w)'
    BY <1>2, <1>3, <1>4, <1>8, <2>2, <2>4, <2>5 DEF Seen, Unwatched
  <2> QED BY <1>3, <2>6, OthersUnread
<1> QED BY <1>5, <1>7, <1>8
(* The marks on a run are not what it has seen.                            *)
LEMMA MarkedAlike ==
    ASSUME NEW r \in RunType, NEW x
    PROVE  /\ [r EXCEPT !.valid = FALSE].at = r.at /\ [r EXCEPT !.valid = FALSE].op = r.op
           /\ [r EXCEPT !.valid = FALSE].task = r.task /\ [r EXCEPT !.valid = FALSE].pins = r.pins
           /\ [r EXCEPT !.valid = FALSE].ready = r.ready
           /\ [r EXCEPT !.valid = FALSE].parents = r.parents
           /\ [r EXCEPT !.late = TRUE].at = r.at /\ [r EXCEPT !.late = TRUE].op = r.op
           /\ [r EXCEPT !.late = TRUE].task = r.task /\ [r EXCEPT !.late = TRUE].pins = r.pins
           /\ [r EXCEPT !.late = TRUE].ready = r.ready
           /\ [r EXCEPT !.late = TRUE].parents = r.parents
           /\ [r EXCEPT !.crossed = x].at = r.at /\ [r EXCEPT !.crossed = x].op = r.op
           /\ [r EXCEPT !.crossed = x].task = r.task /\ [r EXCEPT !.crossed = x].pins = r.pins
           /\ [r EXCEPT !.crossed = x].ready = r.ready
           /\ [r EXCEPT !.crossed = x].parents = r.parents
           /\ [r EXCEPT !.late = TRUE, !.records = x].at = r.at
           /\ [r EXCEPT !.late = TRUE, !.records = x].op = r.op
           /\ [r EXCEPT !.late = TRUE, !.records = x].task = r.task
           /\ [r EXCEPT !.late = TRUE, !.records = x].pins = r.pins
           /\ [r EXCEPT !.late = TRUE, !.records = x].ready = r.ready
           /\ [r EXCEPT !.late = TRUE, !.records = x].parents = r.parents
  BY DEF RunType

LEMMA InvalidKeepsSeen ==
    ASSUME IInv, Attentive, Watch, NEW w \in View,
           run' = [run EXCEPT ![w] = [run[w] EXCEPT !.valid = FALSE]]
    PROVE  Attentive'
<1> DEFINE r == [run[w] EXCEPT !.valid = FALSE]
<1>1. /\ r \in RunType /\ r.at = run[w].at /\ r.op = run[w].op /\ r.task = run[w].task
      /\ r.pins = run[w].pins /\ r.ready = run[w].ready /\ r.parents = run[w].parents
  BY FieldsTyped, MarkedAlike, MarkedTyped
<1> HIDE DEF r
<1> QED BY <1>1, MovingKeepsSeen DEF r

LEMMA OthersKeepSeen ==
    ASSUME IInv, Attentive, Watch, UNCHANGED run PROVE Attentive'
  BY StayingKeepsSeen

LEMMA RunKeepsSeen ==
    ASSUME IInv, Attentive, Watch, NEW w \in View,
           \/ Fire(w) \/ Start(w) \/ ListArchived(w) \/ NothingToDo(w) \/ Choose(w)
           \/ Send(w) \/ NoLongerEligible(w) \/ Fails(w) \/ TimeOut(w) \/ Renew(w) \/ Stall(w)
    PROVE  Attentive'
<1>0. run \in [View -> RunType] /\ run[w] \in RunType
  BY DEF IInv, Typed
<1>1. CASE End(w)
  BY <1>1, EndKeepsSeen
<1>2. CASE UNCHANGED run
  BY <1>2, OthersKeepSeen
<1>3. ASSUME NEW r, run' = [run EXCEPT ![w] = r], r.at \notin {"ractive", "rarchived"}
      PROVE  Attentive'
  <2>1. run'[w] = r /\ \A v \in View \ {w} : run'[v] = run[v]
    BY <1>0, <1>3
  <2> QED BY <1>3, <2>1, UnreadKeeps, OthersUnread DEF Attentive
<1>4. CASE Fire(w)
  <2>1. [NoRun EXCEPT !.at = "bridge"].at = "bridge"
    BY DEF NoRun
  <2> QED BY <1>2, <1>3, <1>4, <2>1 DEF Fire, Advance
<1>5. CASE Start(w)
  <2>1. [NoRun EXCEPT !.at = "active", !.valid = TRUE].at = "active"
    BY DEF NoRun
  <2> QED BY <1>1, <1>3, <1>5, <2>1 DEF Start, Advance
<1>6. CASE ListArchived(w)
  <2>1. \A A, B, C : [run[w] EXCEPT !.at = "pins", !.archived = A, !.cold = B,
                                    !.parents = C].at = "pins"
    BY <1>0 DEF RunType
  <2>2. \E A, B, C : run' = [run EXCEPT ![w] = [run[w] EXCEPT !.at = "pins", !.archived = A,
                                                           !.cold = B, !.parents = C]]
    BY <1>0, <1>6 DEF ListArchived, Advance, RunType
  <2> QED BY <1>3, <2>1, <2>2
<1>7. CASE Choose(w)
  <2> DEFINE recs == Synchronized(records, run[w].archived)
  <2>0. PICK op \in Op : \E t \in Candidates(w, op) :
            run' = [run EXCEPT ![w] = [run[w] EXCEPT !.at = "rpins", !.op = op, !.task = t,
                        !.records = recs, !.ready = {}, !.parents = {}, !.cold = {}]]
    BY <1>7 DEF Choose, Advance
  <2>1. PICK t \in Candidates(w, op) :
            run' = [run EXCEPT ![w] = [run[w] EXCEPT !.at = "rpins", !.op = op, !.task = t,
                        !.records = recs, !.ready = {}, !.parents = {}, !.cold = {}]]
    BY <2>0
  <2> HIDE DEF recs
  <2> DEFINE r == [run[w] EXCEPT !.at = "rpins", !.op = op, !.task = t,
                      !.records = recs, !.ready = {}, !.parents = {}, !.cold = {}]
  <2>2. r.at = "rpins"
    BY <1>0 DEF RunType
  <2> HIDE DEF r
  <2> QED BY <1>3, <2>1, <2>2 DEF r
<1>8. CASE Send(w)
  <2>1. [run[w] EXCEPT !.at = "sent", !.ready = {}, !.parents = {}, !.cold = {},
                       !.pins = {}].at = "sent"
    BY <1>0 DEF RunType
  <2> QED BY <1>3, <1>8, <2>1 DEF Send, Advance
<1>9. CASE NothingToDo(w) \/ NoLongerEligible(w) \/ Fails(w) \/ TimeOut(w)
  BY <1>1, <1>9 DEF NothingToDo, NoLongerEligible, Fails, TimeOut, Finish, Abort
<1>10. CASE Renew(w)
  <2>1. CASE run' = [run EXCEPT ![w] = [run[w] EXCEPT !.valid = FALSE]]
    BY <2>1, InvalidKeepsSeen
  <2> QED BY <1>2, <1>10, <2>1 DEF Renew, Advance
<1>11. CASE Stall(w)
  <2> DEFINE r == [run[w] EXCEPT !.late = TRUE]
  <2>1. run' = [run EXCEPT ![w] = r]
    BY <1>11 DEF Stall, Advance
  <2>2. /\ r \in RunType /\ r.at = run[w].at /\ r.op = run[w].op /\ r.task = run[w].task
        /\ r.pins = run[w].pins /\ r.ready = run[w].ready /\ r.parents = run[w].parents
    BY <1>0 DEF RunType
  <2> HIDE DEF r
  <2> QED BY <2>1, <2>2, MovingKeepsSeen
<1> QED BY <1>4, <1>5, <1>6, <1>7, <1>8, <1>9, <1>10, <1>11

LEMMA MarkingKeepsSeen ==
    ASSUME IInv, Attentive, Watch,
           \/ \E w \in View : SwitchOff(w) \/ SwitchOn(w) \/ Uninstall(w)
           \/ WeekPasses
    PROVE  Attentive'
<1>0. run \in [View -> RunType] /\ \A v \in View : run[v] \in RunType
  BY DEF IInv, Typed
<1>2. ASSUME NEW w \in View, SwitchOff(w) \/ Uninstall(w) PROVE Attentive'
  BY <1>2, InvalidKeepsSeen DEF SwitchOff, Uninstall
<1>3. ASSUME NEW w \in View, SwitchOn(w) PROVE Attentive'
  <2>1. run' = [v \in View |-> IF v = w THEN [run[w] EXCEPT !.valid = FALSE]
                               ELSE [run[v] EXCEPT !.crossed = Pending(v)]]
    BY <1>3 DEF SwitchOn
  <2> QED BY <1>0, <2>1, MarkedAlike, StayingKeepsSeen
<1>4. CASE WeekPasses
  <2>1. run' = [v \in View |-> IF Pending(v)
                   THEN [run[v] EXCEPT !.late = TRUE, !.records = Aged(run[v].records)]
                   ELSE run[v]]
    BY <1>0, <1>4 DEF WeekPasses, RunType
  <2>2. \A v \in View : \/ run'[v] = run[v]
                       \/ run'[v] = [run[v] EXCEPT !.late = TRUE,
                                                  !.records = Aged(run[v].records)]
    BY <2>1
  <2>3. ASSUME NEW v \in View
        PROVE  /\ run'[v].at = run[v].at /\ run'[v].op = run[v].op /\ run'[v].task = run[v].task
               /\ run'[v].pins = run[v].pins /\ run'[v].ready = run[v].ready
               /\ run'[v].parents = run[v].parents
    <3>1. run[v] \in RunType
      BY <1>0
    <3>2. CASE run'[v] = [run[v] EXCEPT !.late = TRUE, !.records = Aged(run[v].records)]
      BY <3>1, <3>2, MarkedAlike
    <3> QED BY <2>2, <3>2
  <2> QED BY <2>3, StayingKeepsSeen
<1> QED BY <1>2, <1>3, <1>4

LEMMA CloseKeepsSeen ==
    ASSUME IInv, Attentive, Watch, NEW w \in View, Close(w) PROVE Attentive'
<1>1. NoRun.at \notin {"ractive", "rarchived"}
  BY DEF NoRun
<1> QED BY <1>1, NoRunTyped, MovingKeepsSeen DEF Close

LEMMA AnswersKeepSeen ==
    ASSUME IInv, Attentive, Watch, NEW r \in requests, Serve(r) \/ Reject(r) PROVE Attentive'
<1>1. r.from # None => r.from \in View
  BY DEF IInv, Typed
<1>2. CASE UNCHANGED run
  BY <1>2, OthersKeepSeen
<1>3. CASE r.from # None /\ End(r.from)
  BY <1>1, <1>3, EndKeepsSeen
<1> QED BY <1>2, <1>3 DEF Serve, Reject, Finish, Abort

LEMMA NextKeepsSeen == ASSUME IInv, Attentive, Next PROVE Attentive'
<1>1. Watch
  BY DEF Next
<1>2. ASSUME NEW w \in View, Render(w) \/ Show(w) \/ Open(w) PROVE Attentive'
  BY <1>1, <1>2, OthersKeepSeen DEF Render, Show, Open, views
<1>3. ASSUME NEW t \in Task, Pin(t) \/ ArchiveByHand(t) \/ Restore(t) PROVE Attentive'
  BY <1>1, <1>3, OthersKeepSeen DEF Pin, ArchiveByHand, Restore, views
<1>4. CASE LeaseExpires
  BY <1>1, <1>4, OthersKeepSeen DEF LeaseExpires, views
<1> QED BY <1>1, <1>2, <1>3, <1>4, RunKeepsSeen, ReadPinsAgainSees, ListActiveSees,
           MarkingKeepsSeen, CloseKeepsSeen, AnswersKeepSeen
        DEF Next

LEMMA SeenInvariance == Spec => [](IInv /\ Attentive)
<1>1. Init => Attentive
  BY DEF Init, Attentive, Seen, Unwatched
<1>2. IInv /\ Attentive /\ [Next]_vars => Attentive'
  <2>1. ASSUME Attentive, UNCHANGED vars PROVE Attentive'
    <3>1. UNCHANGED <<place, dormant, pinned, shown, view, run, kept>>
      BY <2>1 DEF vars, server, views
    <3>2. \A v, why : Speaks(v, why)' <=> Speaks(v, why)
      BY <3>1, AgainstStays DEF Speaks
    <3> QED BY <2>1, <3>1, <3>2 DEF Attentive, Seen, Unwatched
  <2> QED BY <2>1, NextKeepsSeen
<1> QED BY <1>1, <1>2, Invariance, PTL DEF Spec

(* When a request is sent, nothing has spoken against the task all along:  *)
(* what did was in an answer, or is still there when the last one comes.   *)
LEMMA SendIsSpared ==
    ASSUME IInv, Attentive, NEW w \in View, Send(w) PROVE kept[w] = {}
<1> DEFINE t == run[w].task
<1>1. run[w].at = "rarchived" /\ StillEligible(w)
  BY DEF Send
<1> SUFFICES ASSUME NEW why \in kept[w] PROVE FALSE
  OBVIOUS
<1>2. Seen(w) /\ why \in Reason
  BY DEF Attentive
<1>3. t \in Task /\ run[w].op \in Op /\ Against(run[w].op, t, why)
  BY <1>2 DEF Seen, Speaks
<1>4. \/ run[w].op = "delete" /\ t \in In("archived") /\ ~Loaded(t)
      \/ run[w].op = "archive" /\ t \in run[w].ready
  BY <1>1 DEF StillEligible, Deletable, Archivable
<1>5. t \notin run[w].pins /\ t \notin run[w].parents /\ t \notin ParentsOf(In("archived"))
  BY <1>1 DEF StillEligible, Deletable, Archivable
<1>6. why # "pinned" /\ why # "activeChild"
  BY <1>1, <1>2, <1>5 DEF Seen
<1>7. why # "archivedChild"
  BY <1>3, <1>5, NoneAssumption DEF Against, ParentsOf, In
<1>8. CASE run[w].op = "archive"
  BY <1>1, <1>2, <1>4, <1>6, <1>7, <1>8 DEF Seen, Reason
<1>9. CASE run[w].op = "delete"
  BY <1>2, <1>3, <1>4, <1>6, <1>7, <1>9 DEF Against, In, Reason
<1> QED BY <1>4, <1>8, <1>9

(* Only a view that sends adds a request of a view.                        *)
LEMMA OnlySent ==
    ASSUME IInv, Next, NEW r \in requests' \ requests, r.from # None
    PROVE  /\ r.from \in View /\ Send(r.from)
           /\ r.op = run[r.from].op /\ r.task = run[r.from].task
<1>1. ASSUME NEW w \in View, TimeOut(w) \/ Close(w) PROVE FALSE
  <2>1. requests' = {IF q.from = w THEN [q EXCEPT !.from = None] ELSE q : q \in requests}
    BY <1>1 DEF TimeOut, Close
  <2>2. \A q \in requests : [q EXCEPT !.from = None].from = None
    BY DEF IInv, Typed
  <2> QED BY <2>1, <2>2
<1>2. ASSUME NEW w \in View,
             \/ Fire(w) \/ Start(w) \/ ListActive(w) \/ ListArchived(w) \/ NothingToDo(w)
             \/ Choose(w) \/ ReadPinsAgain(w) \/ NoLongerEligible(w) \/ Fails(w) \/ Renew(w)
             \/ Stall(w) \/ Render(w)
      PROVE  FALSE
  BY <1>2 DEF Fire, Start, ListActive, ListArchived, NothingToDo, Choose, ReadPinsAgain,
              NoLongerEligible, Fails, Renew, Stall, Render
<1>3. ASSUME NEW w \in View,
             Show(w) \/ SwitchOff(w) \/ SwitchOn(w) \/ Uninstall(w) \/ Open(w)
      PROVE  FALSE
  BY <1>3 DEF Show, SwitchOff, SwitchOn, Uninstall, Open, views
<1>4. ASSUME NEW q \in requests, Serve(q) \/ Reject(q) PROVE FALSE
  BY <1>4 DEF Serve, Reject
<1>5. ASSUME NEW t \in Task, Pin(t) \/ ArchiveByHand(t) \/ Restore(t) PROVE FALSE
  BY <1>5 DEF Pin, ArchiveByHand, Restore, views
<1>6. CASE LeaseExpires \/ WeekPasses
  BY <1>6 DEF LeaseExpires, WeekPasses, views
<1>7. PICK w \in View : Send(w)
  BY <1>1, <1>2, <1>3, <1>4, <1>5, <1>6 DEF Next
<1>8. r = [op |-> run[w].op, task |-> run[w].task, from |-> w]
  BY <1>7 DEF Send
<1> QED BY <1>7, <1>8

(* A request is sent for a task only if nothing has spoken against it ever *)
(* since the revalidation began to read, whatever the user and the other   *)
(* windows did between its answers.                                        *)
THEOREM KeptSpared == Spec => KeptIsSpared
<1> DEFINE Step == \A r \in requests' \ requests : r.from # None => kept[r.from] = {}
<1>1. IInv /\ Attentive /\ [Next]_vars => [Step]_vars
  <2>1. ASSUME IInv, Attentive, Next PROVE Step
    BY <2>1, OnlySent, SendIsSpared
  <2> QED BY <2>1
<1> QED BY <1>1, SeenInvariance, PTL DEF Spec, KeptIsSpared
-----------------------------------------------------------------------------
(* What the records say of the tasks.  A stored record whose task was      *)
(* restored is known to be stale (slipped), and one that is due is of a    *)
(* task that was in the archive when a week passed; the records a run will *)
(* write are as good, as long as the switch was not touched meanwhile.     *)

MayWrite(v) == run[v].valid /\ ~run[v].crossed /\ enabled

Stored(t) ==
    /\ records[t] = "due" /\ place[t] # "deleted" => t \in whole \union slipped
    /\ records[t] # "none" /\ place[t] = "active" => t \in slipped

Unlisted(v) == run[v].at \in {"idle", "bridge", "active", "archived"} => run[v].archived = {}

Listed(v, t) ==
    /\ run[v].records[t] # "none" => t \in run[v].archived
    /\ MayWrite(v) /\ t \in run[v].archived /\ place[t] = "active" => t \in slipped
    /\ MayWrite(v) /\ run[v].records[t] = "due" /\ place[t] # "deleted"
          => t \in whole \union slipped

Recorded == /\ \A t \in Task : Stored(t)
            /\ \A v \in View : Unlisted(v) /\ \A t \in Task : Listed(v, t)

(* A view waits for the answer to the one request it sent.                 *)
Waits == /\ \A r \in requests : r.from # None => run[r.from].at = "sent"
         /\ \A r, s \in requests : r.from = s.from /\ r.from # None => r = s

RInv == Waits /\ Recorded

(* A run that has listed nothing.                                          *)
LEMMA FreshListed ==
    ASSUME NEW v \in View, run'[v].archived = {}, run'[v].records = NoRecords
    PROVE  Unlisted(v)' /\ \A t \in Task : Listed(v, t)'
  BY DEF Unlisted, Listed, NoRecords

(* A run that goes on with what it has listed.                             *)
LEMMA SameListed ==
    ASSUME Recorded, NEW v \in View, run'[v].archived = run[v].archived,
           run'[v].records = run[v].records, run'[v].at = run[v].at \/ run'[v].at = "sent",
           run'[v].valid => run[v].valid,
           run'[v].crossed = run[v].crossed \/ run'[v].crossed, enabled' => enabled,
           UNCHANGED <<place, whole>>, slipped \subseteq slipped' \/ ~enabled'
    PROVE  Unlisted(v)' /\ \A t \in Task : Listed(v, t)'
<1>1. Unlisted(v)'
  BY DEF Recorded, Unlisted
<1> SUFFICES ASSUME NEW t \in Task PROVE Listed(v, t)'
  BY <1>1
<1>2. MayWrite(v)' => MayWrite(v) /\ slipped \subseteq slipped'
  BY DEF MayWrite
<1> QED BY <1>2 DEF Recorded, Listed

(* One run goes on, and nothing is written.                                *)
LEMMA GoingOnKeepsRecorded ==
    ASSUME Recorded, NEW w \in View, \A v \in View \ {w} : run'[v] = run[v],
           UNCHANGED <<place, enabled, records, whole, slipped>>,
           Unlisted(w)', \A t \in Task : Listed(w, t)'
    PROVE  Recorded'
<1>1. \A t \in Task : Stored(t)'
  BY DEF Recorded, Stored
<1>2. ASSUME NEW v \in View \ {w} PROVE Unlisted(v)' /\ \A t \in Task : Listed(v, t)'
  BY SameListed
<1> QED BY <1>1, <1>2 DEF Recorded

(* Tasks are archived or deleted while a run ends.                         *)
Onwards(t) == \/ place'[t] = place[t] \/ place'[t] = "deleted"
              \/ place[t] = "active" /\ place'[t] = "archived"

(* The run that ends was the only one.                                     *)
LEMMA EndLists ==
    ASSUME IInv, Recorded, NEW w \in View, End(w), run[w].at # "idle"
    PROVE  \A v \in View : Unlisted(v)' /\ \A t \in Task : Listed(v, t)'
<1> SUFFICES ASSUME NEW v \in View PROVE Unlisted(v)' /\ \A t \in Task : Listed(v, t)'
  OBVIOUS
<1>1. CASE v = w
  <2>1. run'[v] = NoRun
    BY <1>1 DEF End, IInv, Typed
  <2>2. run'[v].archived = {} /\ run'[v].records = NoRecords
    BY <2>1 DEF NoRun
  <2> QED BY <2>2, FreshListed
<1>2. CASE v # w
  <2>1. run'[v] = run[v] /\ run[v].at = "idle"
    BY <1>2 DEF End, IInv, Typed, LockHeld
  <2>2. run[v].archived = {} /\ \A t \in Task : run[v].records[t] = "none"
    BY <2>1 DEF Recorded, Unlisted, Listed
  <2> QED BY <2>1, <2>2 DEF Unlisted, Listed
<1> QED BY <1>1, <1>2

LEMMA UnrecordedKeeps ==
    ASSUME Recorded, Unrecorded, UNCHANGED whole, \A t \in Task : Onwards(t)
    PROVE  \A t \in Task : Stored(t)'
<1> SUFFICES ASSUME NEW t \in Task PROVE Stored(t)'
  OBVIOUS
<1>1. Stored(t) /\ Onwards(t) /\ records' = records
  BY DEF Recorded, Unrecorded
<1>2. records[t] # "none" /\ t \in slipped => t \in slipped'
  BY DEF Unrecorded
<1> QED BY <1>1, <1>2 DEF Stored, Onwards

LEMMA AbortKeepsRecorded ==
    ASSUME IInv, Recorded, NEW w \in View, Abort(w), run[w].at # "idle", UNCHANGED whole,
           \A t \in Task : Onwards(t)
    PROVE  Recorded'
  BY EndLists, UnrecordedKeeps DEF Abort, Recorded

(* What a run may write at its end.                                        *)
Writable(w, recs, t) ==
    /\ recs[t] # "none" => \/ t \in run[w].archived
                           \/ recs[t] = "fresh" /\ place'[t] # "active"
    /\ MayWrite(w) /\ recs[t] = "due" /\ place[t] # "deleted" => t \in whole \union slipped

LEMMA FinishKeepsRecorded ==
    ASSUME IInv, Recorded, NEW w \in View, NEW STATE recs, Finish(w, recs), run[w].at # "idle",
           UNCHANGED whole, \A t \in Task : Onwards(t) /\ Writable(w, recs, t)
    PROVE  Recorded'
<1>1. \A v \in View : Unlisted(v)' /\ \A t \in Task : Listed(v, t)'
  BY EndLists DEF Finish
<1>2. CASE ~MayRecord(w)
  BY <1>1, <1>2, UnrecordedKeeps DEF Finish, Recorded
<1>3. CASE MayRecord(w)
  <2> SUFFICES ASSUME NEW t \in Task PROVE Stored(t)'
    BY <1>1 DEF Recorded
  <2>1. /\ records' = recs /\ run[w].valid /\ enabled
        /\ slipped' = (slipped \intersect run[w].archived)
                      \union IF run[w].crossed
                             THEN {u \in run[w].archived : recs[u] # "none"} ELSE {}
    BY <1>3 DEF Finish, MayRecord
  <2>2. Listed(w, t) /\ Onwards(t) /\ Writable(w, recs, t)
    BY DEF Recorded
  <2>3. CASE t \notin run[w].archived
    BY <2>1, <2>2, <2>3 DEF Writable, Stored
  <2>4. CASE t \in run[w].archived /\ run[w].crossed
    BY <2>1, <2>4 DEF Stored
  <2>5. CASE t \in run[w].archived /\ ~run[w].crossed
    <3>1. MayWrite(w) /\ (t \in slipped => t \in slipped')
      BY <2>1, <2>5 DEF MayWrite
    <3>2. recs[t] = "due" /\ place'[t] # "deleted" => t \in whole \union slipped
      BY <2>2, <3>1 DEF Writable, Onwards
    <3>3. place'[t] = "active" => t \in slipped
      BY <2>2, <2>5, <3>1 DEF Listed, Onwards
    <3> QED BY <2>1, <3>1, <3>2, <3>3 DEF Stored
  <2> QED BY <2>3, <2>4, <2>5
<1> QED BY <1>2, <1>3

(* The records with which a run began, or that it is to begin with.        *)
LEMMA OwnRecordsWritable ==
    ASSUME Recorded, NEW w \in View, NEW t \in Task PROVE Writable(w, run[w].records, t)
  BY DEF Recorded, Listed, Writable

LEMMA SynchronizedWritable ==
    ASSUME Recorded, NEW w \in View, NEW t \in Task
    PROVE  Writable(w, Synchronized(records, run[w].archived), t)
<1> DEFINE recs == Synchronized(records, run[w].archived)
<1>1. /\ recs[t] # "none" => t \in run[w].archived
      /\ recs[t] = "due" => records[t] = "due"
  BY DEF Synchronized
<1> HIDE DEF recs
<1> QED BY <1>1 DEF Recorded, Stored, Writable, recs
(* Steps that write nothing and end nothing; tasks may go onwards.         *)
LEMMA OnwardsKeepsRecorded ==
    ASSUME Recorded, UNCHANGED <<run, enabled, records, whole, slipped>>,
           \A t \in Task : Onwards(t)
    PROVE  Recorded'
<1>1. \A t \in Task : Stored(t)'
  BY DEF Recorded, Stored, Onwards
<1>2. \A v \in View : Unlisted(v)' /\ (MayWrite(v)' <=> MayWrite(v))
  BY DEF Recorded, Unlisted, MayWrite
<1>3. \A v \in View : \A t \in Task : Listed(v, t)'
  <2> SUFFICES ASSUME NEW v \in View, NEW t \in Task PROVE Listed(v, t)'
    OBVIOUS
  <2>1. Listed(v, t) /\ Onwards(t)
    BY DEF Recorded
  <2> QED BY <1>2, <2>1 DEF Listed, Onwards
<1> QED BY <1>1, <1>2, <1>3 DEF Recorded

(* A run begins, or is given up with the window.                           *)
LEMMA RestartKeepsRecorded ==
    ASSUME IInv, Recorded, NEW w \in View, NEW r, run' = [run EXCEPT ![w] = r],
           r.archived = {}, r.records = NoRecords,
           UNCHANGED <<place, enabled, records, whole, slipped>>
    PROVE  Recorded'
<1>1. run'[w] = r /\ \A v \in View \ {w} : run'[v] = run[v]
  BY DEF IInv, Typed
<1> QED BY <1>1, FreshListed, GoingOnKeepsRecorded

(* A run keeps what it has listed.                                         *)
LEMMA HoldingKeepsRecorded ==
    ASSUME IInv, Recorded, NEW w \in View, NEW r, run' = [run EXCEPT ![w] = r],
           r.archived = run[w].archived, r.records = run[w].records,
           r.at = run[w].at \/ r.at \notin {"idle", "bridge", "active", "archived"},
           r.valid => run[w].valid, r.crossed = run[w].crossed,
           UNCHANGED <<place, enabled, records, whole, slipped>>
    PROVE  Recorded'
<1>1. run'[w] = r /\ \A v \in View \ {w} : run'[v] = run[v]
  BY DEF IInv, Typed
<1>2. Unlisted(w)'
  BY <1>1 DEF Recorded, Unlisted
<1>3. MayWrite(w)' => MayWrite(w)
  BY <1>1 DEF MayWrite
<1>4. \A t \in Task : Listed(w, t)'
  BY <1>1, <1>3 DEF Recorded, Listed
<1> QED BY <1>1, <1>2, <1>4, GoingOnKeepsRecorded

LEMMA FireKeepsRecorded == ASSUME IInv, Recorded, NEW w \in View, Fire(w) PROVE Recorded'
<1>1. UNCHANGED <<place, enabled, records, whole, slipped>>
  BY DEF Fire, server, storage, history
<1>2. CASE run' = [run EXCEPT ![w] = [NoRun EXCEPT !.at = "bridge"]]
  <2>1. LET r == [NoRun EXCEPT !.at = "bridge"] IN r.archived = {} /\ r.records = NoRecords
    BY DEF NoRun
  <2> QED BY <1>1, <1>2, <2>1, RestartKeepsRecorded
<1>3. CASE UNCHANGED run
  BY <1>1, <1>3, OnwardsKeepsRecorded DEF Onwards
<1> QED BY <1>2, <1>3 DEF Fire, Advance

LEMMA StartKeepsRecorded == ASSUME IInv, Recorded, NEW w \in View, Start(w) PROVE Recorded'
<1>1. UNCHANGED <<place, enabled, records, whole, slipped>>
  BY DEF Start, server, history
<1>2. CASE CanLease(w)
  <2>1. LET r == [NoRun EXCEPT !.at = "active", !.valid = TRUE]
        IN r.archived = {} /\ r.records = NoRecords
    BY DEF NoRun
  <2> QED BY <1>1, <1>2, <2>1, RestartKeepsRecorded DEF Start, Advance
<1>3. CASE ~CanLease(w)
  <2>1. \A t \in Task : Stored(t)'
    BY <1>1 DEF Recorded, Stored
  <2> QED BY <1>3, <2>1, EndLists DEF Start, Recorded
<1> QED BY <1>2, <1>3

LEMMA ListActiveKeepsRecorded ==
    ASSUME IInv, Recorded, NEW w \in View, ListActive(w) PROVE Recorded'
<1> DEFINE p == IF run[w].at = "active" THEN "archived" ELSE "rarchived"
           A == {t \in In("active") \intersect dormant : ~Loaded(t)}
           B == ParentsOf(In("active"))
           r == [run[w] EXCEPT !.at = p, !.ready = A, !.parents = B]
<1>1. run' = [run EXCEPT ![w] = r] /\ UNCHANGED <<place, enabled, records, whole, slipped>>
  BY DEF ListActive, Advance, server, storage, history
<1>2. /\ r.at = p /\ r.archived = run[w].archived /\ r.records = run[w].records
      /\ r.valid = run[w].valid /\ r.crossed = run[w].crossed
  BY FieldsTyped DEF RunType
<1>3. r.at = "archived" => run[w].archived = {}
  BY <1>2 DEF Recorded, Unlisted
<1> HIDE DEF r, p
<1>4. run'[w] = r /\ \A v \in View \ {w} : run'[v] = run[v]
  BY <1>1 DEF IInv, Typed
<1>5. Unlisted(w)'
  <2>1. p \in {"archived", "rarchived"}
    BY DEF p
  <2> QED BY <1>2, <1>3, <1>4, <2>1 DEF Unlisted
<1>6. \A t \in Task : Listed(w, t)'
  BY <1>1, <1>2, <1>4 DEF Recorded, Listed, MayWrite
<1> QED BY <1>1, <1>4, <1>5, <1>6, GoingOnKeepsRecorded

(* What a run lists is archived at that moment, and has no record yet.     *)
LEMMA ListArchivedKeepsRecorded ==
    ASSUME IInv, Recorded, NEW w \in View, ListArchived(w) PROVE Recorded'
<1> DEFINE B == {t \in In("archived") : ~Loaded(t)}
           C == run[w].parents \union ParentsOf(In("archived"))
           r == [run[w] EXCEPT !.at = "pins", !.archived = In("archived"), !.cold = B,
                               !.parents = C]
<1>1. run' = [run EXCEPT ![w] = r] /\ UNCHANGED <<place, enabled, records, whole, slipped>>
  BY FieldsTyped DEF ListArchived, Advance, server, storage, history, RunType
<1>2. r.at = "pins" /\ r.archived = In("archived") /\ r.records = run[w].records
  BY FieldsTyped DEF RunType
<1> HIDE DEF r
<1>3. run'[w] = r /\ \A v \in View \ {w} : run'[v] = run[v]
  BY <1>1 DEF IInv, Typed
<1>4. run[w].archived = {}
  BY DEF ListArchived, Recorded, Unlisted
<1>5. \A t \in Task : run[w].records[t] = "none"
  BY <1>4 DEF Recorded, Listed
<1>6. Unlisted(w)'
  BY <1>2, <1>3 DEF Unlisted
<1>7. \A t \in Task : Listed(w, t)'
  BY <1>1, <1>2, <1>3, <1>5 DEF Listed, In
<1> QED BY <1>1, <1>3, <1>6, <1>7, GoingOnKeepsRecorded

LEMMA ChooseKeepsRecorded == ASSUME IInv, Recorded, NEW w \in View, Choose(w) PROVE Recorded'
<1> DEFINE recs == Synchronized(records, run[w].archived)
<1>1. PICK op \in Op : \E t \in Candidates(w, op) :
          run' = [run EXCEPT ![w] = [run[w] EXCEPT !.at = "rpins", !.op = op, !.task = t,
                      !.records = recs, !.ready = {}, !.parents = {}, !.cold = {}]]
  BY DEF Choose, Advance
<1>2. PICK t \in Candidates(w, op) :
          run' = [run EXCEPT ![w] = [run[w] EXCEPT !.at = "rpins", !.op = op, !.task = t,
                      !.records = recs, !.ready = {}, !.parents = {}, !.cold = {}]]
  BY <1>1
<1> HIDE DEF recs
<1> DEFINE r == [run[w] EXCEPT !.at = "rpins", !.op = op, !.task = t,
                    !.records = recs, !.ready = {}, !.parents = {}, !.cold = {}]
<1>3. /\ r.at = "rpins" /\ r.archived = run[w].archived /\ r.records = recs
      /\ r.valid = run[w].valid /\ r.crossed = run[w].crossed
  BY FieldsTyped DEF RunType
<1>4. run' = [run EXCEPT ![w] = r]
  BY <1>2
<1> HIDE DEF r
<1>5. run'[w] = r /\ \A v \in View \ {w} : run'[v] = run[v]
  BY <1>4 DEF IInv, Typed
<1>6. UNCHANGED <<place, enabled, records, whole, slipped>>
  BY DEF Choose, server, history
<1>7. Unlisted(w)'
  BY <1>3, <1>5 DEF Unlisted
<1>8. ASSUME NEW u \in Task PROVE Listed(w, u)'
  <2>1. /\ recs[u] # "none" => u \in run[w].archived
        /\ recs[u] = "due" => records[u] = "due"
    BY DEF recs, Synchronized
  <2>2. Stored(u) /\ Listed(w, u)
    BY DEF Recorded
  <2> QED BY <1>3, <1>5, <1>6, <2>1, <2>2 DEF Stored, Listed, MayWrite
<1> QED BY <1>5, <1>6, <1>7, <1>8, GoingOnKeepsRecorded

LEMMA ReadPinsAgainKeepsRecorded ==
    ASSUME IInv, Recorded, NEW w \in View, ReadPinsAgain(w) PROVE Recorded'
<1> DEFINE r == [run[w] EXCEPT !.at = "ractive", !.pins = pinned]
<1>1. run' = [run EXCEPT ![w] = r] /\ UNCHANGED <<place, enabled, records, whole, slipped>>
  BY DEF ReadPinsAgain, Advance, server, storage, history
<1>2. /\ r.at = "ractive" /\ r.archived = run[w].archived /\ r.records = run[w].records
      /\ r.valid = run[w].valid /\ r.crossed = run[w].crossed
  BY FieldsTyped DEF RunType
<1> HIDE DEF r
<1> QED BY <1>1, <1>2, HoldingKeepsRecorded

LEMMA SendKeepsRecorded == ASSUME IInv, Recorded, NEW w \in View, Send(w) PROVE Recorded'
<1> DEFINE r == [run[w] EXCEPT !.at = "sent", !.ready = {}, !.parents = {}, !.cold = {},
                               !.pins = {}]
<1>1. run' = [run EXCEPT ![w] = r] /\ UNCHANGED <<place, enabled, records, whole, slipped>>
  BY DEF Send, Advance, server, history
<1>2. /\ r.at = "sent" /\ r.archived = run[w].archived /\ r.records = run[w].records
      /\ r.valid = run[w].valid /\ r.crossed = run[w].crossed
  BY FieldsTyped DEF RunType
<1> HIDE DEF r
<1> QED BY <1>1, <1>2, HoldingKeepsRecorded

LEMMA RenewKeepsRecorded == ASSUME IInv, Recorded, NEW w \in View, Renew(w) PROVE Recorded'
<1>1. UNCHANGED <<place, enabled, records, whole, slipped>>
  BY DEF Renew, server, history
<1>2. CASE CanLease(w)
  BY <1>1, <1>2, OnwardsKeepsRecorded DEF Renew, Onwards
<1>3. CASE ~CanLease(w)
  <2> DEFINE r == [run[w] EXCEPT !.valid = FALSE]
  <2>1. run' = [run EXCEPT ![w] = r]
    BY <1>3 DEF Renew, Advance
  <2>2. /\ r.at = run[w].at /\ r.archived = run[w].archived /\ r.records = run[w].records
        /\ r.valid = FALSE /\ r.crossed = run[w].crossed
    BY FieldsTyped DEF RunType
  <2> HIDE DEF r
  <2> QED BY <1>1, <2>1, <2>2, HoldingKeepsRecorded
<1> QED BY <1>2, <1>3

LEMMA StallKeepsRecorded == ASSUME IInv, Recorded, NEW w \in View, Stall(w) PROVE Recorded'
<1> DEFINE r == [run[w] EXCEPT !.late = TRUE]
<1>1. run' = [run EXCEPT ![w] = r] /\ UNCHANGED <<place, enabled, records, whole, slipped>>
  BY DEF Stall, Advance, server, history
<1>2. /\ r.at = run[w].at /\ r.archived = run[w].archived /\ r.records = run[w].records
      /\ r.valid = run[w].valid /\ r.crossed = run[w].crossed
  BY FieldsTyped DEF RunType
<1> HIDE DEF r
<1> QED BY <1>1, <1>2, HoldingKeepsRecorded

LEMMA EndingsKeepRecorded ==
    ASSUME IInv, Recorded, NEW w \in View,
           NothingToDo(w) \/ NoLongerEligible(w) \/ Fails(w) \/ TimeOut(w)
    PROVE  Recorded'
<1>1. /\ run[w].at # "idle" /\ UNCHANGED whole
      /\ \A t \in Task : Onwards(t)
  BY DEF NothingToDo, NoLongerEligible, Fails, TimeOut, Looking, Rechecking, Onwards, server
<1>2. \/ Abort(w) \/ Finish(w, run[w].records)
      \/ Finish(w, Synchronized(records, run[w].archived))
  BY DEF NothingToDo, NoLongerEligible, Fails, TimeOut
<1> QED BY <1>1, <1>2, AbortKeepsRecorded, FinishKeepsRecorded, OwnRecordsWritable,
           SynchronizedWritable
(* The answer finds the run that waits for it.                             *)
LEMMA ServeKeepsRecorded ==
    ASSUME IInv, RInv, NEW r \in requests, Serve(r) PROVE Recorded'
<1> DEFINE fits == IF r.op = "delete" THEN Exists(r.task) ELSE place[r.task] = "active"
<1>1. r.op \in Op /\ r.task \in Task /\ r.from \in View \union {None}
  BY DEF IInv, Typed
<1>2. /\ whole' = whole
      /\ place' = IF ~fits THEN place
                  ELSE [place EXCEPT ![r.task] = IF r.op = "delete" THEN "deleted" ELSE "archived"]
  BY DEF Serve
<1>3. ASSUME NEW t \in Task PROVE Onwards(t)
  BY <1>1, <1>2 DEF Onwards, IInv, Typed
<1>4. CASE r.from = None
  <2>1. UNCHANGED <<run, enabled, records, whole, slipped>>
    BY <1>2, <1>4 DEF Serve, storage
  <2> QED BY <1>3, <2>1, OnwardsKeepsRecorded DEF RInv
<1>5. CASE r.from # None
  <2> DEFINE w == r.from
  <2>1. w \in View /\ run[w].at # "idle"
    BY <1>1, <1>5 DEF RInv, Waits
  <2>2. CASE Abort(w)
    BY <1>2, <1>3, <2>1, <2>2, AbortKeepsRecorded DEF RInv
  <2>3. CASE Finish(w, run[w].records)
    BY <1>2, <1>3, <2>1, <2>3, FinishKeepsRecorded, OwnRecordsWritable DEF RInv
  <2>4. CASE fits /\ Finish(w, Outcome(r).records)
    <3> DEFINE recs == Outcome(r).records
    <3>1. run[w].records \in [Task -> Record]
      BY <2>1 DEF IInv, Typed, RunType
    <3>2. recs = [run[w].records EXCEPT ![r.task] = IF r.op = "delete" THEN "none" ELSE "fresh"]
      BY DEF Outcome
    <3> HIDE DEF recs
    <3>3. ASSUME NEW t \in Task PROVE Writable(w, recs, t)
      <4>1. CASE t = r.task
        <5>1. recs[t] = IF r.op = "delete" THEN "none" ELSE "fresh"
          BY <1>1, <3>1, <3>2, <4>1
        <5>2. r.op # "delete" => place'[t] = "archived"
          BY <1>1, <1>2, <2>4, <4>1 DEF IInv, Typed
        <5> QED BY <5>1, <5>2 DEF Writable
      <4>2. CASE t # r.task
        <5>1. recs[t] = run[w].records[t]
          BY <3>1, <3>2, <4>2
        <5>2. Writable(w, run[w].records, t)
          BY <2>1, OwnRecordsWritable DEF RInv
        <5> QED BY <5>1, <5>2 DEF Writable
      <4> QED BY <4>1, <4>2
    <3>4. Finish(w, recs)
      BY <2>4 DEF recs
    <3> QED BY <1>2, <1>3, <2>1, <3>3, <3>4, FinishKeepsRecorded DEF RInv
  <2> QED BY <1>5, <2>2, <2>3, <2>4 DEF Serve
<1> QED BY <1>1, <1>4, <1>5

LEMMA RejectKeepsRecorded ==
    ASSUME IInv, RInv, NEW r \in requests, Reject(r) PROVE Recorded'
<1>1. whole' = whole /\ \A t \in Task : Onwards(t)
  BY DEF Reject, server, Onwards
<1>2. CASE UNCHANGED <<storage, lock, view, armed, run, slipped>>
  BY <1>1, <1>2, OnwardsKeepsRecorded DEF RInv, storage
<1>3. CASE r.from # None /\ Finish(r.from, run[r.from].records)
  <2>1. r.from \in View /\ run[r.from].at # "idle"
    BY <1>3 DEF RInv, Waits, IInv, Typed
  <2> QED BY <1>1, <1>3, <2>1, FinishKeepsRecorded, OwnRecordsWritable DEF RInv
<1> QED BY <1>2, <1>3 DEF Reject

(* A restored task makes its record, and what a run listed, stale.         *)
LEMMA RestoreKeepsRecorded ==
    ASSUME IInv, Recorded, NEW t \in Task, Restore(t) PROVE Recorded'
<1>1. /\ UNCHANGED <<run, enabled, records>> /\ whole' = whole \ {t}
      /\ place' = [place EXCEPT ![t] = "active"] /\ place \in [Task -> Place]
      /\ slipped' = IF records[t] # "none" \/ \E w \in View : t \in run[w].archived
                    THEN slipped \union {t} ELSE slipped
  BY DEF Restore, storage, views, IInv, Typed
<1>2. \A v \in View : Unlisted(v)' /\ (MayWrite(v)' <=> MayWrite(v))
  BY <1>1 DEF Recorded, Unlisted, MayWrite
<1>3. ASSUME NEW u \in Task PROVE Stored(u)'
  <2>1. Stored(u)
    BY DEF Recorded
  <2>2. CASE u = t
    BY <1>1, <2>2 DEF Stored
  <2>3. CASE u # t
    BY <1>1, <2>1, <2>3 DEF Stored
  <2> QED BY <2>2, <2>3
<1>4. ASSUME NEW v \in View, NEW u \in Task PROVE Listed(v, u)'
  <2>1. Listed(v, u)
    BY DEF Recorded
  <2>2. CASE u = t
    BY <1>1, <2>1, <2>2 DEF Listed
  <2>3. CASE u # t
    BY <1>1, <1>2, <2>1, <2>3 DEF Listed
  <2> QED BY <2>2, <2>3
<1> QED BY <1>2, <1>3, <1>4 DEF Recorded

LEMMA SwitchOffKeepsRecorded ==
    ASSUME IInv, Recorded, NEW w \in View, SwitchOff(w) PROVE Recorded'
<1>1. /\ run' = [run EXCEPT ![w] = [run[w] EXCEPT !.valid = FALSE]]
      /\ ~enabled' /\ records' = NoRecords /\ UNCHANGED <<place, whole>>
  BY DEF SwitchOff, server
<1>2. \A t \in Task : Stored(t)'
  BY <1>1 DEF Stored, NoRecords
<1>3. ASSUME NEW v \in View
      PROVE  Unlisted(v)' /\ \A t \in Task : Listed(v, t)'
  <2>1. run[v] \in RunType
    BY DEF IInv, Typed
  <2>2. CASE v = w
    <3> DEFINE r == [run[v] EXCEPT !.valid = FALSE]
    <3>1. run'[v] = r
      BY <1>1, <2>2 DEF IInv, Typed
    <3>2. /\ r.at = run[v].at /\ r.archived = run[v].archived /\ r.records = run[v].records
          /\ r.valid = FALSE /\ r.crossed = run[v].crossed
      BY <2>1 DEF RunType
    <3> HIDE DEF r
    <3> QED BY <1>1, <3>1, <3>2, SameListed
  <2>3. CASE v # w
    <3>1. run'[v] = run[v]
      BY <1>1, <2>3 DEF IInv, Typed
    <3> QED BY <1>1, <3>1, SameListed
  <2> QED BY <2>2, <2>3
<1> QED BY <1>2, <1>3 DEF Recorded

(* Switched on, there are no records; a run that is under way in another   *)
(* view will not know.                                                     *)
LEMMA SwitchOnKeepsRecorded ==
    ASSUME IInv, Recorded, NEW w \in View, SwitchOn(w) PROVE Recorded'
<1>1. /\ run' = [v \in View |-> IF v = w THEN [run[w] EXCEPT !.valid = FALSE]
                                ELSE [run[v] EXCEPT !.crossed = Pending(v)]]
      /\ UNCHANGED <<place, records>> /\ records = NoRecords
  BY DEF SwitchOn, server, IInv, TrackingEndsWithSwitch
<1>2. \A t \in Task : Stored(t)'
  BY <1>1 DEF Stored, NoRecords
<1>3. ASSUME NEW v \in View
      PROVE  Unlisted(v)' /\ \A t \in Task : Listed(v, t)'
  <2>1. run[v] \in RunType /\ Unlisted(v) /\ \A t \in Task : Listed(v, t)
    BY DEF IInv, Typed, Recorded
  <2>2. CASE v = w
    <3> DEFINE r == [run[v] EXCEPT !.valid = FALSE]
    <3>1. run'[v] = r
      BY <1>1, <2>2
    <3>2. /\ r.at = run[v].at /\ r.archived = run[v].archived /\ r.records = run[v].records
          /\ r.valid = FALSE
      BY <2>1 DEF RunType
    <3> HIDE DEF r
    <3>3. ~MayWrite(v)'
      BY <3>1, <3>2 DEF MayWrite
    <3> QED BY <2>1, <3>1, <3>2, <3>3 DEF Unlisted, Listed
  <2>3. CASE v # w
    <3> DEFINE r == [run[v] EXCEPT !.crossed = Pending(v)]
    <3>1. run'[v] = r
      BY <1>1, <2>3
    <3>2. /\ r.at = run[v].at /\ r.archived = run[v].archived /\ r.records = run[v].records
          /\ r.crossed = Pending(v)
      BY <2>1 DEF RunType
    <3> HIDE DEF r
    <3>3. CASE Pending(v)
      <4>1. ~MayWrite(v)'
        BY <3>1, <3>2, <3>3 DEF MayWrite
      <4> QED BY <2>1, <3>1, <3>2, <4>1 DEF Unlisted, Listed
    <3>4. CASE ~Pending(v)
      <4>1. run[v].archived = {}
        BY <2>1, <3>4 DEF Unlisted, Pending
      <4> QED BY <2>1, <3>1, <3>2, <4>1 DEF Unlisted, Listed
    <3> QED BY <3>3, <3>4
  <2> QED BY <2>2, <2>3
<1> QED BY <1>2, <1>3 DEF Recorded

LEMMA UninstallKeepsRecorded ==
    ASSUME IInv, Recorded, NEW w \in View, Uninstall(w) PROVE Recorded'
<1> DEFINE r == [run[w] EXCEPT !.valid = FALSE]
<1>1. run' = [run EXCEPT ![w] = r] /\ UNCHANGED <<place, enabled, records, whole, slipped>>
  BY DEF Uninstall, storage, history
<1>2. /\ r.at = run[w].at /\ r.archived = run[w].archived /\ r.records = run[w].records
      /\ r.valid = FALSE /\ r.crossed = run[w].crossed
  BY FieldsTyped DEF RunType
<1> HIDE DEF r
<1> QED BY <1>1, <1>2, HoldingKeepsRecorded

LEMMA CloseKeepsRecorded == ASSUME IInv, Recorded, NEW w \in View, Close(w) PROVE Recorded'
<1>1. run' = [run EXCEPT ![w] = NoRun] /\ UNCHANGED <<place, enabled, records, whole, slipped>>
  BY DEF Close, history
<1>2. NoRun.archived = {} /\ NoRun.records = NoRecords
  BY DEF NoRun
<1> QED BY <1>1, <1>2, RestartKeepsRecorded

(* A week passes: a record that becomes due is of a task that is in the    *)
(* archive, or is stale.                                                   *)
LEMMA WeekKeepsRecorded == ASSUME IInv, Recorded, WeekPasses PROVE Recorded'
<1>1. /\ UNCHANGED <<place, enabled, slipped>> /\ place \in [Task -> Place]
      /\ whole' = whole \union In("archived") /\ records' = Aged(records)
  BY DEF WeekPasses, IInv, Typed
<1>2. \A t \in Task : /\ place[t] \in Place
                      /\ place[t] = "archived" => t \in whole'
  BY <1>1 DEF In
<1>3. ASSUME NEW t \in Task PROVE Stored(t)'
  <2>1. Stored(t)
    BY DEF Recorded
  <2>2. records'[t] = IF records[t] = "none" THEN "none" ELSE "due"
    BY <1>1 DEF Aged
  <2> QED BY <1>1, <1>2, <2>1, <2>2 DEF Stored, Place
<1>4. ASSUME NEW v \in View PROVE Unlisted(v)' /\ \A t \in Task : Listed(v, t)'
  <2>1. run[v] \in RunType /\ Unlisted(v) /\ \A t \in Task : Listed(v, t)
    BY DEF IInv, Typed, Recorded
  <2>2. CASE ~Pending(v)
    <3>1. run'[v] = run[v] /\ run[v].archived = {}
      BY <2>1, <2>2 DEF WeekPasses, Unlisted, Pending
    <3> QED BY <2>1, <3>1 DEF Unlisted, Listed
  <2>3. CASE Pending(v)
    <3> DEFINE r == [run[v] EXCEPT !.late = TRUE, !.records = Aged(run[v].records)]
    <3>1. run'[v] = r
      BY <2>1, <2>3 DEF WeekPasses, RunType
    <3>2. /\ r.at = run[v].at /\ r.archived = run[v].archived /\ r.crossed = run[v].crossed
          /\ r.valid = run[v].valid /\ r.records = Aged(run[v].records)
      BY <2>1 DEF RunType
    <3> HIDE DEF r
    <3>3. MayWrite(v)' <=> MayWrite(v)
      BY <1>1, <3>1, <3>2 DEF MayWrite
    <3>4. ASSUME NEW t \in Task PROVE Listed(v, t)'
      <4>1. run'[v].records[t] = IF run[v].records[t] = "none" THEN "none" ELSE "due"
        BY <3>1, <3>2 DEF Aged
      <4> QED BY <1>1, <1>2, <2>1, <3>1, <3>2, <3>3, <4>1 DEF Listed, Place
    <3> QED BY <2>1, <3>1, <3>2, <3>4 DEF Unlisted
  <2> QED BY <2>2, <2>3
<1> QED BY <1>3, <1>4 DEF Recorded

LEMMA NextKeepsRecorded == ASSUME IInv, RInv, Next PROVE Recorded'
<1>1. Recorded
  BY DEF RInv
<1>2. ASSUME NEW w \in View, Render(w) \/ Show(w) \/ Open(w) PROVE Recorded'
  BY <1>1, <1>2, OnwardsKeepsRecorded
     DEF Render, Show, Open, Onwards, server, storage, views, history
<1>3. ASSUME NEW t \in Task, Pin(t) \/ ArchiveByHand(t) PROVE Recorded'
  <2>1. UNCHANGED <<run, enabled, records, whole, slipped>>
    BY <1>3 DEF Pin, ArchiveByHand, storage, views, history
  <2>2. \A u \in Task : Onwards(u)
    BY <1>3 DEF Pin, ArchiveByHand, Onwards, IInv, Typed
  <2> QED BY <1>1, <2>1, <2>2, OnwardsKeepsRecorded
<1>4. CASE LeaseExpires
  BY <1>1, <1>4, OnwardsKeepsRecorded DEF LeaseExpires, Onwards, server, views, history
<1>5. ASSUME NEW w \in View,
             \/ Fire(w) \/ Start(w) \/ ListActive(w) \/ ListArchived(w) \/ Choose(w)
             \/ ReadPinsAgain(w) \/ Send(w) \/ Renew(w) \/ Stall(w)
      PROVE  Recorded'
  BY <1>1, <1>5, FireKeepsRecorded, StartKeepsRecorded, ListActiveKeepsRecorded,
     ListArchivedKeepsRecorded, ChooseKeepsRecorded, ReadPinsAgainKeepsRecorded,
     SendKeepsRecorded, RenewKeepsRecorded, StallKeepsRecorded
<1> QED BY <1>1, <1>2, <1>3, <1>4, <1>5, EndingsKeepRecorded, ServeKeepsRecorded,
           RejectKeepsRecorded, RestoreKeepsRecorded, SwitchOffKeepsRecorded,
           SwitchOnKeepsRecorded, UninstallKeepsRecorded, CloseKeepsRecorded, WeekKeepsRecorded
        DEF Next

-----------------------------------------------------------------------------
(* A view sends one request and waits.                                     *)

(* No run that waits is moved on.                                          *)
LEMMA PatienceKeepsWaits ==
    ASSUME IInv, Waits, UNCHANGED requests,
           \A v \in View : run[v].at = "sent" => run'[v].at = "sent"
    PROVE  Waits'
  BY DEF Waits, IInv, Typed

LEMMA OneMovesKeepsWaits ==
    ASSUME IInv, Waits, NEW w \in View, NEW r, run' = [run EXCEPT ![w] = r],
           r.at = run[w].at \/ run[w].at # "sent", UNCHANGED requests
    PROVE  Waits'
  BY PatienceKeepsWaits DEF IInv, Typed

LEMMA RunKeepsWaits ==
    ASSUME IInv, Waits, NEW w \in View,
           \/ Fire(w) \/ Start(w) \/ ListActive(w) \/ ListArchived(w) \/ NothingToDo(w)
           \/ Choose(w) \/ ReadPinsAgain(w) \/ NoLongerEligible(w) \/ Fails(w)
    PROVE  Waits'
<1>1. requests' = requests
  BY DEF Fire, Start, ListActive, ListArchived, NothingToDo, Choose, ReadPinsAgain,
         NoLongerEligible, Fails
<1>2. \A v \in View \ {w} : run'[v] = run[v]
  BY DEF Fire, Start, ListActive, ListArchived, NothingToDo, Choose, ReadPinsAgain,
         NoLongerEligible, Fails, Advance, Finish, Abort, End, IInv, Typed
<1>3. run[w].at # "sent" \/ run' = run
  <2>1. CASE Fire(w)
    <3>1. CASE enabled /\ ~Pending(w) /\ lock = None
      BY <3>1 DEF Pending
    <3> QED BY <2>1, <3>1 DEF Fire
  <2> QED BY <2>1 DEF Start, ListActive, ListArchived, NothingToDo, Choose, ReadPinsAgain,
                      NoLongerEligible, Fails, Looking, Rechecking
<1> QED BY <1>1, <1>2, <1>3, PatienceKeepsWaits

LEMMA SendKeepsWaits == ASSUME IInv, Waits, NEW w \in View, Send(w) PROVE Waits'
<1> DEFINE r == [run[w] EXCEPT !.at = "sent", !.ready = {}, !.parents = {}, !.cold = {},
                               !.pins = {}]
           q == [op |-> run[w].op, task |-> run[w].task, from |-> w]
<1>1. run' = [run EXCEPT ![w] = r] /\ requests' = requests \union {q} /\ run[w].at = "rarchived"
  BY DEF Send, Advance
<1>2. r.at = "sent" /\ q.from = w
  BY FieldsTyped DEF RunType
<1> HIDE DEF r, q
<1>3. run'[w].at = "sent" /\ \A v \in View \ {w} : run'[v] = run[v]
  BY <1>1, <1>2 DEF IInv, Typed
<1>4. \A s \in requests : s.from \in View \union {None} /\ s.from # w
  BY <1>1, NoneAssumption DEF Waits, IInv, Typed
<1>5. \A s \in requests' : s.from # None => run'[s.from].at = "sent"
  BY <1>1, <1>2, <1>3, <1>4 DEF Waits
<1>6. \A s, u \in requests' : s.from = u.from /\ s.from # None => s = u
  BY <1>1, <1>2, <1>4 DEF Waits
<1> QED BY <1>5, <1>6 DEF Waits

(* What marks the runs leaves them where they are.                         *)
LEMMA MarksStay ==
    ASSUME IInv,
           \/ \E w \in View : Renew(w) \/ Stall(w) \/ SwitchOff(w) \/ SwitchOn(w) \/ Uninstall(w)
           \/ WeekPasses
    PROVE  \A v \in View : run'[v].at = run[v].at
<1>0. \A v \in View : run[v] \in RunType
  BY DEF IInv, Typed
<1>2. ASSUME NEW w \in View, Renew(w) \/ SwitchOff(w) \/ Uninstall(w), NEW v \in View
      PROVE  run'[v].at = run[v].at
  <2>1. \/ run' = run
        \/ run' = [run EXCEPT ![w] = [run[w] EXCEPT !.valid = FALSE]]
    BY <1>2 DEF Renew, SwitchOff, Uninstall, Advance
  <2>2. run'[v] = run[v] \/ run'[v] = [run[v] EXCEPT !.valid = FALSE]
    BY <2>1 DEF IInv, Typed
  <2> QED BY <1>0, <2>2, MarkedAlike
<1>3. ASSUME NEW w \in View, Stall(w), NEW v \in View PROVE run'[v].at = run[v].at
  <2>1. run'[v] = run[v] \/ run'[v] = [run[v] EXCEPT !.late = TRUE]
    BY <1>3 DEF Stall, Advance, IInv, Typed
  <2> QED BY <1>0, <2>1, MarkedAlike
<1>4. ASSUME NEW w \in View, SwitchOn(w), NEW v \in View PROVE run'[v].at = run[v].at
  <2>1. \/ run'[v] = [run[v] EXCEPT !.valid = FALSE]
        \/ run'[v] = [run[v] EXCEPT !.crossed = Pending(v)]
    BY <1>4 DEF SwitchOn
  <2>2. /\ [run[v] EXCEPT !.valid = FALSE].at = run[v].at
        /\ [run[v] EXCEPT !.crossed = Pending(v)].at = run[v].at
    BY <1>0 DEF RunType
  <2> QED BY <2>1, <2>2
<1>5. ASSUME WeekPasses, NEW v \in View PROVE run'[v].at = run[v].at
  <2>1. \/ run'[v] = run[v]
        \/ run'[v] = [run[v] EXCEPT !.late = TRUE, !.records = Aged(run[v].records)]
    BY <1>0, <1>5 DEF WeekPasses, RunType
  <2>2. [run[v] EXCEPT !.late = TRUE, !.records = Aged(run[v].records)].at = run[v].at
    BY <1>0 DEF RunType
  <2> QED BY <2>1, <2>2
<1> QED BY <1>2, <1>3, <1>4, <1>5

LEMMA MarksKeepWaits ==
    ASSUME IInv, Waits,
           \/ \E w \in View : Renew(w) \/ Stall(w) \/ SwitchOff(w) \/ SwitchOn(w) \/ Uninstall(w)
           \/ WeekPasses
    PROVE  Waits'
<1>1. requests' = requests
  BY DEF Renew, Stall, SwitchOff, SwitchOn, Uninstall, WeekPasses
<1> QED BY <1>1, MarksStay, PatienceKeepsWaits

(* A view that stops waiting disowns its request.                          *)
LEMMA DisowningKeepsWaits ==
    ASSUME IInv, Waits, NEW w \in View, TimeOut(w) \/ Close(w) PROVE Waits'
<1>1. requests' = {IF r.from = w THEN [r EXCEPT !.from = None] ELSE r : r \in requests}
  BY DEF TimeOut, Close
<1>2. \A r \in requests : [r EXCEPT !.from = None].from = None
  BY DEF IInv, Typed
<1>3. \A r \in requests' : r.from # None => r \in requests /\ r.from # w
  BY <1>1, <1>2
<1>4. \A v \in View \ {w} : run'[v] = run[v]
  BY DEF TimeOut, Close, Finish, Abort, End, IInv, Typed
<1> QED BY <1>3, <1>4 DEF Waits, IInv, Typed

LEMMA AnswersKeepWaits ==
    ASSUME IInv, Waits, NEW r \in requests, Serve(r) \/ Reject(r) PROVE Waits'
<1>1. requests' = requests \ {r} /\ r.from \in View \union {None}
  BY DEF Serve, Reject, IInv, Typed
<1>2. run' = run \/ (r.from # None /\ \A v \in View \ {r.from} : run'[v] = run[v])
  BY DEF Serve, Reject, Finish, Abort, End, IInv, Typed
<1>3. \A s \in requests' : s.from # None => s.from \in View /\ run'[s.from] = run[s.from]
  BY <1>1, <1>2 DEF Waits, IInv, Typed
<1> QED BY <1>1, <1>3 DEF Waits

LEMMA NextKeepsWaits == ASSUME IInv, Waits, Next PROVE Waits'
<1>1. ASSUME UNCHANGED <<run, requests>> PROVE Waits'
  BY <1>1, PatienceKeepsWaits
<1>2. ASSUME NEW w \in View, Render(w) \/ Show(w) \/ Open(w) PROVE Waits'
  BY <1>1, <1>2 DEF Render, Show, Open, views
<1>3. ASSUME NEW t \in Task, Pin(t) \/ ArchiveByHand(t) \/ Restore(t) PROVE Waits'
  BY <1>1, <1>3 DEF Pin, ArchiveByHand, Restore, views
<1>4. CASE LeaseExpires
  BY <1>1, <1>4 DEF LeaseExpires, views
<1> QED BY <1>2, <1>3, <1>4, RunKeepsWaits, SendKeepsWaits, MarksKeepWaits, DisowningKeepsWaits,
           AnswersKeepWaits
        DEF Next

LEMMA RecordInvariance == Spec => [](IInv /\ RInv)
<1>1. Init => RInv
  BY DEF Init, RInv, Waits, Recorded, Stored, Unlisted, Listed, NoRecords, NoRun
<1>2. IInv /\ RInv /\ [Next]_vars => RInv'
  <2>1. ASSUME RInv, UNCHANGED vars PROVE RInv'
    BY <2>1 DEF RInv, Waits, Recorded, Stored, Unlisted, Listed, MayWrite, vars, server, storage,
                views, history
  <2>2. ASSUME IInv, RInv, Next PROVE RInv'
    BY <2>2, NextKeepsRecorded, NextKeepsWaits DEF RInv
  <2> QED BY <2>1, <2>2
<1> QED BY <1>1, <1>2, Invariance, PTL DEF Spec

(* What is deleted was in the archive for a whole week of recovery, unless *)
(* its record outlived a restore that no run noticed, or a switching off   *)
(* and on in another window during a run.                                  *)
THEOREM DeletedRecovered == Spec => DeletedAfterRecovery
<1> DEFINE Step == \A r \in requests' \ requests :
                      r.op = "delete" /\ r.from # None => r.task \in whole \union slipped
<1>1. ASSUME IInv, RInv, Next PROVE Step
  <2> SUFFICES ASSUME NEW r \in requests' \ requests, r.op = "delete", r.from # None
               PROVE  r.task \in whole \union slipped
    OBVIOUS
  <2>1. /\ r.from \in View /\ Send(r.from)
        /\ r.op = run[r.from].op /\ r.task = run[r.from].task
    BY <1>1, OnlySent
  <2>2. r.task \in In("archived") /\ records[r.task] = "due"
    BY <2>1 DEF Send, StillEligible, Deletable
  <2>3. r.task \in Task /\ place[r.task] = "archived"
    BY <2>2 DEF In
  <2> QED BY <1>1, <2>2, <2>3 DEF RInv, Recorded, Stored
<1>2. IInv /\ RInv /\ [Next]_vars => [Step]_vars
  BY <1>1
<1> QED BY <1>2, RecordInvariance, PTL DEF Spec, DeletedAfterRecovery
-----------------------------------------------------------------------------
(* A view keeps its timer or its run.                                      *)

Scheduled(v) == armed[v] \/ run[v].at # "idle"

KeepsScheduled == \A v \in View : Scheduled(v) /\ enabled' /\ view[v] = "up" /\ view'[v] = "up"
                                      => Scheduled(v)'

(* Timers and the steps of the runs are as they were.                      *)
LEMMA UntimedKeepsScheduled ==
    ASSUME UNCHANGED armed, \A v \in View : run[v].at # "idle" => run'[v].at # "idle"
    PROVE  KeepsScheduled
  BY DEF KeepsScheduled, Scheduled

(* The end of a run sets the timer.                                        *)
LEMMA EndKeepsScheduled ==
    ASSUME IInv, NEW w \in View, End(w), UNCHANGED enabled PROVE KeepsScheduled
<1> SUFFICES ASSUME NEW v \in View, Scheduled(v), enabled', view[v] = "up" PROVE Scheduled(v)'
  BY DEF KeepsScheduled
<1>1. CASE v = w
  BY <1>1 DEF End, Schedule, Scheduled, IInv, Typed
<1>2. CASE v # w
  BY <1>2 DEF End, Schedule, Scheduled, IInv, Typed
<1> QED BY <1>1, <1>2

LEMMA RunKeepsScheduled ==
    ASSUME IInv, NEW w \in View,
           \/ Fire(w) \/ Start(w) \/ ListActive(w) \/ ListArchived(w) \/ NothingToDo(w)
           \/ Choose(w) \/ ReadPinsAgain(w) \/ Send(w) \/ NoLongerEligible(w) \/ Fails(w)
           \/ TimeOut(w)
    PROVE  KeepsScheduled
<1>0. run \in [View -> RunType] /\ run[w] \in RunType /\ armed \in [View -> BOOLEAN]
  BY DEF IInv, Typed
<1>1. CASE End(w) /\ UNCHANGED enabled
  BY <1>1, EndKeepsScheduled
<1>2. ASSUME NEW r, run' = [run EXCEPT ![w] = r], r.at # "idle", UNCHANGED armed
      PROVE  KeepsScheduled
  BY <1>0, <1>2, UntimedKeepsScheduled
<1>3. CASE Fire(w)
  <2> DEFINE granted == enabled /\ ~Pending(w) /\ lock = None
             r == [NoRun EXCEPT !.at = "bridge"]
  <2>1. r.at = "bridge"
    BY DEF NoRun
  <2>2. /\ armed' = [armed EXCEPT ![w] = (enabled /\ ~Pending(w)) /\ ~granted]
        /\ granted => run' = [run EXCEPT ![w] = r]
        /\ ~granted => run' = run
        /\ enabled' = enabled
    BY <1>3 DEF Fire, Advance, storage
  <2> HIDE DEF r
  <2>3. \A v \in View \ {w} : armed'[v] = armed[v] /\ run'[v] = run[v]
    BY <1>0, <2>2
  <2>4. enabled' => Scheduled(w)'
    <3>1. CASE granted
      BY <1>0, <2>1, <2>2, <3>1 DEF Scheduled
    <3>2. CASE ~granted
      BY <1>0, <2>2, <3>2 DEF Scheduled, Pending
    <3> QED BY <3>1, <3>2
  <2> QED BY <2>3, <2>4 DEF KeepsScheduled, Scheduled
<1>4. CASE Start(w)
  <2>1. [NoRun EXCEPT !.at = "active", !.valid = TRUE].at = "active"
    BY DEF NoRun
  <2> QED BY <1>1, <1>2, <1>4, <2>1 DEF Start, Advance
<1>5. CASE ListActive(w)
  <2> DEFINE p == IF run[w].at = "active" THEN "archived" ELSE "rarchived"
             r == [run[w] EXCEPT !.at = p, !.ready = {t \in In("active") \intersect dormant : ~Loaded(t)},
                                 !.parents = ParentsOf(In("active"))]
  <2>1. run' = [run EXCEPT ![w] = r] /\ UNCHANGED armed
    BY <1>5 DEF ListActive, Advance
  <2>2. r.at = p /\ p # "idle"
    BY <1>0 DEF RunType
  <2> HIDE DEF r
  <2> QED BY <1>2, <2>1, <2>2
<1>6. CASE ListArchived(w)
  <2> DEFINE r == [run[w] EXCEPT !.at = "pins", !.archived = In("archived"),
                      !.cold = {t \in In("archived") : ~Loaded(t)},
                      !.parents = run[w].parents \union ParentsOf(In("archived"))]
  <2>1. run' = [run EXCEPT ![w] = r] /\ UNCHANGED armed
    BY <1>0, <1>6 DEF ListArchived, Advance, RunType
  <2>2. r.at = "pins"
    BY <1>0 DEF RunType
  <2> HIDE DEF r
  <2> QED BY <1>2, <2>1, <2>2
<1>7. CASE Choose(w)
  <2> DEFINE recs == Synchronized(records, run[w].archived)
  <2>0. PICK op \in Op : \E t \in Candidates(w, op) :
            run' = [run EXCEPT ![w] = [run[w] EXCEPT !.at = "rpins", !.op = op, !.task = t,
                        !.records = recs, !.ready = {}, !.parents = {}, !.cold = {}]]
    BY <1>7 DEF Choose, Advance
  <2>1. PICK t \in Candidates(w, op) :
            run' = [run EXCEPT ![w] = [run[w] EXCEPT !.at = "rpins", !.op = op, !.task = t,
                        !.records = recs, !.ready = {}, !.parents = {}, !.cold = {}]]
    BY <2>0
  <2> HIDE DEF recs
  <2> DEFINE r == [run[w] EXCEPT !.at = "rpins", !.op = op, !.task = t,
                      !.records = recs, !.ready = {}, !.parents = {}, !.cold = {}]
  <2>2. r.at = "rpins"
    BY <1>0 DEF RunType
  <2>3. run' = [run EXCEPT ![w] = r] /\ UNCHANGED armed
    BY <1>7, <2>1 DEF Choose
  <2> HIDE DEF r
  <2> QED BY <1>2, <2>2, <2>3
<1>8. CASE ReadPinsAgain(w)
  <2>1. [run[w] EXCEPT !.at = "ractive", !.pins = pinned].at = "ractive"
    BY <1>0 DEF RunType
  <2> QED BY <1>2, <1>8, <2>1 DEF ReadPinsAgain, Advance
<1>9. CASE Send(w)
  <2>1. [run[w] EXCEPT !.at = "sent", !.ready = {}, !.parents = {}, !.cold = {},
                       !.pins = {}].at = "sent"
    BY <1>0 DEF RunType
  <2> QED BY <1>2, <1>9, <2>1 DEF Send, Advance
<1>10. CASE NothingToDo(w) \/ NoLongerEligible(w) \/ Fails(w) \/ TimeOut(w)
  BY <1>1, <1>10 DEF NothingToDo, NoLongerEligible, Fails, TimeOut, Finish, Abort
<1> QED BY <1>3, <1>4, <1>5, <1>6, <1>7, <1>8, <1>9, <1>10

LEMMA NextKeepsScheduled == ASSUME IInv, Next PROVE KeepsScheduled
<1>1. ASSUME UNCHANGED <<armed, run>> PROVE KeepsScheduled
  BY <1>1, UntimedKeepsScheduled
<1>2. ASSUME NEW w \in View, Show(w) PROVE KeepsScheduled
  BY <1>1, <1>2 DEF Show, views
<1>3. ASSUME NEW t \in Task, Pin(t) \/ ArchiveByHand(t) \/ Restore(t) PROVE KeepsScheduled
  BY <1>1, <1>3 DEF Pin, ArchiveByHand, Restore, views
<1>4. CASE LeaseExpires
  BY <1>1, <1>4 DEF LeaseExpires, views
<1>5. CASE WeekPasses \/ \E w \in View : Renew(w) \/ Stall(w)
  <2>1. UNCHANGED armed
    BY <1>5 DEF WeekPasses, Renew, Stall
  <2> QED BY <1>5, <2>1, MarksStay, UntimedKeepsScheduled
<1>6. ASSUME NEW w \in View, Render(w) \/ Open(w) PROVE KeepsScheduled
  BY <1>6 DEF Render, Open, KeepsScheduled, Scheduled, IInv, Typed
<1>7. ASSUME NEW w \in View, SwitchOff(w) PROVE KeepsScheduled
  BY <1>7 DEF SwitchOff, KeepsScheduled
<1>8. ASSUME NEW w \in View, SwitchOn(w) PROVE KeepsScheduled
  <2>1. \A v \in View : run'[v].at = run[v].at
    BY <1>8, MarksStay
  <2>2. armed' = [armed EXCEPT ![w] = armed[w] \/ ~Pending(w)]
    BY <1>8 DEF SwitchOn
  <2>3. Scheduled(w) => Scheduled(w)'
    BY <2>1, <2>2 DEF Scheduled, IInv, Typed
  <2>4. \A v \in View \ {w} : Scheduled(v) => Scheduled(v)'
    BY <2>1, <2>2 DEF Scheduled, IInv, Typed
  <2> QED BY <2>3, <2>4 DEF KeepsScheduled
<1>9. ASSUME NEW w \in View, Uninstall(w) PROVE KeepsScheduled
  <2>1. \A v \in View : run'[v].at = run[v].at
    BY <1>9, MarksStay
  <2>2. /\ view'[w] # "up"
        /\ \A v \in View \ {w} : armed'[v] = armed[v]
    BY <1>9 DEF Uninstall, IInv, Typed
  <2> QED BY <2>1, <2>2 DEF KeepsScheduled, Scheduled
<1>10. ASSUME NEW w \in View, Close(w) PROVE KeepsScheduled
  <2>1. /\ view'[w] # "up"
        /\ \A v \in View \ {w} : armed'[v] = armed[v] /\ run'[v] = run[v]
    BY <1>10 DEF Close, IInv, Typed
  <2> QED BY <2>1 DEF KeepsScheduled, Scheduled
<1>11. ASSUME NEW r \in requests, Serve(r) \/ Reject(r) PROVE KeepsScheduled
  <2>1. CASE UNCHANGED <<armed, run>>
    BY <1>1, <2>1
  <2>2. CASE r.from # None /\ End(r.from) /\ UNCHANGED enabled
    <3>1. r.from \in View
      BY <2>2 DEF IInv, Typed
    <3> QED BY <2>2, <3>1, EndKeepsScheduled
  <2> QED BY <1>11, <2>1, <2>2 DEF Serve, Reject, Finish, Abort
<1> QED BY <1>2, <1>3, <1>4, <1>5, <1>6, <1>7, <1>8, <1>9, <1>10, <1>11, RunKeepsScheduled DEF Next

(* A view that was waiting for its next run, or in one, goes on to the     *)
(* next whatever happens to the run, while cleanup is on and the view up:  *)
(* no end of a run, failed, refused or timed out, forgets the timer.       *)
THEOREM ScheduleStays == Spec => StaysScheduled
<1> DEFINE Step == \A w \in View :
                      /\ armed[w] \/ run[w].at # "idle"
                      /\ enabled' /\ view[w] = "up" /\ view'[w] = "up"
                      => armed'[w] \/ run'[w].at # "idle"
<1>1. IInv /\ [Next]_vars => [Step]_vars
  <2>1. ASSUME IInv, Next PROVE Step
    BY <2>1, NextKeepsScheduled DEF KeepsScheduled, Scheduled
  <2> QED BY <2>1
<1> QED BY <1>1, Invariance, PTL DEF Spec, StaysScheduled
=============================================================================
