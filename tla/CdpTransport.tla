---------------------------- MODULE CdpTransport ----------------------------
(***************************************************************************)
(* The update bridge of the coordinator into the app's page, over the      *)
(* page's debugger port (update-session-cdp.js, class CdpTransport).  The   *)
(* coordinator is one event loop: an action resumes one `await' and runs    *)
(* to the next.  A call to the page takes effect when it is sent, or not at *)
(* all; its answer may be lost.  Where something can come between a call    *)
(* and its answer on which later code relies (announcing and publishing a   *)
(* status, the convergence after a reload, the health probe), sending and   *)
(* answering are two actions.                                               *)
(*                                                                          *)
(* An attachment (`session' in the code) is a slot of Session; a slot is    *)
(* used again when nothing names it any more (bindingSequence counts on).   *)
(***************************************************************************)
EXTENDS Naturals, FiniteSets

CONSTANTS
    Session,                            \* attachments that something still names
    None,                               \* null
    MaxStatus, MaxReloads, MaxFaults,   \* bounds: statuses published, reloads of
    MaxToggles                          \* the page, faults, closings and closes

ASSUME NoneAssumption == None \notin Session /\ IsFiniteSet(Session)
ASSUME BoundAssumption == {MaxStatus, MaxReloads, MaxFaults, MaxToggles} \subseteq Nat

Attacher == {"attach", "reattach"}   \* attachPromise, reattachPromise

VARIABLES
    page,       \* the document: up, owner of the bridge in it, status it shows
    scripts,    \* attachments whose bootstrap script every new document runs
    earlier,    \* ... and, per script, those that run before it
    link,       \* per attachment: its connection, binding and script
    clean,      \* per attachment: the step its cleanup is at, and for whom
    fresh,      \* attachments whose mainContextId is of the present document
    session,    \* this.session
    committed,  \* attachments with session.committed
    persistent, \* this.persistentIdentifier
    att,        \* per attacher: where #attachOnce or its loop is
    conv,       \* the convergence of the current session
    pub,        \* a publish() in progress
    probe,      \* the session a health probe will find broken, or None
    status,     \* the controller's status, lastStatus (a number: the newer, the larger)
    closed, closingExpected, phase, timer,
    bound,      \* faults, reloads and toggles so far
    overlapped, \* (history) a re-attach was started beside a first attach
    missed      \* (history) a reload whose convergence gave up or was swallowed

registry == <<scripts, earlier>>
browser == <<page, registry, fresh>>
caller  == <<status, closed, closingExpected, phase, timer>>
history == <<overlapped, missed>>
vars == <<browser, link, clean, session, committed, persistent, att, conv, pub,
          probe, caller, bound, history>>

NoLink  == [conn |-> "closed", binding |-> FALSE, script |-> FALSE, baked |-> 0]
Idle    == [at |-> "idle", s |-> None, told |-> 0, ok |-> FALSE]
NoConv  == [on |-> FALSE, again |-> FALSE, sent |-> "no"]
NoCall  == [at |-> "idle", s |-> None, ok |-> FALSE, told |-> 0]
NotCleaning == [at |-> "no", by |-> "lost"]

Init ==
    /\ page = [up |-> TRUE, owner |-> None, shown |-> 0]
    /\ scripts = {} /\ earlier = [s \in Session |-> {}] /\ fresh = {}
    /\ link = [s \in Session |-> NoLink]
    /\ clean = [s \in Session |-> NotCleaning]
    /\ session = None /\ committed = {} /\ persistent = None
    /\ att = [a \in Attacher |-> IF a = "attach" THEN [Idle EXCEPT !.at = "connect"] ELSE Idle]
    /\ conv = NoConv /\ pub = NoCall /\ probe = None
    /\ status = 0 /\ closed = FALSE /\ closingExpected = FALSE
    /\ phase = "serving" /\ timer = FALSE
    /\ bound = [faults |-> 0, reloads |-> 0, toggles |-> 0]
    /\ overlapped = FALSE /\ missed = FALSE

-----------------------------------------------------------------------------
(* Calls. *)

Open(s) == s # None /\ link[s].conn = "open"

\* The page executes what is sent over s now.
Reaches(s) == page.up /\ Open(s) /\ s \in fresh

\* callbackSource runs a callback only in a bridge of the same attachment.
Accepts(s) == Reaches(s) /\ page.owner = s

CanFail == bound.faults < MaxFaults
Fault   == CanFail /\ bound' = [bound EXCEPT !.faults = @ + 1]

\* Page.addScriptToEvaluateOnNewDocument and its removal.
Added(s) == /\ scripts' = scripts \cup {s}
            /\ earlier' = [earlier EXCEPT ![s] = scripts]

Removed(s) == /\ scripts' = scripts \ {s}
              /\ earlier' = [t \in Session |-> IF t = s THEN {} ELSE earlier[t] \ {s}]

\* Nothing names slot s any more.
Unused(s) ==
    /\ link[s].conn = "closed" /\ clean[s].at = "no"
    /\ s \notin scripts \cup committed
    /\ s \notin {page.owner, session, persistent, pub.s, probe} \cup {att[a].s : a \in Attacher}

-----------------------------------------------------------------------------
(* Starting a re-attach.  #startReattach looks at the session, the flags and *)
(* its own promise, but not at attachPromise.                                *)

MayReattach(expected) ==
    session = None /\ ~closed /\ ~expected /\ att["reattach"].at = "idle"

\* Mutant: a lost session is not re-attached while the app is expected to stay.
NeverReattach(expected) == UNCHANGED <<att, overlapped>>

\* Mutant: the promise of a loop under way is not looked at.
ReattachAgain(expected) ==
    IF session = None /\ ~closed /\ ~expected
    THEN /\ att' = [att EXCEPT !["reattach"] = [Idle EXCEPT !.at = "connect"]]
         /\ overlapped' = (overlapped \/ att["attach"].at # "idle")
    ELSE UNCHANGED <<att, overlapped>>

StartReattach(expected) ==
    IF MayReattach(expected)
    THEN /\ att' = [att EXCEPT !["reattach"].at = "connect"]
         /\ overlapped' = (overlapped \/ att["attach"].at # "idle")
    ELSE UNCHANGED <<att, overlapped>>

\* #invalidateSession, up to its asynchronous cleanup; a session that is no
\* longer the current one is left alone.
Invalidate(s) ==
    IF session = s
    THEN /\ session' = None
         /\ committed' = committed \ {s}
         /\ clean' = [clean EXCEPT ![s] = [at |-> "dispose", by |-> "lost"]]
         /\ conv' = NoConv
    ELSE UNCHANGED <<session, committed, clean, conv>>

-----------------------------------------------------------------------------
(* #attachOnce, run by attach() and by the loop of #startReattach.           *)

Step(a, from, to) == att[a].at = from /\ att' = [att EXCEPT ![a].at = to]

\* No target or no connection: nothing to clean up.
ConnectFails(a) ==
    /\ att[a].at = "connect"
    /\ page.up => CanFail
    /\ bound' = [bound EXCEPT !.faults = IF page.up THEN @ + 1 ELSE @]
    /\ att' = [att EXCEPT ![a].at = IF a = "attach" THEN "idle" ELSE @]
    /\ UNCHANGED <<browser, link, clean, session, committed, persistent, conv, pub,
                   probe, caller, history>>

\* Find the target, connect, enable the domains, wait for the main context, add
\* the binding and claim it.
Connect(a) ==
    /\ att[a].at = "connect" /\ page.up
    /\ a = "reattach" => ~closed /\ ~closingExpected
    /\ LET s == CHOOSE s \in Session : Unused(s)
       IN /\ \E t \in Session : Unused(t)
          /\ att' = [att EXCEPT ![a] = [Idle EXCEPT !.at = "remove", !.s = s]]
          /\ link' = [link EXCEPT ![s] = [NoLink EXCEPT !.conn = "open", !.binding = TRUE]]
          /\ fresh' = fresh \cup {s}
    /\ UNCHANGED <<page, registry, clean, session, committed, persistent,
                   conv, pub, probe, caller, bound, history>>

\* The script of an earlier attachment whose removal was not confirmed.  The
\* debugger answers "Script not found" when it is gone, which is as good.
RemoveOld(a) ==
    /\ Open(att[a].s) /\ Step(a, "remove", "add")
    /\ Removed(persistent)
    /\ persistent' = None
    /\ UNCHANGED <<page, fresh, link, clean, session, committed, conv, pub,
                   probe, caller, bound, history>>

AddScript(a) ==
    LET s == att[a].s IN
    /\ Open(s) /\ Step(a, "add", "bootstrap")
    /\ Added(s)
    /\ link' = [link EXCEPT ![s].script = TRUE, ![s].baked = status]
    /\ persistent' = s
    /\ UNCHANGED <<page, fresh, clean, session, committed, conv, pub, probe,
                   caller, bound, history>>

\* The bootstrap disposes whatever bridge the document has and installs its own.
Bootstrap(a) ==
    LET s == att[a].s IN
    /\ Reaches(s) /\ Step(a, "bootstrap", "announce")
    /\ page' = [page EXCEPT !.owner = s, !.shown = link[s].baked]
    /\ UNCHANGED <<registry, fresh, link, clean, session, committed,
                   persistent, conv, pub, probe, caller, bound, history>>

\* The status may have changed since it was written into the bootstrap.
Announce(a) ==
    LET s == att[a].s IN
    /\ att[a].at = "announce"
    /\ att' = [att EXCEPT ![a].at = "answer", ![a].told = status, ![a].ok = Accepts(s)]
    /\ page' = IF Accepts(s) THEN [page EXCEPT !.shown = status] ELSE page
    /\ UNCHANGED <<registry, fresh, link, clean, session, committed,
                   persistent, conv, pub, probe, caller, bound, history>>

Commit(a) ==
    LET s == att[a].s IN
    /\ att[a].at = "answer" /\ att[a].ok /\ Open(s)
    /\ ~closed /\ ~closingExpected
    /\ session' = s /\ committed' = committed \cup {s}
    /\ conv' = NoConv /\ timer' = TRUE
    /\ att' = [att EXCEPT ![a] = Idle]
    /\ UNCHANGED <<browser, link, clean, persistent, pub, probe, status, closed,
                   closingExpected, phase, bound, history>>

\* Mutant: a call to a page that is gone has no timeout.
AttachHangs(a) ==
    LET s == att[a].s IN
    /\ att[a].at = "answer" /\ (~att[a].ok \/ closed \/ closingExpected)
    /\ att' = [att EXCEPT ![a] = [Idle EXCEPT !.at = "clean", !.s = s]]
    /\ clean' = [clean EXCEPT ![s] = [at |-> "dispose", by |-> a]]
    /\ UNCHANGED <<browser, link, session, committed, persistent, conv, pub, probe,
                   caller, bound, history>>

\* A call of the attachment fails, its answer is lost, or the attachment is
\* cancelled; the catch block cleans up before it throws.
AttachFails(a) ==
    LET s == att[a].s IN
    /\ att[a].at \in {"remove", "add", "bootstrap", "answer"}
    /\ \/ /\ \/ ~Reaches(s)
             \/ att[a].at = "answer" /\ (~att[a].ok \/ closed \/ closingExpected)
          /\ UNCHANGED <<bound, registry>>
       \/ Fault /\ UNCHANGED registry
       \/ /\ att[a].at = "add" /\ Fault    \* added, its identifier unknown
          /\ Added(s)
    /\ att' = [att EXCEPT ![a] = [Idle EXCEPT !.at = "clean", !.s = s]]
    /\ clean' = [clean EXCEPT ![s] = [at |-> "dispose", by |-> a]]
    /\ UNCHANGED <<page, fresh, link, session, committed, persistent, conv, pub, probe,
                   caller, history>>

\* The loop of #startReattach ends when the page is expected to go.
StopRetrying ==
    /\ att["reattach"].at = "connect" /\ (closed \/ closingExpected)
    /\ att' = [att EXCEPT !["reattach"] = Idle]
    /\ UNCHANGED <<browser, link, clean, session, committed, persistent, conv, pub,
                   probe, caller, bound, history>>

-----------------------------------------------------------------------------
(* The cleanup of an attachment, the same after a failed attach, a lost       *)
(* session and a close: dispose, remove the script, remove the binding, close *)
(* the connection.  Each call may fail, and the next is made all the same.    *)

Next1(s, to) == clean' = [clean EXCEPT ![s].at = to]

\* Mutant: the bridge is disposed whichever attachment it belongs to.
DisposeAny(s) ==
    /\ clean[s].at = "dispose" /\ Next1(s, "script")
    /\ \/ /\ page' = IF Reaches(s) THEN [page EXCEPT !.owner = None] ELSE page
          /\ UNCHANGED bound
       \/ Fault /\ UNCHANGED page
    /\ UNCHANGED <<registry, fresh, link, session, committed, persistent,
                   att, conv, pub, probe, caller, history>>

Dispose(s) ==
    /\ clean[s].at = "dispose" /\ Next1(s, "script")
    /\ \/ /\ page' = IF Accepts(s) THEN [page EXCEPT !.owner = None] ELSE page
          /\ UNCHANGED bound
       \/ Fault /\ UNCHANGED page
    /\ UNCHANGED <<registry, fresh, link, session, committed, persistent,
                   att, conv, pub, probe, caller, history>>

\* The identifier is kept unless its removal is confirmed, for the next attach
\* to remove, and never forgotten when a newer attachment has set it.
RemoveScript(s) ==
    /\ clean[s].at = "script" /\ Next1(s, "binding")
    /\ \/ /\ IF Open(s) /\ link[s].script
             THEN /\ Removed(s)
                  /\ persistent' = IF persistent = s THEN None ELSE persistent
             ELSE UNCHANGED <<registry, persistent>>
          /\ UNCHANGED bound
       \/ Fault /\ UNCHANGED <<registry, persistent>>
    /\ UNCHANGED <<page, fresh, link, session, committed, att, conv, pub,
                   probe, caller, history>>

\* Who cleaned up goes on: attach() throws, the loop tries again, close() returns,
\* and the cleanup of a lost session starts a re-attach.
CleanedFor(by) ==
    CASE by = "attach"   -> /\ att' = [att EXCEPT !["attach"] = Idle]
                            /\ UNCHANGED <<phase, overlapped>>
      [] by = "reattach" -> /\ att' = [att EXCEPT !["reattach"] = [Idle EXCEPT !.at = "connect"]]
                            /\ UNCHANGED <<phase, overlapped>>
      [] by = "close"    -> phase' = "closed" /\ UNCHANGED <<att, overlapped>>
      [] by = "lost"     -> StartReattach(closingExpected) /\ UNCHANGED phase

\* The binding is removed and the connection ends.  A script of an ended
\* connection may go with it, or stay: it stays here, which leaves more to remove.
RemoveBinding(s) ==
    /\ clean[s].at = "binding"
    /\ link' = [link EXCEPT ![s] = [NoLink EXCEPT
                                       !.script = link[s].script /\ s \in scripts]]
    /\ fresh' = fresh \ {s}
    /\ clean' = [clean EXCEPT ![s] = NotCleaning]
    /\ CleanedFor(clean[s].by)
    /\ UNCHANGED <<page, registry, session, committed, persistent, conv, pub, probe, status,
                   closed, closingExpected, timer, bound, missed>>

-----------------------------------------------------------------------------
(* Events of the connection. *)

SocketClosed(s) ==
    /\ link[s].conn = "lost" /\ s \in committed /\ session = s
    /\ Invalidate(s)
    /\ UNCHANGED <<browser, link, persistent, att, pub, probe, caller, bound, history>>

\* Mutant: a reload needs no convergence, the bootstrap ran again.
DoNotConverge(s) == UNCHANGED conv

ScheduleConvergence(s) ==
    conv' = IF session # s THEN conv
            ELSE IF conv.on THEN [conv EXCEPT !.again = TRUE]
            ELSE [NoConv EXCEPT !.on = TRUE]

\* The main frame of the document has its context.  When this event and the
\* answer of an announcement made before the reload are read in one go, the
\* event comes first, and finds a session that is not committed yet.
ContextCreated(s) ==
    /\ page.up /\ Open(s) /\ s \notin fresh
    /\ fresh' = fresh \cup {s}
    /\ IF s \in committed THEN ScheduleConvergence(s) ELSE UNCHANGED conv
    /\ missed' = (missed \/ \E a \in Attacher : att[a].s = s /\ att[a].at = "answer" /\ att[a].ok)
    /\ UNCHANGED <<page, registry, link, clean, session, committed, persistent,
                   att, pub, probe, caller, bound, overlapped>>

Converge ==
    /\ conv.on /\ conv.sent = "no" /\ session \in fresh
    /\ \/ /\ conv' = [conv EXCEPT !.sent = IF Accepts(session) THEN "ok" ELSE "fail"]
          /\ page' = IF Accepts(session) THEN [page EXCEPT !.shown = status] ELSE page
          /\ UNCHANGED bound
       \/ Fault /\ conv' = [conv EXCEPT !.sent = "fail"] /\ UNCHANGED page
    /\ UNCHANGED <<registry, fresh, link, clean, session, committed, persistent,
                   att, pub, probe, caller, history>>

\* A success returns at once, even when the reload that was read together with
\* the answer asked for another round.
ConvergeAnswered ==
    /\ conv.sent # "no"
    /\ conv' = IF conv.sent = "ok" THEN NoConv ELSE [conv EXCEPT !.sent = "no"]
    /\ missed' = (missed \/ (conv.sent = "ok" /\ conv.again))
    /\ UNCHANGED <<browser, link, clean, session, committed, persistent, att, pub,
                   probe, caller, bound, overlapped>>

\* Five seconds without a success end a round; a reload since asks for another.
ConvergeDeadline ==
    /\ conv.on /\ conv.sent = "no"
    /\ IF session \in fresh THEN Fault ELSE UNCHANGED bound
    /\ conv' = IF conv.again THEN [conv EXCEPT !.again = FALSE] ELSE NoConv
    /\ missed' = (missed \/ (session \in fresh /\ ~conv.again))
    /\ UNCHANGED <<browser, link, clean, session, committed, persistent, att, pub,
                   probe, caller, overlapped>>

-----------------------------------------------------------------------------
(* What the controller asks of the transport. *)

\* #requireSession: use the session, wait for the attach that is under way, or
\* start a re-attach.
Require == IF session # None \/ att["attach"].at # "idle"
           THEN UNCHANGED <<att, overlapped>> ELSE StartReattach(closingExpected)

\* A new status.  Without a session it waits, unless a close is expected: then
\* it is refused, and the controller publishes again when the close failed.
Publish ==
    /\ phase = "serving" /\ pub.at \in {"idle", "refused"} /\ status < MaxStatus
    /\ status' = status + 1
    /\ Require
    /\ pub' = IF session = None /\ closingExpected THEN [NoCall EXCEPT !.at = "refused"]
              ELSE [NoCall EXCEPT !.at = "waiting", !.told = status + 1]
    /\ UNCHANGED <<browser, link, clean, session, committed, persistent, conv, probe,
                   closed, closingExpected, phase, timer, bound, missed>>

PublishSent ==
    /\ pub.at = "waiting" /\ session # None
    /\ \/ /\ pub' = [pub EXCEPT !.at = "sent", !.s = session, !.ok = Accepts(session)]
          /\ page' = IF Accepts(session) THEN [page EXCEPT !.shown = status] ELSE page
          /\ UNCHANGED bound
       \/ /\ Fault /\ UNCHANGED page
          /\ pub' = [pub EXCEPT !.at = "sent", !.s = session]
    /\ UNCHANGED <<registry, fresh, link, clean, session, committed, persistent,
                   att, conv, probe, caller, history>>

\* The wait is as long as an attachment may take, so one that announced an older
\* status has ended by then.
PublishGivesUp ==
    /\ pub.at = "waiting" /\ session = None
    /\ \A a \in Attacher : att[a].at = "answer" => att[a].told >= pub.told
    /\ pub' = NoCall
    /\ UNCHANGED <<browser, link, clean, session, committed, persistent, att, conv,
                   probe, caller, bound, history>>

PublishAnswered ==
    /\ pub.at = "sent" /\ pub' = NoCall
    /\ \/ pub.ok /\ UNCHANGED <<session, committed, clean, conv>>
       \/ (~pub.ok \/ ~Open(pub.s)) /\ Invalidate(pub.s)
    /\ UNCHANGED <<browser, link, persistent, att, probe, caller, bound, history>>

QueryActivity ==
    /\ phase = "serving" /\ session = None /\ Require
    /\ UNCHANGED <<browser, link, clean, session, committed, persistent, conv, pub,
                   probe, caller, bound, missed>>

\* The watchdog.  The proof does not ask which attachment the bridge belongs to,
\* and changes nothing when it succeeds.
ProbeHealth ==
    /\ timer /\ probe = None
    /\ IF session = None \/ closingExpected
       THEN StartReattach(closingExpected) /\ UNCHANGED <<probe, bound>>
       ELSE /\ probe' = session
            /\ IF Reaches(session) /\ page.owner # None THEN Fault ELSE UNCHANGED bound
            /\ UNCHANGED <<att, overlapped>>
    /\ UNCHANGED <<browser, link, clean, session, committed, persistent, conv, pub,
                   caller, missed>>

ProbeFailed ==
    /\ probe # None /\ probe' = None
    /\ Invalidate(probe)
    /\ UNCHANGED <<browser, link, persistent, att, pub, caller, bound, history>>

Toggle == bound.toggles < MaxToggles /\ bound' = [bound EXCEPT !.toggles = @ + 1]

\* Before the controller closes the app, and when that failed.
ExpectClose ==
    /\ phase = "serving" /\ ~closingExpected /\ Toggle /\ closingExpected' = TRUE
    /\ UNCHANGED <<browser, link, clean, session, committed, persistent, att, conv, pub,
                   probe, status, closed, phase, timer, history>>

ExpectNoClose ==
    /\ phase = "serving" /\ closingExpected /\ closingExpected' = FALSE
    /\ StartReattach(FALSE)
    /\ UNCHANGED <<browser, link, clean, session, committed, persistent, conv, pub,
                   probe, status, closed, phase, timer, bound, missed>>

\* close(), for a handoff or at the end: no attempt begins, those under way are
\* awaited, and the session is cleaned up.
Close ==
    /\ phase = "serving" /\ Toggle
    /\ phase' = "closing" /\ closed' = TRUE /\ closingExpected' = TRUE /\ timer' = FALSE
    /\ UNCHANGED <<browser, link, clean, session, committed, persistent, att, conv, pub,
                   probe, status, history>>

CloseSession ==
    /\ phase = "closing" /\ \A a \in Attacher : att[a].at = "idle"
    /\ session' = None /\ conv' = NoConv
    /\ IF session = None
       THEN phase' = "closed" /\ UNCHANGED <<committed, clean>>
       ELSE /\ phase' = "cleaning"
            /\ committed' = committed \ {session}
            /\ clean' = [clean EXCEPT ![session] = [at |-> "dispose", by |-> "close"]]
    /\ UNCHANGED <<browser, link, persistent, att, pub, probe, status, closed,
                   closingExpected, timer, bound, history>>

\* A refused handoff gives the coordinator its page back: attach() begins, unless
\* a session or an attempt exists.
Restore ==
    /\ phase = "closed" /\ phase' = "serving"
    /\ closingExpected' = FALSE /\ closed' = FALSE
    /\ att' = IF session = None /\ \A a \in Attacher : att[a].at = "idle"
              THEN [att EXCEPT !["attach"].at = "connect"] ELSE att
    /\ UNCHANGED <<browser, link, clean, session, committed, persistent, conv, pub,
                   probe, status, timer, bound, history>>

-----------------------------------------------------------------------------
(* The page and the network. *)

\* The document goes away: a reload, or a page that is not the app's.
Leave ==
    /\ page.up /\ bound.reloads < MaxReloads
    /\ bound' = [bound EXCEPT !.reloads = @ + 1]
    /\ page' = [page EXCEPT !.up = FALSE, !.owner = None]
    /\ fresh' = {}
    /\ UNCHANGED <<registry, link, clean, session, committed, persistent, att, conv, pub,
                   probe, caller, history>>

\* A new document has the bindings of every connection and runs every script; a
\* script without its binding does nothing, the others replace each other.
Return ==
    LET live == {s \in Session : Open(s) /\ link[s].binding}
        ran  == scripts \cap live
    IN /\ ~page.up
       /\ \/ ran = {} /\ page' = [page EXCEPT !.up = TRUE]
          \/ \E s \in ran :
               /\ ran \ {s} \subseteq earlier[s]
               /\ page' = [up |-> TRUE, owner |-> s, shown |-> link[s].baked]
       /\ UNCHANGED <<registry, fresh, link, clean, session, committed, persistent, att,
                      conv, pub, probe, caller, bound, history>>

\* A connection is lost.
Lose(s) ==
    /\ Open(s) /\ Fault
    /\ link' = [link EXCEPT ![s].conn = "lost", ![s].binding = FALSE]
    /\ fresh' = fresh \ {s}
    /\ UNCHANGED <<page, registry, clean, session, committed, persistent, att, conv, pub,
                   probe, caller, history>>

-----------------------------------------------------------------------------
Attach(a) == \/ Connect(a) \/ ConnectFails(a) \/ RemoveOld(a) \/ AddScript(a)
             \/ Bootstrap(a) \/ Announce(a) \/ Commit(a) \/ AttachFails(a)

Cleanup(s) == Dispose(s) \/ RemoveScript(s) \/ RemoveBinding(s)

Events(s) == SocketClosed(s) \/ ContextCreated(s)

Converging == Converge \/ ConvergeAnswered \/ ConvergeDeadline

Publishing == PublishSent \/ PublishGivesUp \/ PublishAnswered

Probing == ProbeHealth \/ ProbeFailed

Controller == \/ Publish \/ QueryActivity \/ ExpectClose \/ ExpectNoClose
              \/ Close \/ CloseSession \/ Restore

Next == \/ \E a \in Attacher : Attach(a)
        \/ StopRetrying
        \/ \E s \in Session : Cleanup(s) \/ Events(s) \/ Lose(s)
        \/ Converging \/ Publishing \/ Probing \/ Controller
        \/ Leave \/ Return

Spec == Init /\ [][Next]_vars

(* Every call has a timeout, the socket's end is delivered, and settled promises are
   looked at: while any of this is due, some of it happens.  Nothing is asked of the
   controller, of the watchdog or of the page. *)
Due == \/ \E a \in Attacher : Attach(a)
       \/ \E s \in Session : Cleanup(s) \/ SocketClosed(s)
       \/ StopRetrying \/ CloseSession \/ PublishAnswered \/ ProbeFailed

FairSpec == Spec /\ WF_vars(Due)

-----------------------------------------------------------------------------
(* Properties. *)

TypeOK ==
    /\ page \in [up : BOOLEAN, owner : Session \cup {None}, shown : 0..MaxStatus]
    /\ fresh \subseteq Session /\ committed \subseteq Session
    /\ scripts \subseteq Session /\ earlier \in [Session -> SUBSET Session]
    /\ link \in [Session -> [conn : {"open", "lost", "closed"}, binding : BOOLEAN,
                             script : BOOLEAN, baked : 0..MaxStatus]]
    /\ clean \in [Session -> [at : {"no", "dispose", "script", "binding"},
                              by : Attacher \cup {"lost", "close"}]]
    /\ {session, persistent} \subseteq Session \cup {None}
    /\ att \in [Attacher -> [at : {"idle", "connect", "remove", "add", "bootstrap",
                                   "announce", "answer", "clean"},
                             s : Session \cup {None}, told : 0..MaxStatus, ok : BOOLEAN]]
    /\ conv \in [on : BOOLEAN, again : BOOLEAN, sent : {"no", "ok", "fail"}]
    /\ pub \in [at : {"idle", "refused", "waiting", "sent"}, s : Session \cup {None}, ok : BOOLEAN,
                told : 0..MaxStatus]
    /\ probe \in Session \cup {None}
    /\ status \in 0..MaxStatus
    /\ phase \in {"serving", "closing", "cleaning", "closed"}
    /\ {closed, closingExpected, timer, overlapped, missed} \subseteq BOOLEAN
    /\ bound \in [faults : 0..MaxFaults, reloads : 0..MaxReloads, toggles : 0..MaxToggles]

\* TLC looks no further than the race that every property below excludes.
RaceFree == ~overlapped

\* Every connection has one owner: the current session, an attempt under way, or
\* a cleanup that will close it.  A re-attach beside a first attach breaks this:
\* the session that is committed first is never closed.
NoLeakedSession ==
    ~overlapped =>
        /\ committed \subseteq {session}
        /\ \A s \in Session : link[s].conn # "closed" =>
              \/ s = session \/ clean[s].at # "no"
              \/ \E a \in Attacher : att[a].s = s

\* What the page runs is the current session's, through reloads, and whatever
\* an earlier attachment is still cleaning up.
BridgeIsCurrent ==
    ~overlapped /\ session # None /\ Reaches(session) => page.owner = session

\* When nothing is on its way any more, the page shows the controller's status,
\* although every reload shows again the one written into the bootstrap.
LatestStatusShown ==
    ~overlapped /\ ~missed /\ session # None /\ Reaches(session) /\ ~conv.on /\ pub.at = "idle"
        => page.shown = status

\* A script whose removal was not confirmed is remembered for the next attach,
\* whichever cleanup ran beside it.
ScriptRemembered ==
    ~overlapped => \A s \in scripts :
        link[s].script => \/ s = persistent
                          \/ link[s].conn = "open" /\ clean[s].at # "binding"

\* What an attachment leaves in the app is always in somebody's hands.
NothingLeaks == NoLeakedSession /\ ScriptRemembered

\* A session that lost its page gets it back, as long as the app stays.
Reconnects ==
    session = None /\ timer ~> \/ session # None \/ ~page.up \/ ~timer
                               \/ closingExpected \/ overlapped

\* close() returns, whatever attempts and cleanups it has to outlast.
CloseReturns == phase = "closing" ~> phase = "closed" \/ overlapped
=============================================================================
