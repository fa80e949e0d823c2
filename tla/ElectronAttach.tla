---------------------------- MODULE ElectronAttach ---------------------------
(***************************************************************************)
(* Several clients share the debugger of the app's window                  *)
(* (runtime/lib/electron-attach.js).  Each sends expressions over the       *)
(* inspector of the app's main process, which runs them in one thread: an   *)
(* action of the app is what runs between two `await's.  The expressions    *)
(* keep what they share in an object at wc[symbol] (`state' in the code):   *)
(* who uses the debugger, each with a flattened session of its own, and how *)
(* many.  An expression is run where it is sent; its answer takes time.     *)
(*                                                                          *)
(* A client attaches once, so the object that its bootstrap makes is named  *)
(* after it; a continuation that captured an object goes on with it         *)
(* although the window has another by then, or none.                        *)
(***************************************************************************)
EXTENDS Naturals

CONSTANTS
    Clients,        \* how many ElectronAttachClients there are, in the order they connect
    MaxFaults       \* bound: commands that fail, late answers, detachments, suspensions

ASSUME ClientsAssumption == Clients \in Nat /\ MaxFaults \in Nat

Client == 1..Clients
None   == 0

VARIABLES
    attached,   \* whose the window's debugger is: "none", "ours", "foreign"
    flat,       \* clients whose flattened session the debugger has open
    root,       \* wc[symbol]: the object, by the client that made it, or None
    members,    \* per object: the clients in its `sessions'
    refs,       \* per object: its count of them
    home,       \* per client: the object its bootstrap captured
    app,        \* per client: the await its expression in the app is at
    sid,        \* clients whose session in an object has its sessionId
    pc,         \* per client: where the client is
    answer,     \* per client: the answer of its bootstrap on the way to it
    gone,       \* per client: a "detach" message on the way to it, and of what session
    faults,     \* how many so far
    unheard     \* (history) the debugger was detached without an event

object == <<root, members, refs>>
inApp  == <<home, app, sid>>
atClient == <<pc, answer, gone>>
vars == <<attached, flat, object, inApp, atClient, faults, unheard>>

Init ==
    /\ attached = "none" /\ flat = {} /\ root = None
    /\ members = [r \in Client |-> {}] /\ refs = [r \in Client |-> 0]
    /\ home = [c \in Client |-> None] /\ app = [c \in Client |-> "idle"] /\ sid = {}
    /\ pc = [c \in Client |-> "new"] /\ answer = [c \in Client |-> "none"]
    /\ gone = [c \in Client |-> "no"]
    /\ faults = 0 /\ unheard = FALSE

Fault   == faults < MaxFaults /\ faults' = faults + 1
NoFault == UNCHANGED faults

\* The window's object has an open session for c: what a command of c asks for.
Live(c) == root # None /\ c \in members[root] /\ c \in sid

-----------------------------------------------------------------------------
(* The shared object. *)

Inside == IF root = None THEN {} ELSE members[root]

\* What debugger.detach() does to the commands that wait: they reject.
Rejected(steps) == [c \in Client |-> IF steps[c] \in {"info", "target"} THEN "rejected"
                                     ELSE steps[c]]

\* Mutant: whoever comes last detaches, whichever object the window has now.
ClearAny(r, steps, left) ==
    /\ root' = IF root = r THEN None ELSE root
    /\ attached' = "none" /\ flat' = {} /\ app' = Rejected(steps)

\* clearRoot(true): an object that is no longer the window's leaves the window's
\* debugger alone.  `steps' and `left' are app and flat as the caller has made them.
Clear(r, steps, left) ==
    IF root = r
    THEN root' = None /\ attached' = "none" /\ flat' = {} /\ app' = Rejected(steps)
    ELSE app' = steps /\ flat' = left /\ UNCHANGED <<root, attached>>

\* A message over the binding of c carries the sessionId that its session has by then.
Notice(c) == IF pc[c] \notin {"boot", "up"} THEN gone[c]
             ELSE IF c \in sid THEN "open" ELSE "pending"

\* detachAll: everyone in the window's object is told, and their sessions are over.
TellAll ==
    /\ gone' = [c \in Client |-> IF c \in Inside THEN Notice(c) ELSE gone[c]]
    /\ sid' = sid \ Inside

Drop(r, c) ==
    /\ members' = [members EXCEPT ![r] = @ \ {c}] /\ sid' = sid \ {c}
    /\ refs' = [refs EXCEPT ![r] = IF @ = 0 THEN 0 ELSE @ - 1]

\* Mutant: who leaves does not look whether others are left.
LeaveAll(r, c, steps) == Drop(r, c) /\ Clear(r, steps, flat)

\* What release(token) does up to its await; a session without a sessionId has
\* nothing to wait for.
Leave(r, c, steps) ==
    /\ Drop(r, c)
    /\ IF c \in sid THEN app' = [steps EXCEPT ![c] = "detach"] /\ UNCHANGED <<root, attached, flat>>
       ELSE IF refs'[r] = 0 THEN Clear(r, steps, flat)
       ELSE app' = steps /\ UNCHANGED <<root, attached, flat>>

\* release finds nothing of a client whose session was ended before.
Release(r, c, steps) ==
    IF r # None /\ c \in members[r] THEN Leave(r, c, steps)
    ELSE app' = steps /\ UNCHANGED <<attached, flat, object, sid>>

\* Its end, when Target.detachFromTarget has been answered or has failed.
Released(c) ==
    /\ app[c] = "detach"
    /\ IF refs[home[c]] = 0 THEN Clear(home[c], [app EXCEPT ![c] = "idle"], flat \ {c})
       ELSE /\ app' = [app EXCEPT ![c] = "idle"] /\ flat' = flat \ {c}
            /\ UNCHANGED <<root, attached>>
    /\ UNCHANGED <<members, refs, home, sid, atClient, faults, unheard>>

-----------------------------------------------------------------------------
(* The app: a bootstrap and its awaits, and the timer of the object. *)

\* The bootstrap shares the window's object.
Join(c) ==
    /\ members' = [members EXCEPT ![root] = @ \cup {c}] /\ refs' = [refs EXCEPT ![root] = @ + 1]
    /\ home' = [home EXCEPT ![c] = root]
    /\ UNCHANGED <<root, attached, sid, gone>>

\* It attaches the debugger and makes an object, after the end of one whose
\* debugger is gone.
Found(c) ==
    /\ attached = "none" /\ attached' = "ours"
    /\ TellAll
    /\ root' = c /\ home' = [home EXCEPT ![c] = c]
    /\ LET left == IF root = None THEN members ELSE [members EXCEPT ![root] = {}]
           count == IF root = None THEN refs ELSE [refs EXCEPT ![root] = 0]
       IN  members' = [left EXCEPT ![c] = {c}] /\ refs' = [count EXCEPT ![c] = 1]

\* A client connects and the app runs its bootstrap up to the first await.
Bootstrap(c) ==
    /\ pc[c] = "new" /\ \A d \in 1..(c - 1) : pc[d] # "new"
    /\ IF root # None /\ attached # "none" THEN Join(c) ELSE Found(c)
    /\ pc' = [pc EXCEPT ![c] = "boot"] /\ app' = [app EXCEPT ![c] = "info"]
    /\ UNCHANGED <<flat, answer, faults, unheard>>

\* Another has the debugger, or a check fails: nothing has been changed yet.
Refused(c) ==
    /\ pc[c] = "new" /\ \A d \in 1..(c - 1) : pc[d] # "new"
    /\ \/ root = None /\ attached = "foreign" /\ NoFault
       \/ Fault
    /\ pc' = [pc EXCEPT ![c] = "closed"]
    /\ UNCHANGED <<attached, flat, object, inApp, answer, gone, unheard>>

TargetKnown(c) ==
    /\ app[c] = "info"
    /\ app' = [app EXCEPT ![c] = "target"]
    /\ UNCHANGED <<attached, flat, object, home, sid, atClient, faults, unheard>>

\* The session is open, even if its record has been dropped in between.
SessionOpen(c) ==
    /\ app[c] = "target"
    /\ app' = [app EXCEPT ![c] = "idle"]
    /\ flat' = flat \cup {c}
    /\ sid' = IF c \in members[home[c]] THEN sid \cup {c} ELSE sid
    /\ answer' = [answer EXCEPT ![c] = IF pc[c] = "boot" THEN "ok" ELSE @]
    /\ UNCHANGED <<attached, object, home, pc, gone, faults, unheard>>

BootstrapFails(c) ==
    /\ \/ app[c] = "rejected" /\ NoFault
       \/ app[c] \in {"info", "target"} /\ Fault
    /\ Release(home[c], c, [app EXCEPT ![c] = "idle"])
    /\ gone' = IF c \in members[home[c]] THEN [gone EXCEPT ![c] = Notice(c)] ELSE gone
    /\ answer' = [answer EXCEPT ![c] = IF pc[c] = "boot" THEN "fail" ELSE @]
    /\ UNCHANGED <<home, pc, unheard>>

\* The lease of a client that has gone runs out; that of one that has not, when the
\* machine slept.
Expire(c) ==
    /\ IF pc[c] \in {"boot", "up"} THEN Fault ELSE NoFault
    /\ Release(root, c, app)
    /\ gone' = [gone EXCEPT ![c] = Notice(c)]
    /\ UNCHANGED <<home, pc, answer, unheard>>

\* Mutant: the session is only deleted, and no longer released.
SweepForgets(c) ==
    /\ c \in Inside
    /\ IF pc[c] \in {"boot", "up"} THEN Fault ELSE NoFault
    /\ members' = [members EXCEPT ![root] = @ \ {c}] /\ sid' = sid \ {c}
    /\ UNCHANGED <<attached, flat, root, refs, home, app, atClient, unheard>>

\* sweepLeases
Sweep(c) == c \in Inside /\ Expire(c)

-----------------------------------------------------------------------------
(* The clients. *)

Closed(c) == pc' = [pc EXCEPT ![c] = "closed"]

\* The message comes before the answer; its sessionId has to be the client's.
HearDetach(c) ==
    /\ <<pc[c], gone[c]>> \in {<<"boot", "pending">>, <<"up", "open">>}
    /\ Closed(c) /\ gone' = [gone EXCEPT ![c] = "no"] /\ answer' = [answer EXCEPT ![c] = "none"]
    /\ UNCHANGED <<attached, flat, object, inApp, faults, unheard>>

Attached(c) ==
    /\ pc[c] = "boot" /\ answer[c] = "ok" /\ gone[c] # "pending"
    /\ pc' = [pc EXCEPT ![c] = "up"] /\ answer' = [answer EXCEPT ![c] = "none"]
    /\ UNCHANGED <<attached, flat, object, inApp, gone, faults, unheard>>

\* It has no sessionId, so it sends no release: it failed, timed out or is closed.
GivesUp(c) ==
    /\ pc[c] = "boot"
    /\ IF answer[c] = "fail" THEN NoFault ELSE Fault
    /\ Closed(c) /\ gone' = [gone EXCEPT ![c] = "no"] /\ answer' = [answer EXCEPT ![c] = "none"]
    /\ UNCHANGED <<attached, flat, object, inApp, unheard>>

Quits(c) ==
    /\ Closed(c) /\ gone' = [gone EXCEPT ![c] = "no"] /\ Release(root, c, app)
    /\ UNCHANGED <<home, answer, unheard>>

\* A heartbeat that finds no session, or fails, ends the client.
Heartbeat(c) ==
    /\ pc[c] = "up"
    /\ IF Live(c) THEN Fault ELSE NoFault
    /\ Quits(c)

\* close(): the owner is done.
Close(c) == pc[c] = "up" /\ Quits(c) /\ NoFault

\* The connection or the client's process is gone, and nothing is released.
Lose(c) ==
    /\ pc[c] \in {"boot", "up"} /\ Fault
    /\ Closed(c) /\ gone' = [gone EXCEPT ![c] = "no"] /\ answer' = [answer EXCEPT ![c] = "none"]
    /\ UNCHANGED <<attached, flat, object, inApp, unheard>>

-----------------------------------------------------------------------------
(* Electron and other users of the debugger. *)

\* The debugger is taken away with an event, or the window is destroyed.
TakenAway ==
    /\ attached = "ours" /\ Fault
    /\ TellAll
    /\ members' = [members EXCEPT ![root] = {}] /\ refs' = [refs EXCEPT ![root] = 0]
    /\ Clear(root, app, flat)
    /\ UNCHANGED <<home, pc, answer, unheard>>

\* It is taken away and no event comes: the next bootstrap finds out.
Unplugged ==
    /\ attached = "ours" /\ Fault /\ unheard' = TRUE
    /\ attached' = "none" /\ flat' = {} /\ app' = Rejected(app)
    /\ UNCHANGED <<object, home, sid, atClient>>

ForeignAttaches ==
    /\ attached = "none" /\ attached' = "foreign"
    /\ UNCHANGED <<flat, object, inApp, atClient, faults, unheard>>

ForeignDetaches ==
    /\ attached = "foreign" /\ attached' = "none"
    /\ UNCHANGED <<flat, object, inApp, atClient, faults, unheard>>

InApp(c) ==
    \/ TargetKnown(c) \/ SessionOpen(c) \/ BootstrapFails(c)
    \/ Sweep(c) \/ Released(c)

InClient(c) ==
    \/ Bootstrap(c) \/ Refused(c) \/ HearDetach(c) \/ Attached(c) \/ GivesUp(c)
    \/ Heartbeat(c) \/ Close(c) \/ Lose(c)

Next ==
    \/ \E c \in Client : InApp(c) \/ InClient(c)
    \/ TakenAway \/ Unplugged \/ ForeignAttaches \/ ForeignDetaches

Spec == Init /\ [][Next]_vars

\* The app answers, its timers and those of the clients go off.
FairSpec ==
    /\ Spec
    /\ \A c \in Client :
          /\ WF_vars(TargetKnown(c) \/ SessionOpen(c) \/ BootstrapFails(c))
          /\ WF_vars(Sweep(c) /\ pc[c] = "closed")
          /\ WF_vars(Released(c))

-----------------------------------------------------------------------------

TypeOK ==
    /\ attached \in {"none", "ours", "foreign"} /\ flat \subseteq Client /\ sid \subseteq Client
    /\ root \in Client \cup {None} /\ home \in [Client -> Client \cup {None}]
    /\ members \in [Client -> SUBSET Client] /\ refs \in [Client -> Nat]
    /\ app \in [Client -> {"idle", "info", "target", "rejected", "detach"}]
    /\ pc \in [Client -> {"new", "boot", "up", "closed"}]
    /\ answer \in [Client -> {"none", "ok", "fail"}]
    /\ gone \in [Client -> {"no", "pending", "open"}]
    /\ faults \in Nat /\ unheard \in BOOLEAN

\* A client whose session is in the window's object has it: the debugger is ours
\* and the session open, whoever left, was swept or went on with an object that
\* has been replaced.
OpenIsReal == ~unheard => \A c \in Client : Live(c) => attached = "ours" /\ c \in flat

\* What ends an open session is that its client leaves or is swept, or that the
\* debugger is taken away: never the end of another's.
OthersGoOn ==
    [][\A c \in Client : Live(c) =>
          Live(c)' \/ Heartbeat(c) \/ Close(c) \/ Sweep(c) \/ TakenAway \/ unheard]_vars

\* A debugger that someone else has is never taken from them.
ForeignSpared ==
    [][attached = "foreign" /\ ~unheard => attached' = "foreign" \/ ForeignDetaches]_vars

\* When no client is left the debugger is given back, although clients die or give
\* up without releasing anything.
DebuggerFreed ==
    (\A c \in Client : pc[c] \in {"new", "closed"})
        ~> (attached # "ours" \/ \E c \in Client : pc[c] \in {"boot", "up"})
=============================================================================
