------------------------- MODULE CdpTransport_proofs -------------------------
(***************************************************************************)
(* Proofs about the update bridge (update-session-cdp.js), for any number   *)
(* of attachments, statuses, reloads, faults and closes.                    *)
(*                                                                          *)
(* None of the three properties is inductive.  They rest on who may do what *)
(* when no re-attach was started beside a first attach: one attempt at a    *)
(* time, none while there is a session, and every other connection in the   *)
(* hands of one cleanup (Skeleton).  From it follow, in this order, which   *)
(* script is the remembered one (Remembered), that the script of the        *)
(* attachment in force runs after all others (Ordered), so that the bridge  *)
(* in the page is its own (InForce), and who still owes the page the        *)
(* newest status while the page does not show it (Announced, Shown).        *)
(***************************************************************************)
EXTENDS CdpTransport, TLAPS

\* Steps at which an attempt has a connection.
Calling == {"remove", "add", "bootstrap", "announce", "answer", "clean"}

\* An attempt names a slot from its connection to the end of its cleanup.
Named == \A a \in Attacher :
    IF att[a].at \in Calling THEN att[a].s \in Session ELSE att[a].s = None

-----------------------------------------------------------------------------
(* The type invariant, in parts that a step changes together.               *)

Attempt == [at : {"idle", "connect"} \cup Calling, s : Session \cup {None},
            told : 0..MaxStatus, ok : BOOLEAN]
Link == [conn : {"open", "lost", "closed"}, binding : BOOLEAN, script : BOOLEAN,
         baked : 0..MaxStatus]
Clean == [at : {"no", "dispose", "script", "binding"}, by : Attacher \cup {"lost", "close"}]

PageTyped == page \in [up : BOOLEAN, owner : Session \cup {None}, shown : 0..MaxStatus]
RegistryTyped == /\ scripts \subseteq Session /\ earlier \in [Session -> SUBSET Session]
                 /\ persistent \in Session \cup {None}
SlotsTyped == /\ fresh \subseteq Session /\ link \in [Session -> Link]
              /\ clean \in [Session -> Clean]
SessionTyped == /\ session \in Session \cup {None} /\ committed \subseteq Session
                /\ conv \in [on : BOOLEAN, again : BOOLEAN, sent : {"no", "ok", "fail"}]
AttTyped == att \in [Attacher -> Attempt]
PubTyped == /\ pub \in [at : {"idle", "refused", "waiting", "sent"}, s : Session \cup {None},
                        ok : BOOLEAN, told : 0..MaxStatus]
            /\ status \in 0..MaxStatus /\ probe \in Session \cup {None}
CallerTyped == /\ phase \in {"serving", "closing", "cleaning", "closed"}
               /\ {closed, closingExpected, timer, overlapped, missed} \subseteq BOOLEAN
BoundTyped == bound \in [faults : 0..MaxFaults, reloads : 0..MaxReloads, toggles : 0..MaxToggles]

\* The parts are the type invariant.
LEMMA TypeParts ==
    /\ TypeOK <=> /\ PageTyped /\ RegistryTyped /\ SlotsTyped /\ SessionTyped
                  /\ AttTyped /\ PubTyped /\ CallerTyped /\ BoundTyped
    /\ TypeOK' <=> /\ PageTyped' /\ RegistryTyped' /\ SlotsTyped' /\ SessionTyped'
                   /\ AttTyped' /\ PubTyped' /\ CallerTyped' /\ BoundTyped'
<1>1. {"idle", "connect"} \cup Calling = {"idle", "connect", "remove", "add", "bootstrap",
                                          "announce", "answer", "clean"}
  BY DEF Calling
<1> QED
  BY <1>1 DEF TypeOK, PageTyped, RegistryTyped, SlotsTyped, SessionTyped, AttTyped, PubTyped,
     CallerTyped, BoundTyped, Attempt, Link, Clean

\* The assumptions on the constants, one by one.
LEMMA Bounds == /\ MaxStatus \in Nat /\ MaxFaults \in Nat /\ MaxReloads \in Nat
                /\ MaxToggles \in Nat /\ None \notin Session
  BY BoundAssumption, NoneAssumption

\* A new link, attempt and cleanup.
LEMMA Fresh0 == NoLink \in Link /\ Idle \in Attempt /\ NotCleaning \in Clean
  BY Bounds DEF NoLink, Idle, NotCleaning, Link, Attempt, Clean

\* Faults, reloads and toggles are counted up to their bounds.
LEMMA BoundStep ==
    ASSUME BoundTyped, Fault \/ Toggle \/ UNCHANGED bound
    PROVE  BoundTyped'
  BY Bounds DEF BoundTyped, Fault, CanFail, Toggle

\* A step of one attempt.
LEMMA AttStep ==
    ASSUME AttTyped, NEW a \in Attacher, NEW r \in Attempt, att' = [att EXCEPT ![a] = r]
    PROVE  AttTyped' /\ att'[a] = r /\ \A b \in Attacher \ {a} : att'[b] = att[b]
  BY DEF AttTyped

\* ... from one call to the next.
LEMMA StepTo ==
    ASSUME AttTyped, NEW a \in Attacher, NEW from, NEW to \in {"connect"} \cup Calling,
           Step(a, from, to)
    PROVE  /\ AttTyped' /\ att[a].at = from /\ att'[a].at = to /\ att'[a].s = att[a].s
           /\ \A b \in Attacher \ {a} : att'[b] = att[b]
<1>1. att[a] \in Attempt
  BY DEF AttTyped
<1> DEFINE r == [att[a] EXCEPT !.at = to]
<1>2. r \in Attempt /\ r.at = to /\ r.s = att[a].s
  BY <1>1 DEF Attempt
<1>3. att' = [att EXCEPT ![a] = r] /\ att[a].at = from
  BY DEF Step
<1> HIDE DEF r
<1> QED BY <1>2, <1>3, AttStep

\* #startReattach changes the re-attach only, and only from idle; beside a first
\* attach it is noticed.
LEMMA ReattachStep ==
    ASSUME TypeOK, Named, NEW expected, StartReattach(expected)
    PROVE  /\ AttTyped' /\ Named' /\ overlapped' \in BOOLEAN /\ (overlapped => overlapped')
           /\ att'["attach"] = att["attach"]
           /\ \/ att' = att /\ overlapped' = overlapped
              \/ /\ session = None /\ att["reattach"].at = "idle"
                 /\ att'["reattach"].at = "connect" /\ att'["reattach"].s = None
                 /\ ~overlapped' => att["attach"].at = "idle"
<1>0. AttTyped /\ overlapped \in BOOLEAN
  BY TypeParts DEF CallerTyped
<1>1. CASE UNCHANGED <<att, overlapped>>
  BY <1>0, <1>1 DEF AttTyped, Named
<1>2. CASE /\ MayReattach(expected) /\ att' = [att EXCEPT !["reattach"].at = "connect"]
           /\ overlapped' = (overlapped \/ att["attach"].at # "idle")
  <2>1. att["reattach"] \in Attempt /\ att["reattach"].s = None
    BY <1>0, <1>2 DEF AttTyped, Attacher, MayReattach, Named, Calling
  <2> DEFINE r == [att["reattach"] EXCEPT !.at = "connect"]
  <2>2. r \in Attempt /\ r.at = "connect" /\ r.s = None
    BY <2>1 DEF Attempt
  <2>3. att' = [att EXCEPT !["reattach"] = r]
    BY <1>2
  <2> HIDE DEF r
  <2>4. AttTyped' /\ att'["reattach"] = r /\ att'["attach"] = att["attach"]
    BY <1>0, <2>2, <2>3, AttStep DEF Attacher
  <2>5. Named'
    BY <2>2, <2>4 DEF Named, Attacher, Calling
  <2> QED BY <1>0, <1>2, <2>2, <2>4, <2>5 DEF MayReattach
<1> QED BY <1>1, <1>2 DEF StartReattach

\* #invalidateSession keeps the types.
LEMMA InvalidateStep ==
    ASSUME TypeOK, NEW s \in Session, Invalidate(s)
    PROVE  SessionTyped' /\ clean' \in [Session -> Clean]
<1>1. SessionTyped /\ clean \in [Session -> Clean]
  BY TypeParts DEF SlotsTyped
<1>2. NoConv \in [on : BOOLEAN, again : BOOLEAN, sent : {"no", "ok", "fail"}]
  BY DEF NoConv
<1>3. [at |-> "dispose", by |-> "lost"] \in Clean
  BY DEF Clean
<1> QED BY <1>1, <1>2, <1>3 DEF Invalidate, SessionTyped

\* Only one attempt has changed.
LEMMA NamedStep ==
    ASSUME Named, NEW a \in Attacher, \A b \in Attacher \ {a} : att'[b] = att[b],
           IF att'[a].at \in Calling THEN att'[a].s \in Session ELSE att'[a].s = None
    PROVE  Named'
  BY DEF Named

\* Each step of #attachOnce keeps the types.
LEMMA TypeAttach ==
    ASSUME TypeOK, Named, NEW a \in Attacher, Attach(a)
    PROVE  TypeOK' /\ Named' /\ overlapped' = overlapped
<1>0. /\ PageTyped /\ RegistryTyped /\ SlotsTyped /\ SessionTyped
      /\ AttTyped /\ PubTyped /\ CallerTyped /\ BoundTyped
  BY TypeParts
<1>a. att[a] \in Attempt /\ (att[a].at \in Calling => att[a].s \in Session)
  BY <1>0 DEF AttTyped, Named
<1>1. CASE Connect(a)
  <2> DEFINE s == CHOOSE s \in Session : Unused(s)
  <2>1. s \in Session
    BY <1>1 DEF Connect
  <2>2. /\ att' = [att EXCEPT ![a] = [Idle EXCEPT !.at = "remove", !.s = s]]
        /\ link' = [link EXCEPT ![s] = [NoLink EXCEPT !.conn = "open", !.binding = TRUE]]
        /\ fresh' = fresh \cup {s}
    BY <1>1 DEF Connect
  <2> HIDE DEF s
  <2> DEFINE r == [Idle EXCEPT !.at = "remove", !.s = s]
  <2>3. r \in Attempt /\ r.at = "remove" /\ r.s = s
    BY <2>1, Fresh0 DEF Attempt, Calling, Idle
  <2>4. att' = [att EXCEPT ![a] = r]
    BY <2>2
  <2> HIDE DEF r
  <2>5. AttTyped' /\ att'[a] = r /\ \A b \in Attacher \ {a} : att'[b] = att[b]
    BY <1>0, <2>3, <2>4, AttStep
  <2>6. Named'
    BY <2>1, <2>3, <2>5, NamedStep DEF Calling
  <2>b. NoLink \in Link
    BY Fresh0
  <2>7. [NoLink EXCEPT !.conn = "open", !.binding = TRUE] \in Link
    BY <2>b DEF Link
  <2>8. SlotsTyped'
    BY <1>0, <1>1, <2>1, <2>2, <2>7 DEF SlotsTyped, Connect
  <2> QED BY <1>0, <1>1, <2>5, <2>6, <2>8, TypeParts DEF Connect, registry, caller, history,
            PageTyped, RegistryTyped, SessionTyped, PubTyped, CallerTyped, BoundTyped
<1>2. CASE ConnectFails(a)
  <2> DEFINE r == [att[a] EXCEPT !.at = IF a = "attach" THEN "idle" ELSE @]
  <2>1. att[a].at = "connect" /\ att' = [att EXCEPT ![a] = r]
    BY <1>2 DEF ConnectFails
  <2>2. r \in Attempt /\ r.at \in {"idle", "connect"} /\ r.s = att[a].s
    BY <1>a, <2>1 DEF Attempt
  <2> HIDE DEF r
  <2>3. AttTyped' /\ att'[a] = r /\ \A b \in Attacher \ {a} : att'[b] = att[b]
    BY <1>0, <2>1, <2>2, AttStep
  <2>4. att[a].s = None
    BY <2>1 DEF Named, Calling
  <2>5. Named'
    BY <2>2, <2>3, <2>4, NamedStep DEF Calling
  <2>6. BoundTyped'
    BY <1>0, <1>2, Bounds DEF BoundTyped, ConnectFails, CanFail
  <2> QED BY <1>0, <1>2, <2>3, <2>5, <2>6, TypeParts
      DEF ConnectFails, browser, registry, caller,
            history, PageTyped, RegistryTyped, SlotsTyped, SessionTyped, PubTyped, CallerTyped
<1>3. CASE RemoveOld(a)
  <2>1. Step(a, "remove", "add")
    BY <1>3 DEF RemoveOld
  <2>2. /\ AttTyped' /\ att[a].at = "remove" /\ att'[a].at = "add" /\ att'[a].s = att[a].s
        /\ \A b \in Attacher \ {a} : att'[b] = att[b]
    BY <1>0, <2>1, StepTo DEF Calling
  <2>3. Named'
    BY <1>a, <2>2, NamedStep DEF Calling
  <2>4. RegistryTyped'
    BY <1>0, <1>3 DEF RemoveOld, RegistryTyped, Removed
  <2> QED BY <1>0, <1>3, <2>2, <2>3, <2>4, TypeParts DEF RemoveOld, caller, history,
            PageTyped, SlotsTyped, SessionTyped, PubTyped, CallerTyped, BoundTyped
<1>4. CASE AddScript(a)
  <2>1. Step(a, "add", "bootstrap")
    BY <1>4 DEF AddScript
  <2>2. /\ AttTyped' /\ att[a].at = "add" /\ att'[a].at = "bootstrap" /\ att'[a].s = att[a].s
        /\ \A b \in Attacher \ {a} : att'[b] = att[b]
    BY <1>0, <2>1, StepTo DEF Calling
  <2>3. Named'
    BY <1>a, <2>2, NamedStep DEF Calling
  <2>4. att[a].s \in Session
    BY <1>a, <2>2 DEF Calling
  <2>5. RegistryTyped'
    BY <1>0, <1>4, <2>4 DEF AddScript, RegistryTyped, Added
  <2>6. SlotsTyped'
    BY <1>0, <1>4, <2>4 DEF AddScript, SlotsTyped, PubTyped, Link
  <2> QED BY <1>0, <1>4, <2>2, <2>3, <2>5, <2>6, TypeParts DEF AddScript, caller, history,
            PageTyped, SessionTyped, PubTyped, CallerTyped, BoundTyped
<1>5. CASE Bootstrap(a)
  <2>1. Step(a, "bootstrap", "announce")
    BY <1>5 DEF Bootstrap
  <2>2. /\ AttTyped' /\ att[a].at = "bootstrap" /\ att'[a].at = "announce"
        /\ att'[a].s = att[a].s /\ \A b \in Attacher \ {a} : att'[b] = att[b]
    BY <1>0, <2>1, StepTo DEF Calling
  <2>3. Named'
    BY <1>a, <2>2, NamedStep DEF Calling
  <2>4. att[a].s \in Session
    BY <1>a, <2>2 DEF Calling
  <2>5. link[att[a].s].baked \in 0..MaxStatus
    BY <1>0, <2>4 DEF SlotsTyped, Link
  <2>6. PageTyped'
    BY <1>0, <1>5, <2>4, <2>5 DEF Bootstrap, PageTyped
  <2> QED BY <1>0, <1>5, <2>2, <2>3, <2>6, TypeParts DEF Bootstrap, registry, caller, history,
            RegistryTyped, SlotsTyped, SessionTyped, PubTyped, CallerTyped, BoundTyped
<1>6. CASE Announce(a)
  <2> DEFINE r == [att[a] EXCEPT !.at = "answer", !.told = status, !.ok = Accepts(att[a].s)]
  <2>1. att[a].at = "announce" /\ att' = [att EXCEPT ![a] = r]
    BY <1>6 DEF Announce
  <2>2. Accepts(att[a].s) \in BOOLEAN
    BY DEF Accepts, Reaches
  <2>3. r \in Attempt /\ r.at = "answer" /\ r.s = att[a].s
    BY <1>0, <1>a, <2>2 DEF Attempt, Calling, PubTyped
  <2> HIDE DEF r
  <2>4. AttTyped' /\ att'[a] = r /\ \A b \in Attacher \ {a} : att'[b] = att[b]
    BY <1>0, <2>1, <2>3, AttStep
  <2>5. Named'
    BY <1>a, <2>1, <2>3, <2>4, NamedStep DEF Calling
  <2>6. PageTyped'
    BY <1>0, <1>6 DEF Announce, PageTyped, PubTyped
  <2> QED BY <1>0, <1>6, <2>4, <2>5, <2>6, TypeParts DEF Announce, registry, caller, history,
            RegistryTyped, SlotsTyped, SessionTyped, PubTyped, CallerTyped, BoundTyped
<1>7. CASE Commit(a)
  <2>1. att[a].at = "answer" /\ att' = [att EXCEPT ![a] = Idle]
    BY <1>7 DEF Commit
  <2>2. AttTyped' /\ att'[a] = Idle /\ \A b \in Attacher \ {a} : att'[b] = att[b]
    BY <1>0, <2>1, AttStep, Fresh0
  <2>3. Named'
    BY <2>2, NamedStep DEF Calling, Idle
  <2>4. SessionTyped'
    BY <1>0, <1>7, <1>a, <2>1 DEF Commit, SessionTyped, Calling, NoConv
  <2> QED BY <1>0, <1>7, <2>2, <2>3, <2>4, TypeParts DEF Commit, browser, registry, history,
            PageTyped, RegistryTyped, SlotsTyped, PubTyped, CallerTyped, BoundTyped
<1>8. CASE AttachFails(a)
  <2> DEFINE r == [Idle EXCEPT !.at = "clean", !.s = att[a].s]
  <2>1. /\ att[a].at \in {"remove", "add", "bootstrap", "answer"}
        /\ att' = [att EXCEPT ![a] = r]
    BY <1>8 DEF AttachFails
  <2>2. att[a].s \in Session
    BY <1>a, <2>1 DEF Calling
  <2>3. r \in Attempt /\ r.at = "clean" /\ r.s = att[a].s
    BY <2>2, Fresh0 DEF Attempt, Calling, Idle
  <2> HIDE DEF r
  <2>4. AttTyped' /\ att'[a] = r /\ \A b \in Attacher \ {a} : att'[b] = att[b]
    BY <1>0, <2>1, <2>3, AttStep
  <2>5. Named'
    BY <2>2, <2>3, <2>4, NamedStep DEF Calling
  <2>6. BoundTyped'
    BY <1>0, <1>8, BoundStep DEF AttachFails
  <2>7. RegistryTyped'
    BY <1>0, <1>8, <2>2 DEF AttachFails, RegistryTyped, Added, registry
  <2>8. [at |-> "dispose", by |-> a] \in Clean
    BY DEF Clean
  <2>9. SlotsTyped'
    BY <1>0, <1>8, <2>2, <2>8 DEF AttachFails, SlotsTyped
  <2> QED BY <1>0, <1>8, <2>4, <2>5, <2>6, <2>7, <2>9, TypeParts
      DEF AttachFails, caller, history,
            PageTyped, SessionTyped, PubTyped, CallerTyped
<1> QED BY <1>1, <1>2, <1>3, <1>4, <1>5, <1>6, <1>7, <1>8 DEF Attach

\* Each step of a cleanup keeps the types.
LEMMA TypeCleanup ==
    ASSUME TypeOK, Named, NEW s \in Session, Cleanup(s)
    PROVE  TypeOK' /\ Named' /\ (overlapped => overlapped')
<1>0. /\ PageTyped /\ RegistryTyped /\ SlotsTyped /\ SessionTyped
      /\ AttTyped /\ PubTyped /\ CallerTyped /\ BoundTyped
  BY TypeParts
<1>1. CASE Dispose(s)
  <2>1. PageTyped'
    BY <1>0, <1>1 DEF Dispose, PageTyped
  <2>2. SlotsTyped'
    BY <1>0, <1>1 DEF Dispose, SlotsTyped, Next1, Clean
  <2>3. BoundTyped'
    BY <1>0, <1>1, BoundStep DEF Dispose
  <2> QED BY <1>0, <1>1, <2>1, <2>2, <2>3, TypeParts
      DEF Dispose, browser, registry, caller, history, Named,
            RegistryTyped, SessionTyped, AttTyped, PubTyped, CallerTyped
<1>2. CASE RemoveScript(s)
  <2>1. RegistryTyped'
    BY <1>0, <1>2 DEF RemoveScript, RegistryTyped, Removed, registry
  <2>2. SlotsTyped'
    BY <1>0, <1>2 DEF RemoveScript, SlotsTyped, Next1, Clean
  <2>3. BoundTyped'
    BY <1>0, <1>2, BoundStep DEF RemoveScript
  <2> QED BY <1>0, <1>2, <2>1, <2>2, <2>3, TypeParts
      DEF RemoveScript, browser, registry, caller, history, Named,
            PageTyped, SessionTyped, AttTyped, PubTyped, CallerTyped
<1>3. CASE RemoveBinding(s)
  <2>1. [NoLink EXCEPT !.script = link[s].script /\ s \in scripts] \in Link
    <3>1. NoLink \in Link
      BY Fresh0
    <3> QED BY <1>0, <3>1 DEF SlotsTyped, Link
  <2>2. SlotsTyped'
    BY <1>0, <1>3, <2>1, Fresh0 DEF RemoveBinding, SlotsTyped
  <2>3. clean[s] \in Clean
    BY <1>0 DEF SlotsTyped
  <2>4. /\ AttTyped' /\ Named' /\ overlapped' \in BOOLEAN /\ (overlapped => overlapped')
        /\ phase' \in {"serving", "closing", "cleaning", "closed"}
    <3>0. overlapped \in BOOLEAN /\ phase \in {"serving", "closing", "cleaning", "closed"}
      BY <1>0 DEF CallerTyped
    <3>1. CASE clean[s].by = "attach"
      <4>1. /\ "attach" \in Attacher /\ att' = [att EXCEPT !["attach"] = Idle]
            /\ UNCHANGED <<phase, overlapped>>
        BY <1>3, <3>1 DEF RemoveBinding, CleanedFor, Attacher
      <4>2. /\ AttTyped' /\ att'["attach"] = Idle
            /\ \A b \in Attacher \ {"attach"} : att'[b] = att[b]
        BY <1>0, <4>1, AttStep, Fresh0
      <4>3. Named'
        BY <4>1, <4>2, NamedStep DEF Idle, Calling
      <4> QED BY <3>0, <4>1, <4>2, <4>3
    <3>2. CASE clean[s].by = "reattach"
      <4> DEFINE r == [Idle EXCEPT !.at = "connect"]
      <4>1. /\ "reattach" \in Attacher /\ att' = [att EXCEPT !["reattach"] = r]
            /\ UNCHANGED <<phase, overlapped>>
        BY <1>3, <3>2 DEF RemoveBinding, CleanedFor, Attacher
      <4>2. r \in Attempt /\ r.at = "connect" /\ r.s = None
        BY Fresh0 DEF Attempt, Idle
      <4> HIDE DEF r
      <4>3. /\ AttTyped' /\ att'["reattach"] = r
            /\ \A b \in Attacher \ {"reattach"} : att'[b] = att[b]
        BY <1>0, <4>1, <4>2, AttStep
      <4>4. Named'
        BY <4>1, <4>2, <4>3, NamedStep DEF Calling
      <4> QED BY <3>0, <4>1, <4>3, <4>4
    <3>3. CASE clean[s].by = "close"
      <4>1. phase' = "closed" /\ UNCHANGED <<att, overlapped>>
        BY <1>3, <3>3 DEF RemoveBinding, CleanedFor
      <4> QED BY <1>0, <3>0, <4>1 DEF AttTyped, Named
    <3>4. CASE clean[s].by = "lost"
      <4>1. StartReattach(closingExpected) /\ UNCHANGED phase
        BY <1>3, <3>4 DEF RemoveBinding, CleanedFor
      <4> QED BY <3>0, <4>1, ReattachStep
    <3> QED BY <2>3, <3>1, <3>2, <3>3, <3>4 DEF Clean, Attacher
  <2>5. CallerTyped'
    BY <1>0, <1>3, <2>4 DEF RemoveBinding, CallerTyped
  <2> QED BY <1>0, <1>3, <2>2, <2>4, <2>5, TypeParts
      DEF RemoveBinding, browser, registry, caller, history,
            PageTyped, RegistryTyped, SessionTyped, PubTyped, BoundTyped
<1> QED BY <1>1, <1>2, <1>3 DEF Cleanup

\* The end of a connection and a new context keep the types.
LEMMA TypeEvents ==
    ASSUME TypeOK, Named, NEW s \in Session, Events(s) \/ Lose(s)
    PROVE  TypeOK' /\ Named' /\ overlapped' = overlapped
<1>0. /\ PageTyped /\ RegistryTyped /\ SlotsTyped /\ SessionTyped
      /\ AttTyped /\ PubTyped /\ CallerTyped /\ BoundTyped
  BY TypeParts
<1>1. CASE SocketClosed(s)
  <2>1. SessionTyped' /\ clean' \in [Session -> Clean]
    BY <1>1, InvalidateStep DEF SocketClosed
  <2>2. SlotsTyped'
    BY <1>0, <1>1, <2>1 DEF SocketClosed, browser, SlotsTyped
  <2> QED BY <1>0, <1>1, <2>1, <2>2, TypeParts
      DEF SocketClosed, browser, registry, caller, history, Named,
            PageTyped, RegistryTyped, AttTyped, PubTyped, CallerTyped, BoundTyped
<1>2. CASE ContextCreated(s)
  <2>1. SlotsTyped'
    BY <1>0, <1>2 DEF ContextCreated, SlotsTyped
  <2>2. SessionTyped'
    BY <1>0, <1>2 DEF ContextCreated, SessionTyped, ScheduleConvergence, NoConv
  <2>3. missed' \in BOOLEAN
    BY <1>0, <1>2 DEF ContextCreated, CallerTyped
  <2>4. CallerTyped'
    BY <1>0, <1>2, <2>3 DEF ContextCreated, CallerTyped, caller
  <2> QED BY <1>0, <1>2, <2>1, <2>2, <2>4, TypeParts
      DEF ContextCreated, browser, registry, caller, history, Named,
            PageTyped, RegistryTyped, AttTyped, PubTyped, BoundTyped
<1>3. CASE Lose(s)
  <2>1. SlotsTyped'
    BY <1>0, <1>3 DEF Lose, SlotsTyped, Link
  <2>2. BoundTyped'
    BY <1>0, <1>3, BoundStep DEF Lose
  <2> QED BY <1>0, <1>3, <2>1, <2>2, TypeParts
      DEF Lose, browser, registry, caller, history, Named,
            PageTyped, RegistryTyped, SessionTyped, AttTyped, PubTyped, CallerTyped
<1> QED BY <1>1, <1>2, <1>3 DEF Events

\* The convergence after a reload keeps the types.
LEMMA TypeConverging ==
    ASSUME TypeOK, Named, Converging
    PROVE  TypeOK' /\ Named' /\ overlapped' = overlapped
<1>0. /\ PageTyped /\ RegistryTyped /\ SlotsTyped /\ SessionTyped
      /\ AttTyped /\ PubTyped /\ CallerTyped /\ BoundTyped
  BY TypeParts
<1>1. CASE Converge
  <2>1. PageTyped'
    BY <1>0, <1>1 DEF Converge, PageTyped, PubTyped
  <2>2. SessionTyped'
    BY <1>0, <1>1 DEF Converge, SessionTyped
  <2>3. BoundTyped'
    BY <1>0, <1>1, BoundStep DEF Converge
  <2> QED BY <1>0, <1>1, <2>1, <2>2, <2>3, TypeParts
      DEF Converge, browser, registry, caller, history, Named,
            RegistryTyped, SlotsTyped, AttTyped, PubTyped, CallerTyped
<1>2. CASE ConvergeAnswered
  <2>1. SessionTyped'
    BY <1>0, <1>2 DEF ConvergeAnswered, SessionTyped, NoConv
  <2>2. missed' \in BOOLEAN
    BY <1>0, <1>2 DEF ConvergeAnswered, CallerTyped, SessionTyped
  <2>3. CallerTyped'
    BY <1>0, <1>2, <2>2 DEF ConvergeAnswered, CallerTyped, caller
  <2> QED BY <1>0, <1>2, <2>1, <2>3, TypeParts
      DEF ConvergeAnswered, browser, registry, caller, history, Named,
            PageTyped, RegistryTyped, SlotsTyped, AttTyped, PubTyped, BoundTyped
<1>3. CASE ConvergeDeadline
  <2>1. SessionTyped'
    BY <1>0, <1>3 DEF ConvergeDeadline, SessionTyped, NoConv
  <2>2. missed' \in BOOLEAN
    BY <1>0, <1>3 DEF ConvergeDeadline, CallerTyped, SessionTyped
  <2>3. CallerTyped'
    BY <1>0, <1>3, <2>2 DEF ConvergeDeadline, CallerTyped, caller
  <2>4. BoundTyped'
    BY <1>0, <1>3, BoundStep DEF ConvergeDeadline
  <2> QED BY <1>0, <1>3, <2>1, <2>3, <2>4, TypeParts
      DEF ConvergeDeadline, browser, registry, caller, history, Named,
            PageTyped, RegistryTyped, SlotsTyped, AttTyped, PubTyped
<1> QED BY <1>1, <1>2, <1>3 DEF Converging

\* Publishing a status and the health probe keep the types.
LEMMA TypePublishing ==
    ASSUME TypeOK, Named, Publishing \/ Probing
    PROVE  TypeOK' /\ Named' /\ (overlapped => overlapped')
<1>0. /\ PageTyped /\ RegistryTyped /\ SlotsTyped /\ SessionTyped
      /\ AttTyped /\ PubTyped /\ CallerTyped /\ BoundTyped
  BY TypeParts
<1>c. NoCall.at = "idle" /\ NoCall.s = None /\ NoCall.ok = FALSE /\ NoCall.told \in 0..MaxStatus
  BY Bounds DEF NoCall
<1>d. NoCall \in [at : {"idle", "refused", "waiting", "sent"}, s : Session \cup {None},
                  ok : BOOLEAN, told : 0..MaxStatus]
  BY Bounds DEF NoCall
<1>1. CASE PublishSent
  <2>1. PageTyped'
    BY <1>0, <1>1 DEF PublishSent, PageTyped, PubTyped
  <2>2. Accepts(session) \in BOOLEAN
    BY DEF Accepts, Reaches
  <2>3. PubTyped'
    BY <1>0, <1>1, <2>2 DEF PublishSent, PubTyped, SessionTyped, caller
  <2>4. BoundTyped'
    BY <1>0, <1>1, BoundStep DEF PublishSent
  <2> QED BY <1>0, <1>1, <2>1, <2>3, <2>4, TypeParts
      DEF PublishSent, browser, registry, caller, history, Named,
            RegistryTyped, SlotsTyped, SessionTyped, AttTyped, CallerTyped
<1>2. CASE PublishGivesUp
  <2>1. PubTyped'
    BY <1>0, <1>2, <1>d DEF PublishGivesUp, PubTyped, caller
  <2> QED BY <1>0, <1>2, <2>1, TypeParts
      DEF PublishGivesUp, browser, registry, caller, history, Named,
            PageTyped, RegistryTyped, SlotsTyped, SessionTyped, AttTyped, CallerTyped, BoundTyped
<1>3. CASE PublishAnswered
  <2>1. PubTyped'
    BY <1>0, <1>3, <1>d DEF PublishAnswered, PubTyped, caller
  <2>2. SessionTyped' /\ clean' \in [Session -> Clean]
    <3>1. CASE UNCHANGED <<session, committed, clean, conv>>
      BY <1>0, <3>1 DEF SessionTyped, SlotsTyped
    <3>2. CASE Invalidate(pub.s) /\ pub.s \in Session
      BY <3>2, InvalidateStep
    <3>3. CASE Invalidate(pub.s) /\ pub.s = None
      <4>1. UNCHANGED <<committed, session>> \/ session = None
        BY <3>3 DEF Invalidate
      <4>2. CASE session # None
        BY <1>0, <3>3, <4>2 DEF Invalidate, SessionTyped, SlotsTyped
      <4>3. CASE session = None
        <5>1. /\ session' = None /\ committed' = committed \ {None} /\ conv' = NoConv
              /\ clean' = [clean EXCEPT ![None] = [at |-> "dispose", by |-> "lost"]]
          BY <3>3, <4>3 DEF Invalidate
        <5>2. SessionTyped'
          BY <1>0, <5>1 DEF SessionTyped, NoConv
        <5>3. clean \in [Session -> Clean] /\ None \notin Session
          BY <1>0, Bounds DEF SlotsTyped
        <5>4. clean' = clean
          BY <5>1, <5>3
        <5> QED BY <5>2, <5>3, <5>4
      <4> QED BY <4>2, <4>3
    <3> QED BY <1>0, <1>3, <3>1, <3>2, <3>3 DEF PublishAnswered, PubTyped
  <2>3. SlotsTyped'
    BY <1>0, <1>3, <2>2 DEF PublishAnswered, SlotsTyped, browser
  <2> QED BY <1>0, <1>3, <2>1, <2>2, <2>3, TypeParts
      DEF PublishAnswered, browser, registry, caller, history, Named,
            PageTyped, RegistryTyped, AttTyped, CallerTyped, BoundTyped
<1>4. CASE ProbeHealth
  <2>1. /\ AttTyped' /\ Named' /\ overlapped' \in BOOLEAN /\ (overlapped => overlapped')
    <3>1. CASE UNCHANGED <<att, overlapped>>
      BY <1>0, <3>1 DEF AttTyped, Named, CallerTyped
    <3>2. CASE StartReattach(closingExpected)
      BY <3>2, ReattachStep
    <3> QED BY <1>4, <3>1, <3>2 DEF ProbeHealth
  <2>2. PubTyped'
    BY <1>0, <1>4 DEF ProbeHealth, PubTyped, SessionTyped, caller
  <2>3. BoundTyped'
    BY <1>0, <1>4, BoundStep DEF ProbeHealth
  <2>4. CallerTyped'
    BY <1>0, <1>4, <2>1 DEF ProbeHealth, CallerTyped, caller
  <2> QED BY <1>0, <1>4, <2>1, <2>2, <2>3, <2>4, TypeParts
      DEF ProbeHealth, browser, registry, caller, history,
            PageTyped, RegistryTyped, SlotsTyped, SessionTyped
<1>5. CASE ProbeFailed
  <2>1. probe \in Session
    BY <1>0, <1>5 DEF ProbeFailed, PubTyped
  <2>2. SessionTyped' /\ clean' \in [Session -> Clean]
    BY <1>5, <2>1, InvalidateStep DEF ProbeFailed
  <2>3. SlotsTyped'
    BY <1>0, <1>5, <2>2 DEF ProbeFailed, SlotsTyped, browser
  <2>4. PubTyped'
    BY <1>0, <1>5 DEF ProbeFailed, PubTyped, caller
  <2> QED BY <1>0, <1>5, <2>2, <2>3, <2>4, TypeParts
      DEF ProbeFailed, browser, registry, caller, history, Named,
            PageTyped, RegistryTyped, AttTyped, CallerTyped, BoundTyped
<1> QED BY <1>1, <1>2, <1>3, <1>4, <1>5 DEF Publishing, Probing

\* What the controller asks for keeps the types.
LEMMA TypeController ==
    ASSUME TypeOK, Named, Controller
    PROVE  TypeOK' /\ Named' /\ (overlapped => overlapped')
<1>0. /\ PageTyped /\ RegistryTyped /\ SlotsTyped /\ SessionTyped
      /\ AttTyped /\ PubTyped /\ CallerTyped /\ BoundTyped
  BY TypeParts
<1>1. CASE Publish
  <2>1. /\ AttTyped' /\ Named' /\ overlapped' \in BOOLEAN /\ (overlapped => overlapped')
    <3>1. CASE UNCHANGED <<att, overlapped>>
      BY <1>0, <3>1 DEF AttTyped, Named, CallerTyped
    <3>2. CASE \E e \in BOOLEAN : StartReattach(e)
      BY <3>2, ReattachStep
    <3> QED BY <1>0, <1>1, <3>1, <3>2 DEF Publish, Require, CallerTyped
  <2>2. status \in Nat /\ status < MaxStatus /\ status' = status + 1
    BY <1>0, <1>1, Bounds DEF Publish, PubTyped
  <2>3. status' \in 0..MaxStatus
    BY <2>2, Bounds
  <2>4. pub' \in {[NoCall EXCEPT !.at = "refused"],
                 [NoCall EXCEPT !.at = "waiting", !.told = status']}
    BY <1>1, <2>2 DEF Publish
  <2>5. PubTyped'
    <3> DEFINE Call == [at : {"idle", "refused", "waiting", "sent"}, s : Session \cup {None},
                        ok : BOOLEAN, told : 0..MaxStatus]
    <3>1. NoCall \in Call
      BY Bounds DEF NoCall
    <3>2. pub' \in Call
      BY <2>3, <2>4, <3>1
    <3> QED BY <1>0, <1>1, <2>3, <3>2 DEF Publish, PubTyped
  <2>6. CallerTyped'
    BY <1>0, <1>1, <2>1 DEF Publish, CallerTyped
  <2> QED BY <1>0, <1>1, <2>1, <2>5, <2>6, TypeParts
      DEF Publish, browser, registry, caller, history,
            PageTyped, RegistryTyped, SlotsTyped, SessionTyped, BoundTyped
<1>2. CASE QueryActivity
  <2>1. /\ AttTyped' /\ Named' /\ overlapped' \in BOOLEAN /\ (overlapped => overlapped')
    <3>1. CASE UNCHANGED <<att, overlapped>>
      BY <1>0, <3>1 DEF AttTyped, Named, CallerTyped
    <3>2. CASE \E e \in BOOLEAN : StartReattach(e)
      BY <3>2, ReattachStep
    <3> QED BY <1>0, <1>2, <3>1, <3>2 DEF QueryActivity, Require, CallerTyped
  <2>2. CallerTyped'
    BY <1>0, <1>2, <2>1 DEF QueryActivity, CallerTyped, caller
  <2> QED BY <1>0, <1>2, <2>1, <2>2, TypeParts
      DEF QueryActivity, browser, registry, caller, history,
            PageTyped, RegistryTyped, SlotsTyped, SessionTyped, PubTyped, BoundTyped
<1>3. CASE ExpectClose
  <2>1. BoundTyped'
    BY <1>0, <1>3, BoundStep DEF ExpectClose
  <2>2. CallerTyped'
    BY <1>0, <1>3 DEF ExpectClose, CallerTyped, history
  <2> QED BY <1>0, <1>3, <2>1, <2>2, TypeParts
      DEF ExpectClose, browser, registry, caller, history, Named,
            PageTyped, RegistryTyped, SlotsTyped, SessionTyped, AttTyped, PubTyped
<1>4. CASE ExpectNoClose
  <2>1. /\ AttTyped' /\ Named' /\ overlapped' \in BOOLEAN /\ (overlapped => overlapped')
    <3>1. CASE UNCHANGED <<att, overlapped>>
      BY <1>0, <3>1 DEF AttTyped, Named, CallerTyped
    <3>2. CASE \E e \in BOOLEAN : StartReattach(e)
      BY <3>2, ReattachStep
    <3> QED BY <1>0, <1>4, <3>1, <3>2 DEF ExpectNoClose, Require, CallerTyped
  <2>2. CallerTyped'
    BY <1>0, <1>4, <2>1 DEF ExpectNoClose, CallerTyped
  <2> QED BY <1>0, <1>4, <2>1, <2>2, TypeParts
      DEF ExpectNoClose, browser, registry, caller, history,
            PageTyped, RegistryTyped, SlotsTyped, SessionTyped, PubTyped, BoundTyped
<1>5. CASE Close
  <2>1. BoundTyped'
    BY <1>0, <1>5, BoundStep DEF Close
  <2>2. CallerTyped'
    BY <1>0, <1>5 DEF Close, CallerTyped, history
  <2> QED BY <1>0, <1>5, <2>1, <2>2, TypeParts
      DEF Close, browser, registry, caller, history, Named,
            PageTyped, RegistryTyped, SlotsTyped, SessionTyped, AttTyped, PubTyped
<1>6. CASE CloseSession
  <2>1. SessionTyped'
    BY <1>0, <1>6 DEF CloseSession, SessionTyped, NoConv
  <2>2. [at |-> "dispose", by |-> "close"] \in Clean
    BY DEF Clean
  <2>3. SlotsTyped'
    BY <1>0, <1>6, <2>2 DEF CloseSession, SlotsTyped, browser
  <2>4. CallerTyped'
    BY <1>0, <1>6 DEF CloseSession, CallerTyped, history
  <2> QED BY <1>0, <1>6, <2>1, <2>3, <2>4, TypeParts
      DEF CloseSession, browser, registry, caller, history, Named,
            PageTyped, RegistryTyped, AttTyped, PubTyped, BoundTyped
<1>7. CASE Restore
  <2>1. AttTyped' /\ Named'
    <3>1. CASE att' = att
      BY <1>0, <3>1 DEF AttTyped, Named
    <3>2. CASE att' = [att EXCEPT !["attach"].at = "connect"] /\ att["attach"].at = "idle"
      <4>1. Step("attach", "idle", "connect") /\ "attach" \in Attacher
        BY <3>2 DEF Step, Attacher
      <4>2. /\ AttTyped' /\ att'["attach"].at = "connect" /\ att'["attach"].s = att["attach"].s
            /\ \A b \in Attacher \ {"attach"} : att'[b] = att[b]
        BY <1>0, <4>1, StepTo
      <4>3. att["attach"].s = None
        BY <3>2, <4>1 DEF Named, Calling
      <4> QED BY <4>1, <4>2, <4>3, NamedStep DEF Calling
    <3> QED BY <1>7, <3>1, <3>2 DEF Restore, Attacher
  <2>2. CallerTyped'
    BY <1>0, <1>7 DEF Restore, CallerTyped, history
  <2> QED BY <1>0, <1>7, <2>1, <2>2, TypeParts DEF Restore, browser, registry, caller, history,
            PageTyped, RegistryTyped, SlotsTyped, SessionTyped, PubTyped, BoundTyped
<1> QED BY <1>1, <1>2, <1>3, <1>4, <1>5, <1>6, <1>7 DEF Controller

\* The end of the re-attach loop and the page keep the types.
LEMMA TypeRest ==
    ASSUME TypeOK, Named, StopRetrying \/ Leave \/ Return
    PROVE  TypeOK' /\ Named' /\ overlapped' = overlapped
<1>0. /\ PageTyped /\ RegistryTyped /\ SlotsTyped /\ SessionTyped
      /\ AttTyped /\ PubTyped /\ CallerTyped /\ BoundTyped
  BY TypeParts
<1>1. CASE StopRetrying
  <2>1. "reattach" \in Attacher /\ att' = [att EXCEPT !["reattach"] = Idle]
    BY <1>1 DEF StopRetrying, Attacher
  <2>2. /\ AttTyped' /\ att'["reattach"] = Idle
        /\ \A b \in Attacher \ {"reattach"} : att'[b] = att[b]
    BY <1>0, <2>1, AttStep, Fresh0
  <2>3. Named'
    BY <2>1, <2>2, NamedStep DEF Idle, Calling
  <2> QED BY <1>0, <1>1, <2>2, <2>3, TypeParts
      DEF StopRetrying, browser, registry, caller, history,
            PageTyped, RegistryTyped, SlotsTyped, SessionTyped, PubTyped, CallerTyped, BoundTyped
<1>2. CASE Leave
  <2>1. PageTyped' /\ SlotsTyped'
    BY <1>0, <1>2 DEF Leave, PageTyped, SlotsTyped
  <2>2. bound.reloads + 1 \in 0..MaxReloads
    BY <1>0, <1>2, Bounds DEF Leave, BoundTyped
  <2>3. BoundTyped'
    BY <1>0, <1>2, <2>2 DEF Leave, BoundTyped
  <2> QED BY <1>0, <1>2, <2>1, <2>3, TypeParts
      DEF Leave, browser, registry, caller, history, Named,
            RegistryTyped, SessionTyped, AttTyped, PubTyped, CallerTyped
<1>3. CASE Return
  <2>1. PageTyped'
    <3>1. CASE page' = [page EXCEPT !.up = TRUE]
      BY <1>0, <3>1 DEF PageTyped
    <3>2. CASE \E s \in Session :
                  page' = [up |-> TRUE, owner |-> s, shown |-> link[s].baked]
      <4>1. PICK s \in Session : page' = [up |-> TRUE, owner |-> s, shown |-> link[s].baked]
        BY <3>2
      <4>2. link[s].baked \in 0..MaxStatus
        BY <1>0 DEF SlotsTyped, Link
      <4> QED BY <4>1, <4>2 DEF PageTyped
    <3> QED BY <1>3, <3>1, <3>2 DEF Return
  <2> QED BY <1>0, <1>3, <2>1, TypeParts DEF Return, browser, registry, caller, history, Named,
            RegistryTyped, SlotsTyped, SessionTyped, AttTyped, PubTyped, CallerTyped, BoundTyped
<1> QED BY <1>1, <1>2, <1>3

\* Every step keeps the types; an overlap once noticed is remembered.
LEMMA TypeStep ==
    ASSUME TypeOK, Named, [Next]_vars
    PROVE  TypeOK' /\ Named' /\ (overlapped => overlapped')
<1>1. CASE \E a \in Attacher : Attach(a)
  BY <1>1, TypeAttach
<1>2. CASE \E s \in Session : Cleanup(s)
  BY <1>2, TypeCleanup
<1>3. CASE \E s \in Session : Events(s) \/ Lose(s)
  BY <1>3, TypeEvents
<1>4. CASE Converging
  BY <1>4, TypeConverging
<1>5. CASE Publishing \/ Probing
  BY <1>5, TypePublishing
<1>6. CASE Controller
  BY <1>6, TypeController
<1>7. CASE StopRetrying \/ Leave \/ Return
  BY <1>7, TypeRest
<1>8. CASE UNCHANGED vars
  BY <1>8 DEF vars, browser, registry, caller, history, TypeOK, Named
<1> QED BY <1>1, <1>2, <1>3, <1>4, <1>5, <1>6, <1>7, <1>8 DEF Next

\* The initial state has the types.
LEMMA TypeInit == ASSUME Init PROVE TypeOK /\ Named
<1>0. /\ 0 \in 0..MaxStatus /\ 0 \in 0..MaxFaults /\ 0 \in 0..MaxReloads
      /\ 0 \in 0..MaxToggles
  BY Bounds
<1>1. PageTyped /\ PubTyped
  BY <1>0 DEF Init, PageTyped, PubTyped, NoCall
<1>2. RegistryTyped /\ CallerTyped
  BY DEF Init, RegistryTyped, CallerTyped
<1>3. BoundTyped
  BY <1>0 DEF Init, BoundTyped
<1>4. SlotsTyped /\ SessionTyped
  BY Fresh0 DEF Init, SlotsTyped, SessionTyped, NoConv
<1>5. [Idle EXCEPT !.at = "connect"] \in Attempt /\ Idle \in Attempt
  BY Fresh0 DEF Attempt, Idle
<1>6. AttTyped
  BY <1>5 DEF Init, AttTyped
<1>7. Named
  BY DEF Init, Named, Idle, Calling
<1> QED BY <1>1, <1>2, <1>3, <1>4, <1>6, <1>7, TypeParts

(* Attachments, their links, cleanups and attempts, the page and the controller's    *)
(* calls keep their types; a slot is taken only when nothing names it any more.      *)
THEOREM TypeCorrect == Spec => []TypeOK
<1>1. Init => TypeOK /\ Named
  BY TypeInit
<1>2. TypeOK /\ Named /\ [Next]_vars => TypeOK' /\ Named'
  BY TypeStep
<1> QED BY <1>1, <1>2, PTL DEF Spec

-----------------------------------------------------------------------------
(* Who may do what.                                                         *)

\* Steps of #attachOnce before its catch block.
Attempting == Calling \ {"clean"}

\* One attempt at a time, and none while there is a session.
Turns == /\ att["attach"].at = "idle" \/ att["reattach"].at = "idle"
         /\ session # None => \A a \in Attacher : att[a].at = "idle"

\* An attempt cleans up its own slot, and only when it failed.
Slots == \A a \in Attacher :
    /\ att[a].at \in Attempting => clean[att[a].s].at = "no"
    /\ att[a].at = "clean" => clean[att[a].s].at # "no" /\ clean[att[a].s].by = a

\* What is cleaned up is nobody's session, and who cleans it up is at it.
Cleans == \A s \in Session : clean[s].at # "no" =>
    /\ s # session
    /\ \A a \in Attacher : clean[s].by = a => att[a].at = "clean" /\ att[a].s = s

\* The committed session is the current one.
Commits == committed = {session} \ {None}

\* A connection is in somebody's hands; an open one has its binding.
Owned == \A s \in Session :
    /\ link[s].conn # "closed" =>
         s = session \/ clean[s].at # "no" \/ \E a \in Attacher : att[a].s = s
    /\ link[s].conn = "open" => link[s].binding

Skeleton == Turns /\ Slots /\ Cleans /\ Commits /\ Owned

\* A step that changes none of it.
LEMMA SkeletonKept ==
    ASSUME Skeleton, UNCHANGED <<att, session, clean, committed>>,
           \A s \in Session : /\ link'[s].conn = link[s].conn
                              /\ link'[s].binding = link[s].binding
    PROVE  Skeleton'
  BY DEF Skeleton, Turns, Slots, Cleans, Commits, Owned

\* An attempt goes from one call to the next.
LEMMA SkeletonMoves ==
    ASSUME Skeleton, Named, UNCHANGED <<session, clean, committed>>,
           NEW a \in Attacher, att[a].at \in Attempting, att'[a].at \in Attempting,
           att'[a].s = att[a].s, \A b \in Attacher \ {a} : att'[b] = att[b],
           \A s \in Session : /\ link'[s].conn = link[s].conn
                              /\ link'[s].binding = link[s].binding
    PROVE  Skeleton'
<1>1. att[a].at # "idle" /\ att'[a].at # "idle" /\ att[a].at # "clean" /\ att'[a].at # "clean"
  BY DEF Attempting, Calling
<1>2. \A b \in Attacher : att'[b].s = att[b].s
  OBVIOUS
<1>3. Turns'
  BY <1>1 DEF Skeleton, Turns, Attacher
<1>4. Slots'
  BY <1>1 DEF Skeleton, Slots
<1>5. Cleans'
  BY <1>1, <1>2 DEF Skeleton, Cleans
<1>6. Commits' /\ Owned'
  BY <1>2 DEF Skeleton, Commits, Owned
<1> QED BY <1>3, <1>4, <1>5, <1>6 DEF Skeleton

\* An attempt that has no connection starts, stops or tries again.
LEMMA SkeletonWaits ==
    ASSUME Skeleton, Named, UNCHANGED <<session, clean, committed, link>>,
           NEW a \in Attacher, att[a].at \in {"idle", "connect"},
           att'[a].at \in {"idle", "connect"}, att'[a].s = None,
           \A b \in Attacher \ {a} : att'[b] = att[b],
           att'[a].at = "connect" => session = None /\ \A b \in Attacher \ {a} : att[b].at = "idle"
    PROVE  Skeleton'
<1>1. att[a].s = None
  BY DEF Named, Calling
<1>2. \A b \in Attacher : att'[b].s = att[b].s
  BY <1>1
<1>3. Turns'
  BY DEF Skeleton, Turns, Attacher
<1>4. Slots'
  BY DEF Skeleton, Slots, Attempting, Calling
<1>5. Cleans'
  BY <1>2 DEF Skeleton, Cleans
<1>6. Commits' /\ Owned'
  BY <1>2 DEF Skeleton, Commits, Owned
<1> QED BY <1>3, <1>4, <1>5, <1>6 DEF Skeleton

\* A re-attach that was not started beside a first attach.
LEMMA SkeletonReattach ==
    ASSUME TypeOK, Named, Skeleton, ~overlapped', UNCHANGED <<session, clean, committed, link>>,
           NEW e, StartReattach(e)
    PROVE  Skeleton'
<1>1. CASE att' = att
  BY <1>1, SkeletonKept
<1>2. CASE /\ session = None /\ att["reattach"].at = "idle"
           /\ att'["reattach"].at = "connect" /\ att'["reattach"].s = None
           /\ att["attach"].at = "idle" /\ att'["attach"] = att["attach"]
  <2>1. "reattach" \in Attacher /\ Attacher \ {"reattach"} = {"attach"}
    BY DEF Attacher
  <2> QED BY <1>2, <2>1, SkeletonWaits
<1> QED BY <1>1, <1>2, ReattachStep

\* A lost session is given to a cleanup.
LEMMA SkeletonInvalidate ==
    ASSUME TypeOK, Named, Skeleton, UNCHANGED <<att, link>>, NEW s \in Session, Invalidate(s)
    PROVE  Skeleton'
<1>0. /\ att \in [Attacher -> Attempt] /\ clean \in [Session -> Clean]
      /\ link \in [Session -> Link] /\ session \in Session \cup {None} /\ None \notin Session
  BY TypeParts, Bounds DEF AttTyped, SlotsTyped, SessionTyped
<1>1. CASE session # s
  BY <1>1, SkeletonKept DEF Invalidate
<1>2. CASE session = s
  <2>1. /\ session' = None /\ committed' = committed \ {s}
        /\ clean' = [clean EXCEPT ![s] = [at |-> "dispose", by |-> "lost"]]
    BY <1>2 DEF Invalidate
  <2>2. clean'[s].at = "dispose" /\ clean'[s].by = "lost"
        /\ \A t \in Session \ {s} : clean'[t] = clean[t]
    BY <1>0, <2>1
  <2>3. \A a \in Attacher : att[a].at = "idle" /\ att[a].s = None
    BY <1>0, <1>2 DEF Skeleton, Turns, Named, Calling
  <2>4. Turns' /\ Slots'
    BY <2>1, <2>3 DEF Turns, Slots, Attempting, Calling, Attacher
  <2>5. Cleans'
    BY <1>0, <2>1, <2>2 DEF Skeleton, Cleans, Attacher
  <2>6. Commits'
    BY <1>2, <2>1 DEF Skeleton, Commits
  <2>7. Owned'
    BY <1>2, <2>1, <2>2 DEF Skeleton, Owned
  <2> QED BY <2>4, <2>5, <2>6, <2>7 DEF Skeleton
<1> QED BY <1>1, <1>2

\* #attachOnce: its connection is its own until it is the session's or the cleanup's.
LEMMA SkeletonAttach ==
    ASSUME TypeOK, Named, Skeleton, NEW a \in Attacher, Attach(a)
    PROVE  Skeleton'
<1>0. /\ att \in [Attacher -> Attempt] /\ clean \in [Session -> Clean]
      /\ link \in [Session -> Link] /\ session \in Session \cup {None} /\ None \notin Session
  BY TypeParts, Bounds DEF AttTyped, SlotsTyped, SessionTyped
<1>t. AttTyped
  BY TypeParts
<1>1. CASE Connect(a)
  <2> DEFINE s == CHOOSE s \in Session : Unused(s)
  <2>1. s \in Session /\ Unused(s)
    BY <1>1 DEF Connect
  <2>2. /\ att' = [att EXCEPT ![a] = [Idle EXCEPT !.at = "remove", !.s = s]]
        /\ link' = [link EXCEPT ![s] = [NoLink EXCEPT !.conn = "open", !.binding = TRUE]]
        /\ att[a].at = "connect" /\ UNCHANGED <<session, clean, committed>>
    BY <1>1 DEF Connect
  <2> HIDE DEF s
  <2>3. /\ att'[a].at = "remove" /\ att'[a].s = s
        /\ \A b \in Attacher \ {a} : att'[b] = att[b]
    BY <1>0, <2>2 DEF Idle
  <2>4. /\ link'[s].conn = "open" /\ link'[s].binding = TRUE
        /\ \A x \in Session \ {s} : link'[x] = link[x]
    BY <1>0, <2>1, <2>2 DEF NoLink
  <2>5. /\ clean[s].at = "no" /\ s # session /\ att[a].s = None
        /\ \A b \in Attacher \ {a} : att[b].at = "idle" /\ att[b].s = None
    BY <2>1, <2>2 DEF Unused, Named, Calling, Skeleton, Turns, Attacher
  <2>6. Turns'
    BY <2>2, <2>3 DEF Skeleton, Turns, Attacher
  <2>7. Slots'
    BY <2>2, <2>3, <2>5 DEF Skeleton, Slots, Attempting, Calling
  <2>8. Cleans'
    BY <2>2, <2>3, <2>5 DEF Skeleton, Cleans
  <2>9. Commits'
    BY <2>2 DEF Skeleton, Commits
  <2>10. Owned'
    <3>1. \A x \in Session \ {s} : \A b \in Attacher : att[b].s = x => att'[b].s = x
      BY <1>0, <2>3, <2>5
    <3> QED BY <2>2, <2>3, <2>4, <3>1 DEF Skeleton, Owned
  <2> QED BY <2>6, <2>7, <2>8, <2>9, <2>10 DEF Skeleton
<1>2. CASE ConnectFails(a)
  <2>1. /\ att[a].at = "connect" /\ att'[a].at \in {"idle", "connect"} /\ att'[a].s = att[a].s
        /\ \A b \in Attacher \ {a} : att'[b] = att[b]
    BY <1>0, <1>2 DEF ConnectFails
  <2>2. att'[a].s = None /\ session = None /\ \A b \in Attacher \ {a} : att[b].at = "idle"
    BY <2>1 DEF Named, Calling, Skeleton, Turns, Attacher
  <2> QED BY <1>2, <2>1, <2>2, SkeletonWaits DEF ConnectFails
<1>3. CASE RemoveOld(a)
  <2>1. Step(a, "remove", "add")
    BY <1>3 DEF RemoveOld
  <2>2. /\ att[a].at = "remove" /\ att'[a].at = "add" /\ att'[a].s = att[a].s
        /\ \A b \in Attacher \ {a} : att'[b] = att[b]
    BY <1>t, <2>1, StepTo DEF Calling
  <2> QED BY <1>3, <2>2, SkeletonMoves DEF RemoveOld, Attempting, Calling
<1>4. CASE AddScript(a)
  <2>1. Step(a, "add", "bootstrap")
    BY <1>4 DEF AddScript
  <2>2. /\ att[a].at = "add" /\ att'[a].at = "bootstrap" /\ att'[a].s = att[a].s
        /\ \A b \in Attacher \ {a} : att'[b] = att[b]
    BY <1>t, <2>1, StepTo DEF Calling
  <2>3. \A s \in Session : link'[s].conn = link[s].conn /\ link'[s].binding = link[s].binding
    BY <1>0, <1>4 DEF AddScript
  <2> QED BY <1>4, <2>2, <2>3, SkeletonMoves DEF AddScript, Attempting, Calling
<1>5. CASE Bootstrap(a)
  <2>1. Step(a, "bootstrap", "announce")
    BY <1>5 DEF Bootstrap
  <2>2. /\ att[a].at = "bootstrap" /\ att'[a].at = "announce" /\ att'[a].s = att[a].s
        /\ \A b \in Attacher \ {a} : att'[b] = att[b]
    BY <1>t, <2>1, StepTo DEF Calling
  <2> QED BY <1>5, <2>2, SkeletonMoves DEF Bootstrap, Attempting, Calling
<1>6. CASE Announce(a)
  <2>1. /\ att[a].at = "announce" /\ att'[a].at = "answer" /\ att'[a].s = att[a].s
        /\ \A b \in Attacher \ {a} : att'[b] = att[b]
    BY <1>0, <1>6 DEF Announce
  <2> QED BY <1>6, <2>1, SkeletonMoves DEF Announce, Attempting, Calling
<1>7. CASE Commit(a)
  <2> DEFINE s == att[a].s
  <2>1. /\ att[a].at = "answer" /\ att' = [att EXCEPT ![a] = Idle]
        /\ session' = s /\ committed' = committed \cup {s} /\ UNCHANGED <<link, clean>>
    BY <1>7 DEF Commit
  <2>2. s \in Session /\ clean[s].at = "no"
    BY <2>1 DEF Named, Calling, Skeleton, Slots, Attempting
  <2>3. session = None /\ \A b \in Attacher \ {a} : att[b].at = "idle" /\ att[b].s = None
    BY <2>1 DEF Named, Calling, Skeleton, Turns, Attacher
  <2>4. /\ att'[a].at = "idle" /\ att'[a].s = None
        /\ \A b \in Attacher \ {a} : att'[b] = att[b]
    BY <1>0, <2>1 DEF Idle
  <2>5. Turns' /\ Slots'
    BY <2>3, <2>4 DEF Turns, Slots, Attempting, Calling, Attacher
  <2>6. Cleans'
    BY <2>1, <2>2, <2>3, <2>4 DEF Skeleton, Cleans
  <2>7. Commits'
    BY <1>0, <2>1, <2>2, <2>3 DEF Skeleton, Commits
  <2>8. Owned'
    BY <2>1, <2>3, <2>4 DEF Skeleton, Owned
  <2> QED BY <2>5, <2>6, <2>7, <2>8 DEF Skeleton
<1>8. CASE AttachFails(a)
  <2> DEFINE s == att[a].s
  <2>1. /\ att[a].at \in {"remove", "add", "bootstrap", "answer"}
        /\ att' = [att EXCEPT ![a] = [Idle EXCEPT !.at = "clean", !.s = s]]
        /\ clean' = [clean EXCEPT ![s] = [at |-> "dispose", by |-> a]]
        /\ UNCHANGED <<link, session, committed>>
    BY <1>8 DEF AttachFails
  <2>2. s \in Session
    BY <2>1 DEF Named, Calling
  <2>3. /\ session = None
        /\ \A b \in Attacher \ {a} : att[b].at = "idle" /\ att[b].s = None
    BY <2>1 DEF Named, Calling, Skeleton, Turns, Attacher
  <2>4. /\ att'[a].at = "clean" /\ att'[a].s = s
        /\ \A b \in Attacher \ {a} : att'[b] = att[b]
    BY <1>0, <2>1 DEF Idle
  <2>5. /\ clean'[s].at = "dispose" /\ clean'[s].by = a
        /\ \A x \in Session \ {s} : clean'[x] = clean[x]
    BY <1>0, <2>1, <2>2
  <2> HIDE DEF s
  <2>6. Turns'
    BY <2>1, <2>3, <2>4 DEF Turns, Attacher
  <2>7. Slots'
    BY <2>3, <2>4, <2>5 DEF Slots, Attempting, Calling
  <2>8. Cleans'
    <3>1. \A x \in Session : clean[x].at # "no" => x # s /\ clean[x].by # a
      BY <2>1 DEF s, Skeleton, Slots, Cleans, Attempting, Calling
    <3> QED BY <1>0, <2>1, <2>2, <2>3, <2>4, <2>5, <3>1 DEF Skeleton, Cleans
  <2>9. Commits' /\ Owned'
    <3>1. s = att[a].s
      BY DEF s
    <3> QED BY <2>1, <2>3, <2>4, <2>5, <3>1 DEF Skeleton, Commits, Owned
  <2> QED BY <2>6, <2>7, <2>8, <2>9 DEF Skeleton
<1> QED BY <1>1, <1>2, <1>3, <1>4, <1>5, <1>6, <1>7, <1>8 DEF Attach

\* A cleanup keeps its connection to the end, and then lets an attempt go on.
LEMMA SkeletonCleanup ==
    ASSUME TypeOK, Named, Skeleton, ~overlapped', NEW s \in Session, Cleanup(s)
    PROVE  Skeleton'
<1>0. /\ att \in [Attacher -> Attempt] /\ clean \in [Session -> Clean]
      /\ link \in [Session -> Link] /\ session \in Session \cup {None} /\ None \notin Session
  BY TypeParts, Bounds DEF AttTyped, SlotsTyped, SessionTyped
<1>t. AttTyped
  BY TypeParts
<1>1. CASE Dispose(s) \/ RemoveScript(s)
  <2>1. /\ clean[s].at # "no" /\ UNCHANGED <<att, session, committed, link>>
        /\ \E to \in {"script", "binding"} : clean' = [clean EXCEPT ![s].at = to]
    BY <1>1 DEF Dispose, RemoveScript, Next1
  <2>2. clean'[s].at # "no" /\ \A x \in Session : clean'[x].by = clean[x].by
        /\ (x # s => clean'[x] = clean[x])
    BY <1>0, <2>1
  <2>3. \A x \in Session : clean'[x].at # "no" <=> clean[x].at # "no"
    BY <2>1, <2>2
  <2>4. Turns' /\ Commits' /\ Cleans' /\ Owned'
    BY <2>1, <2>2, <2>3 DEF Skeleton, Turns, Commits, Cleans, Owned
  <2>5. Slots'
    BY <2>1, <2>2, <2>3 DEF Named, Skeleton, Slots, Attempting, Calling
  <2> QED BY <2>4, <2>5 DEF Skeleton
<1>2. CASE RemoveBinding(s)
  <2>1. /\ clean[s].at = "binding" /\ UNCHANGED <<session, committed>>
        /\ link' = [link EXCEPT ![s] = [NoLink EXCEPT !.script = link[s].script /\ s \in scripts]]
        /\ clean' = [clean EXCEPT ![s] = NotCleaning]
        /\ CleanedFor(clean[s].by)
    BY <1>2 DEF RemoveBinding
  <2>2. clean'[s].at = "no" /\ \A x \in Session \ {s} : clean'[x] = clean[x]
    BY <1>0, <2>1 DEF NotCleaning
  <2>3. link'[s].conn = "closed" /\ \A x \in Session \ {s} : link'[x] = link[x]
    BY <1>0, <2>1 DEF NoLink
  <2>4. Commits'
    BY <2>1 DEF Skeleton, Commits
  <2>5. CASE \E a \in Attacher, r \in {Idle, [Idle EXCEPT !.at = "connect"]} :
               clean[s].by = a /\ att' = [att EXCEPT ![a] = r]
    <3>1. PICK a \in Attacher, r \in {Idle, [Idle EXCEPT !.at = "connect"]} :
             clean[s].by = a /\ att' = [att EXCEPT ![a] = r]
      BY <2>5
    <3>2. att[a].at = "clean" /\ att[a].s = s
      BY <2>1, <3>1 DEF Skeleton, Cleans
    <3>3. /\ att'[a].at \in {"idle", "connect"} /\ att'[a].s = None
          /\ \A b \in Attacher \ {a} : att'[b] = att[b]
      BY <1>0, <3>1 DEF Idle
    <3>4. session = None /\ \A b \in Attacher \ {a} : att[b].at = "idle" /\ att[b].s = None
      BY <3>2 DEF Named, Calling, Skeleton, Turns, Attacher
    <3>5. Turns'
      BY <2>1, <3>3, <3>4 DEF Turns, Attacher
    <3>6. Slots'
      BY <3>3, <3>4 DEF Slots, Attempting, Calling
    <3>7. Cleans'
      BY <1>0, <2>1, <2>2, <3>2, <3>3, <3>4 DEF Skeleton, Cleans
    <3>8. Owned'
      BY <1>0, <2>1, <2>2, <2>3, <3>2, <3>3, <3>4 DEF Skeleton, Owned
    <3> QED BY <2>4, <3>5, <3>6, <3>7, <3>8 DEF Skeleton
  <2>6. CASE clean[s].by \notin Attacher
    <3>1. \A a \in Attacher : att[a].s # s
      BY <1>0, <2>1, <2>6, Bounds DEF Named, Skeleton, Slots, Attempting, Calling
    <3>0. session' = session
      BY <2>1
    <3>2. s # session
      BY <2>1 DEF Skeleton, Cleans
    <3>3. /\ \A a \in Attacher : att'[a].s = att[a].s
          /\ \A a \in Attacher :
                att'[a] = att[a] \/ (att[a].at = "idle" /\ att'[a].at = "connect")
          /\ Turns'
      <4>1. CASE clean[s].by = "close"
        <5>1. UNCHANGED att
          BY <2>1, <4>1 DEF CleanedFor
        <5>2. Turns'
          BY <3>0, <5>1 DEF Skeleton, Turns
        <5> QED BY <5>1, <5>2
      <4>2. CASE clean[s].by = "lost"
        <5>1. StartReattach(closingExpected)
          BY <2>1, <4>2 DEF CleanedFor
        <5>2. CASE att' = att
          <6>1. Turns'
            BY <3>0, <5>2 DEF Skeleton, Turns
          <6> QED BY <5>2, <6>1
        <5>3. CASE /\ session = None /\ att["reattach"].at = "idle"
                   /\ att'["reattach"].at = "connect" /\ att'["reattach"].s = None
                   /\ att["attach"].at = "idle" /\ att'["attach"] = att["attach"]
          <6>1. Turns'
            BY <2>1, <5>3 DEF Turns, Attacher
          <6>2. att["reattach"].s = None
            BY <5>3 DEF Named, Attacher, Calling
          <6>3. \A a \in Attacher : a = "attach" \/ a = "reattach"
            BY DEF Attacher
          <6> QED BY <5>3, <6>1, <6>2, <6>3
        <5> QED BY <5>1, <5>2, <5>3, ReattachStep
      <4> QED BY <1>0, <2>6, <4>1, <4>2 DEF Clean
    <3>4. Slots'
      BY <2>2, <3>1, <3>3 DEF Skeleton, Slots, Named, Attempting, Calling
    <3>5. Cleans'
      BY <2>1, <2>2, <3>1, <3>3 DEF Skeleton, Cleans
    <3>6. Owned'
      BY <2>1, <2>2, <2>3, <3>3 DEF Skeleton, Owned
    <3> QED BY <2>4, <3>3, <3>4, <3>5, <3>6 DEF Skeleton
  <2>7. CASE clean[s].by \in Attacher
    BY <2>1, <2>5, <2>7 DEF CleanedFor, Attacher
  <2> QED BY <2>6, <2>7
<1> QED BY <1>1, <1>2 DEF Cleanup

\* All other steps.
LEMMA SkeletonRest ==
    ASSUME TypeOK, Named, Skeleton, ~overlapped', [Next]_vars,
           \A a \in Attacher : ~Attach(a), \A s \in Session : ~Cleanup(s)
    PROVE  Skeleton'
<1>0. /\ att \in [Attacher -> Attempt] /\ clean \in [Session -> Clean]
      /\ link \in [Session -> Link] /\ session \in Session \cup {None} /\ None \notin Session
  BY TypeParts, Bounds DEF AttTyped, SlotsTyped, SessionTyped
<1>1. CASE UNCHANGED <<att, session, clean, committed, link>>
  BY <1>1, SkeletonKept
<1>2. CASE \E e \in BOOLEAN : StartReattach(e) /\ UNCHANGED <<session, clean, committed, link>>
  BY <1>2, SkeletonReattach
<1>3. CASE \E s \in Session : Invalidate(s) /\ UNCHANGED <<att, link>>
  BY <1>3, SkeletonInvalidate
<1>4. CASE \E s \in Session : Lose(s)
  <2>1. PICK s \in Session : Lose(s)
    BY <1>4
  <2>2. /\ link' = [link EXCEPT ![s].conn = "lost", ![s].binding = FALSE] /\ link[s].conn = "open"
        /\ UNCHANGED <<att, session, clean, committed>>
    BY <2>1 DEF Lose, Open
  <2>3. link'[s].conn = "lost" /\ \A x \in Session \ {s} : link'[x] = link[x]
    BY <1>0, <2>2
  <2>4. Owned'
    BY <2>2, <2>3 DEF Skeleton, Owned
  <2> QED BY <2>2, <2>4 DEF Skeleton, Turns, Slots, Cleans, Commits
<1>5. CASE CloseSession
  <2>1. /\ \A a \in Attacher : att[a].at = "idle" /\ att[a].s = None
        /\ session' = None /\ UNCHANGED <<att, link>>
    BY <1>5 DEF CloseSession, Named, Calling
  <2>2. Turns' /\ Slots'
    BY <2>1 DEF Turns, Slots, Attempting, Calling, Attacher
  <2>3. CASE session = None
    BY <1>5, <2>1, <2>2, <2>3, SkeletonKept DEF CloseSession
  <2>4. CASE session # None
    <3>1. /\ committed' = committed \ {session} /\ session \in Session
          /\ clean' = [clean EXCEPT ![session] = [at |-> "dispose", by |-> "close"]]
      BY <1>0, <1>5, <2>4 DEF CloseSession
    <3>2. /\ clean'[session].at = "dispose" /\ clean'[session].by = "close"
          /\ \A x \in Session \ {session} : clean'[x] = clean[x]
      BY <1>0, <3>1
    <3>3. Cleans'
      BY <1>0, <2>1, <3>2 DEF Skeleton, Cleans, Attacher
    <3>4. Commits' /\ Owned'
      BY <2>1, <3>1, <3>2 DEF Skeleton, Commits, Owned
    <3> QED BY <2>2, <3>3, <3>4 DEF Skeleton
  <2> QED BY <2>3, <2>4
<1>6. CASE Restore
  <2>1. CASE att' = att
    BY <1>6, <2>1, SkeletonKept DEF Restore
  <2>2. CASE /\ session = None /\ \A a \in Attacher : att[a].at = "idle"
             /\ att' = [att EXCEPT !["attach"].at = "connect"]
    <3>1. /\ "attach" \in Attacher /\ att["attach"].s = None
          /\ att'["attach"].at = "connect" /\ att'["attach"].s = None
          /\ \A b \in Attacher \ {"attach"} : att'[b] = att[b]
      BY <1>0, <2>2 DEF Attacher, Named, Calling
    <3> QED BY <1>6, <2>2, <3>1, SkeletonWaits DEF Restore
  <2> QED BY <1>6, <2>1, <2>2 DEF Restore
<1>7. CASE StopRetrying
  <2>1. /\ "reattach" \in Attacher /\ att["reattach"].at = "connect"
        /\ att'["reattach"].at = "idle" /\ att'["reattach"].s = None
        /\ \A b \in Attacher \ {"reattach"} : att'[b] = att[b]
    BY <1>0, <1>7 DEF StopRetrying, Attacher, Idle
  <2> QED BY <1>7, <2>1, SkeletonWaits DEF StopRetrying
<1>8. CASE PublishAnswered
  <2>1. CASE UNCHANGED <<session, clean, committed>>
    BY <1>1, <1>8, <2>1 DEF PublishAnswered
  <2>2. CASE Invalidate(pub.s)
    <3>1. CASE pub.s \in Session
      BY <1>3, <1>8, <2>2, <3>1 DEF PublishAnswered
    <3>2. CASE pub.s = None /\ session = None
      <4>1. /\ session' = session /\ committed' = committed \ {None}
            /\ clean' = [clean EXCEPT ![None] = [at |-> "dispose", by |-> "lost"]]
        BY <2>2, <3>2 DEF Invalidate
      <4>2. clean' = clean
        BY <1>0, <4>1
      <4>3. committed' = committed
        BY <4>1 DEF Skeleton, Commits
      <4> QED BY <1>1, <1>8, <4>1, <4>2, <4>3 DEF PublishAnswered
    <3>3. CASE pub.s = None /\ session # None
      BY <1>1, <1>8, <2>2, <3>3 DEF PublishAnswered, Invalidate
    <3>4. pub.s \in Session \cup {None}
      BY TypeParts DEF PubTyped
    <3> QED BY <3>1, <3>2, <3>3, <3>4
  <2> QED BY <1>8, <2>1, <2>2 DEF PublishAnswered
<1>9. CASE ProbeFailed
  <2>1. probe \in Session
    BY <1>9, TypeParts DEF ProbeFailed, PubTyped
  <2> QED BY <1>3, <1>9, <2>1 DEF ProbeFailed
<1>10. CASE \E s \in Session : Events(s)
  BY <1>1, <1>3, <1>10 DEF Events, SocketClosed, ContextCreated
<1>11. CASE Converging \/ PublishSent \/ PublishGivesUp \/ ExpectClose \/ Close \/ Leave \/ Return
  BY <1>1, <1>11 DEF Converging, Converge, ConvergeAnswered, ConvergeDeadline, PublishSent,
     PublishGivesUp, ExpectClose, Close, Leave, Return
<1>12. CASE Publish \/ QueryActivity \/ ProbeHealth \/ ExpectNoClose
  <2>1. closingExpected \in BOOLEAN
    BY TypeParts DEF CallerTyped
  <2> QED BY <1>1, <1>2, <1>12, <2>1
      DEF Publish, QueryActivity, ProbeHealth, ExpectNoClose, Require
<1>13. CASE UNCHANGED vars
  BY <1>1, <1>13 DEF vars
<1> QED BY <1>4, <1>5, <1>6, <1>7, <1>8, <1>9, <1>10, <1>11, <1>12, <1>13
    DEF Next, Publishing, Probing, Controller

\* Every step, as long as no overlap is noticed.
LEMMA SkeletonStep ==
    ASSUME TypeOK, Named, Skeleton, ~overlapped', [Next]_vars
    PROVE  Skeleton'
  BY SkeletonAttach, SkeletonCleanup, SkeletonRest

-----------------------------------------------------------------------------
(* What the steps of neither an attempt nor a cleanup do: they leave the    *)
(* scripts alone, open no connection and take no attempt past its start.    *)

Elsewhere ==
    /\ UNCHANGED <<scripts, earlier, persistent>>
    /\ \A a \in Attacher :
          \/ att'[a] = att[a]
          \/ att[a].at \in {"idle", "connect"} /\ att'[a].at \in {"idle", "connect"}
    /\ session' \in {session, None}
    /\ \A s \in Session :
          /\ link'[s].script = link[s].script
          /\ link'[s].baked = link[s].baked
          /\ link'[s].conn = "open" => link[s].conn = "open"
    /\ \A a \in Attacher : att'[a].s = att[a].s

\* Starting a re-attach is such a step.
LEMMA ReattachElsewhere ==
    ASSUME TypeOK, Named, UNCHANGED <<scripts, earlier, persistent, session, link>>,
           NEW e, StartReattach(e)
    PROVE  Elsewhere
<1>1. CASE att' = att
  BY <1>1 DEF Elsewhere
<1>2. CASE /\ att["reattach"].at = "idle" /\ att'["reattach"].at = "connect"
           /\ att'["reattach"].s = None /\ att'["attach"] = att["attach"]
  <2>1. \A a \in Attacher : a = "attach" \/ a = "reattach"
    BY DEF Attacher
  <2>2. att["reattach"].s = None
    BY <1>2 DEF Named, Attacher, Calling
  <2> QED BY <1>2, <2>1, <2>2 DEF Elsewhere
<1> QED BY <1>1, <1>2, ReattachStep

\* So are all the others.
LEMMA ElsewhereStep ==
    ASSUME TypeOK, Named, [Next]_vars,
           \A a \in Attacher : ~Attach(a), \A s \in Session : ~Cleanup(s)
    PROVE  Elsewhere
<1>0. /\ att \in [Attacher -> Attempt] /\ clean \in [Session -> Clean]
      /\ link \in [Session -> Link] /\ session \in Session \cup {None} /\ None \notin Session
  BY TypeParts, Bounds DEF AttTyped, SlotsTyped, SessionTyped
<1>1. CASE UNCHANGED <<att, link, scripts, earlier, persistent>> /\ session' \in {session, None}
  BY <1>1 DEF Elsewhere
<1>2. CASE /\ \E e \in BOOLEAN : StartReattach(e)
           /\ UNCHANGED <<scripts, earlier, persistent, session, link>>
  BY <1>2, ReattachElsewhere
<1>3. CASE \E s \in Session : Lose(s)
  <2>1. PICK s \in Session : Lose(s)
    BY <1>3
  <2>2. link' = [link EXCEPT ![s].conn = "lost", ![s].binding = FALSE]
    BY <2>1 DEF Lose
  <2>3. \A x \in Session : /\ link'[x].script = link[x].script /\ link'[x].baked = link[x].baked
                           /\ link'[x].conn = "open" => link[x].conn = "open"
    BY <1>0, <2>2
  <2> QED BY <2>1, <2>3 DEF Lose, Elsewhere, registry
<1>4. CASE Restore
  <2>1. CASE att' = att
    BY <1>1, <1>4, <2>1 DEF Restore, browser, registry
  <2>2. CASE /\ att["attach"].at = "idle" /\ att' = [att EXCEPT !["attach"].at = "connect"]
    <3>1. /\ \A a \in Attacher : a = "attach" \/ a = "reattach"
          /\ att'["attach"].at = "connect" /\ att'["reattach"] = att["reattach"]
          /\ att'["attach"].s = att["attach"].s
      BY <1>0, <2>2 DEF Attacher
    <3> QED BY <1>4, <2>2, <3>1 DEF Restore, browser, registry, Elsewhere
  <2> QED BY <1>4, <2>1, <2>2 DEF Restore, Attacher
<1>5. CASE StopRetrying
  <2>1. /\ "reattach" \in Attacher /\ att["reattach"].at = "connect"
        /\ att'["reattach"].at = "idle" /\ att'["reattach"].s = None
        /\ \A b \in Attacher \ {"reattach"} : att'[b] = att[b]
    BY <1>0, <1>5 DEF StopRetrying, Attacher, Idle
  <2>2. att["reattach"].s = None
    BY <2>1 DEF Named, Calling
  <2> QED BY <1>5, <2>1, <2>2 DEF StopRetrying, browser, registry, Elsewhere
<1>6. CASE PublishAnswered \/ ProbeFailed \/ CloseSession \/ \E s \in Session : Events(s)
  BY <1>1, <1>6
    DEF PublishAnswered, ProbeFailed, CloseSession, Events, SocketClosed, ContextCreated,
     Invalidate, browser, registry
<1>7. CASE Converging \/ PublishSent \/ PublishGivesUp \/ ExpectClose \/ Close \/ Leave \/ Return
  BY <1>1, <1>7 DEF Converging, Converge, ConvergeAnswered, ConvergeDeadline, PublishSent,
     PublishGivesUp, ExpectClose, Close, Leave, Return, browser, registry
<1>8. CASE Publish \/ QueryActivity \/ ProbeHealth \/ ExpectNoClose
  <2>1. closingExpected \in BOOLEAN
    BY TypeParts DEF CallerTyped
  <2> QED BY <1>1, <1>2, <1>8, <2>1
      DEF Publish, QueryActivity, ProbeHealth, ExpectNoClose, Require,
            browser, registry
<1>9. CASE UNCHANGED vars
  BY <1>1, <1>9 DEF vars, browser, registry
<1> QED BY <1>3, <1>4, <1>5, <1>6, <1>7, <1>8, <1>9 DEF Next, Publishing, Probing, Controller

\* Who goes on after a cleanup has no connection yet.
LEMMA CleanedAtt ==
    ASSUME TypeOK, Named, NEW s \in Session, RemoveBinding(s)
    PROVE  \A a \in Attacher : att'[a] = att[a] \/ att'[a].at \in {"idle", "connect"}
<1>0. att \in [Attacher -> Attempt] /\ clean[s] \in Clean
  BY TypeParts DEF AttTyped, SlotsTyped
<1>1. CleanedFor(clean[s].by)
  BY DEF RemoveBinding
<1>2. CASE clean[s].by = "attach"
  BY <1>0, <1>1, <1>2 DEF CleanedFor, Idle
<1>3. CASE clean[s].by = "reattach"
  BY <1>0, <1>1, <1>3 DEF CleanedFor, Idle
<1>4. CASE clean[s].by = "close"
  BY <1>1, <1>4 DEF CleanedFor
<1>5. CASE clean[s].by = "lost"
  <2>1. StartReattach(closingExpected)
    BY <1>1, <1>5 DEF CleanedFor
  <2>2. \A a \in Attacher : att'[a] = att[a] \/ att'[a].at = "connect"
    BY <2>1, ReattachStep DEF Attacher
  <2> QED BY <2>2
<1> QED BY <1>0, <1>2, <1>3, <1>4, <1>5 DEF Clean, Attacher

-----------------------------------------------------------------------------
(* Scripts whose removal is not confirmed.                                  *)

\* The only script that an attachment knows to have added and nobody removed is
\* persistentIdentifier's, and it is gone before the next one is added.
Remembered ==
    /\ \A s \in scripts : link[s].script => s = persistent
    /\ \A a \in Attacher :
          /\ att[a].at = "add" => persistent = None
          /\ att[a].at \in {"remove", "add"} => ~link[att[a].s].script /\ att[a].s \notin scripts

\* Every step keeps it.
LEMMA RememberedStep ==
    ASSUME TypeOK, Named, Skeleton, Remembered, [Next]_vars
    PROVE  Remembered'
<1>0. /\ att \in [Attacher -> Attempt] /\ clean \in [Session -> Clean]
      /\ link \in [Session -> Link] /\ session \in Session \cup {None} /\ None \notin Session
  BY TypeParts, Bounds DEF AttTyped, SlotsTyped, SessionTyped
<1>t. scripts \subseteq Session /\ persistent \in Session \cup {None} /\ AttTyped
  BY TypeParts DEF RegistryTyped
<1>1. CASE \E a \in Attacher : Attach(a)
  <2>0. PICK a \in Attacher : Attach(a)
    BY <1>1
  <2>a. att[a].at \in Calling => /\ att[a].s \in Session
                                /\ \A b \in Attacher \ {a} : att[b].at = "idle"
    BY DEF Named, Calling, Skeleton, Turns, Attacher
  <2>b. att[a].at = "connect" => \A b \in Attacher \ {a} : att[b].at = "idle"
    BY DEF Skeleton, Turns, Attacher
  <2>1. CASE Connect(a)
    <3> DEFINE s == CHOOSE s \in Session : Unused(s)
    <3>1. s \in Session /\ s \notin scripts
      BY <2>1 DEF Connect, Unused
    <3>2. /\ att' = [att EXCEPT ![a] = [Idle EXCEPT !.at = "remove", !.s = s]]
          /\ link' = [link EXCEPT ![s] = [NoLink EXCEPT !.conn = "open", !.binding = TRUE]]
          /\ att[a].at = "connect" /\ UNCHANGED <<scripts, persistent>>
      BY <2>1 DEF Connect, registry
    <3> HIDE DEF s
    <3>3. /\ att'[a].at = "remove" /\ att'[a].s = s
          /\ \A b \in Attacher \ {a} : att'[b] = att[b]
      BY <1>0, <3>2 DEF Idle
    <3>4. link'[s].script = FALSE /\ \A x \in Session \ {s} : link'[x] = link[x]
      BY <1>0, <3>1, <3>2 DEF NoLink
    <3> QED BY <1>t, <2>b, <3>1, <3>2, <3>3, <3>4 DEF Remembered
  <2>2. CASE RemoveOld(a)
    <3>1. Step(a, "remove", "add") /\ Removed(persistent) /\ persistent' = None /\ UNCHANGED link
      BY <2>2 DEF RemoveOld
    <3>2. /\ att[a].at = "remove" /\ att'[a].at = "add" /\ att'[a].s = att[a].s
          /\ \A b \in Attacher \ {a} : att'[b] = att[b]
      BY <1>t, <3>1, StepTo DEF Calling
    <3>3. scripts' = scripts \ {persistent}
      BY <3>1 DEF Removed
    <3>4. \A b \in Attacher \ {a} : att'[b].at = "idle"
      BY <2>a, <3>2 DEF Calling
    <3> QED BY <3>1, <3>2, <3>3, <3>4 DEF Remembered
  <2>3. CASE AddScript(a)
    <3>1. /\ Step(a, "add", "bootstrap") /\ Added(att[a].s) /\ persistent' = att[a].s
          /\ link' = [link EXCEPT ![att[a].s].script = TRUE, ![att[a].s].baked = status]
      BY <2>3 DEF AddScript
    <3>2. /\ att[a].at = "add" /\ att'[a].at = "bootstrap" /\ att'[a].s = att[a].s
          /\ \A b \in Attacher \ {a} : att'[b] = att[b]
      BY <1>t, <3>1, StepTo DEF Calling
    <3>3. scripts' = scripts \cup {att[a].s} /\ \A x \in Session \ {att[a].s} : link'[x] = link[x]
      BY <1>0, <3>1 DEF Added
    <3>4. \A b \in Attacher \ {a} : att'[b].at = "idle"
      BY <2>a, <3>2 DEF Calling
    <3>5. \A x \in scripts : ~link[x].script
      BY <1>t, <3>2, Bounds DEF Remembered
    <3> QED BY <1>t, <3>1, <3>2, <3>3, <3>4, <3>5 DEF Remembered
  <2>4. CASE AttachFails(a)
    <3>1. /\ att' = [att EXCEPT ![a] = [Idle EXCEPT !.at = "clean", !.s = att[a].s]]
          /\ att[a].at \in Calling /\ UNCHANGED <<persistent, link>>
          /\ scripts' = scripts \/ (scripts' = scripts \cup {att[a].s} /\ att[a].at = "add")
      BY <2>4 DEF AttachFails, Added, registry, Calling
    <3>2. att'[a].at = "clean" /\ \A b \in Attacher \ {a} : att'[b] = att[b]
      BY <1>0, <3>1 DEF Idle
    <3>3. \A b \in Attacher \ {a} : att'[b].at = "idle"
      BY <2>a, <3>1, <3>2
    <3> QED BY <3>1, <3>2, <3>3 DEF Remembered
  <2>5. CASE ConnectFails(a) \/ Bootstrap(a) \/ Announce(a) \/ Commit(a)
    <3>1. /\ att'[a].at \notin {"remove", "add"} /\ \A b \in Attacher \ {a} : att'[b] = att[b]
          /\ UNCHANGED <<scripts, persistent, link>>
      <4>1. CASE ConnectFails(a)
        BY <1>0, <4>1 DEF ConnectFails, browser, registry
      <4>2. CASE Bootstrap(a)
        BY <1>0, <4>2 DEF Bootstrap, Step, registry
      <4>3. CASE Announce(a)
        BY <1>0, <4>3 DEF Announce, registry
      <4>4. CASE Commit(a)
        BY <1>0, <4>4 DEF Commit, Idle, browser, registry
      <4> QED BY <2>5, <4>1, <4>2, <4>3, <4>4
    <3> QED BY <3>1 DEF Remembered
  <2> QED BY <2>0, <2>1, <2>2, <2>3, <2>4, <2>5 DEF Attach
<1>2. CASE \E s \in Session : Cleanup(s)
  <2>0. PICK s \in Session : Cleanup(s)
    BY <1>2
  <2>1. CASE Dispose(s)
    BY <2>1 DEF Dispose, registry, Remembered
  <2>2. CASE RemoveScript(s)
    <3>1. CASE UNCHANGED <<registry, persistent>>
      BY <2>2, <3>1 DEF RemoveScript, registry, Remembered
    <3>2. CASE Removed(s) /\ persistent' = IF persistent = s THEN None ELSE persistent
      BY <2>2, <3>2 DEF RemoveScript, Removed, Remembered
    <3> QED BY <2>2, <3>1, <3>2 DEF RemoveScript
  <2>3. CASE RemoveBinding(s)
    <3>1. /\ link' = [link EXCEPT ![s] = [NoLink EXCEPT !.script = link[s].script /\ s \in scripts]]
          /\ UNCHANGED <<scripts, persistent>> /\ CleanedFor(clean[s].by)
      BY <2>3 DEF RemoveBinding, registry
    <3>2. \A x \in Session : link'[x].script => link[x].script
      BY <1>0, <3>1 DEF NoLink
    <3>3. \A a \in Attacher : att'[a].at \in {"remove", "add"} => att'[a] = att[a]
      BY <2>3, CleanedAtt
    <3>4. \A a \in Attacher : att'[a].at \in {"remove", "add"} => att'[a].s \in Session
      BY <3>3 DEF Named, Calling
    <3> QED BY <1>t, <3>1, <3>2, <3>3, <3>4 DEF Remembered
  <2> QED BY <2>0, <2>1, <2>2, <2>3 DEF Cleanup
<1>3. CASE (\A a \in Attacher : ~Attach(a)) /\ (\A s \in Session : ~Cleanup(s))
  <2>1. Elsewhere
    BY <1>3, ElsewhereStep
  <2>2. \A a \in Attacher : att'[a].at \in {"remove", "add"} => att'[a] = att[a]
    BY <2>1 DEF Elsewhere
  <2>3. \A a \in Attacher : att[a].at \in {"remove", "add"} => att[a].s \in Session
    BY DEF Named, Calling
  <2>4. /\ UNCHANGED <<scripts, persistent>>
        /\ \A s \in Session : link'[s].script = link[s].script
    BY <2>1 DEF Elsewhere
  <2>5. \A s \in scripts' : link'[s].script => s = persistent'
    BY <1>t, <2>4 DEF Remembered
  <2>6. \A a \in Attacher : att'[a].at \in {"remove", "add"} =>
           att[a].at = att'[a].at /\ ~link'[att'[a].s].script /\ att'[a].s \notin scripts'
    BY <2>2, <2>3, <2>4 DEF Remembered
  <2> QED BY <2>4, <2>5, <2>6 DEF Remembered
<1> QED BY <1>1, <1>2, <1>3

-----------------------------------------------------------------------------
(* The order of the scripts in a new document.                              *)

\* The attachment whose script is the newest.
Present(s) == \/ s = session
              \/ \E a \in Attacher : /\ att[a].s = s
                                     /\ att[a].at \in {"bootstrap", "announce", "answer"}

\* Its script is in the document, and runs after all others.
RunsLast == \A s \in Session : Present(s) =>
    /\ s \in scripts /\ scripts \ {s} \subseteq earlier[s]
    /\ \A t \in scripts : s \notin earlier[t]

\* Only scripts that are still there run before another.
Ordered == RunsLast /\ \A t \in Session : earlier[t] \subseteq scripts

\* A step that neither changes the scripts nor makes an attachment present.
LEMMA OrderedKept ==
    ASSUME Ordered, UNCHANGED <<scripts, earlier>>, \A s \in Session : Present(s)' => Present(s)
    PROVE  Ordered'
  BY DEF Ordered, RunsLast

\* An attempt: a script is added last, and only when no attachment is present.
LEMMA OrderedAttach ==
    ASSUME TypeOK, Named, Skeleton, Remembered, Ordered, NEW a \in Attacher, Attach(a)
    PROVE  Ordered'
<1>0. /\ att \in [Attacher -> Attempt] /\ scripts \subseteq Session /\ None \notin Session
      /\ earlier \in [Session -> SUBSET Session]
  BY TypeParts, Bounds DEF AttTyped, RegistryTyped
<1>a. att[a].at \notin {"idle"} => /\ session = None
                                  /\ \A b \in Attacher \ {a} : att[b].at = "idle"
  BY DEF Skeleton, Turns, Attacher
<1>1. CASE Connect(a) \/ ConnectFails(a)
  <2>1. /\ \A b \in Attacher \ {a} : att'[b] = att[b]
        /\ att'[a].at \in {"idle", "connect", "remove"} /\ UNCHANGED <<scripts, earlier, session>>
    <3>1. CASE Connect(a)
      BY <1>0, <3>1 DEF Connect, Idle, registry
    <3>2. CASE ConnectFails(a)
      BY <1>0, <3>2 DEF ConnectFails, browser, registry
    <3> QED BY <1>1, <3>1, <3>2
  <2> QED BY <2>1, OrderedKept DEF Present
<1>2. CASE RemoveOld(a)
  <2>1. /\ att[a].at = "remove" /\ att'[a].at = "add" /\ session' = session
        /\ \A b \in Attacher \ {a} : att'[b] = att[b]
    BY <1>0, <1>2 DEF RemoveOld, Step
  <2>2. \A s \in Session : ~Present(s)'
    BY <1>0, <1>a, <2>1 DEF Present
  <2>3. Removed(persistent)
    BY <1>2 DEF RemoveOld
  <2>4. \A t \in Session : earlier'[t] \subseteq scripts'
    BY <1>0, <2>3 DEF Removed, Ordered
  <2> QED BY <2>2, <2>4 DEF Ordered, RunsLast
<1>3. CASE AddScript(a)
  <2> DEFINE s == att[a].s
  <2>1. /\ att[a].at = "add" /\ att'[a].at = "bootstrap" /\ att'[a].s = s /\ session' = session
        /\ \A b \in Attacher \ {a} : att'[b] = att[b]
    BY <1>0, <1>3 DEF AddScript, Step
  <2>2. s \in Session /\ s \notin scripts
    BY <2>1 DEF Named, Calling, Remembered
  <2>3. scripts' = scripts \cup {s} /\ earlier' = [earlier EXCEPT ![s] = scripts]
    BY <1>3 DEF AddScript, Added
  <2>4. \A x \in Session : Present(x)' => x = s
    BY <1>0, <1>a, <2>1 DEF Present
  <2> HIDE DEF s
  <2>5. earlier'[s] = scripts /\ \A t \in Session \ {s} : earlier'[t] = earlier[t]
    BY <1>0, <2>2, <2>3
  <2>6. \A t \in Session : earlier'[t] \subseteq scripts /\ earlier'[t] \subseteq scripts'
    BY <2>3, <2>5 DEF Ordered
  <2>7. RunsLast'
    BY <1>0, <2>2, <2>3, <2>4, <2>5, <2>6 DEF RunsLast
  <2> QED BY <2>6, <2>7 DEF Ordered
<1>4. CASE AttachFails(a)
  <2>1. /\ att[a].at # "idle" /\ att'[a].at = "clean" /\ session' = session
        /\ \A b \in Attacher \ {a} : att'[b] = att[b]
    BY <1>0, <1>4 DEF AttachFails, Idle
  <2>2. \A s \in Session : ~Present(s)'
    BY <1>0, <1>a, <2>1 DEF Present
  <2>3. UNCHANGED registry \/ (Added(att[a].s) /\ att[a].at = "add")
    BY <1>4 DEF AttachFails
  <2>4. \A t \in Session : earlier'[t] \subseteq scripts'
    <3>1. CASE UNCHANGED registry
      BY <3>1 DEF registry, Ordered
    <3>2. CASE Added(att[a].s) /\ att[a].at = "add"
      <4>1. att[a].s \in Session
        BY <3>2 DEF Named, Calling
      <4> QED BY <1>0, <3>2, <4>1 DEF Added, Ordered
    <3> QED BY <2>3, <3>1, <3>2
  <2> QED BY <2>2, <2>4 DEF Ordered, RunsLast
<1>5. CASE Bootstrap(a) \/ Announce(a)
  <2>1. /\ \A b \in Attacher \ {a} : att'[b] = att[b]
        /\ att[a].at \in {"bootstrap", "announce"} /\ att'[a].s = att[a].s
        /\ UNCHANGED <<scripts, earlier, session>>
    <3>1. CASE Bootstrap(a)
      BY <1>0, <3>1 DEF Bootstrap, Step, registry
    <3>2. CASE Announce(a)
      BY <1>0, <3>2 DEF Announce, registry
    <3> QED BY <1>5, <3>1, <3>2
  <2> QED BY <2>1, OrderedKept DEF Present
<1>6. CASE Commit(a)
  <2>1. /\ att[a].at = "answer" /\ att'[a].at = "idle" /\ session' = att[a].s
        /\ \A b \in Attacher \ {a} : att'[b] = att[b]
        /\ UNCHANGED <<scripts, earlier>>
    BY <1>0, <1>6 DEF Commit, Idle, browser, registry
  <2> QED BY <2>1, OrderedKept DEF Present
<1> QED BY <1>1, <1>2, <1>3, <1>4, <1>5, <1>6 DEF Attach

\* A cleanup removes the script of an attachment that is not present.
LEMMA OrderedCleanup ==
    ASSUME TypeOK, Named, Skeleton, Ordered, NEW s \in Session, Cleanup(s)
    PROVE  Ordered'
<1>0. scripts \subseteq Session /\ earlier \in [Session -> SUBSET Session]
  BY TypeParts DEF RegistryTyped
<1>1. \A x \in Session : Present(x)' => Present(x)
  <2>1. session' = session
    BY DEF Cleanup, Dispose, RemoveScript, RemoveBinding
  <2>2. \A a \in Attacher : att'[a] = att[a] \/ att'[a].at \in {"idle", "connect"}
    BY CleanedAtt DEF Cleanup, Dispose, RemoveScript
  <2> QED BY <2>1, <2>2 DEF Present
<1>2. CASE UNCHANGED <<scripts, earlier>>
  BY <1>1, <1>2, OrderedKept
<1>3. CASE RemoveScript(s) /\ Removed(s)
  <2>1. ~Present(s)
    BY <1>3 DEF RemoveScript, Skeleton, Cleans, Slots, Present, Attempting, Calling
  <2>2. /\ scripts' = scripts \ {s} /\ earlier'[s] = {}
        /\ \A t \in Session \ {s} : earlier'[t] = earlier[t] \ {s}
    BY <1>0, <1>3 DEF Removed
  <2>3. \A t \in Session : earlier'[t] \subseteq earlier[t] /\ earlier'[t] \subseteq scripts'
    BY <2>2 DEF Ordered
  <2>4. RunsLast'
    <3> SUFFICES ASSUME NEW x \in Session, Present(x)'
                 PROVE  /\ x \in scripts' /\ scripts' \ {x} \subseteq earlier'[x]
                        /\ \A t \in scripts' : x \notin earlier'[t]
      BY DEF RunsLast
    <3>1. Present(x) /\ x # s
      BY <1>1, <2>1
    <3>2. /\ x \in scripts /\ scripts \ {x} \subseteq earlier[x]
          /\ \A t \in scripts : x \notin earlier[t]
      BY <3>1 DEF Ordered, RunsLast
    <3> QED BY <1>0, <2>2, <2>3, <3>1, <3>2
  <2> QED BY <2>3, <2>4 DEF Ordered
<1> QED BY <1>2, <1>3 DEF Cleanup, Dispose, RemoveScript, RemoveBinding, registry

\* Every step keeps the order.
LEMMA OrderedStep ==
    ASSUME TypeOK, Named, Skeleton, Remembered, Ordered, [Next]_vars
    PROVE  Ordered'
<1>1. CASE (\A a \in Attacher : ~Attach(a)) /\ (\A s \in Session : ~Cleanup(s))
  <2>1. Elsewhere
    BY <1>1, ElsewhereStep
  <2>2. \A s \in Session : Present(s)' => Present(s)
    <3>1. \A a \in Attacher : att'[a] = att[a] \/ att'[a].at \in {"idle", "connect"}
      BY <2>1 DEF Elsewhere
    <3>2. session' \in {session, None}
      BY <2>1 DEF Elsewhere
    <3> QED BY <3>1, <3>2, Bounds DEF Present
  <2>3. UNCHANGED <<scripts, earlier>>
    BY <2>1 DEF Elsewhere
  <2> QED BY <2>2, <2>3, OrderedKept
<1> QED BY <1>1, OrderedAttach, OrderedCleanup

-----------------------------------------------------------------------------
(* The bridge in the page.                                                  *)

\* The attachment whose bootstrap ran in the document or runs in the next one.
Installed(s) == \/ s = session
                \/ \E a \in Attacher : att[a].s = s /\ att[a].at \in {"announce", "answer"}

\* While its connection is open, the bridge in the document is its own.
InForce == \A s \in Session : Installed(s) /\ page.up /\ Open(s) => page.owner = s

\* A step that leaves the document alone and installs nothing.
LEMMA InForceKept ==
    ASSUME InForce, page'.up = page.up, page'.owner = page.owner,
           \A s \in Session : Installed(s)' /\ Open(s)' => Installed(s) /\ Open(s)
    PROVE  InForce'
  BY DEF InForce

\* An attempt: the bootstrap replaces what the document had.
LEMMA InForceAttach ==
    ASSUME TypeOK, Named, Skeleton, InForce, NEW a \in Attacher, Attach(a)
    PROVE  InForce'
<1>0. /\ att \in [Attacher -> Attempt] /\ link \in [Session -> Link] /\ None \notin Session
      /\ PageTyped
  BY TypeParts, Bounds DEF AttTyped, SlotsTyped
<1>a. att[a].at # "idle" => /\ session = None
                           /\ \A b \in Attacher \ {a} : att[b].at = "idle"
  BY DEF Skeleton, Turns, Attacher
<1>1. CASE Connect(a)
  <2> DEFINE s == CHOOSE s \in Session : Unused(s)
  <2>1. /\ att' = [att EXCEPT ![a] = [Idle EXCEPT !.at = "remove", !.s = s]]
        /\ att[a].at # "idle" /\ UNCHANGED <<session, page>>
    BY <1>1 DEF Connect
  <2> HIDE DEF s
  <2>2. att'[a].at = "remove" /\ \A b \in Attacher \ {a} : att'[b] = att[b]
    BY <1>0, <2>1 DEF Idle
  <2>3. \A x \in Session : ~Installed(x)'
    BY <1>0, <1>a, <2>1, <2>2 DEF Installed
  <2> QED BY <2>3 DEF InForce
<1>2. CASE ConnectFails(a) \/ RemoveOld(a) \/ AttachFails(a)
  <2>1. /\ \A b \in Attacher \ {a} : att'[b] = att[b]
        /\ att'[a].at \notin {"announce", "answer"} /\ UNCHANGED <<session, page, link>>
    <3>1. CASE ConnectFails(a)
      BY <1>0, <3>1 DEF ConnectFails, browser
    <3>2. CASE RemoveOld(a)
      BY <1>0, <3>2 DEF RemoveOld, Step
    <3>3. CASE AttachFails(a)
      BY <1>0, <3>3 DEF AttachFails, Idle
    <3> QED BY <1>2, <3>1, <3>2, <3>3
  <2> QED BY <2>1, InForceKept DEF Installed, Open
<1>3. CASE AddScript(a)
  <2>1. /\ \A b \in Attacher \ {a} : att'[b] = att[b]
        /\ att'[a].at = "bootstrap" /\ UNCHANGED <<session, page>>
        /\ \A x \in Session : link'[x].conn = link[x].conn
    BY <1>0, <1>3 DEF AddScript, Step
  <2> QED BY <2>1, InForceKept DEF Installed, Open
<1>4. CASE Bootstrap(a)
  <2>1. /\ att[a].at # "idle" /\ att'[a].s = att[a].s /\ UNCHANGED <<session, link>>
        /\ \A b \in Attacher \ {a} : att'[b] = att[b]
    BY <1>0, <1>4 DEF Bootstrap, Step
  <2>2. page'.owner = att[a].s
    BY <1>0, <1>4 DEF Bootstrap, PageTyped
  <2>3. \A x \in Session : Installed(x)' => x = att[a].s
    BY <1>0, <1>a, <2>1 DEF Installed
  <2> QED BY <2>2, <2>3 DEF InForce
<1>5. CASE Announce(a)
  <2>1. /\ att[a].at = "announce" /\ att'[a].s = att[a].s /\ UNCHANGED <<session, link>>
        /\ \A b \in Attacher \ {a} : att'[b] = att[b]
    BY <1>0, <1>5 DEF Announce
  <2>2. page'.owner = page.owner /\ page'.up = page.up
    BY <1>0, <1>5 DEF Announce, PageTyped
  <2> QED BY <2>1, <2>2, InForceKept DEF Installed, Open
<1>6. CASE Commit(a)
  <2>1. /\ att[a].at = "answer" /\ att'[a].at = "idle" /\ session' = att[a].s
        /\ \A b \in Attacher \ {a} : att'[b] = att[b]
        /\ UNCHANGED <<page, link>>
    BY <1>0, <1>6 DEF Commit, Idle, browser
  <2> QED BY <2>1, InForceKept DEF Installed, Open
<1> QED BY <1>1, <1>2, <1>3, <1>4, <1>5, <1>6 DEF Attach

\* A cleanup disposes its own bridge only, which is not the one in force.
LEMMA InForceCleanup ==
    ASSUME TypeOK, Named, Skeleton, InForce, NEW s \in Session, Cleanup(s)
    PROVE  InForce'
<1>0. link \in [Session -> Link] /\ PageTyped /\ None \notin Session
  BY TypeParts, Bounds DEF SlotsTyped
<1>1. \A x \in Session : Installed(x)' => Installed(x)
  <2>1. session' = session
    BY DEF Cleanup, Dispose, RemoveScript, RemoveBinding
  <2>2. \A a \in Attacher : att'[a] = att[a] \/ att'[a].at \in {"idle", "connect"}
    BY CleanedAtt DEF Cleanup, Dispose, RemoveScript
  <2> QED BY <2>1, <2>2 DEF Installed
<1>2. \A x \in Session : Open(x)' => Open(x)
  <2>1. CASE UNCHANGED link
    BY <2>1 DEF Open
  <2>2. CASE RemoveBinding(s)
    <3>1. link' = [link EXCEPT ![s] = [NoLink EXCEPT !.script = link[s].script /\ s \in scripts]]
      BY <2>2 DEF RemoveBinding
    <3>2. link'[s].conn = "closed" /\ \A x \in Session \ {s} : link'[x] = link[x]
      BY <1>0, <3>1 DEF NoLink
    <3> QED BY <3>2 DEF Open
  <2> QED BY <2>1, <2>2 DEF Cleanup, Dispose, RemoveScript
<1>3. CASE UNCHANGED page
  BY <1>1, <1>2, <1>3, InForceKept
<1>4. CASE /\ clean[s].at = "dispose" /\ Accepts(s) /\ page' = [page EXCEPT !.owner = None]
           /\ UNCHANGED link
  <2>1. page.owner = s /\ page'.up = page.up
    BY <1>0, <1>4 DEF Accepts, PageTyped
  <2>2. ~Installed(s)
    BY <1>4 DEF Skeleton, Cleans, Slots, Installed, Attempting, Calling
  <2>3. \A x \in Session : ~(Installed(x)' /\ page'.up /\ Open(x)')
    BY <1>1, <1>2, <2>1, <2>2 DEF InForce
  <2> QED BY <2>3 DEF InForce
<1> QED BY <1>3, <1>4 DEF Cleanup, Dispose, RemoveScript, RemoveBinding

\* Every step; a new document runs the installed attachment's script last.
LEMMA InForceStep ==
    ASSUME TypeOK, Named, Skeleton, Ordered, InForce, [Next]_vars
    PROVE  InForce'
<1>0. PageTyped /\ None \notin Session /\ scripts \subseteq Session
  BY TypeParts, Bounds DEF RegistryTyped
<1>1. CASE (\A a \in Attacher : ~Attach(a)) /\ (\A s \in Session : ~Cleanup(s))
  <2>1. Elsewhere
    BY <1>1, ElsewhereStep
  <2>2. \A s \in Session : Installed(s)' => Installed(s)
    <3>1. \A a \in Attacher : att'[a] = att[a] \/ att'[a].at \in {"idle", "connect"}
      BY <2>1 DEF Elsewhere
    <3>2. session' \in {session, None}
      BY <2>1 DEF Elsewhere
    <3> QED BY <1>0, <3>1, <3>2 DEF Installed
  <2>3. \A s \in Session : Open(s)' => Open(s)
    BY <2>1 DEF Elsewhere, Open
  <2>4. CASE Leave
    <3>1. page'.up = FALSE
      BY <1>0, <2>4 DEF Leave, PageTyped
    <3> QED BY <3>1 DEF InForce
  <2>5. CASE Return
    <3> SUFFICES ASSUME NEW p \in Session, Installed(p), Open(p)
                 PROVE  page'.owner = p
      BY <2>2, <2>3 DEF InForce
    <3>1. p \in scripts /\ \A t \in scripts : p \notin earlier[t]
      BY DEF Ordered, RunsLast, Installed, Present
    <3>2. link[p].binding
      BY DEF Open, Skeleton, Owned
    <3> DEFINE ran == scripts \cap {s \in Session : Open(s) /\ link[s].binding}
    <3>3. p \in ran
      BY <3>1, <3>2
    <3>4. \E s \in ran : ran \ {s} \subseteq earlier[s] /\ page'.owner = s
      BY <2>5, <3>3 DEF Return
    <3>5. PICK s \in ran : ran \ {s} \subseteq earlier[s] /\ page'.owner = s
      BY <3>4
    <3> QED BY <3>1, <3>3, <3>5
  <2>6. CASE ~Leave /\ ~Return
    <3>1. page'.up = page.up /\ page'.owner = page.owner
      <4>1. CASE UNCHANGED page
        BY <4>1
      <4>2. CASE Converge
        BY <1>0, <4>2 DEF Converge, PageTyped
      <4>3. CASE PublishSent
        BY <1>0, <4>3 DEF PublishSent, PageTyped
      <4>4. CASE \E s \in Session : Events(s) \/ Lose(s)
        BY <4>4 DEF Events, SocketClosed, ContextCreated, Lose, browser
      <4>5. CASE ConvergeAnswered \/ ConvergeDeadline \/ PublishGivesUp \/ PublishAnswered
                 \/ Probing \/ Controller \/ StopRetrying \/ UNCHANGED vars
        BY <4>5 DEF ConvergeAnswered, ConvergeDeadline, PublishGivesUp, PublishAnswered,
           Probing, ProbeHealth, ProbeFailed, Controller, Publish, QueryActivity, ExpectClose,
           ExpectNoClose, Close, CloseSession, Restore, StopRetrying, vars, browser
      <4> QED BY <1>1, <2>6, <4>2, <4>3, <4>4, <4>5 DEF Next, Converging, Publishing
    <3> QED BY <2>2, <2>3, <3>1, InForceKept
  <2> QED BY <2>4, <2>5, <2>6
<1> QED BY <1>1, InForceAttach, InForceCleanup

-----------------------------------------------------------------------------
(* The status the page shows.                                               *)

\* Without a document no context is of the present one.
Absent == ~page.up => fresh = {}

\* Every step keeps that.
LEMMA AbsentStep ==
    ASSUME TypeOK, Absent, [Next]_vars
    PROVE  Absent'
<1>0. PageTyped
  BY TypeParts
<1>1. CASE page'.up = page.up /\ fresh' \subseteq fresh
  BY <1>1 DEF Absent
<1>2. CASE \E a \in Attacher : Attach(a)
  <2>0. PICK a \in Attacher : Attach(a)
    BY <1>2
  <2>1. CASE Connect(a)
    BY <2>1 DEF Connect, Absent
  <2>2. CASE Bootstrap(a)
    BY <1>0, <1>1, <2>2 DEF Bootstrap, PageTyped
  <2>3. CASE Announce(a)
    BY <1>0, <1>1, <2>3 DEF Announce, PageTyped
  <2>4. CASE ConnectFails(a) \/ RemoveOld(a) \/ AddScript(a) \/ Commit(a) \/ AttachFails(a)
    BY <1>1, <2>4 DEF ConnectFails, RemoveOld, AddScript, Commit, AttachFails, browser
  <2> QED BY <2>0, <2>1, <2>2, <2>3, <2>4 DEF Attach
<1>3. CASE \E s \in Session : Cleanup(s) \/ Events(s) \/ Lose(s)
  <2>0. PICK s \in Session : Cleanup(s) \/ Events(s) \/ Lose(s)
    BY <1>3
  <2>1. CASE Dispose(s)
    BY <1>0, <1>1, <2>1 DEF Dispose, PageTyped
  <2>2. CASE ContextCreated(s)
    BY <2>2 DEF ContextCreated, Absent
  <2>3. CASE RemoveScript(s) \/ RemoveBinding(s) \/ SocketClosed(s) \/ Lose(s)
    BY <1>1, <2>3 DEF RemoveScript, RemoveBinding, SocketClosed, Lose, browser
  <2> QED BY <2>0, <2>1, <2>2, <2>3 DEF Cleanup, Events
<1>4. CASE Converge
  BY <1>0, <1>1, <1>4 DEF Converge, PageTyped
<1>5. CASE PublishSent
  BY <1>0, <1>1, <1>5 DEF PublishSent, PageTyped
<1>6. CASE Leave
  BY <1>6 DEF Leave, Absent
<1>7. CASE Return
  BY <1>0, <1>7 DEF Return, PageTyped, Absent
<1>8. CASE ConvergeAnswered \/ ConvergeDeadline \/ PublishGivesUp \/ PublishAnswered \/ Probing
           \/ Controller \/ StopRetrying \/ UNCHANGED vars
  BY <1>1, <1>8
    DEF ConvergeAnswered, ConvergeDeadline, PublishGivesUp, PublishAnswered, Probing,
     ProbeHealth, ProbeFailed, Controller, Publish, QueryActivity, ExpectClose, ExpectNoClose,
     Close,
     CloseSession, Restore, StopRetrying, vars, browser
<1> QED BY <1>2, <1>3, <1>4, <1>5, <1>6, <1>7, <1>8 DEF Next, Converging, Publishing

\* A convergence belongs to a session and sends while it is on; what waits to be
\* published is the newest status.
Calls == /\ conv.sent # "no" => conv.on
         /\ conv.on => session # None
         /\ pub.at = "waiting" => pub.told = status /\ ~pub.ok

\* A session is lost.
LEMMA CallsInvalidate ==
    ASSUME Calls, NEW s, Invalidate(s), pub' = pub \/ pub'.at = "idle", UNCHANGED status
    PROVE  Calls'
  BY DEF Calls, Invalidate, NoConv

\* Every step keeps that.
LEMMA CallsStep ==
    ASSUME TypeOK, Calls, [Next]_vars
    PROVE  Calls'
<1>0. SessionTyped /\ PubTyped /\ AttTyped /\ None \notin Session
  BY TypeParts, Bounds
<1>a. NoCall.at = "idle" /\ NoConv.on = FALSE /\ NoConv.sent = "no"
  BY DEF NoCall, NoConv
<1>1. CASE UNCHANGED <<conv, session, pub, status>>
  BY <1>1 DEF Calls
<1>2. CASE \E a \in Attacher : Attach(a)
  <2>0. PICK a \in Attacher : Attach(a)
    BY <1>2
  <2>1. CASE Commit(a)
    BY <1>a, <2>1 DEF Commit, Calls
  <2> QED BY <1>1, <2>0, <2>1
      DEF Attach, Connect, ConnectFails, RemoveOld, AddScript, Bootstrap,
            Announce, AttachFails, caller
<1>3. CASE \E s \in Session : Cleanup(s) \/ Lose(s)
  BY <1>1, <1>3 DEF Cleanup, Dispose, RemoveScript, RemoveBinding, Lose, caller
<1>4. CASE \E s \in Session : SocketClosed(s)
  BY <1>4, CallsInvalidate DEF SocketClosed, caller
<1>5. CASE \E s \in Session : ContextCreated(s)
  <2>1. PICK s \in Session : ContextCreated(s)
    BY <1>5
  <2>2. UNCHANGED <<session, pub, status>> /\ (conv' = conv \/ ScheduleConvergence(s))
    BY <2>1 DEF ContextCreated, caller
  <2>3. (conv'.sent # "no" => conv'.on) /\ (conv'.on => session' # None)
    BY <1>0, <2>2 DEF ScheduleConvergence, NoConv, SessionTyped, Calls
  <2> QED BY <2>2, <2>3 DEF Calls
<1>6. CASE Converging
  <2>1. UNCHANGED <<session, pub, status>>
    BY <1>6 DEF Converging, Converge, ConvergeAnswered, ConvergeDeadline, caller
  <2>2. (conv'.sent # "no" => conv'.on) /\ (conv'.on => session' # None)
    <3>1. CASE Converge
      BY <1>0, <3>1 DEF Converge, SessionTyped, Calls
    <3>2. CASE ConvergeAnswered
      BY <1>0, <1>a, <3>2 DEF ConvergeAnswered, SessionTyped, Calls
    <3>3. CASE ConvergeDeadline
      BY <1>0, <1>a, <3>3 DEF ConvergeDeadline, SessionTyped, Calls
    <3> QED BY <1>6, <3>1, <3>2, <3>3 DEF Converging
  <2> QED BY <2>1, <2>2 DEF Calls
<1>7. CASE PublishSent
  <2>1. pub'.at = "sent" /\ UNCHANGED <<conv, session>>
    BY <1>0, <1>7 DEF PublishSent, PubTyped
  <2> QED BY <2>1 DEF Calls
<1>8. CASE PublishGivesUp
  BY <1>a, <1>8 DEF PublishGivesUp, Calls
<1>9. CASE PublishAnswered
  <2>1. CASE UNCHANGED <<session, conv>>
    BY <1>9, <1>a, <2>1 DEF PublishAnswered, Calls
  <2>2. CASE Invalidate(pub.s)
    BY <1>9, <1>a, <2>2, CallsInvalidate DEF PublishAnswered, caller
  <2> QED BY <1>9, <2>1, <2>2 DEF PublishAnswered
<1>10. CASE ProbeFailed
  BY <1>10, CallsInvalidate DEF ProbeFailed, caller
<1>11. CASE Publish
  <2>1. /\ UNCHANGED <<conv, session>> /\ status' = status + 1
        /\ pub' \in {[NoCall EXCEPT !.at = "refused"],
                     [NoCall EXCEPT !.at = "waiting", !.told = status + 1]}
    BY <1>11 DEF Publish
  <2>2. pub'.at = "waiting" => pub'.told = status' /\ ~pub'.ok
    BY <2>1 DEF NoCall
  <2> QED BY <2>1, <2>2 DEF Calls
<1>12. CASE CloseSession
  BY <1>12, <1>a DEF CloseSession, Calls
<1>13. CASE ProbeHealth \/ QueryActivity \/ ExpectClose \/ ExpectNoClose \/ Close \/ Restore
            \/ StopRetrying \/ Leave \/ Return \/ UNCHANGED vars
  BY <1>1, <1>13 DEF ProbeHealth, QueryActivity, ExpectClose, ExpectNoClose, Close, Restore,
     StopRetrying, Leave, Return, vars, caller
<1> QED BY <1>2, <1>3, <1>4, <1>5, <1>6, <1>7, <1>8, <1>9, <1>10, <1>11, <1>12, <1>13
    DEF Next, Events, Publishing, Probing, Controller

-----------------------------------------------------------------------------
\* An announcement that is answered was of the newest status, unless a newer one is
\* being published, and the page shows it.
Answered(a) == att[a].at = "answer" =>
    /\ att[a].told <= status
    /\ att[a].ok => att[a].told = status \/ pub.at \in {"waiting", "refused"}
    /\ att[a].ok /\ Reaches(att[a].s) => page.shown = att[a].told

\* ... when no reload was missed.
Announced == ~missed => \A a \in Attacher : Answered(a)

\* Somebody is still going to show the page the newest status, or to end the session:
\* the convergence, a publish that waits or is refused, or one that found no bridge.
Owed == \/ conv.on /\ (conv.sent # "ok" \/ conv.again)
        \/ pub.at \in {"waiting", "refused"}
        \/ pub.at = "sent" /\ ~pub.ok /\ pub.s = session

\* What the page shows is the newest status, or somebody owes it.
Shown == ~missed /\ session # None /\ Reaches(session) => page.shown = status \/ Owed

\* No page comes within reach of s, and the one in reach shows what it did.
ShownKept(s) == Reaches(s)' => Reaches(s) /\ page'.shown = page.shown

\* A step that publishes nothing and brings no page within reach.
LEMMA AnnouncedKept ==
    ASSUME Named, Announced, UNCHANGED <<pub, status>>, missed => missed',
           \A s \in Session : ShownKept(s),
           \A a \in Attacher : att'[a] = att[a] \/ att'[a].at \in {"idle", "connect"}
    PROVE  Announced'
<1> SUFFICES ASSUME ~missed', NEW a \in Attacher, att'[a].at = "answer"
             PROVE  Answered(a)'
  BY DEF Announced, Answered
<1>1. att'[a] = att[a] /\ att[a].s \in Session
  BY DEF Named, Calling
<1>2. Answered(a) /\ ShownKept(att[a].s)
  BY <1>1 DEF Announced
<1>3. Reaches(att[a].s)' => Reaches(att[a].s) /\ page'.shown = page.shown
  BY <1>1, <1>2 DEF ShownKept, Reaches, Open
<1> QED BY <1>1, <1>2, <1>3 DEF Answered, Reaches, Open

\* The same for the current session.
LEMMA ShownKeeps ==
    ASSUME Shown, UNCHANGED <<pub, status, conv>>, missed => missed',
           session' \in {session, None},
           session # None => ShownKept(session)
    PROVE  Shown'
<1> SUFFICES ASSUME ~missed', session' # None, Reaches(session)'
             PROVE  page'.shown = status' \/ Owed'
  BY DEF Shown
<1>1. session' = session /\ ShownKept(session)
  OBVIOUS
<1>2. Reaches(session) /\ page'.shown = page.shown
  BY <1>1 DEF ShownKept, Reaches, Open
<1> QED BY <1>1, <1>2 DEF Shown, Owed

\* An attempt: its announcement is answered before it becomes the session.
LEMMA ShownAttach ==
    ASSUME TypeOK, Named, Skeleton, Announced, NEW a \in Attacher, Attach(a)
    PROVE  Announced' /\ Shown'
<1>0. /\ att \in [Attacher -> Attempt] /\ None \notin Session /\ PageTyped
      /\ status \in Nat
  BY TypeParts, Bounds DEF AttTyped, PubTyped
<1>a. /\ att[a].at # "idle"
      /\ session = None /\ \A b \in Attacher \ {a} : att[b].at = "idle"
  <2>1. att[a].at # "idle"
    BY DEF Attach, Connect, ConnectFails, RemoveOld, AddScript, Bootstrap, Announce, Commit,
       AttachFails, Step
  <2> QED BY <2>1 DEF Skeleton, Turns, Attacher
<1>1. CASE Announce(a)
  <2>1. /\ att'[a].told = status /\ att'[a].ok = Accepts(att[a].s) /\ att'[a].s = att[a].s
        /\ UNCHANGED <<status, session, link, fresh>>
    BY <1>0, <1>1 DEF Announce, caller
  <2>2. Accepts(att[a].s) => page'.shown = status
    BY <1>0, <1>1 DEF Announce, PageTyped
  <2>3. Answered(a)'
    BY <1>0, <2>1, <2>2 DEF Answered
  <2>4. \A b \in Attacher \ {a} : att'[b] = att[b]
    BY <1>0, <1>1 DEF Announce
  <2>5. Announced'
    BY <1>a, <2>3, <2>4 DEF Announced, Answered
  <2> QED BY <1>a, <2>1, <2>5 DEF Shown
<1>2. CASE Commit(a)
  <2>1. /\ att[a].at = "answer" /\ att[a].ok /\ session' = att[a].s /\ att'[a].at = "idle"
        /\ UNCHANGED <<page, fresh, link, pub, status, missed>>
        /\ \A b \in Attacher \ {a} : att'[b] = att[b]
    BY <1>0, <1>2 DEF Commit, browser, history, Idle
  <2>2. Announced'
    BY <1>a, <2>1 DEF Announced, Answered
  <2>3. Shown'
    <3> SUFFICES ASSUME ~missed', Reaches(session)'
                 PROVE  page'.shown = status' \/ Owed'
      BY DEF Shown
    <3>1. Answered(a) /\ Reaches(att[a].s)
      BY <2>1 DEF Announced, Reaches, Open
    <3>2. page.shown = status \/ pub.at \in {"waiting", "refused"}
      BY <2>1, <3>1 DEF Answered
    <3> QED BY <2>1, <3>2 DEF Owed
  <2> QED BY <2>2, <2>3
<1>3. CASE Connect(a) \/ ConnectFails(a) \/ RemoveOld(a) \/ AddScript(a) \/ Bootstrap(a)
           \/ AttachFails(a)
  <2>1. session' = session
    BY <1>3 DEF Connect, ConnectFails, RemoveOld, AddScript, Bootstrap, AttachFails
  <2>2. att'[a].at # "answer" /\ \A b \in Attacher \ {a} : att'[b] = att[b]
    <3>1. CASE Connect(a)
      BY <1>0, <3>1 DEF Connect, Idle
    <3>2. CASE ConnectFails(a)
      BY <1>0, <3>2 DEF ConnectFails
    <3>3. CASE RemoveOld(a)
      BY <1>0, <3>3 DEF RemoveOld, Step
    <3>5. CASE AddScript(a)
      BY <1>0, <3>5 DEF AddScript, Step
    <3>6. CASE Bootstrap(a)
      BY <1>0, <3>6 DEF Bootstrap, Step
    <3>4. CASE AttachFails(a)
      BY <1>0, <3>4 DEF AttachFails, Idle
    <3> QED BY <1>3, <3>1, <3>2, <3>3, <3>4, <3>5, <3>6
  <2>3. Announced'
    BY <1>a, <2>2 DEF Announced, Answered
  <2> QED BY <1>a, <2>1, <2>3 DEF Shown
<1> QED BY <1>1, <1>2, <1>3 DEF Attach

\* A cleanup takes pages out of reach only.
LEMMA ShownCleanup ==
    ASSUME TypeOK, Named, Announced, Shown, NEW s \in Session, Cleanup(s)
    PROVE  Announced' /\ Shown'
<1>0. link \in [Session -> Link] /\ PageTyped /\ session \in Session \cup {None}
  BY TypeParts DEF SlotsTyped, SessionTyped
<1>1. \A x \in Session : ShownKept(x)
  <2>1. CASE Dispose(s)
    <3>1. /\ page'.up = page.up /\ page'.shown = page.shown /\ UNCHANGED <<link, fresh>>
      BY <1>0, <2>1 DEF Dispose, PageTyped
    <3> QED BY <3>1 DEF ShownKept, Reaches, Open
  <2>2. CASE RemoveScript(s)
    BY <2>2 DEF RemoveScript, ShownKept, Reaches, Open
  <2>3. CASE RemoveBinding(s)
    <3>1. /\ link' = [link EXCEPT ![s] = [NoLink EXCEPT !.script = link[s].script /\ s \in scripts]]
          /\ UNCHANGED page /\ fresh' \subseteq fresh
      BY <2>3 DEF RemoveBinding
    <3>2. link'[s].conn = "closed" /\ \A x \in Session \ {s} : link'[x] = link[x]
      BY <1>0, <3>1 DEF NoLink
    <3> QED BY <3>1, <3>2 DEF ShownKept, Reaches, Open
  <2> QED BY <2>1, <2>2, <2>3 DEF Cleanup
<1>2. UNCHANGED <<pub, status, conv, missed, session>>
  BY DEF Cleanup, Dispose, RemoveScript, RemoveBinding, caller, history
<1>3. \A a \in Attacher : att'[a] = att[a] \/ att'[a].at \in {"idle", "connect"}
  BY CleanedAtt DEF Cleanup, Dispose, RemoveScript
<1>4. Announced'
  BY <1>1, <1>2, <1>3, AnnouncedKept
<1>5. Shown'
  BY <1>0, <1>1, <1>2, ShownKeeps
<1> QED BY <1>4, <1>5

\* No attachment reaches a page that is going or has just come.
LEMMA Unreachable ==
    ASSUME Absent, page'.up = FALSE \/ (~page.up /\ UNCHANGED fresh)
    PROVE  \A x : ~Reaches(x)'
  BY DEF Absent, Reaches

\* Nothing is announced while there is a session.
LEMMA NoneAnswered ==
    ASSUME Skeleton, session # None, Elsewhere
    PROVE  Announced'
<1>1. \A a \in Attacher : att[a].at = "idle"
  BY DEF Skeleton, Turns
<1>2. \A a \in Attacher : att'[a].at # "answer"
  BY <1>1 DEF Elsewhere
<1> QED BY <1>2 DEF Announced, Answered

\* Events, the convergence and the page: a reload's context starts a convergence, and
\* one that ends without a success is a missed reload.
LEMMA ShownEvents ==
    ASSUME TypeOK, Named, Skeleton, Absent, Calls, Announced, Shown, Elsewhere,
           \/ \E s \in Session : Events(s) \/ Lose(s)
           \/ Converging
           \/ Leave \/ Return
    PROVE  Announced' /\ Shown'
<1>0. /\ link \in [Session -> Link] /\ PageTyped /\ SessionTyped /\ None \notin Session
      /\ missed \in BOOLEAN /\ session \in Session \cup {None}
  BY TypeParts, Bounds DEF SlotsTyped, CallerTyped, SessionTyped
<1>a. \A a \in Attacher : att'[a] = att[a] \/ att'[a].at \in {"idle", "connect"}
  BY DEF Elsewhere
<1>1. CASE Leave \/ Return
  <2>1. \A x : ~Reaches(x)'
    <3>1. page'.up = FALSE \/ (~page.up /\ UNCHANGED fresh)
      BY <1>0, <1>1 DEF Leave, Return, PageTyped
    <3> QED BY <3>1, Unreachable
  <2>2. UNCHANGED <<pub, status, att, missed>>
    BY <1>1 DEF Leave, Return, caller, history
  <2>3. Shown'
    BY <2>1 DEF Shown
  <2>4. \A s \in Session : ShownKept(s)
    BY <2>1 DEF ShownKept
  <2>5. Announced'
    BY <1>a, <2>2, <2>4, AnnouncedKept
  <2> QED BY <2>3, <2>5
<1>2. CASE \E s \in Session : Lose(s)
  <2>1. PICK s \in Session : Lose(s)
    BY <1>2
  <2>2. /\ link' = [link EXCEPT ![s].conn = "lost", ![s].binding = FALSE] /\ fresh' \subseteq fresh
        /\ UNCHANGED <<page, pub, status, conv, session, missed>>
    BY <2>1 DEF Lose, caller, history
  <2>3. link'[s].conn = "lost" /\ \A x \in Session \ {s} : link'[x] = link[x]
    BY <1>0, <2>2
  <2>4. \A x \in Session : ShownKept(x)
    BY <2>2, <2>3 DEF ShownKept, Reaches, Open
  <2>5. Announced'
    BY <1>a, <2>2, <2>4, AnnouncedKept
  <2> QED BY <1>0, <2>2, <2>4, <2>5, ShownKeeps
<1>3. CASE \E s \in Session : SocketClosed(s)
  <2>1. PICK s \in Session : SocketClosed(s)
    BY <1>3
  <2>2. session' = None /\ UNCHANGED <<page, fresh, link, pub, status, missed>>
    BY <2>1 DEF SocketClosed, Invalidate, browser, caller, history
  <2>3. \A x \in Session : ShownKept(x)
    BY <2>2 DEF ShownKept, Reaches, Open
  <2>4. Announced'
    BY <1>a, <2>2, <2>3, AnnouncedKept
  <2> QED BY <2>2, <2>4 DEF Shown
<1>4. CASE \E s \in Session : ContextCreated(s)
  <2>1. PICK s \in Session : ContextCreated(s)
    BY <1>4
  <2>2. /\ fresh' = fresh \cup {s} /\ UNCHANGED <<page, link, pub, status, att, session>>
        /\ missed' = (missed \/ \E a \in Attacher : /\ att[a].s = s /\ att[a].at = "answer"
                                                   /\ att[a].ok)
    BY <2>1 DEF ContextCreated, caller
  <2>3. \A x : Reaches(x)' /\ x # s => Reaches(x)
    BY <2>2 DEF Reaches, Open
  <2>4. Announced'
    <3> SUFFICES ASSUME ~missed', NEW a \in Attacher
                 PROVE  Answered(a)'
      BY DEF Announced
    <3>1. Answered(a) /\ ~(att[a].s = s /\ att[a].at = "answer" /\ att[a].ok)
      BY <1>0, <2>2 DEF Announced
    <3>2. att[a].at = "answer" /\ att[a].ok /\ Reaches(att[a].s)' => Reaches(att[a].s)
      BY <2>2, <3>1 DEF Reaches, Open
    <3> QED BY <2>2, <3>1, <3>2 DEF Answered
  <2>5. CASE session = s
    <3>1. s \in committed
      BY <2>5, <1>0 DEF Skeleton, Commits
    <3>2. ScheduleConvergence(s)
      BY <2>1, <3>1 DEF ContextCreated
    <3>3. conv'.on /\ (conv'.again \/ conv'.sent = "no")
      BY <1>0, <2>5, <3>2 DEF ScheduleConvergence, NoConv, SessionTyped
    <3> QED BY <2>4, <3>3 DEF Shown, Owed
  <2>6. CASE session # s
    <3>1. conv' = conv
      BY <2>1, <2>6 DEF ContextCreated, ScheduleConvergence
    <3>2. ShownKept(session)
      BY <2>2, <2>3, <2>6 DEF ShownKept
    <3>3. missed => missed'
      BY <2>2
    <3>4. Shown'
      BY <2>2, <3>1, <3>2, <3>3, ShownKeeps
    <3> QED BY <2>4, <3>4
  <2> QED BY <2>5, <2>6
<1>5. CASE Converge
  <2>1. /\ conv.on /\ conv.sent = "no" /\ UNCHANGED <<session, status, pub, missed>>
        /\ session # None
    BY <1>5 DEF Converge, caller, history, Calls
  <2>2. Announced'
    BY <2>1, NoneAnswered
  <2>3. conv'.on
    BY <1>0, <1>5, <2>1 DEF Converge, SessionTyped
  <2>4. conv'.sent = "fail" \/ page'.shown = status
    BY <1>0, <1>5 DEF Converge, SessionTyped, PageTyped
  <2> QED BY <2>1, <2>2, <2>3, <2>4 DEF Shown, Owed
<1>6. CASE ConvergeAnswered
  <2>1. /\ conv.sent # "no" /\ conv.on /\ session # None
        /\ UNCHANGED <<page, fresh, link, session, status, pub>>
        /\ missed' = (missed \/ (conv.sent = "ok" /\ conv.again))
    BY <1>6 DEF ConvergeAnswered, browser, caller, Calls
  <2>2. Announced'
    BY <2>1, NoneAnswered
  <2>3. CASE conv.sent = "ok"
    <3> SUFFICES ASSUME ~missed', Reaches(session)'
                 PROVE  page'.shown = status' \/ Owed'
      BY <2>2 DEF Shown
    <3>1. ~missed /\ ~conv.again /\ Reaches(session)
      BY <1>0, <2>1, <2>3 DEF Reaches, Open
    <3>2. page.shown = status \/ Owed
      BY <2>1, <3>1 DEF Shown
    <3> QED BY <2>1, <2>3, <3>1, <3>2 DEF Owed
  <2>4. CASE conv.sent # "ok"
    <3>1. conv'.on /\ conv'.sent = "no"
      BY <1>0, <1>6, <2>1, <2>4 DEF ConvergeAnswered, SessionTyped
    <3> QED BY <2>2, <3>1 DEF Shown, Owed
  <2> QED BY <2>3, <2>4
<1>7. CASE ConvergeDeadline
  <2>1. /\ conv.on /\ conv.sent = "no" /\ session # None
        /\ UNCHANGED <<page, fresh, link, session, status, pub>>
        /\ missed' = (missed \/ (session \in fresh /\ ~conv.again))
    BY <1>7 DEF ConvergeDeadline, browser, caller, Calls
  <2>2. Announced'
    BY <2>1, NoneAnswered
  <2>3. CASE conv.again
    <3>1. conv'.on /\ conv'.sent = "no"
      BY <1>0, <1>7, <2>1, <2>3 DEF ConvergeDeadline, SessionTyped
    <3> QED BY <2>2, <3>1 DEF Shown, Owed
  <2>4. CASE ~conv.again
    <3>1. missed' \/ ~Reaches(session)'
      BY <2>1, <2>4 DEF Reaches
    <3> QED BY <2>2, <3>1 DEF Shown
  <2> QED BY <1>0, <2>3, <2>4
<1> QED BY <1>1, <1>2, <1>3, <1>4, <1>5, <1>6, <1>7 DEF Events, Converging

\* What the controller publishes is owed until it is shown; a publish that found no
\* bridge ends the session.
LEMMA ShownCalls ==
    ASSUME TypeOK, Named, Skeleton, Calls, Announced, Shown, Elsewhere,
           Publishing \/ Probing \/ Controller \/ StopRetrying \/ UNCHANGED vars
    PROVE  Announced' /\ Shown'
<1>0. /\ PageTyped /\ PubTyped /\ AttTyped /\ SessionTyped /\ None \notin Session
      /\ status \in Nat /\ session \in Session \cup {None}
  BY TypeParts, Bounds DEF PubTyped, SessionTyped
<1>a. \A a \in Attacher : att'[a] = att[a] \/ att'[a].at \in {"idle", "connect"}
  BY DEF Elsewhere
<1>b. session' \in {session, None}
  BY DEF Elsewhere
<1>c. CASE UNCHANGED <<page, link, fresh, pub, status, conv, missed>>
  <2>1. \A x : ShownKept(x)
    BY <1>c DEF ShownKept, Reaches, Open
  <2>2. Announced'
    BY <1>a, <1>c, <2>1, AnnouncedKept
  <2> QED BY <1>b, <1>c, <2>1, <2>2, ShownKeeps
<1>1. CASE PublishSent
  <2>1. /\ session # None /\ pub.at = "waiting" /\ UNCHANGED <<session, status>>
    BY <1>1 DEF PublishSent, caller
  <2>2. Announced'
    BY <2>1, NoneAnswered
  <2>3. CASE Accepts(session) /\ page' = [page EXCEPT !.shown = status]
    <3>1. page'.shown = status
      BY <1>0, <2>3 DEF PageTyped
    <3> QED BY <2>1, <2>2, <3>1 DEF Shown
  <2>4. CASE pub' = [pub EXCEPT !.at = "sent", !.s = session, !.ok = Accepts(session)]
             /\ ~Accepts(session)
    <3>1. pub'.at = "sent" /\ pub'.s = session /\ ~pub'.ok
      BY <1>0, <2>4 DEF PubTyped
    <3> QED BY <2>1, <2>2, <3>1 DEF Shown, Owed
  <2>5. CASE pub' = [pub EXCEPT !.at = "sent", !.s = session]
    <3>1. pub'.at = "sent" /\ pub'.s = session /\ pub'.ok = pub.ok
      BY <1>0, <2>5 DEF PubTyped
    <3>2. ~pub.ok
      BY <2>1 DEF Calls
    <3> QED BY <2>1, <2>2, <3>1, <3>2 DEF Shown, Owed
  <2> QED BY <1>1, <2>3, <2>4, <2>5 DEF PublishSent
<1>2. CASE PublishGivesUp
  <2>1. /\ pub.told = status /\ session = None /\ UNCHANGED <<session, page, link, fresh>>
        /\ UNCHANGED <<status, att, missed>>
        /\ \A a \in Attacher : att[a].at = "answer" => att[a].told >= pub.told
    BY <1>2 DEF PublishGivesUp, Calls, browser, caller, history
  <2>2. Announced'
    <3> SUFFICES ASSUME ~missed', NEW a \in Attacher, att'[a].at = "answer"
                 PROVE  Answered(a)'
      BY DEF Announced, Answered
    <3>1. Answered(a) /\ att[a].at = "answer"
      BY <2>1 DEF Announced
    <3>2. att[a].told \in Nat /\ att[a].told <= status /\ att[a].told >= status
      BY <1>0, <2>1, <3>1, Bounds DEF Answered, AttTyped, Attempt
    <3>3. att[a].told = status
      BY <1>0, <3>2
    <3>4. Reaches(att[a].s)' => Reaches(att[a].s)
      BY <2>1 DEF Reaches, Open
    <3> QED BY <1>0, <2>1, <3>1, <3>3, <3>4 DEF Answered
  <2> QED BY <2>1, <2>2 DEF Shown
<1>3. CASE PublishAnswered
  <2>1. /\ pub.at = "sent" /\ UNCHANGED <<page, link, fresh, status, att, missed>>
    BY <1>3 DEF PublishAnswered, browser, caller, history
  <2>2. Announced'
    <3> SUFFICES ASSUME ~missed', NEW a \in Attacher, att'[a].at = "answer"
                 PROVE  Answered(a)'
      BY DEF Announced, Answered
    <3>1. Answered(a) /\ att[a].at = "answer"
      BY <2>1 DEF Announced
    <3>2. Reaches(att[a].s)' => Reaches(att[a].s)
      BY <2>1 DEF Reaches, Open
    <3>3. att[a].ok => att[a].told = status
      BY <2>1, <3>1 DEF Answered
    <3> QED BY <1>0, <2>1, <3>1, <3>2, <3>3 DEF Answered
  <2>3. Shown'
    <3> SUFFICES ASSUME ~missed', session' # None, Reaches(session)'
                 PROVE  page'.shown = status' \/ Owed'
      BY DEF Shown
    <3>1. session' = session /\ Reaches(session)
      BY <1>b, <2>1 DEF Reaches, Open
    <3>2. conv' = conv /\ (pub.ok \/ pub.s # session)
      BY <1>3, <3>1 DEF PublishAnswered, Invalidate
    <3>3. page.shown = status \/ Owed
      BY <2>1, <3>1 DEF Shown
    <3> QED BY <2>1, <3>1, <3>2, <3>3 DEF Owed
  <2> QED BY <2>2, <2>3
<1>4. CASE ProbeFailed
  <2>1. UNCHANGED <<page, link, fresh, pub, status, missed>>
    BY <1>4 DEF ProbeFailed, browser, caller, history
  <2>2. CASE session = probe
    <3>1. session' = None
      BY <1>4, <2>2 DEF ProbeFailed, Invalidate
    <3>2. \A x : ShownKept(x)
      BY <2>1 DEF ShownKept, Reaches, Open
    <3>3. Announced'
      BY <1>a, <2>1, <3>2, AnnouncedKept
    <3> QED BY <3>1, <3>3 DEF Shown
  <2>3. CASE session # probe
    BY <1>4, <1>c, <2>1, <2>3 DEF ProbeFailed, Invalidate
  <2> QED BY <2>2, <2>3
<1>5. CASE Publish
  <2>1. /\ UNCHANGED <<page, link, fresh, missed>> /\ status' = status + 1
        /\ pub' \in {[NoCall EXCEPT !.at = "refused"],
                     [NoCall EXCEPT !.at = "waiting", !.told = status + 1]}
    BY <1>5 DEF Publish, browser
  <2>2. pub'.at \in {"waiting", "refused"}
    BY <2>1 DEF NoCall
  <2>3. Announced'
    <3> SUFFICES ASSUME ~missed', NEW a \in Attacher, att'[a].at = "answer"
                 PROVE  Answered(a)'
      BY DEF Announced, Answered
    <3>1. att'[a] = att[a]
      BY <1>a
    <3>2. Answered(a) /\ att[a].at = "answer"
      BY <2>1, <3>1 DEF Announced
    <3>3. att[a].told \in Nat
      BY <1>0, Bounds DEF AttTyped, Attempt
    <3>4. att[a].told <= status'
      BY <1>0, <2>1, <3>2, <3>3 DEF Answered
    <3>5. Reaches(att[a].s)' => Reaches(att[a].s)
      BY <2>1, <3>1 DEF Reaches, Open
    <3> QED BY <2>1, <2>2, <3>1, <3>2, <3>4, <3>5 DEF Answered
  <2> QED BY <2>2, <2>3 DEF Shown, Owed
<1>6. CASE CloseSession
  <2>1. session' = None /\ UNCHANGED <<page, link, fresh, pub, status, missed>>
    BY <1>6 DEF CloseSession, browser, caller, history
  <2>2. \A x : ShownKept(x)
    BY <2>1 DEF ShownKept, Reaches, Open
  <2>3. Announced'
    BY <1>a, <2>1, <2>2, AnnouncedKept
  <2> QED BY <2>1, <2>3 DEF Shown
<1>7. CASE ProbeHealth \/ QueryActivity \/ ExpectClose \/ ExpectNoClose \/ Close \/ Restore
           \/ StopRetrying \/ UNCHANGED vars
  BY <1>7, <1>c DEF ProbeHealth, QueryActivity, ExpectClose, ExpectNoClose, Close, Restore,
     StopRetrying, vars, browser, caller, history
<1> QED BY <1>1, <1>2, <1>3, <1>4, <1>5, <1>6, <1>7 DEF Publishing, Probing, Controller

\* Every step.
LEMMA ShownStep ==
    ASSUME TypeOK, Named, Skeleton, Absent, Calls, Announced, Shown, [Next]_vars
    PROVE  Announced' /\ Shown'
<1>1. CASE (\A a \in Attacher : ~Attach(a)) /\ (\A s \in Session : ~Cleanup(s))
  <2>1. Elsewhere
    BY <1>1, ElsewhereStep
  <2> QED BY <1>1, <2>1, ShownEvents, ShownCalls DEF Next
<1> QED BY <1>1, ShownAttach, ShownCleanup

-----------------------------------------------------------------------------
\* What holds unless a re-attach was started beside a first attach.
RaceFreeInv == /\ Skeleton /\ Remembered /\ Ordered /\ InForce
               /\ Absent /\ Calls /\ Announced /\ Shown

\* The inductive invariant.
TInv == TypeOK /\ Named /\ (~overlapped => RaceFreeInv)

\* It holds initially and every step keeps it.
LEMMA Invariance == Spec => []TInv
<1>1. Init => TInv
  <2> SUFFICES ASSUME Init PROVE TInv
    OBVIOUS
  <2>1. TypeOK /\ Named
    BY TypeInit
  <2>2. \A a \in Attacher : att[a].at \in {"idle", "connect"} /\ att[a].s = None
    BY DEF Init, Idle
  <2>3. /\ session = None /\ scripts = {} /\ committed = {} /\ page.up
        /\ \A s \in Session : clean[s].at = "no" /\ link[s].conn = "closed" /\ earlier[s] = {}
        /\ conv.on = FALSE /\ conv.sent = "no" /\ pub.at = "idle"
    BY DEF Init, NotCleaning, NoLink, NoConv, NoCall
  <2>4. att["reattach"].at = "idle"
    BY DEF Init, Idle, Attacher
  <2>5. Skeleton
    BY <2>2, <2>3, <2>4 DEF Skeleton, Turns, Slots, Cleans, Commits, Owned, Attempting, Calling
  <2>6. Remembered /\ Ordered /\ InForce
    BY <2>2, <2>3, Bounds DEF Remembered, Ordered, RunsLast, Present, InForce, Installed
  <2>7. Absent /\ Calls /\ Announced /\ Shown
    BY <2>2, <2>3 DEF Absent, Calls, Announced, Answered, Shown
  <2> QED BY <2>1, <2>5, <2>6, <2>7 DEF TInv, RaceFreeInv
<1>2. TInv /\ [Next]_vars => TInv'
  <2> SUFFICES ASSUME TInv, [Next]_vars PROVE TInv'
    OBVIOUS
  <2>1. TypeOK' /\ Named' /\ (overlapped => overlapped')
    BY TypeStep DEF TInv
  <2>2. ASSUME ~overlapped' PROVE RaceFreeInv'
    <3>1. TypeOK /\ Named /\ RaceFreeInv
      BY <2>1, <2>2 DEF TInv
    <3>2. Skeleton'
      BY <2>2, <3>1, SkeletonStep DEF RaceFreeInv
    <3>3. Remembered' /\ Ordered' /\ InForce'
      BY <3>1, RememberedStep, OrderedStep, InForceStep DEF RaceFreeInv
    <3>4. Absent' /\ Calls' /\ Announced' /\ Shown'
      BY <3>1, AbsentStep, CallsStep, ShownStep DEF RaceFreeInv
    <3> QED BY <3>2, <3>3, <3>4 DEF RaceFreeInv
  <2> QED BY <2>1, <2>2 DEF TInv
<1> QED BY <1>1, <1>2, PTL DEF Spec

(* Every connection #attachOnce opened is the session's, an attempt's or a cleanup's, *)
(* and a script that was not removed is the remembered one, through failed attaches,  *)
(* lost sessions, closes and the cleanups that run beside the next attach; unless a   *)
(* re-attach was started beside a first attach.                                      *)
THEOREM NoLeak == Spec => []NothingLeaks
<1>1. TInv => NothingLeaks
  <2> SUFFICES ASSUME TInv PROVE NothingLeaks
    OBVIOUS
  <2>1. scripts \subseteq Session
    BY TypeParts DEF TInv, RegistryTyped
  <2>2. NoLeakedSession
    BY DEF TInv, RaceFreeInv, Skeleton, Commits, Owned, NoLeakedSession
  <2>3. ScriptRemembered
    BY <2>1 DEF TInv, RaceFreeInv, Remembered, ScriptRemembered
  <2> QED BY <2>2, <2>3 DEF NothingLeaks
<1> QED BY <1>1, Invariance, PTL

(* The bridge that a document within reach of the session runs is the session's own,  *)
(* after any reloads and beside the cleanups of any earlier attachments, under the    *)
(* same exception.                                                                    *)
THEOREM PageIsCurrent == Spec => []BridgeIsCurrent
<1>1. TInv => BridgeIsCurrent
  <2> SUFFICES ASSUME TInv, ~overlapped, session # None, Reaches(session)
               PROVE  page.owner = session
    BY DEF BridgeIsCurrent
  <2>1. session \in Session
    BY TypeParts DEF TInv, SessionTyped
  <2> QED BY <2>1 DEF TInv, RaceFreeInv, InForce, Installed, Reaches
<1> QED BY <1>1, Invariance, PTL

(* Once no convergence and no publish is under way, the page shows the newest status, *)
(* although each reload brings back the one written into the bootstrap; under the     *)
(* same exception, and unless a reload was missed.                                    *)
THEOREM StatusIsLatest == Spec => []LatestStatusShown
<1>1. TInv => LatestStatusShown
  BY DEF TInv, RaceFreeInv, Shown, Owed, LatestStatusShown
<1> QED BY <1>1, Invariance, PTL
=============================================================================
