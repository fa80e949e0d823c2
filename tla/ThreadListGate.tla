---------------------------- MODULE ThreadListGate ----------------------------
(***************************************************************************)
(* Listing the tasks of the local app-server, from                         *)
(* renderer-mobile-project-view.js: the activity that an update waits for, *)
(* the hydration of the sidebar and the cleanup all list the tasks page by *)
(* page through one request client.  A gate per client lets one listing    *)
(* after the other through.  A listing that is given up leaves a request   *)
(* behind that nobody can withdraw: its client is quarantined until the    *)
(* request settles, the runtime moves to another generation, and activity  *)
(* is unknown until an inventory has been read again.  Gates and           *)
(* quarantines outlive the view, which may be injected anew at any time.   *)
(***************************************************************************)
EXTENDS Naturals, FiniteSets

CONSTANTS Client,                   \* request clients the app may offer
          Activity, Hydration, Cleanup,     \* callers, a name per call at a time
          None, Pages,
          MaxFaults                 \* timeouts, errors, restarts, injections

Call == Activity \union Hydration \union Cleanup

ASSUME CallAssumption == /\ Activity \intersect Hydration = {}
                         /\ (Activity \union Hydration) \intersect Cleanup = {}
                         /\ None \notin Client \union Call
ASSUME BoundAssumption == Pages \in Nat \ {0} /\ MaxFaults \in Nat

VARIABLES present, retired,         \* the client the app offers, those it no longer does
          runtime, gen,             \* localRuntime, localRuntimeGeneration
          gate, held, recovery,     \* the registry: gates, quarantines, recoveryPending
          call, captured,           \* the callers; what a cleanup has captured
          said, heard,              \* the last activity; what each page showed, and
                                    \* through which runtime it was read
          forked,                   \* history: clients whose gate was made anew by an old call
          faults

runtimes == <<present, retired, runtime, gen>>
registry == <<gate, held, recovery>>
vars == <<runtimes, registry, call, captured, said, heard, forked, faults>>

NoCall == [at |-> "idle", client |-> None, gen |-> 0, behind |-> None, page |-> 0, mine |-> TRUE]
Unheard == [p \in 1..Pages |-> [client |-> None, gen |-> 0, shown |-> "nothing"]]

Hearings == [1..Pages -> [client : Client \union {None}, gen : Nat,
                          shown : {"nothing", "idle", "busy", "strange"}]]

TypeOK ==
    /\ present \in Client /\ retired \subseteq Client
    /\ runtime \in Client \union {None} /\ gen \in Nat
    /\ gate \in [Client -> [gen : Nat, last : Call \union {None}]]
    /\ held \in [Client -> Call \union {None}]
    /\ recovery \in BOOLEAN
    /\ call \in [Call -> [at : {"idle", "waiting", "asked", "abandoned"},
                          client : Client \union {None}, gen : Nat,
                          behind : Call \union {None}, page : 0..Pages, mine : BOOLEAN]]
    /\ captured \in [client : Client \union {None}, gen : Nat]
    /\ said \in {"nothing", "idle", "busy", "unknown"}
    /\ heard \in Hearings
    /\ forked \subseteq Client
    /\ faults \in 0..MaxFaults

Init ==
    /\ present \in Client /\ retired = {} /\ runtime = None /\ gen = 0
    /\ gate = [c \in Client |-> [gen |-> 0, last |-> None]]
    /\ held = [c \in Client |-> None] /\ recovery = FALSE
    /\ call = [k \in Call |-> NoCall]
    /\ captured = [client |-> None, gen |-> 0]
    /\ said = "nothing" /\ heard = Unheard /\ forked = {}
    /\ faults = 0

Fault == faults < MaxFaults /\ faults' = faults + 1

-----------------------------------------------------------------------------
(* The runtime and its quarantine.                                         *)

Current(k) == call[k].mine /\ runtime = call[k].client /\ gen = call[k].gen
Asking(c) == {k \in Call : call[k].client = c /\ call[k].at \in {"asked", "abandoned"}}

(* assignLocalRuntime: a quarantined client is not taken, a client in use  *)
(* is not replaced.                                                        *)
Discover ==
    /\ runtime = None /\ held[present] = None
    /\ runtime' = present /\ gen' = gen + 1
    /\ UNCHANGED <<present, retired, registry, call, captured, said, heard, forked, faults>>

(* quarantineLocalThreadListClient: the first unsettled request counts.    *)
Quarantine(k) ==
    LET c == call[k].client
    IN IF held[c] # None THEN UNCHANGED <<held, recovery, runtime, gen>>
       ELSE /\ held' = [held EXCEPT ![c] = k]
            /\ recovery' = TRUE
            /\ IF Current(k) THEN runtime' = None /\ gen' = gen + 1
                             ELSE UNCHANGED <<runtime, gen>>

(* Mutant: a quarantine outlives its request.                              *)
ReleaseNothing(k) == UNCHANGED held

(* The request of a call has settled, with a page or an error.             *)
Release(k) == held' = [c \in Client |-> IF held[c] = k THEN None ELSE held[c]]

(* The call is over and so are its requests: what was behind it follows    *)
(* what was before it, if anything still was.                              *)
Done(k) ==
    LET before == call[k].behind
    IN /\ call' = [j \in Call |-> IF j = k THEN NoCall
                                  ELSE IF call[j].behind = k THEN [call[j] EXCEPT !.behind = before]
                                  ELSE call[j]]
       /\ gate' = [c \in Client |-> IF gate[c].last = k THEN [gate[c] EXCEPT !.last = before]
                                    ELSE gate[c]]

-----------------------------------------------------------------------------
(* A call.                                                                 *)

Waiting(j) == call[j].at \in {"waiting", "asked"}
Expires(k) == IF call[k].client \in retired \/ held[call[k].client] # None
              THEN UNCHANGED faults ELSE Fault

(* Mutant: a listing starts at once.                                       *)
EnqueueAtOnce(k, c, g) ==
    /\ held[c] = None
    /\ gate' = [gate EXCEPT ![c] = [gen |-> g, last |-> k]]
    /\ call' = [call EXCEPT ![k] = [NoCall EXCEPT !.at = "waiting", !.client = c, !.gen = g]]
    /\ UNCHANGED forked

(* enqueueLocalThreadList: the gate is that of the client in the call's    *)
(* generation; for another generation a new one takes its place.  A client *)
(* in quarantine is not asked.                                             *)
(* History: a call of an older generation does that, too, behind the back  *)
(* of the listing that is under way.                                       *)
Enqueue(k, c, g) ==
    LET same == gate[c].gen = g
    IN /\ held[c] = None
       /\ gate' = [gate EXCEPT ![c] = [gen |-> g, last |-> k]]
       /\ call' = [call EXCEPT ![k] = [NoCall EXCEPT
                      !.at = "waiting", !.client = c, !.gen = g,
                      !.behind = IF same THEN gate[c].last ELSE None]]
       /\ forked' = IF ~same /\ ~(runtime = c /\ gen = g) THEN forked \union {c} ELSE forked

Free(k, callers) == /\ k \in callers /\ call[k].at = "idle"
                    /\ \A j \in callers : call[j].mine => ~Waiting(j)

(* Mutant: the recovery is not waited for.                                 *)
MayAskAlways == TRUE

(* Whether activity is looked for at all.                                  *)
MayAsk == ~recovery

StartActivity(k) ==
    /\ Free(k, Activity) /\ runtime # None /\ MayAsk
    /\ Enqueue(k, runtime, gen)
    /\ said' = "nothing" /\ heard' = Unheard
    /\ UNCHANGED <<runtimes, held, recovery, captured, faults>>

StartHydration(k) ==
    /\ Free(k, Hydration) /\ runtime # None
    /\ Enqueue(k, runtime, gen)
    /\ UNCHANGED <<runtimes, held, recovery, captured, said, heard, faults>>

(* A cleanup captures the runtime, and lists through it several times,     *)
(* with other requests in between.                                         *)
Capture ==
    /\ runtime # None /\ \A k \in Cleanup : call[k].mine => ~Waiting(k)
    /\ captured' = [client |-> runtime, gen |-> gen]
    /\ UNCHANGED <<runtimes, registry, call, said, heard, forked, faults>>

StartCleanup(k) ==
    /\ Free(k, Cleanup) /\ captured.client # None
    /\ Enqueue(k, captured.client, captured.gen)
    /\ UNCHANGED <<runtimes, held, recovery, captured, said, heard, faults>>

(* What an activity says when its call fails.                              *)
Fails(k) == said' = IF k \in Activity /\ call[k].mine THEN "unknown" ELSE said

(* Its turn has come: the first page is asked for, unless the runtime has  *)
(* moved on meanwhile.                                                     *)
Enter(k) ==
    /\ call[k].at = "waiting" /\ call[k].behind = None
    /\ IF Current(k)
       THEN /\ call' = [call EXCEPT ![k].at = "asked", ![k].page = 1]
            /\ UNCHANGED <<gate, said>>
       ELSE Done(k) /\ Fails(k)
    /\ UNCHANGED <<runtimes, held, recovery, captured, heard, forked, faults>>

(* The deadline passes while it waits: the caller is told, and nothing is  *)
(* done when its turn comes.                                               *)
Cancel(k) ==
    /\ call[k].at = "waiting" /\ call[k].behind # None
    /\ Done(k) /\ Fails(k) /\ Expires(k)
    /\ UNCHANGED <<runtimes, held, recovery, captured, heard, forked>>

-----------------------------------------------------------------------------
(* Answers.                                                                *)

(* clearLocalThreadListRecovery, after the last page of a hydration.       *)
Recovered(k) == k \in Hydration /\ Current(k) /\ held[call[k].client] = None

Strange == \E p \in 1..Pages : heard'[p].shown = "strange"

(* Mutant: an activity believes the listing of a view that is disposed.    *)
SaysUnguarded(k, x, last) ==
    said' = IF k \notin Activity THEN said
            ELSE IF x = "busy" THEN "busy"
            ELSE IF Strange THEN "unknown" ELSE "idle"

(* What an activity says at its end: busy at the first busy task, idle     *)
(* when all pages were, and nothing known through a runtime that moved on. *)
(* A disposed view gets an empty listing.                                  *)
Says(k, x, last) ==
    said' = IF k \notin Activity THEN said
            ELSE IF ~call[k].mine THEN "unknown"
            ELSE IF ~Current(k) THEN "unknown"
            ELSE IF x = "busy" THEN "busy"
            ELSE IF last /\ ~Strange THEN "idle" ELSE "unknown"

(* Mutant: the listing ends one page early.                                *)
LastButOne(k) == call[k].page + 1 >= Pages

Last(k) == call[k].page = Pages

(* A page arrives: activity stops at the first busy task, a disposed view  *)
(* at once, and a runtime that has moved on is not asked again.            *)
Answer(k, x) ==
    /\ call[k].at = "asked"
    /\ heard' = IF k \in Activity /\ call[k].mine
                THEN [heard EXCEPT ![call[k].page] =
                         [client |-> call[k].client, gen |-> call[k].gen, shown |-> x]]
                ELSE heard
    /\ IF Last(k) \/ ~Current(k) \/ (k \in Activity /\ x = "busy")
       THEN /\ Done(k)
            /\ Says(k, x, Last(k))
            /\ recovery' = (recovery /\ ~(Last(k) /\ Recovered(k)))
       ELSE /\ call' = [call EXCEPT ![k].page = @ + 1]
            /\ UNCHANGED <<gate, said, recovery>>
    /\ Release(k)
    /\ UNCHANGED <<runtimes, captured, forked, faults>>

(* The request is refused or its data malformed.                           *)
Refuse(k) ==
    /\ call[k].at = "asked" /\ Fault
    /\ Done(k) /\ Release(k) /\ Fails(k)
    /\ UNCHANGED <<runtimes, recovery, captured, heard, forked>>

(* The request, or the whole call, has taken too long.                     *)
TimeOut(k) ==
    /\ call[k].at = "asked"
    /\ Expires(k)
    /\ call' = [call EXCEPT ![k].at = "abandoned"]
    /\ Quarantine(k) /\ Fails(k)
    /\ UNCHANGED <<present, retired, gate, captured, heard, forked>>

(* The abandoned request settles after all.                                *)
Settle(k) ==
    /\ call[k].at = "abandoned"
    /\ Done(k) /\ Release(k)
    /\ UNCHANGED <<runtimes, recovery, captured, said, heard, forked, faults>>

-----------------------------------------------------------------------------
(* The app and the view.                                                   *)

(* The app-server restarts: the app offers another client, for good, and   *)
(* (an assumption about the app) the old one answers no more.              *)
Restart ==
    /\ Fault
    /\ \E c \in Client \ (retired \union {present}) : present' = c
    /\ retired' = retired \union {present}
    /\ UNCHANGED <<runtime, gen, registry, call, captured, said, heard, forked>>

(* uninstall, and a new view: its generations start again, the registry    *)
(* stays.  Clients with unsettled requests are quarantined.                *)
Inject ==
    /\ Fault
    /\ call' = [k \in Call |-> [call[k] EXCEPT !.mine = @ /\ call[k].at = "idle"]]
    /\ held' \in {h \in [Client -> Call \union {None}] :
                    \A c \in Client : IF held[c] # None \/ Asking(c) = {} THEN h[c] = held[c]
                                                                        ELSE h[c] \in Asking(c)}
    /\ recovery' = (recovery \/ held' # held)
    /\ runtime' = None /\ gen' = 0
    /\ captured' = [client |-> None, gen |-> 0]
    /\ said' = "nothing" /\ heard' = Unheard
    /\ UNCHANGED <<present, retired, gate, forked>>

-----------------------------------------------------------------------------

Next ==
    \/ Discover \/ Capture \/ Restart \/ Inject
    \/ \E k \in Activity : StartActivity(k)
    \/ \E k \in Hydration : StartHydration(k)
    \/ \E k \in Cleanup : StartCleanup(k)
    \/ \E k \in Call :
         \/ Enter(k)
         \/ Cancel(k)
         \/ \E x \in {"idle", "busy", "strange"} : call[k].client \notin retired /\ Answer(k, x)
         \/ Refuse(k)
         \/ TimeOut(k)
         \/ Settle(k)

Spec == Init /\ [][Next]_vars

Answered(k) == call[k].client \notin retired
               /\ \E x \in {"idle", "busy", "strange"} : Answer(k, x)

(* Renders discover the runtime and hydrate again and again, timers fire,  *)
(* and a client that is still offered settles what it was asked.           *)
Fairness ==
    /\ WF_vars(Discover)
    /\ \A k \in Hydration : WF_vars(StartHydration(k))
    /\ \A k \in Call :
         /\ WF_vars(Enter(k))
         /\ WF_vars(Answered(k))
         /\ WF_vars(call[k].client \in retired /\ (TimeOut(k) \/ Cancel(k)))
         /\ WF_vars(call[k].client \notin retired /\ Settle(k))

FairSpec == Spec /\ Fairness

-----------------------------------------------------------------------------

(* One unsettled listing at a time per client, across callers, timeouts    *)
(* and views, as long as no call of an older generation has replaced the   *)
(* gate.                                                                   *)
OneListingPerClient ==
    \A c \in Client : Cardinality(Asking(c)) <= 1 \/ c \in forked

(* A quarantine ends with the request it waits for.                        *)
HoldIsBacked == \A c \in Client : held[c] # None => held[c] \in Asking(c)

(* An update hears "idle" only of a whole listing: when it is told so,     *)
(* every page, the last included, has been read since the activity began,  *)
(* showed idle tasks only, and came through the runtime and generation     *)
(* that are present at that moment.                                        *)
IdleIsEarned ==
    [][said' = "idle" /\ said # "idle"
         => \A p \in 1..Pages :
                heard'[p] = [client |-> runtime', gen |-> gen', shown |-> "idle"]]_vars

(* An activity is known only through the present runtime, and never while  *)
(* a listing that was given up has not been made good by an inventory, as  *)
(* long as no call of an older generation has replaced a gate.             *)
KnownWhenRecovered ==
    [][said' \in {"idle", "busy"} /\ said' # said
         => (~recovery' /\ runtime' # None) \/ forked' # {}]_vars

(* The sidebar recovers: an inventory is read again in the end, through    *)
(* the old client once it has settled or through a new one.                *)
Recovers == []<>~recovery

(* Every caller is told in the end, also by a client that is gone.         *)
CallersReturn == \A k \in Call : []<>~Waiting(k)

(* No gate is stuck: neither the sidebar nor a caller waits for ever.       *)
GateMovesOn == Recovers /\ CallersReturn
=============================================================================
