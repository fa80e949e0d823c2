----------------------- MODULE ElectronAttach_proofs -----------------------
(***************************************************************************)
(* Types, and the three safety properties of the shared debugger, for any  *)
(* number of clients and faults.                                           *)
(***************************************************************************)
EXTENDS ElectronAttach, FiniteSets, FiniteSetTheorems, TLAPS

\* Only the window's object has members: one that was replaced is empty.
Alone == \A r \in Client : r # root => members[r] = {}

\* The count of an object is how many it has.
Counted == \A r \in Client : refs[r] = Cardinality(members[r])

\* Who is in an object is in the one its bootstrap captured, and whoever has an
\* expression under way has captured one.
AtHome ==
    /\ \A r, c \in Client : c \in members[r] => home[c] = r
    /\ \A c \in Client : app[c] # "idle" => home[c] # None
    /\ \A c \in Client : pc[c] = "new" => home[c] = None

\* An open session is in the window's object and in the debugger.
Opened ==
    \A c \in sid : /\ root # None /\ c \in members[root] /\ app[c] = "idle"
                   /\ ~unheard => c \in flat

\* The window's object stands for our hold of the debugger.
Held == /\ attached = "ours" => root # None
        /\ ~unheard /\ root # None => attached = "ours"

IInv == TypeOK /\ Alone /\ Counted /\ AtHome /\ Opened /\ Held

LEMMA SubsetsFinite == ASSUME NEW S \in SUBSET Client PROVE IsFiniteSet(S)
<1>1. 1 \in Int /\ Clients \in Int BY ClientsAssumption
<1>2. IsFiniteSet(1..Clients) BY <1>1, FS_Interval, Zenon
<1> QED BY <1>2, FS_Subset DEF Client

LEMMA EmptyCount == ASSUME NEW S \in SUBSET Client
                    PROVE  /\ Cardinality(S) \in Nat /\ (Cardinality(S) = 0 <=> S = {})
                           /\ \A c : Cardinality(S \cup {c}) = IF c \in S THEN Cardinality(S)
                                                               ELSE Cardinality(S) + 1
                           /\ \A c : Cardinality(S \ {c}) = IF c \in S THEN Cardinality(S) - 1
                                                            ELSE Cardinality(S)
<1>1. IsFiniteSet(S) BY SubsetsFinite
<1>2. Cardinality(S) \in Nat BY <1>1, FS_CardinalityType
<1>3. Cardinality(S) = 0 <=> S = {} BY <1>1, FS_EmptySet
<1>4. ASSUME NEW c PROVE Cardinality(S \cup {c}) = IF c \in S THEN Cardinality(S)
                                                   ELSE Cardinality(S) + 1
  BY <1>1, FS_AddElement
<1>5. ASSUME NEW c PROVE Cardinality(S \ {c}) = IF c \in S THEN Cardinality(S) - 1
                                                ELSE Cardinality(S)
  BY <1>1, FS_RemoveElement
<1> QED BY <1>2, <1>3, <1>4, <1>5

LEMMA Zero == None \notin Client
BY ClientsAssumption DEF Client, None

\* What release and the end of its await leave: everything but the pc's.
Rest == /\ attached \in {"none", "ours", "foreign"} /\ flat \subseteq Client /\ sid \subseteq Client
        /\ root \in Client \cup {None} /\ members \in [Client -> SUBSET Client]
        /\ refs \in [Client -> Nat]
        /\ app \in [Client -> {"idle", "info", "target", "rejected", "detach"}]
        /\ Alone /\ Counted /\ Opened /\ Held
        /\ \A r, c \in Client : c \in members[r] => home[c] = r
        /\ \A c \in Client : app[c] # "idle" => home[c] # None

\* clearRoot of an object that nobody is in any more, with the commands at `steps'
\* and the sessions that are `left'.
LEMMA ClearKeeps ==
    ASSUME IInv, NEW r \in Client, NEW steps, NEW left, Clear(r, steps, left),
           members' \in [Client -> SUBSET Client], refs' \in [Client -> Nat], Counted',
           \A s \in Client : members'[s] \subseteq members[s], members'[r] = {},
           sid' \subseteq sid, \A c \in sid' : c \in members'[root],
           steps \in [Client -> {"idle", "info", "target", "rejected", "detach"}],
           \A c \in Client : steps[c] \in {"idle", app[c]} \/ (steps[c] # "idle" /\ home[c] # None),
           \A c \in sid' : steps[c] = "idle",
           left \subseteq flat, \A c \in sid' : c \in flat => c \in left,
           UNCHANGED <<home, unheard>>
    PROVE  Rest'
<1> USE Zero
<1>1. CASE root = r
  <2>1. root' = None /\ attached' = "none" /\ flat' = {} /\ app' = Rejected(steps) /\ sid' = {}
    BY <1>1 DEF Clear
  <2>2. /\ app' \in [Client -> {"idle", "info", "target", "rejected", "detach"}]
        /\ \A c \in Client : app'[c] # "idle" => steps[c] # "idle"
    BY <2>1 DEF Rejected
  <2>3. Alone'
    BY <1>1, <2>1 DEF IInv, Alone
  <2> QED BY <2>1, <2>2, <2>3 DEF IInv, TypeOK, Rest, AtHome, Opened, Held
<1>2. CASE root # r
  <2>1. app' = steps /\ flat' = left /\ UNCHANGED <<root, attached>>
    BY <1>2 DEF Clear
  <2>2. Alone'
    BY <2>1 DEF IInv, Alone
  <2>3. Opened' /\ Held'
    BY <2>1 DEF IInv, Opened, Held, TypeOK
  <2> QED BY <2>1, <2>2, <2>3 DEF IInv, TypeOK, Rest, AtHome
<1> QED BY <1>1, <1>2

\* Release of a client, from wherever it comes.
LEMMA ReleaseKeeps ==
    ASSUME IInv, NEW r \in Client \cup {None}, NEW c \in Client, NEW steps,
           Release(r, c, steps),
           steps \in [Client -> {"idle", "info", "target", "rejected", "detach"}],
           \A d \in Client : steps[d] \in {"idle", app[d]},
           UNCHANGED <<home, unheard>>
    PROVE  Rest'
<1> USE Zero
<1>1. CASE r # None /\ c \in members[r]
  <2>1. Leave(r, c, steps) /\ r \in Client
    BY <1>1 DEF Release
  <2>2. /\ members' = [members EXCEPT ![r] = @ \ {c}] /\ sid' = sid \ {c}
        /\ refs' = [refs EXCEPT ![r] = IF @ = 0 THEN 0 ELSE @ - 1]
    BY <2>1 DEF Leave, Drop
  <2>3. /\ members' \in [Client -> SUBSET Client] /\ refs' \in [Client -> Nat]
        /\ \A s \in Client : members'[s] \subseteq members[s]
    BY <2>1, <2>2 DEF IInv, TypeOK
  <2>4. Counted'
    <3> SUFFICES ASSUME NEW s \in Client PROVE refs'[s] = Cardinality(members'[s])
      BY DEF Counted
    <3>1. CASE s # r BY <3>1, <2>1, <2>2 DEF IInv, TypeOK, Counted
    <3>2. CASE s = r
      <4>1. members[r] \in SUBSET Client BY <2>1 DEF IInv, TypeOK
      <4>2. refs[r] = Cardinality(members[r]) /\ refs[r] # 0 /\ refs[r] \in Nat
        BY <1>1, <2>1, <4>1, EmptyCount DEF IInv, TypeOK, Counted
      <4>3. Cardinality(members[r] \ {c}) = Cardinality(members[r]) - 1
        BY <1>1, <4>1, EmptyCount
      <4>4. refs'[r] = refs[r] - 1 BY <2>1, <2>2, <4>2 DEF IInv, TypeOK
      <4>5. members'[r] = members[r] \ {c} BY <2>1, <2>2 DEF IInv, TypeOK
      <4> QED BY <3>2, <4>2, <4>3, <4>4, <4>5
    <3> QED BY <3>1, <3>2
  <2>5. \A d \in sid' : root # None /\ d \in members'[root] /\ app[d] = "idle" /\ steps[d] = "idle"
                        /\ d \in Client /\ d # c
    BY <2>1, <2>2 DEF IInv, TypeOK, Opened
  <2>6. CASE c \in sid
    <3>1. app' = [steps EXCEPT ![c] = "detach"] /\ UNCHANGED <<root, attached, flat>>
      BY <2>1, <2>6 DEF Leave
    <3>2. home[c] = r BY <1>1, <2>1 DEF IInv, AtHome
    <3>3. Alone' BY <2>3, <3>1 DEF IInv, Alone
    <3>4. Opened' BY <2>5, <3>1, <2>2 DEF IInv, TypeOK, Opened
    <3>5. Held' BY <3>1 DEF IInv, Held
    <3>6. /\ app' \in [Client -> {"idle", "info", "target", "rejected", "detach"}]
          /\ \A d \in Client : app'[d] # "idle" => home'[d] # None
      BY <2>1, <3>1, <3>2 DEF IInv, TypeOK, AtHome
    <3> QED BY <2>1, <2>2, <2>3, <2>4, <3>1, <3>3, <3>4, <3>5, <3>6 DEF IInv, TypeOK, Rest, AtHome
  <2>7. CASE c \notin sid /\ refs'[r] = 0
    <3>1. Clear(r, steps, flat) BY <2>1, <2>7 DEF Leave
    <3>2. members'[r] = {}
      BY <2>1, <2>3, <2>4, <2>7, EmptyCount DEF Counted
    <3> QED BY <2>1, <2>2, <2>3, <2>4, <2>5, <3>1, <3>2, ClearKeeps DEF IInv, TypeOK
  <2>8. CASE c \notin sid /\ refs'[r] # 0
    <3>1. app' = steps /\ UNCHANGED <<root, attached, flat>>
      BY <2>1, <2>8 DEF Leave
    <3>3. Alone' BY <2>3, <3>1 DEF IInv, Alone
    <3>4. Opened' BY <2>5, <3>1, <2>2 DEF IInv, TypeOK, Opened
    <3>5. Held' BY <3>1 DEF IInv, Held
    <3> QED BY <2>1, <2>2, <2>3, <2>4, <3>1, <3>3, <3>4, <3>5 DEF IInv, TypeOK, Rest, AtHome
  <2> QED BY <2>6, <2>7, <2>8
<1>2. CASE ~(r # None /\ c \in members[r])
  <2>1. app' = steps /\ UNCHANGED <<attached, flat, root, members, refs, sid>>
    BY <1>2 DEF Release, object
  <2> QED BY <2>1 DEF IInv, TypeOK, Rest, Alone, Counted, AtHome, Opened, Held
<1> QED BY <1>1, <1>2

\* The members that are left belong to no step of a bootstrap, so it is enough to
\* look at the pc's beside Rest.
LEMMA Whole ==
    ASSUME Rest', home' \in [Client -> Client \cup {None}],
           pc' \in [Client -> {"new", "boot", "up", "closed"}],
           answer' \in [Client -> {"none", "ok", "fail"}],
           gone' \in [Client -> {"no", "pending", "open"}],
           faults' \in Nat, unheard' \in BOOLEAN,
           \A c \in Client : pc'[c] = "new" => home'[c] = None
    PROVE  IInv'
BY DEF Rest, IInv, TypeOK, AtHome

LEMMA Budget == ASSUME TypeOK, Fault \/ NoFault PROVE faults' \in Nat
BY DEF TypeOK, Fault, NoFault

LEMMA Told == ASSUME TypeOK, NEW c \in Client PROVE Notice(c) \in {"no", "pending", "open"}
BY DEF TypeOK, Notice

LEMMA InitInv == Init => IInv
<1> USE Zero
<1> SUFFICES ASSUME Init PROVE IInv OBVIOUS
<1>1. TypeOK BY DEF Init, TypeOK
<1>2. Counted BY FS_EmptySet DEF Init, Counted
<1> QED BY <1>1, <1>2 DEF Init, IInv, Alone, AtHome, Opened, Held

LEMMA JoinKeeps == ASSUME IInv, NEW c \in Client, Bootstrap(c), root # None, Join(c)
                   PROVE  IInv'
<1> USE Zero
<1>1. /\ root \in Client /\ pc[c] = "new" /\ home[c] = None /\ c \notin members[root]
      /\ c \notin sid
  BY DEF IInv, TypeOK, AtHome, Opened, Bootstrap
<1>2. /\ members' = [members EXCEPT ![root] = @ \cup {c}] /\ refs' = [refs EXCEPT ![root] = @ + 1]
      /\ home' = [home EXCEPT ![c] = root] /\ UNCHANGED <<root, attached, sid, gone>>
      /\ pc' = [pc EXCEPT ![c] = "boot"] /\ app' = [app EXCEPT ![c] = "info"]
      /\ UNCHANGED <<flat, answer, faults, unheard>>
  BY DEF Join, Bootstrap
<1>3. TypeOK' BY <1>1, <1>2 DEF IInv, TypeOK
<1>4. Alone' BY <1>1, <1>2 DEF IInv, TypeOK, Alone
<1>5. Counted'
  <2> SUFFICES ASSUME NEW s \in Client PROVE refs'[s] = Cardinality(members'[s])
    BY DEF Counted
  <2>1. CASE s # root BY <2>1, <1>1, <1>2 DEF IInv, TypeOK, Counted
  <2>2. CASE s = root
    <3>1. members[root] \in SUBSET Client BY <1>1 DEF IInv, TypeOK
    <3>2. Cardinality(members[root] \cup {c}) = Cardinality(members[root]) + 1
      BY <1>1, <3>1, EmptyCount
    <3> QED BY <2>2, <3>2, <1>1, <1>2 DEF IInv, TypeOK, Counted
  <2> QED BY <2>1, <2>2
<1>6. AtHome' BY <1>1, <1>2 DEF IInv, TypeOK, AtHome
<1>7. Opened' BY <1>1, <1>2 DEF IInv, TypeOK, Opened
<1>8. Held' BY <1>2 DEF IInv, Held
<1> QED BY <1>3, <1>4, <1>5, <1>6, <1>7, <1>8 DEF IInv

LEMMA FoundKeeps == ASSUME IInv, NEW c \in Client, Bootstrap(c), Found(c)
                    PROVE  IInv'
<1> USE Zero
<1>1. pc[c] = "new" /\ home[c] = None /\ c \notin sid
  BY DEF IInv, TypeOK, AtHome, Opened, Bootstrap
<1>2. /\ attached = "none" /\ attached' = "ours" /\ root' = c /\ home' = [home EXCEPT ![c] = c]
      /\ sid' = sid \ Inside /\ pc' = [pc EXCEPT ![c] = "boot"] /\ app' = [app EXCEPT ![c] = "info"]
      /\ UNCHANGED <<flat, answer, faults, unheard>>
      /\ gone' = [d \in Client |-> IF d \in Inside THEN Notice(d) ELSE gone[d]]
  BY DEF Found, Bootstrap, TellAll
<1>3. sid' = {} BY <1>2 DEF IInv, Opened, Inside
<1>4. /\ members' \in [Client -> SUBSET Client] /\ refs' \in [Client -> Nat]
      /\ members'[c] = {c} /\ refs'[c] = 1
      /\ \A s \in Client : s # c => members'[s] = {} /\ refs'[s] = 0
  <2>1. \A s \in Client : members[s] = {} => refs[s] = 0
    BY FS_EmptySet DEF IInv, Counted
  <2>2. CASE root = None
    <3>1. members' = [members EXCEPT ![c] = {c}] /\ refs' = [refs EXCEPT ![c] = 1]
      BY <2>2 DEF Found
    <3> QED BY <2>1, <2>2, <3>1 DEF IInv, TypeOK, Alone
  <2>3. CASE root # None
    <3>1. /\ members' = [[members EXCEPT ![root] = {}] EXCEPT ![c] = {c}]
          /\ refs' = [[refs EXCEPT ![root] = 0] EXCEPT ![c] = 1]
      BY <2>3 DEF Found
    <3>2. root \in Client BY <2>3 DEF IInv, TypeOK
    <3>3. members \in [Client -> SUBSET Client] /\ refs \in [Client -> Nat] BY DEF IInv, TypeOK
    <3>4. members' \in [Client -> SUBSET Client] /\ refs' \in [Client -> Nat]
      BY <3>1, <3>3
    <3>5. members'[c] = {c} /\ refs'[c] = 1
      BY <3>1, <3>3
    <3>6. \A s \in Client \ {c} : s # root => members'[s] = members[s] /\ refs'[s] = refs[s]
      BY <3>1, <3>3
    <3>7. root # c => members'[root] = {} /\ refs'[root] = 0
      BY <3>1, <3>2, <3>3
    <3> QED BY <2>1, <3>4, <3>5, <3>6, <3>7 DEF IInv, Alone
  <2> QED BY <2>2, <2>3
<1>5. TypeOK'
  <2>1. gone' \in [Client -> {"no", "pending", "open"}]
    <3>1. \A d \in Client : Notice(d) \in {"no", "pending", "open"} BY Told DEF IInv
    <3> QED BY <1>2, <3>1 DEF IInv, TypeOK
  <2>2. home' \in [Client -> Client \cup {None}] /\ root' \in Client \cup {None}
    BY <1>2 DEF IInv, TypeOK
  <2>3. /\ app' \in [Client -> {"idle", "info", "target", "rejected", "detach"}]
        /\ pc' \in [Client -> {"new", "boot", "up", "closed"}]
    BY <1>2 DEF IInv, TypeOK
  <2> QED BY <1>2, <1>3, <1>4, <2>1, <2>2, <2>3 DEF IInv, TypeOK
<1>6. Alone' BY <1>2, <1>4 DEF Alone
<1>7. Counted'
  <2>1. Cardinality({c}) = 1 BY FS_Singleton
  <2> QED BY <1>4, <2>1, FS_EmptySet DEF Counted
<1>8. AtHome' BY <1>1, <1>2, <1>4 DEF IInv, TypeOK, AtHome
<1>9. Opened' BY <1>3 DEF Opened
<1>10. Held' BY <1>2 DEF Held
<1> QED BY <1>5, <1>6, <1>7, <1>8, <1>9, <1>10 DEF IInv

LEMMA StepInv == IInv /\ [Next]_vars => IInv'
<1> USE Zero
<1> SUFFICES ASSUME IInv, [Next]_vars PROVE IInv'
  OBVIOUS
<1> USE DEF object, inApp, atClient
<1>1. ASSUME NEW c \in Client, Bootstrap(c) PROVE IInv'
  <2>1. CASE root # None /\ attached # "none" BY <1>1, <2>1, JoinKeeps DEF Bootstrap
  <2>2. CASE ~(root # None /\ attached # "none") BY <1>1, <2>2, FoundKeeps DEF Bootstrap
  <2> QED BY <2>1, <2>2
<1>2. ASSUME NEW c \in Client, Refused(c) PROVE IInv'
  <2>1. faults' \in Nat BY <1>2, Budget DEF IInv, Refused
  <2> QED BY <1>2, <2>1 DEF Refused, IInv, TypeOK, Alone, Counted, AtHome, Opened, Held
<1>3. ASSUME NEW c \in Client, TargetKnown(c) PROVE IInv'
  BY <1>3 DEF TargetKnown, IInv, TypeOK, Alone, Counted, AtHome, Opened, Held
<1>4. ASSUME NEW c \in Client, SessionOpen(c) PROVE IInv'
  <2>1. home[c] \in Client BY <1>4 DEF SessionOpen, IInv, TypeOK, AtHome
  <2>2. c \in members[home[c]] => home[c] = root BY <2>1 DEF IInv, Alone
  <2>3. Opened' BY <1>4, <2>1, <2>2 DEF SessionOpen, IInv, TypeOK, Opened
  <2> QED BY <1>4, <2>3 DEF SessionOpen, IInv, TypeOK, Alone, Counted, AtHome, Held
<1>5. ASSUME NEW c \in Client, BootstrapFails(c) PROVE IInv'
  <2> DEFINE steps == [app EXCEPT ![c] = "idle"]
  <2>1. /\ Release(home[c], c, steps) /\ UNCHANGED <<home, pc, unheard>>
        /\ gone' = IF c \in members[home[c]] THEN [gone EXCEPT ![c] = Notice(c)] ELSE gone
        /\ answer' = [answer EXCEPT ![c] = IF pc[c] = "boot" THEN "fail" ELSE @]
    BY <1>5 DEF BootstrapFails
  <2>2. /\ steps \in [Client -> {"idle", "info", "target", "rejected", "detach"}]
        /\ \A d \in Client : steps[d] \in {"idle", app[d]}
        /\ home[c] \in Client \cup {None}
    BY DEF IInv, TypeOK
  <2> HIDE DEF steps
  <2>3. Rest' BY <2>1, <2>2, ReleaseKeeps
  <2>4. faults' \in Nat BY <1>5, Budget DEF BootstrapFails, IInv
  <2>5. Notice(c) \in {"no", "pending", "open"} BY Told DEF IInv
  <2> QED BY <2>1, <2>3, <2>4, <2>5, Whole DEF IInv, TypeOK, AtHome
<1>6. ASSUME NEW c \in Client, Sweep(c) PROVE IInv'
  <2>1. /\ Release(root, c, app) /\ UNCHANGED <<home, pc, answer, unheard>>
        /\ gone' = [gone EXCEPT ![c] = Notice(c)]
    BY <1>6 DEF Sweep, Expire
  <2>2. Rest' BY <2>1, ReleaseKeeps DEF IInv, TypeOK
  <2>3. faults' \in Nat BY <1>6, Budget DEF Sweep, Expire, IInv
  <2>4. Notice(c) \in {"no", "pending", "open"} BY Told DEF IInv
  <2> QED BY <2>1, <2>2, <2>3, <2>4, Whole DEF IInv, TypeOK, AtHome
<1>7. ASSUME NEW c \in Client, Released(c) PROVE IInv'
  <2> DEFINE steps == [app EXCEPT ![c] = "idle"]
  <2>1. UNCHANGED <<members, refs, home, sid, pc, answer, gone, faults, unheard>> /\ app[c] = "detach"
    BY <1>7 DEF Released
  <2>2. home[c] \in Client /\ c \notin sid
    BY <2>1 DEF IInv, TypeOK, AtHome, Opened
  <2>3. /\ steps \in [Client -> {"idle", "info", "target", "rejected", "detach"}]
        /\ \A d \in Client : steps[d] \in {"idle", app[d]}
        /\ \A d \in sid : steps[d] = "idle"
    BY DEF IInv, TypeOK, Opened
  <2>4. CASE refs[home[c]] = 0
    <3>1. Clear(home[c], steps, flat \ {c}) BY <1>7, <2>4 DEF Released
    <3>2. members[home[c]] = {} BY <2>2, <2>4, EmptyCount DEF IInv, TypeOK, Counted
    <3>3. \A d \in sid : d \in members'[root] /\ d # c BY <2>1, <2>2 DEF IInv, Opened
    <3> HIDE DEF steps
    <3>4. Rest'
      BY <2>1, <2>2, <2>3, <3>1, <3>2, <3>3, ClearKeeps DEF IInv, TypeOK, Counted
    <3> QED BY <2>1, <3>4, Whole DEF IInv, TypeOK, AtHome
  <2>5. CASE refs[home[c]] # 0
    <3>1. app' = steps /\ flat' = flat \ {c} /\ UNCHANGED <<root, attached>>
      BY <1>7, <2>5 DEF Released
    <3> QED BY <2>1, <2>2, <2>3, <3>1 DEF IInv, TypeOK, Alone, Counted, AtHome, Opened, Held
  <2> QED BY <2>4, <2>5
<1>8. ASSUME NEW c \in Client, HearDetach(c) \/ GivesUp(c) \/ Lose(c) PROVE IInv'
  <2>1. faults' \in Nat BY <1>8, Budget DEF IInv, TypeOK, HearDetach, GivesUp, Lose
  <2>2. /\ UNCHANGED <<attached, flat, root, members, refs, home, app, sid, unheard>>
        /\ pc' = [pc EXCEPT ![c] = "closed"] /\ gone' = [gone EXCEPT ![c] = "no"]
        /\ answer' = [answer EXCEPT ![c] = "none"]
    BY <1>8 DEF HearDetach, GivesUp, Lose, Closed
  <2> QED BY <2>1, <2>2 DEF IInv, TypeOK, Alone, Counted, AtHome, Opened, Held
<1>9. ASSUME NEW c \in Client, Attached(c) PROVE IInv'
  BY <1>9 DEF Attached, IInv, TypeOK, Alone, Counted, AtHome, Opened, Held
<1>10. ASSUME NEW c \in Client, Heartbeat(c) \/ Close(c) PROVE IInv'
  <2>1. Quits(c) /\ faults' \in Nat
    BY <1>10, Budget DEF Heartbeat, Close, IInv
  <2>2. /\ pc' = [pc EXCEPT ![c] = "closed"] /\ gone' = [gone EXCEPT ![c] = "no"]
        /\ Release(root, c, app) /\ UNCHANGED <<home, answer, unheard>>
    BY <2>1 DEF Quits, Closed
  <2>3. Rest' BY <2>2, ReleaseKeeps DEF IInv, TypeOK
  <2> QED BY <2>1, <2>2, <2>3, Whole DEF IInv, TypeOK, AtHome
<1>11. ASSUME TakenAway PROVE IInv'
  <2>1. /\ root \in Client /\ faults' \in Nat
        /\ gone' = [d \in Client |-> IF d \in Inside THEN Notice(d) ELSE gone[d]]
        /\ sid' = sid \ Inside
        /\ members' = [members EXCEPT ![root] = {}] /\ refs' = [refs EXCEPT ![root] = 0]
        /\ UNCHANGED <<home, pc, answer, unheard>>
    BY <1>11, Budget DEF TakenAway, TellAll, IInv, TypeOK, Held
  <2>2. /\ root' = None /\ attached' = "none" /\ flat' = {} /\ app' = Rejected(app)
    BY <1>11 DEF TakenAway, Clear
  <2>3. sid' = {} BY <2>1 DEF IInv, Opened, Inside
  <2>4. gone' \in [Client -> {"no", "pending", "open"}]
    <3>1. \A d \in Client : Notice(d) \in {"no", "pending", "open"} BY Told DEF IInv
    <3> QED BY <2>1, <3>1 DEF IInv, TypeOK
  <2>5. /\ app' \in [Client -> {"idle", "info", "target", "rejected", "detach"}]
        /\ \A d \in Client : app'[d] # "idle" => app[d] # "idle"
    BY <2>2 DEF Rejected, IInv, TypeOK
  <2>6. TypeOK'
    <3>1. members' \in [Client -> SUBSET Client] /\ refs' \in [Client -> Nat]
      BY <2>1 DEF IInv, TypeOK
    <3> QED BY <2>1, <2>2, <2>3, <2>4, <2>5, <3>1 DEF IInv, TypeOK
  <2>7. Alone' BY <2>1 DEF IInv, TypeOK, Alone
  <2>8. Counted' BY <2>1, FS_EmptySet DEF IInv, TypeOK, Counted
  <2>9. AtHome' BY <2>1, <2>5 DEF IInv, TypeOK, AtHome
  <2> QED BY <2>2, <2>3, <2>6, <2>7, <2>8, <2>9 DEF IInv, Opened, Held
<1>12. ASSUME Unplugged PROVE IInv'
  <2>1. /\ faults' \in Nat /\ unheard' = TRUE /\ attached' = "none" /\ flat' = {}
        /\ app' = Rejected(app) /\ UNCHANGED <<root, members, refs, home, sid, pc, answer, gone>>
    BY <1>12, Budget DEF Unplugged, IInv
  <2>2. /\ app' \in [Client -> {"idle", "info", "target", "rejected", "detach"}]
        /\ \A d \in Client : app'[d] # "idle" <=> app[d] # "idle"
    BY <2>1 DEF Rejected, IInv, TypeOK
  <2> QED BY <2>1, <2>2 DEF IInv, TypeOK, Alone, Counted, AtHome, Opened, Held
<1>13. ASSUME ForeignAttaches \/ ForeignDetaches PROVE IInv'
  BY <1>13 DEF ForeignAttaches, ForeignDetaches, IInv, TypeOK, Alone, Counted, AtHome, Opened, Held
<1>14. CASE UNCHANGED vars
  BY <1>14 DEF vars, IInv, TypeOK, Alone, Counted, AtHome, Opened, Held
<1> QED BY <1>1, <1>2, <1>3, <1>4, <1>5, <1>6, <1>7, <1>8, <1>9, <1>10, <1>11, <1>12, <1>13, <1>14
        DEF Next, InApp, InClient

\* Everything the clients, the app and the window are said to be, they are.
THEOREM TypeCorrect == Spec => []TypeOK
<1>1. IInv => TypeOK BY DEF IInv
<1> QED BY <1>1, InitInv, StepInv, PTL DEF Spec

\* A client whose session is in the window's object has an open session of a debugger
\* that is ours: the commands it is allowed to send are carried out.
THEOREM SessionsAreReal == Spec => []OpenIsReal
<1>1. IInv => OpenIsReal
  BY DEF IInv, Opened, Held, OpenIsReal, Live
<1> QED BY <1>1, InitInv, StepInv, PTL DEF Spec

\* Nothing of ours detaches a debugger that another client has taken.
THEOREM NoForeignDetached == Spec => ForeignSpared
<1> USE Zero DEF object, inApp, atClient
<1>1. ASSUME IInv, [Next]_vars, attached = "foreign", ~unheard
      PROVE  attached' = "foreign" \/ ForeignDetaches
  <2>1. root = None BY <1>1 DEF IInv, Held
  <2>2. ASSUME NEW c \in Client, NEW steps, Release(root, c, steps) PROVE attached' = attached
    BY <2>1, <2>2 DEF Release
  <2>3. ASSUME NEW r \in Client, NEW steps, NEW left, Clear(r, steps, left)
        PROVE  attached' = attached
    BY <2>1, <2>3 DEF Clear
  <2>4. ASSUME NEW c \in Client, BootstrapFails(c) PROVE attached' = attached
    <3>1. home[c] # None => home[c] \in Client BY <1>1 DEF IInv, TypeOK
    <3>2. c \notin members[home[c]] \/ home[c] = None BY <1>1, <2>1, <3>1 DEF IInv, Alone
    <3> QED BY <2>4, <3>2 DEF BootstrapFails, Release
  <2>5. ASSUME NEW c \in Client, Released(c) PROVE attached' = attached
    <3>1. home[c] \in Client BY <1>1, <2>5 DEF Released, IInv, TypeOK, AtHome
    <3> QED BY <2>3, <2>5, <3>1 DEF Released
  <2>6. ASSUME NEW c \in Client, Bootstrap(c) PROVE FALSE
    BY <1>1, <2>1, <2>6 DEF Bootstrap, Found
  <2> QED BY <1>1, <2>2, <2>4, <2>5, <2>6
          DEF Next, InApp, InClient, vars, Refused, TargetKnown, SessionOpen, Sweep, Expire,
              HearDetach, Attached, GivesUp, Heartbeat, Close, Quits, Lose, TakenAway, Unplugged,
              ForeignAttaches
<1>2. IInv /\ [Next]_vars =>
        [attached = "foreign" /\ ~unheard => attached' = "foreign" \/ ForeignDetaches]_vars
  BY <1>1
<1> QED BY <1>2, InitInv, StepInv, PTL DEF Spec, ForeignSpared

LEMMA ReleaseSpares ==
    ASSUME IInv, NEW r \in Client \cup {None}, NEW c \in Client, NEW d \in Client, c # d,
           Live(c), NEW steps, Release(r, d, steps)
    PROVE  Live(c)'
<1> USE Zero
<1>1. root \in Client /\ c \in members[root] /\ c \in sid
  BY DEF Live, IInv, TypeOK
<1>2. CASE r # None /\ d \in members[r]
  <2>1. r = root BY <1>1, <1>2 DEF IInv, Alone
  <2>2. /\ Leave(root, d, steps)
        /\ members' = [members EXCEPT ![root] = @ \ {d}] /\ sid' = sid \ {d}
        /\ refs' = [refs EXCEPT ![root] = IF @ = 0 THEN 0 ELSE @ - 1]
    BY <1>2, <2>1 DEF Release, Leave, Drop
  <2>3. c \in members'[root] /\ c \in sid'
    BY <1>1, <2>2 DEF IInv, TypeOK
  <2>4. refs'[root] # 0
    <3>1. /\ members[root] \in SUBSET Client /\ members[root] \ {d} \in SUBSET Client
          /\ members[root] \ {d} # {}
      BY <1>1 DEF IInv, TypeOK
    <3>2. Cardinality(members[root] \ {d}) # 0 BY <3>1, EmptyCount
    <3>3. /\ Cardinality(members[root] \ {d}) = Cardinality(members[root]) - 1
          /\ Cardinality(members[root]) \in Nat /\ Cardinality(members[root]) # 0
      BY <1>1, <1>2, <2>1, <3>1, EmptyCount
    <3>4. refs[root] = Cardinality(members[root]) BY <1>1 DEF IInv, Counted
    <3>5. refs'[root] = refs[root] - 1 BY <1>1, <2>2, <3>3, <3>4 DEF IInv, TypeOK
    <3> QED BY <3>2, <3>3, <3>4, <3>5
  <2>5. root' = root BY <2>2, <2>4 DEF Leave
  <2> QED BY <1>1, <2>3, <2>5 DEF Live
<1>3. CASE ~(r # None /\ d \in members[r])
  BY <1>3 DEF Release, object, Live
<1> QED BY <1>2, <1>3

\* Clients that leave, fail, are swept or go on with an object that was replaced never
\* end the open session of another.
THEOREM LeavingIsPrivate == Spec => OthersGoOn
<1> USE Zero DEF object, inApp, atClient
<1> DEFINE Ends(c) == Heartbeat(c) \/ Close(c) \/ Sweep(c) \/ TakenAway \/ unheard
<1>1. ASSUME IInv, [Next]_vars, NEW c \in Client, Live(c), ~Ends(c)
      PROVE  Live(c)'
  <2>1. root \in Client /\ c \in members[root] /\ c \in sid /\ attached = "ours" /\ app[c] = "idle"
    BY <1>1 DEF Live, IInv, TypeOK, Opened, Held
  <2>2. ASSUME NEW d \in Client, Bootstrap(d) PROVE Live(c)'
    <3>1. Join(d) BY <2>1, <2>2 DEF Bootstrap
    <3> QED BY <2>1, <3>1 DEF Join, Live, IInv, TypeOK
  <2>3. ASSUME NEW d \in Client, SessionOpen(d) PROVE Live(c)'
    BY <2>1, <2>3 DEF SessionOpen, Live
  <2>4. ASSUME NEW d \in Client, BootstrapFails(d) PROVE Live(c)'
    <3>1. d # c BY <2>1, <2>4 DEF BootstrapFails
    <3>2. home[d] \in Client \cup {None} BY <1>1 DEF IInv, TypeOK
    <3>3. Release(home[d], d, [app EXCEPT ![d] = "idle"]) BY <2>4 DEF BootstrapFails
    <3> QED BY <1>1, <3>1, <3>2, <3>3, ReleaseSpares
  <2>5. ASSUME NEW d \in Client, Sweep(d) \/ Heartbeat(d) \/ Close(d) PROVE Live(c)'
    <3>1. d # c BY <1>1, <2>5
    <3>2. Release(root, d, app) BY <2>5 DEF Sweep, Expire, Heartbeat, Close, Quits
    <3> QED BY <1>1, <2>1, <3>1, <3>2, ReleaseSpares
  <2>6. ASSUME NEW d \in Client, Released(d) PROVE Live(c)'
    <3>1. home[d] \in Client BY <1>1, <2>6 DEF Released, IInv, TypeOK, AtHome
    <3>2. UNCHANGED <<members, sid>> BY <2>6 DEF Released
    <3>3. refs[home[d]] = 0 => home[d] # root
      BY <1>1, <2>1, <3>1, EmptyCount DEF IInv, TypeOK, Counted
    <3>4. root' = root BY <2>6, <3>3 DEF Released, Clear
    <3> QED BY <2>1, <3>2, <3>4 DEF Live
  <2> QED BY <1>1, <2>1, <2>2, <2>3, <2>4, <2>5, <2>6
          DEF Next, InApp, InClient, vars, Live, Refused, TargetKnown, HearDetach, Attached, GivesUp,
              Lose, Unplugged, ForeignAttaches, ForeignDetaches
<1>2. IInv /\ [Next]_vars =>
        [\A c \in Client : Live(c) =>
            Live(c)' \/ Heartbeat(c) \/ Close(c) \/ Sweep(c) \/ TakenAway \/ unheard]_vars
  BY <1>1
<1> QED BY <1>2, InitInv, StepInv, PTL DEF Spec, OthersGoOn
=============================================================================
