------------------------- MODULE ThreadListGate_proofs -------------------------
(***************************************************************************)
(* Proofs about the gate of the task listings, for any clients, callers,    *)
(* pages and faults.                                                        *)
(*                                                                         *)
(* That a client has one listing at a time rests on three facts.  The calls *)
(* of the present runtime wait in one queue, in which no two calls wait for *)
(* the same one and nobody yet waits for the last (no finiteness or         *)
(* connectedness is needed).  Whoever has asked is of the present runtime   *)
(* or holds its client in quarantine.  And a client in quarantine is not    *)
(* the runtime.  What an activity says rests on the same facts: a listing   *)
(* that is given up takes the runtime with it, so no activity of the        *)
(* present runtime is left when a recovery becomes pending; and the pages   *)
(* before the one an activity asks for have all been read through the       *)
(* runtime that it began with.                                              *)
(***************************************************************************)
EXTENDS ThreadListGate, FiniteSetTheorems, TLAPS

Busy(k) == call[k].at # "idle"
Asks(k) == call[k].at \in {"asked", "abandoned"}
Present(k) == Busy(k) /\ Current(k)

(* The queue of a gate: S are its calls, every one of the present runtime   *)
(* among them.                                                              *)
QueueOf(c, S) ==
    /\ \A i \in S : Busy(i)
    /\ \A i, j \in S : call[i].behind = call[j].behind => i = j
    /\ \A i \in S : call[i].behind # gate[c].last /\ call[i].behind \in S \union {None}
    /\ gate[c].last \in S \union {None}
    /\ \A k \in Call : Present(k) /\ call[k].client = c => k \in S

Queued == \A c \in Client \ forked : \E S \in SUBSET Call : QueueOf(c, S)

(* What has a place in a queue has a client; what has asked was the first.  *)
Placed == \A k \in Call : /\ Busy(k) => call[k].client \in Client
                          /\ Asks(k) => call[k].behind = None

(* Generations only grow while a view lives.                                *)
Older == /\ \A k \in Call : Busy(k) /\ call[k].mine => call[k].gen <= gen
         /\ captured.gen <= gen

GateIsPresent == \A c \in Client \ forked : \A k \in Call :
                     Present(k) /\ call[k].client = c => gate[c].gen = gen

RuntimeIsFree == \A c \in Client \ forked : runtime = c => held[c] = None

AskersAreKnown == \A c \in Client \ forked : \A k \in Asking(c) : held[c] = k \/ Current(k)

(* The activity that is under way is alone, and has read every page before  *)
(* the one it asks for through its own runtime, and nothing busy there.     *)
ReadBefore(k) == \A p \in 1..Pages :
    call[k].at = "asked" /\ p < call[k].page
        => /\ heard[p].client = call[k].client /\ heard[p].gen = call[k].gen
           /\ heard[p].shown \in {"idle", "strange"}

Listening == \A k \in Activity :
    call[k].mine /\ Waiting(k)
        => ReadBefore(k) /\ \A j \in Activity : call[j].mine /\ Waiting(j) => j = k

Gate == Queued /\ Placed /\ Older /\ GateIsPresent /\ RuntimeIsFree /\ AskersAreKnown

IInv == TypeOK /\ HoldIsBacked /\ Gate /\ Listening

-----------------------------------------------------------------------------
(* Types.                                                                   *)

CallType == [at : {"idle", "waiting", "asked", "abandoned"},
             client : Client \union {None}, gen : Nat,
             behind : Call \union {None}, page : 0..Pages, mine : BOOLEAN]

LEMMA UnheardTyped == Unheard \in Hearings
  BY DEF Unheard, Hearings

LEMMA FaultTyped == ASSUME TypeOK, Fault PROVE faults' \in 0..MaxFaults
  BY BoundAssumption DEF TypeOK, Fault

LEMMA ExpiresTyped == ASSUME TypeOK, NEW k \in Call, Expires(k) PROVE faults' \in 0..MaxFaults
  BY FaultTyped DEF TypeOK, Expires

LEMMA NoCallTyped == NoCall \in CallType
  BY BoundAssumption DEF NoCall, CallType

(* What becomes of the calls and the gates when a call is over.             *)
LEMMA DoneEffect ==
    ASSUME TypeOK, NEW k \in Call, Done(k)
    PROVE  /\ call' \in [Call -> CallType]
           /\ gate' \in [Client -> [gen : Nat, last : Call \union {None}]]
           /\ call'[k] = NoCall
           /\ \A j \in Call \ {k} :
                 /\ call'[j].at = call[j].at /\ call'[j].client = call[j].client
                 /\ call'[j].gen = call[j].gen /\ call'[j].mine = call[j].mine
                 /\ call'[j].page = call[j].page
                 /\ call'[j].behind = IF call[j].behind = k THEN call[k].behind
                                      ELSE call[j].behind
           /\ \A c \in Client :
                 /\ gate'[c].gen = gate[c].gen
                 /\ gate'[c].last = IF gate[c].last = k THEN call[k].behind ELSE gate[c].last
<1>1. call[k].behind \in Call \union {None}
  BY DEF TypeOK
<1>2. \A j \in Call : [call[j] EXCEPT !.behind = call[k].behind] \in CallType
  BY <1>1 DEF TypeOK, CallType
<1>3. \A j \in Call :
          /\ [call[j] EXCEPT !.behind = call[k].behind].at = call[j].at
          /\ [call[j] EXCEPT !.behind = call[k].behind].client = call[j].client
          /\ [call[j] EXCEPT !.behind = call[k].behind].gen = call[j].gen
          /\ [call[j] EXCEPT !.behind = call[k].behind].mine = call[j].mine
          /\ [call[j] EXCEPT !.behind = call[k].behind].page = call[j].page
          /\ [call[j] EXCEPT !.behind = call[k].behind].behind = call[k].behind
  BY DEF TypeOK
<1>4. call \in [Call -> CallType]
  BY DEF TypeOK, CallType
<1>5. call' = [j \in Call |-> IF j = k THEN NoCall
                              ELSE IF call[j].behind = k
                                   THEN [call[j] EXCEPT !.behind = call[k].behind]
                              ELSE call[j]]
  BY DEF Done
<1>6. call' \in [Call -> CallType]
  BY <1>2, <1>4, <1>5, NoCallTyped
<1>7. \A c \in Client :
          /\ [gate[c] EXCEPT !.last = call[k].behind] \in [gen : Nat, last : Call \union {None}]
          /\ [gate[c] EXCEPT !.last = call[k].behind].gen = gate[c].gen
          /\ [gate[c] EXCEPT !.last = call[k].behind].last = call[k].behind
  BY <1>1 DEF TypeOK
<1>8. gate' = [c \in Client |-> IF gate[c].last = k THEN [gate[c] EXCEPT !.last = call[k].behind]
                                ELSE gate[c]]
  BY DEF Done
<1>9. gate' \in [Client -> [gen : Nat, last : Call \union {None}]]
  BY <1>7, <1>8 DEF TypeOK
<1> QED BY <1>3, <1>5, <1>6, <1>7, <1>8, <1>9

(* A call takes its place.                                                  *)
Placing(k, c, g) ==
    /\ \A j \in Call \ {k} : call'[j] = call[j]
    /\ \A d \in Client \ {c} : gate'[d] = gate[d]
    /\ call'[k].at = "waiting" /\ call'[k].client = c /\ call'[k].gen = g
    /\ call'[k].mine = TRUE
    /\ call'[k].behind = IF gate[c].gen = g THEN gate[c].last ELSE None
    /\ gate'[c].gen = g /\ gate'[c].last = k

GateTyped == /\ call \in [Call -> CallType]
             /\ gate \in [Client -> [gen : Nat, last : Call \union {None}]]
             /\ forked \subseteq Client

LEMMA EnqueueEffect ==
    ASSUME TypeOK, NEW k \in Call, NEW c \in Client, NEW g \in Nat, Enqueue(k, c, g)
    PROVE  GateTyped' /\ Placing(k, c, g)
<1> DEFINE b == IF gate[c].gen = g THEN gate[c].last ELSE None
           new == [NoCall EXCEPT !.at = "waiting", !.client = c, !.gen = g, !.behind = b]
<1>1. b \in Call \union {None}
  BY DEF TypeOK
<1> HIDE DEF b
<1>2. /\ new.at = "waiting" /\ new.client = c /\ new.gen = g
      /\ new.mine = TRUE /\ new.behind = b
  BY DEF NoCall
<1>0. new \in CallType
  BY <1>1, NoCallTyped DEF CallType
<1> HIDE DEF new
<1>3. call' = [call EXCEPT ![k] = new] /\ gate' = [gate EXCEPT ![c] = [gen |-> g, last |-> k]]
  BY DEF Enqueue, new, b
<1>4. call \in [Call -> CallType] /\ gate \in [Client -> [gen : Nat, last : Call \union {None}]]
  BY DEF TypeOK, CallType
<1>5. forked' \subseteq Client
  BY DEF Enqueue, TypeOK
<1>6. /\ call' \in [Call -> CallType]
      /\ \A j \in Call \ {k} : call'[j] = call[j]
      /\ call'[k] = new
  BY <1>0, <1>3, <1>4
<1>7. /\ gate' \in [Client -> [gen : Nat, last : Call \union {None}]]
      /\ \A d \in Client \ {c} : gate'[d] = gate[d]
      /\ gate'[c].gen = g /\ gate'[c].last = k
  BY <1>3, <1>4
<1> QED BY <1>2, <1>5, <1>6, <1>7 DEF b, GateTyped, Placing

-----------------------------------------------------------------------------
(* The gate: first the consequences of the invariant.                       *)

LEMMA OneAsker ==
    ASSUME IInv, NEW c \in Client \ forked, NEW j \in Asking(c), NEW k \in Asking(c)
    PROVE  j = k
<1>1. /\ j \in Call /\ k \in Call /\ Asks(j) /\ Asks(k)
      /\ call[j].client = c /\ call[k].client = c
  BY DEF Asking, Asks
<1>2. call[j].behind = None /\ call[k].behind = None /\ Busy(j) /\ Busy(k)
  BY <1>1 DEF IInv, Gate, Placed, Busy, Asks
<1>3. (held[c] = j \/ Current(j)) /\ (held[c] = k \/ Current(k))
  BY DEF IInv, Gate, AskersAreKnown
<1>4. ASSUME Current(j) \/ Current(k) PROVE held[c] = None
  BY <1>1, <1>4 DEF IInv, Gate, RuntimeIsFree, Current
<1>5. CASE Current(j) /\ Current(k)
  <2>1. PICK S \in SUBSET Call : QueueOf(c, S)
    BY DEF IInv, Gate, Queued
  <2> QED BY <1>1, <1>2, <1>5, <2>1 DEF QueueOf, Present
<1>6. None \notin Call
  BY CallAssumption
<1> QED BY <1>1, <1>3, <1>4, <1>5, <1>6

-----------------------------------------------------------------------------
(* A call that is over.                                                     *)

LEMMA DoneKeepsGate ==
    ASSUME IInv, NEW k \in Call, Busy(k), Done(k),
           (held' = held /\ ~Asks(k)) \/ Release(k),
           UNCHANGED <<runtime, gen, captured, forked>>
    PROVE  HoldIsBacked' /\ Gate'
<1> USE DoneEffect DEF IInv
<1>0. call'[k].at = "idle"
  BY DEF NoCall
<1>1. /\ \A j \in Call : call'[j].at # "idle" =>
            /\ j # k /\ call'[j].at = call[j].at /\ call'[j].client = call[j].client
            /\ call'[j].gen = call[j].gen /\ call'[j].mine = call[j].mine
            /\ call'[j].behind = IF call[j].behind = k THEN call[k].behind ELSE call[j].behind
  BY <1>0
<1>2. \A j \in Call : Busy(j)' => Busy(j) /\ j # k /\ (Current(j)' <=> Current(j))
  BY <1>1 DEF Busy, Current
<1>3. \A c \in Client : Asking(c)' = Asking(c) \ {k}
  BY <1>1 DEF Asking, NoCall
<1>4. \A c \in Client : held'[c] # None => held'[c] = held[c] /\ held'[c] # k
  BY DEF Release, HoldIsBacked, Asking, Asks, TypeOK
<1>5. HoldIsBacked'
  BY <1>3, <1>4 DEF HoldIsBacked
<1>6. Placed'
  BY <1>1, <1>2, CallAssumption DEF Gate, Placed, Busy, Asks
<1>7. Older'
  BY <1>1 DEF Gate, Older, Busy
<1>8. GateIsPresent'
  BY <1>1, <1>2 DEF Gate, GateIsPresent, Present, Busy
<1>9. RuntimeIsFree'
  BY <1>4 DEF Gate, RuntimeIsFree
<1>10. AskersAreKnown'
  <2> SUFFICES ASSUME NEW c \in Client \ forked, NEW j \in Asking(c) \ {k}
               PROVE  held'[c] = j \/ Current(j)'
    BY <1>3 DEF AskersAreKnown
  <2>1. j \in Call /\ Busy(j)'
    BY <1>3 DEF Asking, Busy
  <2>2. held[c] = j => held'[c] = j
    BY DEF Release
  <2> QED BY <1>2, <2>1, <2>2 DEF Gate, AskersAreKnown
<1>11. Queued'
  <2> SUFFICES ASSUME NEW c \in Client \ forked PROVE \E S \in SUBSET Call : QueueOf(c, S)'
    BY DEF Queued
  <2>1. PICK S \in SUBSET Call : QueueOf(c, S)
    BY DEF Gate, Queued
  <2>2. \A i \in S \ {k} : Busy(i)'
    BY <2>1, DoneEffect DEF QueueOf, Busy
  <2> DEFINE T == S \ {k}
  <2>3. QueueOf(c, T)'
    <3>0. /\ \A i, j \in S : call[i].behind = call[j].behind => i = j
          /\ \A i \in S : call[i].behind # gate[c].last /\ call[i].behind \in S \union {None}
          /\ gate[c].last \in S \union {None}
          /\ \A i \in Call : Present(i) /\ call[i].client = c => i \in S
      BY <2>1 DEF QueueOf
    <3>1. \A i \in T :
             /\ call'[i].behind = IF call[i].behind = k THEN call[k].behind ELSE call[i].behind
             /\ call[i].behind \in S \union {None}
      BY <3>0, <2>2, <1>1 DEF Busy
    <3>2. \A i, j \in T : call'[i].behind = call'[j].behind => i = j
      <4> SUFFICES ASSUME NEW i \in T, NEW j \in T, call'[i].behind = call'[j].behind
                   PROVE  i = j
        OBVIOUS
      <4>1. k \in S \/ (call[i].behind # k /\ call[j].behind # k)
        BY <3>1, CallAssumption
      <4> QED BY <4>1, <3>0, <3>1
    <3>3. gate'[c].last = IF gate[c].last = k THEN call[k].behind ELSE gate[c].last
      OBVIOUS
    <3>4. k \notin S => gate[c].last # k /\ \A i \in T : call[i].behind # k
      BY <3>0, <3>1, CallAssumption
    <3>5. \A i \in T : call'[i].behind # gate'[c].last
      BY <3>0, <3>1, <3>3, <3>4
    <3>6. \A i \in T : call'[i].behind \in T \union {None}
      <4> SUFFICES ASSUME NEW i \in T PROVE call'[i].behind \in T \union {None}
        OBVIOUS
      <4>1. CASE call[i].behind = k
        BY <3>0, <3>1, <3>4, <4>1
      <4>2. CASE call[i].behind # k
        BY <3>1, <4>2
      <4> QED BY <4>1, <4>2
    <3>7. gate'[c].last \in T \union {None}
      BY <3>0, <3>3, <3>4
    <3>8. \A i \in Call : Present(i)' /\ call'[i].client = c => i \in T
      <4> SUFFICES ASSUME NEW i \in Call, Present(i)', call'[i].client = c PROVE i \in T
        OBVIOUS
      <4>1. Present(i) /\ i # k
        BY <1>2 DEF Present
      <4>2. call[i].client = c
        BY <4>1
      <4> QED BY <3>0, <4>1, <4>2
    <3> QED BY <2>2, <3>2, <3>5, <3>6, <3>7, <3>8 DEF QueueOf
  <2> QED BY <2>3
<1> QED BY <1>5, <1>6, <1>7, <1>8, <1>9, <1>10, <1>11 DEF Gate

-----------------------------------------------------------------------------
(* A call that takes its place.                                             *)

LEMMA EnqueueKeepsGate ==
    ASSUME IInv, NEW k \in Call, NEW c \in Client, NEW g \in Nat, ~Busy(k), g <= gen,
           Enqueue(k, c, g), UNCHANGED <<runtime, gen, held, captured>>
    PROVE  HoldIsBacked' /\ Gate'
<1>a. TypeOK
  BY DEF IInv
<1>b. Placing(k, c, g)
  BY <1>a, EnqueueEffect
<1>0. /\ call'[k].at = "waiting" /\ call'[k].client = c /\ call'[k].gen = g
      /\ call'[k].mine = TRUE
      /\ call'[k].behind = IF gate[c].gen = g THEN gate[c].last ELSE None
      /\ gate'[c].gen = g /\ gate'[c].last = k
  BY <1>b DEF Placing
<1>1. /\ \A j \in Call \ {k} : call'[j] = call[j]
      /\ \A d \in Client \ {c} : gate'[d] = gate[d]
  BY <1>b DEF Placing
<1> USE DEF IInv
<1>2. /\ Busy(k)' /\ ~Asks(k)' /\ call'[k].client = c /\ call'[k].gen = g
      /\ Current(k)' <=> runtime = c /\ gen = g
  BY <1>0 DEF Busy, Asks, Current
<1>3. \A j \in Call \ {k} : /\ Busy(j)' <=> Busy(j)
                            /\ Current(j)' <=> Current(j)
                            /\ Asks(j)' <=> Asks(j)
  BY <1>1 DEF Busy, Current, Asks
<1>4. \A d \in Client : Asking(d)' = Asking(d)
  BY <1>1, <1>2 DEF Asking, Asks, Busy
<1>5. HoldIsBacked'
  BY <1>4 DEF HoldIsBacked
<1>6. Placed'
  BY <1>0, <1>1, <1>2, <1>3 DEF Gate, Placed
<1>7. Older'
  BY <1>0, <1>1, <1>2, <1>3 DEF Gate, Older
<1>8. forked \subseteq forked' /\ \A d \in Client \ {c} : d \in forked' <=> d \in forked
  BY DEF Enqueue
<1>9. GateIsPresent'
  <2> SUFFICES ASSUME NEW d \in Client \ forked', NEW j \in Call, Present(j)', call'[j].client = d
               PROVE  gate'[d].gen = gen
    BY DEF GateIsPresent
  <2>1. CASE j = k
    BY <1>0, <1>2, <2>1 DEF Present
  <2>2. CASE j # k
    <3>1. Present(j) /\ call[j].client = d /\ gate[d].gen = gen
      BY <1>1, <1>3, <1>8, <2>2 DEF Present, Gate, GateIsPresent
    <3>2. d = c => runtime = c /\ (gate[c].gen = g \/ gen = g)
      BY <3>1 DEF Enqueue, Present, Current
    <3> QED BY <1>0, <1>1, <3>1, <3>2
  <2> QED BY <2>1, <2>2
<1>10. RuntimeIsFree'
  BY <1>8 DEF Gate, RuntimeIsFree
<1>11. AskersAreKnown'
  <2> SUFFICES ASSUME NEW d \in Client \ forked', NEW j \in Asking(d)
               PROVE  held[d] = j \/ Current(j)'
    BY <1>4 DEF AskersAreKnown
  <2>1. j \in Call \ {k}
    BY DEF Asking, Busy
  <2> QED BY <1>3, <1>8, <2>1 DEF Gate, AskersAreKnown
<1>12. Queued'
  <2> SUFFICES ASSUME NEW d \in Client \ forked' PROVE \E S \in SUBSET Call : QueueOf(d, S)'
    BY DEF Queued
  <2>1. PICK S \in SUBSET Call : QueueOf(d, S)
    BY <1>8 DEF Gate, Queued
  <2>2. /\ k \notin S
        /\ \A i, j \in S : call[i].behind = call[j].behind => i = j
        /\ \A i \in S : call[i].behind # gate[d].last /\ call[i].behind \in S \union {None}
        /\ gate[d].last \in S \union {None}
        /\ \A i \in Call : Present(i) /\ call[i].client = d => i \in S
        /\ \A i \in S : call'[i] = call[i] /\ Busy(i)'
    BY <1>1, <1>3, <2>1 DEF QueueOf
  <2>3. CASE d # c
    <3>1. \A i \in Call : Present(i)' /\ call'[i].client = d => i \in S
      BY <1>1, <1>2, <1>3, <2>2, <2>3 DEF Present
    <3>2. gate'[d] = gate[d]
      BY <1>1, <2>3
    <3>3. QueueOf(d, S)'
      BY <2>2, <3>1, <3>2 DEF QueueOf
    <3> QED BY <3>3
  <2>4. CASE d = c /\ gate[c].gen = g
    <3> DEFINE T == S \union {k}
    <3>1. call'[k].behind = gate[c].last /\ gate'[c].last = k
      BY <1>0, <2>4
    <3>2. \A i \in Call : Present(i)' /\ call'[i].client = d => i \in T
      BY <1>1, <1>3, <2>2 DEF Present
    <3>3. \A i, j \in T : call'[i].behind = call'[j].behind => i = j
      BY <2>2, <2>4, <3>1
    <3>4. \A i \in T : call'[i].behind # k /\ call'[i].behind \in T \union {None}
      BY <2>2, <2>4, <3>1, CallAssumption
    <3>5. QueueOf(d, T)'
      BY <1>2, <2>2, <2>4, <3>1, <3>2, <3>3, <3>4 DEF QueueOf
    <3> QED BY <3>5
  <2>5. CASE d = c /\ gate[c].gen # g
    <3>1. runtime = c /\ gen = g
      BY <2>5 DEF Enqueue
    <3>2. \A j \in Call : ~(Present(j) /\ call[j].client = c)
      BY <1>8, <2>5, <3>1 DEF Gate, GateIsPresent
    <3>3. \A i \in Call : Present(i)' /\ call'[i].client = d => i \in {k}
      BY <1>1, <1>3, <2>5, <3>2 DEF Present
    <3>4. call'[k].behind = None /\ gate'[c].last = k
      BY <1>0, <2>5
    <3>5. QueueOf(d, {k})'
      BY <1>2, <2>5, <3>3, <3>4, CallAssumption DEF QueueOf
    <3> QED BY <3>5
  <2> QED BY <2>3, <2>4, <2>5
<1> QED BY <1>5, <1>6, <1>7, <1>9, <1>10, <1>11, <1>12 DEF Gate

-----------------------------------------------------------------------------
(* A call that goes on keeps its place.                                     *)

LEMMA StillKeeps ==
    ASSUME IInv, NEW k \in Call, Busy(k), NEW r \in CallType, r.at # "idle",
           r.client = call[k].client, r.gen = call[k].gen, r.mine = call[k].mine,
           r.behind = call[k].behind,
           call' = [call EXCEPT ![k] = r]
    PROVE  /\ call' \in [Call -> CallType]
           /\ \A j \in Call :
                 /\ Busy(j)' <=> Busy(j)
                 /\ call'[j].client = call[j].client /\ call'[j].gen = call[j].gen
                 /\ call'[j].mine = call[j].mine /\ call'[j].behind = call[j].behind
                 /\ j # k => call'[j] = call[j]
           /\ call'[k] = r
<1>1. call \in [Call -> CallType]
  BY DEF IInv, TypeOK, CallType
<1>2. call[k] \in CallType /\ call'[k] = r /\ \A j \in Call \ {k} : call'[j] = call[j]
  BY <1>1
<1> QED BY <1>1, <1>2 DEF Busy

(* A queue is still one when all keep their places and none comes to be of  *)
(* the present runtime.                                                     *)
LEMMA PlacesKept ==
    ASSUME IInv, UNCHANGED <<gate, forked>>,
           \A j \in Call : /\ Busy(j)' <=> Busy(j)
                           /\ call'[j].client = call[j].client /\ call'[j].behind = call[j].behind
                           /\ Present(j)' => Present(j) /\ gen' = gen
    PROVE  Queued' /\ GateIsPresent'
<1>1. ASSUME NEW c \in Client, NEW S \in SUBSET Call, QueueOf(c, S) PROVE QueueOf(c, S)'
  BY <1>1 DEF QueueOf
<1>2. Queued'
  BY <1>1 DEF IInv, Gate, Queued
<1> QED BY <1>2 DEF IInv, Gate, GateIsPresent

(* Fewer are listening, and to no other page.                               *)
LEMMA QuieterKeeps ==
    ASSUME IInv, heard' = heard,
           \A j \in Activity : call'[j].mine /\ Waiting(j)' =>
              /\ call[j].mine /\ Waiting(j)
              /\ call'[j].client = call[j].client /\ call'[j].gen = call[j].gen
              /\ call'[j].at = "asked" =>
                    call'[j].page = 1 \/ (call[j].at = "asked" /\ call'[j].page = call[j].page)
    PROVE  Listening'
<1> SUFFICES ASSUME NEW j \in Activity, call'[j].mine, Waiting(j)'
             PROVE  ReadBefore(j)' /\ \A i \in Activity : call'[i].mine /\ Waiting(i)' => i = j
  BY DEF Listening
<1>1. ReadBefore(j) /\ \A i \in Activity : call[i].mine /\ Waiting(i) => i = j
  BY DEF IInv, Listening
<1>2. ReadBefore(j)'
  BY <1>1, BoundAssumption DEF ReadBefore
<1> QED BY <1>1, <1>2

LEMMA DoneKeepsSpeech ==
    ASSUME IInv, NEW k \in Call, Done(k), heard' = heard
    PROVE  Listening'
<1>1. \A j \in Call : Waiting(j)' =>
          /\ Waiting(j) /\ call'[j].mine = call[j].mine
          /\ call'[j].client = call[j].client /\ call'[j].gen = call[j].gen
          /\ call'[j].at = call[j].at /\ call'[j].page = call[j].page
  BY DoneEffect DEF IInv, Waiting, NoCall
<1> QED BY <1>1, QuieterKeeps DEF Call

LEMMA DoneTyped ==
    ASSUME IInv, NEW k \in Call, Done(k)
    PROVE  GateTyped' \/ forked' # forked
  BY DoneEffect DEF IInv, TypeOK, GateTyped

(* All but the calls and gates.                                             *)
RestTyped == /\ present \in Client /\ retired \subseteq Client
             /\ runtime \in Client \union {None} /\ gen \in Nat
             /\ held \in [Client -> Call \union {None}] /\ recovery \in BOOLEAN
             /\ captured \in [client : Client \union {None}, gen : Nat]
             /\ said \in {"nothing", "idle", "busy", "unknown"}
             /\ heard \in Hearings
             /\ faults \in 0..MaxFaults

LEMMA TypedParts ==
    (TypeOK <=> RestTyped /\ GateTyped) /\ (TypeOK' <=> RestTyped' /\ GateTyped')
  BY DEF TypeOK, RestTyped, GateTyped, CallType, Hearings

-----------------------------------------------------------------------------
(* Every action keeps the invariant.                                        *)

LEMMA DiscoverKeeps == ASSUME IInv, Discover PROVE IInv'
<1> USE DEF IInv, Discover
<1>1. TypeOK'
  BY DEF TypeOK, registry
<1>2. \A j \in Call : ~Present(j)'
  BY DEF Present, Current, Busy, Gate, Older, TypeOK
<1>3. Queued' /\ GateIsPresent'
  BY <1>2, PlacesKept DEF registry, Busy
<1>4. Older'
  BY DEF Gate, Older, Busy, TypeOK
<1>5. RuntimeIsFree'
  BY DEF Gate, RuntimeIsFree, registry
<1>6. AskersAreKnown'
  BY CallAssumption DEF Gate, AskersAreKnown, Placed, Asking, Busy, Current, registry
<1>7. HoldIsBacked' /\ Placed'
  BY DEF HoldIsBacked, Gate, Placed, Asking, Busy, Asks, registry
<1>8. Listening'
  BY DEF Listening, ReadBefore, Waiting
<1> QED BY <1>1, <1>3, <1>4, <1>5, <1>6, <1>7, <1>8 DEF Gate

LEMMA CaptureKeeps == ASSUME IInv, Capture PROVE IInv'
<1>1. TypeOK' /\ captured'.gen <= gen
  BY DEF IInv, Capture, TypeOK, runtimes, registry
<1> QED BY <1>1 DEF IInv, Capture, Gate, HoldIsBacked, Queued, QueueOf, Placed, Older,
             GateIsPresent, RuntimeIsFree, AskersAreKnown, Listening, ReadBefore, Asking, Busy, Asks,
             Present, Current, Waiting, runtimes, registry

LEMMA RestartKeeps == ASSUME IInv, Restart PROVE IInv'
<1>1. TypeOK'
  BY FaultTyped DEF IInv, Restart, TypeOK, registry
<1>2. UNCHANGED <<runtime, gen, gate, held, call, captured, said, heard, forked>>
  BY DEF Restart, registry
<1>3. Queued' /\ GateIsPresent'
  BY <1>2, PlacesKept DEF Present, Current, Busy
<1>4. HoldIsBacked' /\ Placed' /\ Older' /\ RuntimeIsFree' /\ AskersAreKnown'
  BY <1>2 DEF IInv, Gate, HoldIsBacked, Placed, Older, RuntimeIsFree, AskersAreKnown, Asking, Busy,
              Asks, Current
<1> QED BY <1>1, <1>2, <1>3, <1>4 DEF IInv, Gate, Listening, ReadBefore, Waiting

LEMMA StartKeeps ==
    ASSUME IInv, NEW k \in Call, NEW c \in Client, NEW g \in Nat, g <= gen,
           call[k].at = "idle", Enqueue(k, c, g),
           UNCHANGED <<runtimes, held, recovery, captured, faults>>,
           \/ k \notin Activity /\ UNCHANGED <<said, heard>>
           \/ /\ said' = "nothing" /\ heard' = Unheard
              /\ \A j \in Activity : call[j].mine => ~Waiting(j)
    PROVE  IInv'
<1>1. HoldIsBacked' /\ Gate'
  BY EnqueueKeepsGate DEF Busy, runtimes
<1>2. GateTyped' /\ Placing(k, c, g)
  BY EnqueueEffect DEF IInv
<1>3. RestTyped'
  BY TypedParts, UnheardTyped DEF IInv, RestTyped, runtimes
<1>4. /\ \A j \in Call \ {k} : call'[j] = call[j] /\ (Waiting(j)' <=> Waiting(j))
      /\ call'[k].at = "waiting"
  BY <1>2 DEF Placing, Waiting
<1>5. Listening'
  BY <1>4 DEF IInv, Listening, ReadBefore, Call
<1> QED BY <1>1, <1>2, <1>3, <1>5, TypedParts DEF IInv

LEMMA StartsKeep ==
    ASSUME IInv, NEW k \in Call,
           \/ k \in Activity /\ StartActivity(k)
           \/ k \in Hydration /\ StartHydration(k)
           \/ k \in Cleanup /\ StartCleanup(k)
    PROVE  IInv'
<1>1. CASE k \in Activity /\ StartActivity(k)
  BY <1>1, StartKeeps DEF StartActivity, Free, IInv, TypeOK
<1>2. CASE k \in Hydration /\ StartHydration(k)
  BY <1>2, StartKeeps, CallAssumption DEF StartHydration, Free, IInv, TypeOK
<1>3. CASE k \in Cleanup /\ StartCleanup(k)
  BY <1>3, StartKeeps, CallAssumption DEF StartCleanup, Free, IInv, TypeOK, Gate, Older
<1> QED BY <1>1, <1>2, <1>3

LEMMA EnterKeeps == ASSUME IInv, NEW k \in Call, Enter(k) PROVE IInv'
<1>1. CASE ~Current(k)
  <2>1. HoldIsBacked' /\ Gate'
    BY <1>1, DoneKeepsGate DEF Enter, Busy, Asks, runtimes
  <2>2. Listening'
    BY <1>1, DoneKeepsSpeech DEF Enter, Fails
  <2>3. RestTyped' /\ GateTyped'
    BY <1>1, DoneTyped, TypedParts DEF IInv, RestTyped, Enter, Fails, runtimes
  <2> QED BY <2>1, <2>2, <2>3, TypedParts DEF IInv
<1>2. CASE Current(k)
  <2> DEFINE r == [call[k] EXCEPT !.at = "asked", !.page = 1]
  <2>0. call[k] \in CallType /\ 1 \in 0..Pages
    BY BoundAssumption DEF IInv, TypeOK, CallType
  <2>1. /\ r \in CallType /\ r.at = "asked" /\ r.client = call[k].client /\ r.gen = call[k].gen
        /\ r.mine = call[k].mine /\ r.behind = call[k].behind
    BY <2>0 DEF CallType
  <2>2. call' = [call EXCEPT ![k] = r]
    BY <1>2 DEF Enter, IInv, TypeOK
  <2> HIDE DEF r
  <2>3. Busy(k) /\ ~Asks(k) /\ call[k].behind = None
    BY DEF Enter, Busy, Asks
  <2>4. /\ call' \in [Call -> CallType] /\ call'[k] = r
        /\ \A j \in Call :
              /\ Busy(j)' <=> Busy(j)
              /\ call'[j].client = call[j].client /\ call'[j].gen = call[j].gen
              /\ call'[j].mine = call[j].mine /\ call'[j].behind = call[j].behind
              /\ j # k => call'[j] = call[j]
    BY <2>1, <2>2, <2>3, StillKeeps
  <2>5. UNCHANGED <<runtime, gen, gate, held, recovery, captured, said, heard, forked, faults,
                    present, retired>>
    BY <1>2 DEF Enter, runtimes
  <2>6. \A j \in Call : (Present(j)' <=> Present(j)) /\ (Current(j)' <=> Current(j))
    BY <2>4, <2>5 DEF Present, Current
  <2>7. Queued' /\ GateIsPresent'
    BY <2>4, <2>5, <2>6, PlacesKept
  <2>8. Placed' /\ Older'
    BY <2>3, <2>4, <2>5 DEF IInv, Gate, Placed, Older, Asks
  <2>9. \A c \in Client : Asking(c) \subseteq Asking(c)' /\ Asking(c)' \subseteq Asking(c) \union {k}
    BY <2>3, <2>4 DEF Asking, Asks
  <2>10. HoldIsBacked' /\ RuntimeIsFree' /\ AskersAreKnown'
    BY <1>2, <2>5, <2>6, <2>9 DEF IInv, Gate, HoldIsBacked, RuntimeIsFree, AskersAreKnown, Asking
  <2>11. /\ \A j \in Call : Waiting(j)' => Waiting(j)
         /\ call'[k].page = 1
    BY <2>0, <2>2, <2>3, <2>4 DEF Waiting, Enter, r, CallType
  <2>12. Listening'
    BY <2>4, <2>5, <2>11, QuieterKeeps DEF Call
  <2>13. TypeOK'
    BY <2>4, <2>5, TypedParts DEF IInv, RestTyped, GateTyped
  <2> QED BY <2>7, <2>8, <2>10, <2>12, <2>13 DEF IInv, Gate
<1> QED BY <1>1, <1>2

LEMMA CancelKeeps == ASSUME IInv, NEW k \in Call, Cancel(k) PROVE IInv'
<1>1. HoldIsBacked' /\ Gate'
  BY DoneKeepsGate DEF Cancel, Busy, Asks, runtimes
<1>2. Listening'
  BY DoneKeepsSpeech DEF Cancel, Fails
<1>3. RestTyped' /\ GateTyped'
  BY DoneTyped, TypedParts, ExpiresTyped DEF IInv, RestTyped, Cancel, Fails, runtimes
<1> QED BY <1>1, <1>2, <1>3, TypedParts DEF IInv

LEMMA ReleaseTyped ==
    ASSUME IInv, NEW k \in Call, Release(k)
    PROVE  held' \in [Client -> Call \union {None}]
  BY DEF IInv, TypeOK, Release

LEMMA RefuseKeeps == ASSUME IInv, NEW k \in Call, Refuse(k) PROVE IInv'
<1>1. HoldIsBacked' /\ Gate'
  BY DoneKeepsGate DEF Refuse, Busy, Asks, runtimes
<1>2. Listening'
  BY DoneKeepsSpeech DEF Refuse, Fails
<1>3. RestTyped' /\ GateTyped'
  BY DoneTyped, TypedParts, FaultTyped, ReleaseTyped DEF IInv, RestTyped, Refuse, Fails, runtimes
<1> QED BY <1>1, <1>2, <1>3, TypedParts DEF IInv

LEMMA SettleKeeps == ASSUME IInv, NEW k \in Call, Settle(k) PROVE IInv'
<1>1. HoldIsBacked' /\ Gate'
  BY DoneKeepsGate DEF Settle, Busy, Asks, runtimes
<1>2. Listening'
  BY DoneKeepsSpeech DEF Settle
<1>3. RestTyped' /\ GateTyped'
  BY DoneTyped, TypedParts, ReleaseTyped DEF IInv, RestTyped, Settle, runtimes
<1> QED BY <1>1, <1>2, <1>3, TypedParts DEF IInv

(* The listing is given up: the client is quarantined, and with it goes the *)
(* runtime, if the call is of the present one.                              *)
LEMMA TimeOutKeeps == ASSUME IInv, NEW k \in Call, TimeOut(k) PROVE IInv'
<1> DEFINE c == call[k].client
           r == [call[k] EXCEPT !.at = "abandoned"]
<1>1. /\ r \in CallType /\ r.at = "abandoned" /\ r.client = c /\ r.gen = call[k].gen
      /\ r.mine = call[k].mine /\ r.behind = call[k].behind
  BY DEF IInv, TypeOK, CallType
<1>2. call' = [call EXCEPT ![k] = r]
  BY DEF TimeOut
<1> HIDE DEF r
<1>3. Busy(k) /\ Asks(k) /\ c \in Client /\ k \in Asking(c)
  BY DEF TimeOut, Busy, Asks, Asking, IInv, Gate, Placed
<1>4. /\ call' \in [Call -> CallType] /\ call'[k] = r
      /\ \A j \in Call :
            /\ Busy(j)' <=> Busy(j)
            /\ call'[j].client = call[j].client /\ call'[j].gen = call[j].gen
            /\ call'[j].mine = call[j].mine /\ call'[j].behind = call[j].behind
            /\ j # k => call'[j] = call[j]
  BY <1>1, <1>2, <1>3, StillKeeps
<1>5. UNCHANGED <<gate, captured, heard, forked, present, retired>>
  BY DEF TimeOut
<1>6. \A d \in Client : Asking(d)' = Asking(d)
  BY <1>1, <1>3, <1>4 DEF Asking, Asks
<1>7. \/ UNCHANGED <<held, recovery, runtime, gen>>
      \/ /\ held[c] = None /\ held' = [held EXCEPT ![c] = k] /\ recovery' = TRUE
         /\ IF Current(k) THEN runtime' = None /\ gen' = gen + 1 ELSE UNCHANGED <<runtime, gen>>
  BY DEF TimeOut, Quarantine
<1>8. \A j \in Call : Present(j)' => Present(j) /\ gen' = gen
  BY <1>4, <1>7, CallAssumption DEF IInv, Gate, Placed, Present, Current, Busy
<1>9. Queued' /\ GateIsPresent'
  BY <1>4, <1>5, <1>8, PlacesKept
<1>10. Placed'
  BY <1>1, <1>3, <1>4 DEF IInv, Gate, Placed, Asks
<1>11. gen' \in Nat /\ gen <= gen' /\ held' \in [Client -> Call \union {None}]
  BY <1>3, <1>7 DEF IInv, TypeOK
<1>12. Older'
  BY <1>4, <1>5, <1>11 DEF IInv, TypeOK, Gate, Older
<1>13. HoldIsBacked'
  BY <1>3, <1>6, <1>7 DEF IInv, TypeOK, HoldIsBacked
<1>14. ASSUME NEW d \in Client \ forked, NEW j \in Asking(d)
       PROVE  held'[d] = j \/ Current(j)'
  <2>1. j \in Call /\ call[j].client = d /\ (held[d] = j \/ Current(j))
    BY <1>14 DEF IInv, Gate, AskersAreKnown, Asking
  <2>2. CASE UNCHANGED <<held, runtime, gen>>
    BY <1>4, <2>1, <2>2 DEF Current
  <2>3. CASE held[c] = None /\ held' = [held EXCEPT ![c] = k]
    <3>1. CASE d = c
      BY <1>3, <1>14, <2>3, <3>1, OneAsker DEF IInv, TypeOK
    <3>2. CASE d # c
      <4>1. held'[d] = held[d]
        BY <2>3, <3>2 DEF IInv, TypeOK
      <4>2. CASE Current(j)
        <5>1. ~Current(k)
          BY <2>1, <3>2, <4>2 DEF Current
        <5> QED BY <1>4, <1>7, <2>1, <4>2, <5>1 DEF Current
      <4> QED BY <2>1, <4>1, <4>2
    <3> QED BY <3>1, <3>2
  <2> QED BY <1>7, <2>2, <2>3
<1>15. AskersAreKnown'
  BY <1>5, <1>6, <1>14 DEF AskersAreKnown
<1>16. RuntimeIsFree'
  <2> SUFFICES ASSUME NEW d \in Client \ forked, runtime' = d PROVE held'[d] = None
    BY <1>5 DEF RuntimeIsFree
  <2>1. runtime = d /\ held[d] = None
    BY <1>7, CallAssumption DEF IInv, Gate, RuntimeIsFree
  <2>2. CASE d = c /\ held' # held
    <3>1. ~Current(k)
      BY <1>7, <2>2, CallAssumption
    <3> QED BY <1>3, <2>1, <2>2, <3>1, CallAssumption DEF IInv, Gate, AskersAreKnown
  <2>3. CASE d # c \/ held' = held
    BY <1>7, <2>1, <2>3 DEF IInv, TypeOK
  <2> QED BY <2>2, <2>3
<1>17. Listening'
  <2>1. \A j \in Call : Waiting(j)' => Waiting(j) /\ j # k
    BY <1>1, <1>4 DEF Waiting
  <2> QED BY <1>4, <1>5, <2>1, QuieterKeeps DEF Call
<1>18. TypeOK'
  BY <1>4, <1>5, <1>7, <1>11, TypedParts, ExpiresTyped DEF IInv, RestTyped, GateTyped, TimeOut, Fails
<1> QED BY <1>9, <1>10, <1>12, <1>13, <1>15, <1>16, <1>17, <1>18 DEF IInv, Gate

(* A page arrives.                                                          *)
PageOf(k, x) == [client |-> call[k].client, gen |-> call[k].gen, shown |-> x]

LEMMA PageHeard ==
    ASSUME IInv, NEW k \in Call, NEW x \in {"idle", "busy", "strange"}, Answer(k, x)
    PROVE  /\ heard' \in Hearings /\ call[k].page \in 0..Pages
           /\ k \in Activity /\ call[k].mine
                 => /\ \A p \in 1..Pages :
                         heard'[p] = IF p = call[k].page THEN PageOf(k, x) ELSE heard[p]
                    /\ ReadBefore(k)
                    /\ \A j \in Activity : call[j].mine /\ Waiting(j) => j = k
           /\ ~(k \in Activity /\ call[k].mine) => heard' = heard
<1>1. Waiting(k) /\ call[k].page \in 0..Pages
  BY DEF Answer, Waiting, IInv, TypeOK
<1>2. heard \in Hearings
  BY DEF IInv, TypeOK, Hearings
<1>3. PageOf(k, x) \in [client : Client \union {None}, gen : Nat,
                        shown : {"nothing", "idle", "busy", "strange"}]
  BY DEF IInv, TypeOK, PageOf
<1>4. heard' = IF k \in Activity /\ call[k].mine
               THEN [heard EXCEPT ![call[k].page] = PageOf(k, x)] ELSE heard
  BY DEF Answer, PageOf
<1>5. heard' \in Hearings
  BY <1>2, <1>3, <1>4 DEF Hearings
<1>6. k \in Activity /\ call[k].mine
         => \A p \in 1..Pages :
               heard'[p] = IF p = call[k].page THEN PageOf(k, x) ELSE heard[p]
  BY <1>2, <1>4 DEF Hearings
<1> QED BY <1>1, <1>4, <1>5, <1>6 DEF IInv, Listening

LEMMA LastPageKeeps ==
    ASSUME IInv, NEW k \in Call, NEW x \in {"idle", "busy", "strange"}, Answer(k, x),
           Done(k), Says(k, x, Last(k)), recovery' \in BOOLEAN
    PROVE  IInv'
<1>1. HoldIsBacked' /\ Gate'
  BY DoneKeepsGate DEF Answer, Busy, Asks, runtimes
<1>2. said' \in {"nothing", "idle", "busy", "unknown"}
  BY DEF Says, IInv, TypeOK
<1>3. TypeOK'
  <2>1. /\ UNCHANGED <<present, retired, runtime, gen, captured, forked, faults>>
        /\ held' \in [Client -> Call \union {None}]
    BY ReleaseTyped DEF Answer, runtimes
  <2>2. RestTyped /\ heard' \in Hearings
    BY TypedParts, PageHeard DEF IInv
  <2>3. RestTyped'
    BY <1>2, <2>1, <2>2 DEF RestTyped
  <2> QED BY <2>1, <2>3, DoneTyped, TypedParts
<1>4. Listening'
  <2>1. CASE k \in Activity /\ call[k].mine
    <3>1. \A j \in Activity : ~(call'[j].mine /\ Waiting(j)')
      BY <2>1, DoneEffect, PageHeard DEF IInv, Waiting, NoCall, Call
    <3> QED BY <3>1 DEF Listening
  <2>2. CASE ~(k \in Activity /\ call[k].mine)
    BY <2>2, PageHeard, DoneKeepsSpeech
  <2> QED BY <2>1, <2>2
<1> QED BY <1>1, <1>3, <1>4 DEF IInv

LEMMA NextPageKeeps ==
    ASSUME IInv, NEW k \in Call, NEW x \in {"idle", "busy", "strange"}, Answer(k, x),
           ~Last(k), Current(k), ~(k \in Activity /\ x = "busy")
    PROVE  IInv'
<1> DEFINE r == [call[k] EXCEPT !.page = @ + 1]
<1>1. /\ r \in CallType /\ r.at = "asked" /\ r.client = call[k].client /\ r.gen = call[k].gen
      /\ r.mine = call[k].mine /\ r.behind = call[k].behind /\ r.page = call[k].page + 1
  <2>1. call[k] \in CallType /\ call[k].at = "asked"
    BY DEF IInv, TypeOK, CallType, Answer
  <2>2. call[k].page + 1 \in 0..Pages
    BY <2>1, BoundAssumption DEF CallType, Last
  <2>3. call[k].page + 1 \in 0..Pages => r \in CallType
    BY <2>1 DEF CallType
  <2> QED BY <2>1, <2>2, <2>3 DEF CallType
<1>2. call' = [call EXCEPT ![k] = r] /\ UNCHANGED <<gate, said, recovery>>
  BY DEF Answer
<1> HIDE DEF r
<1>3. Busy(k) /\ Asks(k)
  BY DEF Answer, Busy, Asks
<1>4. /\ call' \in [Call -> CallType] /\ call'[k] = r
      /\ \A j \in Call :
            /\ Busy(j)' <=> Busy(j)
            /\ call'[j].client = call[j].client /\ call'[j].gen = call[j].gen
            /\ call'[j].mine = call[j].mine /\ call'[j].behind = call[j].behind
            /\ j # k => call'[j] = call[j]
  BY <1>1, <1>2, <1>3, StillKeeps
<1>5. UNCHANGED <<runtime, gen, captured, forked, faults, present, retired>>
  BY DEF Answer, runtimes
<1>6. \A j \in Call : (Present(j)' <=> Present(j)) /\ (Current(j)' <=> Current(j))
  BY <1>4, <1>5 DEF Present, Current
<1>7. Queued' /\ GateIsPresent'
  BY <1>2, <1>4, <1>5, <1>6, PlacesKept
<1>8. \A d \in Client : Asking(d)' = Asking(d)
  BY <1>1, <1>3, <1>4 DEF Asking, Asks
<1>9. Placed' /\ Older'
  BY <1>3, <1>4, <1>5 DEF IInv, Gate, Placed, Older, Asks
<1>10. \A d \in Client : held'[d] = IF held[d] = k THEN None ELSE held[d]
  BY DEF Answer, Release
<1>11. HoldIsBacked' /\ RuntimeIsFree'
  BY <1>5, <1>8, <1>10 DEF IInv, Gate, HoldIsBacked, RuntimeIsFree
<1>12. AskersAreKnown'
  BY <1>5, <1>6, <1>8, <1>10 DEF IInv, Gate, AskersAreKnown, Asking
<1>13. \A j \in Call : (call[j].mine /\ Waiting(j))' <=> call[j].mine /\ Waiting(j)
  BY <1>1, <1>4 DEF Waiting, Answer
<1>14. Listening'
  <2>1. CASE k \in Activity /\ call[k].mine
    <3>1. \A j \in Activity : call'[j].mine /\ Waiting(j)' => j = k
      BY <1>13, <2>1, PageHeard DEF Call
    <3>2. x \in {"idle", "strange"}
      BY <2>1
    <3>3. ReadBefore(k)'
      <4> SUFFICES ASSUME NEW p \in 1..Pages, p < call[k].page + 1
                   PROVE  /\ heard'[p].client = call[k].client /\ heard'[p].gen = call[k].gen
                          /\ heard'[p].shown \in {"idle", "strange"}
        BY <1>1, <1>4 DEF ReadBefore
      <4>1. heard'[p] = IF p = call[k].page THEN PageOf(k, x) ELSE heard[p]
        BY <2>1, PageHeard
      <4>2. call[k].page \in 0..Pages /\ ReadBefore(k)
        BY <2>1, PageHeard
      <4>3. call[k].at = "asked"
        BY DEF Answer
      <4>4. CASE p = call[k].page
        BY <3>2, <4>1, <4>4 DEF PageOf
      <4>5. CASE p # call[k].page
        <5>1. p < call[k].page
          BY <4>2, <4>5
        <5> QED BY <4>1, <4>2, <4>3, <4>5, <5>1 DEF ReadBefore
      <4> QED BY <4>4, <4>5
    <3> QED BY <3>1, <3>3 DEF Listening
  <2>2. CASE ~(k \in Activity /\ call[k].mine)
    <3>1. \A j \in Activity : call'[j].mine /\ Waiting(j)' => j # k /\ call[j].mine /\ Waiting(j)
      BY <1>13, <2>2, <1>4 DEF Call
    <3> QED BY <1>4, <2>2, <3>1, PageHeard, QuieterKeeps DEF Call
  <2> QED BY <2>1, <2>2
<1>15. TypeOK'
  BY <1>2, <1>4, <1>5, PageHeard, TypedParts, ReleaseTyped DEF IInv, RestTyped, GateTyped, Answer
<1> QED BY <1>7, <1>9, <1>11, <1>12, <1>14, <1>15 DEF IInv, Gate

LEMMA AnswerKeeps ==
    ASSUME IInv, NEW k \in Call, NEW x \in {"idle", "busy", "strange"}, Answer(k, x)
    PROVE  IInv'
<1>1. CASE Last(k) \/ ~Current(k) \/ (k \in Activity /\ x = "busy")
  <2>1. Done(k) /\ Says(k, x, Last(k)) /\ recovery' \in BOOLEAN
    BY <1>1 DEF Answer, IInv, TypeOK
  <2> QED BY <2>1, LastPageKeeps
<1>2. CASE ~(Last(k) \/ ~Current(k) \/ (k \in Activity /\ x = "busy"))
  BY <1>2, NextPageKeeps
<1> QED BY <1>1, <1>2

(* A new view: nothing of the old one is of its runtime.                    *)
LEMMA InjectKeeps == ASSUME IInv, Inject PROVE IInv'
<1>1. /\ call' \in [Call -> CallType]
      /\ \A j \in Call :
            /\ call'[j].at = call[j].at /\ call'[j].client = call[j].client
            /\ call'[j].behind = call[j].behind
            /\ call'[j].mine => call[j].at = "idle"
  <2>1. \A j \in Call : call[j] \in CallType
    BY DEF IInv, TypeOK, CallType
  <2>2. \A j \in Call : LET r == [call[j] EXCEPT !.mine = @ /\ call[j].at = "idle"]
                        IN /\ r \in CallType /\ r.at = call[j].at /\ r.client = call[j].client
                           /\ r.behind = call[j].behind /\ (r.mine => call[j].at = "idle")
    BY <2>1 DEF CallType
  <2> QED BY <2>2 DEF Inject
<1>2. /\ UNCHANGED <<present, retired, gate, forked>>
      /\ runtime' = None /\ gen' = 0 /\ captured' = [client |-> None, gen |-> 0]
      /\ said' = "nothing" /\ heard' = Unheard
  BY DEF Inject
<1>3. \A j \in Call : (Busy(j)' <=> Busy(j)) /\ ~Present(j)' /\ (Asks(j)' <=> Asks(j))
  BY <1>1 DEF Busy, Present, Current, Asks
<1>4. Queued' /\ GateIsPresent'
  BY <1>1, <1>2, <1>3, PlacesKept
<1>5. \A d \in Client : Asking(d)' = Asking(d)
  BY <1>1 DEF Asking
<1>6. /\ held' \in [Client -> Call \union {None}]
      /\ \A d \in Client : IF held[d] # None \/ Asking(d) = {} THEN held'[d] = held[d]
                                                                ELSE held'[d] \in Asking(d)
  BY DEF Inject
<1>7. HoldIsBacked'
  BY <1>5, <1>6 DEF IInv, HoldIsBacked
<1>8. Placed' /\ Older'
  BY <1>1, <1>2, <1>3 DEF IInv, Gate, Placed, Older, Busy
<1>9. RuntimeIsFree'
  BY <1>2, CallAssumption DEF RuntimeIsFree
<1>10. ASSUME NEW d \in Client \ forked, NEW j \in Asking(d) PROVE held'[d] = j
  <2>1. held'[d] \in Asking(d)
    BY <1>6, <1>10 DEF IInv, HoldIsBacked
  <2> QED BY <1>10, <2>1, OneAsker
<1>11. AskersAreKnown'
  BY <1>2, <1>5, <1>10 DEF AskersAreKnown
<1>12. Listening'
  BY <1>1, <1>2 DEF Listening, ReadBefore, Waiting, Call
<1>13. TypeOK'
  <2>1. faults' \in 0..MaxFaults /\ recovery' \in BOOLEAN
    BY FaultTyped DEF Inject, IInv, TypeOK
  <2> QED BY <1>1, <1>2, <1>6, <2>1, TypedParts, UnheardTyped DEF IInv, RestTyped, GateTyped
<1> QED BY <1>4, <1>7, <1>8, <1>9, <1>11, <1>12, <1>13 DEF IInv, Gate

-----------------------------------------------------------------------------

LEMMA InitHolds == Init => IInv
<1> SUFFICES ASSUME Init PROVE IInv
  OBVIOUS
<1>1. TypeOK
  <2>1. GateTyped
    BY NoCallTyped DEF Init, GateTyped
  <2>2. faults \in 0..MaxFaults
    BY BoundAssumption DEF Init
  <2>3. /\ held \in [Client -> Call \union {None}] /\ gen \in Nat
        /\ captured \in [client : Client \union {None}, gen : Nat]
    BY DEF Init
  <2>4. RestTyped
    BY <2>2, <2>3, UnheardTyped DEF Init, RestTyped
  <2> QED BY <2>1, <2>4, TypedParts
<1>2. \A k \in Call : ~Busy(k) /\ ~Asks(k) /\ ~Waiting(k)
  BY DEF Init, NoCall, Busy, Asks, Waiting
<1>3. \A c \in Client : Asking(c) = {} /\ held[c] = None
  BY <1>2 DEF Init, Asking, Asks
<1>4. \A c \in Client : QueueOf(c, {})
  BY <1>2 DEF Init, QueueOf, Present
<1>5. Queued
  BY <1>4 DEF Queued
<1>6. Older
  BY <1>2 DEF Init, Older
<1> QED BY <1>1, <1>2, <1>3, <1>5, <1>6
        DEF Init, IInv, Gate, HoldIsBacked, Placed, GateIsPresent, RuntimeIsFree, AskersAreKnown,
            Listening, ReadBefore, Present, Call

LEMMA NextKeeps == ASSUME IInv, Next PROVE IInv'
  BY DiscoverKeeps, CaptureKeeps, RestartKeeps, InjectKeeps, StartsKeep, EnterKeeps, CancelKeeps,
     AnswerKeeps, RefuseKeeps, TimeOutKeeps, SettleKeeps
  DEF Next, Call

LEMMA StutterKeeps == ASSUME IInv, UNCHANGED vars PROVE IInv'
<1>1. UNCHANGED <<present, retired, runtime, gen, gate, held, recovery, call, captured, said, heard,
                  forked, faults>>
  BY DEF vars, runtimes, registry
<1>2. Queued' /\ GateIsPresent'
  BY <1>1, PlacesKept DEF Present, Current, Busy
<1> QED BY <1>1, <1>2 DEF IInv, TypeOK, Gate, HoldIsBacked, Placed, Older, RuntimeIsFree,
            AskersAreKnown, Asking, Busy, Asks, Current, Listening, ReadBefore, Waiting

LEMMA Invariance == Spec => []IInv
<1>1. IInv /\ [Next]_vars => IInv'
  BY NextKeeps, StutterKeeps
<1> QED BY <1>1, InitHolds, PTL DEF Spec

(* Runtime, registry, callers and what they were told keep their types.     *)
THEOREM TypeCorrect == Spec => []TypeOK
<1>1. IInv => TypeOK
  BY DEF IInv
<1> QED BY <1>1, Invariance, PTL

(* One unsettled listing at a time per client, whoever lists, whatever is   *)
(* given up, and however often the view is injected anew, unless a call of  *)
(* an older generation has replaced the gate.                               *)
THEOREM OneListing == Spec => []OneListingPerClient
<1>1. ASSUME IInv PROVE OneListingPerClient
  <2> SUFFICES ASSUME NEW c \in Client \ forked PROVE Cardinality(Asking(c)) <= 1
    BY DEF OneListingPerClient
  <2>1. CASE Asking(c) = {}
    BY <2>1, FS_EmptySet
  <2>2. CASE Asking(c) # {}
    <3>1. PICK k : k \in Asking(c)
      BY <2>2
    <3>2. Asking(c) = {k}
      BY <1>1, <3>1, OneAsker
    <3> QED BY <3>2, FS_Singleton
  <2> QED BY <2>1, <2>2
<1> QED BY <1>1, Invariance, PTL

(* A quarantine always has a request that will end it.                      *)
THEOREM HoldsEnd == Spec => []HoldIsBacked
<1>1. IInv => HoldIsBacked
  BY DEF IInv
<1> QED BY <1>1, Invariance, PTL

(* An update hears "idle" only when every page, up to the last, was read    *)
(* through the runtime that is present at that moment and showed idle tasks *)
(* only, whatever callers, restarts, disposed views and late answers came   *)
(* between.                                                                 *)
THEOREM IdleEarned == Spec => IdleIsEarned
<1> DEFINE Step == said' = "idle" /\ said # "idle"
                      => \A p \in 1..Pages :
                            heard'[p] = [client |-> runtime', gen |-> gen', shown |-> "idle"]
<1>1. ASSUME IInv, Next PROVE Step
  <2> SUFFICES ASSUME said' = "idle", said # "idle", NEW p \in 1..Pages
               PROVE  heard'[p] = [client |-> runtime', gen |-> gen', shown |-> "idle"]
    OBVIOUS
  <2>1. PICK k \in Call : \E x \in {"idle", "busy", "strange"} : Answer(k, x)
    <3>1. CASE Discover \/ Capture \/ Restart \/ Inject
      BY <3>1 DEF Discover, Capture, Restart, Inject
    <3>2. ASSUME NEW k \in Call, StartActivity(k) \/ StartHydration(k) \/ StartCleanup(k)
          PROVE  FALSE
      BY <3>2 DEF StartActivity, StartHydration, StartCleanup
    <3>3. ASSUME NEW k \in Call,
                 Enter(k) \/ Cancel(k) \/ Refuse(k) \/ TimeOut(k) \/ Settle(k)
          PROVE  FALSE
      BY <3>3 DEF Enter, Cancel, Refuse, TimeOut, Settle, Fails
    <3> QED BY <1>1, <3>1, <3>2, <3>3 DEF Next, Call
  <2>2. PICK x \in {"idle", "busy", "strange"} : Answer(k, x)
    BY <2>1
  <2>3. k \in Activity /\ call[k].mine /\ Current(k) /\ x # "busy" /\ ~Strange /\ Last(k)
    BY <2>2 DEF Answer, Says
  <2>4. /\ heard' \in Hearings /\ ReadBefore(k)
        /\ heard'[p] = IF p = call[k].page THEN PageOf(k, x) ELSE heard[p]
    BY <1>1, <2>2, <2>3, PageHeard
  <2>5. heard'[p].shown # "strange"
    BY <2>3 DEF Strange
  <2>6. heard'[p].client = call[k].client /\ heard'[p].gen = call[k].gen
        /\ heard'[p].shown = "idle"
    <3>1. CASE p = call[k].page
      BY <2>3, <2>4, <2>5, <3>1 DEF PageOf
    <3>2. CASE p # call[k].page
      <4>1. p < call[k].page /\ call[k].at = "asked"
        BY <2>2, <2>3, <3>2, BoundAssumption DEF Last, Answer
      <4> QED BY <2>4, <2>5, <3>2, <4>1 DEF ReadBefore
    <3> QED BY <3>1, <3>2
  <2>7. runtime' = call[k].client /\ gen' = call[k].gen
    BY <2>2, <2>3 DEF Answer, runtimes, Current
  <2> QED BY <2>4, <2>6, <2>7 DEF Hearings
<1>2. IInv /\ [Next]_vars => [Step]_vars
  BY <1>1
<1> QED BY <1>2, Invariance, PTL DEF Spec, IdleIsEarned
-----------------------------------------------------------------------------
(* An activity of the present runtime is listed only while no recovery is   *)
(* pending: it began when none was, and what sets one takes the runtime     *)
(* away.                                                                    *)
Known == forked = {} => \A k \in Activity : Waiting(k) /\ Current(k) => ~recovery

(* Steps after which nothing waits that did not, and no recovery is new.    *)
LEMMA QuietKeepsKnown ==
    ASSUME Known, forked \subseteq forked', recovery' => recovery,
           \A k \in Activity : (Waiting(k) /\ Current(k))' => Waiting(k) /\ Current(k)
    PROVE  Known'
  BY DEF Known

LEMMA DoneKeepsKnown ==
    ASSUME IInv, Known, NEW k \in Call, Done(k), recovery' => recovery,
           UNCHANGED <<runtime, gen, forked>>
    PROVE  Known'
<1>1. \A j \in Activity : (Waiting(j) /\ Current(j))' => Waiting(j) /\ Current(j)
  <2> SUFFICES ASSUME NEW j \in Call
               PROVE  Waiting(j)' /\ Current(j)' => Waiting(j) /\ Current(j)
    BY DEF Call
  <2>1. TypeOK
    BY DEF IInv
  <2>2. CASE j = k
    BY <2>1, <2>2, DoneEffect DEF Waiting, NoCall
  <2>3. CASE j # k
    BY <2>1, <2>3, DoneEffect DEF Waiting, Current
  <2> QED BY <2>2, <2>3
<1> QED BY <1>1, QuietKeepsKnown

LEMMA StartKeepsKnown ==
    ASSUME IInv, Known, NEW k \in Call, NEW c \in Client, NEW g \in Nat, Enqueue(k, c, g),
           k \in Activity => ~recovery, UNCHANGED <<runtimes, recovery>>
    PROVE  Known'
<1>1. Placing(k, c, g)
  BY EnqueueEffect DEF IInv
<1>2. forked \subseteq forked'
  BY DEF Enqueue
<1> SUFFICES ASSUME forked' = {}, NEW j \in Activity, Waiting(j)', Current(j)' PROVE ~recovery'
  BY DEF Known
<1>3. CASE j = k
  BY <1>3
<1>4. CASE j # k
  <2>1. call'[j] = call[j]
    BY <1>1, <1>4 DEF Placing, Call
  <2>2. Waiting(j) /\ Current(j) /\ forked = {}
    BY <1>2, <2>1 DEF Waiting, Current, runtimes
  <2> QED BY <2>2 DEF Known
<1> QED BY <1>3, <1>4

LEMMA StartsKeepKnown ==
    ASSUME IInv, Known, NEW k \in Call,
           \/ k \in Activity /\ StartActivity(k)
           \/ k \in Hydration /\ StartHydration(k)
           \/ k \in Cleanup /\ StartCleanup(k)
    PROVE  Known'
<1>1. CASE k \in Activity /\ StartActivity(k)
  BY <1>1, StartKeepsKnown DEF StartActivity, MayAsk, IInv, TypeOK
<1>2. CASE k \in Hydration /\ StartHydration(k)
  BY <1>2, StartKeepsKnown, CallAssumption DEF StartHydration, IInv, TypeOK
<1>3. CASE k \in Cleanup /\ StartCleanup(k)
  BY <1>3, StartKeepsKnown, CallAssumption DEF StartCleanup, IInv, TypeOK
<1> QED BY <1>1, <1>2, <1>3

(* A call that goes on waits as before.                                     *)
LEMMA GoingOnKeepsKnown ==
    ASSUME IInv, Known, NEW k \in Call, NEW STATE r, call' = [call EXCEPT ![k] = r], Waiting(k),
           r.client = call[k].client, r.gen = call[k].gen, r.mine = call[k].mine,
           recovery' => recovery, UNCHANGED <<runtime, gen, forked>>
    PROVE  Known'
<1>1. \A j \in Call : Waiting(j)' /\ Current(j)' => Waiting(j) /\ Current(j)
  <2> SUFFICES ASSUME NEW j \in Call
               PROVE  Waiting(j)' /\ Current(j)' => Waiting(j) /\ Current(j)
    OBVIOUS
  <2>1. CASE j = k
    BY <2>1 DEF Current, IInv, TypeOK
  <2>2. CASE j # k
    BY <2>2 DEF Waiting, Current, IInv, TypeOK
  <2> QED BY <2>1, <2>2
<1> QED BY <1>1, QuietKeepsKnown DEF Call

LEMMA EnterKeepsKnown == ASSUME IInv, Known, NEW k \in Call, Enter(k) PROVE Known'
<1>1. CASE Current(k)
  <2> DEFINE r == [call[k] EXCEPT !.at = "asked", !.page = 1]
  <2>1. call' = [call EXCEPT ![k] = r]
    BY <1>1 DEF Enter, IInv, TypeOK
  <2>2. r.client = call[k].client /\ r.gen = call[k].gen /\ r.mine = call[k].mine
    BY DEF IInv, TypeOK
  <2> HIDE DEF r
  <2> QED BY <2>1, <2>2, GoingOnKeepsKnown DEF Enter, Waiting, runtimes
<1>2. CASE ~Current(k)
  BY <1>2, DoneKeepsKnown DEF Enter, runtimes
<1> QED BY <1>1, <1>2

LEMMA AnswerKeepsKnown ==
    ASSUME IInv, Known, NEW k \in Call, NEW x \in {"idle", "busy", "strange"}, Answer(k, x)
    PROVE  Known'
<1>1. CASE Last(k) \/ ~Current(k) \/ (k \in Activity /\ x = "busy")
  BY <1>1, DoneKeepsKnown DEF Answer, runtimes
<1>2. CASE ~(Last(k) \/ ~Current(k) \/ (k \in Activity /\ x = "busy"))
  <2> DEFINE r == [call[k] EXCEPT !.page = @ + 1]
  <2>1. call' = [call EXCEPT ![k] = r] /\ recovery' = recovery
    BY <1>2 DEF Answer
  <2>2. r.client = call[k].client /\ r.gen = call[k].gen /\ r.mine = call[k].mine
    BY DEF IInv, TypeOK
  <2> HIDE DEF r
  <2> QED BY <2>1, <2>2, GoingOnKeepsKnown DEF Answer, Waiting, runtimes
<1> QED BY <1>1, <1>2

(* Whose listing is given up was of the present runtime, or its client was  *)
(* in quarantine already.                                                   *)
LEMMA TimeOutKeepsKnown == ASSUME IInv, Known, NEW k \in Call, TimeOut(k) PROVE Known'
<1> DEFINE c == call[k].client
<1>1. /\ k \in Asking(c) /\ c \in Client /\ UNCHANGED forked
      /\ \A j \in Call \ {k} : call'[j] = call[j]
      /\ call'[k].at = "abandoned"
  <2>1. k \in Asking(c) /\ c \in Client
    BY DEF TimeOut, Asking, IInv, Gate, Placed, Busy
  <2>2. call' = [call EXCEPT ![k].at = "abandoned"] /\ UNCHANGED forked
    BY DEF TimeOut
  <2> QED BY <2>1, <2>2 DEF IInv, TypeOK
<1>2. CASE held[c] # None
  <2>1. UNCHANGED <<recovery, runtime, gen>>
    BY <1>2 DEF TimeOut, Quarantine
  <2>2. \A j \in Call : Waiting(j)' /\ Current(j)' => Waiting(j) /\ Current(j)
    BY <1>1, <2>1 DEF Waiting, Current
  <2> QED BY <1>1, <2>1, <2>2, QuietKeepsKnown DEF Call
<1>3. CASE held[c] = None
  <2> SUFFICES ASSUME forked = {}, NEW j \in Call, Waiting(j)', Current(j)' PROVE FALSE
    BY <1>1 DEF Known, Call
  <2>1. k \in Call /\ held[c] # k
    BY <1>3, CallAssumption
  <2>2. Current(k)
    BY <1>1, <2>1 DEF IInv, Gate, AskersAreKnown
  <2>3. runtime' = None
    BY <1>3, <2>2 DEF TimeOut, Quarantine
  <2>4. call'[j] = call[j] /\ Waiting(j)
    BY <1>1 DEF Waiting
  <2>5. call[j].client \in Client
    BY <2>4 DEF IInv, Gate, Placed, Busy, Waiting
  <2> QED BY <2>3, <2>4, <2>5, CallAssumption DEF Current
<1> QED BY <1>2, <1>3

LEMMA NextKeepsKnown == ASSUME IInv, Known, Next PROVE Known'
<1>1. CASE Discover
  <2>1. \A j \in Call : ~(Waiting(j) /\ Current(j))'
    BY <1>1 DEF Discover, Waiting, Current, IInv, TypeOK, Gate, Older, Busy
  <2> QED BY <2>1 DEF Known, Call
<1>2. CASE Capture \/ Restart
  BY <1>2 DEF Capture, Restart, Known, Waiting, Current, runtimes, registry
<1>3. CASE Inject
  <2>1. \A j \in Call : call'[j].mine => call'[j].at = "idle"
    BY <1>3 DEF Inject, IInv, TypeOK
  <2> QED BY <2>1 DEF Known, Waiting, Current, Call
<1>4. CASE \/ \E k \in Activity : StartActivity(k)
           \/ \E k \in Hydration : StartHydration(k)
           \/ \E k \in Cleanup : StartCleanup(k)
  BY <1>4, StartsKeepKnown DEF Call
<1>5. ASSUME NEW k \in Call, Cancel(k) \/ Refuse(k) \/ Settle(k) PROVE Known'
  BY <1>5, DoneKeepsKnown DEF Cancel, Refuse, Settle, runtimes
<1> QED BY <1>1, <1>2, <1>3, <1>4, <1>5, EnterKeepsKnown, AnswerKeepsKnown, TimeOutKeepsKnown
        DEF Next

LEMMA KnownInvariance == Spec => [](IInv /\ Known)
<1>1. Init => Known
  BY DEF Init, Known, Waiting, NoCall, Call
<1>2. IInv /\ Known /\ [Next]_vars => Known'
  <2>1. ASSUME Known, UNCHANGED vars PROVE Known'
    BY <2>1 DEF Known, Waiting, Current, vars, runtimes, registry
  <2> QED BY <2>1, NextKeepsKnown
<1> QED BY <1>1, <1>2, Invariance, PTL DEF Spec

(* What an update hears of the tasks, "idle" or "busy", comes through the   *)
(* present runtime, and never while a listing that was given up has not     *)
(* been made good by an inventory; unless a call of an older generation has *)
(* replaced a gate.                                                         *)
THEOREM KnownOnlyRecovered == Spec => KnownWhenRecovered
<1> DEFINE Step == said' \in {"idle", "busy"} /\ said' # said
                      => (~recovery' /\ runtime' # None) \/ forked' # {}
<1>1. ASSUME IInv, Known, Next PROVE Step
  <2> SUFFICES ASSUME said' \in {"idle", "busy"}, said' # said, forked' = {}
               PROVE  ~recovery' /\ runtime' # None
    OBVIOUS
  <2>1. PICK k \in Call : \E x \in {"idle", "busy", "strange"} : Answer(k, x)
    <3>1. CASE Discover \/ Capture \/ Restart \/ Inject
      BY <3>1 DEF Discover, Capture, Restart, Inject
    <3>2. ASSUME NEW k \in Call, StartActivity(k) \/ StartHydration(k) \/ StartCleanup(k)
          PROVE  FALSE
      BY <3>2 DEF StartActivity, StartHydration, StartCleanup
    <3>3. ASSUME NEW k \in Call,
                 Enter(k) \/ Cancel(k) \/ Refuse(k) \/ TimeOut(k) \/ Settle(k)
          PROVE  FALSE
      BY <3>3 DEF Enter, Cancel, Refuse, TimeOut, Settle, Fails
    <3> QED BY <1>1, <3>1, <3>2, <3>3 DEF Next, Call
  <2>2. k \in Activity /\ Current(k) /\ call[k].at = "asked"
    BY <2>1 DEF Answer, Says
  <2>3. UNCHANGED <<runtime, forked>> /\ (recovery' => recovery)
    BY <2>1 DEF Answer, runtimes
  <2>4. runtime \in Client
    BY <1>1, <2>2 DEF Current, IInv, Gate, Placed, Busy
  <2> QED BY <1>1, <2>2, <2>3, <2>4, CallAssumption DEF Known, Waiting
<1>2. IInv /\ Known /\ [Next]_vars => [Step]_vars
  BY <1>1
<1> QED BY <1>2, KnownInvariance, PTL DEF Spec, KnownWhenRecovered
=============================================================================
