---------------------------- MODULE CoalescingGate ----------------------------
(***************************************************************************)
(* What the bounded dispatcher promises its callers, with no semaphore, no *)
(* table, no callbacks and no worker threads in it: an operation is        *)
(* admitted only while its pool has room, an operation with the key of one *)
(* under way in the pool joins it, a call is turned away only when the     *)
(* gate is closed or the pool is full of other operations, a call is       *)
(* answered only by the operation it waits for, and an operation keeps its *)
(* place until its work has ended, however long nobody waits for it.       *)
(***************************************************************************)
EXTENDS Integers, FiniteSets

CONSTANTS Calls, Keys, NoKey, NoCall,
          Capacity,     \* operations a pool holds, running or queued
          LastPool      \* bound: number of the last pool, which stays open

VARIABLES open, pool,   \* is the gate open, and into which pool
          caller,       \* call |-> what it has been told
          key, leader,  \* admitted call |-> its key, the operation it waits for
          home,         \* operation |-> its pool; an operation is named by its call
          inside,       \* operations that have a place in their pool
          ended,        \* operations whose work has ended
          joinable      \* operations that calls with their key join

vars == <<open, pool, caller, key, leader, home, inside, ended, joinable>>

Init ==
    /\ open = TRUE /\ pool = 0
    /\ caller = [c \in Calls |-> "new"]
    /\ key = [c \in Calls |-> NoKey]
    /\ leader = [c \in Calls |-> NoCall]
    /\ home = [c \in Calls |-> 0]
    /\ inside = {} /\ ended = {} /\ joinable = {}

Told(c, what) == caller' = [caller EXCEPT ![c] = what]

Full == Cardinality({d \in inside : home[d] = pool}) = Capacity
Led(k) == {d \in joinable : key[d] = k}

Refuse(c, k) ==
    /\ caller[c] = "new"
    /\ ~open \/ (Full /\ Led(k) = {})
    /\ Told(c, "busy")
    /\ UNCHANGED <<open, pool, key, leader, home, inside, ended, joinable>>

Join(c, k, d) ==
    /\ caller[c] = "new" /\ open
    /\ d \in Led(k) /\ home[d] = pool
    /\ Told(c, "waiting")
    /\ key' = [key EXCEPT ![c] = k]
    /\ leader' = [leader EXCEPT ![c] = d]
    /\ UNCHANGED <<open, pool, home, inside, ended, joinable>>

Admit(c, k) ==
    /\ caller[c] = "new" /\ open
    /\ ~Full /\ Led(k) = {}
    /\ Told(c, "waiting")
    /\ key' = [key EXCEPT ![c] = k]
    /\ leader' = [leader EXCEPT ![c] = c]
    /\ home' = [home EXCEPT ![c] = pool]
    /\ inside' = inside \cup {c}
    /\ joinable' = IF k = NoKey THEN joinable ELSE joinable \cup {c}
    /\ UNCHANGED <<open, pool, ended>>

(* Its work ends, its place is given back, and only then is it forgotten.   *)
EndWork(d) ==
    /\ d \in inside \ ended
    /\ ended' = ended \cup {d}
    /\ UNCHANGED <<open, pool, caller, key, leader, home, inside, joinable>>

Leave(d) ==
    /\ d \in inside \cap ended
    /\ inside' = inside \ {d}
    /\ UNCHANGED <<open, pool, caller, key, leader, home, ended, joinable>>

Forget(d) ==
    /\ d \in joinable \ inside
    /\ joinable' = joinable \ {d}
    /\ UNCHANGED <<open, pool, caller, key, leader, home, inside, ended>>

Answer(c) ==
    /\ caller[c] = "waiting" /\ leader[c] \in ended
    /\ Told(c, "answered")
    /\ UNCHANGED <<open, pool, key, leader, home, inside, ended, joinable>>

GiveUp(c) ==
    /\ caller[c] = "waiting"
    /\ Told(c, "timeout")
    /\ UNCHANGED <<open, pool, key, leader, home, inside, ended, joinable>>

Close ==
    /\ open /\ open' = FALSE
    /\ pool < LastPool
    /\ UNCHANGED <<pool, caller, key, leader, home, inside, ended, joinable>>

(* A new pool has all its places, whatever still runs in the ones before.   *)
Reopen ==
    /\ ~open /\ open' = TRUE
    /\ pool < LastPool /\ pool' = pool + 1
    /\ joinable' = {}
    /\ UNCHANGED <<caller, key, leader, home, inside, ended>>

Next ==
    \/ \E c \in Calls, k \in Keys \cup {NoKey} :
          Refuse(c, k) \/ Admit(c, k) \/ \E d \in Calls : Join(c, k, d)
    \/ \E c \in Calls : EndWork(c) \/ Leave(c) \/ Forget(c) \/ Answer(c) \/ GiveUp(c)
    \/ Close \/ Reopen

Spec == Init /\ [][Next]_vars
=============================================================================
