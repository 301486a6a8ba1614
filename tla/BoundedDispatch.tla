--------------------------- MODULE BoundedDispatch ---------------------------
(***************************************************************************)
(* backend/app/bounded_dispatch.py: the bounded, coalescing thread pool    *)
(* between the local HTTP routes and the synchronous UI code.              *)
(*                                                                         *)
(* A call is one invocation of run(); the future it may submit carries the *)
(* name of the call that owns it.  A pool is one (semaphore, executor)     *)
(* pair: start() after close() opens the next one, while futures of the    *)
(* pools before it keep running (shutdown(wait=False,                      *)
(* cancel_futures=False)).  start() and close() are called by the lifespan *)
(* of the app, on one thread, so each is one step.                         *)
(***************************************************************************)
EXTENDS Integers, FiniteSets

CONSTANTS Calls,        \* invocations of run()
          Keys,         \* coalesce keys
          NoKey,        \* coalesce_key=None
          NoCall,       \* no future
          MaxWorkers,   \* max_workers
          MaxQueued,    \* max_queued
          MaxRestarts   \* bound: how many times start() reopens the pool

ASSUME ConfigAssumption ==
    /\ MaxWorkers \in Nat \ {0}
    /\ MaxQueued \in Nat
    /\ MaxRestarts \in Nat

ASSUME NamesAssumption ==
    /\ NoKey \notin Keys
    /\ NoCall \notin Calls
    /\ IsFiniteSet(Calls)

VARIABLES
    closed,    \* _closed
    pool,      \* number of the current (_slots, _executor) pair
    free,      \* pool |-> value of its semaphore
    inflight,  \* _inflight: key |-> the call that owns the future, or NoCall
    call,      \* call |-> progress of the coroutine run()
    key,       \* call |-> its coalesce_key, once it is admitted
    joined,    \* call |-> the call whose future it awaits
    home,      \* call |-> the pool its own future was submitted to
    work,      \* call |-> progress of its own future
    callback   \* call |-> progress of completed() on its own future

vars == <<closed, pool, free, inflight, call, key, joined, home, work, callback>>

Pools == 0 .. MaxRestarts
Capacity == MaxWorkers + MaxQueued

TypeOK ==
    /\ closed \in BOOLEAN
    /\ pool \in Pools
    /\ free \in [Pools -> Nat]
    /\ inflight \in [Keys -> Calls \cup {NoCall}]
    /\ call \in [Calls -> {"new", "submitted", "waiting", "answered", "timeout", "busy"}]
    /\ key \in [Calls -> Keys \cup {NoKey}]
    /\ joined \in [Calls -> Calls \cup {NoCall}]
    /\ home \in [Calls -> Pools]
    /\ work \in [Calls -> {"none", "queued", "running", "finished"}]
    /\ callback \in [Calls -> {"none", "armed", "release", "clear", "done"}]

Init ==
    /\ closed = FALSE
    /\ pool = 0
    /\ free = [p \in Pools |-> Capacity]
    /\ inflight = [k \in Keys |-> NoCall]
    /\ call = [c \in Calls |-> "new"]
    /\ key = [c \in Calls |-> NoKey]
    /\ joined = [c \in Calls |-> NoCall]
    /\ home = [c \in Calls |-> 0]
    /\ work = [c \in Calls |-> "none"]
    /\ callback = [c \in Calls |-> "none"]

-----------------------------------------------------------------------------
(* run(), the block under _state_lock: refuse, join a future in flight, or  *)
(* take a slot and submit.                                                  *)

Existing(k) == IF k = NoKey THEN NoCall ELSE inflight[k]

Refuse(c, k) ==
    /\ call[c] = "new"
    /\ closed \/ (Existing(k) = NoCall /\ free[pool] = 0)
    /\ call' = [call EXCEPT ![c] = "busy"]
    /\ UNCHANGED <<closed, pool, free, inflight, key, joined, home, work, callback>>

Join(c, k) ==
    /\ call[c] = "new"
    /\ ~closed
    /\ Existing(k) # NoCall
    /\ call' = [call EXCEPT ![c] = "waiting"]
    /\ key' = [key EXCEPT ![c] = k]
    /\ joined' = [joined EXCEPT ![c] = Existing(k)]
    /\ UNCHANGED <<closed, pool, free, inflight, home, work, callback>>

(* Mutant of Submit: a call without a key is filed like one with a key.     *)
SubmitFilesNoKey(c, k) ==
    /\ call[c] = "new"
    /\ ~closed
    /\ Existing(k) = NoCall
    /\ free[pool] > 0
    /\ free' = [free EXCEPT ![pool] = @ - 1]
    /\ inflight' = [x \in Keys \cup {k} |-> IF x = k THEN c ELSE inflight[x]]
    /\ call' = [call EXCEPT ![c] = "submitted"]
    /\ key' = [key EXCEPT ![c] = k]
    /\ joined' = [joined EXCEPT ![c] = c]
    /\ home' = [home EXCEPT ![c] = pool]
    /\ work' = [work EXCEPT ![c] = "queued"]
    /\ UNCHANGED <<closed, pool, callback>>

Submit(c, k) ==
    /\ call[c] = "new"
    /\ ~closed
    /\ Existing(k) = NoCall
    /\ free[pool] > 0
    /\ free' = [free EXCEPT ![pool] = @ - 1]
    /\ inflight' = IF k = NoKey THEN inflight ELSE [inflight EXCEPT ![k] = c]
    /\ call' = [call EXCEPT ![c] = "submitted"]
    /\ key' = [key EXCEPT ![c] = k]
    /\ joined' = [joined EXCEPT ![c] = c]
    /\ home' = [home EXCEPT ![c] = pool]
    /\ work' = [work EXCEPT ![c] = "queued"]
    /\ UNCHANGED <<closed, pool, callback>>

(* Mutant of AddDoneCallback: a future that finished before the callback    *)
(* was added is left without one.                                           *)
AddDoneCallbackLate(c) ==
    /\ call[c] = "submitted"
    /\ call' = [call EXCEPT ![c] = "waiting"]
    /\ callback' = [callback EXCEPT ![c] = "armed"]
    /\ UNCHANGED <<closed, pool, free, inflight, key, joined, home, work>>

(* future.add_done_callback(completed), after the lock was given up: a      *)
(* future that already finished runs the callback at once.                  *)
AddDoneCallback(c) ==
    /\ call[c] = "submitted"
    /\ call' = [call EXCEPT ![c] = "waiting"]
    /\ callback' = [callback EXCEPT
                      ![c] = IF work[c] = "finished" THEN "release" ELSE "armed"]
    /\ UNCHANGED <<closed, pool, free, inflight, key, joined, home, work>>

-----------------------------------------------------------------------------
(* The executor of a pool.                                                  *)

Running(p) == {c \in Calls : home[c] = p /\ work[c] = "running"}

StartWork(c) ==
    /\ work[c] = "queued"
    /\ Cardinality(Running(home[c])) < MaxWorkers
    /\ work' = [work EXCEPT ![c] = "running"]
    /\ UNCHANGED <<closed, pool, free, inflight, call, key, joined, home, callback>>

FinishWork(c) ==
    /\ work[c] = "running"
    /\ work' = [work EXCEPT ![c] = "finished"]
    /\ callback' = [callback EXCEPT ![c] = IF @ = "armed" THEN "release" ELSE @]
    /\ UNCHANGED <<closed, pool, free, inflight, call, key, joined, home>>

(* Mutant of ReleaseSlot: self._slots instead of the captured semaphore.    *)
ReleaseSlotOfCurrentPool(c) ==
    /\ callback[c] = "release"
    /\ free' = [free EXCEPT ![pool] = @ + 1]
    /\ callback' = [callback EXCEPT ![c] = IF key[c] = NoKey THEN "done" ELSE "clear"]
    /\ UNCHANGED <<closed, pool, inflight, call, key, joined, home, work>>

(* completed(): slots.release() on the semaphore captured by run() ...      *)
ReleaseSlot(c) ==
    /\ callback[c] = "release"
    /\ free' = [free EXCEPT ![home[c]] = @ + 1]
    /\ callback' = [callback EXCEPT ![c] = IF key[c] = NoKey THEN "done" ELSE "clear"]
    /\ UNCHANGED <<closed, pool, inflight, call, key, joined, home, work>>

(* ... then, under _state_lock, drop the entry if it is still this future.  *)
ClearInflight(c) ==
    /\ callback[c] = "clear"
    /\ inflight' = [inflight EXCEPT ![key[c]] = IF @ = c THEN NoCall ELSE @]
    /\ callback' = [callback EXCEPT ![c] = "done"]
    /\ UNCHANGED <<closed, pool, free, call, key, joined, home, work>>

-----------------------------------------------------------------------------
(* run(), the await: the shielded future answers, or the deadline passes    *)
(* and the work keeps its slot.                                             *)

Answer(c) ==
    /\ call[c] = "waiting"
    /\ work[joined[c]] = "finished"
    /\ call' = [call EXCEPT ![c] = "answered"]
    /\ UNCHANGED <<closed, pool, free, inflight, key, joined, home, work, callback>>

(* Mutants of Deadline: a timed-out operation drops its coalescing entry;   *)
(* or only the owner of the work has a deadline.                            *)
DeadlineForgets(c) ==
    /\ call[c] = "waiting"
    /\ call' = [call EXCEPT ![c] = "timeout"]
    /\ inflight' = [k \in Keys |-> IF k = key[c] THEN NoCall ELSE inflight[k]]
    /\ UNCHANGED <<closed, pool, free, key, joined, home, work, callback>>

DeadlineOfOwner(c) ==
    /\ call[c] = "waiting"
    /\ joined[c] = c
    /\ call' = [call EXCEPT ![c] = "timeout"]
    /\ UNCHANGED <<closed, pool, free, inflight, key, joined, home, work, callback>>

Deadline(c) ==
    /\ call[c] = "waiting"
    /\ call' = [call EXCEPT ![c] = "timeout"]
    /\ UNCHANGED <<closed, pool, free, inflight, key, joined, home, work, callback>>

(* close() and start(); the last pool of the bound is not closed, the ones  *)
(* before it are, with or without a start() after.                          *)
Close ==
    /\ ~closed
    /\ pool < MaxRestarts
    /\ closed' = TRUE
    /\ UNCHANGED <<pool, free, inflight, call, key, joined, home, work, callback>>

Start ==
    /\ closed
    /\ pool < MaxRestarts
    /\ closed' = FALSE
    /\ pool' = pool + 1
    /\ inflight' = [k \in Keys |-> NoCall]
    /\ UNCHANGED <<free, call, key, joined, home, work, callback>>

-----------------------------------------------------------------------------
Next ==
    \/ \E c \in Calls, k \in Keys \cup {NoKey} :
            Refuse(c, k) \/ Join(c, k) \/ Submit(c, k)
    \/ \E c \in Calls :
            \/ AddDoneCallback(c) \/ StartWork(c) \/ FinishWork(c)
            \/ ReleaseSlot(c) \/ ClearInflight(c) \/ Answer(c) \/ Deadline(c)
    \/ Close
    \/ Start

Spec == Init /\ [][Next]_vars

(* The event loop resumes a coroutine that can go on.                       *)
LoopFairness ==
    \A c \in Calls : WF_vars(AddDoneCallback(c)) /\ WF_vars(Answer(c) \/ Deadline(c))

(* A worker that is done with its work runs the future's callback; the work *)
(* itself may hang for ever.                                                *)
WorkerFairness ==
    \A c \in Calls : WF_vars(ReleaseSlot(c) \/ ClearInflight(c))

FairSpec == Spec /\ LoopFairness /\ WorkerFairness

-----------------------------------------------------------------------------
(* Futures that hold a slot of pool p: submitted there, not yet released.   *)
Holding(p) ==
    {c \in Calls : home[c] = p /\ work[c] # "none"
                     /\ callback[c] \notin {"clear", "done"}}

(* Every slot is either free or held by exactly one unreturned future of    *)
(* the pool it was taken from: timeouts, joins, close and restart neither   *)
(* leak a slot nor give one back twice.                                     *)
SlotsConserved ==
    \A p \in Pools : free[p] + Cardinality(Holding(p)) = Capacity

(* A keyed future of the current pool whose callback has not cleared it is  *)
(* the one a further call with its key joins.  A future of an earlier pool  *)
(* that ends late does not remove the entry of the one that replaced it.    *)
InflightIsCurrent ==
    /\ \A c \in Calls :
         (work[c] # "none" /\ callback[c] # "done" /\ key[c] # NoKey /\ home[c] = pool)
            => inflight[key[c]] = c
    /\ \A k \in Keys :
         inflight[k] # NoCall => /\ key[inflight[k]] = k
                                 /\ home[inflight[k]] = pool
                                 /\ work[inflight[k]] # "none"
                                 /\ callback[inflight[k]] # "done"

(* One future per key: while the work of a key is under way in the current  *)
(* pool no second call runs the same operation.                             *)
SingleFlight ==
    \A c, d \in Calls :
        (/\ key[c] = key[d] /\ key[c] # NoKey
         /\ home[c] = pool /\ home[d] = pool
         /\ work[c] \in {"queued", "running"} /\ work[d] \in {"queued", "running"})
           => c = d

(* What callers see of the futures and of the coalescing table.             *)
Told == [c \in Calls |-> IF call[c] = "submitted" THEN "waiting" ELSE call[c]]
Inside == {c \in Calls : work[c] # "none" /\ callback[c] \notin {"clear", "done"}}
Ended == {c \in Calls : work[c] = "finished"}
Joinable == {c \in Calls : key[c] # NoKey /\ inflight[key[c]] = c}

(* The semaphores, the table and the callbacks implement the gate: a call   *)
(* is refused only by a closed or a full pool, admitted only into a free    *)
(* place and when no operation of its key is under way in the pool, and     *)
(* answered only by the operation it waits for.                             *)
Gate == INSTANCE CoalescingGate WITH
            LastPool <- MaxRestarts, open <- ~closed, caller <- Told, leader <- joined,
            inside <- Inside, ended <- Ended, joinable <- Joinable
ImplementsGate == Gate!Spec

(* Work that returns gives its slot and its key back, also when its call    *)
(* timed out or its pool was closed.                                        *)
SlotsComeBack ==
    \A c \in Calls : (work[c] = "finished") ~> (callback[c] = "done")

(* Every admitted call, the owner of the work or one that joined it, gets   *)
(* an answer or a timeout even when the work never returns.                 *)
CallsEnd ==
    \A c \in Calls :
        (call[c] \in {"submitted", "waiting"}) ~> (call[c] \in {"answered", "timeout"})
=============================================================================
