------------------------ MODULE BoundedDispatch_proofs ------------------------
(***************************************************************************)
(* TLAPS proofs about BoundedDispatch, for every set of calls and keys,    *)
(* every pool size and every number of restarts.                           *)
(*                                                                         *)
(* IInv ties the coroutine, its future and its callback together; under it *)
(* each action is a step of CoalescingGate or changes nothing a caller can *)
(* see (GateTheorem).                                                      *)
(***************************************************************************)
EXTENDS BoundedDispatch, FiniteSetTheorems, TLAPS

(* How the coroutine, its future and its callback move together: what a     *)
(* guard on one of the three says of the other two.                         *)
Lifecycle ==
    \A c \in Calls :
        /\ call[c] = "new" => work[c] = "none"
        /\ call[c] = "submitted" => work[c] # "none" /\ callback[c] = "none"
        /\ work[c] = "none" => callback[c] = "none"
        /\ callback[c] \in {"release", "clear", "done"} => work[c] = "finished"
        /\ callback[c] = "clear" => key[c] # NoKey
        /\ call[c] \in {"submitted", "waiting"} => joined[c] # NoCall
        /\ home[c] <= pool

IInv == TypeOK /\ Lifecycle /\ InflightIsCurrent

-----------------------------------------------------------------------------
\* Every variable keeps its type, for any calls, keys, pool sizes and restarts of the
\* dispatcher (BoundedCallDispatcher).
THEOREM DispatchTypeOK == Spec => []TypeOK
<1>1. Init => TypeOK
  <2>1. 0 \in Pools /\ Capacity \in Nat
    BY ConfigAssumption DEF Pools, Capacity
  <2>2. Init => free \in [Pools -> Nat] /\ home \in [Calls -> Pools]
    BY <2>1 DEF Init
  <2>3. Init => /\ inflight \in [Keys -> Calls \cup {NoCall}]
                /\ joined \in [Calls -> Calls \cup {NoCall}]
                /\ key \in [Calls -> Keys \cup {NoKey}]
    BY DEF Init
  <2>4. QED
    BY ZenonT(40), <2>1, <2>2, <2>3 DEF Init, TypeOK
<1>2. TypeOK /\ [Next]_vars => TypeOK'
  <2> SUFFICES ASSUME TypeOK, [Next]_vars
               PROVE  TypeOK'
    OBVIOUS
  <2> USE ConfigAssumption, NamesAssumption DEF TypeOK, Pools
  <2>1. ASSUME NEW c \in Calls, NEW k \in Keys \cup {NoKey}, Refuse(c, k)
        PROVE  TypeOK'
    BY <2>1 DEF Refuse
  <2>2. ASSUME NEW c \in Calls, NEW k \in Keys \cup {NoKey}, Join(c, k)
        PROVE  TypeOK'
    <3>1. Existing(k) \in Calls \cup {NoCall}
      BY DEF Existing
    <3>2. QED
      BY <2>2, <3>1 DEF Join
  <2>3. ASSUME NEW c \in Calls, NEW k \in Keys \cup {NoKey}, Submit(c, k)
        PROVE  TypeOK'
    BY <2>3 DEF Submit
  <2>4. ASSUME NEW c \in Calls, AddDoneCallback(c)
        PROVE  TypeOK'
    BY <2>4 DEF AddDoneCallback
  <2>5. ASSUME NEW c \in Calls, StartWork(c)
        PROVE  TypeOK'
    BY <2>5 DEF StartWork
  <2>6. ASSUME NEW c \in Calls, FinishWork(c)
        PROVE  TypeOK'
    BY <2>6 DEF FinishWork
  <2>7. ASSUME NEW c \in Calls, ReleaseSlot(c)
        PROVE  TypeOK'
    BY <2>7 DEF ReleaseSlot
  <2>8. ASSUME NEW c \in Calls, ClearInflight(c)
        PROVE  TypeOK'
    BY <2>8 DEF ClearInflight
  <2>9. ASSUME NEW c \in Calls, Answer(c) \/ Deadline(c)
        PROVE  TypeOK'
    BY <2>9 DEF Answer, Deadline
  <2>10. CASE Close \/ Start
    <3>1. CASE Close
      BY <3>1 DEF Close
    <3>2. CASE Start
      <4>1. pool + 1 \in Pools
        BY <3>2 DEF Start
      <4>2. QED
        BY <3>2, <4>1 DEF Start
    <3>3. QED
      BY <2>10, <3>1, <3>2
  <2>11. CASE UNCHANGED vars
    BY <2>11 DEF vars
  <2>12. QED
    BY <2>1, <2>2, <2>3, <2>4, <2>5, <2>6, <2>7, <2>8, <2>9, <2>10, <2>11 DEF Next
<1>3. QED
  BY <1>1, <1>2, PTL DEF Spec

-----------------------------------------------------------------------------
(* The coalescing table: it names exactly the uncleared futures of the      *)
(* current pool, one per key.                                               *)
LEMMA Coalescing == Spec => []IInv
<1>1. Init /\ TypeOK => IInv
  BY NamesAssumption DEF Init, IInv, Lifecycle, InflightIsCurrent
<1>2. IInv /\ TypeOK' /\ [Next]_vars => IInv'
  <2> SUFFICES ASSUME IInv, TypeOK', [Next]_vars
               PROVE  Lifecycle' /\ InflightIsCurrent'
    BY DEF IInv
  <2> USE ConfigAssumption, NamesAssumption DEF IInv, TypeOK, Lifecycle, InflightIsCurrent, Pools
  <2>1. ASSUME NEW c \in Calls, NEW k \in Keys \cup {NoKey}, Refuse(c, k)
        PROVE  Lifecycle' /\ InflightIsCurrent'
    BY <2>1 DEF Refuse
  <2>2. ASSUME NEW c \in Calls, NEW k \in Keys \cup {NoKey}, Join(c, k)
        PROVE  Lifecycle' /\ InflightIsCurrent'
    BY <2>2 DEF Join
  <2>3. ASSUME NEW c \in Calls, NEW k \in Keys \cup {NoKey}, Submit(c, k)
        PROVE  Lifecycle' /\ InflightIsCurrent'
    <3>1. Lifecycle'
      BY <2>3 DEF Submit
    <3>2. InflightIsCurrent'
      <4>1. CASE k = NoKey
        BY <2>3, <4>1 DEF Submit
      <4>2. CASE k # NoKey
        BY <2>3, <4>2 DEF Submit, Existing
      <4>3. QED
        BY <4>1, <4>2
    <3>3. QED
      BY <3>1, <3>2
  <2>4. ASSUME NEW c \in Calls, AddDoneCallback(c)
        PROVE  Lifecycle' /\ InflightIsCurrent'
    BY <2>4 DEF AddDoneCallback
  <2>5. ASSUME NEW c \in Calls, StartWork(c)
        PROVE  Lifecycle' /\ InflightIsCurrent'
    BY <2>5 DEF StartWork
  <2>6. ASSUME NEW c \in Calls, FinishWork(c)
        PROVE  Lifecycle' /\ InflightIsCurrent'
    BY <2>6 DEF FinishWork
  <2>7. ASSUME NEW c \in Calls, ReleaseSlot(c)
        PROVE  Lifecycle' /\ InflightIsCurrent'
    BY <2>7 DEF ReleaseSlot
  <2>8. ASSUME NEW c \in Calls, ClearInflight(c)
        PROVE  Lifecycle' /\ InflightIsCurrent'
    BY <2>8 DEF ClearInflight
  <2>9. ASSUME NEW c \in Calls, Answer(c) \/ Deadline(c)
        PROVE  Lifecycle' /\ InflightIsCurrent'
    <3>1. CASE Answer(c)
      BY <3>1 DEF Answer
    <3>2. CASE Deadline(c)
      BY <3>2 DEF Deadline
    <3> QED BY <2>9, <3>1, <3>2
  <2>10. CASE Close
    BY <2>10 DEF Close
  <2>11. CASE Start
    BY <2>11 DEF Start
  <2>12. CASE UNCHANGED vars
    BY <2>12 DEF vars
  <2>13. QED
    BY <2>1, <2>2, <2>3, <2>4, <2>5, <2>6, <2>7, <2>8, <2>9, <2>10, <2>11, <2>12 DEF Next
<1>3. QED
  BY <1>1, <1>2, DispatchTypeOK, PTL DEF Spec

(* run(): for any pool size and any interleaving of callbacks, deadlines    *)
(* and restarts, the coalescing table names exactly the futures that are    *)
(* still to be cleared.                                                     *)
THEOREM InflightTheorem == Spec => []InflightIsCurrent
BY Coalescing, PTL DEF IInv

(* run(): two calls with one coalesce key never have work under way in the  *)
(* same pool.                                                               *)
THEOREM SingleFlightTheorem == Spec => []SingleFlight
<1>1. IInv => SingleFlight
  BY NamesAssumption DEF IInv, TypeOK, Lifecycle, InflightIsCurrent, SingleFlight
<1>2. QED
  BY <1>1, Coalescing, PTL

-----------------------------------------------------------------------------
(* Semaphore accounting.                                                    *)
LEMMA HoldingFinite == \A p \in Pools : IsFiniteSet(Holding(p)) /\ IsFiniteSet(Holding(p)')
<1> SUFFICES ASSUME NEW p \in Pools
             PROVE  IsFiniteSet(Holding(p)) /\ IsFiniteSet(Holding(p)')
  OBVIOUS
<1>1. Holding(p) \in SUBSET Calls /\ Holding(p)' \in SUBSET Calls
  BY DEF Holding
<1>2. QED
  BY <1>1, FS_Subset, NamesAssumption

(* Every slot of every pool is free or held by one future of that pool,     *)
(* whatever timed out, was joined or outlived a restart.                    *)
THEOREM SlotsConservedTheorem == Spec => []SlotsConserved
<1>1. Init => SlotsConserved
  <2> SUFFICES ASSUME Init, NEW p \in Pools
               PROVE  free[p] + Cardinality(Holding(p)) = Capacity
    BY DEF SlotsConserved
  <2>1. Holding(p) = {}
    BY DEF Init, Holding
  <2>2. QED
    BY <2>1, FS_EmptySet, ConfigAssumption DEF Init, Capacity
<1>2. IInv /\ SlotsConserved /\ [Next]_vars => SlotsConserved'
  <2> SUFFICES ASSUME IInv, SlotsConserved, [Next]_vars, NEW p \in Pools
               PROVE  free'[p] + Cardinality(Holding(p)') = Capacity
    BY DEF SlotsConserved
  <2>0. /\ free[p] + Cardinality(Holding(p)) = Capacity
        /\ free[p] \in Nat
        /\ Cardinality(Holding(p)) \in Nat
        /\ Capacity \in Nat
    BY HoldingFinite, FS_CardinalityType, ConfigAssumption
       DEF SlotsConserved, IInv, TypeOK, Capacity
  <2>1. ASSUME NEW c \in Calls, NEW k \in Keys \cup {NoKey}, Submit(c, k)
        PROVE  free'[p] + Cardinality(Holding(p)') = Capacity
    <3>1. CASE p = pool
      <4>1. Holding(p)' = Holding(p) \cup {c} /\ c \notin Holding(p)
        BY <2>1, <3>1 DEF Submit, Holding, IInv, TypeOK, Lifecycle
      <4>2. Cardinality(Holding(p)') = Cardinality(Holding(p)) + 1
        BY <4>1, HoldingFinite, FS_AddElement
      <4>3. free'[p] = free[p] - 1
        BY <2>1, <3>1 DEF Submit, IInv, TypeOK
      <4>4. QED
        BY <2>0, <4>2, <4>3
    <3>2. CASE p # pool
      <4>1. Holding(p)' = Holding(p)
        BY <2>1, <3>2 DEF Submit, Holding, IInv, TypeOK, Lifecycle
      <4>2. free'[p] = free[p]
        BY <2>1, <3>2 DEF Submit, IInv, TypeOK
      <4>3. QED
        BY <2>0, <4>1, <4>2
    <3>3. QED
      BY <3>1, <3>2
  <2>2. ASSUME NEW c \in Calls, ReleaseSlot(c)
        PROVE  free'[p] + Cardinality(Holding(p)') = Capacity
    <3>1. CASE p = home[c]
      <4>1. Holding(p)' = Holding(p) \ {c} /\ c \in Holding(p)
        BY <2>2, <3>1 DEF ReleaseSlot, Holding, IInv, TypeOK, Lifecycle
      <4>2. Cardinality(Holding(p)') = Cardinality(Holding(p)) - 1
        BY <4>1, HoldingFinite, FS_RemoveElement
      <4>3. free'[p] = free[p] + 1
        BY <2>2, <3>1 DEF ReleaseSlot, IInv, TypeOK
      <4>4. QED
        BY <2>0, <4>2, <4>3
    <3>2. CASE p # home[c]
      <4>1. Holding(p)' = Holding(p)
        BY <2>2, <3>2 DEF ReleaseSlot, Holding, IInv, TypeOK
      <4>2. free'[p] = free[p]
        BY <2>2, <3>2 DEF ReleaseSlot, IInv, TypeOK
      <4>3. QED
        BY <2>0, <4>1, <4>2
    <3>3. QED
      BY <3>1, <3>2
  <2>3. ASSUME free' = free, Holding(p)' = Holding(p)
        PROVE  free'[p] + Cardinality(Holding(p)') = Capacity
    BY <2>0, <2>3
  <2>4. ASSUME NEW c \in Calls, NEW k \in Keys \cup {NoKey}, Refuse(c, k) \/ Join(c, k)
        PROVE  free'[p] + Cardinality(Holding(p)') = Capacity
    BY <2>3, <2>4 DEF Refuse, Join, Holding
  <2>5. ASSUME NEW c \in Calls, AddDoneCallback(c)
        PROVE  free'[p] + Cardinality(Holding(p)') = Capacity
    BY <2>3, <2>5 DEF AddDoneCallback, Holding, IInv, TypeOK, Lifecycle
  <2>6. ASSUME NEW c \in Calls, StartWork(c) \/ FinishWork(c)
        PROVE  free'[p] + Cardinality(Holding(p)') = Capacity
    BY <2>3, <2>6 DEF StartWork, FinishWork, Holding, IInv, TypeOK, Lifecycle
  <2>7. ASSUME NEW c \in Calls, ClearInflight(c)
        PROVE  free'[p] + Cardinality(Holding(p)') = Capacity
    BY <2>3, <2>7 DEF ClearInflight, Holding, IInv, TypeOK
  <2>8. ASSUME NEW c \in Calls, Answer(c) \/ Deadline(c)
        PROVE  free'[p] + Cardinality(Holding(p)') = Capacity
    BY <2>3, <2>8 DEF Answer, Deadline, Holding
  <2>9. CASE Close \/ Start \/ UNCHANGED vars
    BY <2>3, <2>9 DEF Close, Start, vars, Holding
  <2>10. QED
    BY <2>1, <2>2, <2>4, <2>5, <2>6, <2>7, <2>8, <2>9 DEF Next
<1>3. QED
  BY <1>1, <1>2, Coalescing, PTL DEF Spec
-----------------------------------------------------------------------------
(* CoalescingGate.  What a semaphore and the table say of the gate.         *)
LEMMA Places ==
  ASSUME IInv, SlotsConserved
  PROVE  free[pool] = 0 <=> Gate!Full
<1>1. {d \in Inside : home[d] = pool} = Holding(pool)
  BY DEF Inside, Holding
<1>2. pool \in Pools /\ free[pool] \in Nat
  BY DEF IInv, TypeOK
<1>3. Cardinality(Holding(pool)) \in Nat /\ Capacity \in Nat
  BY <1>2, HoldingFinite, FS_CardinalityType, ConfigAssumption DEF Capacity
<1>4. free[pool] + Cardinality(Holding(pool)) = Capacity
  BY <1>2 DEF SlotsConserved
<1>5. Gate!Full <=> Cardinality(Holding(pool)) = Capacity
  BY <1>1 DEF Gate!Full, Gate!Cardinality, Cardinality
<1>6. QED
  BY <1>2, <1>3, <1>4, <1>5

LEMMA Table ==
  ASSUME IInv, NEW k \in Keys \cup {NoKey}
  PROVE  /\ Existing(k) = NoCall => Gate!Led(k) = {}
         /\ Existing(k) # NoCall => /\ Existing(k) \in Calls
                                    /\ Existing(k) \in Gate!Led(k)
                                    /\ home[Existing(k)] = pool
<1> USE NamesAssumption DEF IInv, TypeOK, InflightIsCurrent, Existing, Gate!Led, Joinable
<1>1. CASE k = NoKey
  BY <1>1
<1>2. CASE k # NoKey
  BY <1>2
<1>3. QED
  BY <1>1, <1>2

(* One step of the dispatcher is one step of the gate, or none.             *)
GateStep == Gate!Next \/ UNCHANGED Gate!vars

LEMMA RefuseGate ==
  ASSUME IInv, SlotsConserved, NEW c \in Calls, NEW k \in Keys \cup {NoKey}, Refuse(c, k)
  PROVE  GateStep
<1>1. Told[c] = "new" /\ Told' = [Told EXCEPT ![c] = "busy"]
  BY DEF Refuse, Told, IInv, TypeOK
<1>2. UNCHANGED <<Inside, Ended, Joinable, closed, pool, key, joined, home>>
  BY DEF Refuse, Inside, Ended, Joinable
<1>3. closed \/ (Gate!Full /\ Gate!Led(k) = {})
  BY Places, Table DEF Refuse
<1>4. Gate!Refuse(c, k)
  BY <1>1, <1>2, <1>3 DEF Gate!Refuse, Gate!Told
<1>5. QED
  BY <1>4 DEF GateStep, Gate!Next

LEMMA JoinGate ==
  ASSUME IInv, NEW c \in Calls, NEW k \in Keys \cup {NoKey}, Join(c, k)
  PROVE  GateStep
<1> DEFINE d == Existing(k)
<1>1. Told[c] = "new" /\ Told' = [Told EXCEPT ![c] = "waiting"] /\ ~closed
  BY DEF Join, Told, IInv, TypeOK
<1>2. d \in Calls /\ d \in Gate!Led(k) /\ home[d] = pool
  BY Table DEF Join
<1>3. work[c] = "none" /\ k # NoKey
  BY DEF Join, Existing, IInv, Lifecycle
<1>4. /\ key' = [key EXCEPT ![c] = k] /\ joined' = [joined EXCEPT ![c] = d]
      /\ UNCHANGED <<Inside, Ended, closed, pool, home, inflight>>
  BY DEF Join, Inside, Ended
<1>5. Joinable' = Joinable
  <2>1. \A x \in Keys : inflight[x] # c
    BY <1>3, NamesAssumption DEF IInv, InflightIsCurrent
  <2>2. \A e \in Calls \ {c} : key'[e] = key[e]
    BY <1>4 DEF IInv, TypeOK
  <2>3. c \notin Joinable /\ c \notin Joinable'
    BY <1>4, <2>1 DEF Joinable, IInv, TypeOK
  <2>4. \A e \in Calls \ {c} : e \in Joinable' <=> e \in Joinable
    BY <1>4, <2>2 DEF Joinable
  <2>5. QED
    BY <2>3, <2>4 DEF Joinable
<1>6. Gate!Join(c, k, d)
  BY <1>1, <1>2, <1>4, <1>5 DEF Gate!Join, Gate!Told
<1>7. QED
  BY <1>2, <1>6 DEF GateStep, Gate!Next

LEMMA SubmitGate ==
  ASSUME IInv, SlotsConserved, NEW c \in Calls, NEW k \in Keys \cup {NoKey}, Submit(c, k)
  PROVE  GateStep
<1>1. Told[c] = "new" /\ Told' = [Told EXCEPT ![c] = "waiting"] /\ ~closed
  BY DEF Submit, Told, IInv, TypeOK
<1>2. ~Gate!Full /\ Gate!Led(k) = {}
  BY Places, Table DEF Submit
<1>3. /\ key' = [key EXCEPT ![c] = k] /\ joined' = [joined EXCEPT ![c] = c]
      /\ home' = [home EXCEPT ![c] = pool] /\ UNCHANGED <<closed, pool, callback>>
      /\ inflight' = IF k = NoKey THEN inflight ELSE [inflight EXCEPT ![k] = c]
      /\ work' = [work EXCEPT ![c] = "queued"] /\ work[c] = "none" /\ callback[c] = "none"
  BY DEF Submit, IInv, Lifecycle
<1>4. Inside' = Inside \cup {c} /\ Ended' = Ended
  BY <1>3 DEF Inside, Ended, IInv, TypeOK
<1>5. Joinable' = IF k = NoKey THEN Joinable ELSE Joinable \cup {c}
  <2>1. \A x \in Keys : inflight[x] # c
    BY <1>3, NamesAssumption DEF IInv, InflightIsCurrent
  <2>2. k # NoKey => inflight[k] = NoCall
    BY DEF Submit, Existing
  <2>3. \A e \in Calls \ {c} : key'[e] = key[e]
    BY <1>3 DEF IInv, TypeOK
  <2>4. c \notin Joinable /\ (c \in Joinable' <=> k # NoKey)
    BY <1>3, <2>1 DEF Joinable, IInv, TypeOK
  <2>5. \A e \in Calls \ {c} : e \in Joinable' <=> e \in Joinable
    BY <1>3, <2>2, <2>3, NamesAssumption DEF Joinable, IInv, TypeOK
  <2>6. QED
    BY <2>4, <2>5 DEF Joinable
<1>6. Gate!Admit(c, k)
  BY <1>1, <1>2, <1>3, <1>4, <1>5 DEF Gate!Admit, Gate!Told
<1>7. QED
  BY <1>6 DEF GateStep, Gate!Next

(* The work, its callback and the table.                                    *)
LEMMA WorkGate ==
  ASSUME IInv, NEW c \in Calls,
         \/ AddDoneCallback(c) \/ StartWork(c) \/ FinishWork(c)
         \/ ReleaseSlot(c) \/ ClearInflight(c)
  PROVE  GateStep
<1>1. CASE AddDoneCallback(c)
  <2>1. Told' = Told /\ Inside' = Inside
    BY <1>1 DEF AddDoneCallback, Told, Inside, IInv, TypeOK, Lifecycle
  <2>2. UNCHANGED <<Ended, Joinable, closed, pool, key, joined, home>>
    BY <1>1 DEF AddDoneCallback, Ended, Joinable
  <2>3. QED
    BY <2>1, <2>2 DEF GateStep, Gate!vars
<1>2. CASE StartWork(c)
  <2>1. Inside' = Inside /\ Ended' = Ended
    BY <1>2 DEF StartWork, Inside, Ended, IInv, TypeOK
  <2>2. UNCHANGED <<Told, Joinable, closed, pool, key, joined, home>>
    BY <1>2 DEF StartWork, Told, Joinable
  <2>3. QED
    BY <2>1, <2>2 DEF GateStep, Gate!vars
<1>3. CASE FinishWork(c)
  <2>1. Inside' = Inside /\ Ended' = Ended \cup {c} /\ c \in Inside \ Ended
    BY <1>3 DEF FinishWork, Inside, Ended, IInv, TypeOK, Lifecycle
  <2>2. UNCHANGED <<Told, Joinable, closed, pool, key, joined, home>>
    BY <1>3 DEF FinishWork, Told, Joinable
  <2>3. Gate!EndWork(c)
    BY <2>1, <2>2 DEF Gate!EndWork
  <2>4. QED
    BY <2>3 DEF GateStep, Gate!Next
<1>4. CASE ReleaseSlot(c)
  <2>1. Inside' = Inside \ {c} /\ c \in Inside \cap Ended
    BY <1>4 DEF ReleaseSlot, Inside, Ended, IInv, TypeOK, Lifecycle
  <2>2. UNCHANGED <<Ended, Told, Joinable, closed, pool, key, joined, home>>
    BY <1>4 DEF ReleaseSlot, Ended, Told, Joinable
  <2>3. Gate!Leave(c)
    BY <2>1, <2>2 DEF Gate!Leave
  <2>4. QED
    BY <2>3 DEF GateStep, Gate!Next
<1>5. CASE ClearInflight(c)
  <2>1. Inside' = Inside /\ c \notin Inside
    BY <1>5 DEF ClearInflight, Inside, IInv, TypeOK
  <2>2. UNCHANGED <<Ended, Told, closed, pool, key, joined, home>>
    BY <1>5 DEF ClearInflight, Ended, Told
  <2>3. key[c] \in Keys
    BY <1>5 DEF ClearInflight, IInv, TypeOK, Lifecycle
  <2>4. CASE inflight[key[c]] = c
    <3>1. c \in Joinable
      BY <2>3, <2>4, NamesAssumption DEF Joinable
    <3>2. Joinable' = Joinable \ {c}
      BY <1>5, <2>2, <2>3, <2>4, NamesAssumption DEF ClearInflight, Joinable, IInv, TypeOK
    <3>3. Gate!Forget(c)
      BY <2>1, <2>2, <3>1, <3>2 DEF Gate!Forget
    <3>4. QED
      BY <3>3 DEF GateStep, Gate!Next
  <2>5. CASE inflight[key[c]] # c
    <3>1. inflight' = inflight
      BY <1>5, <2>3, <2>5 DEF ClearInflight, IInv, TypeOK
    <3>2. Joinable' = Joinable
      BY <2>2, <3>1 DEF Joinable
    <3>3. QED
      BY <2>1, <2>2, <3>2 DEF GateStep, Gate!vars
  <2>6. QED
    BY <2>4, <2>5
<1>6. QED
  BY <1>1, <1>2, <1>3, <1>4, <1>5

(* The end of the await, and the life of the pools.                         *)
LEMMA CallerGate ==
  ASSUME IInv, NEW c \in Calls, Answer(c) \/ Deadline(c)
  PROVE  GateStep
<1>1. UNCHANGED <<Inside, Ended, Joinable, closed, pool, key, joined, home>>
  BY DEF Answer, Deadline, Inside, Ended, Joinable
<1>2. CASE Answer(c)
  <2>1. Told[c] = "waiting" /\ Told' = [Told EXCEPT ![c] = "answered"]
    BY <1>2 DEF Answer, Told, IInv, TypeOK
  <2>2. joined[c] \in Ended
    BY <1>2, NamesAssumption DEF Answer, Ended, IInv, TypeOK, Lifecycle
  <2>3. Gate!Answer(c)
    BY <1>1, <2>1, <2>2 DEF Gate!Answer, Gate!Told
  <2>4. QED
    BY <2>3 DEF GateStep, Gate!Next
<1>3. CASE Deadline(c)
  <2>1. Told[c] = "waiting" /\ Told' = [Told EXCEPT ![c] = "timeout"]
    BY <1>3 DEF Deadline, Told, IInv, TypeOK
  <2>2. Gate!GiveUp(c)
    BY <1>1, <2>1 DEF Gate!GiveUp, Gate!Told
  <2>3. QED
    BY <2>2 DEF GateStep, Gate!Next
<1>4. QED
  BY <1>2, <1>3

LEMMA PoolGate ==
  ASSUME IInv, Close \/ Start
  PROVE  GateStep
<1>1. CASE Close
  <2>1. UNCHANGED <<Told, Inside, Ended, Joinable>>
    BY <1>1 DEF Close, Told, Inside, Ended, Joinable
  <2>2. Gate!Close
    BY <1>1, <2>1 DEF Close, Gate!Close
  <2>3. QED
    BY <2>2 DEF GateStep, Gate!Next
<1>2. CASE Start
  <2>1. UNCHANGED <<Told, Inside, Ended>>
    BY <1>2 DEF Start, Told, Inside, Ended
  <2>2. Joinable' = {}
    BY <1>2, NamesAssumption DEF Start, Joinable, IInv, TypeOK
  <2>3. Gate!Reopen
    BY <1>2, <2>1, <2>2 DEF Start, Gate!Reopen
  <2>4. QED
    BY <2>3 DEF GateStep, Gate!Next
<1>3. QED
  BY <1>1, <1>2

LEMMA InitGate == Init => Gate!Init
<1> SUFFICES ASSUME Init PROVE Gate!Init
  OBVIOUS
<1>1. Told = [c \in Calls |-> "new"]
  BY DEF Init, Told
<1>2. Inside = {} /\ Ended = {} /\ Joinable = {}
  BY DEF Init, Inside, Ended, Joinable
<1>3. QED
  BY <1>1, <1>2 DEF Init, Gate!Init

(* For any calls, keys, pool sizes and restarts: a call is turned away only *)
(* by a closed or a full pool, joins only an operation of its key that is   *)
(* under way in the pool, and is answered only by the operation it waits    *)
(* for; an operation keeps its place until its work has ended.              *)
THEOREM GateTheorem == Spec => ImplementsGate
<1>1. IInv /\ SlotsConserved /\ [Next]_vars => [Gate!Next]_(Gate!vars)
  <2> SUFFICES ASSUME IInv, SlotsConserved, [Next]_vars
               PROVE  GateStep
    BY DEF GateStep
  <2>1. CASE Next
    BY <2>1, RefuseGate, JoinGate, SubmitGate, WorkGate, CallerGate, PoolGate DEF Next
  <2>2. CASE UNCHANGED vars
    <3>1. UNCHANGED <<closed, pool, free, inflight, call, key, joined, home, work, callback>>
      BY <2>2 DEF vars
    <3>2. UNCHANGED <<Told, Inside, Ended, Joinable>>
      BY <3>1 DEF Told, Inside, Ended, Joinable
    <3>3. QED
      BY <3>1, <3>2 DEF GateStep, Gate!vars
  <2>3. QED
    BY <2>1, <2>2
<1>2. QED
  BY <1>1, InitGate, Coalescing, SlotsConservedTheorem, PTL DEF Spec, ImplementsGate, Gate!Spec
=============================================================================
