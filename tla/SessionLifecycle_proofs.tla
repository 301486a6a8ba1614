----------------------- MODULE SessionLifecycle_proofs -----------------------
(***************************************************************************)
(* For any calls, operations and faults: the secret the active snapshot    *)
(* names is in the vault (SecretTheorem), the pair on disk is the cloud's  *)
(* or one refresh behind it (ReplayTheorem), and a refresh never undoes a  *)
(* login or another refresh (RegressTheorem).                              *)
(*                                                                         *)
(* A reference becomes the snapshot's only in its call's commit, so once   *)
(* it is replaced it never comes back: what a thread has read of it may be *)
(* deleted but not changed (RefInv).  A pair is carried only by calls that *)
(* found its session on disk (KnownInv), therefore no call may send a pair *)
(* newer than the one on disk (GenInv), and the cloud is at most one       *)
(* rotation ahead.  What the calls see of the cloud are the steps of       *)
(* SessionChain (ChainTheorem).                                            *)
(***************************************************************************)
EXTENDS SessionLifecycle, TLAPS

(* What a thread is doing at each step, and what it needs for it.           *)
ThreadOK(c) ==
    /\ pc[c] = "new" <=> op[c] = "none"
    /\ pc[c] \in {"login", "login_apply", "login_commit"} => op[c] = "login"
    /\ pc[c] \in {"lock", "row2", "secret2", "probe2", "send", "wait", "commit", "probe3", "ready"}
          => op[c] \in {"connected", "restore", "switch"}
    /\ pc[c] \in {"row", "secret", "probe", "mark"} => op[c] # "login"
    /\ pc[c] = "probe" => op[c] \in {"connected", "restore", "switch"}
    /\ pc[c] = "delete_old" => /\ op[c] # "logout"
                               /\ op[c] # "login" => loc[c].pair \in Pairs
    /\ pc[c] \in {"revoke", "archive", "delete_last", "clear"} => op[c] = "logout"
    /\ pc[c] \in {"secret", "probe", "secret2", "probe2", "send", "wait", "commit",
                  "delete_old", "revoke", "archive", "delete_last"}
          => loc[c].ref \in Calls
    /\ pc[c] \in {"probe", "probe2", "send", "wait", "commit", "probe3", "revoke"}
          => loc[c].pair \in Pairs
    /\ pc[c] = "mark" => loc[c].mark # "none"
    /\ op[c] \in AllOps \ {"login"} \/ pc[c] = "delete_old" => status # "none"
    /\ wire[c].state \in {"sent", "answered"} =>
          wire[c].pair \in Pairs /\ op[c] \in {"connected", "restore", "switch"}

ThreadInv == \A c \in Calls : ThreadOK(c)

(* Steps from which a call never makes its reference the snapshot's again.  *)
PastCommit == {"delete_old", "probe3", "ready", "mark", "done"}
Past(c) == pc[c] \in PastCommit

(* References in use are those of calls past their commit; what is about to *)
(* be stored is in the vault, what is about to be deleted is not in use.    *)
RefOK(c) ==
    /\ loc[c].ref # NoCall => Past(loc[c].ref)
    /\ pc[c] = "login_commit" => vault[c] = [session |-> c, gen |-> 1]
    /\ pc[c] = "commit" => vault[c] # NoPair
    /\ pc[c] = "delete_old" => snap.ref # loc[c].ref
    /\ pc[c] = "delete_last" => snap.life = "archived" \/ snap.ref # loc[c].ref

RefInv ==
    /\ snap.ref # NoCall => Past(snap.ref)
    /\ \A c \in Calls : RefOK(c)
    /\ SnapshotSecretPresent

(* A pair is nowhere before the login that opened its session is on disk,   *)
(* except in the vault under that login's own reference.                    *)
Carried(p) ==
    \/ \E c \in Calls : loc[c].pair = p \/ wire[c].pair = p \/ (vault[c] = p /\ p.session # c)
    \/ \E k \in {"connected", "restore"} \cup Calls : <<k, p>> \in consumed

KnownInv ==
    /\ \A p \in Pairs : Carried(p) => Past(p.session)
    /\ \A c \in Calls : pc[c] \in {"login_apply", "login_commit"} => cloud[c].gen = 1

(* The pair on disk, and the pairs a call may still send.                   *)
OnDisk == snap.life = "active" /\ snap.ref # NoCall
Behind(p) == OnDisk /\ p.session = vault[snap.ref].session => p.gen <= vault[snap.ref].gen

SendSteps == {"probe", "probe2", "send", "wait"}

(* What a call is about to send is what it read, and not newer than the     *)
(* pair on disk.                                                            *)
SendOK(c) ==
    pc[c] \in SendSteps =>
        /\ Behind(loc[c].pair)
        /\ vault[loc[c].ref] = NoPair \/ vault[loc[c].ref] = loc[c].pair

(* Nor is what a call is about to read.                                     *)
ReadOK(c) ==
    loc[c].ref # NoCall => vault[loc[c].ref] = NoPair \/ Behind(vault[loc[c].ref])

SentOK(c) ==
    wire[c].state = "sent" =>
        /\ Behind(wire[c].pair)
        /\ pc[c] = "wait" => wire[c].pair = loc[c].pair

(* The answer is a later generation of the pair sent, and one the cloud has *)
(* reached.                                                                 *)
AnswerOK(c) ==
    pc[c] = "wait" /\ wire[c].state = "answered" =>
        /\ wire[c].pair.session = loc[c].pair.session
        /\ wire[c].pair.gen > loc[c].pair.gen
        /\ wire[c].pair.gen <= cloud[loc[c].pair.session].gen

CommitOK(c) ==
    pc[c] = "commit" =>
        /\ vault[c].gen <= cloud[vault[c].session].gen
        /\ vault[loc[c].ref] # NoPair => /\ vault[c].session = vault[loc[c].ref].session
                                         /\ vault[c].gen > vault[loc[c].ref].gen

Keys == {"connected", "restore"} \cup Calls

ConsumedOK ==
    \A k \in Keys, p \in Pairs : <<k, p>> \in consumed => cloud[p.session].gen > p.gen

(* The cloud's pair, or the one its last refresh consumed.                  *)
Near(p) ==
    \/ p = Current(p)
    \/ /\ cloud[p.session].gen = p.gen + 1
       /\ \E k \in Keys : <<k, p>> \in consumed

DiskOK == OnDisk => Near(vault[snap.ref])

CallOK(c) == SendOK(c) /\ ReadOK(c) /\ SentOK(c) /\ AnswerOK(c) /\ CommitOK(c)

GenInv == (\A c \in Calls : CallOK(c)) /\ ConsumedOK /\ DiskOK

-----------------------------------------------------------------------------
(* Types, and what each thread needs.                                       *)
Outcomes == {"pending", "ok", "refused", "failed", "missing", "conflict", "store_failed", "crashed"}
CloudRows == [state : {"none", "live", "revoked"}, gen : Nat, expired : BOOLEAN]
Wires == [state : {"idle", "sent", "answered", "refused", "unavailable"},
          pair : Pairs \cup {NoPair}]
Snaps == [ref : Calls \cup {NoCall}, version : Nat, life : {"active", "archived"}]

Typed == TypeOK /\ ThreadInv

LEMMA Types ==
  ASSUME Typed
  PROVE  /\ cloud \in [Calls -> CloudRows]
         /\ consumed \in SUBSET (Keys \X Pairs)
         /\ wire \in [Calls -> Wires]
         /\ vault \in [Calls -> Pairs \cup {NoPair}]
         /\ snap \in Snaps
         /\ status \in Statuses
         /\ (status = "none") = (snap.version = 0)
         /\ lock \in Calls \cup {NoCall}
         /\ op \in [Calls -> Ops \cup {"none"}]
         /\ pc \in [Calls -> Steps]
         /\ loc \in [Calls -> Locals]
         /\ outcome \in [Calls -> Outcomes]
         /\ faults \in Nat
         /\ Ops \subseteq AllOps
         /\ \A c \in Calls : op[c] \in AllOps \cup {"none"}
BY LifecycleAssumption DEF Typed, TypeOK, CloudRows, Keys, Wires, Snaps, Outcomes

(* One thread moves; what it leaves behind is typed and no other thread     *)
(* needs more than that.                                                    *)
LEMMA ThreadStep ==
  ASSUME Typed, NEW c \in Calls, NEW l \in Locals, NEW step \in Steps,
         pc' = [pc EXCEPT ![c] = step], loc' = [loc EXCEPT ![c] = l],
         op' \in [Calls -> Ops \cup {"none"}],
         \A d \in Calls \ {c} : op'[d] = op[d],
         op[c] # "none" => op'[c] = op[c],
         outcome' \in [Calls -> Outcomes],
         lock' \in Calls \cup {NoCall}, faults' \in Nat,
         vault' \in [Calls -> Pairs \cup {NoPair}],
         snap' \in Snaps, status' \in Statuses,
         (status' = "none") = (snap'.version = 0),
         status # "none" => status' # "none",
         cloud' \in [Calls -> CloudRows],
         consumed' \in SUBSET (Keys \X Pairs),
         wire' \in [Calls -> Wires],
         \A d \in Calls : wire'[d].state \in {"sent", "answered"} =>
             \/ wire'[d] = wire[d]
             \/ wire'[d].pair \in Pairs /\ op[d] \in {"connected", "restore", "switch"},
         ThreadOK(c)'
  PROVE  Typed'
<1>1. TypeOK'
  <2>1. pc' \in [Calls -> Steps] /\ loc' \in [Calls -> Locals]
    BY Types
  <2>2. QED
    BY <2>1 DEF TypeOK, CloudRows, Keys, Wires, Snaps, Outcomes
<1>2. ASSUME NEW d \in Calls \ {c} PROVE ThreadOK(d)'
  <2>1. ThreadOK(d) /\ pc'[d] = pc[d] /\ loc'[d] = loc[d] /\ op'[d] = op[d]
    BY Types DEF Typed, ThreadInv
  <2>2. QED
    BY <2>1 DEF ThreadOK
<1>3. QED
  BY <1>1, <1>2 DEF Typed, ThreadInv

(* How a call ends.                                                         *)
LEMMA EndLemma ==
  ASSUME Typed, NEW c \in Calls, NEW how \in Outcomes, End(c, how)
  PROVE  /\ pc' = [pc EXCEPT ![c] = "done"]
         /\ outcome' \in [Calls -> Outcomes]
BY Types DEF End

LEMMA FailLemma ==
  ASSUME Typed, NEW c \in Calls, NEW how \in Outcomes, NEW mark \in Statuses \ {"none"},
         Fail(c, how, mark)
  PROVE  \E l \in Locals, step \in {"mark", "done"} :
           /\ pc' = [pc EXCEPT ![c] = step]
           /\ loc' = [loc EXCEPT ![c] = l]
           /\ l.ref = loc[c].ref /\ l.pair = loc[c].pair
           /\ step = "mark" => l.mark # "none" /\ op[c] # "login"
           /\ outcome' \in [Calls -> Outcomes]
<1>1. CASE op[c] = "restore" \/ (op[c] = "switch" /\ how \in {"refused", "failed"})
  <2> DEFINE l == [loc[c] EXCEPT !.mark = mark]
  <2>1. l \in Locals /\ l.ref = loc[c].ref /\ l.pair = loc[c].pair /\ l.mark = mark
    BY ZenonT(40), Types DEF Locals
  <2>2. /\ pc' = [pc EXCEPT ![c] = "mark"] /\ loc' = [loc EXCEPT ![c] = l]
        /\ outcome' \in [Calls -> Outcomes]
    BY <1>1, Types DEF Fail, Goto
  <2>3. QED
    BY <1>1, <2>1, <2>2
<1>2. CASE ~(op[c] = "restore" \/ (op[c] = "switch" /\ how \in {"refused", "failed"}))
  <2>1. /\ pc' = [pc EXCEPT ![c] = "done"] /\ loc' = [loc EXCEPT ![c] = loc[c]]
        /\ outcome' \in [Calls -> Outcomes] /\ loc[c] \in Locals
    BY <1>2, Types DEF Fail, End
  <2>2. QED
    BY <2>1
<1>3. QED
  BY <1>1, <1>2

LEMMA StepNames ==
  /\ {"new", "login", "login_apply", "login_commit", "row", "secret", "probe",
      "lock", "row2", "secret2", "probe2", "send", "wait", "commit", "delete_old",
      "probe3", "ready", "mark", "revoke", "archive", "delete_last", "clear", "done"}
       \subseteq Steps
  /\ {"ok", "refused", "failed", "missing", "conflict", "store_failed", "crashed"}
       \subseteq Outcomes
  /\ {"ready", "sync_degraded", "needs_login"} \subseteq Statuses \ {"none"}
BY DEF Steps, Outcomes, Statuses

(* A call that has ended or is about to mark its workspace needs nothing.   *)
LEMMA OverLemma ==
  ASSUME Typed, NEW c \in Calls, NEW step \in {"mark", "done"},
         pc' = [pc EXCEPT ![c] = step], op' = op, pc[c] # "new",
         step = "mark" => loc'[c].mark # "none" /\ op[c] # "login",
         status # "none" => status' # "none",
         wire'[c] = wire[c]
  PROVE  ThreadOK(c)'
<1>1. pc'[c] = step /\ ThreadOK(c)
  BY Types DEF Typed, ThreadInv
<1>2. QED
  BY <1>1 DEF ThreadOK

-----------------------------------------------------------------------------
(* Most steps are calm: no pair is created, stored or read, the snapshot    *)
(* keeps its reference or loses it, and what is deleted is not in use.      *)
Harmless == {"login", "row", "lock", "row2", "probe3", "ready", "mark", "archive", "clear", "done"}

Calm ==
    /\ UNCHANGED <<consumed, wire>>
    /\ snap'.ref = snap.ref \/ snap'.ref = NoCall
    /\ snap'.life = snap.life \/ snap'.life = "archived"
    /\ \A c \in Calls :
          /\ loc'[c].ref = loc[c].ref /\ loc'[c].pair = loc[c].pair
          /\ cloud'[c].gen = cloud[c].gen
          /\ Past(c) => Past(c)'
          /\ \/ pc'[c] = pc[c] \/ pc'[c] \in Harmless
             \/ pc[c] \in SendSteps /\ pc'[c] = "send"
             \/ pc'[c] = "revoke" /\ pc[c] = "revoke"
             \/ pc'[c] = "delete_last" /\ snap'.life = "archived"
          /\ \/ vault'[c] = vault[c]
             \/ /\ vault'[c] = NoPair
                /\ pc'[c] \notin {"login_commit", "commit"}
                /\ ~(snap'.life = "active" /\ snap'.ref = c)

(* One thread makes a calm step that touches nothing but its own locals.    *)
LEMMA CalmMove ==
  ASSUME Typed, NEW c \in Calls, NEW l \in Locals, NEW step \in Steps,
         pc' = [pc EXCEPT ![c] = step], loc' = [loc EXCEPT ![c] = l],
         UNCHANGED <<consumed, wire, vault>>,
         l.ref = loc[c].ref, l.pair = loc[c].pair,
         \A s \in Calls : cloud'[s].gen = cloud[s].gen,
         snap'.ref = snap.ref, snap'.life = snap.life,
         Past(c) => step \in PastCommit,
         step \in Harmless \/ (pc[c] \in SendSteps /\ step = "send")
  PROVE  Calm
<1>1. \A d \in Calls :
        /\ loc'[d].ref = loc[d].ref /\ loc'[d].pair = loc[d].pair
        /\ d # c => pc'[d] = pc[d]
        /\ pc'[c] = step
  BY Types
<1>2. QED
  BY <1>1 DEF Calm, Past

(* A thread ends, marks its workspace or goes to a step that needs nothing  *)
(* new, and leaves every table alone.                                       *)
LEMMA QuietStep ==
  ASSUME Typed, NEW c \in Calls, NEW l \in Locals, NEW step \in Steps,
         pc' = [pc EXCEPT ![c] = step], loc' = [loc EXCEPT ![c] = l],
         l.ref = loc[c].ref, l.pair = loc[c].pair,
         UNCHANGED <<cloudVars, disk>>,
         op' \in [Calls -> Ops \cup {"none"}],
         \A d \in Calls \ {c} : op'[d] = op[d],
         op[c] # "none" => op'[c] = op[c],
         outcome' \in [Calls -> Outcomes],
         lock' \in Calls \cup {NoCall}, faults' \in Nat,
         Past(c) => step \in PastCommit,
         step \in Harmless \/ (pc[c] \in SendSteps /\ step = "send"),
         ThreadOK(c)'
  PROVE  Typed' /\ Calm
<1>1. UNCHANGED <<cloud, consumed, wire, vault, snap, status>>
  BY DEF cloudVars, disk
<1>2. Typed'
  BY <1>1, Types, ThreadStep
<1>3. Calm
  BY <1>1, CalmMove
<1>4. QED
  BY <1>2, <1>3

LEMMA BeginStep ==
  ASSUME Typed, NEW c \in Calls, NEW o \in Ops, Begin(c, o)
  PROVE  Typed' /\ Calm
<1> DEFINE step == IF o = "login" THEN "login" ELSE "row"
<1>1. /\ pc[c] = "new" /\ pc' = [pc EXCEPT ![c] = step] /\ op' = [op EXCEPT ![c] = o]
      /\ loc' = [loc EXCEPT ![c] = loc[c]] /\ loc[c] \in Locals
      /\ UNCHANGED <<cloudVars, disk, lock, outcome, faults>>
  BY Types DEF Begin, Goto
<1>2. op[c] = "none" /\ o \in AllOps /\ ThreadOK(c)
  BY <1>1, Types DEF Typed, ThreadInv, ThreadOK
<1>3. o # "login" => status # "none"
  BY <1>2, Types DEF Begin, AllOps, Statuses
<1>4. pc'[c] = step /\ op'[c] = o /\ UNCHANGED <<wire, status>>
  BY <1>1, Types DEF cloudVars, disk
<1>5. ThreadOK(c)'
  BY <1>2, <1>3, <1>4 DEF ThreadOK, AllOps
<1>6. /\ step \in Steps /\ step \in Harmless /\ ~Past(c)
  BY <1>1, StepNames DEF Harmless, Past, PastCommit
<1>7. /\ op' \in [Calls -> Ops \cup {"none"}]
      /\ \A d \in Calls \ {c} : op'[d] = op[d]
      /\ outcome' \in [Calls -> Outcomes] /\ lock' \in Calls \cup {NoCall} /\ faults' \in Nat
  BY <1>1, Types
<1>8. QED
  BY <1>1, <1>2, <1>5, <1>6, <1>7, QuietStep

(* A call that fails, or ends, with the tables as they are.                 *)
LEMMA FailStep ==
  ASSUME Typed, NEW c \in Calls, NEW how \in Outcomes, NEW mark \in Statuses \ {"none"},
         pc[c] # "new",
         \/ Fail(c, how, mark)
         \/ End(c, how) /\ UNCHANGED loc,
         UNCHANGED <<cloudVars, disk, op>>,
         lock' \in Calls \cup {NoCall}, faults' \in Nat
  PROVE  Typed' /\ Calm
<1>1. PICK l \in Locals, step \in {"mark", "done"} :
           /\ pc' = [pc EXCEPT ![c] = step]
           /\ loc' = [loc EXCEPT ![c] = l]
           /\ l.ref = loc[c].ref /\ l.pair = loc[c].pair
           /\ step = "mark" => l.mark # "none" /\ op[c] # "login"
           /\ outcome' \in [Calls -> Outcomes]
  <2>1. CASE Fail(c, how, mark)
    BY <2>1, FailLemma
  <2>2. CASE End(c, how) /\ UNCHANGED loc
    <3>1. loc' = [loc EXCEPT ![c] = loc[c]] /\ loc[c] \in Locals
      BY <2>2, Types
    <3>2. QED
      BY <2>2, <3>1, EndLemma
  <2>3. QED
    BY <2>1, <2>2
<1>2. loc'[c] = l
  BY <1>1, Types
<1>3. UNCHANGED <<wire, status>>
  BY DEF cloudVars, disk
<1>4. ThreadOK(c)'
  BY <1>1, <1>2, <1>3, OverLemma
<1>5. step \in Steps /\ step \in Harmless /\ step \in PastCommit
  BY StepNames DEF Harmless, PastCommit
<1>6. op' \in [Calls -> Ops \cup {"none"}]
  BY Types
<1>7. QED
  BY <1>1, <1>4, <1>5, <1>6, QuietStep

LEMMA Released ==
  ASSUME Typed, NEW c \in Calls, Release(c)
  PROVE  lock' \in Calls \cup {NoCall}
BY Types DEF Release

LEMMA Faulted ==
  ASSUME Typed, Fault
  PROVE  faults' \in Nat
BY Types DEF Fault

(* Requests with the access token, and waiting for the object lock.         *)
LEMMA ProbeStep ==
  ASSUME Typed, NEW c \in Calls, ProbeOk(c) \/ ProbeRefused(c) \/ ProbeFails(c)
  PROVE  Typed' /\ Calm
<1>1. /\ ThreadOK(c) /\ pc[c] \in {"probe", "probe2", "probe3"} /\ UNCHANGED <<cloudVars, disk, op>>
      /\ lock' \in Calls \cup {NoCall} /\ faults' \in Nat
      /\ loc[c] \in Locals /\ op' \in [Calls -> Ops \cup {"none"}]
      /\ UNCHANGED <<wire, status>>
  BY Types, Released, Faulted
     DEF Typed, ThreadInv, ProbeOk, ProbeRefused, ProbeFails, cloudVars, disk
<1>2. pc[c] # "new" /\ op[c] \in {"connected", "restore", "switch"}
  BY <1>1 DEF ThreadOK
<1>3. CASE \E step \in {"ready", "lock", "send"} :
              /\ pc' = [pc EXCEPT ![c] = step] /\ UNCHANGED <<loc, outcome>>
              /\ step # "ready" => pc[c] # "probe3"
  <2>1. PICK step \in {"ready", "lock", "send"} :
              /\ pc' = [pc EXCEPT ![c] = step] /\ UNCHANGED <<loc, outcome>>
              /\ step # "ready" => pc[c] # "probe3"
    BY <1>3
  <2>2. loc' = [loc EXCEPT ![c] = loc[c]] /\ outcome' \in [Calls -> Outcomes]
    BY <1>1, <2>1, Types
  <2>3. pc'[c] = step /\ loc'[c] = loc[c]
    BY <2>1, Types
  <2>4. ThreadOK(c)'
    <3>1. op[c] \in AllOps \ {"login"} /\ op'[c] = op[c] /\ wire'[c] = wire[c]
      BY <1>1, <1>2 DEF AllOps
    <3>2. step = "send" => loc[c].ref \in Calls /\ loc[c].pair \in Pairs
      BY <1>1, <2>1 DEF ThreadOK
    <3>3. CASE step = "send"
      BY <1>1, <1>2, <2>3, <3>1, <3>2, <3>3 DEF ThreadOK
    <3>4. CASE step \in {"ready", "lock"}
      BY <1>1, <1>2, <2>3, <3>1, <3>4 DEF ThreadOK
    <3>5. QED
      BY <3>3, <3>4
  <2>5. /\ step \in Steps /\ (Past(c) => step \in PastCommit)
        /\ step \in Harmless \/ (pc[c] \in SendSteps /\ step = "send")
    BY <1>1, <2>1, StepNames DEF Past, PastCommit, Harmless, SendSteps
  <2>6. QED
    BY <1>1, <2>1, <2>2, <2>4, <2>5, QuietStep
<1>4. CASE \/ End(c, "ok") /\ UNCHANGED loc
           \/ Fail(c, "refused", "needs_login")
           \/ Fail(c, "failed", "sync_degraded")
  BY <1>1, <1>2, <1>4, StepNames, FailStep
<1>5. CASE ProbeOk(c)
  <2>1. UNCHANGED loc
    BY <1>5 DEF ProbeOk
  <2>2. \/ End(c, "ok")
        \/ pc' = [pc EXCEPT ![c] = "ready"] /\ UNCHANGED outcome
    BY <1>5 DEF ProbeOk, Goto
  <2>3. QED
    BY <1>3, <1>4, <2>1, <2>2
<1>6. CASE ProbeRefused(c)
  <2>1. \/ /\ pc[c] # "probe3" /\ UNCHANGED <<loc, outcome>>
           /\ \E step \in {"lock", "send"} : pc' = [pc EXCEPT ![c] = step]
        \/ Fail(c, "refused", "needs_login")
    BY <1>6 DEF ProbeRefused, Goto
  <2>2. QED
    BY <1>3, <1>4, <2>1
<1>7. CASE ProbeFails(c)
  BY <1>4, <1>7 DEF ProbeFails
<1>8. QED
  BY <1>5, <1>6, <1>7

LEMMA LockStep ==
  ASSUME Typed, NEW c \in Calls, Lock(c)
  PROVE  Typed' /\ Calm
<1>1. /\ ThreadOK(c) /\ pc[c] = "lock" /\ UNCHANGED <<cloudVars, disk, op, faults>>
      /\ loc[c] \in Locals /\ op' \in [Calls -> Ops \cup {"none"}]
      /\ faults' \in Nat /\ UNCHANGED <<wire, status>>
      /\ lock' \in Calls \cup {NoCall}
  BY Types DEF Typed, ThreadInv, Lock, cloudVars, disk
<1>2. op[c] \in {"connected", "restore", "switch"}
  BY <1>1 DEF ThreadOK
<1>3. CASE pc' = [pc EXCEPT ![c] = "row2"] /\ UNCHANGED <<loc, outcome>>
  <2>1. /\ pc'[c] = "row2" /\ loc' = [loc EXCEPT ![c] = loc[c]] /\ loc'[c] = loc[c]
        /\ outcome' \in [Calls -> Outcomes]
    BY <1>1, <1>3, Types
  <2>2. ThreadOK(c)'
    BY <1>1, <1>2, <2>1 DEF ThreadOK
  <2>3. "row2" \in Steps /\ "row2" \in Harmless /\ ~Past(c)
    BY <1>1, StepNames DEF Past, PastCommit, Harmless
  <2>4. QED
    BY <1>1, <1>3, <2>1, <2>2, <2>3, QuietStep
<1>4. CASE Fail(c, "conflict", "sync_degraded")
  BY <1>1, <1>4, StepNames, FailStep
<1>5. QED
  BY <1>3, <1>4 DEF Lock, Goto

(* The refresh's answer is an error, or does not come.                      *)
LEMMA ErrorStep ==
  ASSUME Typed, NEW c \in Calls, ReceiveError(c)
  PROVE  Typed' /\ Calm
<1>1. /\ pc[c] # "new" /\ UNCHANGED <<cloudVars, disk, op>>
      /\ lock' \in Calls \cup {NoCall} /\ faults' \in Nat
  BY Types, Released, Faulted DEF ReceiveError
<1>2. Fail(c, "refused", "needs_login") \/ Fail(c, "failed", "sync_degraded")
  BY DEF ReceiveError
<1>3. QED
  BY <1>1, <1>2, StepNames, FailStep

(* The workspace is ready, or its status is set: an update of the row of    *)
(* the snapshot leaves its reference alone.                                 *)
LEMMA Bumped ==
  ASSUME Typed, status # "none"
  PROVE  /\ Bump(snap) \in Snaps
         /\ Bump(snap).ref = snap.ref /\ Bump(snap).life = snap.life
         /\ Bump(snap).version # 0 /\ snap.version # 0
BY Types DEF Bump, Snaps

LEMMA StatusStep ==
  ASSUME Typed, NEW c \in Calls, Ready(c) \/ Mark(c)
  PROVE  Typed' /\ Calm
<1>1. /\ ThreadOK(c) /\ pc[c] \in {"ready", "mark"}
      /\ UNCHANGED <<cloud, consumed, wire, vault, lock, op, loc, faults>>
      /\ pc' = [pc EXCEPT ![c] = "done"] /\ outcome' \in [Calls -> Outcomes]
      /\ loc' = [loc EXCEPT ![c] = loc[c]] /\ loc[c] \in Locals
  BY Types, EndLemma, StepNames DEF Typed, ThreadInv, Ready, Mark, cloudVars, Goto
<1>2. op[c] \in AllOps \ {"login"} /\ status # "none"
  BY <1>1, Types DEF ThreadOK
<1>3. status' \in Statuses \ {"none"}
  <2>1. CASE Ready(c)
    BY <2>1, StepNames DEF Ready
  <2>2. CASE Mark(c)
    BY <2>2, <1>1, Types DEF Mark, ThreadOK, Locals
  <2>3. QED
    BY <2>1, <2>2
<1>4. snap' = snap \/ snap' = Bump(snap)
  BY DEF Ready, Mark
<1>5. /\ snap' \in Snaps /\ snap'.ref = snap.ref /\ snap'.life = snap.life
      /\ (status' = "none") = (snap'.version = 0)
  BY <1>2, <1>3, <1>4, Bumped, Types
<1>6. ThreadOK(c)'
  BY <1>1, <1>2, <1>3, OverLemma
<1>7. Typed'
  BY <1>1, <1>3, <1>5, <1>6, Types, StepNames, ThreadStep
<1>8. Calm
  BY <1>1, <1>5, StepNames, CalmMove DEF Harmless, PastCommit
<1>9. QED
  BY <1>7, <1>8

(* A secret is deleted that is neither the snapshot's nor about to become   *)
(* it; the row may lose its reference or be archived, the cloud may end the *)
(* session or let it expire, but no token of it changes.                    *)
LEMMA DeleteMove ==
  ASSUME Typed, NEW c \in Calls, NEW step \in Steps, NEW x \in Calls,
         pc' = [pc EXCEPT ![c] = step],
         \A d \in Calls : loc'[d].ref = loc[d].ref /\ loc'[d].pair = loc[d].pair,
         UNCHANGED <<consumed, wire, cloud>>,
         vault' = vault \/ vault' = [vault EXCEPT ![x] = NoPair],
         snap'.ref = snap.ref, snap'.life = snap.life,
         step \in Harmless, Past(c) => step \in PastCommit,
         x = c \/ pc[x] \notin {"login_commit", "commit"},
         ~(snap.life = "active" /\ snap.ref = x)
  PROVE  Calm
<1>1. \A d \in Calls : d # c => pc'[d] = pc[d]
  BY Types
<1>2. pc'[c] = step
  BY Types
<1>3. \A d \in Calls : vault'[d] = vault[d] \/ (d = x /\ vault'[d] = NoPair)
  BY Types
<1>4. \A d \in Calls : Past(d) => Past(d)'
  BY <1>1, <1>2 DEF Past
<1>5. ASSUME NEW d \in Calls
      PROVE  vault'[d] = vault[d] \/ /\ vault'[d] = NoPair
                                     /\ pc'[d] \notin {"login_commit", "commit"}
                                     /\ ~(snap'.life = "active" /\ snap'.ref = d)
  BY <1>1, <1>2, <1>3 DEF Harmless
<1>6. QED
  BY <1>1, <1>2, <1>4, <1>5 DEF Calm

LEMMA ConflictStep ==
  ASSUME Typed, RefInv, NEW c \in Calls, CommitConflict(c)
  PROVE  Typed' /\ Calm
<1>1. /\ pc[c] = "commit" /\ UNCHANGED <<cloud, consumed, wire, snap, status, op, faults>>
      /\ vault' = [vault EXCEPT ![c] = NoPair]
      /\ lock' \in Calls \cup {NoCall}
      /\ Fail(c, "conflict", "sync_degraded")
  BY Released DEF CommitConflict, cloudVars
<1>2. PICK l \in Locals, step \in {"mark", "done"} :
           /\ pc' = [pc EXCEPT ![c] = step]
           /\ loc' = [loc EXCEPT ![c] = l]
           /\ l.ref = loc[c].ref /\ l.pair = loc[c].pair
           /\ step = "mark" => l.mark # "none" /\ op[c] # "login"
           /\ outcome' \in [Calls -> Outcomes]
  BY <1>1, FailLemma, StepNames
<1>3. loc'[c] = l /\ \A d \in Calls : loc'[d].ref = loc[d].ref /\ loc'[d].pair = loc[d].pair
  BY <1>2, Types
<1>4. ThreadOK(c)'
  BY <1>1, <1>2, <1>3, OverLemma
<1>5. step \in Steps /\ step \in Harmless /\ step \in PastCommit
  BY StepNames DEF Harmless, PastCommit
<1>6. Typed'
  <2>1. vault' \in [Calls -> Pairs \cup {NoPair}]
    BY <1>1, Types
  <2>2. QED
    BY <1>1, <1>2, <1>4, <1>5, <2>1, Types, ThreadStep
<1>7. snap.ref # c
  BY <1>1, Types, LifecycleAssumption DEF RefInv, RefOK, Past, PastCommit
<1>8. Calm
  BY <1>1, <1>2, <1>3, <1>5, <1>7, DeleteMove
<1>9. QED
  BY <1>6, <1>8

LEMMA DeleteOldStep ==
  ASSUME Typed, RefInv, NEW c \in Calls, DeleteOld(c)
  PROVE  Typed' /\ Calm
<1>1. /\ ThreadOK(c) /\ pc[c] = "delete_old"
      /\ UNCHANGED <<cloud, consumed, wire, lock, op, loc>>
      /\ loc' = [loc EXCEPT ![c] = loc[c]] /\ loc[c] \in Locals
  BY Types DEF Typed, ThreadInv, DeleteOld, cloudVars
<1>2. /\ status # "none" /\ op[c] # "logout" /\ loc[c].ref \in Calls /\ op[c] # "none"
      /\ op[c] \in AllOps
  BY <1>1, Types DEF ThreadOK
<1>3. \/ /\ vault' = [vault EXCEPT ![loc[c].ref] = NoPair]
         /\ UNCHANGED <<snap, status, faults>>
      \/ /\ faults' \in Nat /\ status' = "sync_degraded" /\ UNCHANGED vault
         /\ snap' = snap \/ snap' = Bump(snap)
  BY Faulted DEF DeleteOld
<1>4. /\ snap' \in Snaps /\ snap'.ref = snap.ref /\ snap'.life = snap.life
      /\ (status' = "none") = (snap'.version = 0)
      /\ status' \in Statuses /\ status' # "none"
      /\ vault' \in [Calls -> Pairs \cup {NoPair}] /\ faults' \in Nat
  BY <1>2, <1>3, Bumped, Types, StepNames
<1>5. PICK step \in {"done", "probe3"} :
         /\ pc' = [pc EXCEPT ![c] = step] /\ outcome' \in [Calls -> Outcomes]
         /\ step = "probe3" => op[c] \in {"connected", "restore", "switch"}
  <2>1. CASE op[c] = "login"
    <3>1. End(c, "ok")
      BY <2>1 DEF DeleteOld
    <3>2. QED
      BY <3>1, EndLemma, StepNames
  <2>2. CASE op[c] # "login"
    <3>1. pc' = [pc EXCEPT ![c] = "probe3"] /\ UNCHANGED outcome
      BY <2>2 DEF DeleteOld, Goto
    <3>2. QED
      BY <1>2, <2>2, <3>1, Types DEF AllOps
  <2>3. QED
    BY <2>1, <2>2
<1>6. ASSUME step = "done" PROVE Typed'
  <2>1. ThreadOK(c)'
    BY <1>1, <1>4, <1>5, <1>6, OverLemma
  <2>2. Typed'
    BY <1>1, <1>4, <1>5, <1>6, <2>1, Types, StepNames, ThreadStep
  <2>3. QED
    BY <2>2
<1>7. ASSUME step = "probe3" PROVE Typed'
  <2>1. op[c] # "login" /\ pc'[c] = "probe3"
    BY <1>5, <1>7, Types
  <2>2. loc[c].pair \in Pairs
    BY <1>1, <2>1 DEF ThreadOK
  <2>3. ThreadOK(c)'
    BY <1>1, <1>4, <1>5, <1>7, <2>1, <2>2 DEF ThreadOK
  <2>4. Typed'
    BY <1>1, <1>4, <1>5, <1>7, <2>3, Types, StepNames, ThreadStep
  <2>5. QED
    BY <2>4
<1>8. snap.ref # loc[c].ref /\ Past(loc[c].ref)
  BY <1>1, <1>2, LifecycleAssumption DEF RefInv, RefOK
<1>9. step \in Steps /\ step \in Harmless /\ step \in PastCommit
  BY StepNames DEF Harmless, PastCommit
<1>10. Calm
  <2>1. pc[loc[c].ref] \notin {"login_commit", "commit"}
    BY <1>8 DEF Past, PastCommit
  <2>2. vault' = vault \/ vault' = [vault EXCEPT ![loc[c].ref] = NoPair]
    BY <1>3
  <2>3. QED
    BY <1>1, <1>2, <1>4, <1>5, <1>8, <1>9, <2>1, <2>2, DeleteMove
<1>11. QED
  BY <1>6, <1>7, <1>10

(* logout.                                                                  *)
LEMMA RevokeStep ==
  ASSUME Typed, NEW c \in Calls, Revoke(c)
  PROVE  Typed' /\ Calm
<1>1. /\ ThreadOK(c) /\ pc[c] = "revoke"
      /\ UNCHANGED <<consumed, wire, vault, snap, status, lock, op>>
  BY DEF Typed, ThreadInv, Revoke, disk
<1>2. /\ op[c] = "logout" /\ status # "none" /\ loc[c].ref \in Calls /\ loc[c].pair \in Pairs
  BY <1>1, Types DEF ThreadOK, AllOps
<1>3. cloud' \in [Calls -> CloudRows] /\ \A s \in Calls : cloud'[s].gen = cloud[s].gen
  <2>1. loc[c].pair.session \in Calls
    BY <1>2 DEF Pairs
  <2>2. [cloud[loc[c].pair.session] EXCEPT !.state = "revoked"] \in CloudRows
    BY <2>1, Types DEF CloudRows
  <2>3. \/ cloud' = cloud
        \/ cloud' = [cloud EXCEPT ![loc[c].pair.session] =
                        [cloud[loc[c].pair.session] EXCEPT !.state = "revoked"]]
    BY DEF Revoke
  <2>4. cloud' \in [Calls -> CloudRows]
    BY <2>1, <2>2, <2>3, Types
  <2>5. ASSUME NEW s \in Calls PROVE cloud'[s].gen = cloud[s].gen
    <3>1. \/ cloud'[s] = cloud[s]
          \/ cloud'[s] = [cloud[s] EXCEPT !.state = "revoked"]
      BY <2>1, <2>3, Types
    <3>2. QED
      BY <3>1, Types DEF CloudRows
  <2>6. QED
    BY <2>4, <2>5
<1>4. PICK l \in Locals, step \in {"archive", "mark"} :
         /\ pc' = [pc EXCEPT ![c] = step] /\ loc' = [loc EXCEPT ![c] = l]
         /\ l.ref = loc[c].ref /\ l.pair = loc[c].pair
         /\ step = "mark" => l.mark # "none"
         /\ faults' \in Nat /\ outcome' \in [Calls -> Outcomes]
  <2>1. CASE pc' = [pc EXCEPT ![c] = "archive"] /\ UNCHANGED <<loc, outcome, faults>>
    <3>1. loc' = [loc EXCEPT ![c] = loc[c]] /\ loc[c] \in Locals
      BY <2>1, Types
    <3>2. QED
      BY <2>1, <3>1, Types
  <2>2. CASE /\ Fault /\ loc' = [loc EXCEPT ![c].mark = "sync_degraded"]
             /\ outcome' = [outcome EXCEPT ![c] = "failed"]
             /\ pc' = [pc EXCEPT ![c] = "mark"]
    <3> DEFINE l == [loc[c] EXCEPT !.mark = "sync_degraded"]
    <3>1. /\ l \in Locals /\ l.ref = loc[c].ref /\ l.pair = loc[c].pair
          /\ l.mark = "sync_degraded"
      BY ZenonT(40), Types, StepNames DEF Locals
    <3>2. faults' \in Nat /\ outcome' \in [Calls -> Outcomes]
      BY <2>2, Faulted, Types, StepNames
    <3>3. loc' = [loc EXCEPT ![c] = l]
      BY <2>2
    <3> HIDE DEF l
    <3>4. QED
      BY <2>2, <3>1, <3>2, <3>3
  <2>3. QED
    BY <2>1, <2>2 DEF Revoke, Goto
<1>5. pc'[c] = step /\ loc'[c] = l
  BY <1>4, Types
<1>6. ThreadOK(c)'
  <2>1. op'[c] = "logout" /\ status' # "none" /\ wire'[c] = wire[c]
    BY <1>1, <1>2
  <2>2. QED
    BY <1>1, <1>2, <1>4, <1>5, <2>1 DEF ThreadOK
<1>7. step \in Steps /\ step \in Harmless /\ ~Past(c)
  BY <1>1, StepNames DEF Harmless, Past, PastCommit
<1>8. Typed'
  BY <1>1, <1>3, <1>4, <1>6, <1>7, Types, ThreadStep
<1>9. Calm
  BY <1>1, <1>3, <1>4, <1>7, CalmMove
<1>10. QED
  BY <1>8, <1>9

LEMMA ArchiveStep ==
  ASSUME Typed, NEW c \in Calls, Archive(c)
  PROVE  Typed' /\ Calm
<1>1. /\ ThreadOK(c) /\ pc[c] = "archive"
      /\ UNCHANGED <<cloud, consumed, wire, vault, lock, op, loc, outcome, faults>>
      /\ pc' = [pc EXCEPT ![c] = "delete_last"] /\ status' = "needs_login"
      /\ snap' = [snap EXCEPT !.life = "archived", !.version = @ + 1]
      /\ loc' = [loc EXCEPT ![c] = loc[c]] /\ loc[c] \in Locals
  BY Types DEF Typed, ThreadInv, Archive, cloudVars, Goto
<1>2. /\ snap' \in Snaps /\ snap'.ref = snap.ref /\ snap'.life = "archived"
      /\ snap'.version # 0
  <2>1. snap \in Snaps /\ snap.version \in Nat
    BY Types DEF Snaps
  <2>2. snap' = [ref |-> snap.ref, version |-> snap.version + 1, life |-> "archived"]
    BY <1>1, <2>1 DEF Snaps
  <2>3. snap.version + 1 \in Nat /\ snap.version + 1 # 0
    BY <2>1
  <2>4. QED
    BY <2>1, <2>2, <2>3 DEF Snaps
<1>3. /\ pc'[c] = "delete_last" /\ \A d \in Calls \ {c} : pc'[d] = pc[d]
  BY <1>1, Types
<1>4. ThreadOK(c)'
  BY <1>1, <1>3 DEF ThreadOK
<1>5. Typed'
  BY <1>1, <1>2, <1>4, Types, StepNames, ThreadStep
<1>6. Calm
  BY <1>1, <1>2, <1>3 DEF Calm, Past, PastCommit
<1>7. QED
  BY <1>5, <1>6

LEMMA DeleteLastStep ==
  ASSUME Typed, RefInv, NEW c \in Calls, DeleteLast(c)
  PROVE  Typed' /\ Calm
<1>1. /\ ThreadOK(c) /\ pc[c] = "delete_last"
      /\ UNCHANGED <<cloud, consumed, wire, snap, status, lock, op, loc>>
      /\ loc' = [loc EXCEPT ![c] = loc[c]] /\ loc[c] \in Locals
  BY Types DEF Typed, ThreadInv, DeleteLast, cloudVars
<1>2. op[c] = "logout" /\ loc[c].ref \in Calls
  BY <1>1 DEF ThreadOK
<1>3. PICK step \in {"clear", "done"} :
         /\ pc' = [pc EXCEPT ![c] = step] /\ outcome' \in [Calls -> Outcomes]
         /\ vault' = vault \/ vault' = [vault EXCEPT ![loc[c].ref] = NoPair]
         /\ faults' \in Nat
  <2>1. CASE Fault /\ End(c, "store_failed") /\ UNCHANGED vault
    BY <2>1, EndLemma, Faulted, StepNames
  <2>2. CASE ~(Fault /\ End(c, "store_failed") /\ UNCHANGED vault)
    BY <2>2, Types DEF DeleteLast, Goto
  <2>3. QED
    BY <2>1, <2>2
<1>4. pc'[c] = step /\ vault' \in [Calls -> Pairs \cup {NoPair}]
  BY <1>2, <1>3, Types
<1>5. ThreadOK(c)'
  BY <1>1, <1>2, <1>3, <1>4 DEF ThreadOK
<1>6. step \in Steps /\ step \in Harmless /\ ~Past(c)
  BY <1>1, StepNames DEF Harmless, Past, PastCommit
<1>7. Typed'
  BY <1>1, <1>3, <1>4, <1>5, <1>6, Types, ThreadStep
<1>8. Past(loc[c].ref) /\ ~(snap.life = "active" /\ snap.ref = loc[c].ref)
  BY <1>1, <1>2, LifecycleAssumption DEF RefInv, RefOK
<1>9. Calm
  <2>1. pc[loc[c].ref] \notin {"login_commit", "commit"}
    BY <1>8 DEF Past, PastCommit
  <2>2. QED
    BY <1>1, <1>2, <1>3, <1>6, <1>8, <2>1, DeleteMove
<1>10. QED
  BY <1>7, <1>9

LEMMA ClearStep ==
  ASSUME Typed, NEW c \in Calls, Clear(c)
  PROVE  Typed' /\ Calm
<1>1. /\ ThreadOK(c) /\ pc[c] = "clear"
      /\ UNCHANGED <<cloud, consumed, wire, vault, status, lock, op, loc, faults>>
      /\ pc' = [pc EXCEPT ![c] = "done"] /\ outcome' \in [Calls -> Outcomes]
      /\ snap' = [snap EXCEPT !.ref = NoCall]
      /\ loc' = [loc EXCEPT ![c] = loc[c]] /\ loc[c] \in Locals
  BY Types, EndLemma, StepNames DEF Typed, ThreadInv, Clear, cloudVars
<1>2. /\ snap' \in Snaps /\ snap'.ref = NoCall /\ snap'.life = snap.life
      /\ snap'.version = snap.version
  BY <1>1, Types DEF Snaps
<1>3. pc'[c] = "done" /\ \A d \in Calls \ {c} : pc'[d] = pc[d]
  BY <1>1, Types
<1>4. ThreadOK(c)'
  BY <1>1, OverLemma
<1>5. Typed'
  BY <1>1, <1>2, <1>4, Types, StepNames, ThreadStep
<1>6. Calm
  BY <1>1, <1>2, <1>3 DEF Calm, Past, PastCommit, Harmless
<1>7. QED
  BY <1>5, <1>6

(* Two hours pass, or the application is killed.                            *)
LEMMA ExpireStep ==
  ASSUME Typed, NEW s \in Calls, Expire(s)
  PROVE  Typed' /\ Calm
<1>1. /\ UNCHANGED <<consumed, wire, vault, snap, status, lock, op, pc, loc, outcome, faults>>
      /\ cloud' = [cloud EXCEPT ![s] = [cloud[s] EXCEPT !.expired = TRUE]]
  BY DEF Expire, disk, threads
<1>2. [cloud[s] EXCEPT !.expired = TRUE] \in CloudRows
  BY ZenonT(40), Types DEF CloudRows
<1>3. cloud' \in [Calls -> CloudRows]
  BY <1>1, <1>2, Types
<1>4. ASSUME NEW t \in Calls PROVE cloud'[t].gen = cloud[t].gen
  <2>1. cloud'[t] = cloud[t] \/ cloud'[t] = [cloud[t] EXCEPT !.expired = TRUE]
    BY <1>1, Types
  <2>2. QED
    BY <2>1, Types DEF CloudRows
<1>5. Typed'
  BY <1>1, <1>3, Types DEF Typed, TypeOK, ThreadInv, ThreadOK, CloudRows
<1>6. Calm
  BY <1>1, <1>4 DEF Calm, Past
<1>7. QED
  BY <1>5, <1>6

LEMMA CrashStep ==
  ASSUME Typed, Crash
  PROVE  Typed' /\ Calm
<1>1. /\ UNCHANGED <<cloud, consumed, wire, vault, snap, status, op, loc>>
      /\ \A c \in Calls : pc'[c] = IF pc[c] = "new" THEN "new" ELSE "done"
      /\ pc' \in [Calls -> Steps]
      /\ outcome' \in [Calls -> Outcomes]
      /\ lock' \in Calls \cup {NoCall} /\ faults' \in Nat
  BY Types, Faulted, StepNames DEF Crash, cloudVars, disk
<1>2. TypeOK'
  BY <1>1, Types DEF TypeOK, Typed, Outcomes
<1>3. ThreadInv'
  <2> SUFFICES ASSUME NEW c \in Calls PROVE ThreadOK(c)'
    BY DEF ThreadInv
  <2>1. ThreadOK(c) /\ (pc'[c] = IF pc[c] = "new" THEN "new" ELSE "done")
    BY <1>1 DEF Typed, ThreadInv
  <2>2. QED
    BY <1>1, <2>1 DEF ThreadOK
<1>4. Calm
  BY <1>1 DEF Calm, Past, PastCommit, Harmless
<1>5. QED
  BY <1>2, <1>3, <1>4 DEF Typed

-----------------------------------------------------------------------------
(* The pairs and their sessions.                                            *)
DataInv == RefInv /\ KnownInv /\ GenInv

LEMMA KnownPairs ==
  ASSUME Typed, RefInv, KnownInv
  PROVE  /\ \A c \in Calls :
              /\ loc[c].pair \in Pairs => Past(loc[c].pair.session)
              /\ wire[c].pair \in Pairs => Past(wire[c].pair.session)
              /\ vault[c] \in Pairs => vault[c].session = c \/ Past(vault[c].session)
              /\ Past(c) /\ vault[c] \in Pairs => Past(vault[c].session)
         /\ \A k \in Keys, p \in Pairs : <<k, p>> \in consumed => Past(p.session)
BY DEF KnownInv, Carried, Keys

LEMMA Refs ==
  ASSUME Typed, RefInv
  PROVE  /\ \A c \in Calls : loc[c].ref \in Calls => Past(loc[c].ref)
         /\ snap.ref \in Calls => Past(snap.ref)
         /\ snap.ref \in Calls \cup {NoCall}
         /\ \A c \in Calls : loc[c].ref \in Calls \cup {NoCall}
         /\ NoCall \notin Calls /\ NoPair \notin Pairs
         /\ OnDisk => snap.ref \in Calls /\ vault[snap.ref] \in Pairs
<1>1. /\ NoCall \notin Calls /\ NoPair \notin Pairs
      /\ snap.ref \in Calls \cup {NoCall}
      /\ \A c \in Calls : loc[c].ref \in Calls \cup {NoCall}
  BY Types, LifecycleAssumption DEF Snaps, Locals
<1>2. OnDisk => snap.ref \in Calls /\ vault[snap.ref] \in Pairs
  BY <1>1, Types DEF RefInv, SnapshotSecretPresent, OnDisk
<1>3. QED
  BY <1>1, <1>2 DEF RefInv, RefOK

(* The call of a thread that a step leaves alone.                           *)
LEMMA CallFrame ==
  ASSUME Typed, DataInv, NEW d \in Calls, ThreadOK(d)',
         loc'[d].ref = loc[d].ref, loc'[d].pair = loc[d].pair, wire'[d] = wire[d],
         pc'[d] \in SendSteps => pc[d] \in SendSteps,
         pc'[d] \in {"wait", "commit"} => pc'[d] = pc[d],
         \A p \in Pairs : Past(p.session) /\ Behind(p) => Behind(p)',
         \A x \in Calls : Past(x) => vault'[x] = vault[x] \/ vault'[x] = NoPair,
         pc'[d] = "commit" => vault'[d] = vault[d],
         \A s \in Calls : Past(s) \/ s = d =>
             /\ cloud[s].gen \in Nat /\ cloud'[s].gen \in Nat
             /\ cloud'[s].gen >= cloud[s].gen
  PROVE  CallOK(d)'
<1> DEFINE x == loc[d].ref
<1>1. CallOK(d) /\ (x # NoCall => x \in Calls /\ Past(x)) /\ ThreadOK(d)
  BY Refs DEF DataInv, GenInv, Typed, ThreadInv
<1>2. SendOK(d)'
  <2> SUFFICES ASSUME pc'[d] \in SendSteps
               PROVE  /\ Behind(loc[d].pair)'
                      /\ vault'[x] = NoPair \/ vault'[x] = loc[d].pair
    BY DEF SendOK
  <2>1. /\ pc[d] \in SendSteps /\ Behind(loc[d].pair) /\ loc[d].pair \in Pairs /\ x \in Calls
        /\ vault[x] = NoPair \/ vault[x] = loc[d].pair
    BY <1>1 DEF CallOK, SendOK, ThreadOK, SendSteps
  <2>2. Past(loc[d].pair.session)
    BY <2>1, KnownPairs DEF DataInv
  <2>3. Behind(loc[d].pair)'
    <3>1. PICK p \in Pairs : p = loc[d].pair
      BY <2>1
    <3>2. Behind(p)'
      BY <2>1, <2>2, <3>1
    <3>3. loc'[d].pair = p
      BY <3>1
    <3>4. QED
      BY <3>2, <3>3 DEF Behind
  <2>4. QED
    BY <1>1, <2>1, <2>3, Refs DEF DataInv
<1>3. ReadOK(d)'
  <2> SUFFICES ASSUME x # NoCall, vault'[x] # NoPair
               PROVE  Behind(vault[loc[d].ref])'
    BY DEF ReadOK
  <2>1. x \in Calls /\ Past(x) /\ vault'[x] = vault[x]
    BY <1>1
  <2>2. PICK p \in Pairs : p = vault[x]
    BY <2>1, Types
  <2>3. Behind(p) /\ Past(p.session)
    BY <1>1, <2>1, <2>2, KnownPairs DEF CallOK, ReadOK, DataInv
  <2>4. Behind(p)' /\ vault'[loc'[d].ref] = p
    BY <2>1, <2>2, <2>3
  <2>5. QED
    BY <2>4 DEF Behind
<1>4. SentOK(d)'
  <2> SUFFICES ASSUME wire[d].state = "sent"
               PROVE  /\ Behind(wire[d].pair)'
                      /\ pc'[d] = "wait" => wire[d].pair = loc[d].pair
    BY DEF SentOK
  <2>1. PICK p \in Pairs : p = wire[d].pair
    BY <1>1 DEF ThreadOK
  <2>2. Behind(p) /\ Past(p.session)
    BY <1>1, <2>1, KnownPairs DEF CallOK, SentOK, DataInv
  <2>3. Behind(p)' /\ wire'[d].pair = p
    BY <2>1, <2>2
  <2>4. Behind(wire[d].pair)'
    BY <2>3 DEF Behind
  <2>5. QED
    BY <1>1, <2>4 DEF CallOK, SentOK
<1>5. AnswerOK(d)'
  <2> SUFFICES ASSUME pc'[d] = "wait", wire[d].state = "answered"
               PROVE  /\ wire[d].pair.session = loc[d].pair.session
                      /\ wire[d].pair.gen > loc[d].pair.gen
                      /\ wire[d].pair.gen <= cloud'[loc[d].pair.session].gen
    BY DEF AnswerOK
  <2>1. /\ pc[d] = "wait" /\ loc[d].pair \in Pairs /\ wire[d].pair \in Pairs
    BY <1>1 DEF ThreadOK
  <2>2. /\ loc[d].pair.session \in Calls /\ Past(loc[d].pair.session)
        /\ wire[d].pair.gen \in Nat
    BY <2>1, KnownPairs DEF DataInv, Pairs
  <2>3. /\ wire[d].pair.session = loc[d].pair.session
        /\ wire[d].pair.gen > loc[d].pair.gen
        /\ wire[d].pair.gen <= cloud[loc[d].pair.session].gen
    BY <1>1, <2>1 DEF CallOK, AnswerOK
  <2>4. QED
    BY <2>2, <2>3
<1>6. CommitOK(d)'
  <2> SUFFICES ASSUME pc'[d] = "commit"
               PROVE  /\ vault[d].gen <= cloud'[vault[d].session].gen
                      /\ vault'[x] # NoPair => /\ vault[d].session = vault'[x].session
                                               /\ vault[d].gen > vault'[x].gen
    BY DEF CommitOK
  <2>1. pc[d] = "commit" /\ x \in Calls /\ Past(x)
    BY <1>1, Refs DEF ThreadOK, DataInv
  <2>2. vault[d] \in Pairs
    BY <2>1, Types DEF DataInv, RefInv, RefOK
  <2>3. /\ vault[d].session \in Calls /\ vault[d].gen \in Nat
        /\ vault[d].session = d \/ Past(vault[d].session)
    BY <2>2, KnownPairs DEF DataInv, Pairs
  <2>4. /\ vault[d].gen <= cloud[vault[d].session].gen
        /\ vault[x] # NoPair => /\ vault[d].session = vault[x].session
                                /\ vault[d].gen > vault[x].gen
    BY <1>1, <2>1 DEF CallOK, CommitOK
  <2>5. vault[d].gen <= cloud'[vault[d].session].gen
    BY <2>3, <2>4
  <2>6. QED
    BY <2>1, <2>4, <2>5
<1>7. QED
  BY <1>2, <1>3, <1>4, <1>5, <1>6 DEF CallOK

LEMMA ConsumedFrame ==
  ASSUME Typed, DataInv, UNCHANGED consumed,
         \A s \in Calls : Past(s) =>
             /\ cloud[s].gen \in Nat /\ cloud'[s].gen \in Nat
             /\ cloud'[s].gen >= cloud[s].gen
  PROVE  ConsumedOK'
<1> SUFFICES ASSUME NEW k \in Keys, NEW p \in Pairs, <<k, p>> \in consumed
             PROVE  cloud'[p.session].gen > p.gen
  BY DEF ConsumedOK
<1>1. p.session \in Calls /\ p.gen \in Nat /\ Past(p.session)
  BY KnownPairs DEF DataInv, Pairs
<1>2. cloud[p.session].gen > p.gen
  BY DEF DataInv, GenInv, ConsumedOK
<1>3. QED
  BY <1>1, <1>2

LEMMA DiskFrame ==
  ASSUME Typed, DataInv, consumed \subseteq consumed',
         OnDisk' => OnDisk /\ vault'[snap'.ref] = vault[snap.ref],
         \A s \in Calls : Past(s) => cloud'[s].gen = cloud[s].gen
  PROVE  DiskOK'
<1> SUFFICES ASSUME OnDisk'
             PROVE  Near(vault[snap.ref])'
  BY DEF DiskOK
<1>1. /\ OnDisk /\ vault'[snap'.ref] = vault[snap.ref]
      /\ snap.ref \in Calls /\ vault[snap.ref] \in Pairs
      /\ Past(snap.ref)
  BY Refs DEF DataInv
<1>2. PICK p \in Pairs : p = vault[snap.ref]
  BY <1>1
<1>3. p.session \in Calls /\ Past(p.session)
  BY <1>1, <1>2, KnownPairs DEF DataInv, Pairs
<1>4. Near(p)
  BY <1>1, <1>2 DEF DataInv, GenInv, DiskOK
<1>5. cloud'[p.session].gen = cloud[p.session].gen
  BY <1>3
<1>6. Near(p)'
  BY <1>4, <1>5 DEF Near, Current
<1>7. vault'[snap'.ref] = p
  BY <1>1, <1>2
<1>8. QED
  BY <1>6, <1>7 DEF Near, Current

LEMMA GenNat ==
  ASSUME Typed
  PROVE  \A s \in Calls : cloud[s].gen \in Nat
BY Types DEF CloudRows

-----------------------------------------------------------------------------
(* A calm step disturbs no invariant.                                       *)
LEMMA CalmRef ==
  ASSUME Typed, DataInv, Typed', Calm
  PROVE  RefInv'
<1>1. snap'.ref # NoCall => Past(snap.ref)' /\ snap'.ref = snap.ref
  <2>1. ASSUME snap'.ref # NoCall
        PROVE  snap'.ref = snap.ref /\ snap.ref \in Calls /\ Past(snap.ref)
    BY <2>1, Refs DEF DataInv, Calm
  <2>2. QED
    BY <2>1 DEF Calm, Past
<1>2. SnapshotSecretPresent'
  <2> SUFFICES ASSUME snap'.life = "active", snap'.ref # NoCall
               PROVE  vault'[snap'.ref] # NoPair
    BY DEF SnapshotSecretPresent
  <2>1. snap.life = "active" /\ snap'.ref = snap.ref /\ snap.ref # NoCall
    BY DEF Calm
  <2>2. snap.ref \in Calls /\ vault[snap.ref] \in Pairs
    BY <2>1, Refs DEF DataInv, OnDisk
  <2>3. QED
    BY <2>1, <2>2, LifecycleAssumption DEF Calm
<1>3. ASSUME NEW c \in Calls PROVE RefOK(c)'
  <2>1. /\ loc'[c].ref = loc[c].ref
        /\ pc'[c] \in {"login_commit", "commit", "delete_old"} => pc'[c] = pc[c]
        /\ pc'[c] = "delete_last" => pc[c] = "delete_last" \/ snap'.life = "archived"
        /\ pc'[c] \in {"login_commit", "commit"} => vault'[c] = vault[c]
    BY DEF Calm, Harmless
  <2>2. pc'[c] \in {"delete_old", "delete_last"} => loc'[c].ref # NoCall
    BY LifecycleAssumption DEF Typed, ThreadInv, ThreadOK
  <2>3. loc[c].ref # NoCall => Past(loc[c].ref)'
    <3>1. ASSUME loc[c].ref # NoCall PROVE loc[c].ref \in Calls /\ Past(loc[c].ref)
      BY <3>1, Refs DEF DataInv
    <3>2. QED
      BY <2>1, <3>1 DEF Calm, Past
  <2>4. RefOK(c)
    BY DEF DataInv, RefInv
  <2>5. /\ snap'.ref = snap.ref \/ snap'.ref = NoCall
        /\ snap.life = "archived" => snap'.life = "archived"
    BY DEF Calm
  <2>6. loc'[c].ref # NoCall => Past(loc[c].ref)'
    BY <2>1, <2>3
  <2>7. /\ pc'[c] = "login_commit" => vault'[c] = [session |-> c, gen |-> 1]
        /\ pc'[c] = "commit" => vault'[c] # NoPair
    BY <2>1, <2>4 DEF RefOK
  <2>8. /\ pc'[c] = "delete_old" => snap'.ref # loc'[c].ref
        /\ pc'[c] = "delete_last" => snap'.life = "archived" \/ snap'.ref # loc'[c].ref
    BY <2>1, <2>2, <2>4, <2>5 DEF RefOK
  <2>9. QED
    BY <2>6, <2>7, <2>8 DEF RefOK
<1>4. QED
  BY <1>1, <1>2, <1>3 DEF RefInv, Past

LEMMA CalmKnown ==
  ASSUME Typed, DataInv, Typed', Calm
  PROVE  KnownInv'
<1>1. ASSUME NEW p \in Pairs, Carried(p)' PROVE Past(p.session)'
  <2>1. p # NoPair /\ p.session \in Calls
    BY LifecycleAssumption DEF Pairs
  <2>2. Carried(p)
    BY <1>1, <2>1 DEF Calm, Carried
  <2>3. QED
    BY <2>1, <2>2 DEF DataInv, KnownInv, Calm
<1>2. ASSUME NEW c \in Calls, pc'[c] \in {"login_apply", "login_commit"}
      PROVE  cloud'[c].gen = 1
  BY <1>2 DEF DataInv, KnownInv, Calm, Harmless
<1>3. QED
  BY <1>1, <1>2 DEF KnownInv

(* What was on disk stays there, or nothing is on disk.                     *)
LEMMA CalmDisk ==
  ASSUME Typed, DataInv, Calm, OnDisk'
  PROVE  OnDisk /\ snap'.ref = snap.ref /\ snap.ref \in Calls /\ vault'[snap.ref] = vault[snap.ref]
<1>1. OnDisk /\ snap'.ref = snap.ref
  BY DEF OnDisk, Calm
<1>2. snap.ref \in Calls
  BY <1>1, Refs DEF DataInv
<1>3. QED
  BY <1>1, <1>2 DEF OnDisk, Calm

LEMMA CalmGen ==
  ASSUME Typed, DataInv, Typed', Calm
  PROVE  GenInv'
<1>1. \A s \in Calls : /\ cloud[s].gen \in Nat /\ cloud'[s].gen \in Nat
                       /\ cloud'[s].gen = cloud[s].gen
  BY GenNat DEF Calm
<1>2. ASSUME NEW p \in Pairs, Behind(p) PROVE Behind(p)'
  BY <1>2, CalmDisk DEF Behind
<1>3. ASSUME NEW d \in Calls PROVE CallOK(d)'
  <2>1. /\ loc'[d].ref = loc[d].ref /\ loc'[d].pair = loc[d].pair /\ wire'[d] = wire[d]
        /\ pc'[d] \in SendSteps => pc[d] \in SendSteps
        /\ pc'[d] \in {"wait", "commit"} => pc'[d] = pc[d]
        /\ \A x \in Calls : vault'[x] = vault[x] \/ vault'[x] = NoPair
        /\ pc'[d] = "commit" => vault'[d] = vault[d]
    BY DEF Calm, Harmless, SendSteps
  <2>2. ThreadOK(d)'
    BY DEF Typed, ThreadInv
  <2>3. QED
    BY <1>1, <1>2, <2>1, <2>2, CallFrame
<1>4. ConsumedOK'
  BY <1>1, ConsumedFrame DEF Calm
<1>5. DiskOK'
  BY <1>1, CalmDisk, DiskFrame DEF Calm
<1>6. QED
  BY <1>3, <1>4, <1>5 DEF GenInv

-----------------------------------------------------------------------------
IInv == Typed /\ DataInv

LEMMA CalmStep ==
  ASSUME IInv, Typed', Calm
  PROVE  IInv'
BY CalmRef, CalmKnown, CalmGen DEF IInv, DataInv

(* The steps that do move a pair are taken one by one.  What they leave to  *)
(* the other threads:                                                       *)
LEMMA RefFrame ==
  ASSUME Typed, DataInv, NEW d \in Calls,
         pc'[d] = pc[d], loc'[d] = loc[d],
         \A x \in Calls : Past(x) => Past(x)',
         pc[d] \in {"login_commit", "commit"} => vault'[d] = vault[d],
         \/ snap'.ref = snap.ref /\ snap'.life = snap.life
         \/ snap'.ref \in Calls /\ ~Past(snap'.ref)
  PROVE  RefOK(d)'
<1>1. RefOK(d) /\ ThreadOK(d)
  BY DEF Typed, ThreadInv, DataInv, RefInv
<1>2. loc[d].ref # NoCall => Past(loc[d].ref)'
  <2>1. ASSUME loc[d].ref # NoCall PROVE loc[d].ref \in Calls /\ Past(loc[d].ref)
    BY <2>1, Refs DEF DataInv
  <2>2. QED
    BY <2>1 DEF Past
<1>3. pc[d] \in {"delete_old", "delete_last"} => loc[d].ref \in Calls /\ Past(loc[d].ref)
  BY <1>1, Refs DEF ThreadOK, DataInv
<1>4. QED
  BY <1>1, <1>2, <1>3 DEF RefOK, Past

(* Steps that leave the vault and the snapshot alone.                       *)
LEMMA SameDisk ==
  ASSUME Typed, DataInv, UNCHANGED <<vault, snap>>,
         \A x \in Calls : Past(x) => Past(x)'
  PROVE  /\ \A p \in Pairs : Behind(p)' <=> Behind(p)
         /\ OnDisk' <=> OnDisk
         /\ snap'.ref # NoCall => Past(snap.ref)'
         /\ SnapshotSecretPresent'
<1>1. snap.ref # NoCall => Past(snap.ref)'
  <2>1. snap.ref # NoCall => snap.ref \in Calls /\ Past(snap.ref)
    BY Refs DEF DataInv
  <2>2. QED
    BY <2>1 DEF Past
<1>2. QED
  BY <1>1 DEF Behind, OnDisk, DataInv, RefInv, SnapshotSecretPresent

(* One thread moves on; the vault, the row and the cloud stay.              *)
LEMMA LocalStep ==
  ASSUME Typed, DataInv, Typed', NEW c \in Calls,
         \A d \in Calls \ {c} : pc'[d] = pc[d] /\ loc'[d] = loc[d] /\ wire'[d] = wire[d],
         UNCHANGED <<cloud, consumed, vault, snap>>,
         Past(c) => Past(c)',
         RefOK(c)', CallOK(c)',
         \A p \in Pairs : Carried(p)' => Carried(p) \/ Past(p.session),
         pc'[c] \notin {"login_apply", "login_commit"}
  PROVE  DataInv'
<1>1. \A x \in Calls : Past(x) => Past(x)'
  BY DEF Past
<1>2. RefInv'
  <2>1. ASSUME NEW d \in Calls \ {c} PROVE RefOK(d)'
    BY <1>1, RefFrame
  <2>2. QED
    BY <1>1, <2>1, SameDisk DEF RefInv, Past
<1>3. KnownInv'
  <2>1. ASSUME NEW p \in Pairs, Carried(p)' PROVE Past(p.session)'
    BY <1>1, <2>1 DEF DataInv, KnownInv, Pairs
  <2>2. QED
    BY <2>1 DEF DataInv, KnownInv
<1>4. GenInv'
  <2>1. ASSUME NEW d \in Calls \ {c} PROVE CallOK(d)'
    <3>1. ThreadOK(d)'
      BY DEF Typed, ThreadInv
    <3>2. QED
      BY <1>1, <3>1, SameDisk, GenNat, CallFrame
  <2>2. ConsumedOK' /\ DiskOK'
    BY <1>1, SameDisk, GenNat, ConsumedFrame, DiskFrame
  <2>3. QED
    BY <2>1, <2>2 DEF GenInv
<1>5. QED
  BY <1>2, <1>3, <1>4 DEF DataInv

LEMMA ReadRowStep ==
  ASSUME IInv, NEW c \in Calls, ReadRow(c)
  PROVE  IInv'
<1> USE DEF IInv
<1>1. /\ ThreadOK(c) /\ pc[c] \in {"row", "row2"} /\ loc[c] \in Locals
      /\ UNCHANGED <<cloud, consumed, wire, vault, snap, status, op, faults>>
  BY Types DEF ReadRow, Typed, ThreadInv, cloudVars, disk
<1>2. CASE snap.ref = NoCall /\ Fail(c, "missing", "needs_login") /\ Release(c)
  BY <1>1, <1>2, Types, Released, FailStep, StepNames, CalmStep DEF cloudVars, disk
<1>3. CASE snap.ref # NoCall /\ UNCHANGED <<lock, outcome>>
           /\ pc' = [pc EXCEPT ![c] = IF pc[c] = "row" THEN "secret" ELSE "secret2"]
           /\ \E l \in Locals : /\ loc' = [loc EXCEPT ![c] = l]
                                /\ l.ref = snap.ref /\ l.pair = loc[c].pair
  <2>1. PICK l \in Locals : /\ loc' = [loc EXCEPT ![c] = l]
                            /\ l.ref = snap.ref /\ l.pair = loc[c].pair
    BY <1>3
  <2> DEFINE step == IF pc[c] = "row" THEN "secret" ELSE "secret2"
  <2>2. /\ pc'[c] = step /\ loc'[c] = l /\ step \in Steps
        /\ \A d \in Calls \ {c} : pc'[d] = pc[d] /\ loc'[d] = loc[d] /\ wire'[d] = wire[d]
        /\ snap.ref \in Calls /\ Past(snap.ref) /\ ~Past(c)
    BY <1>1, <1>3, <2>1, Types, StepNames, Refs DEF Past, PastCommit, DataInv
  <2>3. ThreadOK(c)'
    BY <1>1, <2>1, <2>2, StepNames DEF ThreadOK
  <2>4. Typed'
    BY <1>1, <1>3, <2>1, <2>2, <2>3, Types, ThreadStep
  <2>5. RefOK(c)'
    BY <1>1, <2>1, <2>2, LifecycleAssumption DEF RefOK, Past
  <2>6. CallOK(c)'
    <3>1. CallOK(c)
      BY DEF DataInv, GenInv
    <3>2. SendOK(c)' /\ AnswerOK(c)' /\ CommitOK(c)'
      BY <2>2 DEF SendOK, AnswerOK, CommitOK, SendSteps
    <3>3. SentOK(c)'
      BY <1>1, <2>2, <3>1 DEF CallOK, SentOK, Behind, OnDisk
    <3>4. ReadOK(c)'
      <4>1. vault[snap.ref] # NoPair => vault[snap.ref].gen \in Nat
        BY <2>2, Types DEF Pairs
      <4>2. vault[snap.ref] # NoPair => Behind(vault[snap.ref])
        BY <4>1 DEF Behind
      <4>3. loc'[c].ref = snap.ref
        BY <2>1, <2>2
      <4>4. QED
        BY <1>1, <4>2, <4>3 DEF ReadOK, Behind, OnDisk
    <3>5. QED
      BY <3>2, <3>3, <3>4 DEF CallOK
  <2>7. ASSUME NEW p \in Pairs, Carried(p)' PROVE Carried(p)
    BY <1>1, <2>1, <2>2, <2>7 DEF Carried
  <2>8. DataInv'
    BY <1>1, <2>2, <2>4, <2>5, <2>6, <2>7, LocalStep
  <2>9. QED
    BY <2>4, <2>8
<1>4. QED
  <2>1. ASSUME snap.ref # NoCall, pc[c] = "row",
               loc' = [loc EXCEPT ![c] = [@ EXCEPT !.ref = snap.ref, !.version = snap.version,
                                          !.seen = snap.ref, !.seenVersion = snap.version]]
        PROVE  \E l \in Locals : /\ loc' = [loc EXCEPT ![c] = l]
                                 /\ l.ref = snap.ref /\ l.pair = loc[c].pair
    <3> DEFINE l == [loc[c] EXCEPT !.ref = snap.ref, !.version = snap.version,
                                   !.seen = snap.ref, !.seenVersion = snap.version]
    <3>1. l \in Locals /\ l.ref = snap.ref /\ l.pair = loc[c].pair
      BY <1>1, Types DEF Locals, Snaps
    <3>2. loc' = [loc EXCEPT ![c] = l]
      BY <2>1
    <3> QED
      BY <3>1, <3>2
  <2>2. ASSUME snap.ref # NoCall, pc[c] = "row2",
               loc' = [loc EXCEPT ![c] = [@ EXCEPT !.ref = snap.ref, !.version = snap.version]]
        PROVE  \E l \in Locals : /\ loc' = [loc EXCEPT ![c] = l]
                                 /\ l.ref = snap.ref /\ l.pair = loc[c].pair
    <3> DEFINE l == [loc[c] EXCEPT !.ref = snap.ref, !.version = snap.version]
    <3>1. l \in Locals /\ l.ref = snap.ref /\ l.pair = loc[c].pair
      BY <1>1, Types DEF Locals, Snaps
    <3>2. loc' = [loc EXCEPT ![c] = l]
      BY <2>2
    <3> QED
      BY <3>1, <3>2
  <2>3. QED
    BY <1>1, <1>2, <1>3, <2>1, <2>2 DEF ReadRow, Goto

(* What a reference in use named may be gone, but it has not changed: the   *)
(* thread has a pair that is not newer than the one on disk.                *)
LEMMA ReadSecretStep ==
  ASSUME IInv, NEW c \in Calls, ReadSecret(c)
  PROVE  IInv'
<1> USE DEF IInv
<1>1. /\ ThreadOK(c) /\ pc[c] \in {"secret", "secret2"} /\ loc[c] \in Locals
      /\ UNCHANGED <<cloud, consumed, wire, vault, snap, status, op, faults>>
  BY Types DEF ReadSecret, Typed, ThreadInv, cloudVars, disk
<1>2. CASE Fail(c, "missing", "needs_login") /\ Release(c)
  BY <1>1, <1>2, Types, Released, FailStep, StepNames, CalmStep DEF cloudVars, disk
<1>3. CASE vault[loc[c].ref] # NoPair /\ loc' = [loc EXCEPT ![c].pair = vault[loc[c].ref]]
           /\ pc' = [pc EXCEPT ![c] = AfterSecret(c)] /\ UNCHANGED <<lock, outcome>>
  <2> DEFINE x == loc[c].ref
             l == [loc[c] EXCEPT !.pair = vault[x]]
             step == AfterSecret(c)
  <2>1. x \in Calls /\ vault[x] \in Pairs /\ Past(x) /\ op[c] \in AllOps \ {"login"}
    BY <1>1, <1>3, Types, Refs DEF ThreadOK, DataInv
  <2>2. l \in Locals /\ l.ref = x /\ l.pair = vault[x] /\ loc' = [loc EXCEPT ![c] = l]
    BY <1>1, <1>3, <2>1 DEF Locals
  <2>3. /\ step \in {"revoke", "probe", "send", "probe2"}
        /\ IF op[c] = "logout" THEN step = "revoke" ELSE step # "revoke"
    BY <1>1 DEF AfterSecret, ThreadOK
  <2> HIDE DEF l, step
  <2>4. /\ pc'[c] = step /\ loc'[c] = l /\ step \in Steps
        /\ \A d \in Calls \ {c} : pc'[d] = pc[d] /\ loc'[d] = loc[d] /\ wire'[d] = wire[d]
        /\ ~Past(c)
    BY <1>1, <1>3, <2>2, <2>3, Types, StepNames DEF Past, PastCommit, step
  <2>5. ThreadOK(c)'
    BY <1>1, <2>1, <2>2, <2>3, <2>4 DEF ThreadOK, AllOps
  <2>6. Typed'
    <3>1. pc' = [pc EXCEPT ![c] = step]
      BY <1>3 DEF step
    <3>2. QED
      BY <1>1, <1>3, <2>2, <2>4, <2>5, <3>1, Types, ThreadStep
  <2>7. RefOK(c)'
    BY <1>1, <2>1, <2>2, <2>3, <2>4 DEF RefOK, Past
  <2>8. CallOK(c)'
    <3>1. CallOK(c)
      BY DEF DataInv, GenInv
    <3>2. AnswerOK(c)' /\ CommitOK(c)'
      BY <2>3, <2>4 DEF AnswerOK, CommitOK
    <3>3. SentOK(c)'
      BY <1>1, <2>3, <2>4, <3>1 DEF CallOK, SentOK, Behind, OnDisk
    <3>4. Behind(vault[x]) /\ loc'[c].ref = x /\ loc'[c].pair = vault[x] /\ vault' = vault
      BY <1>1, <1>3, <2>1, <2>2, <2>4, <3>1, Refs DEF CallOK, ReadOK, DataInv
    <3>5. ReadOK(c)' /\ SendOK(c)'
      BY <1>1, <3>4 DEF ReadOK, SendOK, Behind, OnDisk
    <3>6. QED
      BY <3>2, <3>3, <3>5 DEF CallOK
  <2>9. ASSUME NEW p \in Pairs, Carried(p)' PROVE Carried(p) \/ Past(p.session)
    <3>1. CASE loc'[c].pair = p
      BY <2>1, <2>2, <2>4, <3>1, KnownPairs DEF DataInv
    <3>2. CASE loc'[c].pair # p
      BY <1>1, <2>4, <2>9, <3>2 DEF Carried
    <3>3. QED
      BY <3>1, <3>2
  <2>10. DataInv'
    BY <1>1, <2>3, <2>4, <2>6, <2>7, <2>8, <2>9, LocalStep
  <2>11. QED
    BY <2>6, <2>10
<1>4. QED
  BY <1>2, <1>3 DEF ReadSecret, Goto

LEMMA SendStep ==
  ASSUME IInv, NEW c \in Calls, Send(c)
  PROVE  IInv'
<1> USE DEF IInv
<1> DEFINE w == [state |-> "sent", pair |-> loc[c].pair]
<1>1. /\ ThreadOK(c) /\ pc[c] = "send" /\ loc[c] \in Locals
      /\ UNCHANGED <<cloud, consumed, vault, snap, status, lock, op, loc, outcome, faults>>
      /\ loc' = [loc EXCEPT ![c] = loc[c]]
      /\ pc' = [pc EXCEPT ![c] = "wait"]
      /\ wire' = [wire EXCEPT ![c] = w]
  BY Types DEF Send, Typed, ThreadInv, disk, Goto
<1>2. /\ op[c] \in {"connected", "restore", "switch"}
      /\ loc[c].ref \in Calls /\ loc[c].pair \in Pairs
  BY <1>1 DEF ThreadOK
<1>3. /\ pc'[c] = "wait" /\ wire'[c] = w /\ wire' \in [Calls -> Wires]
      /\ \A d \in Calls \ {c} : pc'[d] = pc[d] /\ loc'[d] = loc[d] /\ wire'[d] = wire[d]
      /\ ~Past(c)
  BY <1>1, <1>2, Types DEF Wires, Past, PastCommit
<1>4. ThreadOK(c)'
  BY <1>1, <1>2, <1>3 DEF ThreadOK
<1>5. Typed'
  BY ZenonT(40), <1>1, <1>2, <1>3, <1>4, Types, StepNames, ThreadStep
<1>6. RefOK(c)'
  <2>1. RefOK(c) /\ Past(loc[c].ref)
    BY <1>2, Refs DEF DataInv, RefInv
  <2>2. QED
    BY <1>1, <1>2, <1>3, <2>1 DEF RefOK, Past
<1>7. CallOK(c)'
  <2>1. CallOK(c)
    BY DEF DataInv, GenInv
  <2>2. AnswerOK(c)' /\ CommitOK(c)'
    BY <1>3 DEF AnswerOK, CommitOK
  <2>3. SendOK(c)' /\ ReadOK(c)'
    BY <1>1, <2>1 DEF CallOK, SendOK, ReadOK, Behind, OnDisk, SendSteps
  <2>4. SentOK(c)'
    BY <1>1, <1>3, <2>1 DEF CallOK, SendOK, SentOK, Behind, OnDisk, SendSteps
  <2>5. QED
    BY <2>2, <2>3, <2>4 DEF CallOK
<1>8. ASSUME NEW p \in Pairs, Carried(p)' PROVE Carried(p)
  BY <1>1, <1>3, <1>8 DEF Carried
<1>9. DataInv'
  BY <1>1, <1>3, <1>5, <1>6, <1>7, <1>8, LocalStep
<1>10. QED
  BY <1>5, <1>9

(* A call that has not committed fills its own reference, or opens its own  *)
(* session: nobody else looks there.                                        *)
LEMMA OwnStep ==
  ASSUME Typed, DataInv, Typed', NEW c \in Calls, ~Past(c),
         \A d \in Calls \ {c} : /\ pc'[d] = pc[d] /\ loc'[d] = loc[d] /\ wire'[d] = wire[d]
                                /\ vault'[d] = vault[d] /\ cloud'[d] = cloud[d],
         UNCHANGED <<consumed, snap>>,
         RefOK(c)', CallOK(c)',
         \A p \in Pairs : Carried(p)' => Carried(p) \/ Past(p.session),
         pc'[c] \in {"login_apply", "login_commit"} => cloud'[c].gen = 1
  PROVE  DataInv'
<1>1. \A x \in Calls : Past(x) => Past(x)' /\ x # c /\ vault'[x] = vault[x] /\ cloud'[x] = cloud[x]
  BY DEF Past
<1>2. /\ OnDisk' <=> OnDisk
      /\ snap.ref # NoCall => Past(snap.ref) /\ Past(snap.ref)' /\ vault'[snap.ref] = vault[snap.ref]
  BY <1>1, Refs DEF DataInv, OnDisk, Past
<1>3. \A p \in Pairs : Behind(p)' <=> Behind(p)
  BY <1>2 DEF Behind, OnDisk
<1>4. RefInv'
  <2>1. ASSUME NEW d \in Calls \ {c} PROVE RefOK(d)'
    BY <1>1, RefFrame
  <2>2. SnapshotSecretPresent'
    BY <1>2 DEF DataInv, RefInv, SnapshotSecretPresent
  <2>3. QED
    BY <1>2, <2>1, <2>2 DEF RefInv, Past
<1>5. KnownInv'
  <2>1. ASSUME NEW p \in Pairs, Carried(p)' PROVE Past(p.session)'
    BY <1>1, <2>1 DEF DataInv, KnownInv, Pairs
  <2>2. QED
    BY <2>1 DEF DataInv, KnownInv
<1>6. \A s \in Calls : cloud[s].gen \in Nat /\ cloud'[s].gen \in Nat
  <2>1. \A s \in Calls : cloud'[s].gen \in Nat
    BY DEF Typed, TypeOK
  <2>2. QED
    BY <2>1, GenNat
<1>7. ASSUME NEW d \in Calls \ {c} PROVE CallOK(d)'
  <2>1. ThreadOK(d)' /\ cloud'[d] = cloud[d]
    BY DEF Typed, ThreadInv
  <2>2. \A s \in Calls : Past(s) \/ s = d =>
             /\ cloud[s].gen \in Nat /\ cloud'[s].gen \in Nat
             /\ cloud'[s].gen >= cloud[s].gen
    BY <1>1, <1>6, <2>1
  <2>3. QED
    BY <1>1, <1>3, <2>1, <2>2, CallFrame
<1>8. ConsumedOK'
  BY <1>1, <1>6, ConsumedFrame
<1>9. DiskOK'
  BY <1>1, <1>2, DiskFrame DEF OnDisk
<1>10. QED
  BY <1>4, <1>5, <1>7, <1>8, <1>9 DEF DataInv, GenInv

LEMMA LoginStep ==
  ASSUME IInv, NEW c \in Calls, Login(c)
  PROVE  IInv'
<1> USE DEF IInv
<1> DEFINE row == [state |-> "live", gen |-> 1, expired |-> FALSE]
<1>1. /\ ThreadOK(c) /\ pc[c] = "login" /\ loc[c] \in Locals
      /\ UNCHANGED <<consumed, wire, vault, snap, status, lock, op, loc>>
      /\ loc' = [loc EXCEPT ![c] = loc[c]]
      /\ cloud' = [cloud EXCEPT ![c] = row]
  BY Types DEF Login, Typed, ThreadInv, disk
<1>2. PICK step \in {"login_apply", "done"} :
         /\ pc' = [pc EXCEPT ![c] = step]
         /\ outcome' \in [Calls -> Outcomes] /\ faults' \in Nat
  <2>1. CASE Fault /\ End(c, "failed")
    BY <2>1, EndLemma, Faulted, StepNames
  <2>2. CASE ~(Fault /\ End(c, "failed"))
    BY <2>2, Types DEF Login, Goto
  <2>3. QED
    BY <2>1, <2>2
<1>3. /\ pc'[c] = step /\ step \in Steps /\ ~Past(c)
      /\ cloud'[c] = row /\ row \in CloudRows /\ cloud' \in [Calls -> CloudRows]
      /\ \A d \in Calls \ {c} : /\ pc'[d] = pc[d] /\ loc'[d] = loc[d] /\ wire'[d] = wire[d]
                                /\ vault'[d] = vault[d] /\ cloud'[d] = cloud[d]
  BY <1>1, <1>2, Types, StepNames DEF CloudRows, Past, PastCommit
<1>4. ThreadOK(c)'
  BY <1>1, <1>2, <1>3 DEF ThreadOK
<1>5. Typed'
  BY <1>1, <1>2, <1>3, <1>4, Types, ThreadStep
<1>6. RefOK(c)'
  <2>1. loc[c].ref # NoCall => loc[c].ref \in Calls /\ Past(loc[c].ref)
    BY Refs DEF DataInv
  <2>2. QED
    BY <1>1, <1>2, <1>3, <2>1 DEF RefOK, Past
<1>7. CallOK(c)'
  <2>1. CallOK(c)
    BY DEF DataInv, GenInv
  <2>2. SendOK(c)' /\ AnswerOK(c)' /\ CommitOK(c)'
    BY <1>2, <1>3 DEF SendOK, AnswerOK, CommitOK, SendSteps
  <2>3. ReadOK(c)' /\ SentOK(c)'
    BY <1>1, <1>2, <1>3, <2>1 DEF CallOK, ReadOK, SentOK, Behind, OnDisk
  <2>4. QED
    BY <2>2, <2>3 DEF CallOK
<1>8. ASSUME NEW p \in Pairs, Carried(p)' PROVE Carried(p)
  BY <1>1, <1>8 DEF Carried
<1>9. cloud'[c].gen = 1
  BY <1>3
<1>10. DataInv'
  BY <1>1, <1>3, <1>5, <1>6, <1>7, <1>8, <1>9, OwnStep
<1>11. QED
  BY <1>5, <1>10

LEMMA LoginApplyStep ==
  ASSUME IInv, NEW c \in Calls, LoginApply(c)
  PROVE  IInv'
<1> USE DEF IInv
<1> DEFINE l == [loc[c] EXCEPT !.ref = snap.ref]
           first == [session |-> c, gen |-> 1]
<1>1. /\ ThreadOK(c) /\ pc[c] = "login_apply" /\ loc[c] \in Locals
      /\ UNCHANGED <<cloud, consumed, wire, snap, status, lock, op>>
      /\ loc' = [loc EXCEPT ![c] = l]
  BY Types DEF LoginApply, Typed, ThreadInv, cloudVars
<1>2. l \in Locals /\ l.ref = snap.ref /\ l.pair = loc[c].pair
  BY <1>1, Types DEF Locals, Snaps
<1>3. PICK step \in {"login_commit", "done"} :
         /\ pc' = [pc EXCEPT ![c] = step]
         /\ outcome' \in [Calls -> Outcomes] /\ faults' \in Nat
         /\ \/ step = "login_commit" /\ vault' = [vault EXCEPT ![c] = first]
            \/ step = "done" /\ vault' = vault
  <2>1. CASE Fault /\ End(c, "store_failed") /\ UNCHANGED vault
    BY <2>1, EndLemma, Faulted, StepNames
  <2>2. CASE ~(Fault /\ End(c, "store_failed") /\ UNCHANGED vault)
    BY <2>2, Types DEF LoginApply, Goto
  <2>3. QED
    BY <2>1, <2>2
<1> HIDE DEF l
<1>4. /\ pc'[c] = step /\ loc'[c] = l /\ step \in Steps /\ ~Past(c)
      /\ first \in Pairs /\ vault' \in [Calls -> Pairs \cup {NoPair}]
      /\ step = "login_commit" => vault'[c] = first
      /\ step = "done" => vault'[c] = vault[c]
      /\ \A d \in Calls \ {c} : /\ pc'[d] = pc[d] /\ loc'[d] = loc[d] /\ wire'[d] = wire[d]
                                /\ vault'[d] = vault[d] /\ cloud'[d] = cloud[d]
  BY <1>1, <1>3, Types, StepNames DEF Pairs, Past, PastCommit
<1>5. ThreadOK(c)'
  BY <1>1, <1>3, <1>4 DEF ThreadOK
<1>6. Typed'
  BY <1>1, <1>2, <1>3, <1>4, <1>5, Types, ThreadStep
<1>7. snap.ref # NoCall => snap.ref \in Calls /\ Past(snap.ref) /\ snap.ref # c
  BY <1>4, Refs DEF DataInv
<1>8. RefOK(c)'
  BY <1>2, <1>3, <1>4, <1>7 DEF RefOK, Past
<1>9. CallOK(c)'
  <2>1. CallOK(c)
    BY DEF DataInv, GenInv
  <2>2. SendOK(c)' /\ AnswerOK(c)' /\ CommitOK(c)'
    BY <1>3, <1>4 DEF SendOK, AnswerOK, CommitOK, SendSteps
  <2>3. SentOK(c)'
    <3>1. wire[c].state # "sent"
      BY <1>1 DEF ThreadOK
    <3>2. QED
      BY <1>1, <3>1 DEF SentOK
  <2>4. ReadOK(c)'
    <3>1. loc'[c].ref = snap.ref /\ snap' = snap
      BY <1>1, <1>2, <1>4
    <3>2. snap.ref # NoCall => vault'[snap.ref] = vault[snap.ref]
      BY <1>4, <1>7
    <3>3. snap.ref # NoCall /\ vault[snap.ref] # NoPair => vault[snap.ref].gen \in Nat
      BY <1>7, Types DEF Pairs
    <3>4. QED
      BY <3>1, <3>2, <3>3 DEF ReadOK, Behind
  <2>5. QED
    BY <2>2, <2>3, <2>4 DEF CallOK
<1>10. ASSUME NEW p \in Pairs, Carried(p)' PROVE Carried(p)
  <2>1. first.session = c
    OBVIOUS
  <2>2. QED
    BY <1>1, <1>2, <1>3, <1>4, <1>10, <2>1 DEF Carried
<1>11. cloud'[c].gen = 1
  BY <1>1 DEF DataInv, KnownInv
<1>12. DataInv'
  BY <1>1, <1>4, <1>6, <1>8, <1>9, <1>10, <1>11, OwnStep
<1>13. QED
  BY <1>6, <1>12

(* The answer is stored: it is newer than what the reference the refresh    *)
(* started from holds, if that is still there.                              *)
LEMMA ReceiveStep ==
  ASSUME IInv, NEW c \in Calls, Receive(c)
  PROVE  IInv'
<1> USE DEF IInv
<1>1. /\ ThreadOK(c) /\ pc[c] = "wait" /\ loc[c] \in Locals /\ wire[c].state = "answered"
      /\ UNCHANGED <<cloud, consumed, wire, snap, status, op>>
  BY Types DEF Receive, Typed, ThreadInv, cloudVars
<1>2. CASE Fault /\ Fail(c, "store_failed", "sync_degraded") /\ Release(c) /\ UNCHANGED vault
  BY <1>1, <1>2, Types, Released, Faulted, FailStep, StepNames, CalmStep DEF cloudVars, disk
<1>3. CASE /\ vault' = [vault EXCEPT ![c] = wire[c].pair]
           /\ loc' = [loc EXCEPT ![c].pair = wire[c].pair]
           /\ pc' = [pc EXCEPT ![c] = "commit"]
           /\ UNCHANGED <<lock, outcome, faults>>
  <2> DEFINE x == loc[c].ref
             p == wire[c].pair
             l == [loc[c] EXCEPT !.pair = p]
  <2>1. /\ x \in Calls /\ Past(x) /\ p \in Pairs /\ loc[c].pair \in Pairs
        /\ op[c] \in {"connected", "restore", "switch"}
    BY <1>1, Refs DEF ThreadOK, DataInv
  <2>2. l \in Locals /\ l.ref = x /\ l.pair = p /\ loc' = [loc EXCEPT ![c] = l]
    BY <1>1, <1>3, <2>1 DEF Locals
  <2> HIDE DEF l
  <2>3. /\ pc'[c] = "commit" /\ loc'[c] = l /\ vault'[c] = p /\ ~Past(c) /\ x # c
        /\ vault' \in [Calls -> Pairs \cup {NoPair}]
        /\ \A d \in Calls \ {c} : /\ pc'[d] = pc[d] /\ loc'[d] = loc[d] /\ wire'[d] = wire[d]
                                  /\ vault'[d] = vault[d] /\ cloud'[d] = cloud[d]
    BY <1>1, <1>3, <2>1, <2>2, Types DEF Past, PastCommit
  <2>4. ThreadOK(c)'
    BY <1>1, <2>1, <2>2, <2>3 DEF ThreadOK, AllOps
  <2>5. Typed'
    <3>1. "commit" \in Steps /\ outcome' \in [Calls -> Outcomes]
          /\ lock' \in Calls \cup {NoCall} /\ faults' \in Nat
          /\ op' \in [Calls -> Ops \cup {"none"}]
      BY <1>1, <1>3, Types, StepNames
    <3>2. QED
      BY ZenonT(40), <1>1, <1>3, <2>2, <2>3, <2>4, <3>1, Types, ThreadStep
  <2>6. RefOK(c)'
    BY <2>1, <2>2, <2>3, LifecycleAssumption DEF RefOK, Past
  <2>7. CallOK(c)'
    <3>1. CallOK(c) /\ vault'[x] = vault[x]
      BY <2>1, <2>3 DEF DataInv, GenInv
    <3>2. SendOK(c)' /\ AnswerOK(c)' /\ SentOK(c)'
      BY <1>1, <2>3 DEF SendOK, AnswerOK, SentOK, SendSteps
    <3>3. /\ p.session = loc[c].pair.session /\ p.gen > loc[c].pair.gen
          /\ p.gen <= cloud[p.session].gen
      BY <1>1, <3>1 DEF CallOK, AnswerOK
    <3>4. vault[x] = NoPair \/ vault[x] = loc[c].pair
      BY <1>1, <3>1 DEF CallOK, SendOK, SendSteps
    <3>5. CommitOK(c)'
      BY <1>1, <2>2, <2>3, <3>1, <3>3, <3>4 DEF CommitOK
    <3>6. ReadOK(c)'
      <4>1. snap.ref # NoCall => vault'[snap.ref] = vault[snap.ref]
        BY <2>3, Refs DEF DataInv
      <4>2. QED
        BY <1>1, <2>2, <2>3, <3>1, <4>1 DEF CallOK, ReadOK, Behind, OnDisk
    <3>7. QED
      BY <3>2, <3>5, <3>6 DEF CallOK
  <2>8. ASSUME NEW q \in Pairs, Carried(q)' PROVE Carried(q)
    <3>1. CASE q = p
      BY <3>1 DEF Carried
    <3>2. CASE q # p
      <4>1. /\ loc'[c].pair = p /\ vault'[c] = p /\ wire' = wire /\ consumed' = consumed
            /\ \A d \in Calls \ {c} : loc'[d] = loc[d] /\ vault'[d] = vault[d]
        BY <1>1, <2>2, <2>3
      <4>2. QED
        BY <2>8, <3>2, <4>1 DEF Carried
    <3>3. QED
      BY <3>1, <3>2
  <2>9. DataInv'
    BY <1>1, <2>3, <2>5, <2>6, <2>7, <2>8, OwnStep
  <2>10. QED
    BY <2>5, <2>9
<1>4. QED
  BY <1>2, <1>3 DEF Receive, Goto

(* The two steps that put a call's reference into the snapshot.             *)
LEMMA CommitFrame ==
  ASSUME Typed, DataInv, Typed', NEW c \in Calls,
         pc[c] \in {"login_commit", "commit"},
         pc'[c] \in {"delete_old", "done"},
         \A d \in Calls \ {c} : pc'[d] = pc[d],
         UNCHANGED <<cloud, consumed, wire, vault, loc>>,
         snap'.ref = c,
         \A p \in Pairs : Past(p.session) /\ Behind(p) => Behind(p)',
         DiskOK'
  PROVE  DataInv'
<1>1. /\ ~Past(c) /\ \A x \in Calls : Past(x) => Past(x)'
      /\ Past(c)'
  BY DEF Past, PastCommit
<1>2. vault[c] # NoPair /\ RefOK(c) /\ ThreadOK(c)
  BY LifecycleAssumption DEF DataInv, RefInv, RefOK, Pairs, Typed, ThreadInv
<1>3. RefInv'
  <2>1. ASSUME NEW d \in Calls \ {c} PROVE RefOK(d)'
    BY <1>1, RefFrame
  <2>2. RefOK(c)'
    <3>1. loc[c].ref # NoCall => loc[c].ref \in Calls /\ Past(loc[c].ref)
      BY Refs DEF DataInv
    <3>2. QED
      BY <1>1, <3>1, Refs DEF RefOK, Past, DataInv
  <2>3. QED
    BY <1>1, <1>2, <2>1, <2>2 DEF RefInv, SnapshotSecretPresent, Past
<1>4. KnownInv'
  <2>1. ASSUME NEW p \in Pairs, Carried(p)' PROVE Past(p.session)'
    BY <1>1, <2>1 DEF DataInv, KnownInv, Carried, Pairs
  <2>2. QED
    BY <2>1 DEF DataInv, KnownInv
<1>5. ASSUME NEW d \in Calls PROVE CallOK(d)'
  <2>1. /\ ThreadOK(d)'
        /\ pc'[d] \in SendSteps => pc[d] \in SendSteps
        /\ pc'[d] \in {"wait", "commit"} => pc'[d] = pc[d]
    BY DEF Typed, ThreadInv, SendSteps
  <2>2. QED
    BY <2>1, GenNat, CallFrame
<1>6. ConsumedOK'
  BY GenNat, ConsumedFrame
<1>7. QED
  BY <1>3, <1>4, <1>5, <1>6 DEF DataInv, GenInv

(* A login puts a session on disk that nobody carries a pair of.            *)
LEMMA LoginCommitStep ==
  ASSUME IInv, NEW c \in Calls, LoginCommit(c)
  PROVE  IInv'
<1> USE DEF IInv
<1>1. /\ ThreadOK(c) /\ pc[c] = "login_commit" /\ loc[c] \in Locals
      /\ UNCHANGED <<cloud, consumed, wire, vault, lock, op, loc, faults>>
      /\ loc' = [loc EXCEPT ![c] = loc[c]]
      /\ snap' = [ref |-> c, version |-> snap.version + 1, life |-> "active"]
      /\ status' = "ready"
  BY Types DEF LoginCommit, Typed, ThreadInv, cloudVars
<1>2. PICK step \in {"delete_old", "done"} :
         /\ pc' = [pc EXCEPT ![c] = step] /\ outcome' \in [Calls -> Outcomes]
         /\ step = "delete_old" => loc[c].ref # NoCall
  <2>1. CASE loc[c].ref = NoCall
    <3>1. End(c, "ok")
      BY <2>1 DEF LoginCommit
    <3>2. QED
      BY <3>1, EndLemma, StepNames
  <2>2. CASE loc[c].ref # NoCall
    BY <2>2, Types DEF LoginCommit, Goto
  <2>3. QED
    BY <2>1, <2>2
<1>3. /\ snap' \in Snaps /\ snap'.ref = c /\ snap'.version # 0
      /\ status' \in Statuses /\ status' # "none"
  <2>1. snap.version \in Nat
    BY Types DEF Snaps
  <2>2. snap.version + 1 \in Nat /\ snap.version + 1 # 0
    BY <2>1
  <2>3. QED
    BY <1>1, <2>2, StepNames DEF Snaps
<1>4. /\ pc'[c] = step /\ step \in Steps
      /\ \A d \in Calls \ {c} : pc'[d] = pc[d]
      /\ loc[c].ref \in Calls \cup {NoCall}
  BY <1>1, <1>2, Types, StepNames DEF Locals
<1>5. ThreadOK(c)'
  BY <1>1, <1>2, <1>3, <1>4 DEF ThreadOK
<1>6. Typed'
  BY <1>1, <1>2, <1>3, <1>4, <1>5, Types, ThreadStep
<1>7. vault[c] = [session |-> c, gen |-> 1] /\ cloud[c].gen = 1 /\ ~Past(c)
  BY <1>1 DEF DataInv, RefInv, RefOK, KnownInv, Past, PastCommit
<1>8. ASSUME NEW p \in Pairs, Past(p.session) PROVE Behind(p)'
  BY <1>1, <1>3, <1>7, <1>8 DEF Behind
<1>9. DiskOK'
  <2>1. vault'[snap'.ref] = [session |-> c, gen |-> 1] /\ cloud'[c].gen = 1
    BY <1>1, <1>3, <1>7
  <2>2. QED
    BY <2>1 DEF DiskOK, Near, Current
<1>10. DataInv'
  BY <1>1, <1>2, <1>3, <1>4, <1>6, <1>8, <1>9, CommitFrame
<1>11. QED
  BY <1>6, <1>10

(* A refresh puts the cloud's pair on disk: the snapshot it started from is *)
(* there, and the cloud was at most one rotation ahead of it.               *)
LEMMA CommitPair ==
  ASSUME IInv, NEW c \in Calls, Commit(c)
  PROVE  /\ snap.ref = loc[c].ref /\ snap.ref \in Calls
         /\ vault[c] \in Pairs
         /\ vault[snap.ref] # NoPair =>
               /\ vault[snap.ref] \in Pairs
               /\ vault[c].session = vault[snap.ref].session
               /\ vault[c].gen > vault[snap.ref].gen
<1> USE DEF IInv
<1>1. ThreadOK(c) /\ pc[c] = "commit" /\ snap.ref = loc[c].ref /\ CallOK(c)
  BY DEF Commit, Unchanged, Typed, ThreadInv, DataInv, GenInv
<1>2. loc[c].ref \in Calls /\ vault[c] # NoPair
  BY <1>1 DEF ThreadOK, DataInv, RefInv, RefOK
<1>3. QED
  BY <1>1, <1>2, Types DEF CallOK, CommitOK

LEMMA CommitStep ==
  ASSUME IInv, NEW c \in Calls, Commit(c)
  PROVE  IInv'
<1> USE DEF IInv
<1>1. /\ ThreadOK(c) /\ pc[c] = "commit" /\ loc[c] \in Locals
      /\ UNCHANGED <<cloud, consumed, wire, vault, lock, op, loc, outcome, faults>>
      /\ loc' = [loc EXCEPT ![c] = loc[c]]
      /\ snap' = [snap EXCEPT !.ref = c, !.version = @ + 1]
      /\ status' = "ready" /\ pc' = [pc EXCEPT ![c] = "delete_old"]
  BY Types DEF Commit, Typed, ThreadInv, cloudVars, Goto
<1>2. /\ snap' \in Snaps /\ snap'.ref = c /\ snap'.version # 0 /\ snap'.life = snap.life
      /\ status' \in Statuses /\ status' # "none"
  <2>1. snap \in Snaps /\ snap.version \in Nat
    BY Types DEF Snaps
  <2>2. snap.version + 1 \in Nat /\ snap.version + 1 # 0
    BY <2>1
  <2>3. snap' = [ref |-> c, version |-> snap.version + 1, life |-> snap.life]
    BY <1>1, <2>1 DEF Snaps
  <2>4. QED
    BY <1>1, <2>1, <2>2, <2>3, StepNames DEF Snaps
<1>3. pc'[c] = "delete_old" /\ \A d \in Calls \ {c} : pc'[d] = pc[d]
  BY <1>1, Types
<1>4. ThreadOK(c)'
  BY <1>1, <1>2, <1>3 DEF ThreadOK
<1>5. Typed'
  BY <1>1, <1>2, <1>4, Types, StepNames, ThreadStep
<1>6. ASSUME OnDisk'
      PROVE  /\ OnDisk /\ vault[snap.ref] \in Pairs /\ vault[c] \in Pairs
             /\ vault[c].session = vault[snap.ref].session
             /\ vault[c].gen > vault[snap.ref].gen
  <2>1. OnDisk
    BY <1>2, <1>6, CommitPair, LifecycleAssumption DEF OnDisk
  <2>2. vault[snap.ref] \in Pairs /\ NoPair \notin Pairs
    BY <2>1, Refs DEF DataInv
  <2>3. QED
    BY <2>1, <2>2, CommitPair
<1>7. ASSUME NEW p \in Pairs, Behind(p) PROVE Behind(p)'
  <2> SUFFICES ASSUME OnDisk', p.session = vault[c].session
               PROVE  p.gen <= vault[c].gen
    BY <1>1, <1>2 DEF Behind
  <2>1. p.gen <= vault[snap.ref].gen
    BY <1>6, <1>7 DEF Behind
  <2>2. p.gen \in Nat /\ vault[snap.ref].gen \in Nat /\ vault[c].gen \in Nat
    BY <1>6 DEF Pairs
  <2>3. QED
    BY <1>6, <2>1, <2>2
<1>8. DiskOK'
  <2> SUFFICES ASSUME OnDisk' PROVE Near(vault[snap.ref])'
    BY DEF DiskOK
  <2>1. PICK q \in Pairs : q = vault[c]
    BY <1>6
  <2>2. PICK p \in Pairs : p = vault[snap.ref]
    BY <1>6
  <2>3. /\ q.session = p.session /\ q.gen > p.gen
        /\ Near(p) /\ q.gen <= cloud[q.session].gen
    BY <1>1, <1>6, <2>1, <2>2 DEF DataInv, GenInv, DiskOK, CallOK, CommitOK
  <2>4. q.session \in Calls /\ q.gen \in Nat /\ p.gen \in Nat
    BY DEF Pairs
  <2>5. cloud[p.session].gen \in Nat
    BY <2>3, <2>4, GenNat
  <2>6. cloud[p.session].gen = p.gen \/ cloud[p.session].gen = p.gen + 1
    BY <2>3 DEF Near, Current
  <2>7. q.gen = cloud[q.session].gen
    BY <2>3, <2>4, <2>5, <2>6
  <2>8. q = Current(q)
    BY <2>7 DEF Current, Pairs
  <2>9. Near(q)'
    BY <1>1, <2>8 DEF Near, Current
  <2>10. vault'[snap'.ref] = q
    BY <1>1, <1>2, <2>1
  <2>11. QED
    BY <2>9, <2>10 DEF Near, Current
<1>9. DataInv'
  BY <1>1, <1>2, <1>3, <1>5, <1>7, <1>8, CommitFrame
<1>10. QED
  BY <1>5, <1>9

(* The cloud serves a refresh: it rotates the pair that is current, replays *)
(* a refresh it has done, or refuses.                                       *)
LEMMA RefreshEffect ==
  ASSUME IInv, NEW c \in Calls, CloudRefresh(c)
  PROVE  LET p == wire[c].pair
             s == p.session
             new == [p EXCEPT !.gen = cloud[s].gen + 1]
         IN
         /\ p \in Pairs /\ s \in Calls /\ Past(s) /\ Behind(p)
         /\ op[c] \in {"connected", "restore", "switch"}
         /\ UNCHANGED <<vault, snap, status, lock, op, pc, loc, outcome, faults>>
         /\ \E w \in Wires :
              /\ wire' = [wire EXCEPT ![c] = w]
              /\ w.state # "sent"
              /\ w.state = "answered" =>
                    /\ w.pair \in Pairs /\ w.pair.session = s
                    /\ w.pair.gen > p.gen /\ w.pair.gen <= cloud'[s].gen
              /\ w.pair \in Pairs => w.pair.session = s
         /\ \/ UNCHANGED <<cloud, consumed>>
            \/ /\ p = Current(p)
               /\ cloud' \in [Calls -> CloudRows] /\ cloud'[s].gen = cloud[s].gen + 1
               /\ \A t \in Calls \ {s} : cloud'[t] = cloud[t]
               /\ \E k \in Keys : consumed' = consumed \cup {<<k, p>>}
<1> USE DEF IInv
<1> DEFINE p == wire[c].pair
           s == p.session
           key == <<RefreshKey(c), p>>
<1>1. ThreadOK(c) /\ CallOK(c) /\ wire[c].state = "sent"
  BY DEF CloudRefresh, Typed, ThreadInv, DataInv, GenInv
<1>2. /\ p \in Pairs /\ op[c] \in {"connected", "restore", "switch"} /\ Behind(p)
  BY <1>1 DEF ThreadOK, CallOK, SentOK
<1>3. s \in Calls /\ Past(s) /\ p.gen \in Nat /\ cloud[s].gen \in Nat
  BY <1>2, KnownPairs, GenNat DEF DataInv, Pairs
<1>4. RefreshKey(c) \in Keys
  BY <1>2 DEF RefreshKey, Keys
<1>5. UNCHANGED <<vault, snap, status, lock, op, pc, loc, outcome, faults>>
  BY DEF CloudRefresh, disk, threads
<1>6. CASE /\ Rotates(p)
           /\ cloud' = [cloud EXCEPT ![s] = [@ EXCEPT !.gen = cloud[s].gen + 1, !.expired = FALSE]]
           /\ consumed' = consumed \cup {key}
           /\ wire' = [wire EXCEPT ![c] = [state |-> "answered",
                                           pair |-> [p EXCEPT !.gen = cloud[s].gen + 1]]]
  <2> DEFINE q == [p EXCEPT !.gen = cloud[s].gen + 1]
             w == [state |-> "answered", pair |-> q]
  <2>1. q \in Pairs /\ q.session = s /\ q.gen = cloud[s].gen + 1
    BY <1>2, <1>3 DEF Pairs
  <2>2. w \in Wires
    BY <2>1 DEF Wires
  <2>3. p = Current(p) /\ p.gen = cloud[s].gen
    BY <1>6 DEF Rotates, Current
  <2>4. /\ cloud' \in [Calls -> CloudRows] /\ cloud'[s].gen = cloud[s].gen + 1
        /\ \A t \in Calls \ {s} : cloud'[t] = cloud[t]
    <3>1. cloud[s] \in CloudRows /\ cloud[s].gen + 1 \in Nat
      BY <1>3, Types
    <3>2. PICK row \in CloudRows : /\ row.gen = cloud[s].gen + 1
                                   /\ cloud' = [cloud EXCEPT ![s] = row]
      BY <1>6, <3>1 DEF CloudRows
    <3>3. QED
      BY <1>3, <3>2, Types
  <2>5. /\ w.state = "answered" /\ w.pair = q
        /\ q.gen > p.gen /\ q.gen <= cloud'[s].gen
    BY <1>3, <2>1, <2>3, <2>4
  <2>6. wire' = [wire EXCEPT ![c] = w]
    BY <1>6
  <2> HIDE DEF w
  <2>7. /\ w.pair \in Pairs /\ w.pair.session = s /\ w.state # "sent"
        /\ w.pair.gen > p.gen /\ w.pair.gen <= cloud'[s].gen
    BY <2>1, <2>5
  <2>8. \E k \in Keys : consumed' = consumed \cup {<<k, p>>}
    BY <1>4, <1>6
  <2> HIDE DEF p, s, q
  <2>9. QED
    BY <1>2, <1>3, <1>5, <2>2, <2>3, <2>4, <2>6, <2>7, <2>8 DEF p, s
<1>7. CASE /\ key \in consumed /\ UNCHANGED <<cloud, consumed>>
           /\ \E state \in {"unavailable", "refused", "answered"} :
                wire' = [wire EXCEPT ![c] = [state |-> state, pair |-> Current(p)]]
  <2>1. PICK state \in {"unavailable", "refused", "answered"} :
                wire' = [wire EXCEPT ![c] = [state |-> state, pair |-> Current(p)]]
    BY <1>7
  <2> DEFINE w == [state |-> state, pair |-> Current(p)]
  <2>2. /\ Current(p) \in Pairs /\ Current(p).session = s
        /\ Current(p).gen = cloud[s].gen
    BY <1>3 DEF Current, Pairs
  <2>3. cloud[s].gen > p.gen
    BY <1>2, <1>4, <1>7 DEF DataInv, GenInv, ConsumedOK
  <2>4. w \in Wires /\ w.state = state /\ w.pair = Current(p)
    BY <2>2 DEF Wires
  <2>5. wire' = [wire EXCEPT ![c] = w]
    BY <2>1
  <2> HIDE DEF w
  <2>6. w.pair.gen > p.gen /\ w.pair.gen <= cloud'[s].gen
    BY <1>3, <1>7, <2>2, <2>3, <2>4
  <2>7. QED
    BY <1>2, <1>3, <1>5, <1>7, <2>2, <2>4, <2>5, <2>6
<1>8. CASE /\ UNCHANGED <<cloud, consumed>>
           /\ wire' = [wire EXCEPT ![c] = [state |-> "refused", pair |-> NoPair]]
  <2> DEFINE w == [state |-> "refused", pair |-> NoPair]
  <2>1. w \in Wires /\ w.state = "refused" /\ w.pair \notin Pairs
    BY LifecycleAssumption DEF Wires
  <2>2. wire' = [wire EXCEPT ![c] = w]
    BY <1>8
  <2> HIDE DEF w
  <2>3. QED
    BY <1>2, <1>3, <1>5, <1>8, <2>1, <2>2
<1>9. QED
  BY <1>6, <1>7, <1>8 DEF CloudRefresh

LEMMA CloudRefreshStep ==
  ASSUME IInv, NEW c \in Calls, CloudRefresh(c)
  PROVE  IInv'
<1> USE DEF IInv
<1> DEFINE p == wire[c].pair
           s == p.session
<1>1. /\ p \in Pairs /\ s \in Calls /\ Past(s) /\ Behind(p)
      /\ op[c] \in {"connected", "restore", "switch"}
      /\ UNCHANGED <<vault, snap, status, lock, op, pc, loc, outcome, faults>>
  BY RefreshEffect
<1>2. PICK w \in Wires :
         /\ wire' = [wire EXCEPT ![c] = w]
         /\ w.state # "sent"
         /\ w.state = "answered" =>
               /\ w.pair \in Pairs /\ w.pair.session = s
               /\ w.pair.gen > p.gen /\ w.pair.gen <= cloud'[s].gen
         /\ w.pair \in Pairs => w.pair.session = s
  BY RefreshEffect
<1>3. \/ UNCHANGED <<cloud, consumed>>
      \/ /\ p = Current(p)
         /\ cloud' \in [Calls -> CloudRows] /\ cloud'[s].gen = cloud[s].gen + 1
         /\ \A t \in Calls \ {s} : cloud'[t] = cloud[t]
         /\ \E k \in Keys : consumed' = consumed \cup {<<k, p>>}
  BY RefreshEffect
<1>4. /\ wire'[c] = w /\ wire' \in [Calls -> Wires]
      /\ \A d \in Calls \ {c} : wire'[d] = wire[d]
  BY <1>2, Types
<1>5. /\ cloud' \in [Calls -> CloudRows]
      /\ consumed' \in SUBSET (Keys \X Pairs)
      /\ \A t \in Calls \ {s} : cloud'[t] = cloud[t]
      /\ cloud[s].gen \in Nat
      /\ \/ cloud' = cloud /\ consumed' = consumed
         \/ /\ p = Current(p) /\ cloud'[s].gen = cloud[s].gen + 1
            /\ \E k \in Keys : consumed' = consumed \cup {<<k, p>>}
  <2>1. cloud[s].gen \in Nat
    BY <1>1, Types DEF CloudRows
  <2>2. consumed' \in SUBSET (Keys \X Pairs)
    BY <1>1, <1>3, Types
  <2>3. QED
    BY <1>3, <2>1, <2>2, Types
<1>6. \A t \in Calls : /\ cloud[t].gen \in Nat /\ cloud'[t].gen \in Nat
                       /\ cloud'[t].gen >= cloud[t].gen
  BY <1>5, GenNat
<1>7. Typed'
  <2>1. /\ pc' = [pc EXCEPT ![c] = pc[c]] /\ loc' = [loc EXCEPT ![c] = loc[c]]
        /\ pc[c] \in Steps /\ loc[c] \in Locals
    BY <1>1, Types
  <2>2. ThreadOK(c)
    BY DEF Typed, ThreadInv
  <2>3. ThreadOK(c)'
    BY <1>1, <1>2, <1>4, <2>2 DEF ThreadOK
  <2>4. ASSUME NEW d \in Calls, wire'[d].state \in {"sent", "answered"}
        PROVE  \/ wire'[d] = wire[d]
               \/ wire'[d].pair \in Pairs /\ op[d] \in {"connected", "restore", "switch"}
    BY <1>1, <1>2, <1>4, <2>4
  <2>5. /\ op' \in [Calls -> Ops \cup {"none"}] /\ outcome' \in [Calls -> Outcomes]
        /\ lock' \in Calls \cup {NoCall} /\ faults' \in Nat /\ snap' \in Snaps
        /\ vault' \in [Calls -> Pairs \cup {NoPair}] /\ status' \in Statuses
        /\ (status' = "none") = (snap'.version = 0)
        /\ status # "none" => status' # "none"
        /\ op' = op
    BY <1>1, Types
  <2>6. QED
    BY <1>4, <1>5, <2>1, <2>3, <2>4, <2>5, ThreadStep
<1>8. RefInv'
  BY <1>1 DEF DataInv, RefInv, RefOK, Past, SnapshotSecretPresent
<1>9. KnownInv'
  <2>1. ASSUME NEW q \in Pairs, Carried(q)' PROVE Past(q.session)'
    <3>1. CASE q.session = s
      BY <1>1, <3>1 DEF Past
    <3>2. CASE q.session # s
      <4>1. Carried(q)
        BY <1>1, <1>2, <1>4, <1>5, <2>1, <3>2 DEF Carried, Keys
      <4>2. QED
        BY <1>1, <4>1 DEF DataInv, KnownInv, Past
    <3>3. QED
      BY <3>1, <3>2
  <2>2. ASSUME NEW d \in Calls, pc'[d] \in {"login_apply", "login_commit"}
        PROVE  cloud'[d].gen = 1
    BY <1>1, <1>5, <2>2 DEF DataInv, KnownInv, Past, PastCommit
  <2>3. QED
    BY <2>1, <2>2 DEF KnownInv
<1>10. /\ OnDisk' <=> OnDisk
       /\ \A q \in Pairs : Behind(q)' <=> Behind(q)
  BY <1>1 DEF Behind, OnDisk
<1>11. ASSUME NEW d \in Calls \ {c} PROVE CallOK(d)'
  <2>1. ThreadOK(d)'
    BY <1>7 DEF Typed, ThreadInv
  <2>2. QED
    BY <1>1, <1>4, <1>6, <1>10, <2>1, CallFrame DEF Past
<1>12. CallOK(c)'
  <2>1. CallOK(c) /\ ThreadOK(c)
    BY DEF DataInv, GenInv, Typed, ThreadInv
  <2>2. SendOK(c)' /\ ReadOK(c)'
    BY <1>1, <2>1 DEF CallOK, SendOK, ReadOK, Behind, OnDisk
  <2>3. SentOK(c)'
    BY <1>2, <1>4 DEF SentOK
  <2>4. AnswerOK(c)'
    <3>1. pc[c] = "wait" => loc[c].pair = p
      BY <2>1, RefreshEffect DEF CallOK, SentOK, CloudRefresh
    <3>2. QED
      BY <1>1, <1>2, <1>4, <3>1 DEF AnswerOK
  <2>5. CommitOK(c)'
    <3>1. pc[c] = "commit" => /\ vault[c] \in Pairs /\ vault[c].session \in Calls
                              /\ vault[c].gen \in Nat
      BY Types DEF DataInv, RefInv, RefOK, Pairs
    <3>2. QED
      BY <1>1, <1>6, <2>1, <3>1 DEF CallOK, CommitOK
  <2>6. QED
    BY <2>2, <2>3, <2>4, <2>5 DEF CallOK
<1>13. ConsumedOK'
  <2> SUFFICES ASSUME NEW k \in Keys, NEW q \in Pairs, <<k, q>> \in consumed'
               PROVE  cloud'[q.session].gen > q.gen
    BY DEF ConsumedOK
  <2>1. q.session \in Calls /\ q.gen \in Nat
    BY DEF Pairs
  <2>2. CASE <<k, q>> \in consumed
    <3>1. cloud[q.session].gen > q.gen
      BY <2>2 DEF DataInv, GenInv, ConsumedOK
    <3>2. QED
      BY <1>6, <2>1, <3>1
  <2>3. CASE <<k, q>> \notin consumed
    <3>1. q = p /\ p = Current(p) /\ cloud'[s].gen = cloud[s].gen + 1
      BY <1>5, <2>3
    <3>2. p.gen = cloud[s].gen
      BY <3>1 DEF Current
    <3>3. QED
      BY <1>6, <2>1, <3>1, <3>2
  <2>4. QED
    BY <2>2, <2>3
<1>14. DiskOK'
  <2> SUFFICES ASSUME OnDisk' PROVE Near(vault[snap.ref])'
    BY DEF DiskOK
  <2>1. OnDisk /\ vault[snap.ref] \in Pairs
    BY <1>10, Refs DEF DataInv
  <2>2. PICK q \in Pairs : q = vault[snap.ref]
    BY <2>1
  <2>3. Near(q) /\ vault'[snap'.ref] = q
    BY <1>1, <2>1, <2>2 DEF DataInv, GenInv, DiskOK
  <2>4. q.session \in Calls /\ q.gen \in Nat
    BY DEF Pairs
  <2>5. CASE cloud' = cloud /\ consumed' = consumed
    BY <2>3, <2>5 DEF Near, Current
  <2>6. CASE q.session # s
    <3>1. cloud'[q.session] = cloud[q.session] /\ consumed \subseteq consumed'
      BY <1>5, <2>4, <2>6
    <3>2. Near(q)'
      BY <2>3, <3>1 DEF Near, Current
    <3>3. QED
      BY <2>3, <3>2 DEF Near, Current
  <2>7. CASE q.session = s /\ ~(cloud' = cloud /\ consumed' = consumed)
    <3>1. PICK k \in Keys : /\ p = Current(p) /\ cloud'[s].gen = cloud[s].gen + 1
                            /\ consumed' = consumed \cup {<<k, p>>}
      BY <1>5, <2>7
    <3>2. p.gen = cloud[s].gen /\ p.gen \in Nat
      BY <1>1, <3>1 DEF Current, Pairs
    <3>3. p.gen <= q.gen
      BY <1>1, <2>1, <2>2, <2>7 DEF Behind
    <3>4. q.gen <= cloud[s].gen
      BY <1>5, <2>3, <2>4, <2>7 DEF Near, Current
    <3>5. p.gen = q.gen
      BY <2>4, <3>2, <3>3, <3>4
    <3>6. p = q
      BY <1>1, <2>7, <3>5 DEF Pairs
    <3>7. Near(q)'
      BY <2>7, <3>1, <3>2, <3>6 DEF Near
    <3>8. QED
      BY <2>3, <3>7 DEF Near, Current
  <2>8. QED
    BY <2>5, <2>6, <2>7
<1>15. QED
  BY <1>7, <1>8, <1>9, <1>11, <1>12, <1>13, <1>14 DEF DataInv, GenInv

-----------------------------------------------------------------------------
(* The calm steps together.                                                 *)
LEMMA CalmSteps ==
  ASSUME IInv, NEW c \in Calls,
         \/ \E o \in Ops : Begin(c, o)
         \/ ProbeOk(c) \/ ProbeRefused(c) \/ ProbeFails(c)
         \/ Lock(c) \/ ReceiveError(c) \/ CommitConflict(c) \/ DeleteOld(c)
         \/ Ready(c) \/ Mark(c)
         \/ Revoke(c) \/ Archive(c) \/ DeleteLast(c) \/ Clear(c)
         \/ \E s \in Calls : Expire(s)
         \/ Crash
  PROVE  Typed' /\ Calm
<1>1. Typed /\ RefInv
  BY DEF IInv, DataInv
<1>2. CASE \E o \in Ops : Begin(c, o)
  BY <1>1, <1>2, BeginStep
<1>3. CASE ProbeOk(c) \/ ProbeRefused(c) \/ ProbeFails(c)
  BY <1>1, <1>3, ProbeStep
<1>4. CASE Lock(c) \/ ReceiveError(c) \/ Ready(c) \/ Mark(c)
  BY <1>1, <1>4, LockStep, ErrorStep, StatusStep
<1>5. CASE CommitConflict(c) \/ DeleteOld(c) \/ DeleteLast(c)
  BY <1>1, <1>5, ConflictStep, DeleteOldStep, DeleteLastStep
<1>6. CASE Revoke(c) \/ Archive(c) \/ Clear(c)
  BY <1>1, <1>6, RevokeStep, ArchiveStep, ClearStep
<1>7. CASE (\E s \in Calls : Expire(s)) \/ Crash
  BY <1>1, <1>7, ExpireStep, CrashStep
<1>8. QED
  BY <1>2, <1>3, <1>4, <1>5, <1>6, <1>7

LEMMA InitIInv == Init => IInv
<1> SUFFICES ASSUME Init PROVE IInv
  OBVIOUS
<1>1. Typed
  <2>1. TypeOK
    <3>1. {"none", "new", "idle", "pending", "archived"} \cap Steps = {"new"}
      BY DEF Steps
    <3>2. [ref |-> NoCall, version |-> 0, pair |-> NoPair, seen |-> NoCall,
           seenVersion |-> 0, mark |-> "none"] \in Locals
      BY DEF Locals, Statuses
    <3>3. QED
      BY <3>1, <3>2 DEF Init, TypeOK, Statuses
  <2>2. ThreadInv
    BY DEF Init, ThreadInv, ThreadOK, AllOps
  <2>3. QED
    BY <2>1, <2>2 DEF Typed
<1>2. RefInv
  BY DEF Init, RefInv, RefOK, SnapshotSecretPresent
<1>3. KnownInv
  <2>1. ASSUME NEW p \in Pairs PROVE ~Carried(p)
    BY LifecycleAssumption DEF Init, Carried
  <2>2. QED
    BY <2>1 DEF Init, KnownInv
<1>4. GenInv
  <2>1. ~OnDisk /\ consumed = {}
    BY DEF Init, OnDisk
  <2>2. ASSUME NEW c \in Calls PROVE CallOK(c)
    BY DEF Init, CallOK, SendOK, ReadOK, SentOK, AnswerOK, CommitOK, SendSteps
  <2>3. QED
    BY <2>1, <2>2 DEF GenInv, ConsumedOK, DiskOK
<1>5. QED
  BY <1>1, <1>2, <1>3, <1>4 DEF IInv, DataInv

LEMMA StutterStep == IInv /\ UNCHANGED vars => IInv'
<1> SUFFICES ASSUME IInv, UNCHANGED vars PROVE IInv'
  OBVIOUS
<1>1. UNCHANGED <<cloud, consumed, wire, vault, snap, status, lock, op, pc, loc, outcome, faults>>
  BY DEF vars, cloudVars, disk, threads
<1>2. Typed'
  BY <1>1 DEF IInv, Typed, TypeOK, ThreadInv, ThreadOK
<1>3. Calm
  BY <1>1 DEF Calm, Past
<1>4. QED
  BY <1>2, <1>3, CalmStep

LEMMA NextIInv == IInv /\ [Next]_vars => IInv'
<1> SUFFICES ASSUME IInv, [Next]_vars PROVE IInv'
  OBVIOUS
<1>1. CASE UNCHANGED vars
  BY <1>1, StutterStep
<1>2. ASSUME NEW c \in Calls, \E o \in Ops : Begin(c, o) PROVE IInv'
  BY <1>2, CalmSteps, CalmStep
<1>3. ASSUME NEW c \in Calls, Step(c) PROVE IInv'
  <2>1. CASE Login(c) \/ LoginApply(c) \/ LoginCommit(c)
    BY <2>1, LoginStep, LoginApplyStep, LoginCommitStep
  <2>2. CASE ReadRow(c) \/ ReadSecret(c) \/ Send(c)
    BY <2>2, ReadRowStep, ReadSecretStep, SendStep
  <2>3. CASE Receive(c) \/ Commit(c)
    BY <2>3, ReceiveStep, CommitStep
  <2>4. CASE \/ ProbeOk(c) \/ ProbeRefused(c) \/ ProbeFails(c)
             \/ Lock(c) \/ ReceiveError(c) \/ CommitConflict(c) \/ DeleteOld(c)
             \/ Ready(c) \/ Mark(c)
             \/ Revoke(c) \/ Archive(c) \/ DeleteLast(c) \/ Clear(c)
    BY <2>4, CalmSteps, CalmStep
  <2>5. QED
    BY <1>3, <2>1, <2>2, <2>3, <2>4 DEF Step
<1>4. ASSUME NEW c \in Calls, CloudRefresh(c) PROVE IInv'
  BY <1>4, CloudRefreshStep
<1>5. CASE (\E s \in Calls : Expire(s)) \/ Crash
  <2>1. Typed' /\ Calm
    BY <1>5, ExpireStep, CrashStep DEF IInv
  <2>2. QED
    BY <2>1, CalmStep
<1>6. QED
  BY <1>1, <1>2, <1>3, <1>4, <1>5 DEF Next

\* The strengthened invariant holds in every reachable state.
THEOREM LifecycleInvariant == Spec => []IInv
BY InitIInv, NextIInv, PTL DEF Spec

\* Every variable keeps its type, with any calls, operations and faults: the workspace
\* row is there exactly when the snapshot row is.
THEOREM LifecycleTypeOK == Spec => []TypeOK
<1>1. IInv => TypeOK
  BY DEF IInv, Typed
<1> QED BY <1>1, LifecycleInvariant, PTL

\* An active snapshot that names a secret names one that is in the vault, whatever
\* refreshes, logins, logouts and crashes overlap: the new secret is stored before the
\* row names it and the old one deleted after (_apply_login, _refresh_local_session).
THEOREM SecretTheorem == Spec => []SnapshotSecretPresent
<1>1. IInv => SnapshotSecretPresent
  BY DEF IInv, DataInv, RefInv
<1> QED BY <1>1, LifecycleInvariant, PTL

\* While the cloud keeps the session, the pair on disk is the current one or exactly
\* the one its last refresh consumed, which that refresh's key may replay.
THEOREM ReplayTheorem == Spec => []OneReplayBehind
<1>1. IInv => OneReplayBehind
  BY DEF IInv, DataInv, GenInv, DiskOK, OnDisk, Near, OneReplayBehind, Keys
<1> QED BY <1>1, LifecycleInvariant, PTL

Regresses ==
    snap'.ref # snap.ref /\ snap'.ref # NoCall =>
        \/ op[snap'.ref] = "login"
        \/ /\ snap.ref # NoCall
           /\ vault[snap.ref] # NoPair =>
                 /\ vault'[snap'.ref].session = vault[snap.ref].session
                 /\ vault'[snap'.ref].gen > vault[snap.ref].gen

LEMMA KeepsOrder == IInv /\ [Next]_vars => Regresses
<1> SUFFICES ASSUME IInv, [Next]_vars, snap'.ref # snap.ref, snap'.ref # NoCall
             PROVE  \/ op[snap'.ref] = "login"
                    \/ /\ snap.ref # NoCall
                       /\ vault[snap.ref] # NoPair =>
                             /\ vault'[snap'.ref].session = vault[snap.ref].session
                             /\ vault'[snap'.ref].gen > vault[snap.ref].gen
  BY DEF Regresses
<1>1. ~Calm /\ snap' # snap
  BY DEF Calm
<1>2. PICK c \in Calls : LoginCommit(c) \/ Commit(c)
  <2>1. PICK c \in Calls : (\E o \in Ops : Begin(c, o)) \/ Step(c) \/ CloudRefresh(c)
                           \/ (\E s \in Calls : Expire(s)) \/ Crash
    <3>1. snap' = snap \/ Next
      BY DEF vars, disk
    <3>2. ~Crash /\ ~(\E s \in Calls : Expire(s))
      BY <1>1, ExpireStep, CrashStep DEF IInv
    <3>3. QED
      BY <1>1, <3>1, <3>2 DEF Next
  <2>2. ~(Login(c) \/ LoginApply(c) \/ ReadRow(c) \/ ReadSecret(c) \/ Send(c) \/ Receive(c)
          \/ CloudRefresh(c))
    BY <1>1 DEF Login, LoginApply, ReadRow, ReadSecret, Send, Receive, CloudRefresh, disk
  <2>3. QED
    BY <1>1, <2>1, <2>2, CalmSteps DEF Step
<1>3. CASE LoginCommit(c)
  <2>1. snap'.ref = c /\ op[c] = "login"
    BY <1>3 DEF LoginCommit, IInv, Typed, ThreadInv, ThreadOK
  <2>2. QED
    BY <2>1
<1>4. CASE Commit(c)
  <2>1. snap' = [snap EXCEPT !.ref = c, !.version = snap.version + 1] /\ vault' = vault
    BY <1>4 DEF Commit
  <2>2. snap'.ref = c
    BY <2>1, Types DEF IInv, Snaps
  <2>3. snap.ref # NoCall
    BY <1>4, CommitPair, LifecycleAssumption
  <2>4. QED
    BY <1>4, <2>1, <2>2, <2>3, CommitPair
<1>5. QED
  BY <1>2, <1>3, <1>4

\* Only a login puts another session on disk: a refresh commits a later generation of
\* the session that is there, and nothing when another commit came first (Unchanged).
THEOREM RegressTheorem == Spec => NeverRegress
<1>1. IInv /\ [Next]_vars => [Regresses]_vars
  BY KeepsOrder
<1>2. Spec => [][Regresses]_vars
  BY <1>1, LifecycleInvariant, PTL DEF Spec
<1>3. QED
  BY <1>2, PTL DEF NeverRegress, Regresses

-----------------------------------------------------------------------------
(* SessionChain.  A session has tokens only once its own login was served,  *)
(* the login of a session that is open was not answered only if it failed   *)
(* then and there, and a call has one refresh request at most.              *)
BeforeSend == {"new", "row", "secret", "probe", "lock", "row2", "secret2", "probe2", "send"}

ChainOK(c) ==
    /\ cloud[c].gen <= MaxGen
    /\ cloud[c].state = "none" <=> cloud[c].gen = 0
    /\ cloud[c].gen # 0 => op[c] = "login" /\ pc[c] # "login"
    /\ op[c] \in {"none", "login"} /\ outcome[c] = "failed" => pc[c] = "done"
    /\ pc[c] \in BeforeSend => wire[c].state = "idle"

ChainInv == \A c \in Calls : ChainOK(c)

(* A step that opens, renews and ends no session, and hands out nothing.    *)
Silent(c) ==
    /\ UNCHANGED <<cloud, op>>
    /\ \A d \in Calls \ {c} : pc'[d] = pc[d] /\ outcome'[d] = outcome[d]
    /\ pc[c] # "done" /\ pc'[c] \notin {"new", "login"}
    /\ pc'[c] \in BeforeSend => pc[c] \in BeforeSend
    /\ op[c] \in {"none", "login"} => outcome'[c] # "failed"

LEMMA SilentSteps ==
  ASSUME IInv, ChainInv, NEW c \in Calls, Step(c), ~Login(c), ~Revoke(c)
  PROVE  /\ Silent(c)
         /\ \/ wire' = wire
            \/ /\ wire' = [wire EXCEPT ![c] = [state |-> "sent", pair |-> loc[c].pair]]
               /\ pc[c] = "send" /\ pc'[c] = "wait"
<1> USE DEF Silent, BeforeSend, Goto, End
<1>1. ThreadOK(c) /\ pc \in [Calls -> Steps] /\ outcome \in [Calls -> Outcomes]
  BY Types DEF IInv, Typed, ThreadInv
<1>2. ChainOK(c)
  BY DEF ChainInv
<1>3. CASE LoginApply(c) \/ LoginCommit(c)
  BY <1>1, <1>2, <1>3 DEF LoginApply, LoginCommit, cloudVars, ChainOK
<1>4. CASE ReadRow(c)
  BY <1>1, <1>4 DEF ReadRow, Fail, cloudVars, ThreadOK
<1>5. CASE ReadSecret(c)
  BY <1>1, <1>5 DEF ReadSecret, AfterSecret, Fail, cloudVars, ThreadOK
<1>6. CASE ProbeOk(c) \/ ProbeFails(c)
  BY <1>1, <1>6 DEF ProbeOk, ProbeFails, Fail, cloudVars, ThreadOK
<1>7. CASE ProbeRefused(c)
  BY <1>1, <1>7 DEF ProbeRefused, Fail, cloudVars, ThreadOK
<1>8. CASE Lock(c)
  BY <1>1, <1>8 DEF Lock, Fail, cloudVars, ThreadOK
<1>9. CASE Send(c)
  BY <1>1, <1>9 DEF Send, ThreadOK
<1>10. CASE Receive(c) \/ ReceiveError(c)
  BY <1>1, <1>10 DEF Receive, ReceiveError, Fail, cloudVars, ThreadOK
<1>11. CASE Commit(c) \/ CommitConflict(c)
  BY <1>1, <1>11 DEF Commit, CommitConflict, Fail, cloudVars, ThreadOK
<1>12. CASE DeleteOld(c)
  BY <1>1, <1>2, <1>12 DEF DeleteOld, cloudVars, ThreadOK, ChainOK
<1>13. CASE Ready(c) \/ Mark(c)
  BY <1>1, <1>13 DEF Ready, Mark, cloudVars, ThreadOK
<1>14. CASE Archive(c) \/ DeleteLast(c) \/ Clear(c)
  BY <1>1, <1>14 DEF Archive, DeleteLast, Clear, cloudVars, ThreadOK
<1>15. QED
  BY <1>3, <1>4, <1>5, <1>6, <1>7, <1>8, <1>9, <1>10, <1>11, <1>12, <1>13, <1>14 DEF Step

(* What the chain sees of the cloud, the requests and the logins.           *)
LEMMA SameChain ==
  ASSUME Typed,
         \A s \in Calls : /\ cloud'[s].state = cloud[s].state /\ cloud'[s].gen = cloud[s].gen
                          /\ (wire'[s].state = "answered") = (wire[s].state = "answered")
                          /\ wire[s].state = "answered" => wire'[s].pair = wire[s].pair
                          /\ cloud[s].state # "none" =>
                                (outcome'[s] = "failed") = (outcome[s] = "failed")
  PROVE  UNCHANGED Chain!vars
<1>1. MadePairs' = MadePairs
  <2>1. \A p \in ChainPairs : cloud'[p.session].gen = cloud[p.session].gen
    BY DEF ChainPairs
  <2>2. QED
    BY <2>1 DEF MadePairs, ChainPairs
<1>2. HandedPairs' = HandedPairs
  <2>1. Answered' = Answered
    BY DEF Answered
  <2>2. LoggedIn' = LoggedIn
    BY DEF LoggedIn
  <2>3. \A c \in Answered : wire'[c].pair = wire[c].pair
    BY DEF Answered
  <2> HIDE DEF Answered
  <2>4. {wire'[c].pair : c \in Answered} = {wire[c].pair : c \in Answered}
    BY ONLY <2>3
  <2>5. QED
    BY <2>1, <2>2, <2>4 DEF HandedPairs
<1>3. [s \in Calls |-> LivePair(s)]' = [s \in Calls |-> LivePair(s)]
  <2>1. \A s \in Calls : LivePair(s)' = LivePair(s)
    BY DEF LivePair
  <2>2. QED
    BY <2>1
<1>4. QED
  BY <1>1, <1>2, <1>3 DEF Chain!vars

LEMMA SilentChain ==
  ASSUME IInv, ChainInv, NEW c \in Calls, Silent(c),
         \/ wire' = wire
         \/ /\ wire' = [wire EXCEPT ![c] = [state |-> "sent", pair |-> loc[c].pair]]
            /\ pc[c] = "send" /\ pc'[c] = "wait"
  PROVE  ChainInv' /\ UNCHANGED Chain!vars
<1>1. Typed /\ wire \in [Calls -> Wires]
  BY Types DEF IInv
<1>2. ASSUME NEW d \in Calls PROVE ChainOK(d)'
  <2>1. ChainOK(d) /\ ChainOK(c) /\ cloud'[d] = cloud[d] /\ op'[d] = op[d]
    BY DEF ChainInv, Silent
  <2>2. CASE d # c
    <3>1. pc'[d] = pc[d] /\ outcome'[d] = outcome[d] /\ wire'[d] = wire[d]
      BY <1>1, <2>2 DEF Silent
    <3>2. QED
      BY <2>1, <3>1 DEF ChainOK
  <2>3. CASE d = c
    BY <2>1, <2>3 DEF Silent, ChainOK, BeforeSend
  <2>4. QED
    BY <2>2, <2>3
<1>3. ASSUME NEW d \in Calls
      PROVE  /\ wire'[d].state = "answered" <=> wire[d].state = "answered"
             /\ wire[d].state = "answered" => wire'[d].pair = wire[d].pair
             /\ cloud[d].state # "none" => (outcome'[d] = "failed" <=> outcome[d] = "failed")
  <2>1. ChainOK(c) /\ ChainOK(d)
    BY DEF ChainInv
  <2>2. \/ wire'[d] = wire[d]
        \/ wire[d].state = "idle" /\ wire'[d].state = "sent"
    BY <1>1, <2>1 DEF ChainOK, BeforeSend
  <2>3. cloud[d].state # "none" => (outcome'[d] = "failed" <=> outcome[d] = "failed")
    BY <2>1 DEF Silent, ChainOK
  <2>4. QED
    BY <2>2, <2>3
<1>4. UNCHANGED Chain!vars
  BY <1>1, <1>3, SameChain DEF Silent
<1>5. QED
  BY <1>2, <1>4 DEF ChainInv

(* A call begins, an access token expires, the process is killed.           *)
LEMMA OutsideChain ==
  ASSUME IInv, ChainInv,
         \/ \E c \in Calls, o \in Ops : Begin(c, o)
         \/ \E s \in Calls : Expire(s)
         \/ Crash
         \/ UNCHANGED vars
  PROVE  ChainInv' /\ UNCHANGED Chain!vars
<1>1. /\ Typed /\ cloud \in [Calls -> CloudRows] /\ op \in [Calls -> Ops \cup {"none"}]
      /\ pc \in [Calls -> Steps] /\ outcome \in [Calls -> Outcomes]
      /\ \A d \in Calls : ThreadOK(d) /\ ChainOK(d)
  BY Types DEF IInv, Typed, ThreadInv, ChainInv
<1>2. CASE \E c \in Calls, o \in Ops : Begin(c, o)
  <2>1. PICK c \in Calls, o \in Ops : Begin(c, o)
    BY <1>2
  <2>2. /\ pc[c] = "new" /\ op[c] = "none" /\ cloud[c].gen = 0
        /\ UNCHANGED <<cloud, wire, outcome>>
        /\ \A d \in Calls \ {c} : op'[d] = op[d] /\ pc'[d] = pc[d]
        /\ op'[c] = o /\ pc'[c] \in {"login", "row"}
    BY <1>1, <2>1 DEF Begin, Goto, ThreadOK, ChainOK, cloudVars
  <2>3. wire[c].state = "idle"
    BY <1>1, <2>2 DEF ChainOK, BeforeSend
  <2>5. ChainOK(c)'
    BY <1>1, <2>2, <2>3 DEF ChainOK
  <2>6. \A d \in Calls \ {c} : ChainOK(d)'
    BY <1>1, <2>2 DEF ChainOK
  <2>7. QED
    BY <1>1, <2>2, <2>5, <2>6, SameChain DEF ChainInv
<1>3. CASE \E s \in Calls : Expire(s)
  <2>1. PICK s \in Calls : Expire(s)
    BY <1>3
  <2>2. /\ UNCHANGED <<wire, op, pc, outcome>>
        /\ \A d \in Calls : cloud'[d].state = cloud[d].state /\ cloud'[d].gen = cloud[d].gen
    BY <1>1, <2>1 DEF Expire, threads, CloudRows
  <2>3. \A d \in Calls : ChainOK(d)'
    BY <1>1, <2>2 DEF ChainOK
  <2>4. QED
    BY <1>1, <2>2, <2>3, SameChain DEF ChainInv
<1>4. CASE Crash
  <2>1. /\ UNCHANGED <<cloud, wire, op>>
        /\ \A d \in Calls :
              /\ pc'[d] = IF pc[d] = "new" THEN "new" ELSE "done"
              /\ outcome'[d] = IF pc[d] \in {"new", "done"} THEN outcome[d] ELSE "crashed"
    BY <1>4 DEF Crash, cloudVars
  <2>2. ASSUME NEW d \in Calls
        PROVE  /\ ChainOK(d)'
               /\ cloud[d].state # "none" => (outcome'[d] = "failed" <=> outcome[d] = "failed")
    <3>1. ThreadOK(d) /\ ChainOK(d)
      BY <1>1
    <3>2. QED
      BY <2>1, <3>1 DEF ChainOK, BeforeSend
  <2>3. QED
    BY <1>1, <2>1, <2>2, SameChain DEF ChainInv
<1>5. CASE UNCHANGED vars
  <2>1. UNCHANGED <<cloud, wire, op, pc, outcome>>
    BY <1>5 DEF vars, cloudVars, threads
  <2>2. \A d \in Calls : ChainOK(d)'
    BY <1>1, <2>1 DEF ChainOK
  <2>3. QED
    BY <1>1, <2>1, <2>2, SameChain DEF ChainInv
<1>6. QED
  BY <1>2, <1>3, <1>4, <1>5

(* What a live session shows of itself.                                     *)
LEMMA LiveShown ==
  ASSUME Typed, NEW s \in Calls
  PROVE  cloud[s].state = "live" =>
            /\ LivePair(s) = [session |-> s, gen |-> cloud[s].gen]
            /\ LivePair(s) # NoPair
<1>1. cloud[s].gen \in Nat
  BY Types DEF CloudRows
<1>2. [session |-> s, gen |-> cloud[s].gen] \in Pairs
  BY <1>1 DEF Pairs
<1>3. QED
  BY <1>2, LifecycleAssumption DEF LivePair

(* A login opens the session of its name; the answer may be lost.           *)
LEMMA LoginOpens ==
  ASSUME IInv, ChainInv, NEW c \in Calls, Login(c)
  PROVE  ChainInv' /\ Chain!Next
<1> DEFINE p == [session |-> c, gen |-> 1]
<1>1. /\ Typed /\ cloud \in [Calls -> CloudRows] /\ op \in [Calls -> Ops \cup {"none"}]
      /\ pc \in [Calls -> Steps] /\ outcome \in [Calls -> Outcomes]
      /\ \A d \in Calls : ThreadOK(d) /\ ChainOK(d)
  BY Types DEF IInv, Typed, ThreadInv, ChainInv
<1>2. /\ pc[c] = "login" /\ op[c] = "login" /\ cloud[c].gen = 0
      /\ cloud[c].state = "none" /\ outcome[c] # "failed"
  BY <1>1 DEF Login, ThreadOK, ChainOK
<1>3. /\ cloud' = [cloud EXCEPT ![c] = [state |-> "live", gen |-> 1, expired |-> FALSE]]
      /\ UNCHANGED <<wire, op>>
      /\ \A d \in Calls \ {c} : pc'[d] = pc[d] /\ outcome'[d] = outcome[d]
      /\ \/ pc'[c] = "login_apply" /\ outcome'[c] = outcome[c]
         \/ pc'[c] = "done" /\ outcome'[c] = "failed"
  BY <1>1 DEF Login, Goto, End
<1>4. /\ cloud'[c].state = "live" /\ cloud'[c].gen = 1
      /\ \A d \in Calls \ {c} : cloud'[d] = cloud[d]
  BY <1>1, <1>3
<1>5. p \in ChainPairs
  BY LifecycleAssumption DEF ChainPairs
<1>6. ChainInv'
  <2>1. ChainOK(c)'
    BY <1>1, <1>2, <1>3, <1>4, LifecycleAssumption DEF ChainOK, BeforeSend
  <2>2. \A d \in Calls \ {c} : ChainOK(d)'
    BY <1>1, <1>3, <1>4 DEF ChainOK
  <2>3. QED
    BY <2>1, <2>2 DEF ChainInv
<1>7. ~Chain!Opened(c)
  BY <1>2 DEF Chain!Opened, MadePairs, ChainPairs
<1>8. MadePairs' = MadePairs \cup {p}
  <2>1. \A q \in ChainPairs : /\ q.session = c => (q.gen <= 1 <=> q = p)
                              /\ q.session \in Calls /\ q.gen \in Nat \ {0}
    BY LifecycleAssumption DEF ChainPairs
  <2>2. \A q \in ChainPairs : q \in MadePairs' <=> q \in MadePairs \cup {p}
    BY <1>2, <1>4, <2>1 DEF MadePairs
  <2>3. QED
    BY <1>5, <2>2 DEF MadePairs
<1>9. [s \in Calls |-> LivePair(s)]' = [[s \in Calls |-> LivePair(s)] EXCEPT ![c] = p]
  BY <1>4 DEF LivePair
<1>10. HandedPairs' \in {HandedPairs, HandedPairs \cup {p}}
  <2>1. Answered' = Answered /\ {wire'[d].pair : d \in Answered} = {wire[d].pair : d \in Answered}
    BY <1>3 DEF Answered
  <2>2. LoggedIn' = LoggedIn \/ LoggedIn' = LoggedIn \cup {c}
    BY <1>2, <1>3, <1>4 DEF LoggedIn
  <2>3. QED
    BY <2>1, <2>2 DEF HandedPairs
<1>11. Chain!Open(c, p)
  BY <1>7, <1>8, <1>9, <1>10 DEF Chain!Open, Chain!MayHand
<1>12. QED
  BY <1>5, <1>6, <1>11 DEF Chain!Next

(* A refresh the cloud serves renews the session, hands out the live pair   *)
(* again, or hands out nothing.                                             *)
LEMMA RefreshRenews ==
  ASSUME IInv, ChainInv, NEW c \in Calls, CloudRefresh(c)
  PROVE  ChainInv' /\ (Chain!Next \/ UNCHANGED Chain!vars)
<1> DEFINE p == wire[c].pair
           s == p.session
           key == <<RefreshKey(c), p>>
<1>1. /\ Typed /\ cloud \in [Calls -> CloudRows] /\ wire \in [Calls -> Wires]
      /\ \A d \in Calls : ThreadOK(d) /\ ChainOK(d)
  BY Types DEF IInv, Typed, ThreadInv, ChainInv
<1>2. /\ wire[c].state = "sent" /\ p \in Pairs /\ pc[c] \notin BeforeSend
      /\ UNCHANGED <<op, pc, outcome>>
  BY <1>1 DEF CloudRefresh, ThreadOK, ChainOK, threads
<1>3. s \in Calls /\ p.gen \in Nat /\ cloud[s] \in CloudRows /\ cloud[s].gen \in Nat
  BY <1>1, <1>2 DEF Pairs, CloudRows
<1>4. ASSUME NEW w, wire' = [wire EXCEPT ![c] = w], w.state # "sent"
      PROVE  /\ wire'[c] = w
             /\ \A d \in Calls \ {c} : wire'[d] = wire[d]
             /\ w.state = "answered" => /\ Answered' = Answered \cup {c}
                                        /\ {wire'[d].pair : d \in Answered'}
                                             = {wire[d].pair : d \in Answered} \cup {w.pair}
             /\ w.state # "answered" => /\ Answered' = Answered
                                        /\ {wire'[d].pair : d \in Answered'}
                                             = {wire[d].pair : d \in Answered}
  BY <1>1, <1>2, <1>4 DEF Answered
<1>5. CASE /\ Rotates(p) /\ p.gen < MaxGen
           /\ cloud' = [cloud EXCEPT ![s] = [@ EXCEPT !.gen = cloud[s].gen + 1, !.expired = FALSE]]
           /\ wire' = [wire EXCEPT ![c] = [state |-> "answered",
                                           pair |-> [p EXCEPT !.gen = cloud[s].gen + 1]]]
  <2> DEFINE q == [session |-> s, gen |-> cloud[s].gen + 1]
             w == [state |-> "answered", pair |-> q]
  <2>1. /\ cloud[s].state = "live" /\ p.gen = cloud[s].gen
        /\ [p EXCEPT !.gen = cloud[s].gen + 1] = q
    BY <1>2, <1>3, <1>5 DEF Rotates, Live, Current, Pairs
  <2>2. q \in ChainPairs
    BY <1>3, <1>5, <2>1, LifecycleAssumption, SMTT(30) DEF ChainPairs
  <2>3. /\ cloud'[s].state = "live" /\ cloud'[s].gen = cloud[s].gen + 1
        /\ \A d \in Calls \ {s} : cloud'[d] = cloud[d]
    BY <1>1, <1>3, <1>5, <2>1 DEF CloudRows
  <2>4. wire' = [wire EXCEPT ![c] = w] /\ w.state = "answered" /\ w.pair = q
    BY <1>5, <2>1
  <2> HIDE DEF w
  <2>5. /\ \A d \in Calls \ {c} : wire'[d] = wire[d]
        /\ {wire'[d].pair : d \in Answered'} = {wire[d].pair : d \in Answered} \cup {q}
    BY <1>4, <2>4
  <2>6. ChainInv'
    <3>1. ASSUME NEW d \in Calls PROVE ChainOK(d)'
      <4>1. ChainOK(d)
        BY <1>1
      <4>2. CASE d = s
        <5>1. pc[d] \in BeforeSend => wire'[d].state = "idle"
          BY <1>2, <2>5, <4>1 DEF ChainOK
        <5>2. p.gen < MaxGen /\ MaxGen \in Nat
          BY <1>5, LifecycleAssumption
        <5>3. cloud'[d].gen \in Nat /\ cloud'[d].gen # 0 /\ cloud'[d].gen <= MaxGen
          BY <1>3, <2>1, <2>3, <4>2, <5>2
        <5>4. op[d] = "login" /\ pc[d] # "login"
              /\ (outcome[d] = "failed" => pc[d] = "done")
          BY <1>3, <2>1, <4>1, <4>2 DEF ChainOK
        <5>5. QED
          BY <1>2, <2>3, <4>2, <5>1, <5>3, <5>4 DEF ChainOK
      <4>3. CASE d # s
        BY <1>2, <2>3, <2>5, <4>1, <4>3 DEF ChainOK
      <4>4. QED
        BY <4>2, <4>3
    <3>2. QED
      BY <3>1 DEF ChainInv
  <2>7. MadePairs' = MadePairs \cup {q}
    <3>1. \A r \in ChainPairs :
             /\ r.session = s => (r.gen <= cloud[s].gen + 1 <=> r.gen <= cloud[s].gen \/ r = q)
             /\ r.session \in Calls
      BY <1>3 DEF ChainPairs
    <3>2. \A r \in ChainPairs : r \in MadePairs' <=> r \in MadePairs \cup {q}
      BY <2>3, <3>1 DEF MadePairs
    <3>3. QED
      BY <2>2, <3>2 DEF MadePairs
  <2>8. q \notin MadePairs
    BY <1>3 DEF MadePairs
  <2>9. [t \in Calls |-> LivePair(t)]' = [[t \in Calls |-> LivePair(t)] EXCEPT ![s] = q]
    BY <2>3 DEF LivePair
  <2>10. HandedPairs' = HandedPairs \cup {q}
    <3>1. LoggedIn' = LoggedIn
      BY <1>2, <2>1, <2>3 DEF LoggedIn
    <3>2. QED
      BY <2>5, <3>1 DEF HandedPairs
  <2>11. Chain!Renew(s, q)
    BY <1>1, <1>3, <2>1, <2>7, <2>8, <2>9, <2>10, LiveShown DEF Chain!Renew, Chain!MayHand
  <2>12. QED
    BY <1>3, <2>2, <2>6, <2>11 DEF Chain!Next
<1>6. CASE /\ UNCHANGED cloud
           /\ \E state \in {"unavailable", "refused", "answered"} : \E q :
                 /\ wire' = [wire EXCEPT ![c] = [state |-> state, pair |-> q]]
                 /\ state = "answered" => Live(s) /\ q = Current(p)
  <2>0. PICK state \in {"unavailable", "refused", "answered"} : \E q :
                 /\ wire' = [wire EXCEPT ![c] = [state |-> state, pair |-> q]]
                 /\ state = "answered" => Live(s) /\ q = Current(p)
    BY <1>6
  <2>1. PICK q :
                 /\ wire' = [wire EXCEPT ![c] = [state |-> state, pair |-> q]]
                 /\ state = "answered" => Live(s) /\ q = Current(p)
    BY <2>0
  <2> DEFINE w == [state |-> state, pair |-> q]
  <2>2. wire' = [wire EXCEPT ![c] = w] /\ w.state = state /\ w.pair = q
    BY <2>1
  <2> HIDE DEF w
  <2>3. /\ \A d \in Calls \ {c} : wire'[d] = wire[d]
        /\ state = "answered" => {wire'[d].pair : d \in Answered'}
                                   = {wire[d].pair : d \in Answered} \cup {q}
        /\ state # "answered" => {wire'[d].pair : d \in Answered'}
                                   = {wire[d].pair : d \in Answered}
    BY <1>4, <2>1, <2>2
  <2>4. ChainInv'
    <3>1. \A d \in Calls : ChainOK(d)'
      BY <1>1, <1>2, <1>6, <2>3 DEF ChainOK
    <3>2. QED
      BY <3>1 DEF ChainInv
  <2>5. LoggedIn' = LoggedIn /\ MadePairs' = MadePairs
        /\ UNCHANGED [t \in Calls |-> LivePair(t)]
    BY <1>2, <1>6 DEF LoggedIn, MadePairs, LivePair
  <2>6. CASE state = "answered"
    <3>1. LivePair(s) = q /\ LivePair(s) # NoPair
      BY <1>1, <1>3, <2>1, <2>6, LiveShown DEF Live, Current
    <3>2. HandedPairs' = HandedPairs \cup {q}
      BY <2>3, <2>5, <2>6 DEF HandedPairs
    <3>3. Chain!Hand(s)
      BY <1>3, <2>5, <3>1, <3>2 DEF Chain!Hand
    <3>4. QED
      BY <1>3, <2>4, <3>3 DEF Chain!Next
  <2>7. CASE state # "answered"
    <3>1. HandedPairs' = HandedPairs
      BY <2>3, <2>5, <2>7 DEF HandedPairs
    <3>2. QED
      BY <2>4, <2>5, <3>1 DEF Chain!vars
  <2>8. QED
    BY <2>6, <2>7
<1>7. \/ Rotates(p) /\ p.gen < MaxGen /\ key \notin consumed
      \/ key \in consumed
      \/ key \notin consumed /\ ~Rotates(p)
  BY DEF CloudRefresh
<1>8. QED
  BY <1>5, <1>6 DEF CloudRefresh

(* A logout ends the session whose access token it presents, if any.        *)
LEMMA RevokeEnds ==
  ASSUME IInv, ChainInv, NEW c \in Calls, Revoke(c)
  PROVE  ChainInv' /\ Chain!Next
<1> DEFINE s == loc[c].pair.session
           S == IF Accepts(loc[c].pair) THEN {s} ELSE {}
<1>1. /\ Typed /\ cloud \in [Calls -> CloudRows] /\ pc \in [Calls -> Steps]
      /\ outcome \in [Calls -> Outcomes]
      /\ \A d \in Calls : ThreadOK(d) /\ ChainOK(d)
  BY Types DEF IInv, Typed, ThreadInv, ChainInv
<1>2. /\ pc[c] = "revoke" /\ op[c] = "logout" /\ s \in Calls
      /\ UNCHANGED <<wire, op>>
      /\ pc'[c] \in {"archive", "mark"}
      /\ \A d \in Calls \ {c} : pc'[d] = pc[d] /\ outcome'[d] = outcome[d]
  BY <1>1 DEF Revoke, ThreadOK, Goto, Pairs
<1>3. cloud[c].gen = 0 /\ cloud[c].state = "none"
  BY <1>1, <1>2 DEF ChainOK
<1>4. \A d \in Calls :
         /\ cloud'[d].gen = cloud[d].gen
         /\ d \in S => cloud[d].state = "live" /\ cloud'[d].state = "revoked"
         /\ d \notin S => cloud'[d].state = cloud[d].state
  <2>1. CASE Accepts(loc[c].pair)
    <3>1. cloud' = [cloud EXCEPT ![s] = [cloud[s] EXCEPT !.state = "revoked"]]
      BY <2>1 DEF Revoke
    <3>2. cloud[s].state = "live" /\ S = {s}
      BY <2>1 DEF Accepts, Live
    <3>3. QED
      BY <1>1, <1>2, <3>1, <3>2 DEF CloudRows
  <2>2. CASE ~Accepts(loc[c].pair)
    BY <2>2 DEF Revoke
  <2>3. QED
    BY <2>1, <2>2
<1>5. S \in SUBSET Calls
  BY <1>2
<1> HIDE DEF S
<1>6. ChainInv'
  <2>1. ASSUME NEW d \in Calls PROVE ChainOK(d)'
    <3>1. ChainOK(d) /\ (cloud'[d].state = "none" <=> cloud[d].state = "none")
      BY <1>1, <1>4
    <3>2. CASE d = c
      BY <1>2, <1>4, <3>1, <3>2 DEF ChainOK, BeforeSend
    <3>3. CASE d # c
      BY <1>2, <1>4, <3>1, <3>3 DEF ChainOK
    <3>4. QED
      BY <3>2, <3>3
  <2>2. QED
    BY <2>1 DEF ChainInv
<1>7. MadePairs' = MadePairs
  BY <1>4 DEF MadePairs, ChainPairs
<1>8. HandedPairs' = HandedPairs
  <2>1. Answered' = Answered /\ {wire'[d].pair : d \in Answered} = {wire[d].pair : d \in Answered}
    BY <1>2 DEF Answered
  <2>2. \A d \in Calls : /\ cloud'[d].state # "none" <=> cloud[d].state # "none"
                         /\ cloud[d].state # "none" => outcome'[d] = outcome[d]
    BY <1>2, <1>3, <1>4
  <2>3. LoggedIn' = LoggedIn
    BY <2>2 DEF LoggedIn
  <2>4. QED
    BY <2>1, <2>3 DEF HandedPairs
<1>9. [t \in Calls |-> LivePair(t)]'
        = [t \in Calls |-> IF t \in S THEN NoPair ELSE [u \in Calls |-> LivePair(u)][t]]
  BY <1>4 DEF LivePair
<1>10. Chain!End(S)
  BY <1>7, <1>8, <1>9 DEF Chain!End
<1>11. QED
  BY <1>5, <1>6, <1>10 DEF Chain!Next

(* Initially no session is open.                                            *)
LEMMA InitChain == Init => ChainInv /\ Chain!Init
<1> SUFFICES ASSUME Init PROVE ChainInv /\ Chain!Init
  OBVIOUS
<1>1. ASSUME NEW c \in Calls
      PROVE  /\ cloud[c].state = "none" /\ cloud[c].gen = 0 /\ wire[c].state = "idle"
             /\ op[c] = "none" /\ pc[c] = "new" /\ outcome[c] = "pending"
  <2>1. /\ cloud[c] = [state |-> "none", gen |-> 0, expired |-> FALSE]
        /\ wire[c] = [state |-> "idle", pair |-> NoPair]
    BY DEF Init
  <2>2. op[c] = "none" /\ pc[c] = "new" /\ outcome[c] = "pending"
    BY DEF Init
  <2>3. QED
    BY <2>1, <2>2
<1>2. ChainInv
  <2>1. 0 <= MaxGen
    BY LifecycleAssumption
  <2>2. ASSUME NEW c \in Calls PROVE ChainOK(c)
    BY <1>1, <2>1 DEF ChainOK
  <2>3. QED
    BY Zenon, <2>2 DEF ChainInv
<1>3. MadePairs = {}
  BY <1>1 DEF MadePairs, ChainPairs
<1>4. Answered = {} /\ LoggedIn = {}
  BY <1>1 DEF Answered, LoggedIn
<1>5. HandedPairs = {}
  BY <1>4 DEF HandedPairs
<1>6. \A s \in Calls : LivePair(s) = NoPair
  BY <1>1 DEF LivePair
<1>7. QED
  BY <1>2, <1>3, <1>5, <1>6 DEF Chain!Init

LEMMA NextChain ==
  IInv /\ ChainInv /\ [Next]_vars => ChainInv' /\ [Chain!Next]_(Chain!vars)
<1> SUFFICES ASSUME IInv, ChainInv, [Next]_vars
             PROVE  ChainInv' /\ (Chain!Next \/ UNCHANGED Chain!vars)
  OBVIOUS
<1>1. CASE \/ \E c \in Calls, o \in Ops : Begin(c, o)
           \/ \E s \in Calls : Expire(s)
           \/ Crash
           \/ UNCHANGED vars
  BY <1>1, OutsideChain
<1>2. ASSUME NEW c \in Calls, Step(c)
      PROVE  ChainInv' /\ (Chain!Next \/ UNCHANGED Chain!vars)
  <2>1. CASE Login(c)
    BY <2>1, LoginOpens
  <2>2. CASE Revoke(c)
    BY <2>2, RevokeEnds
  <2>3. CASE ~Login(c) /\ ~Revoke(c)
    BY <1>2, <2>3, SilentSteps, SilentChain
  <2>4. QED
    BY <2>1, <2>2, <2>3
<1>3. ASSUME NEW c \in Calls, CloudRefresh(c)
      PROVE  ChainInv' /\ (Chain!Next \/ UNCHANGED Chain!vars)
  BY <1>3, RefreshRenews
<1>4. QED
  BY <1>1, <1>2, <1>3 DEF Next

\* The desktop's calls see the same chains of token pairs as the cloud keeps: a login or a
\* refresh is answered with the pair that is live when the cloud answers, also when the
\* refresh is replayed, and no pair comes back (refresh, logout, login of repository.py).
THEOREM ChainTheorem == Spec => ImplementsChain
<1>1. Init => Chain!Init
  BY InitChain
<1>2. Init => IInv /\ ChainInv
  BY InitIInv, InitChain
<1>3. IInv /\ ChainInv /\ [Next]_vars => IInv' /\ ChainInv'
  BY NextIInv, NextChain
<1>4. IInv /\ ChainInv /\ [Next]_vars => [Chain!Next]_(Chain!vars)
  BY NextChain
<1>5. QED
  BY <1>1, <1>2, <1>3, <1>4, PTL DEF Spec, ImplementsChain, Chain!Spec
=============================================================================
