--------------------------- MODULE SessionLifecycle ---------------------------
(***************************************************************************)
(* backend/app/runtime.py: the life of the desktop's session with the      *)
(* organization cloud.  One workspace (sandbox) is signed in; requests of  *)
(* the local API work on it in parallel, each on a thread of its own:      *)
(*   login     sign in and apply the session on disk                       *)
(*   connected a cloud request of some panel, refreshing on 401            *)
(*   restore   verify the session again, at startup or on demand           *)
(*   switch    select the workspace, which verifies it too                 *)
(*   logout    revoke the session and clear it from disk                   *)
(*                                                                         *)
(* The session's tokens are in the secret vault under a fresh reference;   *)
(* the row local_session_snapshot names the reference in use.  The cloud   *)
(* is what CloudSession shows of it: a refresh token rotates once, and the *)
(* call that rotated it may be replayed under its key.  A pair of tokens   *)
(* is named by its session, which has the name of the login that opened    *)
(* it, and its generation.                                                 *)
(***************************************************************************)
EXTENDS Integers

CONSTANTS Calls,        \* requests of the local API
          Ops,          \* operations exercised: a subset of AllOps
          NoCall, NoPair,
          MaxGen,       \* bound: generations of a session's tokens
          MaxFaults     \* bound: lost messages, timeouts, failing secret stores
                        \* and crashes of the local process

AllOps == {"login", "connected", "restore", "switch", "logout"}
Pairs == [session : Calls, gen : Nat]

ASSUME LifecycleAssumption ==
    /\ Ops \subseteq AllOps
    /\ NoCall \notin Calls /\ NoPair \notin Pairs
    /\ MaxGen \in Nat \ {0} /\ MaxFaults \in Nat

VARIABLES
    cloud,     \* session |-> the cloud's row of it
    consumed,  \* <<key, pair>>: refreshes the cloud has committed
    wire,      \* call |-> its refresh request and the reply to it
    vault,     \* secret store: reference |-> pair; a reference has its call's name
    snap,      \* the local_session_snapshot row
    status,    \* runtime_status of the sandbox row, "none" before it exists
    lock,      \* holder of the object lock gc01.local.session.refresh
    op, pc,    \* call |-> its operation, where its thread is
    loc,       \* call |-> its local variables
    outcome,   \* call |-> how it ended
    faults

cloudVars == <<cloud, consumed, wire>>
disk == <<vault, snap, status>>
threads == <<op, pc, loc, outcome>>
vars == <<cloudVars, disk, lock, threads, faults>>

Statuses == {"none", "ready", "sync_degraded", "needs_login"}

Locals == [ref : Calls \cup {NoCall}, version : Nat,  \* the snapshot as last loaded
           pair : Pairs \cup {NoPair},                \* the tokens in hand
           seen : Calls \cup {NoCall}, seenVersion : Nat,  \* the snapshot loaded first
           mark : Statuses]                           \* status to set

Steps == {"new", "login", "login_apply", "login_commit", "row", "secret", "probe",
          "lock", "row2", "secret2", "probe2", "send", "wait", "commit", "delete_old",
          "probe3", "ready", "mark", "revoke", "archive", "delete_last", "clear", "done"}

TypeOK ==
    /\ cloud \in [Calls -> [state : {"none", "live", "revoked"}, gen : Nat, expired : BOOLEAN]]
    /\ consumed \subseteq ({"connected", "restore"} \cup Calls) \X Pairs
    /\ wire \in [Calls -> [state : {"idle", "sent", "answered", "refused", "unavailable"},
                           pair : Pairs \cup {NoPair}]]
    /\ vault \in [Calls -> Pairs \cup {NoPair}]
    /\ snap \in [ref : Calls \cup {NoCall}, version : Nat, life : {"active", "archived"}]
    /\ status \in Statuses
    /\ (status = "none") = (snap.version = 0)   \* both rows come with the first login
    /\ lock \in Calls \cup {NoCall}
    /\ op \in [Calls -> Ops \cup {"none"}]
    /\ pc \in [Calls -> Steps]
    /\ loc \in [Calls -> Locals]
    /\ outcome \in [Calls -> {"pending", "ok", "refused", "failed", "missing",
                              "conflict", "store_failed", "crashed"}]
    /\ faults \in Nat

Init ==
    /\ cloud = [c \in Calls |-> [state |-> "none", gen |-> 0, expired |-> FALSE]]
    /\ consumed = {}
    /\ wire = [c \in Calls |-> [state |-> "idle", pair |-> NoPair]]
    /\ vault = [c \in Calls |-> NoPair]
    /\ snap = [ref |-> NoCall, version |-> 0, life |-> "archived"]
    /\ status = "none"
    /\ lock = NoCall
    /\ op = [c \in Calls |-> "none"]
    /\ pc = [c \in Calls |-> "new"]
    /\ loc = [c \in Calls |-> [ref |-> NoCall, version |-> 0, pair |-> NoPair,
                               seen |-> NoCall, seenVersion |-> 0, mark |-> "none"]]
    /\ outcome = [c \in Calls |-> "pending"]
    /\ faults = 0

-----------------------------------------------------------------------------
(* The cloud, as CloudSession has it.                                       *)
(* Mutant of Live: a revoked session is taken for a live one.               *)
LiveIfOpened(s) == cloud[s].state # "none"

Live(s) == cloud[s].state = "live"
Current(p) == [session |-> p.session, gen |-> cloud[p.session].gen]
Accepts(p) == Live(p.session) /\ p = Current(p) /\ ~cloud[p.session].expired

-----------------------------------------------------------------------------
(* Threads.                                                                 *)
Goto(c, step) == pc' = [pc EXCEPT ![c] = step]

End(c, how) ==
    /\ pc' = [pc EXCEPT ![c] = "done"]
    /\ outcome' = [outcome EXCEPT ![c] = how]

(* Every way out of the with statement releases the object lock.            *)
Release(c) == lock' = IF lock = c THEN NoCall ELSE lock

(* An error ends the call; restore and switch record it in the workspace's  *)
(* status first, switch only what the cloud answered.                       *)
Fail(c, how, mark) ==
    IF op[c] = "restore" \/ (op[c] = "switch" /\ how \in {"refused", "failed"})
    THEN /\ loc' = [loc EXCEPT ![c].mark = mark]
         /\ outcome' = [outcome EXCEPT ![c] = how]
         /\ Goto(c, "mark")
    ELSE End(c, how) /\ UNCHANGED loc

Fault == faults < MaxFaults /\ faults' = faults + 1

(* An UPDATE of the active snapshot row.                                    *)
Bump(s) == IF s.life = "active" THEN [s EXCEPT !.version = @ + 1] ELSE s

-----------------------------------------------------------------------------
Begin(c, o) ==
    /\ pc[c] = "new"
    /\ CASE o = "login" -> TRUE
         [] o = "connected" -> status \in {"ready", "sync_degraded"}
         [] o \in {"restore", "switch"} -> status # "none"
         [] o = "logout" -> status \notin {"none", "needs_login"}
    /\ op' = [op EXCEPT ![c] = o]
    /\ Goto(c, IF o = "login" THEN "login" ELSE "row")
    /\ UNCHANGED <<cloudVars, disk, lock, loc, outcome, faults>>

(* login: the cloud opens a session; its answer may be lost.                *)
Login(c) ==
    /\ pc[c] = "login"
    /\ cloud' = [cloud EXCEPT ![c] = [state |-> "live", gen |-> 1, expired |-> FALSE]]
    /\ \/ Goto(c, "login_apply") /\ UNCHANGED <<outcome, faults>>
       \/ Fault /\ End(c, "failed")
    /\ UNCHANGED <<consumed, wire, disk, lock, op, loc>>

(* _apply_login: remember the reference in use, store the new secret.       *)
LoginApply(c) ==
    /\ pc[c] = "login_apply"
    /\ loc' = [loc EXCEPT ![c].ref = snap.ref]
    /\ \/ /\ vault' = [vault EXCEPT ![c] = [session |-> c, gen |-> 1]]
          /\ Goto(c, "login_commit") /\ UNCHANGED <<outcome, faults>>
       \/ Fault /\ End(c, "store_failed") /\ UNCHANGED vault
    /\ UNCHANGED <<cloudVars, snap, status, lock, op>>

(* Mutant of LoginCommit: the snapshot row keeps its version.               *)
LoginCommitKeepsVersion(c) ==
    /\ pc[c] = "login_commit"
    /\ snap' = [ref |-> c, version |-> snap.version, life |-> "active"]
    /\ status' = "ready"
    /\ IF loc[c].ref = NoCall THEN End(c, "ok") ELSE Goto(c, "delete_old") /\ UNCHANGED outcome
    /\ UNCHANGED <<cloudVars, vault, lock, op, loc, faults>>

LoginCommit(c) ==
    /\ pc[c] = "login_commit"
    /\ snap' = [ref |-> c, version |-> snap.version + 1, life |-> "active"]
    /\ status' = "ready"
    /\ IF loc[c].ref = NoCall THEN End(c, "ok") ELSE Goto(c, "delete_old") /\ UNCHANGED outcome
    /\ UNCHANGED <<cloudVars, vault, lock, op, loc, faults>>

-----------------------------------------------------------------------------
(* _load_session_bundle: the row, then the secret it names.                 *)
ReadRow(c) ==
    /\ pc[c] \in {"row", "row2"}
    /\ \/ /\ snap.ref # NoCall
          /\ loc' = [loc EXCEPT ![c] =
                IF pc[c] = "row"
                THEN [@ EXCEPT !.ref = snap.ref, !.version = snap.version,
                               !.seen = snap.ref, !.seenVersion = snap.version]
                ELSE [@ EXCEPT !.ref = snap.ref, !.version = snap.version]]
          /\ Goto(c, IF pc[c] = "row" THEN "secret" ELSE "secret2")
          /\ UNCHANGED <<lock, outcome>>
       \/ snap.ref = NoCall /\ Fail(c, "missing", "needs_login") /\ Release(c)
    /\ UNCHANGED <<cloudVars, disk, op, faults>>

(* After waiting for the lock a connected request tries the tokens again if *)
(* someone has refreshed them; restore always does.                         *)
AfterSecret(c) ==
    CASE pc[c] = "secret" -> IF op[c] = "logout" THEN "revoke" ELSE "probe"
      [] pc[c] = "secret2" ->
            IF op[c] = "connected" /\ loc[c].ref = loc[c].seen
                                   /\ loc[c].version = loc[c].seenVersion
            THEN "send" ELSE "probe2"

ReadSecret(c) ==
    /\ pc[c] \in {"secret", "secret2"}
    /\ \/ /\ vault[loc[c].ref] # NoPair
          /\ loc' = [loc EXCEPT ![c].pair = vault[loc[c].ref]]
          /\ Goto(c, AfterSecret(c))
          /\ UNCHANGED <<lock, outcome>>
       \/ vault[loc[c].ref] = NoPair /\ Fail(c, "missing", "needs_login") /\ Release(c)
    /\ UNCHANGED <<cloudVars, disk, op, faults>>

-----------------------------------------------------------------------------
(* A request with the access token: the panel's own, or current_session.    *)
ProbeOk(c) ==
    /\ pc[c] \in {"probe", "probe2", "probe3"}
    /\ Accepts(loc[c].pair)
    /\ IF op[c] = "connected" THEN End(c, "ok") ELSE Goto(c, "ready") /\ UNCHANGED outcome
    /\ Release(c)
    /\ UNCHANGED <<cloudVars, disk, op, loc, faults>>

ProbeRefused(c) ==
    /\ pc[c] \in {"probe", "probe2", "probe3"}
    /\ ~Accepts(loc[c].pair)
    /\ CASE pc[c] = "probe" -> /\ Goto(c, IF op[c] = "switch" THEN "send" ELSE "lock")
                               /\ UNCHANGED <<lock, loc, outcome>>
         [] pc[c] = "probe2" -> Goto(c, "send") /\ UNCHANGED <<lock, loc, outcome>>
         [] pc[c] = "probe3" -> Fail(c, "refused", "needs_login") /\ Release(c)
    /\ UNCHANGED <<cloudVars, disk, op, faults>>

ProbeFails(c) ==
    /\ pc[c] \in {"probe", "probe2", "probe3"}
    /\ Fault
    /\ Fail(c, "failed", "sync_degraded") /\ Release(c)
    /\ UNCHANGED <<cloudVars, disk, op>>

(* local_storage_object_lock.  The UI's requests carry a captured context;  *)
(* restore captures one now and is refused when the workspace is not ready. *)
Lock(c) ==
    /\ pc[c] = "lock"
    /\ \/ /\ op[c] = "restore" => status \in {"ready", "sync_degraded"}
          /\ lock = NoCall
          /\ lock' = c
          /\ Goto(c, "row2")
          /\ UNCHANGED <<loc, outcome>>
       \/ /\ op[c] = "restore" /\ status = "needs_login"
          /\ Fail(c, "conflict", "sync_degraded")
          /\ UNCHANGED lock
    /\ UNCHANGED <<cloudVars, disk, op, faults>>

-----------------------------------------------------------------------------
(* _refresh_local_session.                                                  *)

(* The idempotency key of each path; the token it refreshes is part of it,  *)
(* except that a switch has one of its own.                                 *)
RefreshKey(c) == IF op[c] = "switch" THEN c ELSE op[c]

Send(c) ==
    /\ pc[c] = "send"
    /\ wire' = [wire EXCEPT ![c] = [state |-> "sent", pair |-> loc[c].pair]]
    /\ Goto(c, "wait")
    /\ UNCHANGED <<cloud, consumed, disk, lock, op, loc, outcome, faults>>

(* Mutant of Rotates: a consumed refresh token is accepted again.           *)
RotatesAnyToken(p) == Live(p.session)

Rotates(p) == Live(p.session) /\ p = Current(p)

(* The cloud serves the request whenever it arrives, also when nobody waits *)
(* for the reply any more.                                                  *)
CloudRefresh(c) ==
    LET p == wire[c].pair
        key == <<RefreshKey(c), p>>
        Reply(state, q) == wire' = [wire EXCEPT ![c] = [state |-> state, pair |-> q]]
    IN /\ wire[c].state = "sent"
       /\ \/ /\ key \notin consumed /\ Rotates(p) /\ p.gen < MaxGen
             /\ cloud' = [cloud EXCEPT ![p.session] =
                             [@ EXCEPT !.gen = cloud[p.session].gen + 1, !.expired = FALSE]]
             /\ consumed' = consumed \cup {key}
             /\ Reply("answered", [p EXCEPT !.gen = cloud[p.session].gen + 1])
          \/ /\ key \in consumed
             /\ Reply(IF ~Live(p.session) THEN "unavailable"
                      ELSE IF cloud[p.session].expired THEN "refused" ELSE "answered",
                      Current(p))
             /\ UNCHANGED <<cloud, consumed>>
          \/ /\ key \notin consumed /\ ~Rotates(p)
             /\ Reply("refused", NoPair)
             /\ UNCHANGED <<cloud, consumed>>
       /\ UNCHANGED <<disk, lock, threads, faults>>

(* The answer is stored under a reference of its own ...                    *)
Receive(c) ==
    /\ pc[c] = "wait" /\ wire[c].state = "answered"
    /\ \/ /\ vault' = [vault EXCEPT ![c] = wire[c].pair]
          /\ loc' = [loc EXCEPT ![c].pair = wire[c].pair]
          /\ Goto(c, "commit")
          /\ UNCHANGED <<lock, outcome, faults>>
       \/ Fault /\ Fail(c, "store_failed", "sync_degraded") /\ Release(c) /\ UNCHANGED vault
    /\ UNCHANGED <<cloudVars, snap, status, op>>

(* Mutant of ReceiveError: the lock stays behind.                           *)
ReceiveErrorKeepsLock(c) ==
    /\ pc[c] = "wait"
    /\ \/ wire[c].state = "refused" /\ Fail(c, "refused", "needs_login") /\ UNCHANGED faults
       \/ wire[c].state = "unavailable" /\ Fail(c, "failed", "sync_degraded") /\ UNCHANGED faults
       \/ Fault /\ Fail(c, "failed", "sync_degraded")
    /\ UNCHANGED <<cloudVars, disk, lock, op>>

ReceiveError(c) ==
    /\ pc[c] = "wait"
    /\ \/ /\ wire[c].state = "refused"
          /\ Fail(c, "refused", "needs_login") /\ UNCHANGED faults
       \/ /\ wire[c].state = "unavailable"
          /\ Fail(c, "failed", "sync_degraded") /\ UNCHANGED faults
       \/ Fault /\ Fail(c, "failed", "sync_degraded")
    /\ Release(c)
    /\ UNCHANGED <<cloudVars, disk, op>>

(* Mutant of Unchanged: the snapshot is not compared before it is replaced. *)
UnchangedIgnored(c) == TRUE

(* The snapshot is the one the refresh started from.                        *)
Unchanged(c) == snap.ref = loc[c].ref /\ snap.version = loc[c].version

(* ... and becomes the session's if nobody replaced the snapshot meanwhile. *)
Commit(c) ==
    /\ pc[c] = "commit" /\ Unchanged(c)
    /\ snap' = [snap EXCEPT !.ref = c, !.version = @ + 1]
    /\ status' = "ready"
    /\ Goto(c, "delete_old")
    /\ UNCHANGED <<cloudVars, vault, lock, op, loc, outcome, faults>>

CommitConflict(c) ==
    /\ pc[c] = "commit" /\ ~Unchanged(c)
    /\ vault' = [vault EXCEPT ![c] = NoPair]
    /\ Fail(c, "conflict", "sync_degraded") /\ Release(c)
    /\ UNCHANGED <<cloudVars, snap, status, op, faults>>

(* Mutant of DeleteOld: the secret deleted is the snapshot's.               *)
DeleteCurrent(c) ==
    /\ pc[c] = "delete_old"
    /\ vault' = [vault EXCEPT ![snap.ref] = NoPair]
    /\ IF op[c] = "login" THEN End(c, "ok") ELSE Goto(c, "probe3") /\ UNCHANGED outcome
    /\ UNCHANGED <<cloudVars, snap, status, lock, op, loc, faults>>

(* The secret replaced is deleted; failing that the workspace is degraded.  *)
DeleteOld(c) ==
    /\ pc[c] = "delete_old"
    /\ \/ vault' = [vault EXCEPT ![loc[c].ref] = NoPair] /\ UNCHANGED <<snap, status, faults>>
       \/ /\ Fault
          /\ status' = "sync_degraded"
          /\ snap' = IF op[c] = "login" THEN snap ELSE Bump(snap)
          /\ UNCHANGED vault
    /\ IF op[c] = "login" THEN End(c, "ok") ELSE Goto(c, "probe3") /\ UNCHANGED outcome
    /\ UNCHANGED <<cloudVars, lock, op, loc>>

-----------------------------------------------------------------------------
(* restore and switch: the verified workspace is ready.                     *)
Ready(c) ==
    /\ pc[c] = "ready"
    /\ status' = "ready"
    /\ End(c, "ok")
    /\ UNCHANGED <<cloudVars, vault, snap, lock, op, loc, faults>>

(* _set_workspace_runtime_status.                                           *)
Mark(c) ==
    /\ pc[c] = "mark"
    /\ status' = loc[c].mark
    /\ snap' = Bump(snap)
    /\ Goto(c, "done")
    /\ UNCHANGED <<cloudVars, vault, lock, op, loc, outcome, faults>>

-----------------------------------------------------------------------------
(* logout: a session the cloud does not accept any more counts as revoked.  *)
Revoke(c) ==
    /\ pc[c] = "revoke"
    /\ cloud' = IF Accepts(loc[c].pair)
                THEN [cloud EXCEPT ![loc[c].pair.session].state = "revoked"] ELSE cloud
    /\ \/ Goto(c, "archive") /\ UNCHANGED <<loc, outcome, faults>>
       \/ /\ Fault
          /\ loc' = [loc EXCEPT ![c].mark = "sync_degraded"]
          /\ outcome' = [outcome EXCEPT ![c] = "failed"]
          /\ Goto(c, "mark")
    /\ UNCHANGED <<consumed, wire, disk, lock, op>>

Archive(c) ==
    /\ pc[c] = "archive"
    /\ snap' = [snap EXCEPT !.life = "archived", !.version = @ + 1]
    /\ status' = "needs_login"
    /\ Goto(c, "delete_last")
    /\ UNCHANGED <<cloudVars, vault, lock, op, loc, outcome, faults>>

DeleteLast(c) ==
    /\ pc[c] = "delete_last"
    /\ \/ /\ vault' = [vault EXCEPT ![loc[c].ref] = NoPair]
          /\ Goto(c, "clear") /\ UNCHANGED <<outcome, faults>>
       \/ Fault /\ End(c, "store_failed") /\ UNCHANGED vault
    /\ UNCHANGED <<cloudVars, snap, status, lock, op, loc>>

Clear(c) ==
    /\ pc[c] = "clear"
    /\ snap' = [snap EXCEPT !.ref = NoCall]
    /\ End(c, "ok")
    /\ UNCHANGED <<cloudVars, vault, status, lock, op, loc, faults>>

-----------------------------------------------------------------------------
(* Two hours pass; the desktop application is killed.                       *)
Expire(s) ==
    /\ Live(s) /\ ~cloud[s].expired
    /\ cloud' = [cloud EXCEPT ![s] = [@ EXCEPT !.expired = TRUE]]
    /\ UNCHANGED <<consumed, wire, disk, lock, threads, faults>>

Crash ==
    /\ Fault
    /\ lock' = NoCall
    /\ pc' = [c \in Calls |-> IF pc[c] = "new" THEN "new" ELSE "done"]
    /\ outcome' = [c \in Calls |->
                     IF pc[c] \in {"new", "done"} THEN outcome[c] ELSE "crashed"]
    /\ UNCHANGED <<cloudVars, disk, op, loc>>

-----------------------------------------------------------------------------
Step(c) ==
    \/ Login(c) \/ LoginApply(c) \/ LoginCommit(c)
    \/ ReadRow(c) \/ ReadSecret(c)
    \/ ProbeOk(c) \/ ProbeRefused(c) \/ ProbeFails(c)
    \/ Lock(c) \/ Send(c) \/ Receive(c) \/ ReceiveError(c)
    \/ Commit(c) \/ CommitConflict(c) \/ DeleteOld(c)
    \/ Ready(c) \/ Mark(c)
    \/ Revoke(c) \/ Archive(c) \/ DeleteLast(c) \/ Clear(c)

Next ==
    \/ \E c \in Calls : (\E o \in Ops : Begin(c, o)) \/ Step(c) \/ CloudRefresh(c)
    \/ \E s \in Calls : Expire(s)
    \/ Crash

Spec == Init /\ [][Next]_vars

(* The local threads run, the cloud answers what reaches it, and SQLite and *)
(* the object lock are given to those who wait: each call runs once.        *)
FairSpec ==
    Spec /\ \A c \in Calls : WF_vars(Step(c)) /\ WF_vars(CloudRefresh(c))

-----------------------------------------------------------------------------
(* An active snapshot that names a secret names one that is in the vault,   *)
(* whatever refreshes, logins and logouts overlap and wherever they stop.   *)
SnapshotSecretPresent ==
    snap.life = "active" /\ snap.ref # NoCall => vault[snap.ref] # NoPair

(* While the cloud keeps the session, the pair on disk is the current one   *)
(* or exactly the one the last refresh consumed, so that repeating that     *)
(* refresh under its key brings the disk up to date.                        *)
OneReplayBehind ==
    (snap.life = "active" /\ snap.ref # NoCall /\ Live(vault[snap.ref].session)) =>
        LET p == vault[snap.ref] IN
            \/ p = Current(p)
            \/ /\ cloud[p.session].gen = p.gen + 1
               /\ \E k \in {"connected", "restore"} \cup Calls : <<k, p>> \in consumed

(* Only a login puts another session on disk; a refresh moves the session   *)
(* that is there to a later generation of its tokens, and never undoes a    *)
(* login or another refresh that was committed while it was under way.      *)
NeverRegress ==
    [][(snap'.ref # snap.ref /\ snap'.ref # NoCall) =>
          \/ op[snap'.ref] = "login"
          \/ /\ snap.ref # NoCall
             /\ vault[snap.ref] # NoPair =>
                   /\ vault'[snap'.ref].session = vault[snap.ref].session
                   /\ vault'[snap'.ref].gen > vault[snap.ref].gen]_vars

(* The cloud's pairs as a call sees them: the ones made so far, the live    *)
(* one, and the ones whose login or refresh was answered.                   *)
ChainPairs == [session : Calls, gen : 1 .. MaxGen]
MadePairs == {p \in ChainPairs : p.gen <= cloud[p.session].gen}
LivePair(s) == IF cloud[s].state = "live" THEN [session |-> s, gen |-> cloud[s].gen] ELSE NoPair
Answered == {c \in Calls : wire[c].state = "answered"}
LoggedIn == {c \in Calls : cloud[c].state # "none" /\ outcome[c] # "failed"}
HandedPairs ==
    {wire[c].pair : c \in Answered} \cup {[session |-> c, gen |-> 1] : c \in LoggedIn}

(* Whatever calls overlap, are cut off or replay each other's refreshes,    *)
(* their tokens form the same chains as CloudSession's: an answer is only   *)
(* ever the pair that is live when the cloud gives it.                      *)
Chain == INSTANCE SessionChain WITH
            Sessions <- Calls, Pairs <- ChainPairs,
            live <- [s \in Calls |-> LivePair(s)], used <- MadePairs, handed <- HandedPairs
ImplementsChain == Chain!Spec

(* Every call ends; none waits for ever for the lock of another.            *)
CallsEnd == \A c \in Calls : (pc[c] # "new") ~> (pc[c] = "done")

-----------------------------------------------------------------------------
(* "组织云已续期，但本机会话凭据尚未落地；可重试恢复": after this error a     *)
(* later call never finds that the user has to log in again, as long as the *)
(* cloud keeps the session.                                                 *)
RetryRecovers ==
    \A c, d \in Calls :
        /\ outcome[c] = "store_failed" /\ op[c] # "login"
        /\ pc[d] = "done" /\ op[d] = "restore" /\ loc[d].mark = "needs_login"
        /\ loc[d].pair = loc[c].pair
        => ~Live(loc[c].pair.session)

(* "退出必须撤销云端 server_session": a logout that succeeded has revoked   *)
(* the session it was called for.                                           *)
LogoutRevokesCloud ==
    \A c \in Calls :
        op[c] = "logout" /\ outcome[c] = "ok" => ~Live(loc[c].pair.session)
=============================================================================
