----------------------------- MODULE CloudSession -----------------------------
(***************************************************************************)
(* cloud_backend/app/repository.py: login, refresh and logout of the       *)
(* organization cloud, with the server threads that serve them, SQLite's   *)
(* one writer at a time (BEGIN IMMEDIATE ... commit), and the encrypted    *)
(* session secrets kept in files beside the database.                      *)
(*                                                                         *)
(* A request is one HTTP call.  A pair is an access and a refresh token    *)
(* minted together; it is named by the session, the session version and    *)
(* the request that minted it.  Authorization scope, member and contact    *)
(* are one: every session belongs to the same member.                      *)
(***************************************************************************)
EXTENDS Integers, FiniteSets

CONSTANTS Sessions,    \* session ids new_id() may draw
          Requests,    \* HTTP calls
          Keys,        \* Idempotency-Key values
          NoPair, NoKey, NoSession, NoRequest,
          MaxVersion,  \* bound: session versions that have a secret file
          MaxResets,   \* bound: password resets
          MaxFaults    \* bound: transactions that fail after the file is written,
                       \* and crashes of the cloud process

ASSUME BoundsAssumption ==
    MaxVersion \in Nat \ {0} /\ MaxResets \in Nat /\ MaxFaults \in Nat

Versions == 1 .. MaxVersion
Pairs == [session : Sessions, version : Versions, by : Requests]

ASSUME NamesAssumption ==
    /\ NoPair \notin Pairs
    /\ NoKey \notin Keys
    /\ NoSession \notin Sessions
    /\ NoRequest \notin Requests

VARIABLES
    db,         \* session |-> its sandboxes row (record_kind='server_session')
    commands,   \* the commands table, with the idempotency key
    files,      \* <<session, version>> |-> pair in {session}.v{version}.json
    writer,     \* the request inside BEGIN IMMEDIATE ... commit
    password,   \* number of password resets so far
    issued,     \* pairs some client received
    pc,         \* request |-> where its thread is
    req,        \* request |-> its parameters and local variables
    outcome,    \* request |-> how it was answered
    aborts, crashes

threads == <<pc, req, outcome>>
faults == <<aborts, crashes>>
vars == <<db, commands, files, writer, password, issued, threads, faults>>

NoRow == [state |-> "none", version |-> 0, pair |-> NoPair, secret |-> 0,
          password |-> 0, expired |-> FALSE]

Rows == {NoRow} \cup
        [state : {"active", "logged_out", "revoked"},
         version : Nat,
         pair : Pairs,        \* access_secret_hash, refresh_secret_hash
         secret : Versions,   \* version of the file secret_reference names
         password : Nat,      \* the password the login was verified with
         expired : BOOLEAN]   \* access_expires_at has passed

Commands == [type : {"login", "refresh", "logout"}, key : Keys, session : Sessions,
             pair : Pairs \cup {NoPair}, version : Nat]

Locals == [key : Keys \cup {NoKey},
           pair : Pairs \cup {NoPair},         \* the pair the client presented
           session : Sessions \cup {NoSession},
           password : Nat,
           secret : Versions \cup {0},         \* the file to load or to unlink
           answer : Pairs \cup {NoPair}]       \* the pair to answer with

Steps == {"new", "login", "login_commit", "refresh", "refresh_commit", "logout",
          "load", "unlink_new", "unlink_old", "unlink_last", "payload", "done"}

TypeOK ==
    /\ db \in [Sessions -> Rows]
    /\ commands \in SUBSET Commands
    /\ files \in [Sessions \X Versions -> Pairs \cup {NoPair}]
    /\ writer \in Requests \cup {NoRequest}
    /\ password \in Nat
    /\ issued \in SUBSET Pairs
    /\ pc \in [Requests -> Steps]
    /\ req \in [Requests -> Locals]
    /\ outcome \in [Requests -> {"pending", "ok", "lost", "denied", "conflict",
                                 "unavailable", "failed"}]
    /\ aborts \in Nat /\ crashes \in Nat

NoLocals == [key |-> NoKey, pair |-> NoPair, session |-> NoSession, password |-> 0,
             secret |-> 0, answer |-> NoPair]

Init ==
    /\ db = [s \in Sessions |-> NoRow]
    /\ commands = {}
    /\ files = [f \in Sessions \X Versions |-> NoPair]
    /\ writer = NoRequest
    /\ password = 0
    /\ issued = {}
    /\ pc = [r \in Requests |-> "new"]
    /\ req = [r \in Requests |-> NoLocals]
    /\ outcome = [r \in Requests |-> "pending"]
    /\ aborts = 0 /\ crashes = 0

-----------------------------------------------------------------------------
Active(s) == db[s].state = "active"

Goto(r, step) == pc' = [pc EXCEPT ![r] = step]

End(r, how) ==
    /\ pc' = [pc EXCEPT ![r] = "done"]
    /\ outcome' = [outcome EXCEPT ![r] = how]

(* _existing_command: the command stored under this key, whatever its type. *)
Existing(k) == {c \in commands : c.key = k}

(* Command the request would store, and what a stored one must equal to be  *)
(* a replay of it: type and payload hash.                                   *)
SamePayload(c, type, pair, version) ==
    c.type = type /\ c.pair = pair /\ c.version = version

Record(type, r, s, pair, version) ==
    commands' = commands \cup
        {[type |-> type, key |-> req[r].key, session |-> s, pair |-> pair, version |-> version]}

(* Mutant of FindByRefresh: a look-up by session, not by refresh_secret_hash. *)
FindBySession(p) == {s \in Sessions : Active(s) /\ s = p.session}

(* The row a refresh token belongs to.                                      *)
FindByRefresh(p) == {s \in Sessions : Active(s) /\ db[s].pair = p}

(* session_from_access: the session whose current access token this is.     *)
FromAccess(p) == {s \in Sessions : Active(s) /\ db[s].pair = p /\ ~db[s].expired}

-----------------------------------------------------------------------------
(* login.  Credentials are verified before the transaction begins.          *)

LoginVerify(r, k) ==
    /\ pc[r] = "new"
    /\ Goto(r, "login")
    /\ req' = [req EXCEPT ![r] = [@ EXCEPT !.key = k, !.password = password]]
    /\ UNCHANGED <<db, commands, files, writer, password, issued, outcome, faults>>

LoginConflict(r) ==
    /\ pc[r] = "login" /\ writer = NoRequest
    /\ \E c \in Existing(req[r].key) :
          ~SamePayload(c, "login", NoPair, 0) \/ ~Active(c.session)
    /\ End(r, "conflict")
    /\ UNCHANGED <<db, commands, files, writer, password, issued, req, faults>>

LoginReplay(r) ==
    /\ pc[r] = "login" /\ writer = NoRequest
    /\ \E c \in Existing(req[r].key) :
          /\ SamePayload(c, "login", NoPair, 0) /\ Active(c.session)
          /\ req' = [req EXCEPT ![r] = [@ EXCEPT !.session = c.session,
                                   !.secret = db[c.session].secret]]
    /\ Goto(r, "load")
    /\ UNCHANGED <<db, commands, files, writer, password, issued, outcome, faults>>

(* _insert_session: a fresh id, its first secret file, then the row.        *)
LoginOpen(r, s) ==
    /\ pc[r] = "login" /\ writer = NoRequest
    /\ Existing(req[r].key) = {}
    /\ db[s].state = "none"
    /\ \A q \in Requests : req[q].session # s
    /\ LET p == [session |-> s, version |-> 1, by |-> r] IN
          /\ files' = [files EXCEPT ![<<s, 1>>] = p]
          /\ req' = [req EXCEPT ![r] = [@ EXCEPT !.session = s, !.secret = 1, !.answer = p]]
    /\ writer' = r
    /\ Goto(r, "login_commit")
    /\ UNCHANGED <<db, commands, password, issued, outcome, faults>>

LoginCommit(r) ==
    /\ pc[r] = "login_commit"
    /\ db' = [db EXCEPT ![req[r].session] =
                [state |-> "active", version |-> 1, pair |-> req[r].answer, secret |-> 1,
                 password |-> req[r].password, expired |-> FALSE]]
    /\ Record("login", r, req[r].session, NoPair, 0)
    /\ writer' = NoRequest
    /\ Goto(r, "payload")
    /\ UNCHANGED <<files, password, issued, req, outcome, faults>>

-----------------------------------------------------------------------------
(* refresh.                                                                 *)

RefreshStart(r, k, p) ==
    /\ pc[r] = "new"
    /\ Goto(r, "refresh")
    /\ req' = [req EXCEPT ![r] = [@ EXCEPT !.key = k, !.pair = p]]
    /\ UNCHANGED <<db, commands, files, writer, password, issued, outcome, faults>>

RefreshReplays(r) ==
    {c \in Existing(req[r].key) : SamePayload(c, "refresh", req[r].pair, 0)}

(* The stored command's session row, whatever its state; the transaction    *)
(* ends here and the secret is read from its file afterwards.               *)
RefreshReplay(r) ==
    /\ pc[r] = "refresh" /\ writer = NoRequest
    /\ \E c \in RefreshReplays(r) :
          req' = [req EXCEPT ![r] = [@ EXCEPT !.session = c.session,
                             !.secret = db[c.session].secret]]
    /\ Goto(r, "load")
    /\ UNCHANGED <<db, commands, files, writer, password, issued, outcome, faults>>

(* Mutant of RefreshDenied: the error leaves the transaction open.          *)
RefreshDeniedOpen(r) ==
    /\ pc[r] = "refresh" /\ writer = NoRequest
    /\ RefreshReplays(r) = {} /\ FindByRefresh(req[r].pair) = {}
    /\ End(r, "denied")
    /\ writer' = r
    /\ UNCHANGED <<db, commands, files, password, issued, req, faults>>

RefreshDenied(r) ==
    /\ pc[r] = "refresh" /\ writer = NoRequest
    /\ RefreshReplays(r) = {} /\ FindByRefresh(req[r].pair) = {}
    /\ End(r, "denied")
    /\ UNCHANGED <<db, commands, files, writer, password, issued, req, faults>>

RefreshConflict(r) ==
    /\ pc[r] = "refresh" /\ writer = NoRequest
    /\ RefreshReplays(r) = {} /\ FindByRefresh(req[r].pair) # {}
    /\ Existing(req[r].key) # {}
    /\ End(r, "conflict")
    /\ UNCHANGED <<db, commands, files, writer, password, issued, req, faults>>

RefreshRotate(r) ==
    /\ pc[r] = "refresh" /\ writer = NoRequest
    /\ Existing(req[r].key) = {}
    /\ \E s \in FindByRefresh(req[r].pair) :
          LET v == db[s].version + 1
              p == [session |-> s, version |-> v, by |-> r]
          IN /\ v <= MaxVersion
             /\ files' = [files EXCEPT ![<<s, v>>] = p]
             /\ req' = [req EXCEPT ![r] = [@ EXCEPT !.session = s, !.secret = v, !.answer = p]]
    /\ writer' = r
    /\ Goto(r, "refresh_commit")
    /\ UNCHANGED <<db, commands, password, issued, outcome, faults>>

(* Mutant of Rotated: the new secret is renamed into place, the row keeps   *)
(* its reference to the old file.                                           *)
RotatedKeepsReference(row, l) ==
    [state |-> row.state, version |-> row.version + 1, pair |-> l.answer,
     secret |-> row.secret, password |-> row.password, expired |-> FALSE]

(* The session row after the UPDATE: next version, new hashes and deadlines.*)
Rotated(row, l) ==
    [state |-> row.state, version |-> row.version + 1, pair |-> l.answer,
     secret |-> l.secret, password |-> row.password, expired |-> FALSE]

RefreshCommit(r) ==
    LET s == req[r].session IN
    /\ pc[r] = "refresh_commit"
    /\ db' = [db EXCEPT ![s] = Rotated(@, req[r])]
    /\ Record("refresh", r, s, req[r].pair, 0)
    /\ req' = [req EXCEPT ![r] = [@ EXCEPT !.secret = db[s].secret]]
    /\ writer' = NoRequest
    /\ Goto(r, "unlink_old")
    /\ UNCHANGED <<files, password, issued, outcome, faults>>

-----------------------------------------------------------------------------
(* An exception after the secret file was written: rollback gives the       *)
(* write lock up, and only then is the new file unlinked.                   *)
Abort(r) ==
    /\ pc[r] \in {"login_commit", "refresh_commit"}
    /\ aborts + crashes < MaxFaults
    /\ aborts' = aborts + 1
    /\ writer' = NoRequest
    /\ Goto(r, "unlink_new")
    /\ UNCHANGED <<db, commands, files, password, issued, req, outcome, crashes>>

(* logout.  The route resolves the access token first (current_identity).   *)
LogoutStart(r, k, p) ==
    /\ pc[r] = "new"
    /\ \/ \E s \in FromAccess(p) :
            /\ req' = [req EXCEPT ![r] = [@ EXCEPT !.key = k, !.pair = p, !.session = s]]
            /\ Goto(r, "logout")
            /\ UNCHANGED outcome
       \/ /\ FromAccess(p) = {}
          /\ End(r, "denied")
          /\ UNCHANGED req
    /\ UNCHANGED <<db, commands, files, writer, password, issued, faults>>

LogoutRefused(r) ==
    LET s == req[r].session IN
    /\ pc[r] = "logout" /\ writer = NoRequest
    /\ \/ ~Active(s) /\ End(r, "denied")
       \/ /\ Active(s)
          /\ \E c \in Existing(req[r].key) :
                c.session # s \/ ~SamePayload(c, "logout", NoPair, db[s].version)
          /\ End(r, "conflict")
    /\ UNCHANGED <<db, commands, files, writer, password, issued, req, faults>>

(* The row of a session that is over.                                       *)
Ended(row, state) ==
    [state |-> state, version |-> row.version + 1, pair |-> row.pair,
     secret |-> row.secret, password |-> row.password, expired |-> row.expired]

(* Mutant of Logout: the row is revoked, its secret file left behind.       *)
LogoutKeepsSecret(r) ==
    LET s == req[r].session IN
    /\ pc[r] = "logout" /\ writer = NoRequest
    /\ Active(s) /\ Existing(req[r].key) = {}
    /\ db' = [db EXCEPT ![s] = Ended(@, "logged_out")]
    /\ Record("logout", r, s, NoPair, db[s].version)
    /\ End(r, "ok")
    /\ UNCHANGED <<files, writer, password, issued, req, faults>>

(* Mutant of Logout: the reference is cleared before it is read.            *)
LogoutClearsReference(r) ==
    LET s == req[r].session IN
    /\ pc[r] = "logout" /\ writer = NoRequest
    /\ Active(s) /\ Existing(req[r].key) = {}
    /\ db' = [db EXCEPT ![s] = [Ended(@, "logged_out") EXCEPT !.secret = 0]]
    /\ Record("logout", r, s, NoPair, db[s].version)
    /\ End(r, "ok")
    /\ UNCHANGED <<files, writer, password, issued, req, faults>>

Logout(r) ==
    LET s == req[r].session IN
    /\ pc[r] = "logout" /\ writer = NoRequest
    /\ Active(s) /\ Existing(req[r].key) = {}
    /\ db' = [db EXCEPT ![s] = Ended(@, "logged_out")]
    /\ Record("logout", r, s, NoPair, db[s].version)
    /\ req' = [req EXCEPT ![r] = [@ EXCEPT !.secret = db[s].secret]]
    /\ Goto(r, "unlink_last")
    /\ UNCHANGED <<files, writer, password, issued, outcome, faults>>

-----------------------------------------------------------------------------
(* Outside any transaction: unlink a secret file, load one, answer.         *)

Unlink(r) ==
    /\ pc[r] \in {"unlink_new", "unlink_old", "unlink_last"}
    /\ files' = [files EXCEPT ![<<req[r].session, req[r].secret>>] = NoPair]
    /\ CASE pc[r] = "unlink_new" -> End(r, "failed")
         [] pc[r] = "unlink_last" -> End(r, "ok")
         [] pc[r] = "unlink_old" -> Goto(r, "payload") /\ UNCHANGED outcome
    /\ UNCHANGED <<db, commands, writer, password, issued, req, faults>>

Load(r) ==
    LET p == files[<<req[r].session, req[r].secret>>] IN
    /\ pc[r] = "load"
    /\ \/ /\ p # NoPair
          /\ req' = [req EXCEPT ![r] = [@ EXCEPT !.answer = p]]
          /\ Goto(r, "payload")
          /\ UNCHANGED outcome
       \/ p = NoPair /\ End(r, "unavailable") /\ UNCHANGED req
    /\ UNCHANGED <<db, commands, files, writer, password, issued, faults>>

(* Mutant of Payload: the answer is not checked against the live session.   *)
PayloadUnchecked(r) ==
    /\ pc[r] = "payload"
    /\ issued' = issued \cup {req[r].answer}
    /\ End(r, "ok")
    /\ UNCHANGED <<db, commands, files, writer, password, req, faults>>

(* _session_payload: session_from_access of the answer; the response may    *)
(* be lost on its way to the client.                                        *)
Payload(r) ==
    /\ pc[r] = "payload"
    /\ \/ /\ FromAccess(req[r].answer) # {}
          /\ \/ issued' = issued \cup {req[r].answer} /\ End(r, "ok")
             \/ UNCHANGED issued /\ End(r, "lost")
       \/ FromAccess(req[r].answer) = {} /\ End(r, "denied") /\ UNCHANGED issued
    /\ UNCHANGED <<db, commands, files, writer, password, req, faults>>

-----------------------------------------------------------------------------
(* Around the requests: access tokens expire, an administrator resets the   *)
(* member's password and so revokes the sessions, the process crashes.      *)

(* Two hours are longer than any request takes.                             *)
Expire(s) ==
    /\ Active(s) /\ ~db[s].expired
    /\ \A r \in Requests : req[r].session = s => pc[r] = "done"
    /\ db' = [db EXCEPT ![s] = [@ EXCEPT !.expired = TRUE]]
    /\ UNCHANGED <<commands, files, writer, password, issued, threads, faults>>

ResetPassword ==
    /\ writer = NoRequest
    /\ password < MaxResets
    /\ password' = password + 1
    /\ db' = [s \in Sessions |->
                IF Active(s) THEN Ended(db[s], "revoked") ELSE db[s]]
    /\ UNCHANGED <<commands, files, writer, issued, threads, faults>>

Crash ==
    /\ aborts + crashes < MaxFaults
    /\ crashes' = crashes + 1
    /\ writer' = NoRequest
    /\ pc' = [r \in Requests |-> IF pc[r] = "new" THEN "new" ELSE "done"]
    /\ outcome' = [r \in Requests |->
                     IF pc[r] \in {"new", "done"} THEN outcome[r] ELSE "lost"]
    /\ UNCHANGED <<db, commands, files, password, issued, req, aborts>>

-----------------------------------------------------------------------------
Serve(r) ==
    \/ LoginConflict(r) \/ LoginReplay(r) \/ (\E s \in Sessions : LoginOpen(r, s)) \/ LoginCommit(r)
    \/ RefreshReplay(r) \/ RefreshDenied(r) \/ RefreshConflict(r) \/ RefreshRotate(r)
    \/ RefreshCommit(r)
    \/ LogoutRefused(r) \/ Logout(r)
    \/ Unlink(r) \/ Load(r) \/ Payload(r)

Next ==
    \/ \E r \in Requests, k \in Keys :
          \/ LoginVerify(r, k)
          \/ \E p \in issued : RefreshStart(r, k, p) \/ LogoutStart(r, k, p)
    \/ \E r \in Requests : Serve(r) \/ Abort(r)
    \/ \E s \in Sessions : Expire(s)
    \/ ResetPassword
    \/ Crash

Spec == Init /\ [][Next]_vars

-----------------------------------------------------------------------------
CommitSteps == {"login_commit", "refresh_commit"}

(* The write lock is held exactly between a secret file and its commit:     *)
(* every error path of login, refresh and logout has given it back by the   *)
(* time the request is answered.                                            *)
LockHeldInTransaction ==
    \A r \in Requests : (writer = r) <=> (pc[r] \in CommitSteps)

(* A refresh token is consumed at most once, under whatever keys and in     *)
(* whatever order the calls that carry it arrive.                           *)
ConsumedOnce ==
    \A c, d \in commands :
        c.type = "refresh" /\ d.type = "refresh" /\ c.pair = d.pair => c = d

(* The secret file an active session refers to holds the pair the row has   *)
(* the hashes of.  Only an aborted transaction can make the file go missing *)
(* (its late unlink hits the file another request has just committed), and  *)
(* then too it never holds another pair.                                    *)
SecretMatchesRow ==
    \A s \in Sessions :
        Active(s) => \/ files[<<s, db[s].secret>>] = db[s].pair
                     \/ aborts > 0 /\ files[<<s, db[s].secret>>] = NoPair

(* No secret file is left behind: without a crash, each file is the one an  *)
(* active session refers to, belongs to a session revoked by a password     *)
(* reset, or is about to be committed or unlinked by a request under way.   *)
Referenced(s, v) == db[s].state \in {"active", "revoked"} /\ db[s].secret = v

InHand(s, v) ==
    \E r \in Requests :
        /\ req[r].session = s /\ req[r].secret = v
        /\ pc[r] \in {"login_commit", "refresh_commit", "unlink_new", "unlink_old", "unlink_last"}

NoOrphanSecret ==
    crashes = 0 =>
        \A s \in Sessions, v \in Versions :
            files[<<s, v>>] # NoPair => Referenced(s, v) \/ InHand(s, v)

(* The pairs that are or were live: the ones the rows hold and the ones     *)
(* refreshes consumed.                                                      *)
LivePair(s) == IF Active(s) THEN db[s].pair ELSE NoPair
UsedPairs ==
    {db[s].pair : s \in {t \in Sessions : db[t].state # "none"}}
        \cup {c.pair : c \in {d \in commands : d.type = "refresh"}}

(* The rows, files and threads implement the chain of token pairs a client  *)
(* may rely on; in particular what is answered is live when it is answered. *)
Chain == INSTANCE SessionChain WITH
            live <- [s \in Sessions |-> LivePair(s)], used <- UsedPairs, handed <- issued
ImplementsChain == Chain!Spec

(* "密码已重置，原登录会话已失效": after a password reset no session verified *)
(* with the old password is usable.                                         *)
ResetEndsOldLogins ==
    \A s \in Sessions : Active(s) => db[s].password = password
=============================================================================
