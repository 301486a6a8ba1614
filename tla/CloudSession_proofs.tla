-------------------------- MODULE CloudSession_proofs --------------------------
(***************************************************************************)
(* TLAPS proofs about CloudSession, for any number of sessions, calls,     *)
(* keys, aborts, crashes and password resets.                              *)
(*                                                                         *)
(* What a thread has in hand stays true until it uses it (ThreadInv), which *)
(* gives the rotation of the tokens.  SecretInv says who refers to each    *)
(* secret file, and RowPairs that also an ended row holds a pair of its own *)
(* session, by which every step is one of SessionChain (ChainTheorem).     *)
(***************************************************************************)
EXTENDS CloudSession, TLAPS

(* What a thread has in hand at each step.                                  *)
ThreadOK(r) ==
    /\ pc[r] \in {"login", "login_commit", "refresh", "refresh_commit", "logout"}
          => req[r].key \in Keys
    /\ pc[r] \in {"login_commit", "refresh_commit", "logout", "load",
                  "unlink_new", "unlink_old", "unlink_last"}
          => req[r].session \in Sessions
    /\ pc[r] \in {"login_commit", "refresh_commit", "load",
                  "unlink_new", "unlink_old", "unlink_last"}
          => req[r].secret \in Versions
    /\ pc[r] = "login_commit" =>
          /\ db[req[r].session].state = "none"
          /\ req[r].answer \in Pairs
          /\ req[r].answer.session = req[r].session
          /\ req[r].answer.version = 1
    /\ pc[r] = "refresh_commit" =>
          /\ Active(req[r].session)
          /\ req[r].pair = db[req[r].session].pair
          /\ req[r].answer \in Pairs
          /\ req[r].answer.session = req[r].session
          /\ req[r].answer.version = db[req[r].session].version + 1

ThreadInv == \A r \in Requests : ThreadOK(r)

(* The live pair of a session carries the session's version, and the pairs  *)
(* refreshes consumed carry smaller ones: no consumed pair can be live.     *)
ChainInv ==
    /\ \A s \in Sessions :
          Active(s) => db[s].pair.session = s /\ db[s].pair.version = db[s].version
    /\ \A c \in commands :
          /\ db[c.session].state # "none"
          /\ c.type = "refresh" =>
                /\ c.pair \in Pairs
                /\ c.pair.session = c.session
                /\ c.pair.version < db[c.session].version

IInv == TypeOK /\ LockHeldInTransaction /\ ThreadInv /\ ChainInv /\ ConsumedOnce

Outcomes == {"pending", "ok", "lost", "denied", "conflict", "unavailable", "failed"}

(* Initially no session exists and no thread has started.                   *)
LEMMA InitIInv == Init => IInv
<1> SUFFICES ASSUME Init PROVE IInv
  OBVIOUS
<1>1. TypeOK
  <2>1. db \in [Sessions -> Rows] /\ req \in [Requests -> Locals]
    BY DEF Init, Rows, Locals, NoLocals
  <2>2. /\ files \in [Sessions \X Versions -> Pairs \cup {NoPair}]
        /\ pc \in [Requests -> Steps]
        /\ outcome \in [Requests -> {"pending", "ok", "lost", "denied", "conflict",
                                     "unavailable", "failed"}]
    BY DEF Init, Steps
  <2>3. QED
    BY <2>1, <2>2 DEF Init, TypeOK
<1>2. LockHeldInTransaction /\ ThreadInv
  BY NamesAssumption DEF Init, LockHeldInTransaction, ThreadInv, ThreadOK, CommitSteps
<1>3. ChainInv /\ ConsumedOnce
  BY DEF Init, ChainInv, ConsumedOnce, Active, NoRow
<1>4. QED
  BY <1>1, <1>2, <1>3 DEF IInv

(* One thread moves, the tables stay: all that has to be shown is that the  *)
(* thread has in hand what its new step needs, and how it holds the lock.   *)
LEMMA QuietStep ==
  ASSUME IInv, NEW r \in Requests, NEW l \in Locals, NEW step \in Steps,
         UNCHANGED <<db, commands>>,
         req' = [req EXCEPT ![r] = l],
         pc' = [pc EXCEPT ![r] = step],
         files' \in [Sessions \X Versions -> Pairs \cup {NoPair}],
         issued' \in SUBSET Pairs,
         outcome' \in [Requests -> Outcomes],
         writer' \in Requests \cup {NoRequest},
         password' \in Nat, aborts' \in Nat, crashes' \in Nat,
         \/ writer' = writer /\ pc[r] \notin CommitSteps /\ step \notin CommitSteps
         \/ writer = NoRequest /\ writer' = r /\ step \in CommitSteps
         \/ pc[r] \in CommitSteps /\ writer' = NoRequest /\ step \notin CommitSteps,
         ThreadOK(r)'
  PROVE  IInv'
<1>1. /\ req \in [Requests -> Locals]
      /\ pc \in [Requests -> Steps]
  BY DEF IInv, TypeOK
<1>2. /\ req' \in [Requests -> Locals] /\ pc' \in [Requests -> Steps]
      /\ req'[r] = l /\ pc'[r] = step
      /\ \A q \in Requests \ {r} : req'[q] = req[q] /\ pc'[q] = pc[q]
  BY <1>1
<1>3. TypeOK'
  BY <1>2 DEF IInv, TypeOK, Outcomes
<1>4. LockHeldInTransaction'
  BY <1>2, NamesAssumption DEF IInv, LockHeldInTransaction, CommitSteps
<1>5. ThreadInv'
  <2> SUFFICES ASSUME NEW q \in Requests \ {r}
               PROVE  ThreadOK(q)'
    BY DEF ThreadInv
  <2>1. ThreadOK(q) /\ req'[q] = req[q] /\ pc'[q] = pc[q]
    BY <1>2 DEF IInv, ThreadInv
  <2>2. QED
    BY <2>1 DEF ThreadOK, Active
<1>6. ChainInv' /\ ConsumedOnce'
  BY DEF IInv, ChainInv, ConsumedOnce, Active
<1>7. QED
  BY <1>3, <1>4, <1>5, <1>6 DEF IInv

(* Ending a request.                                                        *)
LEMMA EndStep ==
  ASSUME IInv, NEW r \in Requests, NEW how \in Outcomes, End(r, how),
         UNCHANGED <<db, commands, writer, password, req, faults>>,
         pc[r] \notin CommitSteps,
         files' \in [Sessions \X Versions -> Pairs \cup {NoPair}],
         issued' \in SUBSET Pairs
  PROVE  IInv'
<1>1. /\ req \in [Requests -> Locals] /\ outcome \in [Requests -> Outcomes]
      /\ pc \in [Requests -> Steps]
      /\ writer \in Requests \cup {NoRequest}
      /\ password \in Nat /\ aborts \in Nat /\ crashes \in Nat
  BY DEF IInv, TypeOK, Outcomes
<1>2. /\ req[r] \in Locals /\ req' = [req EXCEPT ![r] = req[r]]
      /\ "done" \in Steps /\ "done" \notin CommitSteps
  BY <1>1 DEF Steps, CommitSteps
<1>3. pc' = [pc EXCEPT ![r] = "done"] /\ outcome' \in [Requests -> Outcomes]
  BY <1>1 DEF End
<1>4. ThreadOK(r)'
  BY <1>1, <1>3 DEF ThreadOK
<1>5. QED
  BY <1>1, <1>2, <1>3, <1>4, QuietStep DEF faults

(* A new call takes its parameters.                                         *)
LEMMA StartStep ==
  ASSUME IInv, NEW r \in Requests, NEW k \in Keys,
         \/ LoginVerify(r, k)
         \/ \E p \in issued : RefreshStart(r, k, p) \/ LogoutStart(r, k, p)
  PROVE  IInv'
<1>0. /\ req[r] \in Locals /\ pc \in [Requests -> Steps]
      /\ files \in [Sessions \X Versions -> Pairs \cup {NoPair}]
      /\ issued \in SUBSET Pairs
      /\ outcome \in [Requests -> Outcomes]
      /\ writer \in Requests \cup {NoRequest}
      /\ password \in Nat /\ aborts \in Nat /\ crashes \in Nat
      /\ req \in [Requests -> Locals]
  BY DEF IInv, TypeOK, Outcomes
<1>1. CASE LoginVerify(r, k)
  <2> DEFINE l == [req[r] EXCEPT !.key = k, !.password = password]
  <2>1. l \in Locals /\ l.key \in Keys
    BY <1>0 DEF Locals
  <2>2. /\ pc[r] = "new" /\ pc' = [pc EXCEPT ![r] = "login"] /\ req' = [req EXCEPT ![r] = l]
        /\ UNCHANGED <<db, commands, files, writer, password, issued, outcome, aborts, crashes>>
    BY <1>1 DEF LoginVerify, Goto, faults
  <2>3. ThreadOK(r)'
    BY <1>0, <2>1, <2>2 DEF ThreadOK
  <2>4. "login" \in Steps /\ "login" \notin CommitSteps /\ "new" \notin CommitSteps
    BY DEF Steps, CommitSteps
  <2> HIDE DEF l
  <2>5. QED
    BY <1>0, <2>1, <2>2, <2>3, <2>4, QuietStep
<1>2. ASSUME NEW p \in issued, RefreshStart(r, k, p)
      PROVE  IInv'
  <2> DEFINE l == [req[r] EXCEPT !.key = k, !.pair = p]
  <2>1. l \in Locals /\ l.key \in Keys
    BY <1>0 DEF Locals
  <2>2. /\ pc[r] = "new" /\ pc' = [pc EXCEPT ![r] = "refresh"] /\ req' = [req EXCEPT ![r] = l]
        /\ UNCHANGED <<db, commands, files, writer, password, issued, outcome, aborts, crashes>>
    BY <1>2 DEF RefreshStart, Goto, faults
  <2>3. ThreadOK(r)'
    BY <1>0, <2>1, <2>2 DEF ThreadOK
  <2>4. "refresh" \in Steps /\ "refresh" \notin CommitSteps /\ "new" \notin CommitSteps
    BY DEF Steps, CommitSteps
  <2> HIDE DEF l
  <2>5. QED
    BY <1>0, <2>1, <2>2, <2>3, <2>4, QuietStep
<1>3. ASSUME NEW p \in issued, LogoutStart(r, k, p)
      PROVE  IInv'
  <2>1. CASE FromAccess(p) = {}
    <3>1. /\ End(r, "denied") /\ pc[r] \notin CommitSteps /\ "denied" \in Outcomes
          /\ UNCHANGED <<db, commands, files, issued, writer, password, req, faults>>
      BY <1>3, <2>1 DEF LogoutStart, CommitSteps, Outcomes
    <3>2. QED
      BY <1>0, <3>1, EndStep
  <2>2. CASE FromAccess(p) # {}
    <3>1. PICK s \in FromAccess(p) :
              /\ req' = [req EXCEPT ![r] = [@ EXCEPT !.key = k, !.pair = p, !.session = s]]
              /\ Goto(r, "logout")
              /\ UNCHANGED outcome
      BY <1>3, <2>2 DEF LogoutStart
    <3> DEFINE l == [req[r] EXCEPT !.key = k, !.pair = p, !.session = s]
    <3>2. l \in Locals /\ l.key \in Keys /\ l.session \in Sessions
      BY <1>0 DEF Locals, FromAccess
    <3>3. /\ pc[r] = "new" /\ pc' = [pc EXCEPT ![r] = "logout"] /\ req' = [req EXCEPT ![r] = l]
          /\ UNCHANGED <<db, commands, files, writer, password, issued, outcome, aborts, crashes>>
      BY <1>3, <3>1 DEF LogoutStart, Goto, faults
    <3>4. ThreadOK(r)'
      BY <1>0, <3>2, <3>3 DEF ThreadOK
    <3>5. "logout" \in Steps /\ "logout" \notin CommitSteps /\ "new" \notin CommitSteps
      BY DEF Steps, CommitSteps
    <3> HIDE DEF l
    <3>6. QED
      BY <1>0, <3>2, <3>3, <3>4, <3>5, QuietStep
  <2>3. QED
    BY <2>1, <2>2
<1>4. QED
  BY <1>1, <1>2, <1>3

(* The types a step starts from, and the step names.                        *)
LEMMA Types ==
  ASSUME IInv
  PROVE  /\ pc \in [Requests -> Steps]
         /\ req \in [Requests -> Locals]
         /\ db \in [Sessions -> Rows]
         /\ commands \in SUBSET Commands
         /\ files \in [Sessions \X Versions -> Pairs \cup {NoPair}]
         /\ issued \in SUBSET Pairs
         /\ outcome \in [Requests -> Outcomes]
         /\ writer \in Requests \cup {NoRequest}
         /\ password \in Nat /\ aborts \in Nat /\ crashes \in Nat
BY DEF IInv, TypeOK, Outcomes

LEMMA StepNames ==
  /\ {"login", "login_commit", "refresh", "refresh_commit", "logout", "load",
      "unlink_new", "unlink_old", "unlink_last", "payload", "done"} \subseteq Steps
  /\ {"login", "refresh", "logout", "load", "unlink_new", "unlink_old", "unlink_last",
      "payload", "done", "new"} \cap CommitSteps = {}
  /\ "login_commit" \in CommitSteps /\ "refresh_commit" \in CommitSteps
  /\ {"ok", "lost", "denied", "conflict", "unavailable", "failed"} \subseteq Outcomes
BY DEF Steps, CommitSteps, Outcomes

(* Refusals and answers: the thread ends, the tables stay.                  *)
LEMMA RefusalStep ==
  ASSUME IInv, NEW r \in Requests,
         \/ LoginConflict(r) \/ RefreshDenied(r) \/ RefreshConflict(r)
         \/ LogoutRefused(r) \/ Payload(r)
  PROVE  IInv'
<1>1. /\ UNCHANGED <<db, commands, files, writer, password, req, faults>>
      /\ pc[r] \in {"login", "refresh", "logout", "payload"}
      /\ \E how \in Outcomes : End(r, how)
      /\ issued' \in SUBSET Pairs
  <2>1. CASE LoginConflict(r)
    BY <2>1, Types, StepNames DEF LoginConflict
  <2>2. CASE RefreshDenied(r)
    BY <2>2, Types, StepNames DEF RefreshDenied
  <2>3. CASE RefreshConflict(r)
    BY <2>3, Types, StepNames DEF RefreshConflict
  <2>4. CASE LogoutRefused(r)
    BY <2>4, Types, StepNames DEF LogoutRefused
  <2>5. CASE Payload(r)
    <3>1. CASE FromAccess(req[r].answer) = {}
      BY <2>5, <3>1, Types, StepNames DEF Payload
    <3>2. CASE FromAccess(req[r].answer) # {}
      <4>1. PICK s \in Sessions : Active(s) /\ db[s].pair = req[r].answer
        BY <3>2 DEF FromAccess
      <4>2. req[r].answer \in Pairs
        BY <4>1, Types DEF Active, Rows, NoRow
      <4>3. QED
        BY <2>5, <3>2, <4>2, Types, StepNames DEF Payload
    <3>3. QED
      BY <3>1, <3>2
  <2>6. QED
    BY <2>1, <2>2, <2>3, <2>4, <2>5
<1>2. QED
  BY <1>1, EndStep, Types, StepNames

(* A stored command is found: the thread goes on to its secret file.        *)
LEMMA ReplayStep ==
  ASSUME IInv, NEW r \in Requests, LoginReplay(r) \/ RefreshReplay(r)
  PROVE  IInv'
<1>1. PICK c \in commands :
          /\ req' = [req EXCEPT ![r] = [@ EXCEPT !.session = c.session,
                                                 !.secret = db[c.session].secret]]
          /\ pc[r] \in {"login", "refresh"} /\ pc' = [pc EXCEPT ![r] = "load"]
          /\ UNCHANGED <<db, commands, files, writer, password, issued, outcome, aborts, crashes>>
  BY DEF LoginReplay, RefreshReplay, RefreshReplays, Existing, Goto, faults
<1>2. c.session \in Sessions /\ db[c.session].secret \in Versions
  BY Types DEF Commands, IInv, ChainInv, Rows, NoRow
<1> DEFINE l == [req[r] EXCEPT !.session = c.session, !.secret = db[c.session].secret]
<1>3. l \in Locals /\ l.session \in Sessions /\ l.secret \in Versions
  BY <1>2, Types DEF Locals
<1>4. req' = [req EXCEPT ![r] = l]
  BY <1>1
<1>5. ThreadOK(r)'
  BY <1>1, <1>3, <1>4, Types DEF ThreadOK
<1> HIDE DEF l
<1>6. QED
  BY <1>1, <1>3, <1>4, <1>5, QuietStep, Types, StepNames

(* The new secret file is written and the write lock kept for the commit.   *)
LEMMA OpenStep ==
  ASSUME IInv, NEW r \in Requests, NEW s \in Sessions, LoginOpen(r, s)
  PROVE  IInv'
<1> DEFINE p == [session |-> s, version |-> 1, by |-> r]
           l == [req[r] EXCEPT !.session = s, !.secret = 1, !.answer = p]
<1>1. 1 \in Versions
  BY BoundsAssumption DEF Versions
<1>2. p \in Pairs
  BY <1>1 DEF Pairs
<1>3. /\ pc[r] = "login" /\ writer = NoRequest /\ db[s].state = "none"
      /\ pc' = [pc EXCEPT ![r] = "login_commit"] /\ req' = [req EXCEPT ![r] = l]
      /\ files' = [files EXCEPT ![<<s, 1>>] = p] /\ writer' = r
      /\ UNCHANGED <<db, commands, password, issued, outcome, aborts, crashes>>
  BY DEF LoginOpen, Goto, faults
<1>4. req[r].key \in Keys
  BY <1>3 DEF IInv, ThreadInv, ThreadOK
<1>5. /\ l \in Locals /\ l.key \in Keys /\ l.session = s /\ l.secret = 1
      /\ l.answer \in Pairs /\ l.answer.session = s /\ l.answer.version = 1
  BY <1>1, <1>2, <1>4, Types DEF Locals
<1>6. files' \in [Sessions \X Versions -> Pairs \cup {NoPair}]
  BY <1>2, <1>3, Types
<1> HIDE DEF l, p
<1>7. req'[r] = l /\ pc'[r] = "login_commit"
  BY <1>3, Types
<1>8. ThreadOK(r)'
  BY <1>1, <1>3, <1>5, <1>7 DEF ThreadOK
<1>9. QED
  BY <1>3, <1>5, <1>6, <1>8, QuietStep, Types, StepNames

LEMMA RotateStep ==
  ASSUME IInv, NEW r \in Requests, RefreshRotate(r)
  PROVE  IInv'
<1>1. PICK s \in FindByRefresh(req[r].pair) :
          LET v == db[s].version + 1
              p == [session |-> s, version |-> v, by |-> r]
          IN /\ v <= MaxVersion
             /\ files' = [files EXCEPT ![<<s, v>>] = p]
             /\ req' = [req EXCEPT ![r] = [@ EXCEPT !.session = s, !.secret = v, !.answer = p]]
  BY DEF RefreshRotate
<1> DEFINE v == db[s].version + 1
           p == [session |-> s, version |-> v, by |-> r]
           l == [req[r] EXCEPT !.session = s, !.secret = v, !.answer = p]
<1>2. s \in Sessions /\ Active(s) /\ db[s].pair = req[r].pair
  BY DEF FindByRefresh
<1>3. v \in Versions
  <2>1. db[s].version \in Nat
    BY <1>2, Types DEF Active, Rows, NoRow
  <2>2. v <= MaxVersion
    BY <1>1
  <2>3. QED
    BY <2>1, <2>2, BoundsAssumption DEF Versions
<1>4. p \in Pairs
  BY <1>2, <1>3 DEF Pairs
<1>5. /\ pc[r] = "refresh" /\ writer = NoRequest
      /\ pc' = [pc EXCEPT ![r] = "refresh_commit"] /\ req' = [req EXCEPT ![r] = l]
      /\ files' = [files EXCEPT ![<<s, v>>] = p] /\ writer' = r
      /\ UNCHANGED <<db, commands, password, issued, outcome, aborts, crashes>>
  BY <1>1 DEF RefreshRotate, Goto, faults
<1>6. req[r].key \in Keys
  BY <1>5 DEF IInv, ThreadInv, ThreadOK
<1>7. /\ l \in Locals /\ l.key \in Keys /\ l.session = s /\ l.secret = v
      /\ l.pair = req[r].pair
      /\ l.answer \in Pairs /\ l.answer.session = s /\ l.answer.version = v
  BY ZenonT(40), <1>2, <1>3, <1>4, <1>6, Types DEF Locals
<1>8. files' \in [Sessions \X Versions -> Pairs \cup {NoPair}]
  BY <1>4, <1>5, Types
<1>9. v = db[s].version + 1
  OBVIOUS
<1> HIDE DEF l, p, v
<1>10. req'[r] = l /\ pc'[r] = "refresh_commit"
  BY <1>5, Types
<1>11. ThreadOK(r)'
  BY <1>2, <1>3, <1>5, <1>7, <1>9, <1>10 DEF ThreadOK, Active
<1>12. QED
  BY <1>5, <1>7, <1>8, <1>11, QuietStep, Types, StepNames

(* Rollback, unlink and load.                                               *)
LEMMA FileStep ==
  ASSUME IInv, NEW r \in Requests, Abort(r) \/ Unlink(r) \/ Load(r)
  PROVE  IInv'
<1>0. /\ ThreadOK(r) /\ req[r] \in Locals /\ req = [req EXCEPT ![r] = req[r]]
  BY Types DEF IInv, ThreadInv
<1>1. CASE Abort(r)
  <2>1. /\ pc[r] \in CommitSteps /\ pc' = [pc EXCEPT ![r] = "unlink_new"]
        /\ writer' = NoRequest /\ aborts' = aborts + 1
        /\ UNCHANGED <<db, commands, files, password, issued, req, outcome, crashes>>
    BY <1>1 DEF Abort, Goto, CommitSteps
  <2>2. ThreadOK(r)'
    BY <1>0, <2>1, Types DEF ThreadOK, CommitSteps
  <2>3. /\ "unlink_new" \in Steps \ CommitSteps
        /\ writer' \in Requests \cup {NoRequest} /\ aborts' \in Nat
    BY <2>1, Types DEF Steps, CommitSteps
  <2>4. /\ files' \in [Sessions \X Versions -> Pairs \cup {NoPair}]
        /\ issued' \in SUBSET Pairs
        /\ outcome' \in [Requests -> Outcomes]
        /\ password' \in Nat /\ crashes' \in Nat
        /\ req' = [req EXCEPT ![r] = req[r]]
    BY <1>0, <2>1, Types
  <2>5. QED
    BY <1>0, <2>1, <2>2, <2>3, <2>4, QuietStep
<1>2. CASE Unlink(r)
  <2>1. /\ pc[r] \in {"unlink_new", "unlink_old", "unlink_last"}
        /\ files' \in [Sessions \X Versions -> Pairs \cup {NoPair}]
        /\ UNCHANGED <<db, commands, writer, password, issued, req, faults>>
    BY <1>2, Types DEF Unlink
  <2>2. CASE pc[r] = "unlink_old"
    <3>1. pc' = [pc EXCEPT ![r] = "payload"] /\ outcome' = outcome
      BY <1>2, <2>2 DEF Unlink, Goto
    <3>2. ThreadOK(r)'
      BY <1>0, <2>1, <3>1, Types DEF ThreadOK
    <3>3. QED
      BY <1>0, <2>1, <3>1, <3>2, QuietStep, Types, StepNames DEF faults
  <2>3. CASE pc[r] # "unlink_old"
    <3>1. End(r, "failed") \/ End(r, "ok")
      BY <1>2, <2>1, <2>3 DEF Unlink
    <3>2. QED
      BY <2>1, <3>1, EndStep, Types, StepNames
  <2>4. QED
    BY <2>2, <2>3
<1>3. CASE Load(r)
  <2> DEFINE p == files[<<req[r].session, req[r].secret>>]
  <2>1. CASE p = NoPair
    <3>1. /\ End(r, "unavailable") /\ pc[r] = "load"
          /\ UNCHANGED <<db, commands, files, writer, password, issued, req, faults>>
      BY <1>3, <2>1 DEF Load
    <3>2. QED
      BY <3>1, EndStep, Types, StepNames
  <2>2. CASE p # NoPair
    <3> DEFINE l == [req[r] EXCEPT !.answer = p]
    <3>1. /\ pc[r] = "load" /\ pc' = [pc EXCEPT ![r] = "payload"]
          /\ req' = [req EXCEPT ![r] = l]
          /\ UNCHANGED <<db, commands, files, writer, password, issued, outcome, aborts, crashes>>
      BY <1>3, <2>2 DEF Load, Goto, faults
    <3>2. p \in Pairs
      <4>1. <<req[r].session, req[r].secret>> \in Sessions \X Versions
        BY <1>0, <3>1 DEF ThreadOK
      <4>2. QED
        BY <4>1, <2>2, Types
    <3>3. l \in Locals
      BY <1>0, <3>2 DEF Locals
    <3>4. ThreadOK(r)'
      BY <3>1, Types DEF ThreadOK
    <3> HIDE DEF l
    <3>5. QED
      BY <3>1, <3>3, <3>4, QuietStep, Types, StepNames
  <2>3. QED
    BY <2>1, <2>2
<1>4. QED
  BY <1>1, <1>2, <1>3

-----------------------------------------------------------------------------
(* Steps on the tables.  Outside the step's own thread no request is        *)
(* between its file and its commit, so no other thread relies on a row.     *)
LEMMA OthersRest ==
  ASSUME IInv, NEW r \in Requests, writer \in {r, NoRequest},
         NEW q \in Requests \ {r}, req'[q] = req[q], pc'[q] = pc[q]
  PROVE  ThreadOK(q)'
<1>1. writer # q
  BY NamesAssumption
<1>2. pc[q] \notin CommitSteps /\ ThreadOK(q)
  BY <1>1 DEF IInv, LockHeldInTransaction, ThreadInv, CommitSteps
<1>3. QED
  BY <1>2 DEF ThreadOK, CommitSteps

LEMMA LoginCommitStep ==
  ASSUME IInv, NEW r \in Requests, LoginCommit(r)
  PROVE  IInv'
<1> DEFINE s == req[r].session
           row == [state |-> "active", version |-> 1, pair |-> req[r].answer, secret |-> 1,
                   password |-> req[r].password, expired |-> FALSE]
           c == [type |-> "login", key |-> req[r].key, session |-> s,
                 pair |-> NoPair, version |-> 0]
<1>1. /\ pc[r] = "login_commit" /\ pc' = [pc EXCEPT ![r] = "payload"]
      /\ db' = [db EXCEPT ![s] = row] /\ commands' = commands \cup {c}
      /\ writer' = NoRequest
      /\ UNCHANGED <<files, password, issued, req, outcome, aborts, crashes>>
  BY DEF LoginCommit, Record, Goto, faults
<1>2. /\ s \in Sessions /\ req[r].key \in Keys /\ db[s].state = "none"
      /\ req[r].answer \in Pairs /\ req[r].answer.session = s /\ req[r].answer.version = 1
  BY <1>1 DEF IInv, ThreadInv, ThreadOK
<1>3. row \in Rows /\ c \in Commands
  BY <1>2, Types, BoundsAssumption DEF Rows, Commands, Locals, Versions
<1>4. /\ db'[s].state = "active" /\ db'[s].version = 1 /\ db'[s].pair = req[r].answer
      /\ \A t \in Sessions \ {s} : db'[t] = db[t]
  BY <1>1, <1>2, Types
<1>5. c.type = "login" /\ c.session = s
  OBVIOUS
<1>6. db' \in [Sessions -> Rows]
  BY <1>1, <1>2, <1>3, Types
<1> HIDE DEF row, c
<1>7. TypeOK'
  <2>1. commands' \in SUBSET Commands
    BY <1>1, <1>3, Types
  <2>2. pc' \in [Requests -> Steps]
    BY <1>1, Types, StepNames
  <2>3. QED
    BY <1>1, <1>6, <2>1, <2>2 DEF IInv, TypeOK
<1>8. LockHeldInTransaction'
  BY <1>1, Types, NamesAssumption DEF IInv, LockHeldInTransaction, CommitSteps
<1>9. ThreadInv'
  <2>1. writer = r
    BY <1>1 DEF IInv, LockHeldInTransaction, CommitSteps
  <2>2. ThreadOK(r)'
    BY <1>1, Types DEF ThreadOK
  <2>3. QED
    BY <1>1, <2>1, <2>2, OthersRest, Types DEF ThreadInv
<1>10. ChainInv'
  <2>1. ASSUME NEW t \in Sessions, Active(t)'
        PROVE  db'[t].pair.session = t /\ db'[t].pair.version = db'[t].version
    BY <1>2, <1>4, <2>1 DEF IInv, ChainInv, Active
  <2>2. ASSUME NEW d \in commands'
        PROVE  /\ db'[d.session].state # "none"
               /\ d.type = "refresh" =>
                     /\ d.pair \in Pairs
                     /\ d.pair.session = d.session
                     /\ d.pair.version < db'[d.session].version
    <3>1. CASE d \in commands
      <4>1. d.session # s /\ d.session \in Sessions
        BY <1>2, <3>1, Types DEF IInv, ChainInv, Commands
      <4>2. QED
        BY <1>4, <3>1, <4>1 DEF IInv, ChainInv
    <3>2. CASE d = c
      BY <1>4, <1>5, <3>2
    <3>3. QED
      BY <1>1, <2>2, <3>1, <3>2
  <2>3. QED
    BY <2>1, <2>2 DEF ChainInv
<1>11. ConsumedOnce'
  BY <1>1, <1>5 DEF IInv, ConsumedOnce
<1>12. QED
  BY <1>7, <1>8, <1>9, <1>10, <1>11 DEF IInv

LEMMA RotatedRow ==
  ASSUME NEW row \in Rows \ {NoRow}, NEW l \in Locals,
         l.answer \in Pairs, l.secret \in Versions
  PROVE  /\ Rotated(row, l) \in Rows
         /\ Rotated(row, l).state = row.state
         /\ Rotated(row, l).version = row.version + 1
         /\ Rotated(row, l).pair = l.answer
BY DEF Rotated, Rows

(* The consumed pair is the live one, and every consumed pair before it has *)
(* a smaller version: it was not consumed before.                           *)
LEMMA RefreshCommitStep ==
  ASSUME IInv, NEW r \in Requests, RefreshCommit(r)
  PROVE  IInv'
<1> DEFINE s == req[r].session
           row == Rotated(db[s], req[r])
           c == [type |-> "refresh", key |-> req[r].key, session |-> s,
                 pair |-> req[r].pair, version |-> 0]
           l == [req[r] EXCEPT !.secret = db[s].secret]
<1>1. /\ pc[r] = "refresh_commit" /\ pc' = [pc EXCEPT ![r] = "unlink_old"]
      /\ db' = [db EXCEPT ![s] = row] /\ commands' = commands \cup {c}
      /\ req' = [req EXCEPT ![r] = l] /\ writer' = NoRequest
      /\ UNCHANGED <<files, password, issued, outcome, aborts, crashes>>
  BY DEF RefreshCommit, Record, Goto, faults
<1>2. /\ s \in Sessions /\ req[r].key \in Keys /\ Active(s) /\ req[r].pair = db[s].pair
      /\ req[r].secret \in Versions
      /\ req[r].answer \in Pairs /\ req[r].answer.session = s
      /\ req[r].answer.version = db[s].version + 1
  BY <1>1 DEF IInv, ThreadInv, ThreadOK
<1>3. /\ db[s] \in Rows \ {NoRow} /\ db[s].version \in Nat /\ db[s].pair \in Pairs
      /\ db[s].secret \in Versions
      /\ db[s].pair.session = s /\ db[s].pair.version = db[s].version
  BY <1>2, Types DEF Active, Rows, NoRow, IInv, ChainInv
<1>4. /\ row \in Rows /\ row.state = "active" /\ row.version = db[s].version + 1
      /\ row.pair = req[r].answer
  BY <1>2, <1>3, RotatedRow, Types DEF Active
<1>5. c \in Commands /\ c.type = "refresh" /\ c.session = s /\ c.pair = db[s].pair
  BY <1>2, <1>3 DEF Commands
<1>6. l \in Locals /\ l.session = s /\ l.secret \in Versions
  BY <1>2, <1>3, Types DEF Locals
<1> HIDE DEF row, c, l
<1>7. db' \in [Sessions -> Rows] /\ db'[s] = row /\ \A t \in Sessions \ {s} : db'[t] = db[t]
  BY <1>1, <1>2, <1>4, Types
<1>8. TypeOK'
  <2>1. commands' \in SUBSET Commands
    BY <1>1, <1>5, Types
  <2>2. pc' \in [Requests -> Steps] /\ req' \in [Requests -> Locals]
    BY <1>1, <1>6, Types, StepNames
  <2>3. QED
    BY <1>1, <1>7, <2>1, <2>2 DEF IInv, TypeOK
<1>9. LockHeldInTransaction'
  BY <1>1, Types, NamesAssumption DEF IInv, LockHeldInTransaction, CommitSteps
<1>10. ThreadInv'
  <2>1. writer = r
    BY <1>1 DEF IInv, LockHeldInTransaction, CommitSteps
  <2>2. req'[r] = l /\ pc'[r] = "unlink_old"
    BY <1>1, Types
  <2>3. ThreadOK(r)'
    BY <1>2, <1>6, <2>2 DEF ThreadOK
  <2>4. QED
    BY <1>1, <2>1, <2>3, OthersRest, Types DEF ThreadInv
<1>11. ChainInv'
  <2>1. ASSUME NEW t \in Sessions, Active(t)'
        PROVE  db'[t].pair.session = t /\ db'[t].pair.version = db'[t].version
    BY <1>2, <1>4, <1>7, <2>1 DEF IInv, ChainInv, Active
  <2>2. ASSUME NEW d \in commands'
        PROVE  /\ db'[d.session].state # "none"
               /\ d.type = "refresh" =>
                     /\ d.pair \in Pairs
                     /\ d.pair.session = d.session
                     /\ d.pair.version < db'[d.session].version
    <3>1. CASE d \in commands
      <4>1. d.session \in Sessions
        BY <3>1, Types DEF Commands
      <4>2. CASE d.session = s
        <5>1. d.type = "refresh" => /\ d.pair \in Pairs /\ d.pair.session = s
                                    /\ d.pair.version \in Int
                                    /\ d.pair.version < db[s].version
          BY <3>1, <4>2 DEF IInv, ChainInv, Pairs, Versions
        <5>2. QED
          BY <1>3, <1>4, <1>7, <4>2, <5>1
      <4>3. CASE d.session # s
        BY <1>7, <3>1, <4>1, <4>3 DEF IInv, ChainInv
      <4>4. QED
        BY <4>2, <4>3
    <3>2. CASE d = c
      <4>1. c.pair.version < row.version
        BY <1>3, <1>4, <1>5
      <4>2. QED
        BY <1>3, <1>4, <1>5, <1>7, <3>2, <4>1
    <3>3. QED
      BY <1>1, <2>2, <3>1, <3>2
  <2>3. QED
    BY <2>1, <2>2 DEF ChainInv
<1>12. ConsumedOnce'
  <2>1. ASSUME NEW d \in commands, d.type = "refresh"
        PROVE  d.pair # c.pair
    <3>1. d.pair.session = d.session /\ d.pair.version < db[d.session].version
      BY <2>1 DEF IInv, ChainInv
    <3>2. QED
      BY <1>3, <1>5, <3>1
  <2>2. QED
    BY <1>1, <2>1 DEF IInv, ConsumedOnce
<1>13. QED
  BY <1>8, <1>9, <1>10, <1>11, <1>12 DEF IInv

LEMMA EndedRow ==
  ASSUME NEW row \in Rows \ {NoRow}, NEW state \in {"logged_out", "revoked"}
  PROVE  /\ Ended(row, state) \in Rows
         /\ Ended(row, state).state = state
         /\ Ended(row, state).version = row.version + 1
BY DEF Ended, Rows

(* Sessions may end or expire: what is active keeps its pair and version.   *)
LEMMA ChainStep ==
  ASSUME IInv, commands' = commands, db' \in [Sessions -> Rows],
         \A t \in Sessions :
            /\ db[t].state # "none" => db'[t].state # "none"
            /\ db'[t].version >= db[t].version
            /\ Active(t)' => /\ Active(t)
                             /\ db'[t].pair = db[t].pair
                             /\ db'[t].version = db[t].version
  PROVE  ChainInv' /\ ConsumedOnce'
<1>1. \A t \in Sessions : db[t].version \in Nat /\ db'[t].version \in Nat
  BY Types DEF Rows, NoRow
<1>2. ASSUME NEW c \in commands
      PROVE  /\ db'[c.session].state # "none"
             /\ c.type = "refresh" =>
                   /\ c.pair \in Pairs
                   /\ c.pair.session = c.session
                   /\ c.pair.version < db'[c.session].version
  <2>1. c.session \in Sessions
    BY <1>2, Types DEF Commands
  <2>2. c.pair \in Pairs => c.pair.version \in Nat
    BY BoundsAssumption DEF Pairs, Versions
  <2>3. QED
    BY <1>1, <1>2, <2>1, <2>2 DEF IInv, ChainInv
<1>3. QED
  BY <1>2 DEF IInv, ChainInv, ConsumedOnce

LEMMA LogoutStep ==
  ASSUME IInv, NEW r \in Requests, Logout(r)
  PROVE  IInv'
<1> DEFINE s == req[r].session
           row == Ended(db[s], "logged_out")
           c == [type |-> "logout", key |-> req[r].key, session |-> s,
                 pair |-> NoPair, version |-> db[s].version]
           l == [req[r] EXCEPT !.secret = db[s].secret]
<1>1. /\ pc[r] = "logout" /\ pc' = [pc EXCEPT ![r] = "unlink_last"]
      /\ writer = NoRequest /\ Active(s)
      /\ db' = [db EXCEPT ![s] = row] /\ commands' = commands \cup {c}
      /\ req' = [req EXCEPT ![r] = l]
      /\ UNCHANGED <<files, writer, password, issued, outcome, aborts, crashes>>
  BY DEF Logout, Record, Goto, faults
<1>2. s \in Sessions /\ req[r].key \in Keys
  BY <1>1 DEF IInv, ThreadInv, ThreadOK
<1>3. db[s] \in Rows \ {NoRow} /\ db[s].version \in Nat /\ db[s].secret \in Versions
  BY <1>1, <1>2, Types DEF Active, Rows, NoRow
<1>4. row \in Rows /\ row.state = "logged_out" /\ row.version = db[s].version + 1
  BY <1>3, EndedRow
<1>5. c \in Commands /\ c.type = "logout" /\ c.session = s
  BY <1>2, <1>3 DEF Commands
<1>6. l \in Locals /\ l.session = s /\ l.secret \in Versions
  BY <1>2, <1>3, Types DEF Locals
<1> HIDE DEF row, c, l
<1>7. db' \in [Sessions -> Rows] /\ db'[s] = row /\ \A t \in Sessions \ {s} : db'[t] = db[t]
  BY <1>1, <1>2, <1>4, Types
<1>8. TypeOK'
  <2>1. commands' \in SUBSET Commands
    BY <1>1, <1>5, Types
  <2>2. pc' \in [Requests -> Steps] /\ req' \in [Requests -> Locals]
    BY <1>1, <1>6, Types, StepNames
  <2>3. QED
    BY <1>1, <1>7, <2>1, <2>2 DEF IInv, TypeOK
<1>9. LockHeldInTransaction'
  BY <1>1, Types, NamesAssumption DEF IInv, LockHeldInTransaction, CommitSteps
<1>10. ThreadInv'
  <2>1. req'[r] = l /\ pc'[r] = "unlink_last"
    BY <1>1, Types
  <2>2. ThreadOK(r)'
    BY <1>2, <1>6, <2>1 DEF ThreadOK
  <2>3. QED
    BY <1>1, <2>2, OthersRest, Types DEF ThreadInv
<1>11. ChainInv'
  <2>1. ASSUME NEW t \in Sessions, Active(t)'
        PROVE  db'[t].pair.session = t /\ db'[t].pair.version = db'[t].version
    BY <1>4, <1>7, <2>1 DEF IInv, ChainInv, Active
  <2>2. ASSUME NEW d \in commands'
        PROVE  /\ db'[d.session].state # "none"
               /\ d.type = "refresh" =>
                     /\ d.pair \in Pairs
                     /\ d.pair.session = d.session
                     /\ d.pair.version < db'[d.session].version
    <3>1. CASE d \in commands
      <4>1. /\ d.session \in Sessions
            /\ d.pair \in Pairs => d.pair.version \in Nat
        BY <3>1, Types, BoundsAssumption DEF Commands, Pairs, Versions
      <4>2. db'[d.session].state # "none" /\ db[d.session].version \in Nat
            /\ db'[d.session].version >= db[d.session].version
        BY <1>3, <1>4, <1>7, <3>1, <4>1, Types DEF IInv, ChainInv, Rows, NoRow
      <4>3. QED
        BY <1>7, <3>1, <4>1, <4>2, Types DEF IInv, ChainInv, Rows, NoRow
    <3>2. CASE d = c
      BY <1>4, <1>5, <1>7, <3>2
    <3>3. QED
      BY <1>1, <2>2, <3>1, <3>2
  <2>3. QED
    BY <2>1, <2>2 DEF ChainInv
<1>12. ConsumedOnce'
  BY <1>1, <1>5 DEF IInv, ConsumedOnce
<1>13. QED
  BY <1>8, <1>9, <1>10, <1>11, <1>12 DEF IInv

LEMMA ExpireStep ==
  ASSUME IInv, NEW s \in Sessions, Expire(s)
  PROVE  IInv'
<1> DEFINE row == [db[s] EXCEPT !.expired = TRUE]
<1>1. /\ Active(s) /\ db' = [db EXCEPT ![s] = row]
      /\ UNCHANGED <<commands, files, writer, password, issued, pc, req, outcome, aborts, crashes>>
  BY DEF Expire, threads, faults
<1>2. db[s] \in Rows \ {NoRow}
  BY <1>1, Types DEF Active, NoRow
<1>3. row \in Rows /\ row.state = db[s].state /\ row.version = db[s].version
      /\ row.pair = db[s].pair
  BY <1>2 DEF Rows
<1> HIDE DEF row
<1>4. db' \in [Sessions -> Rows] /\ db'[s] = row /\ \A t \in Sessions \ {s} : db'[t] = db[t]
  BY <1>1, <1>3, Types
<1>5. \A t \in Sessions : /\ db'[t].state = db[t].state
                          /\ db'[t].version = db[t].version
                          /\ db'[t].pair = db[t].pair
                          /\ db[t].version \in Nat
  BY <1>3, <1>4, Types DEF Rows, NoRow
<1>6. TypeOK' /\ LockHeldInTransaction'
  BY <1>1, <1>4 DEF IInv, TypeOK, LockHeldInTransaction
<1>7. ThreadInv'
  <2> SUFFICES ASSUME NEW q \in Requests PROVE ThreadOK(q)'
    BY DEF ThreadInv
  <2>1. ThreadOK(q)
    BY DEF IInv, ThreadInv
  <2>2. QED
    BY <1>1, <1>5, <2>1 DEF ThreadOK, Active
<1>8. ChainInv' /\ ConsumedOnce'
  BY <1>1, <1>4, <1>5, ChainStep DEF Active
<1>9. QED
  BY <1>6, <1>7, <1>8 DEF IInv

(* A reset waits for the write lock, so no thread is about to commit.       *)
LEMMA ResetStep ==
  ASSUME IInv, ResetPassword
  PROVE  IInv'
<1>1. /\ writer = NoRequest /\ password' = password + 1
      /\ db' = [s \in Sessions |-> IF Active(s) THEN Ended(db[s], "revoked") ELSE db[s]]
      /\ UNCHANGED <<commands, files, writer, issued, pc, req, outcome, aborts, crashes>>
  BY DEF ResetPassword, threads, faults
<1>2. ASSUME NEW t \in Sessions
      PROVE  /\ db'[t] \in Rows /\ ~Active(t)'
             /\ db[t].state # "none" => db'[t].state # "none"
             /\ db'[t].version >= db[t].version
  <2>1. db[t] \in Rows /\ db[t].version \in Nat
    BY Types DEF Rows, NoRow
  <2>2. CASE Active(t)
    <3>1. db[t] # NoRow /\ db'[t] = Ended(db[t], "revoked")
      BY <1>1, <2>2 DEF Active, NoRow
    <3>2. QED
      BY <2>1, <3>1, EndedRow DEF Active
  <2>3. CASE ~Active(t)
    BY <1>1, <2>1, <2>3 DEF Active
  <2>4. QED
    BY <2>2, <2>3
<1>3. db' \in [Sessions -> Rows]
  BY <1>1, <1>2
<1>4. TypeOK' /\ LockHeldInTransaction'
  BY <1>1, <1>3 DEF IInv, TypeOK, LockHeldInTransaction
<1>5. ThreadInv'
  <2> SUFFICES ASSUME NEW q \in Requests PROVE ThreadOK(q)'
    BY DEF ThreadInv
  <2>1. ThreadOK(q) /\ pc[q] \notin CommitSteps
    BY <1>1, NamesAssumption DEF IInv, ThreadInv, LockHeldInTransaction, CommitSteps
  <2>2. QED
    BY <1>1, <2>1 DEF ThreadOK, CommitSteps
<1>6. ChainInv' /\ ConsumedOnce'
  BY <1>1, <1>2, <1>3, ChainStep
<1>7. QED
  BY <1>4, <1>5, <1>6 DEF IInv

LEMMA CrashStep ==
  ASSUME IInv, Crash
  PROVE  IInv'
<1>1. /\ writer' = NoRequest /\ crashes' = crashes + 1
      /\ pc' = [r \in Requests |-> IF pc[r] = "new" THEN "new" ELSE "done"]
      /\ outcome' = [r \in Requests |->
                       IF pc[r] \in {"new", "done"} THEN outcome[r] ELSE "lost"]
      /\ UNCHANGED <<db, commands, files, password, issued, req, aborts>>
  BY DEF Crash
<1>2. pc' \in [Requests -> Steps] /\ outcome' \in [Requests -> Outcomes]
  BY <1>1, Types, StepNames DEF Outcomes
<1>3. TypeOK'
  BY <1>1, <1>2 DEF IInv, TypeOK, Outcomes
<1>4. LockHeldInTransaction' /\ ThreadInv'
  BY <1>1, NamesAssumption DEF LockHeldInTransaction, ThreadInv, ThreadOK, CommitSteps
<1>5. ChainInv' /\ ConsumedOnce'
  BY <1>1 DEF IInv, ChainInv, ConsumedOnce, Active
<1>6. QED
  BY <1>3, <1>4, <1>5 DEF IInv

LEMMA NextStep == IInv /\ [Next]_vars => IInv'
<1> SUFFICES ASSUME IInv, [Next]_vars PROVE IInv'
  OBVIOUS
<1>1. CASE UNCHANGED vars
  BY <1>1
     DEF vars, threads, faults, IInv, TypeOK, LockHeldInTransaction, ThreadInv, ThreadOK,
              ChainInv, ConsumedOnce, Active
<1>2. CASE \E r \in Requests, k \in Keys :
              \/ LoginVerify(r, k)
              \/ \E p \in issued : RefreshStart(r, k, p) \/ LogoutStart(r, k, p)
  BY <1>2, StartStep
<1>3. CASE \E r \in Requests : Serve(r) \/ Abort(r)
  <2>1. PICK r \in Requests : Serve(r) \/ Abort(r)
    BY <1>3
  <2>2. CASE LoginConflict(r) \/ RefreshDenied(r) \/ RefreshConflict(r) \/ LogoutRefused(r)
    BY <2>2, RefusalStep
  <2>3. CASE LoginReplay(r) \/ RefreshReplay(r)
    BY <2>3, ReplayStep
  <2>4. CASE (\E s \in Sessions : LoginOpen(r, s)) \/ RefreshRotate(r)
    BY <2>4, OpenStep, RotateStep
  <2>5. CASE LoginCommit(r) \/ RefreshCommit(r) \/ Logout(r)
    BY <2>5, LoginCommitStep, RefreshCommitStep, LogoutStep
  <2>6. CASE Unlink(r) \/ Load(r) \/ Payload(r) \/ Abort(r)
    BY <2>6, FileStep, RefusalStep
  <2>7. QED
    BY <2>1, <2>2, <2>3, <2>4, <2>5, <2>6 DEF Serve
<1>4. CASE (\E s \in Sessions : Expire(s)) \/ ResetPassword \/ Crash
  BY <1>4, ExpireStep, ResetStep, CrashStep
<1>5. QED
  BY <1>1, <1>2, <1>3, <1>4 DEF Next

-----------------------------------------------------------------------------
(* The secret files.  A thread that is to unlink one names an old version,  *)
(* a session that is over, or a file whose transaction was rolled back.     *)
HandSteps == {"login_commit", "refresh_commit", "unlink_new", "unlink_old", "unlink_last"}

FileIs(s, v, p) == \/ files[<<s, v>>] = p
                   \/ aborts > 0 /\ files[<<s, v>>] = NoPair

SecretOK(r) ==
    /\ pc[r] \in CommitSteps =>
          /\ req[r].secret = req[r].answer.version
          /\ FileIs(req[r].session, req[r].secret, req[r].answer)
    /\ pc[r] = "unlink_new" => aborts > 0
    /\ pc[r] = "unlink_old" => /\ db[req[r].session].state # "none"
                               /\ req[r].secret < db[req[r].session].version
    /\ pc[r] = "unlink_last" => db[req[r].session].state \notin {"none", "active"}

SecretInv ==
    /\ \A s \in Sessions : Active(s) => /\ db[s].secret = db[s].version
                                        /\ FileIs(s, db[s].secret, db[s].pair)
    /\ \A r \in Requests : SecretOK(r)
    /\ NoOrphanSecret

(* A thread moves, rows and files stay.                                     *)
LEMMA RestSecrets ==
  ASSUME IInv, SecretInv, NEW r \in Requests, UNCHANGED <<db, files, crashes>>,
         \A q \in Requests \ {r} : req'[q] = req[q] /\ pc'[q] = pc[q],
         aborts' = aborts \/ aborts' > 0,
         pc[r] \in HandSteps => pc'[r] \in HandSteps /\ req'[r] = req[r],
         SecretOK(r)'
  PROVE  SecretInv'
<1>1. \A s \in Sessions : Active(s)' => /\ db'[s].secret = db'[s].version
                                        /\ FileIs(s, db[s].secret, db[s].pair)'
  BY DEF SecretInv, Active, FileIs
<1>2. ASSUME NEW q \in Requests \ {r} PROVE SecretOK(q)'
  BY DEF SecretInv, SecretOK, FileIs
<1>3. NoOrphanSecret'
  BY DEF SecretInv, NoOrphanSecret, Referenced, InHand, HandSteps
<1>4. QED
  BY <1>1, <1>2, <1>3 DEF SecretInv

(* Steps of one thread that touch no row and no file.                       *)
LEMMA QuietSecrets ==
  ASSUME IInv, SecretInv, NEW r \in Requests,
         \/ \E k \in Keys : \/ LoginVerify(r, k)
                            \/ \E p \in issued : RefreshStart(r, k, p) \/ LogoutStart(r, k, p)
         \/ LoginConflict(r) \/ LoginReplay(r) \/ RefreshReplay(r) \/ RefreshDenied(r)
         \/ RefreshConflict(r) \/ LogoutRefused(r) \/ Load(r) \/ Payload(r)
  PROVE  SecretInv'
<1>1. /\ UNCHANGED <<db, files, aborts, crashes>> /\ pc[r] \notin HandSteps
      /\ \A q \in Requests \ {r} : req'[q] = req[q] /\ pc'[q] = pc[q]
      /\ pc'[r] \notin HandSteps
  <2>1. CASE \E k \in Keys : \/ LoginVerify(r, k)
                             \/ \E p \in issued : RefreshStart(r, k, p) \/ LogoutStart(r, k, p)
    BY <2>1, Types DEF LoginVerify, RefreshStart, LogoutStart, Goto, End, HandSteps, faults
  <2>2. CASE LoginConflict(r) \/ RefreshDenied(r) \/ RefreshConflict(r) \/ LogoutRefused(r)
    BY <2>2, Types DEF LoginConflict, RefreshDenied, RefreshConflict, LogoutRefused, End,
                       HandSteps, faults
  <2>3. CASE LoginReplay(r) \/ RefreshReplay(r)
    BY <2>3, Types DEF LoginReplay, RefreshReplay, Goto, HandSteps, faults
  <2>4. CASE Load(r) \/ Payload(r)
    BY <2>4, Types DEF Load, Payload, Goto, End, HandSteps, faults
  <2>5. QED
    BY <2>1, <2>2, <2>3, <2>4
<1>2. SecretOK(r)'
  BY <1>1 DEF SecretOK, HandSteps, CommitSteps
<1>3. QED
  BY <1>1, <1>2, RestSecrets

LEMMA AbortSecrets ==
  ASSUME IInv, SecretInv, NEW r \in Requests, Abort(r)
  PROVE  SecretInv'
<1>1. /\ UNCHANGED <<db, files, req, crashes>> /\ pc' = [pc EXCEPT ![r] = "unlink_new"]
      /\ aborts' > 0
  BY Types DEF Abort, Goto
<1>2. /\ \A q \in Requests \ {r} : req'[q] = req[q] /\ pc'[q] = pc[q]
      /\ pc'[r] = "unlink_new"
  BY <1>1, Types
<1>3. SecretOK(r)'
  BY <1>1, <1>2 DEF SecretOK, CommitSteps
<1>4. QED
  BY <1>1, <1>2, <1>3, RestSecrets DEF HandSteps

(* While a thread may take the write lock, no other is between file and     *)
(* commit.                                                                  *)
LEMMA OthersQuiet ==
  ASSUME IInv, NEW r \in Requests, writer \in {r, NoRequest}, NEW q \in Requests \ {r}
  PROVE  pc[q] \notin CommitSteps
BY NamesAssumption DEF IInv, LockHeldInTransaction

(* A new file is that of no live pair.                                      *)
LEMMA WriteSecrets ==
  ASSUME IInv, SecretInv, NEW r \in Requests, NEW s \in Sessions, NEW v \in Versions, NEW p \in Pairs,
         \/ db[s].state = "none"
         \/ Active(s) /\ v > db[s].version,
         p.version = v, writer = NoRequest, pc[r] \notin HandSteps,
         UNCHANGED <<db, aborts, crashes>>, files' = [files EXCEPT ![<<s, v>>] = p],
         \A q \in Requests \ {r} : req'[q] = req[q] /\ pc'[q] = pc[q],
         pc'[r] \in CommitSteps, req'[r].session = s, req'[r].secret = v, req'[r].answer = p
  PROVE  SecretInv'
<1>1. \A t \in Sessions, w \in Versions :
         files'[<<t, w>>] = IF t = s /\ w = v THEN p ELSE files[<<t, w>>]
  BY Types
<1>2. ASSUME NEW t \in Sessions, Active(t)'
      PROVE  db'[t].secret = db'[t].version /\ FileIs(t, db[t].secret, db[t].pair)'
  <2>1. /\ Active(t) /\ db[t].secret = db[t].version /\ db[t].secret \in Versions
        /\ db[t].version \in Nat
    BY <1>2, Types DEF SecretInv, Active, Rows, NoRow
  <2>2. ~(t = s /\ db[t].secret = v)
    BY <2>1 DEF Active
  <2>3. QED
    BY <1>1, <2>1, <2>2 DEF SecretInv, FileIs
<1>3. SecretOK(r)'
  BY <1>1 DEF SecretOK, FileIs, CommitSteps
<1>4. ASSUME NEW q \in Requests \ {r} PROVE SecretOK(q)'
  BY OthersQuiet DEF SecretInv, SecretOK
<1>5. NoOrphanSecret'
  <2>1. InHand(s, v)'
    BY DEF InHand, CommitSteps
  <2>2. ASSUME NEW t \in Sessions, NEW w \in Versions, InHand(t, w) PROVE InHand(t, w)'
    BY <2>2 DEF InHand, HandSteps
  <2>3. QED
    BY <1>1, <2>1, <2>2 DEF SecretInv, NoOrphanSecret, Referenced
<1>6. QED
  BY <1>2, <1>3, <1>4, <1>5 DEF SecretInv

LEMMA OpenSecrets ==
  ASSUME IInv, SecretInv, NEW r \in Requests, NEW s \in Sessions, LoginOpen(r, s)
  PROVE  SecretInv'
<1> DEFINE p == [session |-> s, version |-> 1, by |-> r]
<1>1. 1 \in Versions /\ p \in Pairs /\ p.version = 1
  BY BoundsAssumption DEF Versions, Pairs
<1>2. /\ files' = [files EXCEPT ![<<s, 1>>] = p] /\ db[s].state = "none"
      /\ pc[r] = "login" /\ writer = NoRequest /\ UNCHANGED <<db, aborts, crashes>>
      /\ pc' = [pc EXCEPT ![r] = "login_commit"]
      /\ req' = [req EXCEPT ![r] = [@ EXCEPT !.session = s, !.secret = 1, !.answer = p]]
  BY DEF LoginOpen, Goto, faults
<1> HIDE DEF p
<1>3. /\ \A q \in Requests \ {r} : req'[q] = req[q] /\ pc'[q] = pc[q]
      /\ pc'[r] \in CommitSteps /\ req'[r].session = s /\ req'[r].secret = 1 /\ req'[r].answer = p
  BY <1>2, Types DEF CommitSteps, Locals
<1>4. QED
  BY <1>1, <1>2, <1>3, WriteSecrets DEF HandSteps

LEMMA RotateSecrets ==
  ASSUME IInv, SecretInv, NEW r \in Requests, RefreshRotate(r)
  PROVE  SecretInv'
<1>1. PICK s \in FindByRefresh(req[r].pair) :
          LET v == db[s].version + 1
              p == [session |-> s, version |-> v, by |-> r]
          IN /\ v <= MaxVersion
             /\ files' = [files EXCEPT ![<<s, v>>] = p]
             /\ req' = [req EXCEPT ![r] = [@ EXCEPT !.session = s, !.secret = v, !.answer = p]]
  BY DEF RefreshRotate
<1> DEFINE v == db[s].version + 1
           p == [session |-> s, version |-> v, by |-> r]
<1>2. s \in Sessions /\ Active(s) /\ db[s].version \in Nat
  BY Types DEF FindByRefresh, Active, Rows, NoRow
<1>3. v \in Versions /\ v > db[s].version
  BY <1>1, <1>2, BoundsAssumption DEF Versions
<1>4. p \in Pairs /\ p.version = v
  BY <1>2, <1>3 DEF Pairs
<1>5. /\ files' = [files EXCEPT ![<<s, v>>] = p]
      /\ pc[r] = "refresh" /\ writer = NoRequest /\ UNCHANGED <<db, aborts, crashes>>
      /\ pc' = [pc EXCEPT ![r] = "refresh_commit"]
      /\ req' = [req EXCEPT ![r] = [@ EXCEPT !.session = s, !.secret = v, !.answer = p]]
  BY <1>1 DEF RefreshRotate, Goto, faults
<1> HIDE DEF p, v
<1>6. /\ \A q \in Requests \ {r} : req'[q] = req[q] /\ pc'[q] = pc[q]
      /\ pc'[r] \in CommitSteps /\ req'[r].session = s /\ req'[r].secret = v /\ req'[r].answer = p
  BY <1>5, Types DEF CommitSteps, Locals
<1>7. QED
  BY <1>2, <1>3, <1>4, <1>5, <1>6, WriteSecrets DEF HandSteps

(* A commit makes its own file the live one and leaves the one before it to *)
(* be unlinked.                                                             *)
LEMMA LoginCommitSecrets ==
  ASSUME IInv, SecretInv, NEW r \in Requests, LoginCommit(r)
  PROVE  SecretInv'
<1> DEFINE s == req[r].session
           row == [state |-> "active", version |-> 1, pair |-> req[r].answer, secret |-> 1,
                   password |-> req[r].password, expired |-> FALSE]
<1>1. /\ pc[r] = "login_commit" /\ pc' = [pc EXCEPT ![r] = "payload"]
      /\ db' = [db EXCEPT ![s] = row] /\ UNCHANGED <<files, req, aborts, crashes>>
  BY DEF LoginCommit, Goto, faults
<1>2. /\ s \in Sessions /\ db[s].state = "none" /\ req[r].secret = 1
      /\ FileIs(s, 1, req[r].answer) /\ writer = r
  BY <1>1
     DEF IInv, ThreadInv, ThreadOK, SecretInv, SecretOK, LockHeldInTransaction, CommitSteps
<1>3. /\ \A q \in Requests \ {r} : pc'[q] = pc[q]
      /\ pc'[r] = "payload"
      /\ \A t \in Sessions : db'[t] = IF t = s THEN row ELSE db[t]
  BY <1>1, Types
<1>4. \A t \in Sessions : Active(t)' => /\ db'[t].secret = db'[t].version
                                        /\ FileIs(t, db[t].secret, db[t].pair)'
  BY <1>1, <1>2, <1>3 DEF SecretInv, Active, FileIs
<1>5. SecretOK(r)'
  BY <1>3 DEF SecretOK, CommitSteps
<1>6. ASSUME NEW q \in Requests \ {r} PROVE SecretOK(q)'
  <2>1. pc[q] \notin CommitSteps
    BY <1>2, OthersQuiet
  <2>2. pc[q] \in {"unlink_old", "unlink_last"} => req[q].session \in Sessions
    BY DEF IInv, ThreadInv, ThreadOK
  <2>3. QED
    BY <1>1, <1>2, <1>3, <2>1, <2>2 DEF SecretInv, SecretOK
<1>7. NoOrphanSecret'
  BY <1>1, <1>2, <1>3 DEF SecretInv, NoOrphanSecret, Referenced, InHand
<1>8. QED
  BY <1>4, <1>5, <1>6, <1>7 DEF SecretInv

LEMMA RefreshCommitSecrets ==
  ASSUME IInv, SecretInv, NEW r \in Requests, RefreshCommit(r)
  PROVE  SecretInv'
<1> DEFINE s == req[r].session
           row == Rotated(db[s], req[r])
<1>1. /\ pc[r] = "refresh_commit" /\ pc' = [pc EXCEPT ![r] = "unlink_old"]
      /\ db' = [db EXCEPT ![s] = row] /\ UNCHANGED <<files, aborts, crashes>>
      /\ req' = [req EXCEPT ![r] = [@ EXCEPT !.secret = db[s].secret]]
  BY DEF RefreshCommit, Goto, faults
<1>2. /\ s \in Sessions /\ Active(s) /\ req[r].answer.version = db[s].version + 1
      /\ req[r].secret = req[r].answer.version
      /\ FileIs(s, req[r].secret, req[r].answer) /\ writer = r
      /\ db[s].secret = db[s].version /\ db[s].version \in Nat
  <2>1. /\ s \in Sessions /\ Active(s) /\ req[r].answer.version = db[s].version + 1
        /\ req[r].secret = req[r].answer.version
        /\ FileIs(s, req[r].secret, req[r].answer) /\ writer = r
    BY <1>1
       DEF IInv, ThreadInv, ThreadOK, SecretInv, SecretOK, LockHeldInTransaction,
           CommitSteps
  <2>2. db[s].secret = db[s].version /\ db[s].version \in Nat
    BY <2>1, Types DEF SecretInv, Active, Rows, NoRow
  <2>3. QED
    BY <2>1, <2>2
<1>3. /\ \A q \in Requests \ {r} : pc'[q] = pc[q] /\ req'[q] = req[q]
      /\ pc'[r] = "unlink_old" /\ req'[r].session = s /\ req'[r].secret = db[s].secret
      /\ \A t \in Sessions : db'[t] = IF t = s THEN row ELSE db[t]
  BY <1>1, Types DEF Locals
<1>4. /\ row.state = "active" /\ row.version = db[s].version + 1 /\ row.secret = req[r].secret
      /\ row.pair = req[r].answer
  BY <1>2 DEF Rotated, Active
<1> HIDE DEF s, row
<1>5. \A t \in Sessions : Active(t)' => /\ db'[t].secret = db'[t].version
                                        /\ FileIs(t, db[t].secret, db[t].pair)'
  BY <1>1, <1>2, <1>3, <1>4 DEF SecretInv, Active, FileIs
<1>6. SecretOK(r)'
  BY <1>2, <1>3, <1>4 DEF SecretOK, CommitSteps
<1>7. ASSUME NEW q \in Requests \ {r} PROVE SecretOK(q)'
  <2>1. pc[q] \notin CommitSteps
    BY <1>2, OthersQuiet
  <2>2. /\ pc[q] \in {"unlink_old", "unlink_last"} => req[q].session \in Sessions
        /\ pc[q] = "unlink_old" => req[q].secret \in Nat
    BY DEF IInv, ThreadInv, ThreadOK, Versions
  <2>3. QED
    BY <1>1, <1>2, <1>3, <1>4, <2>1, <2>2 DEF SecretInv, SecretOK, Active
<1>8. NoOrphanSecret'
  <2>1. ASSUME NEW t \in Sessions, NEW w \in Versions, Referenced(t, w)
        PROVE  Referenced(t, w)' \/ InHand(t, w)'
    BY <1>3, <2>1 DEF Referenced, InHand
  <2>2. ASSUME NEW t \in Sessions, NEW w \in Versions, InHand(t, w)
        PROVE  Referenced(t, w)' \/ InHand(t, w)'
    <3>1. PICK q \in Requests :
             /\ req[q].session = t /\ req[q].secret = w
             /\ pc[q] \in {"login_commit", "refresh_commit", "unlink_new", "unlink_old", "unlink_last"}
      BY <2>2 DEF InHand
    <3>2. CASE q = r
      BY <1>3, <1>4, <3>1, <3>2 DEF Referenced, s
    <3>3. CASE q # r
      BY <1>3, <3>1, <3>3 DEF InHand
    <3>4. QED
      BY <3>2, <3>3
  <2>3. QED
    BY <1>1, <2>1, <2>2 DEF SecretInv, NoOrphanSecret
<1>9. QED
  BY <1>5, <1>6, <1>7, <1>8 DEF SecretInv

LEMMA LogoutSecrets ==
  ASSUME IInv, SecretInv, NEW r \in Requests, Logout(r)
  PROVE  SecretInv'
<1> DEFINE s == req[r].session
           row == Ended(db[s], "logged_out")
<1>1. /\ pc[r] = "logout" /\ pc' = [pc EXCEPT ![r] = "unlink_last"] /\ writer = NoRequest
      /\ db' = [db EXCEPT ![s] = row] /\ UNCHANGED <<files, aborts, crashes>>
      /\ req' = [req EXCEPT ![r] = [@ EXCEPT !.secret = db[s].secret]]
  BY DEF Logout, Goto, faults
<1>2. /\ s \in Sessions /\ Active(s) /\ db[s].version \in Nat
  <2>1. s \in Sessions /\ Active(s)
    BY <1>1 DEF IInv, ThreadInv, ThreadOK, Logout
  <2>2. QED
    BY <2>1, Types DEF Active, Rows, NoRow
<1>3. /\ \A q \in Requests \ {r} : pc'[q] = pc[q] /\ req'[q] = req[q]
      /\ pc'[r] = "unlink_last" /\ req'[r].session = s /\ req'[r].secret = db[s].secret
      /\ \A t \in Sessions : db'[t] = IF t = s THEN row ELSE db[t]
  BY <1>1, Types DEF Locals
<1>4. row.state = "logged_out" /\ row.version = db[s].version + 1
  BY DEF Ended
<1> HIDE DEF s, row
<1>5. \A t \in Sessions : Active(t)' => /\ db'[t].secret = db'[t].version
                                        /\ FileIs(t, db[t].secret, db[t].pair)'
  BY <1>1, <1>3, <1>4 DEF SecretInv, Active, FileIs
<1>6. SecretOK(r)'
  BY <1>2, <1>3, <1>4 DEF SecretOK, CommitSteps
<1>7. ASSUME NEW q \in Requests \ {r} PROVE SecretOK(q)'
  <2>1. pc[q] \notin CommitSteps
    BY <1>1, OthersQuiet
  <2>2. /\ pc[q] \in {"unlink_old", "unlink_last"} => req[q].session \in Sessions
        /\ pc[q] = "unlink_old" => req[q].secret \in Nat
    BY DEF IInv, ThreadInv, ThreadOK, Versions
  <2>3. QED
    BY <1>1, <1>2, <1>3, <1>4, <2>1, <2>2 DEF SecretInv, SecretOK
<1>8. NoOrphanSecret'
  <2>1. ASSUME NEW t \in Sessions, NEW w \in Versions, Referenced(t, w)
        PROVE  Referenced(t, w)' \/ InHand(t, w)'
    BY <1>3, <2>1 DEF Referenced, InHand
  <2>2. ASSUME NEW t \in Sessions, NEW w \in Versions, InHand(t, w) PROVE InHand(t, w)'
    BY <1>1, <1>3, <2>2 DEF InHand
  <2>3. QED
    BY <1>1, <2>1, <2>2 DEF SecretInv, NoOrphanSecret
<1>9. QED
  BY <1>5, <1>6, <1>7, <1>8 DEF SecretInv

(* What is unlinked is live only after a rollback.                          *)
LEMMA UnlinkSecrets ==
  ASSUME IInv, SecretInv, NEW r \in Requests, Unlink(r)
  PROVE  SecretInv'
<1> DEFINE s == req[r].session
           v == req[r].secret
<1>1. /\ pc[r] \in {"unlink_new", "unlink_old", "unlink_last"}
      /\ files' = [files EXCEPT ![<<s, v>>] = NoPair]
      /\ UNCHANGED <<db, req, aborts, crashes>>
      /\ \A q \in Requests \ {r} : pc'[q] = pc[q]
      /\ pc'[r] \in {"done", "payload"}
  BY Types DEF Unlink, Goto, End, faults
<1>2. s \in Sessions /\ v \in Versions
  BY <1>1 DEF IInv, ThreadInv, ThreadOK
<1>3. \A t \in Sessions, w \in Versions :
         files'[<<t, w>>] = IF t = s /\ w = v THEN NoPair ELSE files[<<t, w>>]
  BY <1>1, <1>2, Types
<1>4. \/ aborts > 0
      \/ /\ db[s].state # "none"
         /\ Active(s) => v < db[s].version
  BY <1>1 DEF SecretInv, SecretOK, Active
<1>5. v \in Nat /\ (Active(s) => db[s].version \in Nat /\ db[s].secret \in Versions)
  BY <1>2, Types DEF Active, Rows, NoRow, Versions
<1> HIDE DEF s, v
<1>6. ASSUME NEW t \in Sessions, Active(t)'
      PROVE  db'[t].secret = db'[t].version /\ FileIs(t, db[t].secret, db[t].pair)'
  <2>1. Active(t) /\ db[t].secret \in Versions
    BY <1>1, <1>6, Types DEF Active, Rows, NoRow
  <2>2. aborts > 0 \/ ~(t = s /\ db[t].secret = v)
    BY <1>4, <1>5, <2>1 DEF SecretInv
  <2>3. QED
    BY <1>1, <1>3, <2>1, <2>2 DEF SecretInv, FileIs
<1>7. SecretOK(r)'
  BY <1>1 DEF SecretOK, CommitSteps
<1>8. ASSUME NEW q \in Requests \ {r} PROVE SecretOK(q)'
  <2>1. CASE pc[q] \notin CommitSteps
    BY <1>1, <2>1 DEF SecretInv, SecretOK
  <2>2. CASE pc[q] \in CommitSteps
    <3>1. req[q].session \in Sessions /\ req[q].secret \in Versions
      BY <2>2 DEF IInv, ThreadInv, ThreadOK, CommitSteps
    <3>2. \/ db[req[q].session].state = "none"
          \/ Active(req[q].session) /\ req[q].secret = db[req[q].session].version + 1
      BY <2>2 DEF IInv, ThreadInv, ThreadOK, SecretInv, SecretOK, CommitSteps
    <3>3. aborts > 0 \/ ~(req[q].session = s /\ req[q].secret = v)
      BY <1>4, <1>5, <3>2
    <3>4. QED
      BY <1>1, <1>3, <2>2, <3>1, <3>3 DEF SecretInv, SecretOK, FileIs, CommitSteps
  <2>3. QED
    BY <2>1, <2>2
<1>9. NoOrphanSecret'
  <2>1. ASSUME NEW t \in Sessions, NEW w \in Versions, InHand(t, w), ~(t = s /\ w = v)
        PROVE  InHand(t, w)'
    BY <1>1, <2>1 DEF InHand, s, v
  <2>2. QED
    BY <1>1, <1>3, <2>1 DEF SecretInv, NoOrphanSecret, Referenced
<1>10. QED
  BY <1>6, <1>7, <1>8, <1>9 DEF SecretInv

(* The expiry of an access token, a password reset, a crash.                *)
LEMMA AroundSecrets ==
  ASSUME IInv, SecretInv, (\E s \in Sessions : Expire(s)) \/ ResetPassword \/ Crash
  PROVE  SecretInv'
<1>1. CASE Crash
  <2>1. /\ UNCHANGED <<db, files, req, aborts>> /\ crashes' > 0
        /\ \A q \in Requests : pc'[q] \in {"new", "done"}
    BY <1>1, Types DEF Crash
  <2>2. \A s \in Sessions : Active(s)' => /\ db'[s].secret = db'[s].version
                                          /\ FileIs(s, db[s].secret, db[s].pair)'
    BY <2>1 DEF SecretInv, Active, FileIs
  <2>3. QED
    BY <2>1, <2>2 DEF SecretInv, SecretOK, NoOrphanSecret, CommitSteps
<1>2. CASE \E s \in Sessions : Expire(s)
  <2>1. PICK s \in Sessions : Expire(s)
    BY <1>2
  <2>2. /\ UNCHANGED <<files, req, pc, aborts, crashes>>
        /\ \A t \in Sessions : /\ db'[t].state = db[t].state /\ db'[t].version = db[t].version
                               /\ db'[t].secret = db[t].secret /\ db'[t].pair = db[t].pair
    BY <2>1, Types DEF Expire, faults, threads, Rows, NoRow, Active
  <2>3. \A t \in Sessions : Active(t)' => /\ db'[t].secret = db'[t].version
                                          /\ FileIs(t, db[t].secret, db[t].pair)'
    BY <2>2 DEF SecretInv, Active, FileIs
  <2>4. ASSUME NEW q \in Requests PROVE SecretOK(q)'
    <3>1. pc[q] \in {"unlink_old", "unlink_last"} => req[q].session \in Sessions
      BY DEF IInv, ThreadInv, ThreadOK
    <3>2. QED
      BY <2>2, <3>1 DEF SecretInv, SecretOK, FileIs
  <2>5. NoOrphanSecret'
    BY <2>2 DEF SecretInv, NoOrphanSecret, Referenced, InHand
  <2>6. QED
    BY <2>3, <2>4, <2>5 DEF SecretInv
<1>3. CASE ResetPassword
  <2>1. /\ UNCHANGED <<files, req, pc, aborts, crashes>> /\ writer = NoRequest
        /\ db' = [t \in Sessions |-> IF Active(t) THEN Ended(db[t], "revoked") ELSE db[t]]
    BY <1>3 DEF ResetPassword, faults, threads
  <2>2. \A t \in Sessions :
          /\ db'[t].secret = db[t].secret /\ db'[t].pair = db[t].pair
          /\ Active(t) => /\ db'[t].state = "revoked" /\ db'[t].version = db[t].version + 1
                          /\ db[t].version \in Nat
          /\ ~Active(t) => db'[t] = db[t]
    BY <2>1, Types DEF Ended, Active, Rows, NoRow
  <2>3. \A t \in Sessions : ~Active(t)'
    BY <2>2 DEF Active
  <2>4. ASSUME NEW q \in Requests PROVE SecretOK(q)'
    <3>1. /\ pc[q] \notin CommitSteps
          /\ pc[q] \in {"unlink_old", "unlink_last"} => req[q].session \in Sessions
          /\ pc[q] = "unlink_old" => req[q].secret \in Nat
      BY <2>1, NamesAssumption
         DEF IInv, ThreadInv, ThreadOK, LockHeldInTransaction, Versions
    <3>2. QED
      BY <2>1, <2>2, <3>1 DEF SecretInv, SecretOK, Active
  <2>5. NoOrphanSecret'
    BY <2>1, <2>2 DEF SecretInv, NoOrphanSecret, Referenced, InHand, Active
  <2>6. QED
    BY <2>3, <2>4, <2>5 DEF SecretInv
<1>4. QED
  BY <1>1, <1>2, <1>3

LEMMA InitSecrets == Init => SecretInv
BY DEF Init, SecretInv, SecretOK, NoOrphanSecret, Active, NoRow, CommitSteps

LEMMA NextSecrets == IInv /\ SecretInv /\ [Next]_vars => SecretInv'
<1> SUFFICES ASSUME IInv, SecretInv, [Next]_vars PROVE SecretInv'
  OBVIOUS
<1>1. CASE UNCHANGED vars
  BY <1>1
     DEF vars, threads, faults, SecretInv, SecretOK, FileIs, NoOrphanSecret, Referenced,
              InHand, Active
<1>2. CASE \E r \in Requests, k \in Keys :
              \/ LoginVerify(r, k)
              \/ \E p \in issued : RefreshStart(r, k, p) \/ LogoutStart(r, k, p)
  BY <1>2, QuietSecrets
<1>3. CASE \E r \in Requests : Serve(r) \/ Abort(r)
  <2>1. PICK r \in Requests : Serve(r) \/ Abort(r)
    BY <1>3
  <2>2. CASE \/ LoginConflict(r) \/ LoginReplay(r) \/ RefreshReplay(r) \/ RefreshDenied(r)
             \/ RefreshConflict(r) \/ LogoutRefused(r) \/ Load(r) \/ Payload(r)
    BY <2>2, QuietSecrets
  <2>3. CASE (\E s \in Sessions : LoginOpen(r, s)) \/ RefreshRotate(r)
    BY <2>3, OpenSecrets, RotateSecrets
  <2>4. CASE LoginCommit(r) \/ RefreshCommit(r) \/ Logout(r)
    BY <2>4, LoginCommitSecrets, RefreshCommitSecrets, LogoutSecrets
  <2>5. CASE Unlink(r) \/ Abort(r)
    BY <2>5, UnlinkSecrets, AbortSecrets
  <2>6. QED
    BY <2>1, <2>2, <2>3, <2>4, <2>5 DEF Serve
<1>4. CASE (\E s \in Sessions : Expire(s)) \/ ResetPassword \/ Crash
  BY <1>4, AroundSecrets
<1>5. QED
  BY <1>1, <1>2, <1>3, <1>4 DEF Next

-----------------------------------------------------------------------------
(* Rows, files, commands and threads stay well formed.                      *)
THEOREM CloudTypeOK == Spec => []TypeOK
<1>1. IInv => TypeOK
  BY DEF IInv
<1>2. QED
  BY <1>1, InitIInv, NextStep, PTL DEF Spec

(* No error path keeps the write lock, and no request loses it too early.   *)
THEOREM LockTheorem == Spec => []LockHeldInTransaction
<1>1. IInv => LockHeldInTransaction
  BY DEF IInv
<1>2. QED
  BY <1>1, InitIInv, NextStep, PTL DEF Spec

(* No refresh token is ever consumed twice, however many calls carry it,    *)
(* under however many keys, with any number of crashes and aborts.          *)
THEOREM ConsumedOnceTheorem == Spec => []ConsumedOnce
<1>1. IInv => ConsumedOnce
  BY DEF IInv
<1>2. QED
  BY <1>1, InitIInv, NextStep, PTL DEF Spec

(* The live session's secret file holds the pair whose hashes its row has,  *)
(* or, once a transaction was rolled back, may be gone.                     *)
THEOREM SecretMatchesRowTheorem == Spec => []SecretMatchesRow
<1>1. IInv /\ SecretInv => SecretMatchesRow
  BY DEF SecretInv, SecretMatchesRow, FileIs
<1>2. QED
  BY <1>1, InitIInv, NextStep, InitSecrets, NextSecrets, PTL DEF Spec

(* Without a crash no secret file is left behind.                           *)
THEOREM NoOrphanTheorem == Spec => []NoOrphanSecret
<1>1. IInv /\ SecretInv => NoOrphanSecret
  BY DEF SecretInv
<1>2. QED
  BY <1>1, InitIInv, NextStep, InitSecrets, NextSecrets, PTL DEF Spec

-----------------------------------------------------------------------------
(* SessionChain.  A pair is in use from the commit that stores it in a row; *)
(* a row, also one that is over, holds a pair of its own session.           *)
RowPairs ==
    \A s \in Sessions :
        db[s].state # "none" => /\ db[s].pair.session = s
                                /\ db[s].pair.version <= db[s].version

(* Where a used pair comes from.                                            *)
LEMMA UsedLemma ==
  ASSUME IInv, RowPairs, NEW p \in UsedPairs
  PROVE  /\ p.session \in Sessions
         /\ db[p.session].state # "none"
         /\ p.version <= db[p.session].version
<1>1. CASE \E s \in Sessions : db[s].state # "none" /\ p = db[s].pair
  BY <1>1 DEF RowPairs
<1>2. CASE \E c \in commands : c.type = "refresh" /\ p = c.pair
  <2>1. PICK c \in commands : c.type = "refresh" /\ p = c.pair
    BY <1>2
  <2>2. /\ c \in Commands /\ c.session \in Sessions
        /\ db[c.session].state # "none"
        /\ p \in Pairs /\ p.session = c.session
        /\ p.version < db[c.session].version
    BY <2>1, Types DEF IInv, ChainInv, Commands
  <2>3. p.version \in Nat
    BY <2>2 DEF Pairs, Versions
  <2>4. db[c.session].version \in Nat
    BY <2>2, Types DEF Rows, NoRow
  <2>5. QED
    BY <2>2, <2>3, <2>4
<1>3. QED
  BY <1>1, <1>2 DEF UsedPairs

(* A live pair is a pair.                                                   *)
LEMMA LiveLemma ==
  ASSUME IInv, NEW s \in Sessions
  PROVE  /\ Active(s) => LivePair(s) \in Pairs /\ LivePair(s) # NoPair
         /\ ~Active(s) => LivePair(s) = NoPair
BY Types, NamesAssumption DEF Active, LivePair, Rows, NoRow

(* The session row appears: the pair is the session's first.                *)
LEMMA LoginChain ==
  ASSUME IInv, RowPairs, NEW r \in Requests, LoginCommit(r)
  PROVE  RowPairs' /\ Chain!Next
<1> DEFINE s == req[r].session
           p == req[r].answer
<1>1. /\ s \in Sessions /\ db[s].state = "none" /\ p \in Pairs
      /\ p.session = s /\ p.version = 1
  BY DEF LoginCommit, IInv, ThreadInv, ThreadOK
<1>2. /\ db'[s].state = "active" /\ db'[s].pair = p /\ db'[s].version = 1
      /\ \A t \in Sessions \ {s} : db'[t] = db[t]
      /\ \E c : c.type = "login" /\ commands' = commands \cup {c}
      /\ UNCHANGED issued
  BY <1>1, Types DEF LoginCommit, Record
<1>3. RowPairs'
  BY <1>1, <1>2 DEF RowPairs
<1>4. ~Chain!Opened(s)
  BY <1>1, UsedLemma DEF Chain!Opened
<1>5. UsedPairs' = UsedPairs \cup {p}
  BY <1>1, <1>2 DEF UsedPairs
<1>6. [t \in Sessions |-> LivePair(t)]' = [[t \in Sessions |-> LivePair(t)] EXCEPT ![s] = p]
  BY <1>1, <1>2 DEF LivePair, Active
<1>7. Chain!Open(s, p)
  BY <1>1, <1>2, <1>4, <1>5, <1>6 DEF Chain!Open, Chain!MayHand
<1>8. QED
  BY <1>1, <1>3, <1>7 DEF Chain!Next

(* The consumed pair stays in use as the command's, the new one is newer    *)
(* than every pair of the session.                                          *)
LEMMA RefreshChain ==
  ASSUME IInv, RowPairs, NEW r \in Requests, RefreshCommit(r)
  PROVE  RowPairs' /\ Chain!Next
<1> DEFINE s == req[r].session
           p == req[r].answer
           old == req[r].pair
<1>1. /\ s \in Sessions /\ Active(s) /\ p \in Pairs /\ old = db[s].pair
      /\ p.session = s /\ p.version = db[s].version + 1
      /\ req[r] \in Locals /\ req[r].secret \in Versions
  BY Types DEF RefreshCommit, IInv, ThreadInv, ThreadOK
<1>2. db[s] \in Rows \ {NoRow} /\ db[s].version \in Nat
  BY <1>1, Types DEF Active, Rows, NoRow
<1>3. /\ db'[s] = Rotated(db[s], req[r])
      /\ \A t \in Sessions \ {s} : db'[t] = db[t]
      /\ UNCHANGED issued
  BY <1>1, Types DEF RefreshCommit
<1>4. /\ db'[s].state = "active" /\ db'[s].pair = p /\ db'[s].version = db[s].version + 1
  BY <1>1, <1>2, <1>3, RotatedRow DEF Active
<1>5. \E c : c.type = "refresh" /\ c.pair = old /\ commands' = commands \cup {c}
  BY DEF RefreshCommit, Record
<1>6. RowPairs'
  BY <1>1, <1>2, <1>3, <1>4 DEF RowPairs
<1>7. p \notin UsedPairs
  BY <1>1, <1>2, UsedLemma
<1>8. UsedPairs' = UsedPairs \cup {p}
  <2>1. old \in UsedPairs
    BY <1>1 DEF UsedPairs, Active
  <2>2. {db'[t].pair : t \in {u \in Sessions : db'[u].state # "none"}} \cup {old}
          = {db[t].pair : t \in {u \in Sessions : db[u].state # "none"}} \cup {p, old}
    BY <1>1, <1>3, <1>4 DEF Active
  <2>3. {c.pair : c \in {d \in commands' : d.type = "refresh"}}
          = {c.pair : c \in {d \in commands : d.type = "refresh"}} \cup {old}
    BY <1>5
  <2>4. QED
    BY <2>1, <2>2, <2>3 DEF UsedPairs
<1>9. [t \in Sessions |-> LivePair(t)]' = [[t \in Sessions |-> LivePair(t)] EXCEPT ![s] = p]
  BY <1>1, <1>3, <1>4 DEF LivePair, Active
<1>10. Chain!Renew(s, p)
  BY <1>1, <1>3, <1>7, <1>8, <1>9, LiveLemma DEF Chain!Renew, Chain!MayHand
<1>11. QED
  BY <1>1, <1>6, <1>10 DEF Chain!Next

(* Rows may end, expire or stay; no pair comes into use.                    *)
LEMMA EndChain ==
  ASSUME IInv, RowPairs, NEW S \in SUBSET Sessions,
         UNCHANGED issued,
         {c \in commands' : c.type = "refresh"} = {c \in commands : c.type = "refresh"},
         \A t \in Sessions :
            /\ db'[t].state # "none" <=> db[t].state # "none"
            /\ db'[t].pair = db[t].pair
            /\ db'[t].version >= db[t].version /\ db'[t].version \in Nat
            /\ Active(t)' <=> Active(t) /\ t \notin S
  PROVE  /\ RowPairs' /\ Chain!Next
         /\ S = {} => UNCHANGED Chain!vars
<1>1. RowPairs'
  <2> SUFFICES ASSUME NEW t \in Sessions, db'[t].state # "none"
               PROVE  db'[t].pair.session = t /\ db'[t].pair.version <= db'[t].version
    BY DEF RowPairs
  <2>1. db[t] \in Rows \ {NoRow} /\ db[t].pair.session = t /\ db[t].pair.version <= db[t].version
    BY Types DEF RowPairs, NoRow
  <2>2. db[t].pair.version \in Nat /\ db[t].version \in Nat
    BY <2>1 DEF Rows, Pairs, Versions
  <2>3. QED
    BY <2>1, <2>2
<1>2. UsedPairs' = UsedPairs
  BY DEF UsedPairs
<1>3. \A t \in Sessions : LivePair(t)' = IF t \in S THEN NoPair ELSE LivePair(t)
  BY DEF LivePair, Active
<1>4. [t \in Sessions |-> LivePair(t)]'
        = [t \in Sessions |-> IF t \in S THEN NoPair ELSE [u \in Sessions |-> LivePair(u)][t]]
  BY <1>3
<1>5. Chain!End(S)
  BY <1>2, <1>4 DEF Chain!End
<1>6. S = {} => UNCHANGED Chain!vars
  BY <1>2, <1>3 DEF Chain!vars
<1>7. QED
  BY <1>1, <1>5, <1>6 DEF Chain!Next

(* Steps that leave the rows and the commands alone, but for an answer.     *)
LEMMA QuietChain ==
  ASSUME IInv, RowPairs, UNCHANGED <<db, commands, issued>>
  PROVE  RowPairs' /\ UNCHANGED Chain!vars
BY DEF RowPairs, Chain!vars, LivePair, Active, UsedPairs

(* What is answered is live when it is answered.                            *)
LEMMA PayloadChain ==
  ASSUME IInv, RowPairs, NEW r \in Requests, Payload(r)
  PROVE  RowPairs' /\ (Chain!Next \/ UNCHANGED Chain!vars)
<1>1. CASE UNCHANGED issued
  BY <1>1, QuietChain DEF Payload
<1>2. CASE FromAccess(req[r].answer) # {} /\ issued' = issued \cup {req[r].answer}
  <2>1. PICK s \in Sessions : Active(s) /\ db[s].pair = req[r].answer
    BY <1>2 DEF FromAccess
  <2>2. UNCHANGED <<db, commands>>
    BY DEF Payload
  <2>3. /\ RowPairs'
        /\ UNCHANGED <<[t \in Sessions |-> LivePair(t)], UsedPairs>>
    BY <2>2 DEF RowPairs, LivePair, Active, UsedPairs
  <2>4. LivePair(s) # NoPair /\ LivePair(s) = req[r].answer
    BY <2>1, LiveLemma DEF LivePair
  <2>5. Chain!Hand(s)
    BY <1>2, <2>3, <2>4 DEF Chain!Hand
  <2>6. QED
    BY <2>3, <2>5 DEF Chain!Next
<1>3. QED
  BY <1>1, <1>2 DEF Payload

(* A logout ends one session, a reset all; an expiry none.                  *)
LEMMA OverChain ==
  ASSUME IInv, RowPairs,
         \/ \E r \in Requests : Logout(r)
         \/ \E s \in Sessions : Expire(s)
         \/ ResetPassword
  PROVE  RowPairs' /\ (Chain!Next \/ UNCHANGED Chain!vars)
<1>0. \A t \in Sessions : /\ db[t].version \in Nat
                          /\ Active(t) => db[t] \in Rows \ {NoRow}
  BY Types DEF Rows, NoRow, Active
<1>1. CASE \E r \in Requests : Logout(r)
  <2>1. PICK r \in Requests : Logout(r)
    BY <1>1
  <2> DEFINE s == req[r].session
  <2>2. /\ s \in Sessions /\ Active(s) /\ UNCHANGED issued
        /\ db' = [db EXCEPT ![s] = Ended(@, "logged_out")]
    BY <2>1 DEF Logout, IInv, ThreadInv, ThreadOK
  <2>3. {c \in commands' : c.type = "refresh"} = {c \in commands : c.type = "refresh"}
    BY <2>1 DEF Logout, Record
  <2>4. /\ db'[s].state = "logged_out" /\ db'[s].pair = db[s].pair
        /\ db'[s].version = db[s].version + 1
        /\ \A t \in Sessions \ {s} : db'[t] = db[t]
    BY <2>2, Types DEF Ended
  <2>5. \A t \in Sessions :
          /\ db'[t].state # "none" <=> db[t].state # "none"
          /\ db'[t].pair = db[t].pair
          /\ db'[t].version >= db[t].version /\ db'[t].version \in Nat
          /\ Active(t)' <=> Active(t) /\ t \notin {s}
    BY <1>0, <2>2, <2>4 DEF Active
  <2>6. {s} \in SUBSET Sessions
    BY <2>2
  <2>7. RowPairs' /\ Chain!Next
    BY <2>2, <2>3, <2>5, <2>6, EndChain
  <2>8. QED
    BY <2>7
<1>2. CASE \E s \in Sessions : Expire(s)
  <2>1. PICK s \in Sessions : Expire(s)
    BY <1>2
  <2>2. /\ UNCHANGED <<commands, issued>>
        /\ \A t \in Sessions : /\ db'[t].state = db[t].state
                               /\ db'[t].version = db[t].version
                               /\ db'[t].pair = db[t].pair
    BY <1>0, <2>1, Types DEF Expire, Active
  <2>3. RowPairs' /\ UNCHANGED Chain!vars
    BY <2>2 DEF RowPairs, Chain!vars, LivePair, Active, UsedPairs
  <2>4. QED
    BY <2>3
<1>3. CASE ResetPassword
  <2>1. /\ UNCHANGED <<commands, issued>>
        /\ \A t \in Sessions :
              db'[t] = IF Active(t) THEN Ended(db[t], "revoked") ELSE db[t]
    BY <1>3 DEF ResetPassword
  <2>2. \A t \in Sessions :
          /\ Active(t) => /\ db'[t].state = "revoked" /\ db'[t].pair = db[t].pair
                          /\ db'[t].version = db[t].version + 1
          /\ ~Active(t) => db'[t] = db[t]
    <3> TAKE t \in Sessions
    <3>1. CASE Active(t)
      <4>1. db'[t] = Ended(db[t], "revoked")
        BY <2>1, <3>1
      <4>2. QED
        BY <3>1, <4>1 DEF Ended
    <3>2. CASE ~Active(t)
      BY <2>1, <3>2
    <3>3. QED
      BY <3>1, <3>2
  <2>3. RowPairs' /\ Chain!Next
    BY <1>0, <2>1, <2>2, EndChain, Sessions \in SUBSET Sessions DEF Active
  <2>4. QED
    BY <2>3
<1>4. QED
  BY <1>1, <1>2, <1>3

(* Initially no session is open, no pair used.                              *)
LEMMA InitChain == Init => RowPairs /\ Chain!Init
<1> SUFFICES ASSUME Init PROVE RowPairs /\ Chain!Init
  OBVIOUS
<1>1. /\ \A s \in Sessions : db[s].state = "none"
      /\ commands = {} /\ issued = {}
  BY DEF Init, NoRow
<1>2. UsedPairs = {} /\ \A s \in Sessions : LivePair(s) = NoPair
  BY <1>1 DEF UsedPairs, LivePair, Active
<1>3. QED
  BY <1>1, <1>2 DEF RowPairs, Chain!Init

LEMMA NextChain ==
  IInv /\ RowPairs /\ [Next]_vars => RowPairs' /\ [Chain!Next]_(Chain!vars)
<1> SUFFICES ASSUME IInv, RowPairs, [Next]_vars
             PROVE  RowPairs' /\ (Chain!Next \/ UNCHANGED Chain!vars)
  OBVIOUS
<1>1. CASE UNCHANGED vars \/ Crash
  BY <1>1, QuietChain DEF vars, Crash
<1>2. CASE \E r \in Requests, k \in Keys :
              \/ LoginVerify(r, k)
              \/ \E p \in issued : RefreshStart(r, k, p) \/ LogoutStart(r, k, p)
  BY <1>2, QuietChain DEF LoginVerify, RefreshStart, LogoutStart
<1>3. CASE \E r \in Requests : Serve(r) \/ Abort(r)
  <2>1. PICK r \in Requests : Serve(r) \/ Abort(r)
    BY <1>3
  <2>2. CASE \/ LoginConflict(r) \/ LoginReplay(r) \/ RefreshReplay(r) \/ RefreshDenied(r)
             \/ RefreshConflict(r) \/ LogoutRefused(r) \/ Load(r) \/ Unlink(r) \/ Abort(r)
    <3>1. UNCHANGED <<db, commands, issued>>
      BY <2>2 DEF LoginConflict, LoginReplay, RefreshReplay, RefreshDenied, RefreshConflict,
                  LogoutRefused, Load, Unlink, Abort
    <3>2. QED
      BY <3>1, QuietChain
  <2>3. CASE (\E s \in Sessions : LoginOpen(r, s)) \/ RefreshRotate(r)
    BY <2>3, QuietChain DEF LoginOpen, RefreshRotate
  <2>4. CASE LoginCommit(r) \/ RefreshCommit(r)
    BY <2>4, LoginChain, RefreshChain
  <2>5. CASE Payload(r) \/ Logout(r)
    BY <2>5, PayloadChain, OverChain
  <2>6. QED
    BY <2>1, <2>2, <2>3, <2>4, <2>5 DEF Serve
<1>4. CASE (\E s \in Sessions : Expire(s)) \/ ResetPassword
  BY <1>4, OverChain
<1>5. QED
  BY <1>1, <1>2, <1>3, <1>4 DEF Next

(* The cloud implements the chain of token pairs: at most one pair of a     *)
(* session is live, none comes back, and a client is only ever handed the   *)
(* pair that is live at that moment, whatever overlaps, aborts or crashes.  *)
THEOREM ChainTheorem == Spec => ImplementsChain
<1>1. Init => Chain!Init
  BY InitChain
<1>2. Init => IInv /\ RowPairs
  BY InitIInv, InitChain
<1>3. IInv /\ RowPairs /\ [Next]_vars => IInv' /\ RowPairs'
  BY NextStep, NextChain
<1>4. IInv /\ RowPairs /\ [Next]_vars => [Chain!Next]_(Chain!vars)
  BY NextChain
<1>5. QED
  BY <1>1, <1>2, <1>3, <1>4, PTL DEF Spec, ImplementsChain, Chain!Spec
=============================================================================
