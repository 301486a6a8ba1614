------------------------ MODULE WorkspaceSwitch_proofs ------------------------
(***************************************************************************)
(* A save changes the organization it was sent for, the window shows the   *)
(* data of the workspace its next click is sent for, and a switch that was *)
(* made is not refused when it is repeated: for any workspaces and calls.  *)
(***************************************************************************)
EXTENDS WorkspaceSwitch, TLAPS

CallRecord == [kind : AllKinds \cup {"none"}, ui : UiSteps, srv : ServerSteps,
               target : Some, seq : Nat, token : Nat, sent : Some, prev : Some,
               reply : {"none", "ok", "error", "retry", "signed_out"},
               got : Some, tries : Nat]

Loads(c) == call[c].ui \in {"workspaces", "auth", "list", "data", "current"}

\* A transition the call has begun, which may own the window.
Moves(c) ==
    \/ call[c].kind = "activate" /\ Waits(c)
    \/ call[c].ui \in {"auth", "list", "data", "current"}

\* The workspaces a call names are there when they are used.
Named ==
    \A c \in Calls :
        /\ call[c].kind # "none" => call[c].prev \in Workspaces /\ call[c].sent \in Workspaces
        /\ call[c].kind \in {"activate", "login"} => call[c].target \in Workspaces
        /\ call[c].srv \in {"apply", "refresh", "verify", "commit"} => call[c].target \in Workspaces
        /\ Loads(c) /\ call[c].reply # "none" => call[c].got \in Workspaces

\* The backend works for a call before the window has its answer, or after the
\* window has given it up.
Turns ==
    \A c \in Calls :
        /\ call[c].kind = "none" <=> call[c].ui = "new"
        /\ call[c].ui = "new" \/ Loads(c) => call[c].srv = "none"
        /\ Waits(c) /\ call[c].reply # "none" => call[c].srv = "none"

\* A save that is applied is bound to the workspace it was sent for.
Bound == \A c \in Calls : At(c, "save", "apply") => call[c].target = call[c].sent

\* A recorded switch is only answered.
Answered ==
    \A c \in Calls :
        /\ c \in applied => call[c].ui # "new"
        /\ c \in applied /\ call[c].kind = "activate" =>
              /\ call[c].srv \in {"none", "arrive", "answer"}
              /\ Waits(c) => call[c].reply # "error"

\* A transition has a number of its own, and the window shows no data before its
\* end.
Numbered ==
    /\ \A c \in Calls : call[c].token <= token
    /\ \A c, d \in Calls : Moves(c) /\ Moves(d) /\ call[c].token = call[d].token => c = d
    /\ \A c \in Calls : Moves(c) /\ Owns(c) => data = NoWorkspace

\* What a transition reads is what the window sends its requests for, unless an
\* overtaken switch has put its own workspace back.
Current ==
    ~restored =>
        /\ \A c \in Calls : call[c].ui = "data" /\ Owns(c) => call[c].sent = ctx
        /\ data # NoWorkspace => data = ctx

IInv == TypeOK /\ Named /\ Turns /\ Bound /\ SavesHitSent /\ Answered /\ Numbered /\ Current

-----------------------------------------------------------------------------
USE SwitchAssumption DEF backend, window, aux

ReplyKinds == {"none", "ok", "error", "retry", "signed_out"}

\* What a step of the backend changes of a call, and what it leaves.
Turned(c, srv, target, seq, reply, got) ==
    /\ call' \in [Calls -> CallRecord]
    /\ \A d \in Calls \ {c} : call'[d] = call[d]
    /\ call'[c].srv = srv /\ call'[c].target = target /\ call'[c].seq = seq
    /\ call'[c].reply = reply /\ call'[c].got = got
    /\ call'[c].kind = call[c].kind /\ call'[c].ui = call[c].ui
    /\ call'[c].token = call[c].token /\ call'[c].sent = call[c].sent
    /\ call'[c].prev = call[c].prev

\* What a step of the window changes of a call, and what it leaves.
Moved(c, ui, srv, number, sent, reply) ==
    /\ call' \in [Calls -> CallRecord]
    /\ \A d \in Calls \ {c} : call'[d] = call[d]
    /\ call'[c].ui = ui /\ call'[c].srv = srv /\ call'[c].token = number
    /\ call'[c].sent = sent /\ call'[c].reply = reply
    /\ call'[c].kind = call[c].kind /\ call'[c].target = call[c].target
    /\ call'[c].prev = call[c].prev /\ call'[c].got = call[c].got

LEMMA TypedCalls == TypeOK => call \in [Calls -> CallRecord]
BY DEF TypeOK, CallRecord

\* The updates of a call, field by field.
LEMMA ServesEffect ==
    ASSUME call \in [Calls -> CallRecord], NEW c \in Calls, NEW step \in ServerSteps, Serves(c, step)
    PROVE  Turned(c, step, call[c].target, call[c].seq, call[c].reply, call[c].got)
BY DEF Serves, Turned, CallRecord

LEMMA RepliesEffect ==
    ASSUME call \in [Calls -> CallRecord], NEW c \in Calls, NEW what \in ReplyKinds, Replies(c, what)
    PROVE  Turned(c, "none", call[c].target, call[c].seq, what, call[c].got)
BY ZenonT(40) DEF Replies, Turned, CallRecord, ServerSteps, ReplyKinds

LEMMA BindsEffect ==
    ASSUME call \in [Calls -> CallRecord], NEW c \in Calls, NEW w \in Some,
           call' = [call EXCEPT ![c] = [@ EXCEPT !.srv = "apply", !.target = w]]
    PROVE  Turned(c, "apply", w, call[c].seq, call[c].reply, call[c].got)
BY ZenonT(40) DEF Turned, CallRecord, ServerSteps

LEMMA RefreshesEffect ==
    ASSUME call \in [Calls -> CallRecord], NEW c \in Calls, NEW n \in Nat,
           call' = [call EXCEPT ![c] = [@ EXCEPT !.srv = "verify", !.seq = n]]
    PROVE  Turned(c, "verify", call[c].target, n, call[c].reply, call[c].got)
BY ZenonT(40) DEF Turned, CallRecord, ServerSteps

LEMMA AnswersEffect ==
    ASSUME call \in [Calls -> CallRecord], NEW c \in Calls, NEW w \in Some,
           call' = [call EXCEPT ![c] = [@ EXCEPT !.srv = "none", !.reply = "ok", !.got = w]]
    PROVE  Turned(c, "none", call[c].target, call[c].seq, "ok", w)
BY ZenonT(40) DEF Turned, CallRecord, ServerSteps, ReplyKinds

LEMMA ReadEffect ==
    ASSUME call \in [Calls -> CallRecord], NEW c \in Calls, NEW w \in Some, NEW what \in ReplyKinds,
           call' = [call EXCEPT ![c] = [@ EXCEPT !.reply = what, !.got = w]]
    PROVE  Turned(c, call[c].srv, call[c].target, call[c].seq, what, w)
BY ZenonT(40) DEF Turned, CallRecord, ReplyKinds

LEMMA RepeatEffect ==
    ASSUME call \in [Calls -> CallRecord], NEW c \in Calls,
           call' = [call EXCEPT ![c] = [@ EXCEPT !.srv = "arrive", !.reply = "none",
                                               !.tries = call[c].tries + 1]]
    PROVE  Moved(c, call[c].ui, "arrive", call[c].token, call[c].sent, "none")
<1> DEFINE n == call[c].tries + 1
           repeated == [call[c] EXCEPT !.srv = "arrive", !.reply = "none", !.tries = n]
<1>1. n \in Nat
  BY DEF CallRecord
<1>2. call' = [call EXCEPT ![c] = repeated]
  BY DEF CallRecord
<1> HIDE DEF n
<1>3. repeated \in CallRecord
  BY ZenonT(40), <1>1 DEF CallRecord, ServerSteps
<1>4. call' \in [Calls -> CallRecord] /\ call'[c] = repeated
  BY <1>2, <1>3
<1> QED BY <1>2, <1>4 DEF Moved, CallRecord

LEMMA EndsEffect ==
    ASSUME call \in [Calls -> CallRecord], NEW c \in Calls, Ends(c)
    PROVE  Moved(c, "done", call[c].srv, call[c].token, call[c].sent, "none")
BY ZenonT(40) DEF Ends, Moved, CallRecord, UiSteps

LEMMA ReadsEffect ==
    ASSUME call \in [Calls -> CallRecord], NEW c \in Calls, NEW step \in UiSteps, NEW w \in Some,
           Reads(c, step, w)
    PROVE  Moved(c, step, call[c].srv, call[c].token, w, "none")
BY ZenonT(40) DEF Reads, Moved, CallRecord

LEMMA LoadsEffect ==
    ASSUME call \in [Calls -> CallRecord], NEW c \in Calls, NEW w \in Some, NEW n \in Nat,
           call' = [call EXCEPT ![c] = [@ EXCEPT !.ui = "auth", !.reply = "none", !.sent = w,
                                                 !.token = n]]
    PROVE  Moved(c, "auth", call[c].srv, n, w, "none")
BY ZenonT(40) DEF Moved, CallRecord, UiSteps

-----------------------------------------------------------------------------
\* A step of the backend keeps the invariant if it binds what it applies and if a
\* recorded switch is only answered.
LEMMA TurnIInv ==
    ASSUME IInv, NEW c \in Calls, NEW srv, NEW target, NEW seq, NEW reply, NEW got,
           Turned(c, srv, target, seq, reply, got), TypeOK', UNCHANGED <<window, restored>>,
           call[c].srv # "none",
           target = call[c].target \/ target \in Workspaces,
           srv \in {"apply", "refresh", "verify", "commit"} => target \in Workspaces,
           reply = call[c].reply \/ srv = "none",
           call[c].kind = "save" /\ srv = "apply" => target = call[c].sent,
           SavesHitSent',
           applied' \subseteq applied \cup {c},
           c \in applied' /\ call[c].kind = "activate" =>
              srv \in {"none", "arrive", "answer"} /\ (Waits(c) => reply # "error")
    PROVE  IInv'
<1>1. /\ call[c].kind # "none" /\ call[c].ui # "new" /\ ~Loads(c)
      /\ Waits(c) => call[c].reply = "none"
  BY DEF IInv, Turns
<1>2. Named'
  BY <1>1 DEF IInv, Named, Turned, Loads
<1>3. Turns'
  BY <1>1 DEF IInv, Turns, Turned, Loads, Waits
<1>4. Bound'
  BY DEF IInv, Bound, Turned, At
<1>5. Answered'
  BY <1>1 DEF IInv, Answered, Turned, Waits
<1>6. Numbered'
  BY DEF IInv, Numbered, Turned, Moves, Owns, Waits
<1>7. Current'
  BY DEF IInv, Current, Turned, Owns
<1> QED BY <1>2, <1>3, <1>4, <1>5, <1>6, <1>7 DEF IInv

LEMMA ArriveSaveStep == ASSUME IInv, NEW c \in Calls, ArriveSave(c) PROVE IInv'
<1>1. call \in [Calls -> CallRecord] /\ active \in Workspaces
  BY TypedCalls DEF IInv, TypeOK
<1>2. CASE call[c].sent = active /\ status[active] # "needs_login"
  <2>1. Turned(c, "apply", active, call[c].seq, call[c].reply, call[c].got)
    BY <1>1, <1>2, BindsEffect DEF ArriveSave, Some
  <2>2. TypeOK'
    BY <1>1, <2>1 DEF IInv, TypeOK, Turned, CallRecord, ArriveSave, Proposed
  <2> QED BY <1>1, <1>2, <2>1, <2>2, TurnIInv
             DEF ArriveSave, At, IInv, Answered, SavesHitSent
<1>3. CASE ~(call[c].sent = active /\ status[active] # "needs_login")
  <2>1. Turned(c, "none", call[c].target, call[c].seq, "error", call[c].got)
    BY <1>1, <1>3, RepliesEffect DEF ArriveSave, ReplyKinds
  <2>2. TypeOK'
    BY <1>1, <2>1 DEF IInv, TypeOK, Turned, CallRecord, ArriveSave, Proposed
  <2> QED BY <1>1, <2>1, <2>2, TurnIInv DEF ArriveSave, At, IInv, Answered, SavesHitSent
<1> QED BY <1>2, <1>3

\* A repeated switch is answered, another one verified.
LEMMA ArriveActivateStep == ASSUME IInv, NEW c \in Calls, ArriveActivate(c) PROVE IInv'
<1>1. call \in [Calls -> CallRecord] /\ active \in Workspaces /\ call[c].target \in Workspaces
  BY TypedCalls DEF IInv, TypeOK, Named, ArriveActivate, At
<1>2. CASE Recorded(c)
  <2>1. Turned(c, "answer", call[c].target, call[c].seq, call[c].reply, call[c].got)
    BY <1>1, <1>2, ServesEffect DEF ArriveActivate, ServerSteps
  <2>2. TypeOK'
    BY <1>1, <1>2, <2>1 DEF IInv, TypeOK, Turned, CallRecord, ArriveActivate, Proposed
  <2> QED
    BY <1>1, <1>2, <2>1, <2>2, TurnIInv DEF ArriveActivate, At, IInv, Answered, SavesHitSent
<1>3. CASE ~Recorded(c)
  <2>1. Turned(c, "verify", call[c].target, call[c].seq, call[c].reply, call[c].got)
    BY <1>1, <1>3, ServesEffect DEF ArriveActivate, ServerSteps
  <2>2. TypeOK'
    BY <1>1, <1>3, <2>1 DEF IInv, TypeOK, Turned, CallRecord, ArriveActivate, Proposed
  <2> QED
    BY <1>1, <1>3, <2>1, <2>2, TurnIInv
       DEF ArriveActivate, At, IInv, Answered, SavesHitSent, Recorded
<1> QED BY <1>2, <1>3 DEF ArriveActivate

\* A login works on the workspace it names.
LEMMA ArriveLoginStep == ASSUME IInv, NEW c \in Calls, ArriveLogin(c) PROVE IInv'
<1>1. call \in [Calls -> CallRecord] /\ active \in Workspaces /\ call[c].target \in Workspaces
  BY TypedCalls DEF IInv, TypeOK, Named, ArriveLogin, At
<1>2. CASE TRUE
  <2>1. Turned(c, "apply", call[c].target, call[c].seq, call[c].reply, call[c].got)
    BY <1>1, <1>2, ServesEffect DEF ArriveLogin, ServerSteps
  <2>2. TypeOK'
    BY <1>1, <1>2, <2>1 DEF IInv, TypeOK, Turned, CallRecord, ArriveLogin
  <2> QED
    BY <1>1, <1>2, <2>1, <2>2, TurnIInv DEF ArriveLogin, At, IInv, Answered, SavesHitSent
<1> QED BY <1>2 DEF ArriveLogin

\* A logout is bound to the active workspace.
LEMMA ArriveLogoutStep == ASSUME IInv, NEW c \in Calls, ArriveLogout(c) PROVE IInv'
<1>1. call \in [Calls -> CallRecord] /\ active \in Workspaces
  BY TypedCalls DEF IInv, TypeOK
<1>2. CASE status[active] = "needs_login" /\ Serves(c, "answer")
  <2>1. Turned(c, "answer", call[c].target, call[c].seq, call[c].reply, call[c].got)
    BY <1>1, <1>2, ServesEffect DEF ServerSteps
  <2>2. TypeOK'
    BY <1>1, <1>2, <2>1 DEF IInv, TypeOK, Turned, CallRecord, ArriveLogout
  <2> QED
    BY <1>1, <1>2, <2>1, <2>2, TurnIInv DEF ArriveLogout, At, IInv, Answered, SavesHitSent
<1>3. CASE Replies(c, "error")
  <2>1. Turned(c, "none", call[c].target, call[c].seq, "error", call[c].got)
    BY <1>1, <1>3, RepliesEffect DEF ReplyKinds
  <2>2. TypeOK'
    BY <1>1, <1>3, <2>1 DEF IInv, TypeOK, Turned, CallRecord, ArriveLogout
  <2> QED
    BY <1>1, <1>3, <2>1, <2>2, TurnIInv DEF ArriveLogout, At, IInv, Answered, SavesHitSent
<1>4. CASE call' = [call EXCEPT ![c] = [@ EXCEPT !.srv = "apply", !.target = active]]
  <2>1. Turned(c, "apply", active, call[c].seq, call[c].reply, call[c].got)
    BY <1>1, <1>4, BindsEffect DEF Some
  <2>2. TypeOK'
    BY <1>1, <1>4, <2>1 DEF IInv, TypeOK, Turned, CallRecord, ArriveLogout
  <2> QED
    BY <1>1, <1>4, <2>1, <2>2, TurnIInv DEF ArriveLogout, At, IInv, Answered, SavesHitSent
<1> QED BY <1>2, <1>3, <1>4 DEF ArriveLogout

\* What is applied hits the workspace it was sent for.
LEMMA ApplySaveStep == ASSUME IInv, NEW c \in Calls, ApplySave(c) PROVE IInv'
<1>1. /\ call \in [Calls -> CallRecord] /\ call[c].target \in Workspaces
      /\ call[c].target = call[c].sent /\ call[c].prev \in Workspaces
  BY TypedCalls DEF IInv, TypeOK, Named, Bound, ApplySave, At
<1>9. saved' \subseteq [seen : Workspaces, sent : Workspaces, hit : Workspaces]
                  /\ faults' \in Nat
  BY <1>1 DEF IInv, TypeOK, ApplySave, Fault
<1>2. CASE Serves(c, "refresh")
  <2>1. Turned(c, "refresh", call[c].target, call[c].seq, call[c].reply, call[c].got)
    BY <1>1, <1>2, ServesEffect DEF ServerSteps
  <2>2. TypeOK'
    BY <1>1, <1>9, <2>1 DEF IInv, TypeOK, Turned, CallRecord, ApplySave
  <2> QED
    BY <1>1, <1>2, <2>1, <2>2, TurnIInv DEF ApplySave, At, IInv, Answered, SavesHitSent
<1>3. CASE Replies(c, "error")
  <2>1. Turned(c, "none", call[c].target, call[c].seq, "error", call[c].got)
    BY <1>1, <1>3, RepliesEffect DEF ReplyKinds
  <2>2. TypeOK'
    BY <1>1, <1>9, <2>1 DEF IInv, TypeOK, Turned, CallRecord, ApplySave
  <2> QED
    BY <1>1, <1>3, <2>1, <2>2, TurnIInv DEF ApplySave, At, IInv, Answered, SavesHitSent
<1> QED BY <1>2, <1>3 DEF ApplySave

\* A switch that is verified is not recorded yet.
LEMMA VerifyStep == ASSUME IInv, NEW c \in Calls, Verify(c) PROVE IInv'
<1>1. call \in [Calls -> CallRecord] /\ call[c].target \in Workspaces
  BY TypedCalls DEF IInv, TypeOK, Named, Verify
<1>9. status' \in [Workspaces -> {"ready", "sync_degraded", "needs_login"}]
                  /\ faults' \in Nat
  BY <1>1 DEF IInv, TypeOK, Verify, Fault
<1>2. CASE Serves(c, "commit")
  <2>1. Turned(c, "commit", call[c].target, call[c].seq, call[c].reply, call[c].got)
    BY <1>1, <1>2, ServesEffect DEF ServerSteps
  <2>2. TypeOK'
    BY <1>1, <1>9, <2>1 DEF IInv, TypeOK, Turned, CallRecord, Verify
  <2> QED
    BY <1>1, <1>2, <2>1, <2>2, TurnIInv DEF Verify, At, IInv, Answered, SavesHitSent
<1>3. CASE Replies(c, "error")
  <2>1. Turned(c, "none", call[c].target, call[c].seq, "error", call[c].got)
    BY <1>1, <1>3, RepliesEffect DEF ReplyKinds
  <2>2. TypeOK'
    BY <1>1, <1>9, <2>1 DEF IInv, TypeOK, Turned, CallRecord, Verify
  <2> QED
    BY <1>1, <1>3, <2>1, <2>2, TurnIInv DEF Verify, At, IInv, Answered, SavesHitSent
<1>4. CASE Replies(c, "retry")
  <2>1. Turned(c, "none", call[c].target, call[c].seq, "retry", call[c].got)
    BY <1>1, <1>4, RepliesEffect DEF ReplyKinds
  <2>2. TypeOK'
    BY <1>1, <1>9, <2>1 DEF IInv, TypeOK, Turned, CallRecord, Verify
  <2> QED
    BY <1>1, <1>4, <2>1, <2>2, TurnIInv DEF Verify, At, IInv, Answered, SavesHitSent
<1> QED BY <1>2, <1>3, <1>4 DEF Verify

\* A switch is recorded and then answered.
LEMMA CommitStep == ASSUME IInv, NEW c \in Calls, Commit(c) PROVE IInv'
<1>1. call \in [Calls -> CallRecord] /\ call[c].target \in Workspaces
  BY TypedCalls DEF IInv, TypeOK, Named, Commit
<1>2. CASE TRUE
  <2>1. Turned(c, "answer", call[c].target, call[c].seq, call[c].reply, call[c].got)
    BY <1>1, <1>2, ServesEffect DEF Commit, ServerSteps
  <2>2. TypeOK'
    BY <1>1, <1>2, <2>1 DEF IInv, TypeOK, Turned, CallRecord, Commit
  <2> QED
    BY <1>1, <1>2, <2>1, <2>2, TurnIInv DEF Commit, At, IInv, Answered, SavesHitSent, Turns
<1> QED BY <1>2 DEF Commit

\* A superseded switch is not recorded.
LEMMA SupersedeStep == ASSUME IInv, NEW c \in Calls, Supersede(c) PROVE IInv'
<1>1. call \in [Calls -> CallRecord] /\ call[c].target \in Workspaces
  BY TypedCalls DEF IInv, TypeOK, Named, Supersede
<1>2. CASE TRUE
  <2>1. Turned(c, "none", call[c].target, call[c].seq, "error", call[c].got)
    BY <1>1, <1>2, RepliesEffect DEF Supersede, ReplyKinds
  <2>2. TypeOK'
    BY <1>1, <1>2, <2>1 DEF IInv, TypeOK, Turned, CallRecord, Supersede
  <2> QED
    BY <1>1, <1>2, <2>1, <2>2, TurnIInv DEF Supersede, At, IInv, Answered, SavesHitSent
<1> QED BY <1>2 DEF Supersede

\* An answer names the active workspace.
LEMMA AnswerStep == ASSUME IInv, NEW c \in Calls, Answer(c) PROVE IInv'
<1>1. call \in [Calls -> CallRecord] /\ active \in Workspaces
  BY TypedCalls DEF IInv, TypeOK
<1>2. CASE TRUE
  <2>1. Turned(c, "none", call[c].target, call[c].seq, "ok", active)
    BY <1>1, <1>2, AnswersEffect DEF Answer, Some
  <2>2. TypeOK'
    BY <1>1, <1>2, <2>1 DEF IInv, TypeOK, Turned, CallRecord, Answer
  <2> QED
    BY <1>1, <1>2, <2>1, <2>2, TurnIInv DEF Answer, At, IInv, Answered, SavesHitSent
<1> QED BY <1>2 DEF Answer

\* A login is no switch.
LEMMA ApplyLoginStep == ASSUME IInv, NEW c \in Calls, ApplyLogin(c) PROVE IInv'
<1>1. call \in [Calls -> CallRecord] /\ active \in Workspaces /\ call[c].target \in Workspaces
  BY TypedCalls DEF IInv, TypeOK, Named, ApplyLogin, At
<1>5. status' \in [Workspaces -> {"ready", "sync_degraded", "needs_login"}]
  BY <1>1 DEF IInv, TypeOK, ApplyLogin, At, Fault
<1>6. session' \in [Workspaces -> BOOLEAN]
  BY <1>1 DEF IInv, TypeOK, ApplyLogin, At, Fault
<1>7. faults' \in Nat
  BY <1>1 DEF IInv, TypeOK, ApplyLogin, At, Fault
<1>8. active' \in Workspaces
  BY <1>1 DEF IInv, TypeOK, ApplyLogin, At, Fault
<1>2. CASE Serves(c, "answer")
  <2>1. Turned(c, "answer", call[c].target, call[c].seq, call[c].reply, call[c].got)
    BY <1>1, <1>2, ServesEffect DEF ServerSteps
  <2>2. TypeOK'
    BY <1>1, <1>5, <1>6, <1>7, <1>8, <2>1 DEF IInv, TypeOK, Turned, CallRecord, ApplyLogin
  <2> QED
    BY <1>1, <1>2, <2>1, <2>2, TurnIInv DEF ApplyLogin, At, IInv, Answered, SavesHitSent
<1>3. CASE Replies(c, "error")
  <2>1. Turned(c, "none", call[c].target, call[c].seq, "error", call[c].got)
    BY <1>1, <1>3, RepliesEffect DEF ReplyKinds
  <2>2. TypeOK'
    BY <1>1, <1>5, <1>6, <1>7, <1>8, <2>1 DEF IInv, TypeOK, Turned, CallRecord, ApplyLogin
  <2> QED
    BY <1>1, <1>3, <2>1, <2>2, TurnIInv DEF ApplyLogin, At, IInv, Answered, SavesHitSent
<1> QED BY <1>2, <1>3 DEF ApplyLogin

\* A logout changes no workspace of the window.
LEMMA ApplyLogoutStep == ASSUME IInv, NEW c \in Calls, ApplyLogout(c) PROVE IInv'
<1>1. call \in [Calls -> CallRecord] /\ active \in Workspaces /\ call[c].target \in Workspaces
  BY TypedCalls DEF IInv, TypeOK, Named, ApplyLogout, At
<1>5. status' \in [Workspaces -> {"ready", "sync_degraded", "needs_login"}]
  BY <1>1 DEF IInv, TypeOK, ApplyLogout, At, Fault
<1>6. session' \in [Workspaces -> BOOLEAN]
  BY <1>1 DEF IInv, TypeOK, ApplyLogout, At, Fault
<1>7. faults' \in Nat
  BY <1>1 DEF IInv, TypeOK, ApplyLogout, At, Fault
<1>2. CASE Serves(c, "answer")
  <2>1. Turned(c, "answer", call[c].target, call[c].seq, call[c].reply, call[c].got)
    BY <1>1, <1>2, ServesEffect DEF ServerSteps
  <2>2. TypeOK'
    BY <1>1, <1>5, <1>6, <1>7, <2>1 DEF IInv, TypeOK, Turned, CallRecord, ApplyLogout
  <2> QED
    BY <1>1, <1>2, <2>1, <2>2, TurnIInv DEF ApplyLogout, At, IInv, Answered, SavesHitSent
<1>3. CASE Replies(c, "retry")
  <2>1. Turned(c, "none", call[c].target, call[c].seq, "retry", call[c].got)
    BY <1>1, <1>3, RepliesEffect DEF ReplyKinds
  <2>2. TypeOK'
    BY <1>1, <1>5, <1>6, <1>7, <2>1 DEF IInv, TypeOK, Turned, CallRecord, ApplyLogout
  <2> QED
    BY <1>1, <1>3, <2>1, <2>2, TurnIInv DEF ApplyLogout, At, IInv, Answered, SavesHitSent
<1> QED BY <1>2, <1>3 DEF ApplyLogout

\* The switch of a save's refresh is numbered in the backend.
LEMMA RefreshAfterSaveStep ==
    ASSUME IInv, NEW c \in Calls, NEW now \in {clock, clock + 1}, RefreshAfterSave(c, now)
    PROVE  IInv'
<1> DEFINE n == Later(reqSeq, now)
<1>1. /\ call \in [Calls -> CallRecord] /\ call[c].target \in Workspaces
      /\ now \in Nat /\ n \in Nat
  BY TypedCalls DEF IInv, TypeOK, Named, RefreshAfterSave, At, Later
<1>2. Turned(c, "verify", call[c].target, n, call[c].reply, call[c].got)
  <2> HIDE DEF n
  <2>1. call' = [call EXCEPT ![c] = [@ EXCEPT !.srv = "verify", !.seq = n]]
    BY DEF RefreshAfterSave, n
  <2> QED BY <1>1, <2>1, RefreshesEffect
<1>3. TypeOK'
  BY <1>1, <1>2 DEF IInv, TypeOK, Turned, CallRecord, RefreshAfterSave, Passing
<1> QED
  BY <1>1, <1>2, <1>3, TurnIInv DEF RefreshAfterSave, At, IInv, Answered, SavesHitSent

-----------------------------------------------------------------------------
\* A step of the window keeps what it knows of its calls if it reads only with the
\* backend's answer in hand.
LEMMA MoveCalls ==
    ASSUME IInv, NEW c \in Calls, NEW ui, NEW srv, NEW number, NEW sent,
           Moved(c, ui, srv, number, sent, "none"), UNCHANGED <<applied, saved>>,
           call[c].ui # "new", ui # "new",
           srv = call[c].srv \/ (srv = "arrive" /\ ui = "wait"),
           ui \in {"workspaces", "auth", "list", "data", "current"} => srv = "none",
           sent = call[c].sent \/ (srv = "none" /\ sent \in Workspaces)
    PROVE  Named' /\ Turns' /\ Bound' /\ SavesHitSent' /\ Answered'
<1>1. call[c].kind # "none"
  BY DEF IInv, Turns
<1>2. Named'
  BY <1>1 DEF IInv, Named, Moved, Loads
<1>3. Turns'
  BY <1>1 DEF IInv, Turns, Moved, Loads, Waits
<1>4. Bound'
  BY DEF IInv, Bound, Moved, At
<1>5. Answered'
  BY <1>1 DEF IInv, Answered, Moved, Waits
<1>6. SavesHitSent'
  BY DEF IInv, SavesHitSent
<1> QED BY <1>2, <1>3, <1>4, <1>5, <1>6

\* Only the transition that owns the window shows data, and then it is over.
LEMMA NumberedKept ==
    ASSUME IInv, NEW c \in Calls, NEW ui, NEW srv, NEW sent,
           Moved(c, ui, srv, call[c].token, sent, "none"), token' = token,
           Moves(c)' => Moves(c),
           data' = data \/ (Moves(c) /\ Owns(c) /\ ~Moves(c)')
    PROVE  Numbered'
<1>1. \A d \in Calls : Moves(d)' => Moves(d)
  BY DEF Moved, Moves, Waits
<1>2. \A d \in Calls : call'[d].token = call[d].token
  BY DEF Moved
<1>3. ASSUME NEW d \in Calls, Moves(d)', Owns(d)' PROVE data' = NoWorkspace
  BY <1>1, <1>2, <1>3 DEF IInv, Numbered, Owns
<1> QED BY <1>1, <1>2, <1>3 DEF IInv, Numbered

\* The window's requests go elsewhere only by the transition that owns it, or by a
\* switch that puts its workspace back.
LEMMA CurrentKept ==
    ASSUME IInv, NEW c \in Calls, token' = token, call'[c].token = call[c].token,
           \A d \in Calls \ {c} : call'[d] = call[d],
           restored => restored',
           ctx' = ctx \/ restored' \/ (Moves(c) /\ Owns(c)),
           call'[c].ui = "data" /\ Owns(c) /\ ~restored' => call'[c].sent = ctx',
           data' # NoWorkspace /\ ~restored' => data' = ctx'
    PROVE  Current'
<1> SUFFICES ASSUME ~restored', NEW d \in Calls, call'[d].ui = "data", Owns(d)'
             PROVE  call'[d].sent = ctx'
  BY DEF Current
<1>1. CASE d = c
  BY <1>1 DEF Owns
<1>2. CASE d # c
  <2>1. call[d].ui = "data" /\ Owns(d) /\ Moves(d)
    BY <1>2 DEF Owns, Moves
  <2>2. ~(Moves(c) /\ Owns(c))
    BY <1>2, <2>1 DEF IInv, Numbered, Owns
  <2> QED BY <1>2, <2>1, <2>2 DEF IInv, Current
<1> QED BY <1>1, <1>2

\* A transition takes a number above all others, and empties the screen.
LEMMA TransitionKept ==
    ASSUME IInv, NEW c \in Calls, NEW w \in Workspaces, NEW now \in {clock, clock + 1},
           Transition(now, w), \A d \in Calls \ {c} : call'[d] = call[d],
           call'[c].ui # "data",
           \/ call'[c].token = token'
           \/ call'[c].token = call[c].token /\ ~Moves(c)'
    PROVE  Numbered' /\ Current' /\ token' \in Nat /\ clock' \in Nat
<1>1. /\ token \in Nat /\ now \in Nat /\ token' = Later(token, now) /\ clock' = now
      /\ data' = NoWorkspace
      /\ \A d \in Calls : call[d].token \in Nat /\ call[d].token <= token
  BY TypedCalls DEF IInv, TypeOK, Transition, Passing, CallRecord, Numbered
<1>2. token' \in Nat /\ token' > token
  BY <1>1 DEF Later
<1>3. \A d \in Calls : call'[d].token <= token'
  BY <1>1, <1>2
<1>4. \A d \in Calls \ {c} : ~Owns(d)' /\ (Moves(d)' => Moves(d))
  BY <1>1, <1>2 DEF Owns, Moves, Waits
<1>5. ASSUME NEW d \in Calls, NEW e \in Calls, Moves(d)', Moves(e)', call'[d].token = call'[e].token
      PROVE  d = e
  <2>1. CASE d # c /\ e # c
    BY <1>4, <1>5, <2>1 DEF IInv, Numbered
  <2>2. CASE d = c /\ e # c
    BY <1>4, <1>5, <2>2 DEF Owns
  <2>3. CASE d # c /\ e = c
    BY <1>4, <1>5, <2>3 DEF Owns
  <2> QED BY <2>1, <2>2, <2>3
<1>6. Numbered'
  BY <1>1, <1>3, <1>5 DEF Numbered
<1>7. Current'
  BY <1>1, <1>4 DEF Current
<1> QED BY <1>1, <1>2, <1>6, <1>7

\* A step of the window keeps the invariant: the parts.
LEMMA MoveIInv ==
    ASSUME IInv, NEW c \in Calls, NEW ui, NEW srv, NEW number, NEW sent,
           Moved(c, ui, srv, number, sent, "none"), UNCHANGED <<applied, saved>>,
           call[c].ui # "new", ui # "new",
           srv = call[c].srv \/ (srv = "arrive" /\ ui = "wait"),
           ui \in {"workspaces", "auth", "list", "data", "current"} => srv = "none",
           sent = call[c].sent \/ (srv = "none" /\ sent \in Workspaces),
           TypeOK', Numbered', Current'
    PROVE  IInv'
BY MoveCalls DEF IInv

LEMMA RepeatStep == ASSUME IInv, NEW c \in Calls, Repeat(c) PROVE IInv'
<1>1. call \in [Calls -> CallRecord] /\ call[c].ui = "wait"
  BY TypedCalls DEF IInv, Repeat, Waits
<1>2. Moved(c, "wait", "arrive", call[c].token, call[c].sent, "none")
  BY <1>1, RepeatEffect DEF Repeat
<1>3. faults' \in Nat
  BY DEF IInv, TypeOK, Repeat, Fault
<1>4. TypeOK'
  BY <1>2, <1>3 DEF IInv, TypeOK, Moved, CallRecord, Repeat
<1>5. Numbered'
  BY <1>1, <1>2, NumberedKept DEF Repeat, Moves, Moved, Waits
<1>6. Current'
  BY <1>1, <1>2, CurrentKept DEF Repeat, Moved, IInv, Current
<1> QED BY <1>1, <1>2, <1>4, <1>5, <1>6, MoveIInv DEF Repeat

\* An operation that ends and leaves the window's workspaces alone.
LEMMA EndsStep ==
    ASSUME IInv, NEW c \in Calls, Ends(c), call[c].ui # "new",
           UNCHANGED <<backend, token, data, saved, restored, dropped, clock>>,
           shown' \in Workspaces, ref' \in Workspaces, ctx' = ctx,
           loading' \in BOOLEAN, busy' \in BOOLEAN, loadingAll' \in BOOLEAN, faults' \in Nat
    PROVE  IInv'
<1>1. call \in [Calls -> CallRecord]
  BY TypedCalls DEF IInv
<1>2. Moved(c, "done", call[c].srv, call[c].token, call[c].sent, "none")
  BY <1>1, EndsEffect
<1>4. TypeOK'
  BY <1>2 DEF IInv, TypeOK, Moved, CallRecord
<1>5. Numbered'
  BY <1>2, NumberedKept DEF Moves, Moved, Waits
<1>6. Current'
  BY <1>1, <1>2, CurrentKept DEF Moved, IInv, Current
<1> QED BY <1>1, <1>2, <1>4, <1>5, <1>6, MoveIInv

\* A switch that puts the workspace before it back says so, or owns the window.
LEMMA RollbackStep ==
    ASSUME IInv, NEW c \in Calls, Rollback(c), Moves(c), call[c].kind = "activate", faults' \in Nat
    PROVE  IInv'
<1>1. /\ call \in [Calls -> CallRecord] /\ call[c].prev \in Workspaces
      /\ call[c].ui # "new"
  BY TypedCalls DEF IInv, Named, Moves, Waits
<1>2. Moved(c, "done", call[c].srv, call[c].token, call[c].sent, "none")
  BY <1>1, EndsEffect DEF Rollback
<1>4. TypeOK'
  <2>1. loading' \in BOOLEAN /\ busy' \in BOOLEAN /\ restored' \in BOOLEAN
    BY DEF IInv, TypeOK, Rollback, Leaves
  <2> QED BY <1>1, <1>2, <2>1 DEF IInv, TypeOK, Moved, CallRecord, Rollback
<1>5. Numbered'
  BY <1>2, NumberedKept DEF Rollback, Moves, Moved, Waits
<1>6. Current'
  <2>1. Owns(c) => data = NoWorkspace
    BY DEF IInv, Numbered
  <2> QED BY <1>1, <1>2, <2>1, CurrentKept DEF Moved, Rollback
<1> QED BY <1>1, <1>2, <1>4, <1>5, <1>6, MoveIInv DEF Rollback

LEMMA RefuseStep == ASSUME IInv, NEW c \in Calls, Refuse(c) PROVE IInv'
<1>1. faults' \in Nat
  BY DEF IInv, TypeOK, Refuse, Refused, Fault
<1>2. CASE call[c].kind = "activate"
  BY <1>1, <1>2, RollbackStep DEF Refuse, Moves
<1>3. CASE call[c].kind # "activate"
  BY <1>1, <1>3, EndsStep DEF Refuse, Waits, IInv, TypeOK
<1> QED BY <1>2, <1>3

LEMMA ActivatedStep == ASSUME IInv, NEW c \in Calls, Activated(c) PROVE IInv'
<1>1. /\ call \in [Calls -> CallRecord] /\ call[c].got \in Workspaces
      /\ call[c].ui = "wait" /\ call[c].kind = "activate" /\ call[c].srv = "none"
  BY TypedCalls DEF IInv, Named, Turns, Activated, Waits
<1>2. CASE Owns(c)
  <2>1. shown' = call[c].got /\ ref' = call[c].got /\ ctx' = call[c].got
    BY <1>2 DEF Activated, Shows
  <2>2. Moved(c, "auth", "none", call[c].token, ctx', "none")
    BY <1>1, <1>2, <2>1, ReadsEffect DEF Activated, UiSteps, Some
  <2>3. TypeOK'
    BY <1>1, <2>1, <2>2 DEF IInv, TypeOK, Moved, CallRecord, Activated
  <2>4. Numbered'
    BY <1>1, <2>2, NumberedKept DEF Activated, Moves, Waits
  <2>5. data = NoWorkspace
    BY <1>1, <1>2 DEF IInv, Numbered, Moves, Waits
  <2>6. Current'
    BY <1>1, <1>2, <2>2, <2>5, CurrentKept DEF Moved, Activated, Moves, Waits
  <2> QED BY <1>1, <2>1, <2>2, <2>3, <2>4, <2>6, MoveIInv DEF Activated
<1>3. CASE ~Owns(c)
  BY <1>1, <1>3, EndsStep DEF Activated, Shows, IInv, TypeOK
<1> QED BY <1>2, <1>3

\* loadAll begins a transition of its own.
LEMMA ReloadStep ==
    ASSUME IInv, NEW c \in Calls, NEW now \in {clock, clock + 1}, Reload(c, now),
           call[c].ui = "wait", call[c].srv = "none"
    PROVE  IInv'
<1>1. call \in [Calls -> CallRecord] /\ ref \in Workspaces /\ Transition(now, ref)
  BY TypedCalls DEF IInv, TypeOK, Reload
<1>2. token' \in Nat /\ clock' \in Nat
  BY <1>1 DEF IInv, TypeOK, Transition, Passing, Later
<1>3. Moved(c, "auth", "none", token', ref, "none")
  <2>1. PICK n : n = token'
    OBVIOUS
  <2> QED BY <1>1, <1>2, <2>1, LoadsEffect DEF Reload, Some
<1>4. Numbered' /\ Current'
  BY <1>1, <1>3, TransitionKept DEF Moved
<1>5. TypeOK'
  BY <1>1, <1>2, <1>3 DEF IInv, TypeOK, Moved, CallRecord, Reload, Transition, Some
<1> QED BY <1>1, <1>3, <1>4, <1>5, MoveIInv DEF Reload

LEMMA SavedStep == ASSUME IInv, NEW c \in Calls, Saved(c) PROVE IInv'
<1>1. call[c].ui = "wait" /\ call[c].srv = "none"
  BY DEF IInv, Turns, Saved, Waits
<1>2. CASE \E now \in {clock, clock + 1} : Reload(c, now)
  BY <1>1, <1>2, ReloadStep
<1>3. CASE Ends(c) /\ UNCHANGED <<backend, window, clock, faults, aux>>
  BY <1>1, <1>3, EndsStep DEF IInv, TypeOK
<1> QED BY <1>2, <1>3 DEF Saved

LEMMA LoggedOutStep == ASSUME IInv, NEW c \in Calls, LoggedOut(c) PROVE IInv'
<1>1. /\ call \in [Calls -> CallRecord] /\ call[c].ui = "wait" /\ call[c].srv = "none"
      /\ ref \in Workspaces
  BY TypedCalls DEF IInv, TypeOK, Turns, LoggedOut, Waits
<1>2. PICK now \in {clock, clock + 1} :
         \/ Reload(c, now)
         \/ /\ Transition(now, ref) /\ Ends(c) /\ dropped' = TRUE
            /\ UNCHANGED <<backend, shown, ref, busy, loadingAll, faults, saved, restored>>
  BY DEF LoggedOut
<1>3. CASE Reload(c, now)
  BY <1>1, <1>3, ReloadStep
<1>4. CASE ~Reload(c, now)
  <2>1. Moved(c, "done", "none", call[c].token, call[c].sent, "none")
    BY <1>1, <1>2, <1>4, EndsEffect
  <2>2. Numbered' /\ Current' /\ token' \in Nat /\ clock' \in Nat
    BY <1>1, <1>2, <1>4, <2>1, TransitionKept DEF Moved, Moves, Waits
  <2>3. TypeOK'
    BY <1>1, <1>2, <1>4, <2>1, <2>2 DEF IInv, TypeOK, Moved, CallRecord, Transition, Some
  <2> QED BY <1>1, <1>2, <1>4, <2>1, <2>2, <2>3, MoveIInv
<1> QED BY <1>3, <1>4

\* What a read for the workspace w leaves alone.
LEMMA ReadsStep ==
    ASSUME IInv, NEW c \in Calls, NEW step \in {"workspaces", "list", "current"},
           Reads(c, step, ctx), call[c].ui # "new", call[c].srv = "none",
           step # "workspaces" => Moves(c),
           UNCHANGED <<backend, window, clock, faults, aux>>
    PROVE  IInv'
<1>1. call \in [Calls -> CallRecord] /\ ctx \in Workspaces
  BY TypedCalls DEF IInv, TypeOK
<1>2. Moved(c, step, "none", call[c].token, ctx, "none")
  BY <1>1, ReadsEffect DEF UiSteps, Some
<1>3. TypeOK'
  BY <1>1, <1>2 DEF IInv, TypeOK, Moved, CallRecord
<1>4. Numbered'
  BY <1>2, NumberedKept DEF Moved, Moves, Waits
<1>5. Current'
  BY <1>1, <1>2, CurrentKept DEF Moved, IInv, Current
<1> QED BY <1>1, <1>2, <1>3, <1>4, <1>5, MoveIInv

LEMMA LoggedInStep == ASSUME IInv, NEW c \in Calls, LoggedIn(c) PROVE IInv'
BY ReadsStep DEF LoggedIn, IInv, Turns, Waits

LEMMA FetchStep == ASSUME IInv, NEW c \in Calls, Fetch(c) PROVE IInv'
<1>1. /\ call \in [Calls -> CallRecord] /\ active \in Workspaces
      /\ call[c].srv = "none" /\ ~Waits(c) /\ Loads(c)
  BY TypedCalls DEF IInv, TypeOK, Turns, Fetch, Waits, Loads
<1>2. PICK what \in ReplyKinds : call' = [call EXCEPT ![c] = [@ EXCEPT !.reply = what, !.got = active]]
  BY DEF Fetch, ReplyKinds
<1>3. Turned(c, "none", call[c].target, call[c].seq, what, active)
  BY <1>1, <1>2, ReadEffect DEF Some
<1>4. faults' \in Nat
  BY DEF IInv, TypeOK, Fetch, Fault
<1>5. TypeOK'
  BY <1>1, <1>3, <1>4 DEF IInv, TypeOK, Turned, CallRecord, Fetch
<1>6. Named' /\ Turns' /\ Bound' /\ Answered' /\ SavesHitSent'
  <2>1. Named'
    BY <1>1, <1>3 DEF IInv, Named, Turned, Loads
  <2>2. Turns'
    BY <1>1, <1>3 DEF IInv, Turns, Turned, Loads, Waits
  <2>3. Bound'
    BY <1>1, <1>3 DEF IInv, Bound, Turned, At
  <2>4. Answered'
    BY <1>1, <1>3 DEF IInv, Answered, Turned, Waits, Fetch
  <2>5. SavesHitSent'
    BY DEF IInv, SavesHitSent, Fetch
  <2> QED BY <2>1, <2>2, <2>3, <2>4, <2>5
<1>7. Numbered'
  BY <1>1, <1>3 DEF IInv, Numbered, Turned, Moves, Owns, Waits, Fetch
<1>8. Current'
  BY <1>1, <1>3 DEF IInv, Current, Turned, Owns, Fetch
<1> QED BY <1>5, <1>6, <1>7, <1>8 DEF IInv

LEMMA GotWorkspacesStep ==
    ASSUME IInv, NEW c \in Calls, NEW now \in {clock, clock + 1}, GotWorkspaces(c, now)
    PROVE  IInv'
<1> DEFINE w == call[c].got
<1>1. /\ call \in [Calls -> CallRecord] /\ w \in Workspaces /\ Transition(now, w)
      /\ call[c].srv = "none" /\ call[c].ui = "workspaces"
  BY TypedCalls DEF IInv, Named, Turns, GotWorkspaces, Got, Loads
<1>2. token' \in Nat /\ clock' \in Nat
  BY <1>1 DEF IInv, TypeOK, Transition, Passing, Later
<1>3. Moved(c, "auth", "none", token', w, "none")
  BY <1>1, <1>2, LoadsEffect DEF GotWorkspaces, Some
<1>4. Numbered' /\ Current'
  BY <1>1, <1>3, TransitionKept DEF Moved
<1>5. TypeOK'
  BY <1>1, <1>2, <1>3 DEF IInv, TypeOK, Moved, CallRecord, GotWorkspaces, Transition, Some
<1> QED BY <1>1, <1>3, <1>4, <1>5, MoveIInv DEF GotWorkspaces

LEMMA GotAuthStep == ASSUME IInv, NEW c \in Calls, GotAuth(c) PROVE IInv'
<1>1. /\ call[c].srv = "none" /\ call[c].ui = "auth" /\ Moves(c)
  BY DEF IInv, Turns, GotAuth, Got, Loads, Moves
<1>2. CASE Reads(c, "list", ctx) /\ UNCHANGED <<backend, window, clock, faults, aux>>
  BY <1>1, <1>2, ReadsStep
<1>3. CASE Reads(c, "current", ctx) /\ UNCHANGED <<backend, window, clock, faults, aux>>
  BY <1>1, <1>3, ReadsStep
<1>4. CASE call[c].kind = "activate" /\ Rollback(c) /\ UNCHANGED faults
  BY <1>1, <1>4, RollbackStep DEF IInv, TypeOK
<1>5. CASE Finish(c) /\ UNCHANGED <<shown, ref, ctx, data>>
  BY <1>1, <1>5, EndsStep DEF IInv, TypeOK, Finish, Leaves, EndsAll
<1> QED BY <1>2, <1>3, <1>4, <1>5 DEF GotAuth

LEMMA GotCurrentStep == ASSUME IInv, NEW c \in Calls, GotCurrent(c) PROVE IInv'
<1>1. /\ call \in [Calls -> CallRecord] /\ call[c].got \in Workspaces
      /\ call[c].ui = "current" /\ Moves(c)
  BY TypedCalls DEF IInv, Named, GotCurrent, Got, Loads, Moves
<1>2. Moved(c, "done", call[c].srv, call[c].token, call[c].sent, "none")
  BY <1>1, EndsEffect DEF GotCurrent, Finish
<1>3. /\ loading' \in BOOLEAN /\ busy' \in BOOLEAN /\ loadingAll' \in BOOLEAN
      /\ ref' \in Workspaces /\ ctx' \in Workspaces
  BY <1>1 DEF IInv, TypeOK, GotCurrent, Finish, Leaves, EndsAll
<1>4. TypeOK'
  BY <1>2, <1>3 DEF IInv, TypeOK, Moved, CallRecord, GotCurrent, Finish
<1>5. Numbered'
  BY <1>2, NumberedKept DEF GotCurrent, Finish, Moved, Moves, Waits
<1>6. Current'
  <2>1. Owns(c) => data = NoWorkspace
    BY <1>1 DEF IInv, Numbered
  <2>2. ~Owns(c) => ctx' = ctx
    BY DEF GotCurrent
  <2> QED BY <1>1, <1>2, <2>1, <2>2, CurrentKept
             DEF Moved, GotCurrent, Finish, IInv, Current
<1> QED BY <1>1, <1>2, <1>4, <1>5, <1>6, MoveIInv DEF GotCurrent, Finish

LEMMA GotListStep == ASSUME IInv, NEW c \in Calls, GotList(c) PROVE IInv'
<1>1. /\ call \in [Calls -> CallRecord] /\ call[c].got \in Workspaces
      /\ call[c].ui = "list" /\ call[c].srv = "none" /\ Moves(c)
  BY TypedCalls DEF IInv, Named, Turns, GotList, Got, Loads, Moves
<1>2. /\ shown' \in Workspaces /\ ref' \in Workspaces /\ ctx' \in Workspaces
      /\ loading' \in BOOLEAN /\ busy' \in BOOLEAN /\ loadingAll' \in BOOLEAN
      /\ ctx' = ctx \/ Owns(c)
  BY <1>1 DEF IInv, TypeOK, GotList, Leaves, EndsAll
<1>3. Owns(c) => data = NoWorkspace
  BY <1>1 DEF IInv, Numbered
<1>4. CASE Reads(c, "data", ctx')
  <2>1. Moved(c, "data", "none", call[c].token, ctx', "none")
    BY <1>1, <1>2, <1>4, ReadsEffect DEF UiSteps, Some
  <2>2. TypeOK'
    BY <1>2, <2>1 DEF IInv, TypeOK, Moved, CallRecord, GotList
  <2>3. Numbered'
    BY <1>1, <2>1, NumberedKept DEF GotList
  <2>4. Current'
    BY <1>1, <1>2, <1>3, <2>1, CurrentKept DEF Moved, GotList, IInv, Current
  <2> QED BY <1>1, <1>2, <2>1, <2>2, <2>3, <2>4, MoveIInv DEF GotList
<1>5. CASE Ends(c)
  <2>1. Moved(c, "done", call[c].srv, call[c].token, call[c].sent, "none")
    BY <1>1, <1>5, EndsEffect
  <2>2. TypeOK'
    BY <1>2, <2>1 DEF IInv, TypeOK, Moved, CallRecord, GotList
  <2>3. Numbered'
    BY <1>1, <2>1, NumberedKept DEF GotList
  <2>4. Current'
    BY <1>1, <1>2, <1>3, <2>1, CurrentKept DEF Moved, GotList, IInv, Current
  <2> QED BY <1>1, <2>1, <2>2, <2>3, <2>4, MoveIInv DEF GotList
<1> QED BY <1>4, <1>5 DEF GotList

LEMMA GotDataStep == ASSUME IInv, NEW c \in Calls, GotData(c) PROVE IInv'
<1>1. /\ call \in [Calls -> CallRecord] /\ call[c].sent \in Some
      /\ call[c].ui = "data" /\ Moves(c)
  BY TypedCalls DEF IInv, GotData, Got, Moves, CallRecord
<1>2. Moved(c, "done", call[c].srv, call[c].token, call[c].sent, "none")
  BY <1>1, EndsEffect DEF GotData, Finish
<1>3. /\ loading' \in BOOLEAN /\ busy' \in BOOLEAN /\ loadingAll' \in BOOLEAN
      /\ data' \in Some
  BY <1>1 DEF IInv, TypeOK, GotData, Finish, Leaves, EndsAll
<1>4. TypeOK'
  BY <1>2, <1>3 DEF IInv, TypeOK, Moved, CallRecord, GotData, Finish
<1>5. Numbered'
  BY <1>1, <1>2, NumberedKept DEF GotData, Finish, Moved, Moves, Waits
<1>6. Current'
  <2>1. ~restored /\ Owns(c) => call[c].sent = ctx
    BY <1>1 DEF IInv, Current
  <2> QED BY <1>1, <1>2, <2>1, CurrentKept DEF Moved, GotData, Finish, IInv, Current
<1> QED BY <1>1, <1>2, <1>4, <1>5, <1>6, MoveIInv DEF GotData, Finish

-----------------------------------------------------------------------------
\* What a click makes of a call.
Clicked(c, kind, target, number, sent, prev) ==
    /\ call' \in [Calls -> CallRecord]
    /\ \A d \in Calls \ {c} : call'[d] = call[d]
    /\ call'[c].kind = kind /\ call'[c].ui = "wait" /\ call'[c].srv = "arrive"
    /\ call'[c].target = target /\ call'[c].token = number
    /\ call'[c].sent = sent /\ call'[c].prev = prev /\ call'[c].reply = "none"

LEMMA ClickedEffect ==
    ASSUME call \in [Calls -> CallRecord], NEW c \in Calls, NEW k \in AllKinds, NEW w \in Some,
           NEW s \in Nat, NEW n \in Nat, NEW sent \in Some, NEW prev \in Some,
           call' = [call EXCEPT ![c] = [NewCall EXCEPT
                       !.kind = k, !.ui = "wait", !.srv = "arrive", !.target = w,
                       !.seq = s, !.token = n, !.sent = sent, !.prev = prev]]
    PROVE  Clicked(c, k, w, n, sent, prev)
BY DEF Clicked, CallRecord, NewCall, UiSteps, ServerSteps, Some

LEMMA ClickCalls ==
    ASSUME IInv, NEW c \in Calls, NEW kind \in AllKinds, NEW target, NEW number, NEW sent \in Workspaces,
           NEW prev \in Workspaces, Clicked(c, kind, target, number, sent, prev),
           kind \in {"activate", "login"} => target \in Workspaces,
           call[c].ui = "new", UNCHANGED <<applied, saved>>
    PROVE  Named' /\ Turns' /\ Bound' /\ SavesHitSent' /\ Answered'
<1>1. Named'
  BY DEF IInv, Named, Clicked, Loads
<1>2. Turns'
  BY DEF IInv, Turns, Clicked, Loads, Waits, AllKinds
<1>3. Bound'
  BY DEF IInv, Bound, Clicked, At
<1>4. Answered'
  BY DEF IInv, Answered, Clicked, Waits
<1>5. SavesHitSent'
  BY DEF IInv, SavesHitSent
<1> QED BY <1>1, <1>2, <1>3, <1>4, <1>5

LEMMA ActivateStep ==
    ASSUME IInv, NEW c \in Calls, NEW w \in Workspaces, NEW now \in {clock, clock + 1},
           Activate(c, w, now)
    PROVE  IInv'
<1>1. /\ call \in [Calls -> CallRecord] /\ ref \in Workspaces /\ Transition(now, w)
      /\ call[c].ui = "new"
  BY TypedCalls DEF IInv, TypeOK, Activate, Offered
<1>2. token' \in Nat /\ clock' \in Nat
  BY <1>1 DEF IInv, TypeOK, Transition, Passing, Later
<1>3. Clicked(c, "activate", w, token', w, ref)
  BY <1>1, <1>2, ClickedEffect DEF Activate, CurrentActive, AllKinds, Some
<1>4. Numbered' /\ Current'
  BY <1>1, <1>3, TransitionKept DEF Clicked
<1>5. TypeOK'
  BY <1>1, <1>2, <1>3 DEF IInv, TypeOK, Clicked, CallRecord, Activate, Transition, Some
<1>6. Named' /\ Turns' /\ Bound' /\ SavesHitSent' /\ Answered'
  BY <1>1, <1>3, ClickCalls DEF Activate, AllKinds
<1> QED BY <1>4, <1>5, <1>6 DEF IInv

\* A click that asks the backend and begins no transition.
LEMMA AskStep ==
    ASSUME IInv, NEW c \in Calls, NEW k \in {"save", "login", "logout"}, NEW w \in Some,
           Ask(c, k, w), k = "login" => w \in Workspaces
    PROVE  IInv'
<1>1. /\ call \in [Calls -> CallRecord] /\ shown \in Workspaces /\ ctx \in Workspaces
      /\ token \in Nat /\ call[c].ui = "new"
  BY TypedCalls DEF IInv, TypeOK, Ask, Offered
<1>2. PICK n : n = 0 /\ n \in Nat
  OBVIOUS
<1>3. Clicked(c, k, w, 0, ctx, shown)
  BY <1>1 DEF Clicked, Ask, CallRecord, NewCall, UiSteps, ServerSteps, AllKinds, Some
<1>4. ~Moves(c)' /\ call'[c].ui # "data"
  BY <1>3 DEF Moves, Clicked
<1>5. \A d \in Calls : Moves(d)' => Moves(d) /\ call'[d] = call[d]
  BY <1>3, <1>4 DEF Clicked, Moves, Waits
<1>6. Numbered'
  <2>1. \A d \in Calls : call'[d].token <= token
    BY <1>1, <1>3 DEF IInv, Numbered, Clicked
  <2> QED BY <1>5, <2>1 DEF IInv, Numbered, Owns, Ask
<1>7. Current'
  BY <1>3, <1>4 DEF IInv, Current, Owns, Clicked, Ask
<1>8. TypeOK'
  BY <1>1, <1>3 DEF IInv, TypeOK, Clicked, CallRecord, Ask
<1>9. Named' /\ Turns' /\ Bound' /\ SavesHitSent' /\ Answered'
  BY <1>1, <1>3, ClickCalls DEF Ask, AllKinds
<1> QED BY <1>6, <1>7, <1>8, <1>9 DEF IInv

LEMMA InitIInv == Init => IInv
<1> SUFFICES ASSUME Init PROVE IInv
  OBVIOUS
<1>1. NewCall \in CallRecord
  BY DEF NewCall, CallRecord, UiSteps, ServerSteps, Some
<1>2. \A c \in Calls : call[c] = NewCall
  BY DEF Init
<1>3. TypeOK
  BY ZenonT(40), <1>1 DEF Init, TypeOK, CallRecord, Some
<1>4. Named /\ Turns /\ Bound /\ SavesHitSent /\ Answered
  BY <1>2 DEF Init, NewCall, Named, Turns, Bound, SavesHitSent, Answered, Loads, Waits, At
<1>5. Numbered /\ Current
  BY <1>2 DEF Init, NewCall, Numbered, Current, Moves, Waits
<1> QED BY <1>3, <1>4, <1>5 DEF IInv

LEMMA NextIInv == IInv /\ [Next]_vars => IInv'
<1> SUFFICES ASSUME IInv, [Next]_vars PROVE IInv'
  OBVIOUS
<1>1. CASE UNCHANGED vars
  <2>1. TypeOK' /\ Named' /\ Turns' /\ Bound' /\ SavesHitSent' /\ Answered'
    BY <1>1
       DEF vars, IInv, TypeOK, Named, Turns, Bound, SavesHitSent, Answered, Loads, Waits, At
  <2>2. Numbered' /\ Current'
    BY <1>1 DEF vars, IInv, Numbered, Current, Moves, Owns, Waits
  <2> QED BY <2>1, <2>2 DEF IInv
<1>2. ASSUME NEW c \in Calls, Click(c) PROVE IInv'
  <2>1. CASE Save(c)
    BY <2>1, AskStep DEF Save, Some
  <2>2. CASE Logout(c)
    BY <2>2, AskStep DEF Logout, Some
  <2>3. ASSUME NEW w \in Workspaces, Login(c, w) PROVE IInv'
    BY <2>3, AskStep DEF Login, Some
  <2>4. ASSUME NEW w \in Workspaces, NEW now \in {clock, clock + 1}, Activate(c, w, now)
        PROVE  IInv'
    BY <2>4, ActivateStep
  <2> QED BY <1>2, <2>1, <2>2, <2>3, <2>4 DEF Click
<1>3. ASSUME NEW c \in Calls, Serve(c) PROVE IInv'
  BY <1>3, ArriveSaveStep, ArriveActivateStep, ArriveLoginStep, ArriveLogoutStep,
     ApplySaveStep,
     ApplyLoginStep, ApplyLogoutStep, RefreshAfterSaveStep, VerifyStep, CommitStep,
     SupersedeStep, AnswerStep DEF Serve
<1>4. ASSUME NEW c \in Calls, Show(c) PROVE IInv'
  BY <1>4, RepeatStep, RefuseStep, ActivatedStep, SavedStep, LoggedOutStep, LoggedInStep,
     FetchStep, GotAuthStep, GotListStep, GotDataStep, GotCurrentStep, GotWorkspacesStep DEF Show
<1> QED BY <1>1, <1>2, <1>3, <1>4 DEF Next

\* The strengthened invariant holds in every reachable state.
THEOREM SwitchInvariant == Spec => []IInv
BY InitIInv, NextIInv, PTL DEF Spec

\* Every variable keeps its type, with any workspaces, calls, retries and bounds.
THEOREM SwitchTypeOK == Spec => []TypeOK
<1>1. IInv => TypeOK
  BY DEF IInv
<1> QED BY <1>1, SwitchInvariant, PTL

\* A save changes the organization its request was sent for, however many switches,
\* logins and logouts overlap it, because it is bound to the active workspace when it
\* arrives and refused when that is another one (capture_dispatch_workspace).
THEOREM SwitchSavesHitSent == Spec => []SavesHitSent
<1>1. IInv => SavesHitSent
  BY DEF IInv
<1> QED BY <1>1, SwitchInvariant, PTL

\* The screen shows the workspace the next click is sent for, unless an overtaken
\* switch has put its own workspace back: only the transition with the last number
\* shows anything (isCurrentWorkspaceTransition).
THEOREM SwitchDataOfContext == Spec => []DataOfContext
<1>1. IInv => DataOfContext
  BY DEF IInv, Current, DataOfContext
<1> QED BY <1>1, SwitchInvariant, PTL

\* A switch that was recorded under its key is not refused when the window repeats it.
THEOREM SwitchNoFalseRefusal == Spec => []NoFalseRefusal
<1>1. IInv => NoFalseRefusal
  BY DEF IInv, Answered, NoFalseRefusal, At
<1> QED BY <1>1, SwitchInvariant, PTL
=============================================================================
