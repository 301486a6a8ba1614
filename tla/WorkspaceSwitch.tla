---------------------------- MODULE WorkspaceSwitch ----------------------------
(***************************************************************************)
(* The desktop's workspaces, one per organization: the window              *)
(* (src/renderer/App.tsx) and the local backend (backend/app/runtime.py).  *)
(* The backend has one active workspace; the window shows one, and sends   *)
(* with each request the one it believes to be active.  A call is started  *)
(* by the user:                                                            *)
(*   activate  switch to another workspace                                 *)
(*   save      change the organization, its members or the own profile; the*)
(*             backend then verifies the workspace of the request again by *)
(*             switching to it                                             *)
(*   login     sign in to an organization, which makes it active           *)
(*   logout    sign out of the active one                                  *)
(* While a transition of the window loads it shows nothing the user could  *)
(* click, but calls started before may still come back.  A transition is   *)
(* named by a number taken from the clock, and the later one owns the      *)
(* window.  What the cloud decides about a session is SessionLifecycle.    *)
(***************************************************************************)
EXTENDS Naturals

CONSTANTS Workspaces, NoWorkspace, Calls,
          Kinds,       \* calls the user makes: a subset of AllKinds
          Retries,     \* how often the window repeats a call answered 503
          MaxClock,    \* bound: milliseconds that pass
          MaxFaults    \* bound: refusals, outages and answers that come too late

AllKinds == {"activate", "save", "login", "logout"}

ASSUME SwitchAssumption ==
    /\ NoWorkspace \notin Workspaces /\ Kinds \subseteq AllKinds
    /\ Retries \in Nat /\ MaxClock \in Nat /\ MaxFaults \in Nat

VARIABLES
    active, status, session,  \* backend: the active workspace, runtime_status,
                              \* and whether its secret is there
    lastSeq, reqSeq,  \* highest sequence of a recorded switch; _request_seq
    applied,          \* calls whose switch is recorded under their key
    token,            \* number of the window's last transition
    shown, ref, ctx,  \* window: workspacesState.activeSandboxId,
                      \* activeSandboxIdRef, workspaceRequestContext.sandboxId
    loading, busy, loadingAll,  \* loading screen, workspaceManagerBusy,
                                \* loadAllInFlightRef
    data,             \* workspace whose data are on the screen
    call,             \* what each call is and where it stands
    clock, faults,
    saved,            \* auxiliary: workspace a save was sent for, and changed
    restored,         \* auxiliary: a superseded activation put its workspace back
    dropped           \* auxiliary: a reload was dropped because one was running

backend == <<active, status, session, lastSeq, reqSeq, applied>>
window == <<token, shown, ref, ctx, loading, busy, loadingAll, data>>
aux == <<saved, restored, dropped>>
vars == <<backend, window, call, clock, faults, aux>>

Some == Workspaces \cup {NoWorkspace}
UiSteps == {"new", "wait", "workspaces", "auth", "list", "data", "current", "done"}
ServerSteps == {"none", "arrive", "apply", "refresh", "verify", "commit", "answer"}

NewCall == [kind |-> "none", ui |-> "new", srv |-> "none", target |-> NoWorkspace,
            seq |-> 0, token |-> 0, sent |-> NoWorkspace, prev |-> NoWorkspace,
            reply |-> "none", got |-> NoWorkspace, tries |-> 0]

TypeOK ==
    /\ active \in Workspaces
    /\ status \in [Workspaces -> {"ready", "sync_degraded", "needs_login"}]
    /\ session \in [Workspaces -> BOOLEAN]
    /\ lastSeq \in Nat /\ reqSeq \in Nat /\ applied \subseteq Calls
    /\ token \in Nat /\ shown \in Workspaces /\ ref \in Workspaces /\ ctx \in Workspaces
    /\ loading \in BOOLEAN /\ busy \in BOOLEAN /\ loadingAll \in BOOLEAN
    /\ data \in Some
    /\ call \in [Calls -> [kind : AllKinds \cup {"none"}, ui : UiSteps, srv : ServerSteps,
                           target : Some, seq : Nat, token : Nat, sent : Some, prev : Some,
                           reply : {"none", "ok", "error", "retry", "signed_out"},
                           got : Some, tries : Nat]]
    /\ clock \in Nat /\ faults \in Nat
    /\ saved \subseteq [seen : Workspaces, sent : Workspaces, hit : Workspaces]
    /\ restored \in BOOLEAN /\ dropped \in BOOLEAN

\* A window that has started, for a user signed in to every organization.
Init ==
    /\ active \in Workspaces
    /\ status = [w \in Workspaces |-> "ready"]
    /\ session = [w \in Workspaces |-> TRUE]
    /\ lastSeq = 0 /\ reqSeq = 0 /\ applied = {}
    /\ token = 0 /\ shown = active /\ ref = active /\ ctx = active
    /\ loading = FALSE /\ busy = FALSE /\ loadingAll = FALSE /\ data = active
    /\ call = [c \in Calls |-> NewCall]
    /\ clock = 1 /\ faults = 0
    /\ saved = {} /\ restored = FALSE /\ dropped = FALSE

-----------------------------------------------------------------------------
Fault == faults < MaxFaults /\ faults' = faults + 1

\* Both sides number by the clock, and go on from their own last number.
Later(number, now) == IF now > number THEN now ELSE number + 1
Passing(now) == now \in {clock, clock + 1} /\ now <= MaxClock /\ clock' = now

-----------------------------------------------------------------------------
(* The user's clicks; the loading screen offers none.                       *)

Offered(c, k) == call[c].ui = "new" /\ k \in Kinds /\ ~loading
Waits(c) == call[c].ui = "wait"

\* beginWorkspaceTransition.
Transition(now, w) ==
    /\ Passing(now)
    /\ token' = Later(token, now)
    /\ ctx' = w /\ loading' = TRUE /\ data' = NoWorkspace

\* Mutant of CurrentActive: a switch remembers no workspace before it.
CurrentNone == NoWorkspace

\* currentActiveSandboxId: the workspace a failed switch goes back to.
CurrentActive == ref

Activate(c, w, now) ==
    /\ Offered(c, "activate") /\ ~busy
    /\ Transition(now, w)
    /\ ref' = w /\ busy' = TRUE
    /\ call' = [call EXCEPT ![c] = [NewCall EXCEPT
                   !.kind = "activate", !.ui = "wait", !.srv = "arrive", !.target = w,
                   !.seq = token', !.token = token', !.sent = w, !.prev = CurrentActive]]
    /\ UNCHANGED <<backend, shown, loadingAll, faults, aux>>

Ask(c, k, w) ==
    /\ Offered(c, k)
    /\ call' = [call EXCEPT ![c] = [NewCall EXCEPT
                   !.kind = k, !.ui = "wait", !.srv = "arrive", !.target = w,
                   !.seq = token, !.sent = ctx, !.prev = shown]]
    /\ UNCHANGED <<backend, window, clock, faults, aux>>

Save(c) == Ask(c, "save", NoWorkspace)
Login(c, w) == Ask(c, "login", w) /\ \A d \in Calls : call[d].kind = "login" => call[d].ui = "done"
Logout(c) == Ask(c, "logout", NoWorkspace)

-----------------------------------------------------------------------------
(* The backend                                                              *)

At(c, k, step) == call[c].kind = k /\ call[c].srv = step
Serves(c, step) == call' = [call EXCEPT ![c].srv = step]
Replies(c, what) == call' = [call EXCEPT ![c] = [@ EXCEPT !.srv = "none", !.reply = what]]
Proposed(c) == reqSeq' = IF call[c].seq > reqSeq THEN call[c].seq ELSE reqSeq

\* Mutant: a save works on the workspace that is active when it arrives.
ArriveSaveUnbound(c) ==
    /\ At(c, "save", "arrive")
    /\ Proposed(c)
    /\ IF status[active] # "needs_login"
       THEN call' = [call EXCEPT ![c] = [@ EXCEPT !.srv = "apply", !.target = active]]
       ELSE Replies(c, "error")
    /\ UNCHANGED <<active, status, session, lastSeq, applied, window, clock, faults, aux>>

\* capture_dispatch_workspace binds a request to the active workspace, if it is
\* the one the window believed it to be.
ArriveSave(c) ==
    /\ At(c, "save", "arrive")
    /\ Proposed(c)
    /\ IF call[c].sent = active /\ status[active] # "needs_login"
       THEN call' = [call EXCEPT ![c] = [@ EXCEPT !.srv = "apply", !.target = active]]
       ELSE Replies(c, "error")
    /\ UNCHANGED <<active, status, session, lastSeq, applied, window, clock, faults, aux>>

\* Mutant of Recorded: the answer of a repeated switch is not looked up.
RecordedNowhere(c) == FALSE

\* A switch repeated under its key was already made.
Recorded(c) == c \in applied

ArriveActivate(c) ==
    /\ At(c, "activate", "arrive")
    /\ Proposed(c)
    /\ Serves(c, IF Recorded(c) THEN "answer" ELSE "verify")
    /\ UNCHANGED <<active, status, session, lastSeq, applied, window, clock, faults, aux>>

ArriveLogin(c) ==
    /\ At(c, "login", "arrive")
    /\ Serves(c, "apply")
    /\ UNCHANGED <<backend, window, clock, faults, aux>>

ArriveLogout(c) ==
    /\ At(c, "logout", "arrive")
    /\ \/ status[active] = "needs_login" /\ Serves(c, "answer")
       \/ status[active] # "needs_login" /\ ~session[active] /\ Replies(c, "error")
       \/ /\ status[active] # "needs_login" /\ session[active]
          /\ call' = [call EXCEPT ![c] = [@ EXCEPT !.srv = "apply", !.target = active]]
    /\ UNCHANGED <<backend, window, clock, faults, aux>>

\* The cloud takes the change; a repeated one it has taken before is the same.
ApplySave(c) ==
    /\ At(c, "save", "apply")
    /\ \/ /\ saved' = saved \cup {[seen |-> call[c].prev, sent |-> call[c].sent,
                                  hit |-> call[c].target]}
          /\ Serves(c, "refresh") /\ UNCHANGED faults
       \/ Fault /\ Replies(c, "error") /\ UNCHANGED saved
    /\ UNCHANGED <<backend, window, clock, restored, dropped>>

\* _refresh_organization: a switch to the request's workspace, of now.
RefreshAfterSave(c, now) ==
    /\ At(c, "save", "refresh")
    /\ Passing(now)
    /\ reqSeq' = Later(reqSeq, now)
    /\ call' = [call EXCEPT ![c] = [@ EXCEPT !.srv = "verify", !.seq = Later(reqSeq, now)]]
    /\ UNCHANGED <<active, status, session, lastSeq, applied, window, faults, aux>>

\* switch: the cloud is asked about the session first.
Verify(c) ==
    LET w == call[c].target
        Marks(s) == status' = [status EXCEPT ![w] = s]
    IN /\ call[c].srv = "verify"
       /\ \/ session[w] /\ Serves(c, "commit") /\ UNCHANGED <<status, faults>>
          \/ ~session[w] /\ Replies(c, "error") /\ UNCHANGED <<status, faults>>
          \/ session[w] /\ Fault /\ UNCHANGED status /\ Replies(c, "error")
          \/ session[w] /\ Fault /\ Marks("needs_login") /\ Replies(c, "error")
          \/ session[w] /\ Fault /\ Marks("sync_degraded") /\ Replies(c, "retry")
       /\ UNCHANGED <<active, session, lastSeq, reqSeq, applied, window, clock, aux>>

\* A switch of a later number was applied.
Superseded(c) == lastSeq >= call[c].seq

Commit(c) ==
    /\ call[c].srv = "commit" /\ ~Superseded(c)
    /\ active' = call[c].target
    /\ status' = [status EXCEPT ![call[c].target] = "ready"]
    /\ lastSeq' = call[c].seq
    /\ applied' = applied \cup {c}
    /\ Serves(c, "answer")
    /\ UNCHANGED <<session, reqSeq, window, clock, faults, aux>>

Supersede(c) ==
    /\ call[c].srv = "commit" /\ Superseded(c)
    /\ Replies(c, "error")
    /\ UNCHANGED <<backend, window, clock, faults, aux>>

\* The answer names the workspace that is active by then.
Answer(c) ==
    /\ call[c].srv = "answer"
    /\ call' = [call EXCEPT ![c] = [@ EXCEPT !.srv = "none", !.reply = "ok", !.got = active]]
    /\ UNCHANGED <<backend, window, clock, faults, aux>>

\* _apply_login makes the organization's workspace active and records no switch.
ApplyLogin(c) ==
    /\ At(c, "login", "apply")
    /\ \/ /\ active' = call[c].target
          /\ status' = [status EXCEPT ![call[c].target] = "ready"]
          /\ session' = [session EXCEPT ![call[c].target] = TRUE]
          /\ Serves(c, "answer") /\ UNCHANGED faults
       \/ Fault /\ Replies(c, "error") /\ UNCHANGED <<active, status, session>>
    /\ UNCHANGED <<lastSeq, reqSeq, applied, window, clock, aux>>

ApplyLogout(c) ==
    /\ At(c, "logout", "apply")
    /\ \/ /\ status' = [status EXCEPT ![call[c].target] = "needs_login"]
          /\ session' = [session EXCEPT ![call[c].target] = FALSE]
          /\ Serves(c, "answer") /\ UNCHANGED faults
       \/ /\ Fault /\ status' = [status EXCEPT ![call[c].target] = "sync_degraded"]
          /\ Replies(c, "retry") /\ UNCHANGED session
    /\ UNCHANGED <<active, lastSeq, reqSeq, applied, window, clock, aux>>

Serve(c) ==
    \/ ArriveSave(c) \/ ArriveActivate(c) \/ ArriveLogin(c) \/ ArriveLogout(c)
    \/ ApplySave(c) \/ ApplyLogin(c) \/ ApplyLogout(c)
    \/ \E now \in {clock, clock + 1} : RefreshAfterSave(c, now)
    \/ Verify(c) \/ Commit(c) \/ Supersede(c) \/ Answer(c)

-----------------------------------------------------------------------------
(* The window: answers                                                      *)

Owns(c) == call[c].token = token
Tried(c) == call[c].tries < Retries

\* An answer the window repeats the call for: 503, or none at all.
Repeat(c) ==
    /\ Waits(c)
    /\ \/ call[c].reply = "retry" /\ Tried(c) /\ UNCHANGED faults
       \/ call[c].reply = "ok" /\ call[c].kind # "login" /\ Tried(c) /\ Fault
    /\ call' = [call EXCEPT ![c] = [@ EXCEPT !.srv = "arrive", !.reply = "none",
                                       !.tries = call[c].tries + 1]]
    /\ UNCHANGED <<backend, window, clock, aux>>

\* An error, an answer that is not the workspace asked for, or the dispatcher's 504
\* while the backend goes on.
Refused(c) ==
    \/ call[c].reply = "error" /\ UNCHANGED faults
    \/ call[c].reply = "retry" /\ ~Tried(c) /\ UNCHANGED faults
    \/ /\ call[c].kind = "activate" /\ call[c].reply = "ok"
       /\ call[c].got # call[c].target /\ UNCHANGED faults
    \/ call[c].reply = "none" /\ call[c].srv # "arrive" /\ Fault

Ends(c) == call' = [call EXCEPT ![c] = [@ EXCEPT !.ui = "done", !.reply = "none"]]

\* Mutant of Leaves: a switch leaves the loading screen to the refresh, which
\* leaves it to its caller.
LeavesItOn(c) ==
    /\ loading' = IF Owns(c) /\ call[c].kind # "activate" THEN FALSE ELSE loading
    /\ busy' = IF Owns(c) /\ call[c].kind = "activate" THEN FALSE ELSE busy

\* The finally of an operation clears what it set if it still owns the window.
Leaves(c) ==
    /\ loading' = IF Owns(c) THEN FALSE ELSE loading
    /\ busy' = IF Owns(c) /\ call[c].kind = "activate" THEN FALSE ELSE busy

\* handleActivateWorkspace puts the workspace before it back.
Rollback(c) ==
    /\ ref' = call[c].prev /\ ctx' = call[c].prev
    /\ restored' = (restored \/ ~Owns(c))
    /\ Leaves(c) /\ Ends(c)
    /\ UNCHANGED <<backend, token, shown, loadingAll, data, clock, saved, dropped>>

Refuse(c) ==
    /\ Waits(c) /\ Refused(c)
    /\ IF call[c].kind = "activate" THEN Rollback(c)
       ELSE Ends(c) /\ UNCHANGED <<backend, window, clock, aux>>

\* refreshWorkspaceAwareState shows the answer if its transition owns the window.
Shows(c, w) ==
    IF Owns(c) THEN shown' = w /\ ref' = w /\ ctx' = w ELSE UNCHANGED <<shown, ref, ctx>>

Reads(c, step, w) ==
    call' = [call EXCEPT ![c] = [@ EXCEPT !.ui = step, !.reply = "none", !.sent = w]]

Activated(c) ==
    /\ Waits(c) /\ call[c].kind = "activate"
    /\ call[c].reply = "ok" /\ call[c].got = call[c].target
    /\ Shows(c, call[c].got)
    /\ IF Owns(c) THEN Reads(c, "auth", ctx') ELSE Ends(c)
    /\ UNCHANGED <<backend, token, loading, busy, loadingAll, data, clock, faults, aux>>

\* loadAll, unless one is running already.
Reload(c, now) ==
    /\ ~loadingAll /\ loadingAll' = TRUE
    /\ Transition(now, ref)
    /\ call' = [call EXCEPT ![c] = [@ EXCEPT !.ui = "auth", !.reply = "none", !.sent = ref,
                                       !.token = token']]
    /\ UNCHANGED <<backend, shown, ref, busy, faults, aux>>

\* The profile is loaded again with everything else, other settings are not.
Saved(c) ==
    /\ Waits(c) /\ call[c].kind = "save" /\ call[c].reply = "ok"
    /\ \/ \E now \in {clock, clock + 1} : Reload(c, now)
       \/ Ends(c) /\ UNCHANGED <<backend, window, clock, faults, aux>>

\* A logout puts up the loading screen before it asks for the reload.
LoggedOut(c) ==
    /\ Waits(c) /\ call[c].kind = "logout" /\ call[c].reply = "ok"
    /\ \E now \in {clock, clock + 1} :
          \/ Reload(c, now)
          \/ /\ loadingAll
             /\ Transition(now, ref)
             /\ Ends(c) /\ dropped' = TRUE
             /\ UNCHANGED <<backend, shown, ref, busy, loadingAll, faults, saved, restored>>

LoggedIn(c) ==
    /\ Waits(c) /\ call[c].kind = "login" /\ call[c].reply = "ok"
    /\ Reads(c, "workspaces", ctx)
    /\ UNCHANGED <<backend, window, clock, faults, aux>>

-----------------------------------------------------------------------------
(* The window: loading                                                      *)

\* A read is answered by the backend: the list of workspaces whatever the window
\* believes, the rest only for the workspace it was sent for.
Fetch(c) ==
    LET stale == call[c].sent # active
        read == IF status[active] = "needs_login" THEN "signed_out" ELSE "ok"
        Gets(what) == call' = [call EXCEPT ![c] = [@ EXCEPT !.reply = what, !.got = active]]
    IN /\ call[c].ui \in {"workspaces", "auth", "list", "data", "current"} /\ call[c].reply = "none"
       /\ \/ Gets(IF call[c].ui \in {"auth", "data"} /\ stale THEN "error" ELSE read)
             /\ UNCHANGED faults
          \/ call[c].ui \in {"auth", "data"} /\ Fault /\ Gets("error")
       /\ UNCHANGED <<backend, window, clock, aux>>

Got(c, step) == call[c].ui = step /\ call[c].reply # "none"

\* A login begins its transition when it knows the workspace it has made active.
GotWorkspaces(c, now) ==
    LET w == call[c].got
    IN /\ Got(c, "workspaces")
       /\ Transition(now, w) /\ shown' = w /\ ref' = w
       /\ call' = [call EXCEPT ![c] = [@ EXCEPT !.ui = "auth", !.reply = "none", !.sent = w,
                                          !.token = token']]
       /\ UNCHANGED <<backend, busy, loadingAll, faults, aux>>

\* loadAll has come to an end.
EndsAll(c) ==
    loadingAll' = IF call[c].kind \in {"save", "logout"} THEN FALSE ELSE loadingAll

Finish(c) ==
    /\ Leaves(c) /\ Ends(c) /\ EndsAll(c)
    /\ UNCHANGED <<backend, token, clock, faults, aux>>

GotAuth(c) ==
    LET failed == call[c].reply = "error"
        asks == call[c].kind \in {"save", "logout"} /\ Owns(c)
    IN /\ Got(c, "auth")
       /\ \/ /\ ~failed /\ Owns(c)
             /\ Reads(c, "list", ctx)
             /\ UNCHANGED <<backend, window, clock, faults, aux>>
          \/ /\ failed /\ call[c].kind = "activate"
             /\ Rollback(c) /\ UNCHANGED faults
          \/ /\ failed /\ asks
             /\ Reads(c, "current", ctx)
             /\ UNCHANGED <<backend, window, clock, faults, aux>>
          \/ /\ IF failed THEN call[c].kind # "activate" /\ ~asks ELSE ~Owns(c)
             /\ Finish(c) /\ UNCHANGED <<shown, ref, ctx, data>>

\* A loadAll that failed asks which workspace is active before it ends.
GotCurrent(c) ==
    /\ Got(c, "current")
    /\ IF Owns(c) THEN ref' = call[c].got /\ ctx' = call[c].got ELSE UNCHANGED <<ref, ctx>>
    /\ Finish(c) /\ UNCHANGED <<shown, data>>

\* loadAll takes the answer into the window's requests as well.
GotList(c) ==
    LET w == call[c].got
        goes == Owns(c) /\ call[c].reply # "signed_out"
    IN /\ Got(c, "list")
       /\ IF Owns(c) THEN shown' = w /\ ref' = w ELSE UNCHANGED <<shown, ref>>
       /\ ctx' = IF Owns(c) /\ call[c].kind \in {"save", "logout"} THEN w ELSE ctx
       /\ IF goes
          THEN Reads(c, "data", ctx') /\ UNCHANGED <<loading, busy, loadingAll>>
          ELSE Leaves(c) /\ Ends(c) /\ EndsAll(c)
       /\ UNCHANGED <<backend, token, data, clock, faults, aux>>

\* Mutant: what was read is shown whoever owns the window.
GotDataAnyway(c) ==
    /\ Got(c, "data")
    /\ data' = IF call[c].reply = "ok" THEN call[c].sent ELSE data
    /\ Finish(c) /\ UNCHANGED <<shown, ref, ctx>>

GotData(c) ==
    /\ Got(c, "data")
    /\ data' = IF Owns(c) /\ call[c].reply = "ok" THEN call[c].sent ELSE data
    /\ Finish(c) /\ UNCHANGED <<shown, ref, ctx>>

Show(c) ==
    \/ Repeat(c) \/ Refuse(c) \/ Activated(c) \/ Saved(c) \/ LoggedOut(c) \/ LoggedIn(c)
    \/ Fetch(c) \/ GotAuth(c) \/ GotList(c) \/ GotData(c)
    \/ GotCurrent(c)
    \/ \E now \in {clock, clock + 1} : GotWorkspaces(c, now)

Click(c) ==
    \/ Save(c) \/ Logout(c)
    \/ \E w \in Workspaces : Login(c, w)
    \/ \E w \in Workspaces, now \in {clock, clock + 1} : Activate(c, w, now)

Next == \E c \in Calls : Click(c) \/ Serve(c) \/ Show(c)

\* The backend has threads for the calls, and the browser runs every callback.
Spec == Init /\ [][Next]_vars /\ \A c \in Calls : WF_vars(Serve(c)) /\ WF_vars(Show(c))

-----------------------------------------------------------------------------
(* Properties                                                               *)

\* A save changes the workspace its request was sent for, or none, whatever is
\* switched between the click and the request's turn.
SavesHitSent == \A s \in saved : s.hit = s.sent

\* What is on the screen belongs to the workspace the next click is sent for: an
\* answer of an overtaken transition reaches neither.  Only the catch of an
\* overtaken switch parts them, which puts its own workspace back (restored).
DataOfContext == ~loading /\ ~restored /\ data # NoWorkspace => data = ctx

\* A switch that was made is not answered as refused when its first answer is
\* lost and the window repeats it, even after a later switch.
NoFalseRefusal ==
    \A c \in Calls : At(c, "activate", "none") /\ Waits(c) /\ c \in applied =>
        call[c].reply # "error"

\* The loading screen goes, whichever of several overlapping transitions owns the
\* window, unless a reload was dropped because another one was running.
LoadingEnds == loading /\ ~dropped ~> ~loading \/ dropped

\* What a doc claims and the code does not do: a save changes the workspace the
\* window shows, whatever it switched to before.
SavesHitShown == \A s \in saved : s.hit = s.seen
=============================================================================
