------------------------------ MODULE UiReceipts ------------------------------
(***************************************************************************)
(* A change the user makes through replayable_cloud_mutation               *)
(* (backend/app/ui_idempotency.py).  The local backend keeps a receipt per *)
(* key of the window, freezes in it what it will send to the cloud, sends  *)
(* it under a key of its own and stores the answer.  The window repeats a  *)
(* request under the same key when it is answered 503 or not at all, also  *)
(* while the thread of the attempt before is still at work.  A payload is  *)
(* the version of the row it expects; the row is one that every request    *)
(* and other members change.                                               *)
(***************************************************************************)
EXTENDS Naturals

CONSTANTS Requests,
          Versioned,   \* requests whose expected version is part of what the cloud
                       \* compares under one key (archive_answer), unlike settings
          Attempts,    \* how often the window sends one request
          MaxVersion,  \* bound: versions of the row
          MaxFaults    \* bound: lost connections, late answers, killed backends

ASSUME ReceiptAssumption ==
    /\ Versioned \subseteq Requests
    /\ Attempts \in Nat \ {0} /\ MaxVersion \in Nat \ {0} /\ MaxFaults \in Nat

VARIABLES
    version,   \* cloud: version of the row
    applied,   \* cloud: what was taken under each key: payload and new version
    receipt,   \* backend: the local command row of each request and its receipt
    work,      \* backend: what the thread of each attempt does
    flight,    \* calls of the cloud that are under way
    latest,    \* window: number of the last attempt it sent
    answer,    \* window: what it was told of the request
    faults,
    overlap    \* auxiliary: requests two attempts of which built side by side

vars == <<version, applied, receipt, work, flight, latest, answer, faults, overlap>>

Executions == Requests \X (1 .. Attempts)
Versions == 0 .. MaxVersion        \* 0: none
Nothing == [state |-> "none", payload |-> 0, response |-> 0]
Steps == {"none", "begin", "build", "freeze", "send", "wait", "settle", "over"}
Idle == [step |-> "none", payload |-> 0, response |-> 0]
Untaken == [payload |-> 0, response |-> 0]

TypeOK ==
    /\ version \in 1 .. MaxVersion
    /\ applied \in [Requests -> [payload : Versions, response : Versions]]
    /\ receipt \in [Requests -> [state : {"none", "processing", "completed"},
                                 payload : Versions, response : Versions]]
    /\ \A r \in Requests : receipt[r].state = "completed" => receipt[r].payload # 0
    /\ work \in [Executions -> [step : Steps, payload : Versions, response : Versions]]
    /\ flight \subseteq [by : Executions, payload : 1 .. MaxVersion]
    /\ latest \in [Requests -> 0 .. Attempts]
    /\ answer \in [Requests -> {"none", "ok", "conflict", "retry"}]
    /\ faults \in 0 .. MaxFaults /\ overlap \subseteq Requests

Init ==
    /\ version = 1
    /\ applied = [r \in Requests |-> Untaken]
    /\ receipt = [r \in Requests |-> Nothing]
    /\ work = [e \in Executions |-> Idle]
    /\ flight = {}
    /\ latest = [r \in Requests |-> 0]
    /\ answer = [r \in Requests |-> "none"]
    /\ faults = 0 /\ overlap = {}

-----------------------------------------------------------------------------
Fault == faults < MaxFaults /\ faults' = faults + 1

At(e, step) == work[e].step = step
Goes(e, step) == work' = [work EXCEPT ![e].step = step]

\* The window hears only the attempt it waits for.
Tells(e, what) ==
    answer' = IF latest[e[1]] = e[2] THEN [answer EXCEPT ![e[1]] = what] ELSE answer

\* Sent the first time, repeated after 503, and repeated when the connection is
\* lost, whatever has become of the attempt before.
Send(r) ==
    LET e == <<r, latest[r] + 1>>
    IN /\ latest[r] < Attempts
       /\ \/ latest[r] = 0 /\ UNCHANGED faults
          \/ answer[r] = "retry" /\ UNCHANGED faults
          \/ latest[r] > 0 /\ answer[r] = "none" /\ Fault
       /\ latest' = [latest EXCEPT ![r] = @ + 1]
       /\ answer' = [answer EXCEPT ![r] = "none"]
       /\ Goes(e, "begin")
       /\ UNCHANGED <<version, applied, receipt, flight, overlap>>

\* Mutant of Frozen: what an earlier attempt froze is not looked at.
FrozenNever(r) == FALSE

Frozen(r) == receipt[r].payload # 0

Builds(e) == work[e].step \in {"build", "freeze"}

\* LocalPlatformOperationRepository.begin makes the receipt or finds it.
Begin(e) ==
    LET r == e[1]
    IN /\ At(e, "begin")
       /\ IF receipt[r].state = "completed"
          THEN Goes(e, "over") /\ Tells(e, "ok") /\ UNCHANGED receipt
          ELSE /\ receipt' = [receipt EXCEPT ![r].state = "processing"]
               /\ work' = [work EXCEPT ![e] = [step |-> IF Frozen(r) THEN "send" ELSE "build",
                                               payload |-> receipt[r].payload,
                                               response |-> 0]]
               /\ UNCHANGED answer
       /\ overlap' = IF ~Frozen(r) /\ \E f \in Executions : f[1] = r /\ Builds(f)
                     THEN overlap \cup {r} ELSE overlap
       /\ UNCHANGED <<version, applied, flight, latest, faults>>

\* cloud_payload_factory asks the cloud for the version of now.
Build(e) ==
    /\ At(e, "build")
    /\ work' = [work EXCEPT ![e] = [step |-> "freeze", payload |-> version, response |-> 0]]
    /\ UNCHANGED <<version, applied, receipt, flight, latest, answer, faults, overlap>>

\* Mutant: the payload is kept by the thread alone.
FreezeInMemory(e) ==
    /\ At(e, "freeze")
    /\ Goes(e, "send")
    /\ UNCHANGED <<version, applied, receipt, flight, latest, answer, faults, overlap>>

\* update() merges into the receipt of now, unless it is completed.
Freeze(e) ==
    LET r == e[1]
    IN /\ At(e, "freeze")
       /\ receipt' = IF receipt[r].state = "completed" THEN receipt
                     ELSE [receipt EXCEPT ![r].payload = work[e].payload]
       /\ work' = [work EXCEPT ![e] = [step |-> "send", payload |-> receipt'[r].payload,
                                       response |-> 0]]
       /\ UNCHANGED <<version, applied, flight, latest, answer, faults, overlap>>

Call(e) ==
    /\ At(e, "send")
    /\ flight' = flight \cup {[by |-> e, payload |-> work[e].payload]}
    /\ Goes(e, "wait")
    /\ UNCHANGED <<version, applied, receipt, latest, answer, faults, overlap>>

\* Mutant of TakenBefore: the cloud key names the payload as well.
TakenAsSent(m) == applied[m.by[1]].payload = m.payload

\* The cloud has taken a call under this key.
TakenBefore(m) == applied[m.by[1]].payload # 0

Same(m) == m.by[1] \in Versioned => applied[m.by[1]].payload = m.payload

\* What the thread that still waits for the call gets.
Gets(m, step, response) ==
    work' = IF At(m.by, "wait")
            THEN [work EXCEPT ![m.by] = [step |-> step, payload |-> work[m.by].payload,
                                         response |-> response]]
            ELSE work

\* One transaction of the cloud: the same call again gets the answer it got, the
\* key with another payload and a version that has passed are refused.
Take(m) ==
    LET r == m.by[1]
    IN /\ m \in flight /\ flight' = flight \ {m}
       /\ \/ /\ TakenBefore(m) /\ Same(m)
             /\ Gets(m, "settle", applied[r].response)
             /\ UNCHANGED <<version, applied, answer>>
          \/ /\ ~TakenBefore(m) /\ m.payload = version
             /\ version < MaxVersion /\ version' = version + 1
             /\ applied' = [applied EXCEPT ![r] = [payload |-> m.payload, response |-> version']]
             /\ Gets(m, "settle", version') /\ UNCHANGED answer
          \/ /\ IF TakenBefore(m) THEN ~Same(m) ELSE m.payload # version
             /\ Gets(m, "over", 0)
             /\ IF At(m.by, "wait") THEN Tells(m.by, "conflict") ELSE UNCHANGED answer
             /\ UNCHANGED <<version, applied>>
       /\ UNCHANGED <<receipt, latest, faults, overlap>>

\* The cloud is not reached, or its answer is not waited for: 503.
GiveUp(e) ==
    /\ At(e, "wait") /\ Fault
    /\ \E lost \in SUBSET {m \in flight : m.by = e} : flight' = flight \ lost
    /\ Goes(e, "over") /\ Tells(e, "retry")
    /\ UNCHANGED <<version, applied, receipt, latest, overlap>>

\* update(completed) keeps the answer that was stored first.
Settle(e) ==
    LET r == e[1]
    IN /\ At(e, "settle")
       /\ receipt' = IF receipt[r].state = "completed" THEN receipt
                     ELSE [receipt EXCEPT ![r] = [state |-> "completed",
                                                  payload |-> receipt[r].payload,
                                                  response |-> work[e].response]]
       /\ Goes(e, "over") /\ Tells(e, "ok")
       /\ UNCHANGED <<version, applied, flight, latest, faults, overlap>>

\* The backend is killed and started again: its threads are gone, its database and
\* the calls on their way are not, and the window loses its connections.
Kill ==
    /\ Fault
    /\ work' = [e \in Executions |-> IF At(e, "none") THEN Idle ELSE [work[e] EXCEPT !.step = "over"]]
    /\ answer' = [r \in Requests |->
          IF latest[r] > 0 /\ answer[r] = "none" THEN "retry" ELSE answer[r]]
    /\ UNCHANGED <<version, applied, receipt, flight, latest, overlap>>

\* Another member changes the row.
Edit ==
    /\ version < MaxVersion /\ version' = version + 1
    /\ UNCHANGED <<applied, receipt, work, flight, latest, answer, faults, overlap>>

Next ==
    \/ \E r \in Requests : Send(r)
    \/ \E e \in Executions :
          Begin(e) \/ Build(e) \/ Freeze(e) \/ Call(e) \/ GiveUp(e) \/ Settle(e)
    \/ \E m \in flight : Take(m)
    \/ Kill \/ Edit

Spec == Init /\ [][Next]_vars

-----------------------------------------------------------------------------
\* A change of the user is made once, however often it is sent, delayed or
\* repeated: what the cloud took under its key is never taken again.
ChangedOnce ==
    [][\A r \in Requests : applied[r] # Untaken => applied'[r] = applied[r]]_vars

\* What the window is told of a change is what happened to it.  It is told "ok"
\* with the answer the cloud gave, and "conflict" only if no attempt, earlier or
\* still to arrive, makes the change, unless two attempts built their payloads
\* side by side.
AnswerTrue ==
    \A r \in Requests :
        /\ answer[r] = "ok" => /\ applied[r] # Untaken
                               /\ receipt[r].state = "completed"
                               /\ receipt[r].response = applied[r].response
        /\ answer[r] = "conflict" /\ r \notin overlap => applied[r] = Untaken
=============================================================================
