--------------------------- MODULE UiReceipts_proofs ---------------------------
(***************************************************************************)
(* What the window is told of a change is what happened to it, and a       *)
(* change is made once, for any requests, attempts, versions and faults.   *)
(***************************************************************************)
EXTENDS UiReceipts, TLAPS

Sent(e) == work[e].step \in {"send", "wait", "settle"}

\* What the cloud took is a payload with its answer.
Taken == \A r \in Requests : applied[r].payload = 0 <=> applied[r].response = 0

\* What is built or sent is a version the row has had.
Payloads ==
    /\ \A r \in Requests : receipt[r].payload <= version
    /\ \A e \in Executions : At(e, "freeze") \/ Sent(e) => work[e].payload \in 1 .. version
    /\ \A e \in Executions : Sent(e) => Frozen(e[1])
    /\ \A m \in flight : m.payload <= version

\* A stored answer is the cloud's, and so is the one a thread is about to store.
Stored ==
    /\ \A r \in Requests : receipt[r].state = "completed" =>
          /\ applied[r] # Untaken /\ receipt[r].response = applied[r].response
    /\ \A e \in Executions : At(e, "settle") =>
          /\ applied[e[1]] # Untaken /\ work[e].response = applied[e[1]].response

\* The window is told "ok" when the answer is stored.
Told == \A r \in Requests : answer[r] = "ok" => receipt[r].state = "completed"

\* Attempts that did not build side by side send one payload.
OnePayload(r) ==
    /\ \A e \in Executions : e[1] = r /\ Sent(e) =>
          receipt[r].payload # 0 /\ work[e].payload = receipt[r].payload
    /\ \A m \in flight : m.by[1] = r =>
          receipt[r].payload # 0 /\ m.payload = receipt[r].payload
    /\ applied[r] # Untaken =>
          receipt[r].payload # 0 /\ applied[r].payload = receipt[r].payload

\* One of them builds, and only before a payload is frozen.
OneBuilder(r) ==
    /\ \A e \in Executions : e[1] = r /\ Builds(e) => ~Frozen(r)
    /\ \A e, f \in Executions : e[1] = r /\ f[1] = r /\ Builds(e) /\ Builds(f) => e = f

\* A payload that was refused is of a version that has passed.
Refusal(r) ==
    answer[r] = "conflict" =>
        applied[r] = Untaken /\ receipt[r].payload # 0 /\ receipt[r].payload < version

IInv ==
    /\ TypeOK /\ Taken /\ Payloads /\ Stored /\ Told
    /\ \A r \in Requests \ overlap : OnePayload(r) /\ OneBuilder(r) /\ Refusal(r)

-----------------------------------------------------------------------------
USE ReceiptAssumption

\* The initial states satisfy the invariant.
LEMMA InitIInv == Init => IInv
BY DEF Init, IInv, TypeOK, Taken, Payloads, Stored, Told, OnePayload, OneBuilder, Refusal,
       Sent, Builds, Frozen, At, Executions, Versions, Nothing, Steps, Idle, Untaken

\* The window sends a request: a thread that begins knows nothing yet.
LEMMA SendIInv == ASSUME IInv, NEW r \in Requests, Send(r) PROVE IInv'
<1>1. TypeOK'
  <2> DEFINE e == <<r, latest[r] + 1>>
  <2>1. latest[r] + 1 \in 1 .. Attempts /\ e \in Executions
    BY DEF Send, IInv, TypeOK, Executions
  <2>2. latest' \in [Requests -> 0 .. Attempts]
    BY <2>1 DEF Send, IInv, TypeOK
  <2>3. work' \in [Executions -> [step : Steps, payload : Versions, response : Versions]]
    BY ZenonT(40), <2>1 DEF Send, Goes, IInv, TypeOK, Steps
  <2>4. faults' \in 0 .. MaxFaults
    BY DEF Send, Fault, IInv, TypeOK
  <2>5. answer' \in [Requests -> {"none", "ok", "conflict", "retry"}]
    BY DEF Send, IInv, TypeOK
  <2>6. UNCHANGED <<version, applied, receipt, flight, overlap>>
    BY DEF Send
  <2> HIDE DEF e
  <2> QED BY <2>2, <2>3, <2>4, <2>5, <2>6 DEF IInv, TypeOK
<1>2. Taken' /\ Payloads' /\ Stored' /\ Told'
  BY DEF Send, Goes, Fault, IInv, TypeOK, Taken, Payloads, Stored, Told, Sent, Frozen, At,
         Executions
<1>3. \A q \in Requests \ overlap' : (OnePayload(q) /\ OneBuilder(q) /\ Refusal(q))'
  BY DEF Send, Goes, Fault, IInv, TypeOK, OnePayload, OneBuilder, Refusal, Sent, Builds,
         Frozen, Executions
<1> QED BY <1>1, <1>2, <1>3 DEF IInv

\* An attempt finds its answer, takes the frozen payload over, or goes to build one.
LEMMA BeginIInv == ASSUME IInv, NEW e \in Executions, Begin(e) PROVE IInv'
<1> DEFINE r == e[1]
<1>r. r \in Requests /\ work[e] \in [step : Steps, payload : Versions, response : Versions]
  BY DEF Executions, IInv, TypeOK
<1>a. CASE receipt[r].state = "completed"
  <2>1. /\ work' = [work EXCEPT ![e].step = "over"]
        /\ answer' = IF latest[r] = e[2] THEN [answer EXCEPT ![r] = "ok"] ELSE answer
        /\ UNCHANGED <<version, applied, receipt, flight, latest, faults>>
        /\ overlap \subseteq overlap' /\ overlap' \subseteq overlap \cup {r}
    BY <1>a DEF Begin, Goes, Tells
  <2>2. TypeOK'
    BY <1>r, <2>1 DEF IInv, TypeOK, Steps
  <2>3. Taken' /\ Payloads' /\ Stored' /\ Told'
    BY <1>r, <1>a, <2>1
       DEF IInv, TypeOK, Taken, Payloads, Stored, Told, Sent, Frozen, At, Executions
  <2>4. \A q \in Requests \ overlap' : (OnePayload(q) /\ OneBuilder(q) /\ Refusal(q))'
    BY <1>r, <2>1 DEF IInv, TypeOK, OnePayload, OneBuilder, Refusal, Sent, Builds, Frozen
  <2> QED BY <2>2, <2>3, <2>4 DEF IInv
<1>b. CASE receipt[r].state # "completed"
  <2> DEFINE w == [step |-> IF Frozen(r) THEN "send" ELSE "build",
                   payload |-> receipt[r].payload, response |-> 0]
  <2>1. /\ receipt' = [receipt EXCEPT ![r].state = "processing"]
        /\ work' = [work EXCEPT ![e] = w]
        /\ UNCHANGED <<version, applied, answer, flight, latest, faults>>
        /\ overlap \subseteq overlap' /\ overlap' \subseteq overlap \cup {r}
        /\ r \notin overlap' => Frozen(r) \/ \A f \in Executions : f[1] = r => ~Builds(f)
    BY <1>b DEF Begin
  <2>2. w \in [step : Steps, payload : Versions, response : Versions]
    BY <1>r DEF IInv, TypeOK, Steps, Versions
  <2>3. \A q \in Requests : /\ receipt'[q].payload = receipt[q].payload
                            /\ receipt'[q].response = receipt[q].response
                            /\ receipt'[q].state = "completed" => receipt[q].state = "completed"
    BY <1>r, <2>1 DEF IInv, TypeOK
  <2>4. TypeOK'
    <3>1. work' \in [Executions -> [step : Steps, payload : Versions, response : Versions]]
      BY <2>1, <2>2 DEF IInv, TypeOK
    <3>2. receipt' \in [Requests -> [state : {"none", "processing", "completed"},
                                     payload : Versions, response : Versions]]
      BY <1>r, <2>1 DEF IInv, TypeOK
    <3>3. overlap' \subseteq Requests
      BY <1>r, <2>1 DEF IInv, TypeOK
    <3> QED BY <2>1, <2>3, <3>1, <3>2, <3>3 DEF IInv, TypeOK
  <2>5. \A f \in Executions : f # e => work'[f] = work[f]
    BY <2>1 DEF IInv, TypeOK
  <2>6. work'[e] = w
    BY <2>1 DEF IInv, TypeOK
  <2>7. Taken' /\ Told'
    BY <1>r, <1>b, <2>1, <2>3 DEF IInv, TypeOK, Taken, Told
  <2>8. Payloads'
    BY <1>r, <2>1, <2>3, <2>5, <2>6
       DEF IInv, TypeOK, Payloads, Sent, Frozen, At, Executions, Versions
  <2>9. Stored'
    BY <1>r, <2>1, <2>3, <2>5, <2>6 DEF IInv, Stored, At, Executions
  <2>10. \A q \in Requests \ overlap' : OnePayload(q)'
    BY <1>r, <2>1, <2>3, <2>5, <2>6 DEF IInv, OnePayload, Sent, Frozen
  <2>11. \A q \in Requests \ overlap' : OneBuilder(q)'
    BY <1>r, <2>1, <2>3, <2>5, <2>6 DEF IInv, OneBuilder, Builds, Frozen
  <2>12. \A q \in Requests \ overlap' : Refusal(q)'
    BY <1>r, <2>1, <2>3 DEF IInv, Refusal
  <2> QED BY <2>4, <2>7, <2>8, <2>9, <2>10, <2>11, <2>12 DEF IInv
<1> QED BY <1>a, <1>b

\* The version of now is one the row has.
LEMMA BuildIInv == ASSUME IInv, NEW e \in Executions, Build(e) PROVE IInv'
<1>1. TypeOK'
  BY DEF Build, IInv, TypeOK, Payloads, Sent, Frozen, At, Executions, Steps, Versions
<1>2. Taken' /\ Payloads' /\ Stored' /\ Told'
  BY DEF Build, IInv, TypeOK, Taken, Payloads, Stored, Told, Sent, Frozen, At, Executions,
         Versions
<1>3. \A q \in Requests \ overlap' : (OnePayload(q) /\ OneBuilder(q) /\ Refusal(q))'
  BY DEF Build, IInv, TypeOK, Taken, Payloads, Stored, OnePayload, OneBuilder, Refusal,
         Sent, Builds, Frozen, At, Executions, Versions
<1> QED BY <1>1, <1>2, <1>3 DEF IInv

\* Nobody who builds side by side with no other finds a payload already frozen.
LEMMA FreezeIInv == ASSUME IInv, NEW e \in Executions, Freeze(e) PROVE IInv'
<1>1. TypeOK'
  BY DEF Freeze, IInv, TypeOK, Payloads, Sent, Frozen, At, Executions, Steps, Versions
<1>2. Taken' /\ Payloads' /\ Stored' /\ Told'
  BY DEF Freeze, IInv, TypeOK, Taken, Payloads, Stored, Told, Sent, Frozen, At, Executions,
         Versions
<1>3. \A q \in Requests \ overlap' : (OnePayload(q) /\ OneBuilder(q) /\ Refusal(q))'
  BY DEF Freeze, IInv, TypeOK, Taken, Payloads, Stored, OnePayload, OneBuilder, Refusal,
         Sent, Builds, Frozen, At, Executions, Versions
<1> QED BY <1>1, <1>2, <1>3 DEF IInv

\* A call carries the payload its thread holds.
LEMMA CallIInv == ASSUME IInv, NEW e \in Executions, Call(e) PROVE IInv'
<1>1. work[e].payload \in 1 .. version
  BY DEF Call, IInv, Payloads, Sent, At
<1>2. TypeOK'
  <2>1. [by |-> e, payload |-> work[e].payload] \in [by : Executions, payload : 1 .. MaxVersion]
    BY <1>1 DEF IInv, TypeOK
  <2>2. work' \in [Executions -> [step : Steps, payload : Versions, response : Versions]]
    BY DEF Call, Goes, IInv, TypeOK, Steps
  <2> QED BY <2>1, <2>2 DEF Call, IInv, TypeOK
<1>3. Taken' /\ Payloads' /\ Stored' /\ Told'
  BY <1>1
     DEF Call, Goes, IInv, TypeOK, Taken, Payloads, Stored, Told, Sent, Frozen, At,
         Executions
<1>4. \A q \in Requests \ overlap' : (OnePayload(q) /\ OneBuilder(q) /\ Refusal(q))'
  BY DEF Call, Goes, IInv, TypeOK, OnePayload, OneBuilder, Refusal, Sent, Builds, Frozen,
         At,
         Executions
<1> QED BY <1>2, <1>3, <1>4 DEF IInv

\* The three answers of the cloud: the stored one, a new one, a refusal.
LEMMA TakeIInv == ASSUME IInv, NEW m \in flight, Take(m) PROVE IInv'
<1> DEFINE r == m.by[1]
           WorkType == [step : Steps, payload : Versions, response : Versions]
<1>r. /\ m.by \in Executions /\ r \in Requests /\ m.payload \in 1 .. version
      /\ work[m.by] \in WorkType /\ applied[r] \in [payload : Versions, response : Versions]
      /\ version \in 1 .. MaxVersion
  BY DEF IInv, TypeOK, Payloads, Executions
<1>f. /\ flight' = flight \ {m}
      /\ UNCHANGED <<receipt, latest, faults, overlap>>
  BY DEF Take
<1>u. \A q \in Requests : (applied[q] = Untaken) <=> (applied[q].payload = 0)
  BY DEF IInv, TypeOK, Taken, Untaken
<1>g. ASSUME NEW step \in {"settle", "over"}, NEW v \in Versions, Gets(m, step, v)
      PROVE /\ work' \in [Executions -> WorkType]
            /\ \A f \in Executions : f # m.by \/ ~At(m.by, "wait") => work'[f] = work[f]
            /\ At(m.by, "wait") => work'[m.by] =
                  [step |-> step, payload |-> work[m.by].payload, response |-> v]
  <2>1. [step |-> step, payload |-> work[m.by].payload, response |-> v] \in WorkType
    BY <1>r, <1>g DEF Steps
  <2> QED BY <1>r, <1>g, <2>1 DEF Gets, IInv, TypeOK
<1>s. ASSUME NEW step \in {"settle", "over"}, NEW v \in Versions, Gets(m, step, v),
             version' \in version .. MaxVersion,
             \A q \in Requests \ {r} : applied'[q] = applied[q],
             applied'[r] = applied[r] \/ applied[r] = Untaken,
             step = "settle" => applied'[r] # Untaken /\ applied'[r].response = v
      PROVE /\ Stored' /\ Payloads'
            /\ \A e \in Executions : Sent(e)' => Sent(e) /\ work'[e].payload = work[e].payload
            /\ \A e \in Executions : Builds(e)' => Builds(e)
  <2>1. /\ work' \in [Executions -> WorkType]
        /\ \A f \in Executions : f # m.by \/ ~At(m.by, "wait") => work'[f] = work[f]
        /\ At(m.by, "wait") => work'[m.by] =
              [step |-> step, payload |-> work[m.by].payload, response |-> v]
    BY <1>g, <1>s
  <2>2. \A e \in Executions : Sent(e)' => Sent(e) /\ work'[e].payload = work[e].payload
    BY <1>s, <2>1 DEF Sent, At
  <2>3. \A e \in Executions : At(e, "freeze")' => At(e, "freeze") /\ work'[e] = work[e]
    BY <1>s, <2>1 DEF At
  <2>4. \A e \in Executions : Builds(e)' => Builds(e)
    BY <1>s, <2>1 DEF Builds, At
  <2>5. \A e \in Executions : At(e, "settle")' =>
           \/ At(e, "settle") /\ work'[e] = work[e]
           \/ step = "settle" /\ e[1] = r /\ work'[e].response = v
    BY <1>s, <2>1 DEF At
  <2>6. \A q \in Requests : applied[q] # Untaken => applied'[q] = applied[q]
    BY <1>s, <1>r
  <2>7. Stored'
    BY <1>f, <1>s, <2>5, <2>6 DEF IInv, Stored, At, Executions
  <2>8. Payloads'
    <3>1. \A q \in Requests : receipt'[q].payload <= version'
      BY <1>f, <1>s, <1>r DEF IInv, TypeOK, Payloads, Versions
    <3>2. \A e \in Executions : (At(e, "freeze") \/ Sent(e))' => work'[e].payload \in 1 .. version'
      BY <1>f, <1>s, <1>r, <2>2, <2>3 DEF IInv, Payloads
    <3>3. \A e \in Executions : Sent(e)' => Frozen(e[1])'
      BY <1>f, <2>2 DEF IInv, Payloads, Frozen
    <3>4. \A n \in flight' : n.payload <= version'
      BY <1>f, <1>s, <1>r DEF IInv, TypeOK, Payloads
    <3> QED BY <3>1, <3>2, <3>3, <3>4 DEF Payloads
  <2> QED BY <2>2, <2>4, <2>7, <2>8
<1>a. CASE TakenBefore(m) /\ Same(m)
  <2>1. Gets(m, "settle", applied[r].response) /\ UNCHANGED <<version, applied, answer>>
    BY <1>a DEF Take
  <2>2. applied[r] # Untaken /\ applied[r].response \in Versions
    BY <1>a, <1>r, <1>u DEF TakenBefore
  <2>3. /\ Stored' /\ Payloads'
        /\ \A e \in Executions : Sent(e)' => Sent(e) /\ work'[e].payload = work[e].payload
        /\ \A e \in Executions : Builds(e)' => Builds(e)
    BY <2>1, <2>2, <1>r, <1>s
  <2>4. work' \in [Executions -> WorkType]
    BY <2>1, <2>2, <1>g
  <2>5. TypeOK' /\ Taken' /\ Told'
    BY <1>f, <2>1, <2>4 DEF IInv, TypeOK, Taken, Told
  <2>6. \A q \in Requests \ overlap' : (OnePayload(q) /\ OneBuilder(q) /\ Refusal(q))'
    BY <1>f, <2>1, <2>3 DEF IInv, OnePayload, OneBuilder, Refusal, Frozen
  <2> QED BY <2>3, <2>5, <2>6 DEF IInv
<1>b. CASE ~TakenBefore(m) /\ m.payload = version
  <2>1. /\ version < MaxVersion /\ version' = version + 1
        /\ applied' = [applied EXCEPT ![r] = [payload |-> m.payload, response |-> version']]
        /\ Gets(m, "settle", version') /\ UNCHANGED answer
    BY <1>b DEF Take, TakenBefore
  <2>2. applied[r] = Untaken
    BY <1>b, <1>r, <1>u DEF TakenBefore
  <2>3. /\ version' \in version .. MaxVersion /\ version' \in Versions
        /\ version' \in 1 .. MaxVersion /\ m.payload \in Versions
    BY <1>r, <2>1 DEF Versions
  <2>4. /\ applied' \in [Requests -> [payload : Versions, response : Versions]]
        /\ applied'[r] = [payload |-> m.payload, response |-> version']
        /\ \A q \in Requests \ {r} : applied'[q] = applied[q]
    BY <1>r, <2>1, <2>3 DEF IInv, TypeOK
  <2>5. applied'[r] # Untaken /\ applied'[r].response = version'
    BY <1>r, <2>4 DEF Untaken
  <2>6. /\ Stored' /\ Payloads'
        /\ \A e \in Executions : Sent(e)' => Sent(e) /\ work'[e].payload = work[e].payload
        /\ \A e \in Executions : Builds(e)' => Builds(e)
    BY <2>1, <2>2, <2>3, <2>4, <2>5, <1>s
  <2>7. work' \in [Executions -> WorkType]
    BY <2>1, <2>3, <1>g
  <2>8. TypeOK' /\ Told'
    BY <1>f, <2>1, <2>3, <2>4, <2>7 DEF IInv, TypeOK, Told
  <2>9. Taken'
    BY <1>r, <2>3, <2>4 DEF IInv, Taken
  <2>10. \A q \in Requests \ overlap' : OnePayload(q)'
    BY <1>f, <1>r, <2>4, <2>6 DEF IInv, OnePayload
  <2>11. \A q \in Requests \ overlap' : OneBuilder(q)'
    BY <1>f, <2>6 DEF IInv, OneBuilder, Frozen
  <2>12. \A q \in Requests \ overlap' : Refusal(q)'
    <3> SUFFICES ASSUME NEW q \in Requests \ overlap, answer[q] = "conflict"
                 PROVE /\ applied'[q] = Untaken /\ receipt[q].payload # 0
                       /\ receipt[q].payload < version'
      BY <1>f, <2>1 DEF Refusal
    <3>1. applied[q] = Untaken /\ receipt[q].payload # 0 /\ receipt[q].payload < version
      BY DEF IInv, Refusal
    <3>2. q # r
      BY <1>b, <1>r, <3>1 DEF IInv, OnePayload
    <3> QED BY <1>r, <2>1, <2>4, <3>1, <3>2 DEF IInv, TypeOK, Versions
  <2> QED BY <2>6, <2>8, <2>9, <2>10, <2>11, <2>12 DEF IInv
<1>c. CASE IF TakenBefore(m) THEN ~Same(m) ELSE m.payload # version
  <2>1. /\ Gets(m, "over", 0) /\ UNCHANGED <<version, applied>>
        /\ answer' = answer \/ answer' = [answer EXCEPT ![r] = "conflict"]
    BY <1>c DEF Take, Tells
  <2>2. 0 \in Versions /\ version' \in version .. MaxVersion
    BY <1>r, <2>1 DEF Versions
  <2>3. /\ Stored' /\ Payloads'
        /\ \A e \in Executions : Sent(e)' => Sent(e) /\ work'[e].payload = work[e].payload
        /\ \A e \in Executions : Builds(e)' => Builds(e)
    BY <2>1, <2>2, <1>s
  <2>4. work' \in [Executions -> WorkType]
    BY <2>1, <2>2, <1>g
  <2>5. TypeOK' /\ Taken' /\ Told'
    BY <1>f, <1>r, <2>1, <2>4 DEF IInv, TypeOK, Taken, Told
  <2>6. \A q \in Requests \ overlap' : (OnePayload(q) /\ OneBuilder(q))'
    BY <1>f, <2>1, <2>3 DEF IInv, OnePayload, OneBuilder, Frozen
  <2>7. r \notin overlap => /\ applied[r] = Untaken
                            /\ receipt[r].payload # 0 /\ receipt[r].payload < version
    BY <1>c, <1>r, <1>u DEF IInv, OnePayload, TakenBefore, Same
  <2>8. \A q \in Requests \ overlap' : Refusal(q)'
    BY <1>f, <1>r, <2>1, <2>7 DEF IInv, TypeOK, Refusal
  <2> QED BY <2>3, <2>5, <2>6, <2>8 DEF IInv
<1> QED BY <1>a, <1>b, <1>c

\* A call that is given up changes nothing in the backend's receipt.
LEMMA GiveUpIInv == ASSUME IInv, NEW e \in Executions, GiveUp(e) PROVE IInv'
<1>1. TypeOK'
  BY DEF GiveUp, Goes, Tells, Fault, IInv, TypeOK, Payloads, Sent, Frozen, At, Executions,
         Steps, Versions
<1>2. Taken' /\ Payloads' /\ Stored' /\ Told'
  BY DEF GiveUp, Goes, Tells, Fault, IInv, TypeOK, Taken, Payloads, Stored, Told, Sent,
         Frozen, At, Executions, Versions
<1>3. \A q \in Requests \ overlap' : (OnePayload(q) /\ OneBuilder(q) /\ Refusal(q))'
  BY DEF GiveUp, Goes, Tells, Fault, IInv, TypeOK, Taken, Payloads, Stored, OnePayload,
         OneBuilder, Refusal, Sent, Builds, Frozen, At, Executions, Versions
<1> QED BY <1>1, <1>2, <1>3 DEF IInv

\* The first answer is the one that is stored, and it is the cloud's.
LEMMA SettleIInv == ASSUME IInv, NEW e \in Executions, Settle(e) PROVE IInv'
<1>1. TypeOK'
  BY DEF Settle, Goes, Tells, IInv, TypeOK, Payloads, Sent, Frozen, At, Executions, Steps,
         Versions
<1>2. Taken' /\ Payloads' /\ Stored' /\ Told'
  BY DEF Settle, Goes, Tells, IInv, TypeOK, Taken, Payloads, Stored, Told, Sent, Frozen, At,
         Executions, Versions
<1>3. \A q \in Requests \ overlap' : (OnePayload(q) /\ OneBuilder(q) /\ Refusal(q))'
  BY DEF Settle, Goes, Tells, IInv, TypeOK, Taken, Payloads, Stored, OnePayload, OneBuilder,
         Refusal, Sent, Builds, Frozen, At, Executions, Versions
<1> QED BY <1>1, <1>2, <1>3 DEF IInv

\* A killed backend keeps its receipts.
LEMMA KillIInv == ASSUME IInv, Kill PROVE IInv'
<1>0. /\ work' \in [Executions -> [step : Steps, payload : Versions, response : Versions]]
      /\ answer' \in [Requests -> {"none", "ok", "conflict", "retry"}]
      /\ faults' \in 0 .. MaxFaults
  <2>1. work' \in [Executions -> [step : Steps, payload : Versions, response : Versions]]
    BY DEF Kill, Idle, IInv, TypeOK, Steps, Versions
  <2>2. answer' \in [Requests -> {"none", "ok", "conflict", "retry"}]
    BY DEF Kill, IInv, TypeOK
  <2>3. faults' \in 0 .. MaxFaults
    BY DEF Kill, Fault, IInv, TypeOK
  <2> QED BY <2>1, <2>2, <2>3
<1>1. TypeOK'
  BY <1>0 DEF Kill, IInv, TypeOK
<1>2. Taken' /\ Payloads' /\ Stored' /\ Told'
  BY DEF Kill, Fault, Idle, IInv, TypeOK, Taken, Payloads, Stored, Told, Sent, Frozen, At,
         Executions, Versions
<1>3. \A q \in Requests \ overlap' : (OnePayload(q) /\ OneBuilder(q) /\ Refusal(q))'
  BY DEF Kill, Fault, Idle, IInv, TypeOK, Taken, Payloads, Stored, OnePayload, OneBuilder,
         Refusal, Sent, Builds, Frozen, At, Executions, Versions
<1> QED BY <1>1, <1>2, <1>3 DEF IInv

\* A version that another member makes ends every older one.
LEMMA EditIInv == ASSUME IInv, Edit PROVE IInv'
<1>1. TypeOK'
  BY DEF Edit, IInv, TypeOK, Payloads, Sent, Frozen, At, Executions, Steps, Versions
<1>2. Taken' /\ Payloads' /\ Stored' /\ Told'
  BY DEF Edit, IInv, TypeOK, Taken, Payloads, Stored, Told, Sent, Frozen, At, Executions,
         Versions
<1>3. \A q \in Requests \ overlap' : (OnePayload(q) /\ OneBuilder(q) /\ Refusal(q))'
  BY DEF Edit, IInv, TypeOK, Taken, Payloads, Stored, OnePayload, OneBuilder, Refusal, Sent,
         Builds, Frozen, At, Executions, Versions
<1> QED BY <1>1, <1>2, <1>3 DEF IInv

\* A step that changes nothing.
LEMMA StutterIInv == ASSUME IInv, UNCHANGED vars PROVE IInv'
BY DEF IInv, TypeOK, Taken, Payloads, Stored, Told, OnePayload, OneBuilder, Refusal, Sent,
       Builds, Frozen, At, vars

LEMMA NextIInv == IInv /\ [Next]_vars => IInv'
<1> SUFFICES ASSUME IInv, [Next]_vars PROVE IInv'
  OBVIOUS
<1>1. ASSUME NEW r \in Requests, Send(r) PROVE IInv'
  BY <1>1, SendIInv
<1>2. ASSUME NEW e \in Executions, Begin(e) PROVE IInv'
  BY <1>2, BeginIInv
<1>3. ASSUME NEW e \in Executions, Build(e) PROVE IInv'
  BY <1>3, BuildIInv
<1>4. ASSUME NEW e \in Executions, Freeze(e) PROVE IInv'
  BY <1>4, FreezeIInv
<1>5. ASSUME NEW e \in Executions, Call(e) PROVE IInv'
  BY <1>5, CallIInv
<1>6. ASSUME NEW e \in Executions, GiveUp(e) PROVE IInv'
  BY <1>6, GiveUpIInv
<1>7. ASSUME NEW e \in Executions, Settle(e) PROVE IInv'
  BY <1>7, SettleIInv
<1>8. ASSUME NEW m \in flight, Take(m) PROVE IInv'
  BY <1>8, TakeIInv
<1>9. CASE Kill
  BY <1>9, KillIInv
<1>10. CASE Edit
  BY <1>10, EditIInv
<1>11. CASE UNCHANGED vars
  BY <1>11, StutterIInv
<1> QED
  BY <1>1, <1>2, <1>3, <1>4, <1>5, <1>6, <1>7, <1>8, <1>9, <1>10, <1>11 DEF Next

\* The strengthening of the run's invariants holds in every reachable state.
THEOREM UiInvariant == Spec => []IInv
BY InitIInv, NextIInv, PTL DEF Spec

\* Type correctness; above all that no request is completed in the receipts without
\* the payload that was sent for it.
THEOREM UiTypeOK == Spec => []TypeOK
<1>1. IInv => TypeOK
  BY DEF IInv
<1> QED BY UiInvariant, <1>1, PTL

\* The window is told "ok" with the cloud's answer, and "conflict" only if the change
\* is never made, unless two attempts built their payloads side by side.
THEOREM UiAnswerTrue == Spec => []AnswerTrue
<1>1. IInv => AnswerTrue
  BY DEF IInv, AnswerTrue, Stored, Told, Refusal
<1> QED BY UiInvariant, <1>1, PTL

\* Whatever is repeated, delayed or lost, the cloud makes a change at most once.
THEOREM UiChangedOnce == Spec => ChangedOnce
<1>1. IInv /\ [Next]_vars =>
         [\A r \in Requests : applied[r] # Untaken => applied'[r] = applied[r]]_vars
  <2> SUFFICES ASSUME IInv, Next, NEW r \in Requests, applied[r] # Untaken
               PROVE applied'[r] = applied[r]
    BY DEF vars
  <2>1. CASE \E m \in flight : Take(m)
    <3>1. PICK m \in flight : Take(m)
      BY <2>1
    <3>2. applied[r].payload # 0
      BY DEF IInv, TypeOK, Taken, Untaken
    <3>3. applied' = applied \/ (~TakenBefore(m) /\ \E v : applied' = [applied EXCEPT ![m.by[1]] = v])
      BY <3>1 DEF Take
    <3> QED BY <3>2, <3>3 DEF TakenBefore, IInv, TypeOK
  <2>2. CASE ~\E m \in flight : Take(m)
    BY <2>2 DEF Next, Send, Begin, Build, Freeze, Call, GiveUp, Settle, Kill, Edit
  <2> QED BY <2>1, <2>2
<1> QED BY UiInvariant, <1>1, PTL DEF Spec, ChangedOnce
=============================================================================
