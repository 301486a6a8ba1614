-------------------------- MODULE MobileSync_proofs --------------------------
(***************************************************************************)
(* For any tasks, event lines, limits and numbers of commands: a           *)
(* projection holds every event line its tasks name (LinesTheorem), and it *)
(* is never older than a change of the same answer (ChangesTheorem).       *)
(*                                                                         *)
(* Both are about lists read one after the other while rows change, so the *)
(* inductive invariant follows the request: the rows a list was read from  *)
(* only grow (LinesKnown, VersionsReached), and each list, from the step   *)
(* after its read on, holds what the lists before it need (SliceLines,     *)
(* SliceVersions).                                                         *)
(*                                                                         *)
(* RemovalTheorem and QuietSyncTheorem are about the phone's copy.  When no *)
(* list was cut short, the projection it keeps holds what each list read at *)
(* its own moment (ShapeInv), and the events of everything that changed    *)
(* after that moment are still ahead of its cursors (FollowInv).           *)
(***************************************************************************)
EXTENDS MobileSync, FiniteSetTheorems, WellFoundedInduction, TLAPS

RowsOK ==
    /\ clock \in Times
    /\ tasks \in [Tasks -> Row]
    /\ lines \in [Lines -> Nat]
    /\ waiting \in [Lines -> Times \cup {0}]
    /\ outbox \subseteq Events
    /\ changes \subseteq Events
    /\ step \in Steps
    /\ full \in BOOLEAN
    /\ slice \in Slice

\* A deleted task was created; a task names only event lines that exist.
LinesKnown ==
    \A t \in Tasks :
        /\ tasks[t].deleted => tasks[t].version > 0
        /\ tasks[t].line \in Lines => lines[tasks[t].line] > 0

\* The steps after the read of the event lines.
BothRead == step \in {"news", "listed", "cursor"} \/ Answered

SliceLines ==
    \A t \in Tasks : slice.tasks[t].line \in Lines =>
        /\ step = "lines" => lines[slice.tasks[t].line] > 0
        /\ BothRead => slice.lines[slice.tasks[t].line] > 0

\* No event is ahead of the row it is about.
VersionsReached ==
    \A e \in outbox \cup changes :
        /\ e.of \in Lines => lines[e.of] >= e.version
        /\ e.of \in Tasks => tasks[e.of].version >= e.version

TaskHolds(e) ==
    e.of \in Tasks =>
        \/ slice.tasks[e.of].version >= e.version
        \/ tasks[e.of].deleted /\ slice.tasks[e.of] = Absent

SliceVersions ==
    \A e \in changes :
        /\ step = "lines" \/ BothRead => TaskHolds(e)
        /\ BothRead /\ e.of \in Lines => slice.lines[e.of] >= e.version

SyncInv == RowsOK /\ LinesKnown /\ SliceLines /\ VersionsReached /\ SliceVersions

-----------------------------------------------------------------------------
\* The order of the reads, as the steps below need it.
LEMMA Order ==
    /\ NextRead["events"] = "tombstones"
    /\ NextRead["tombstones"] = "tail"
    /\ NextRead["tail"] = "tasks"
    /\ NextRead["tasks"] = "lines"
    /\ NextRead["lines"] = "news"
    /\ NextRead["news"] = "listed"
    /\ NextRead["listed"] = "cursor"
    /\ NextRead["cursor"] = "answer"
  BY DEF NextRead

LEMMA StepNames ==
    Steps = {"idle", "answer", "events", "tombstones", "tail", "tasks", "lines",
             "news", "listed", "cursor"}
  BY DEF Steps, NextRead

LEMMA InitSync == Init => SyncInv
  <1> SUFFICES ASSUME Init PROVE SyncInv OBVIOUS
  <1>1. NoSlice \in Slice /\ Absent \in View
    BY DEF NoSlice, Slice, View, Absent
  <1>2. RowsOK
    <2>1. 1 \in Times
      BY NumbersAssumption DEF Times
    <2>2. [version |-> 0, line |-> NoLine, deleted |-> FALSE] \in Row
      BY DEF Row
    <2>3. step \in Steps
      BY StepNames DEF Init
    <2> QED BY <1>1, <2>1, <2>2, <2>3 DEF Init, RowsOK
  <1>3. LinesKnown
    BY NamesAssumption DEF Init, LinesKnown
  <1>4. SliceLines
    BY NamesAssumption DEF Init, SliceLines, BothRead, Answered
  <1>5. VersionsReached /\ SliceVersions
    BY DEF Init, VersionsReached, SliceVersions
  <1> QED BY <1>2, <1>3, <1>4, <1>5 DEF SyncInv


-----------------------------------------------------------------------------
(* Commands leave the request alone, and rows only grow.                    *)

RowsGrow ==
    /\ \A t \in Tasks : /\ tasks'[t].version >= tasks[t].version
                        /\ tasks[t].deleted => tasks'[t].deleted
    /\ \A l \in Lines : lines'[l] >= lines[l]

NewEventReached ==
    \A e \in outbox' : e \in outbox \/ /\ e.of \in Lines => lines'[e.of] >= e.version
                                       /\ e.of \in Tasks => tasks'[e.of].version >= e.version

LEMMA GrowSync ==
    ASSUME SyncInv, RowsOK', LinesKnown', UNCHANGED request, RowsGrow, NewEventReached
    PROVE  SyncInv'
  <1> USE DEF SyncInv
  <1>0. /\ step' = step /\ full' = full /\ slice' = slice /\ changes' = changes
        /\ Answered' = Answered /\ BothRead' = BothRead
    BY DEF request, BothRead, Answered
  <1>1. /\ \A t \in Tasks : tasks[t] \in Row /\ tasks'[t] \in Row /\ slice.tasks[t] \in View
        /\ \A l \in Lines : lines[l] \in Nat /\ lines'[l] \in Nat /\ slice.lines[l] \in Nat
        /\ \A e \in outbox \cup changes : e.version \in Nat
    BY DEF RowsOK, Slice, Events
  <1>2. SliceLines'
    BY <1>0, <1>1 DEF SliceLines, RowsGrow
  <1>3. VersionsReached'
    <2> SUFFICES ASSUME NEW e \in outbox' \cup changes
                 PROVE  /\ e.of \in Lines => lines'[e.of] >= e.version
                        /\ e.of \in Tasks => tasks'[e.of].version >= e.version
      BY <1>0 DEF VersionsReached
    <2>1. CASE e \in outbox \cup changes
      <3>1. e.of \in Lines => lines[e.of] >= e.version /\ lines'[e.of] >= lines[e.of]
        BY <2>1 DEF VersionsReached, RowsGrow
      <3>2. e.of \in Tasks => /\ tasks[e.of].version >= e.version
                              /\ tasks'[e.of].version >= tasks[e.of].version
        BY <2>1 DEF VersionsReached, RowsGrow
      <3>3. e.of \in Tasks => tasks[e.of].version \in Nat /\ tasks'[e.of].version \in Nat
        BY <1>1 DEF Row
      <3> QED BY <2>1, <3>1, <3>2, <3>3, <1>1
    <2>2. CASE e \notin outbox \cup changes
      BY <2>2 DEF NewEventReached
    <2> QED BY <2>1, <2>2
  <1>4. SliceVersions'
    <2> SUFFICES ASSUME NEW e \in changes
                 PROVE  /\ step = "lines" \/ BothRead => TaskHolds(e)'
                        /\ BothRead /\ e.of \in Lines => slice.lines[e.of] >= e.version
      BY <1>0 DEF SliceVersions, TaskHolds
    <2>1. TaskHolds(e) => TaskHolds(e)'
      BY <1>0 DEF TaskHolds, RowsGrow
    <2> QED BY <2>1 DEF SliceVersions
  <1> QED BY <1>2, <1>3, <1>4

LEMMA CreateSync ==
    ASSUME SyncInv, NEW t \in Tasks, NEW l \in Lines \cup {NoLine}, NEW i \in Ids,
           CreateTask(t, l, i)
    PROVE  SyncInv' /\ RowsGrow
  <1> USE DEF SyncInv
  <1>1. /\ UNCHANGED <<lines, waiting, clock>> /\ UNCHANGED request
        /\ tasks[t].version = 0 /\ l \in Attachable
        /\ tasks' = [tasks EXCEPT ![t] = [version |-> 1, line |-> l, deleted |-> FALSE]]
        /\ outbox' = outbox \cup {[at |-> clock, id |-> i, of |-> t, version |-> 1]}
    BY DEF CreateTask, Publish, Committed
  <1>2. RowsOK'
    BY <1>1 DEF RowsOK, Row, Events, request
  <1>3. LinesKnown'
    BY <1>1, <1>2, NamesAssumption DEF LinesKnown, RowsOK, Row, Attachable
  <1>4. RowsGrow
    BY <1>1, <1>2 DEF RowsGrow, LinesKnown, RowsOK, Row
  <1>5. NewEventReached
    BY <1>1, NamesAssumption DEF NewEventReached, RowsOK
  <1> QED BY <1>1, <1>2, <1>3, <1>4, <1>5, GrowSync

LEMMA UpdateSync ==
    ASSUME SyncInv, NEW t \in Tasks, NEW l \in Lines \cup {NoLine}, NEW i \in Ids,
           UpdateTask(t, l, i)
    PROVE  SyncInv' /\ RowsGrow
  <1> USE DEF SyncInv
  <1> DEFINE v == tasks[t].version + 1
  <1>1. /\ UNCHANGED <<lines, waiting, clock>> /\ UNCHANGED request
        /\ ~tasks[t].deleted /\ l \in Attachable
        /\ tasks' = [tasks EXCEPT ![t] = [version |-> v, line |-> l, deleted |-> FALSE]]
        /\ outbox' = outbox \cup {[at |-> clock, id |-> i, of |-> t, version |-> v]}
    BY DEF UpdateTask, Publish, Committed, Live
  <1>2. tasks[t].version \in Nat /\ v \in Nat
    BY DEF RowsOK, Row
  <1>3. RowsOK'
    BY <1>1, <1>2 DEF RowsOK, Row, Events, request
  <1>4. LinesKnown'
    BY <1>1, <1>3, NamesAssumption DEF LinesKnown, RowsOK, Row, Attachable
  <1>5. RowsGrow
    BY <1>1, <1>2 DEF RowsGrow, RowsOK, Row
  <1>6. NewEventReached
    BY <1>1, <1>2, NamesAssumption DEF NewEventReached, RowsOK
  <1> QED BY <1>1, <1>3, <1>4, <1>5, <1>6, GrowSync

LEMMA DeleteSync ==
    ASSUME SyncInv, NEW t \in Tasks, NEW i \in Ids, DeleteTask(t, i)
    PROVE  SyncInv' /\ RowsGrow
  <1> USE DEF SyncInv
  <1> DEFINE v == tasks[t].version + 1
  <1>1. /\ UNCHANGED <<lines, waiting, clock>> /\ UNCHANGED request
        /\ tasks' = [tasks EXCEPT ![t] =
                       [version |-> v, line |-> tasks[t].line, deleted |-> TRUE]]
        /\ outbox' = outbox \cup {[at |-> clock, id |-> i, of |-> t, version |-> v]}
    BY DEF DeleteTask, Publish, Committed
  <1>2. tasks[t].version \in Nat /\ v \in Nat /\ v > 0 /\ tasks[t].line \in Lines \cup {NoLine}
    BY DEF RowsOK, Row
  <1>3. RowsOK'
    BY <1>1, <1>2 DEF RowsOK, Row, Events, request
  <1>4. LinesKnown'
    BY <1>1, <1>2, <1>3 DEF LinesKnown, RowsOK, Row
  <1>5. RowsGrow
    BY <1>1, <1>2 DEF RowsGrow, RowsOK, Row
  <1>6. NewEventReached
    BY <1>1, <1>2, NamesAssumption DEF NewEventReached, RowsOK
  <1> QED BY <1>1, <1>3, <1>4, <1>5, <1>6, GrowSync

LEMMA CommitSync ==
    ASSUME SyncInv, NEW l \in Lines, NEW i \in Ids, CommitLine(l, i)
    PROVE  SyncInv' /\ RowsGrow
  <1> USE DEF SyncInv
  <1>1. /\ UNCHANGED <<tasks, clock>> /\ UNCHANGED request
        /\ waiting[l] # 0
        /\ waiting' = [waiting EXCEPT ![l] = 0]
        /\ lines' = [lines EXCEPT ![l] = lines[l] + 1]
        /\ outbox' = outbox \cup {[at |-> waiting[l], id |-> i, of |-> l,
                                   version |-> lines[l] + 1]}
    BY DEF CommitLine, Publish, Committed
  <1>2. lines[l] \in Nat /\ waiting[l] \in Times
    BY <1>1 DEF RowsOK
  <1>3. RowsOK'
    BY <1>1, <1>2 DEF RowsOK, Events, request
  <1>4. RowsGrow
    BY <1>1, <1>2 DEF RowsGrow, RowsOK, Row
  <1>5. LinesKnown'
    BY <1>1, <1>2 DEF LinesKnown, RowsOK, Row
  <1>6. NewEventReached
    BY <1>1, <1>2, NamesAssumption DEF NewEventReached, RowsOK
  <1> QED BY <1>1, <1>3, <1>4, <1>5, <1>6, GrowSync

\* Tick, StampLine, RefuseLine: neither rows nor request change.
LEMMA QuietSync ==
    ASSUME SyncInv, UNCHANGED rows, UNCHANGED request,
           clock' \in Times, waiting' \in [Lines -> Times \cup {0}]
    PROVE  SyncInv'
  BY DEF SyncInv, rows, request, RowsOK, LinesKnown, SliceLines, VersionsReached,
         SliceVersions, TaskHolds, BothRead, Answered

-----------------------------------------------------------------------------
(* The reads.                                                               *)

RowsKept == UNCHANGED <<clock, rows, waiting>>

LEMMA AskSync == ASSUME SyncInv, Ask PROVE SyncInv'
  <1> USE DEF SyncInv
  <1>1. /\ RowsKept /\ changes' = {} /\ slice' = NoSlice
        /\ step' \in {"tasks", "events"} /\ full' \in BOOLEAN
    BY Order DEF Ask, RowsKept
  <1>2. NoSlice \in Slice
    BY DEF NoSlice, Slice, View, Absent
  <1>3. RowsOK'
    BY <1>1, <1>2, StepNames DEF RowsOK, RowsKept, rows
  <1>4. LinesKnown' /\ VersionsReached'
    BY <1>1 DEF LinesKnown, VersionsReached, RowsKept, rows
  <1>5. SliceLines' /\ SliceVersions'
    BY <1>1 DEF SliceLines, SliceVersions, BothRead, Answered
  <1> QED BY <1>3, <1>4, <1>5

\* The reads of delta(), before any row of a projection is read.
LEMMA DeltaSync ==
    ASSUME SyncInv, ReadEvents \/ ReadTombstones \/ ReadTail
    PROVE  SyncInv'
  <1> USE DEF SyncInv
  <1>1. /\ RowsKept /\ slice' = slice
        /\ \/ step' \in {"tombstones", "tail"} /\ full' = full
           \/ step' = "answer" /\ full' = FALSE
           \/ step' = "tasks" /\ full' = TRUE
    BY Order DEF ReadEvents, ReadTombstones, ReadTail, Reads, Goes, RowsKept
  <1>2. changes' = changes \/ changes' \subseteq outbox
    BY DEF ReadEvents, ReadTombstones, ReadTail, EventsAfter, FirstOf
  <1>3. RowsOK'
    BY <1>1, <1>2, StepNames DEF RowsOK, RowsKept, rows
  <1>4. LinesKnown' /\ VersionsReached'
    BY <1>1, <1>2 DEF LinesKnown, VersionsReached, RowsKept, rows
  <1>5. SliceLines' /\ SliceVersions'
    BY <1>1 DEF SliceLines, SliceVersions, BothRead, Answered
  <1> QED BY <1>3, <1>4, <1>5

LEMMA TasksSync == ASSUME SyncInv, ReadTasks PROVE SyncInv'
  <1> USE DEF SyncInv
  <1> DEFINE view(t) == IF Live(t) THEN [version |-> tasks[t].version,
                                         line |-> tasks[t].line] ELSE Absent
  <1>1. /\ RowsKept /\ UNCHANGED <<full, changes>> /\ step' = "lines"
        /\ slice' = [tasks |-> [t \in Tasks |-> view(t)], lines |-> slice.lines]
    BY Order DEF ReadTasks, Reads, Goes, RowsKept
  <1>2. /\ \A t \in Tasks : view(t) \in View
        /\ slice.lines \in [Lines -> Nat]
    BY DEF RowsOK, Row, View, Absent, Slice
  <1>3. slice' \in Slice /\ \A t \in Tasks : slice'.tasks[t] = view(t)
    BY <1>1, <1>2 DEF Slice
  <1>4. RowsOK'
    BY <1>1, <1>3, StepNames DEF RowsOK, RowsKept, rows
  <1>5. LinesKnown' /\ VersionsReached'
    BY <1>1 DEF LinesKnown, VersionsReached, RowsKept, rows
  <1>6. SliceLines'
    BY <1>1, <1>3, NamesAssumption
    DEF SliceLines, LinesKnown, BothRead, Answered, Absent, RowsKept, rows
  <1>7. SliceVersions'
    <2> SUFFICES ASSUME NEW e \in changes, e.of \in Tasks PROVE TaskHolds(e)'
      BY <1>1 DEF SliceVersions, TaskHolds, BothRead, Answered
    <2>1. tasks[e.of].version >= e.version /\ e.version \in Nat
      BY DEF VersionsReached, RowsOK, Events
    <2>2. tasks[e.of].version \in Nat
      BY DEF RowsOK, Row
    <2>3. slice'.tasks[e.of] = view(e.of) /\ tasks' = tasks
      BY <1>1, <1>3 DEF RowsKept, rows
    <2>4. CASE Live(e.of)
      BY <2>1, <2>3, <2>4 DEF TaskHolds
    <2>5. CASE ~Live(e.of)
      BY <2>1, <2>2, <2>3, <2>5 DEF TaskHolds, Live, Absent
    <2> QED BY <2>4, <2>5
  <1> QED BY <1>4, <1>5, <1>6, <1>7

LEMMA LinesSync == ASSUME SyncInv, ReadLines PROVE SyncInv'
  <1> USE DEF SyncInv
  <1>1. /\ RowsKept /\ UNCHANGED <<full, changes>> /\ step = "lines" /\ step' = "news"
        /\ slice' = [tasks |-> slice.tasks, lines |-> lines]
    BY Order DEF ReadLines, Reads, Goes, RowsKept
  <1>2. slice' \in Slice /\ slice'.tasks = slice.tasks /\ slice'.lines = lines
    BY <1>1 DEF RowsOK, Slice
  <1>3. RowsOK'
    BY <1>1, <1>2, StepNames DEF RowsOK, RowsKept, rows
  <1>4. LinesKnown' /\ VersionsReached'
    BY <1>1 DEF LinesKnown, VersionsReached, RowsKept, rows
  <1>5. SliceLines'
    BY <1>1, <1>2 DEF SliceLines
  <1>6. SliceVersions'
    BY <1>1, <1>2 DEF SliceVersions, VersionsReached, TaskHolds, RowsKept, rows
  <1> QED BY <1>3, <1>4, <1>5, <1>6

\* The reads after both lists, the delivery and the loss of the answer.
LEMMA LaterSync ==
    ASSUME SyncInv, ReadNews \/ ReadListed \/ ReadCursor \/ Deliver \/ Lose
    PROVE  SyncInv'
  <1> USE DEF SyncInv
  <1>1. /\ RowsKept /\ UNCHANGED <<full, changes, slice>>
        /\ \/ step = "news" /\ step' = "listed"
           \/ step = "listed" /\ step' = "cursor"
           \/ step = "cursor" /\ step' = "answer"
           \/ step' = "idle"
    BY Order DEF ReadNews, ReadListed, ReadCursor, Deliver, Lose, Reads, Goes, RowsKept
  <1>2. RowsOK'
    BY <1>1, StepNames DEF RowsOK, RowsKept, rows
  <1>3. LinesKnown' /\ VersionsReached'
    BY <1>1 DEF LinesKnown, VersionsReached, RowsKept, rows
  <1>4. step' # "lines" /\ (BothRead' => BothRead)
    BY <1>1 DEF BothRead, Answered
  <1>5. SliceLines'
    BY <1>1, <1>4 DEF SliceLines
  <1>6. SliceVersions'
    BY <1>1, <1>4 DEF SliceVersions, TaskHolds, RowsKept, rows
  <1> QED BY <1>2, <1>3, <1>5, <1>6

LEMMA NextSync == SyncInv /\ [Next]_vars => SyncInv'
  <1> SUFFICES ASSUME SyncInv, [Next]_vars PROVE SyncInv' OBVIOUS
  <1>0. clock \in Times /\ waiting \in [Lines -> Times \cup {0}]
    BY DEF SyncInv, RowsOK
  <1>1. ASSUME Tick PROVE SyncInv'
    <2>1. clock' \in Times
      BY <1>0, <1>1, NumbersAssumption DEF Tick, Times
    <2> QED BY <1>0, <1>1, <2>1, QuietSync DEF Tick
  <1>2. ASSUME NEW t \in Tasks, NEW i \in Ids, NEW l \in Lines \cup {NoLine},
               CreateTask(t, l, i) \/ UpdateTask(t, l, i)
        PROVE  SyncInv'
    BY <1>2, CreateSync, UpdateSync
  <1>3. ASSUME NEW t \in Tasks, NEW i \in Ids, DeleteTask(t, i) PROVE SyncInv'
    BY <1>3, DeleteSync
  <1>4. ASSUME NEW l \in Lines, StampLine(l) \/ RefuseLine(l) PROVE SyncInv'
    BY <1>0, <1>4, QuietSync DEF StampLine, RefuseLine
  <1>5. ASSUME NEW l \in Lines, NEW i \in Ids, CommitLine(l, i) PROVE SyncInv'
    BY <1>5, CommitSync
  <1>6. ASSUME Ask PROVE SyncInv'
    BY <1>6, AskSync
  <1>7. ASSUME ReadEvents \/ ReadTombstones \/ ReadTail PROVE SyncInv'
    BY <1>7, DeltaSync
  <1>8. ASSUME ReadTasks PROVE SyncInv'
    BY <1>8, TasksSync
  <1>9. ASSUME ReadLines PROVE SyncInv'
    BY <1>9, LinesSync
  <1>10. ASSUME ReadNews \/ ReadListed \/ ReadCursor \/ Deliver \/ Lose PROVE SyncInv'
    BY <1>10, LaterSync
  <1>11. CASE UNCHANGED vars
    BY <1>0, <1>11, QuietSync DEF vars
  <1> QED BY <1>1, <1>2, <1>3, <1>4, <1>5, <1>6, <1>7, <1>8, <1>9, <1>10, <1>11 DEF Next

LEMMA SyncInvariant == Spec => []SyncInv
  BY InitSync, NextSync, PTL DEF Spec

-----------------------------------------------------------------------------
\* Every event line a task of a projection names is in the projection.
THEOREM LinesTheorem == Spec => []LinesPresent
  <1>1. SyncInv => LinesPresent
    BY DEF SyncInv, SliceLines, BothRead, LinesPresent
  <1> QED BY <1>1, SyncInvariant, PTL

\* No projection is older than a change of the same answer.
THEOREM ChangesTheorem == Spec => []ChangesInSlice
  <1>1. SyncInv => ChangesInSlice
    <2> SUFFICES ASSUME SyncInv, Answered, NEW e \in changes, NewerThan(e, slice)
                 PROVE  /\ e.of \in Tasks /\ tasks[e.of].deleted
                        /\ slice.tasks[e.of] = Absent
      BY DEF ChangesInSlice
    <2>1. /\ TaskHolds(e)
          /\ e.of \in Lines => slice.lines[e.of] >= e.version
          /\ e.version \in Nat
          /\ e.of \in Lines => slice.lines[e.of] \in Nat
          /\ e.of \in Tasks => slice.tasks[e.of].version \in Nat
      BY DEF SyncInv, SliceVersions, BothRead, RowsOK, Events, Slice, View
    <2> QED BY <2>1 DEF TaskHolds, NewerThan
  <1> QED BY <1>1, SyncInvariant, PTL

-----------------------------------------------------------------------------
(* The places of events.  A finite set of them has a first and a last: the   *)
(* one with the fewest others before it, or after it.                        *)

\* A set of naturals has a least element.
LEMMA LeastNat ==
    ASSUME NEW S \in SUBSET Nat, S # {}
    PROVE  \E x \in S : \A y \in S : x <= y
  <1>1. PICK x \in S : \A y \in S : ~ (<<y, x>> \in OpToRel(<, Nat))
    BY WFMin, NatLessThanWellFounded, Zenon
  <1>2. \A y \in S : ~ (y < x)
    BY <1>1 DEF OpToRel
  <1> QED BY <1>2

Placed(S) == IsFiniteSet(S) /\ \A e \in S : e.at \in Nat /\ e.id \in Nat

LEMMA SmallerPart ==
    ASSUME NEW S, IsFiniteSet(S), NEW T \in SUBSET S, NEW x \in S, x \notin T
    PROVE  Cardinality(T) \in Nat /\ Cardinality(S) \in Nat
           /\ Cardinality(T) < Cardinality(S)
  <1>1. IsFiniteSet(T) /\ Cardinality(T) <= Cardinality(S)
        /\ (Cardinality(S) = Cardinality(T) => S = T)
    BY FS_Subset
  <1>2. Cardinality(T) \in Nat /\ Cardinality(S) \in Nat
    BY <1>1, FS_CardinalityType
  <1> QED BY <1>1, <1>2

\* Somewhere nothing is earlier, and somewhere nothing is later.
LEMMA Extremes ==
    ASSUME NEW S, Placed(S), S # {}
    PROVE  /\ \E e \in S : \A f \in S : ~Earlier(f, e)
           /\ \E e \in S : \A f \in S : ~Earlier(e, f)
  <1> DEFINE before(e) == {f \in S : Earlier(f, e)}
             behind(e) == {f \in S : Earlier(e, f)}
  <1>1. \A e, f \in S : Earlier(f, e) => /\ before(f) \subseteq before(e)
                                         /\ behind(e) \subseteq behind(f)
    BY DEF Placed, Earlier
  <1>2. \A e \in S : e \notin before(e) /\ e \notin behind(e)
    BY DEF Placed, Earlier
  <1>3. \A e \in S : IsFiniteSet(before(e)) /\ IsFiniteSet(behind(e))
    BY FS_Subset DEF Placed
  <1>4. \A e \in S : Cardinality(before(e)) \in Nat /\ Cardinality(behind(e)) \in Nat
    BY <1>3, FS_CardinalityType
  <1>5. ASSUME NEW e \in S, NEW f \in S, Earlier(f, e)
        PROVE  /\ Cardinality(before(f)) < Cardinality(before(e))
               /\ Cardinality(behind(e)) < Cardinality(behind(f))
    <2>1. f \in before(e) /\ e \in behind(f)
      BY <1>5
    <2>2. f \notin before(f) /\ e \notin behind(e)
      BY <1>2
    <2>3. before(f) \subseteq before(e) /\ behind(e) \subseteq behind(f)
      BY <1>1, <1>5
    <2> HIDE DEF before, behind
    <2> QED BY <1>3, <2>1, <2>2, <2>3, SmallerPart
  <1> HIDE DEF before, behind
  <1>6. \E e \in S : \A f \in S : ~Earlier(f, e)
    <2> DEFINE N == {Cardinality(before(e)) : e \in S}
    <2>1. N \in SUBSET Nat /\ N # {}
      BY <1>4
    <2>2. PICK n \in N : \A k \in N : n <= k
      BY <2>1, LeastNat
    <2>3. PICK e \in S : n = Cardinality(before(e))
      OBVIOUS
    <2>4. ASSUME NEW f \in S, Earlier(f, e) PROVE FALSE
      BY <2>2, <2>3, <2>4, <1>4, <1>5
    <2> QED BY <2>4
  <1>7. \E e \in S : \A f \in S : ~Earlier(e, f)
    <2> DEFINE N == {Cardinality(behind(e)) : e \in S}
    <2>1. N \in SUBSET Nat /\ N # {}
      BY <1>4
    <2>2. PICK n \in N : \A k \in N : n <= k
      BY <2>1, LeastNat
    <2>3. PICK e \in S : n = Cardinality(behind(e))
      OBVIOUS
    <2>4. ASSUME NEW f \in S, Earlier(e, f) PROVE FALSE
      <3>1. Cardinality(behind(f)) < Cardinality(behind(e))
        BY <2>4, <1>5
      <3>2. Cardinality(behind(f)) \in N
        OBVIOUS
      <3> QED BY <2>2, <2>3, <3>1, <3>2, <1>4
    <2> QED BY <2>4
  <1> QED BY <1>6, <1>7

\* A read that lists nothing had nothing to list, and one that lists at most
\* Limit lists all.
LEMMA FirstOfLemma ==
    ASSUME NEW S, Placed(S)
    PROVE  /\ FirstOf(S) = {} => S = {}
           /\ Cardinality(S) <= Limit => FirstOf(S) = S
  <1>1. ASSUME S # {} PROVE FirstOf(S) # {}
    <2>1. PICK e \in S : \A f \in S : ~Earlier(f, e)
      BY <1>1, Extremes
    <2>2. {f \in S : Earlier(f, e)} = {}
      BY <2>1
    <2>3. Cardinality({f \in S : Earlier(f, e)}) = 0
      BY <2>2, FS_EmptySet
    <2>4. 0 < Limit
      BY NumbersAssumption
    <2> QED BY <2>3, <2>4 DEF FirstOf
  <1>2. ASSUME Cardinality(S) <= Limit PROVE FirstOf(S) = S
    <2> SUFFICES ASSUME NEW e \in S
                 PROVE  Cardinality({f \in S : Earlier(f, e)}) < Limit
      BY DEF FirstOf
    <2> DEFINE T == {f \in S : Earlier(f, e)}
    <2>1. e \notin T /\ T \in SUBSET S /\ IsFiniteSet(S)
      BY DEF Placed, Earlier
    <2> HIDE DEF T
    <2>2. Cardinality(T) < Cardinality(S) /\ Cardinality(T) \in Nat
          /\ Cardinality(S) \in Nat
      BY <2>1, SmallerPart
    <2>3. Cardinality(T) < Limit
      BY <1>2, <2>2, NumbersAssumption
    <2> QED BY <2>3 DEF T
  <1> QED BY <1>1, <1>2

-----------------------------------------------------------------------------
(* The rest of the shapes: the tables are finite and no two events have one  *)
(* place, so the tail of the outbox is an event.                             *)

PhoneShape == [cursor : Cursors, told : BOOLEAN,
               tasks : [Tasks -> View], lines : [Lines -> Nat]]

ListsOK ==
    /\ lifecycle \subseteq Removals
    /\ IsFiniteSet(outbox) /\ IsFiniteSet(lifecycle)
    /\ \A e, f \in outbox : e.at = f.at /\ e.id = f.id => e = f

RequestOK ==
    /\ after \in Cursors /\ cursor \in Cursors
    /\ tombstones \subseteq Removals /\ listed \subseteq Removals
    /\ news \subseteq Events
    /\ quiet \in BOOLEAN

PhoneOK == phone \in PhoneShape /\ settled \in BOOLEAN

ShapeInv == ListsOK /\ RequestOK /\ PhoneOK

\* The tables as FirstOfLemma wants them.
LEMMA TablesPlaced ==
    ASSUME RowsOK, ListsOK
    PROVE  /\ Placed(outbox) /\ Placed(lifecycle)
           /\ \A S \in SUBSET outbox : Placed(S)
           /\ \A S \in SUBSET lifecycle : Placed(S)
  <1>1. /\ \A e \in outbox : e.at \in Nat /\ e.id \in Nat
        /\ \A e \in lifecycle : e.at \in Nat /\ e.id \in Nat
    <2>1. Times \subseteq Nat /\ Ids \subseteq Nat
      BY NumbersAssumption DEF Times
    <2> QED BY <2>1 DEF RowsOK, ListsOK, Events, Removals
  <1>2. /\ \A S \in SUBSET outbox : IsFiniteSet(S)
        /\ \A S \in SUBSET lifecycle : IsFiniteSet(S)
    BY FS_Subset DEF ListsOK
  <1> QED BY <1>1, <1>2 DEF Placed

LEMMA TailShape == ASSUME RowsOK, ListsOK PROVE Tail \in Cursors
  <1>1. CASE outbox = {}
    BY <1>1 DEF Tail, RowsOK, Cursors
  <1>2. CASE outbox # {}
    <2> DEFINE last(e) == \A f \in outbox \ {e} : Earlier(f, e)
    <2>1. PICK e \in outbox : \A f \in outbox : ~Earlier(e, f)
      BY <1>2, TablesPlaced, Extremes
    <2>2. last(e)
      <3> SUFFICES ASSUME NEW f \in outbox \ {e} PROVE Earlier(f, e)
        OBVIOUS
      <3>1. e.at \in Nat /\ e.id \in Nat /\ f.at \in Nat /\ f.id \in Nat
        BY TablesPlaced DEF Placed
      <3>2. e.at # f.at \/ e.id # f.id
        BY DEF ListsOK
      <3> QED BY <2>1, <3>1, <3>2 DEF Earlier
    <2>3. (CHOOSE d \in outbox : last(d)) \in outbox
      BY <2>2
    <2>4. Tail = Place(CHOOSE d \in outbox : last(d))
      BY <1>2 DEF Tail
    <2> HIDE DEF last
    <2>5. \A d \in outbox : Place(d) \in Cursors
      BY DEF Place, Cursors, RowsOK, Events
    <2> QED BY <2>3, <2>4, <2>5
  <1> QED BY <1>1, <1>2

LEMMA InitShape == Init => ShapeInv
  <1> SUFFICES ASSUME Init PROVE ShapeInv OBVIOUS
  <1>1. Start \in Cursors /\ Absent \in View
    BY DEF Start, Cursors, Absent, View
  <1>2. phone \in PhoneShape
    BY <1>1 DEF Init, PhoneShape, NoSlice
  <1> QED BY <1>1, <1>2, FS_EmptySet DEF Init, ShapeInv, ListsOK, RequestOK, PhoneOK

\* A command adds one event at a free place, and at most one removal.
LEMMA CommandShape ==
    ASSUME RowsOK, ShapeInv, NEW of, NEW v, NEW at \in Times, NEW i \in Ids,
           Publish(of, v, at, i),
           \/ lifecycle' = lifecycle
           \/ of \in Tasks /\ lifecycle' = lifecycle \cup {[at |-> at, id |-> i, of |-> of]},
           Committed
    PROVE  ShapeInv'
  <1> DEFINE new == [at |-> at, id |-> i, of |-> of, version |-> v]
             gone == [at |-> at, id |-> i, of |-> of]
  <1>1. outbox' = outbox \cup {new} /\ (\A e \in outbox : e.at = at => e.id # i)
    BY DEF Publish
  <1>2. new.at = at /\ new.id = i /\ (of \in Tasks => gone \in Removals)
    BY DEF Removals
  <1> HIDE DEF new
  <1>3. IsFiniteSet(outbox') /\ IsFiniteSet(lifecycle')
    <2>1. IsFiniteSet(outbox) /\ IsFiniteSet(lifecycle)
      BY DEF ShapeInv, ListsOK
    <2>2. IsFiniteSet(outbox \cup {new}) /\ IsFiniteSet(lifecycle \cup {gone})
      BY <2>1, FS_AddElement
    <2> QED BY <1>1, <2>1, <2>2
  <1>4. lifecycle' \subseteq Removals
    BY <1>2 DEF ShapeInv, ListsOK
  <1>5. \A e, f \in outbox' : e.at = f.at /\ e.id = f.id => e = f
    BY <1>1, <1>2 DEF ShapeInv, ListsOK
  <1>6. ListsOK'
    BY <1>3, <1>4, <1>5 DEF ListsOK
  <1>7. RequestOK' /\ PhoneOK'
    BY DEF ShapeInv, RequestOK, PhoneOK, Committed, request
  <1> QED BY <1>6, <1>7 DEF ShapeInv

LEMMA NextShape == SyncInv /\ ShapeInv /\ [Next]_vars => ShapeInv'
  <1> SUFFICES ASSUME SyncInv, ShapeInv, [Next]_vars PROVE ShapeInv' OBVIOUS
  <1>0. /\ RowsOK
        /\ Start \in Cursors
        /\ \A c \in Cursors : RemovalsFrom(c) \subseteq Removals
        /\ \A c \in Cursors : EventsAfter(c) \subseteq Events
    BY DEF SyncInv, RowsOK, ShapeInv, ListsOK, RequestOK, Start, Cursors, RemovalsFrom,
           EventsAfter, FirstOf
  <1>1. ASSUME Tick \/ \E l \in Lines : StampLine(l) \/ RefuseLine(l) PROVE ShapeInv'
    BY <1>1 DEF Tick, StampLine, RefuseLine, rows, request, ShapeInv, ListsOK, RequestOK,
                PhoneOK
  <1>2. ASSUME NEW t \in Tasks, NEW i \in Ids, NEW l \in Lines \cup {NoLine},
               CreateTask(t, l, i) \/ UpdateTask(t, l, i) \/ DeleteTask(t, i)
        PROVE  ShapeInv'
    <2>1. PICK v : Publish(t, v, clock, i)
      BY <1>2, Zenon DEF CreateTask, UpdateTask, DeleteTask
    <2>2. /\ \/ lifecycle' = lifecycle
             \/ lifecycle' = lifecycle \cup {[at |-> clock, id |-> i, of |-> t]}
          /\ Committed
      BY <1>2 DEF CreateTask, UpdateTask, DeleteTask
    <2> QED BY <1>0, <2>1, <2>2, CommandShape DEF RowsOK
  <1>3. ASSUME NEW l \in Lines, NEW i \in Ids, CommitLine(l, i) PROVE ShapeInv'
    <2>1. /\ Publish(l, lines[l] + 1, waiting[l], i)
          /\ lifecycle' = lifecycle /\ Committed
          /\ waiting[l] \in Times
      BY <1>0, <1>3 DEF CommitLine, RowsOK
    <2> QED BY <1>0, <2>1, CommandShape
  <1>4. ASSUME Ask \/ ReadEvents \/ ReadTombstones \/ ReadTail \/ ReadTasks \/ ReadLines
               \/ ReadNews \/ ReadListed \/ ReadCursor
        PROVE  ShapeInv'
    <2>1. ListsOK' /\ PhoneOK'
      BY <1>4 DEF Ask, ReadEvents, ReadTombstones, ReadTail, ReadTasks, ReadLines,
                  ReadNews, ReadListed, ReadCursor, Reads, rows, ShapeInv, ListsOK, PhoneOK
    <2>2. after \in Cursors /\ phone.cursor \in Cursors /\ Tail \in Cursors
      BY <1>0, TailShape DEF ShapeInv, RequestOK, PhoneOK, PhoneShape
    <2>3. quiet' \in BOOLEAN
      BY <1>4 DEF Ask, ReadEvents, ReadTombstones, ReadTail, ReadTasks, ReadLines,
                  ReadNews, ReadListed, ReadCursor, NobodyWaits, Calm, ShapeInv, RequestOK
    <2>4. after' \in Cursors /\ cursor' \in Cursors
      BY <1>4, <2>2, <1>0
         DEF Ask, ReadEvents, ReadTombstones, ReadTail, ReadTasks, ReadLines,
             ReadNews, ReadListed, ReadCursor, Reads, ShapeInv, RequestOK
    <2>5. tombstones' \subseteq Removals /\ listed' \subseteq Removals /\ news' \subseteq Events
      BY <1>4, <2>2, <1>0
         DEF Ask, ReadEvents, ReadTombstones, ReadTail, ReadTasks, ReadLines,
             ReadNews, ReadListed, ReadCursor, Reads, ShapeInv, RequestOK
    <2> QED BY <2>1, <2>3, <2>4, <2>5 DEF ShapeInv, RequestOK
  <1>5. ASSUME Deliver \/ Lose PROVE ShapeInv'
    <2>1. ListsOK' /\ RequestOK'
      BY <1>5 DEF Deliver, Lose, rows, ShapeInv, ListsOK, RequestOK
    <2>2. slice.tasks \in [Tasks -> View] /\ slice.lines \in [Lines -> Nat]
      BY <1>0 DEF RowsOK, Slice
    <2>3. CASE Deliver
      <3>1. phone' \in PhoneShape
        BY <2>2, <2>3 DEF Deliver, ShapeInv, RequestOK, PhoneOK, PhoneShape
      <3>2. settled' \in BOOLEAN
        BY <2>3 DEF Deliver, ShapeInv, RequestOK, PhoneOK
      <3> QED BY <2>1, <3>1, <3>2 DEF ShapeInv, PhoneOK
    <2>4. CASE Lose
      BY <2>1, <2>4 DEF Lose, ShapeInv, PhoneOK
    <2> QED BY <1>5, <2>3, <2>4
  <1>6. CASE UNCHANGED vars
    BY <1>6 DEF vars, rows, request, ShapeInv, ListsOK, RequestOK, PhoneOK
  <1> QED BY <1>1, <1>2, <1>3, <1>4, <1>5, <1>6, NamesAssumption DEF Next

LEMMA ShapeInvariant == Spec => [](SyncInv /\ ShapeInv)
  <1>1. Init => SyncInv /\ ShapeInv
    BY InitSync, InitShape
  <1>2. SyncInv /\ ShapeInv /\ [Next]_vars => (SyncInv /\ ShapeInv)'
    BY NextSync, NextShape
  <1> QED BY <1>1, <1>2, PTL DEF Spec

\* Rows, tables, cursors and what the phone keeps stay well formed; above all the
\* cursor of an answer is the place of an event, or of now.
THEOREM SyncTypeOK == Spec => []TypeOK
  <1>1. SyncInv /\ ShapeInv => TypeOK
    BY DEF SyncInv, RowsOK, ShapeInv, ListsOK, RequestOK, PhoneOK, PhoneShape, TypeOK
  <1> QED BY <1>1, ShapeInvariant, PTL

-----------------------------------------------------------------------------
(* What the phone misses.  FollowInv says why an answer read in peace is     *)
(* enough: while quiet holds nobody waits to commit and the rows read are    *)
(* still the rows (Peace); an empty delta() saw nothing beyond its cursor    *)
(* (Empty); and what commits after a settled answer gets a place beyond the  *)
(* phone's cursor (Ahead).                                                   *)

VisibleRow(t) == IF Live(t) THEN [version |-> tasks[t].version, line |-> tasks[t].line]
            ELSE Absent

TasksRead == step = "lines" \/ BothRead
Dropped(t) == phone.tasks[t] # Absent /\ slice.tasks[t] = Absent

\* A task the phone or the projection shows was created, and a deleted task
\* left a removal.
Shown ==
    /\ \A t \in Tasks : phone.tasks[t] # Absent => tasks[t].version > 0
    /\ TasksRead => \A t \in Tasks : slice.tasks[t] # Absent => tasks[t].version > 0
    /\ \A t \in Tasks : tasks[t].deleted => \E r \in lifecycle : r.of = t
    /\ TasksRead => \A t \in Tasks : Dropped(t) => tasks[t].deleted

Removing ==
    (step = "cursor" \/ Answered) /\ Cardinality(lifecycle) <= Limit =>
        \A t \in Tasks : Dropped(t) => \E r \in listed : r.of = t

Asked ==
    /\ step # "idle" => after = phone.cursor
    /\ step \in {"tasks", "lines", "news", "listed", "cursor"} => full

Peace ==
    quiet =>
        /\ NobodyWaits
        /\ TasksRead => slice.tasks = [t \in Tasks |-> VisibleRow(t)]
        /\ BothRead => slice.lines = lines
        /\ step = "answer" => cursor.at < clock

NothingBeyond(c) == \A e \in outbox : ~Beyond(c, e)
NothingRemoved(c) == \A r \in lifecycle : ~(r.at >= c.at)

Empty ==
    quiet =>
        /\ step \in {"tombstones", "tail"} /\ changes = {} => NothingBeyond(after)
        /\ step = "tail" /\ tombstones = {} => NothingRemoved(after)
        /\ step = "answer" /\ ~full => NothingBeyond(after) /\ NothingRemoved(after)

Ahead ==
    settled => /\ phone.cursor.at < clock
               /\ \A l \in Lines : waiting[l] # 0 => phone.cursor.at < waiting[l]

FollowInv == Shown /\ Removing /\ Asked /\ Peace /\ Empty /\ Ahead
             /\ QuietSyncMissesNothing

LEMMA InitFollow == Init => FollowInv
  <1> SUFFICES ASSUME Init PROVE FollowInv OBVIOUS
  <1>1. ~TasksRead /\ ~BothRead /\ ~Answered
    BY DEF Init, TasksRead, BothRead, Answered
  <1>2. Shown
    BY <1>1 DEF Init, Shown, NoSlice
  <1>3. Removing /\ Asked /\ Empty /\ Ahead /\ QuietSyncMissesNothing
    BY <1>1 DEF Init, Removing, Asked, Empty, Ahead, QuietSyncMissesNothing
  <1>4. Peace
    BY <1>1 DEF Init, Peace, NobodyWaits
  <1> QED BY <1>2, <1>3, <1>4 DEF FollowInv

\* A command disturbs the peace, and its event is beyond the cursor of a settled
\* phone.
LEMMA CommandFollow ==
    ASSUME RowsOK, RowsOK', ListsOK, ListsOK', PhoneOK, FollowInv, RowsGrow,
           NEW new, outbox' = outbox \cup {new},
           settled => phone.cursor.at < new.at,
           lifecycle \subseteq lifecycle',
           \A t \in Tasks : tasks'[t].deleted /\ ~tasks[t].deleted
                            => \E r \in lifecycle' : r.of = t,
           \A l \in Lines : waiting'[l] # 0 => waiting'[l] = waiting[l],
           Committed
    PROVE  FollowInv'
  <1> USE DEF FollowInv
  <1>1. /\ quiet' = FALSE /\ clock' = clock /\ phone' = phone /\ settled' = settled
        /\ step' = step /\ full' = full /\ after' = after /\ slice' = slice
        /\ listed' = listed
        /\ TasksRead' = TasksRead /\ BothRead' = BothRead /\ Answered' = Answered
    BY DEF Committed, request, TasksRead, BothRead, Answered
  <1>2. Shown'
    <2>1. \A t \in Tasks : /\ tasks[t].version \in Nat /\ tasks'[t].version \in Nat
                           /\ tasks'[t].version >= tasks[t].version
                           /\ tasks[t].deleted => tasks'[t].deleted
      BY DEF RowsOK, Row, RowsGrow
    <2>2. \A t \in Tasks : tasks[t].version > 0 => tasks'[t].version > 0
      BY <2>1
    <2> QED BY <1>1, <2>1, <2>2 DEF Shown, Dropped
  <1>3. Removing'
    <2>1. Cardinality(lifecycle) <= Cardinality(lifecycle')
          /\ Cardinality(lifecycle) \in Nat /\ Cardinality(lifecycle') \in Nat
      BY FS_Subset, FS_CardinalityType DEF ListsOK
    <2>2. Cardinality(lifecycle') <= Limit => Cardinality(lifecycle) <= Limit
      BY <2>1, NumbersAssumption
    <2> QED BY <1>1, <2>2 DEF Removing, Dropped
  <1>4. Asked' /\ Peace' /\ Empty'
    BY <1>1 DEF Asked, Peace, Empty
  <1>5. Ahead'
    BY <1>1 DEF Ahead
  <1>6. QuietSyncMissesNothing'
    <2>1. new.at > phone.cursor.at => Beyond(phone.cursor, new)
      BY DEF Beyond
    <2>2. settled => HasNews'
      <3> SUFFICES ASSUME settled PROVE HasNews'
        OBVIOUS
      <3>1. new \in outbox'
        OBVIOUS
      <3>2. Beyond(phone'.cursor, new)
        BY <1>1 DEF Beyond
      <3> QED BY <3>1, <3>2 DEF HasNews
    <2> QED BY <1>1, <2>2 DEF QuietSyncMissesNothing
  <1> QED BY <1>2, <1>3, <1>4, <1>5, <1>6

\* Time passes, a member comes to wait for the lock, or is refused.
LEMMA WaitFollow ==
    ASSUME RowsOK, RequestOK, PhoneOK, FollowInv,
           Tick \/ \E l \in Lines : StampLine(l) \/ RefuseLine(l)
    PROVE  FollowInv'
  <1> USE DEF FollowInv
  <1>1. /\ tasks' = tasks /\ lines' = lines /\ outbox' = outbox /\ lifecycle' = lifecycle
        /\ phone' = phone /\ settled' = settled
        /\ step' = step /\ full' = full /\ after' = after /\ slice' = slice
        /\ listed' = listed /\ changes' = changes /\ tombstones' = tombstones
        /\ cursor' = cursor
        /\ TasksRead' = TasksRead /\ BothRead' = BothRead /\ Answered' = Answered
    BY DEF Tick, StampLine, RefuseLine, rows, request, TasksRead, BothRead, Answered
  <1>2. Shown' /\ Removing' /\ Asked'
    BY <1>1 DEF Shown, Removing, Asked, Dropped
  <1>3. QuietSyncMissesNothing'
    BY <1>1 DEF QuietSyncMissesNothing, Current, HasNews, Live, Beyond
  <1>4. CASE Tick
    <2>1. /\ quiet' = quiet /\ waiting' = waiting /\ clock' = clock + 1
          /\ clock \in Nat /\ cursor.at \in Nat /\ phone.cursor.at \in Nat
      BY <1>4, NumbersAssumption
         DEF Tick, RowsOK, RequestOK, PhoneOK, PhoneShape, Cursors, Times
    <2>2. /\ cursor.at < clock => cursor.at < clock'
          /\ phone.cursor.at < clock => phone.cursor.at < clock'
      BY <2>1
    <2>3. NobodyWaits' = NobodyWaits /\ \A t \in Tasks : VisibleRow(t)' = VisibleRow(t)
      BY <1>1, <2>1 DEF NobodyWaits, VisibleRow, Live
    <2>4. Peace'
      BY <1>1, <2>1, <2>2, <2>3 DEF Peace
    <2>5. Empty'
      BY <1>1, <2>1 DEF Empty, NothingBeyond, NothingRemoved, Beyond
    <2>6. Ahead'
      BY <1>1, <2>1, <2>2 DEF Ahead
    <2> QED BY <1>2, <1>3, <2>4, <2>5, <2>6
  <1>5. ASSUME NEW l \in Lines, StampLine(l) PROVE FollowInv'
    <2>1. quiet' = FALSE /\ clock' = clock /\ waiting' = [waiting EXCEPT ![l] = clock]
      BY <1>5 DEF StampLine
    <2>2. Ahead'
      BY <1>1, <2>1 DEF Ahead, RowsOK
    <2> QED BY <1>2, <1>3, <2>1, <2>2 DEF Peace, Empty
  <1>6. ASSUME NEW l \in Lines, RefuseLine(l) PROVE FollowInv'
    <2>1. quiet' = quiet /\ clock' = clock /\ waiting' = [waiting EXCEPT ![l] = 0]
          /\ waiting[l] # 0
      BY <1>6 DEF RefuseLine
    <2>2. ~quiet
      BY <2>1 DEF Peace, NobodyWaits
    <2>3. Ahead'
      BY <1>1, <2>1 DEF Ahead, RowsOK
    <2> QED BY <1>2, <1>3, <2>1, <2>2, <2>3 DEF Peace, Empty
  <1> QED BY <1>4, <1>5, <1>6

\* What no read touches.
LEMMA ReadKeeps ==
    ASSUME FollowInv, UNCHANGED <<clock, rows, waiting, phone, settled>>
    PROVE  /\ Ahead' /\ QuietSyncMissesNothing'
           /\ NobodyWaits' = NobodyWaits
           /\ \A t \in Tasks : VisibleRow(t)' = VisibleRow(t)
           /\ \A t \in Tasks : tasks[t].deleted => \E r \in lifecycle' : r.of = t
  <1>1. /\ tasks' = tasks /\ lines' = lines /\ outbox' = outbox /\ lifecycle' = lifecycle
        /\ clock' = clock /\ waiting' = waiting /\ phone' = phone /\ settled' = settled
    BY DEF rows
  <1> QED BY <1>1
             DEF FollowInv, Ahead, QuietSyncMissesNothing, Current, HasNews, Live, Beyond,
                      NobodyWaits, VisibleRow, Shown

LEMMA AskFollow == ASSUME FollowInv, Ask PROVE FollowInv'
  <1> USE DEF FollowInv
  <1>1. /\ UNCHANGED <<clock, rows, waiting, phone, settled>>
        /\ step' \in {"tasks", "events"} /\ (step' = "tasks" => full')
        /\ after' = phone.cursor /\ (quiet' => NobodyWaits)
    BY Order DEF Ask
  <1>2. ~TasksRead' /\ ~BothRead' /\ ~Answered'
    BY <1>1 DEF TasksRead, BothRead, Answered
  <1>3. Shown'
    BY <1>1, <1>2 DEF Shown, rows
  <1>4. Removing' /\ Asked' /\ Empty'
    BY <1>1, <1>2 DEF Removing, Asked, Empty
  <1>5. Peace'
    BY <1>1, <1>2, ReadKeeps DEF Peace
  <1> QED BY <1>1, <1>3, <1>4, <1>5, ReadKeeps

\* The three reads of delta().
LEMMA DeltaFollow ==
    ASSUME RowsOK, ListsOK, FollowInv, ReadEvents \/ ReadTombstones \/ ReadTail
    PROVE  FollowInv'
  <1> USE DEF FollowInv
  <1>1. /\ UNCHANGED <<clock, rows, waiting, phone, settled>> /\ after' = after
        /\ \/ ReadEvents /\ step' = "tombstones"
           \/ ReadTombstones /\ step' = "tail"
           \/ ReadTail /\ step' = "answer" /\ ~full'
           \/ ReadTail /\ step' = "tasks" /\ full'
        /\ step # "idle"
    BY Order DEF ReadEvents, ReadTombstones, ReadTail, Reads, Goes
  <1>2. /\ ~TasksRead' /\ ~BothRead' /\ ~Answered'
        /\ outbox' = outbox /\ lifecycle' = lifecycle /\ clock' = clock
    BY <1>1 DEF TasksRead, BothRead, Answered, rows
  <1>3. Shown'
    BY <1>1, <1>2 DEF Shown, rows
  <1>4. Removing' /\ Asked'
    BY <1>1, <1>2 DEF Removing, Asked
  <1>5. CASE ReadEvents /\ step' = "tombstones"
    <2>1. quiet' = quiet /\ changes' = EventsAfter(after)
      BY <1>5 DEF ReadEvents
    <2>2. Peace'
      BY <1>1, <1>2, <1>5, <2>1, ReadKeeps DEF Peace
    <2>3. changes' = {} => NothingBeyond(after)
      <3> DEFINE S == {e \in outbox : Beyond(after, e)}
      <3>1. Placed(S) /\ changes' = FirstOf(S)
        BY <2>1, TablesPlaced DEF EventsAfter
      <3>2. changes' = {} => S = {}
        BY <3>1, FirstOfLemma
      <3> QED BY <3>2 DEF NothingBeyond
    <2>4. Empty'
      BY <1>1, <1>2, <1>5, <2>3 DEF Empty, NothingBeyond, Beyond
    <2> QED BY <1>1, <1>3, <1>4, <2>2, <2>4, ReadKeeps
  <1>6. CASE ReadTombstones /\ step' = "tail"
    <2>1. quiet' = quiet /\ tombstones' = RemovalsFrom(after) /\ changes' = changes
          /\ step = "tombstones"
      BY <1>6 DEF ReadTombstones, Reads
    <2>2. Peace'
      BY <1>1, <1>2, <1>6, <2>1, ReadKeeps DEF Peace
    <2>3. tombstones' = {} => NothingRemoved(after)
      <3> DEFINE S == {r \in lifecycle : r.at >= after.at}
      <3>1. Placed(S) /\ tombstones' = FirstOf(S)
        BY <2>1, TablesPlaced DEF RemovalsFrom
      <3>2. tombstones' = {} => S = {}
        BY <3>1, FirstOfLemma
      <3> QED BY <3>2 DEF NothingRemoved
    <2>4. Empty'
      BY <1>1, <1>2, <1>6, <2>1, <2>3 DEF Empty, NothingBeyond, NothingRemoved, Beyond
    <2> QED BY <1>1, <1>3, <1>4, <2>2, <2>4, ReadKeeps
  <1>7. CASE ReadTail /\ step' = "answer" /\ ~full'
    <2>1. /\ quiet' => quiet /\ cursor'.at < clock
          /\ changes = {} /\ tombstones = {} /\ step = "tail"
      BY <1>7, Order DEF ReadTail, Reads, Calm, Goes
    <2>2. Peace'
      BY <1>1, <1>2, <1>7, <2>1, ReadKeeps DEF Peace
    <2>3. Empty'
      BY <1>1, <1>2, <1>7, <2>1 DEF Empty, NothingBeyond, NothingRemoved, Beyond
    <2> QED BY <1>1, <1>3, <1>4, <2>2, <2>3, ReadKeeps
  <1>8. CASE ReadTail /\ step' = "tasks" /\ full'
    <2>1. quiet' => NobodyWaits
      BY <1>8 DEF ReadTail
    <2>2. Peace' /\ Empty'
      BY <1>1, <1>2, <1>8, <2>1, ReadKeeps DEF Peace, Empty
    <2> QED BY <1>1, <1>3, <1>4, <2>2, ReadKeeps
  <1> QED BY <1>1, <1>5, <1>6, <1>7, <1>8

LEMMA TasksFollow == ASSUME RowsOK, FollowInv, ReadTasks PROVE FollowInv'
  <1> USE DEF FollowInv
  <1>1. /\ UNCHANGED <<clock, rows, waiting, phone, settled>> /\ after' = after
        /\ step = "tasks" /\ step' = "lines" /\ full' = full /\ quiet' = quiet
        /\ slice' = [tasks |-> [t \in Tasks |-> VisibleRow(t)], lines |-> slice.lines]
    BY Order DEF ReadTasks, Reads, Goes, VisibleRow
  <1>2. /\ slice'.tasks = [t \in Tasks |-> VisibleRow(t)]
        /\ TasksRead' /\ ~BothRead' /\ ~Answered'
        /\ tasks' = tasks /\ lifecycle' = lifecycle /\ phone' = phone
    BY <1>1 DEF TasksRead, BothRead, Answered, rows
  <1>3. ASSUME NEW t \in Tasks
        PROVE  /\ VisibleRow(t) # Absent => tasks[t].version > 0
               /\ VisibleRow(t) = Absent /\ tasks[t].version > 0 => tasks[t].deleted
    BY DEF VisibleRow, Absent, Live, RowsOK, Row
  <1>4. Shown'
    BY <1>2, <1>3 DEF Shown, Dropped
  <1>5. Removing' /\ Asked' /\ Empty'
    BY <1>1, <1>2 DEF Removing, Asked, Empty
  <1>6. Peace'
    <2>1. [t \in Tasks |-> VisibleRow(t)'] = [t \in Tasks |-> VisibleRow(t)]
      BY <1>1, ReadKeeps
    <2> QED BY <1>1, <1>2, <2>1, ReadKeeps DEF Peace
  <1> QED BY <1>1, <1>4, <1>5, <1>6, ReadKeeps

\* The reads after the tasks.
LEMMA LaterFollow ==
    ASSUME RowsOK, ListsOK, FollowInv, ReadLines \/ ReadNews \/ ReadListed \/ ReadCursor
    PROVE  FollowInv'
  <1> USE DEF FollowInv
  <1>0. /\ UNCHANGED <<clock, rows, waiting, phone, settled>> /\ after' = after
        /\ full' = full
        /\ \/ ReadLines /\ step = "lines" /\ step' = "news"
           \/ ReadNews /\ step = "news" /\ step' = "listed"
           \/ ReadListed /\ step = "listed" /\ step' = "cursor"
           \/ ReadCursor /\ step = "cursor" /\ step' = "answer"
    BY Order DEF ReadLines, ReadNews, ReadListed, ReadCursor, Reads, Goes
  <1>a. ReadLines => quiet' = quiet /\ slice'.tasks = slice.tasks /\ slice'.lines = lines
    BY DEF ReadLines
  <1>b. ReadNews \/ ReadListed => quiet' = quiet /\ slice' = slice
    BY DEF ReadNews, ReadListed
  <1>c. ReadCursor => /\ quiet' => quiet /\ cursor'.at < clock
                      /\ slice' = slice /\ listed' = listed
    BY DEF ReadCursor, Calm
  <1>1. /\ UNCHANGED <<clock, rows, waiting, phone, settled>> /\ after' = after
        /\ full' = full
        /\ \/ ReadLines /\ step = "lines" /\ step' = "news"
           \/ ReadNews /\ step = "news" /\ step' = "listed"
           \/ ReadListed /\ step = "listed" /\ step' = "cursor"
           \/ ReadCursor /\ step = "cursor" /\ step' = "answer"
        /\ slice'.tasks = slice.tasks
        /\ ReadLines => slice'.lines = lines
        /\ ~ReadLines => slice' = slice
        /\ quiet' => quiet
        /\ ReadCursor => listed' = listed /\ (quiet' => cursor'.at < clock)
    BY <1>0, <1>a, <1>b, <1>c
  <1>2. /\ full /\ TasksRead /\ TasksRead' /\ BothRead'
        /\ ~ReadLines => BothRead
        /\ tasks' = tasks /\ lines' = lines /\ lifecycle' = lifecycle /\ phone' = phone
        /\ clock' = clock
    BY <1>1 DEF TasksRead, BothRead, Answered, rows, Asked
  <1>3. Shown'
    BY <1>1, <1>2 DEF Shown, Dropped
  <1>4. Asked' /\ Empty'
    BY <1>1, <1>2 DEF Asked, Empty
  <1>5. Peace'
    <2>1. [t \in Tasks |-> VisibleRow(t)'] = [t \in Tasks |-> VisibleRow(t)]
      BY <1>1, ReadKeeps
    <2> QED BY <1>1, <1>2, <2>1, ReadKeeps DEF Peace
  <1>6. Removing'
    <2>1. CASE ReadLines \/ ReadNews
      BY <1>1, <2>1 DEF Removing, Answered, ReadLines, ReadNews, Reads
    <2>2. CASE ReadListed /\ step' = "cursor"
      <3> SUFFICES ASSUME Cardinality(lifecycle) <= Limit, NEW t \in Tasks, Dropped(t)
                   PROVE  \E r \in listed' : r.of = t
        BY <1>1, <1>2, <2>2 DEF Removing, Dropped
      <3>1. {r \in lifecycle : r.at >= Start.at} = lifecycle
        BY TablesPlaced DEF Placed, Start
      <3>2. listed' = lifecycle
        BY <2>2, <3>1, TablesPlaced, FirstOfLemma DEF ReadListed, RemovalsFrom
      <3> QED BY <1>2, <3>2 DEF Shown
    <2>3. CASE ReadCursor /\ step = "cursor"
      BY <1>1, <1>2, <2>3 DEF Removing, Dropped
    <2> QED BY <1>1, <2>1, <2>2, <2>3
  <1> QED BY <1>1, <1>3, <1>4, <1>5, <1>6, ReadKeeps

\* The answer arrives, or is lost.
LEMMA AnswerFollow ==
    ASSUME RowsOK, PhoneOK, FollowInv, Deliver \/ Lose PROVE FollowInv'
  <1> USE DEF FollowInv
  <1>1. /\ UNCHANGED <<clock, rows, waiting>> /\ UNCHANGED <<full, after, slice, listed, quiet>>
        /\ step = "answer" /\ step' = "idle"
    BY DEF Deliver, Lose
  <1>2. /\ ~TasksRead' /\ ~BothRead' /\ ~Answered'
        /\ tasks' = tasks /\ lines' = lines /\ outbox' = outbox /\ lifecycle' = lifecycle
        /\ clock' = clock /\ waiting' = waiting
    BY <1>1 DEF TasksRead, BothRead, Answered, rows
  <1>3. Removing' /\ Asked' /\ Empty'
    BY <1>1, <1>2 DEF Removing, Asked, Empty
  <1>4. Peace'
    BY <1>1, <1>2 DEF Peace, NobodyWaits
  <1>5. CASE Lose
    <2>1. UNCHANGED <<clock, rows, waiting, phone, settled>>
      BY <1>5 DEF Lose
    <2>2. Shown'
      BY <1>2, <2>1 DEF Shown
    <2> QED BY <1>3, <1>4, <2>1, <2>2, ReadKeeps
  <1>6. CASE Deliver /\ full
    <2>1. /\ phone'.cursor = cursor /\ phone'.tasks = slice.tasks /\ phone'.lines = slice.lines
          /\ settled' = quiet
          /\ TasksRead /\ BothRead
      BY <1>6 DEF Deliver, TasksRead, BothRead, Answered
    <2>2. Shown'
      BY <1>2, <2>1 DEF Shown
    <2>3. settled' => NobodyWaits /\ cursor.at < clock
                      /\ slice.tasks = [t \in Tasks |-> VisibleRow(t)] /\ slice.lines = lines
      BY <1>1, <2>1 DEF Peace
    <2>4. Ahead'
      BY <1>2, <2>1, <2>3 DEF Ahead, NobodyWaits
    <2>5. settled' => Current'
      BY <1>2, <2>1, <2>3 DEF Current, VisibleRow, Live
    <2> QED BY <1>3, <1>4, <2>2, <2>4, <2>5 DEF QuietSyncMissesNothing
  <1>7. CASE Deliver /\ ~full
    <2>1. /\ phone' = [phone EXCEPT !.cursor = cursor]
          /\ settled' => settled /\ (quiet \/ cursor = after)
          /\ after = phone.cursor
      BY <1>1, <1>7 DEF Deliver, Asked
    <2>2. /\ phone'.cursor = cursor /\ phone'.tasks = phone.tasks
          /\ phone'.lines = phone.lines /\ phone'.told = phone.told
      BY <2>1 DEF PhoneOK, PhoneShape
    <2>3. Shown'
      BY <1>2, <2>2 DEF Shown
    <2>4. Ahead'
      <3>1. quiet => NobodyWaits /\ cursor.at < clock
        BY <1>1 DEF Peace
      <3> QED BY <1>2, <2>1, <2>2, <3>1 DEF Ahead, NobodyWaits
    <2>5. Current' = Current
      BY <1>2, <2>2 DEF Current, Live
    <2>6. CASE quiet
      <3>1. NothingBeyond(phone.cursor) /\ NothingRemoved(phone.cursor)
        BY <1>1, <1>7, <2>1, <2>6 DEF Empty
      <3>2. HasNews => phone.told
        BY <3>1 DEF HasNews, NothingBeyond, NothingRemoved
      <3>3. phone.told => HasNews'
        BY <2>2 DEF HasNews
      <3> QED BY <1>3, <1>4, <2>1, <2>3, <2>4, <2>5, <3>2, <3>3 DEF QuietSyncMissesNothing
    <2>7. CASE cursor = after
      <3>1. HasNews => HasNews'
        BY <1>2, <2>1, <2>2, <2>7 DEF HasNews
      <3> QED BY <1>3, <1>4, <2>1, <2>3, <2>4, <2>5, <3>1 DEF QuietSyncMissesNothing
    <2>8. CASE ~quiet /\ cursor # after
      BY <1>3, <1>4, <2>1, <2>3, <2>4, <2>8 DEF QuietSyncMissesNothing
    <2> QED BY <2>6, <2>7, <2>8
  <1> QED BY <1>5, <1>6, <1>7

LEMMA NextFollow ==
    SyncInv /\ ShapeInv /\ FollowInv /\ [Next]_vars => FollowInv'
  <1> SUFFICES ASSUME SyncInv, ShapeInv, FollowInv, [Next]_vars PROVE FollowInv' OBVIOUS
  <1>0. /\ RowsOK /\ RowsOK' /\ ListsOK /\ ListsOK' /\ RequestOK /\ PhoneOK
    BY NextSync, NextShape DEF SyncInv, ShapeInv
  <1>1. ASSUME Tick \/ \E l \in Lines : StampLine(l) \/ RefuseLine(l) PROVE FollowInv'
    BY <1>0, <1>1, WaitFollow
  <1>2. ASSUME NEW t \in Tasks, NEW i \in Ids, NEW l \in Lines \cup {NoLine},
               CreateTask(t, l, i) \/ UpdateTask(t, l, i) \/ DeleteTask(t, i)
        PROVE  FollowInv'
    <2>1. PICK v : Publish(t, v, clock, i)
      BY <1>2, Zenon DEF CreateTask, UpdateTask, DeleteTask
    <2> DEFINE new == [at |-> clock, id |-> i, of |-> t, version |-> v]
    <2>2. outbox' = outbox \cup {new} /\ new.at = clock
      BY <2>1 DEF Publish
    <2> HIDE DEF new
    <2>3. RowsGrow
      BY <1>2, CreateSync, UpdateSync, DeleteSync
    <2>4. /\ lifecycle \subseteq lifecycle' /\ waiting' = waiting /\ Committed
      BY <1>2 DEF CreateTask, UpdateTask, DeleteTask
    <2>5. \A u \in Tasks : tasks'[u].deleted /\ ~tasks[u].deleted
                           => \E r \in lifecycle' : r.of = u
      <3> SUFFICES ASSUME NEW u \in Tasks, tasks'[u].deleted, ~tasks[u].deleted
                   PROVE  \E r \in lifecycle' : r.of = u
        OBVIOUS
      <3>1. CASE CreateTask(t, l, i) \/ UpdateTask(t, l, i)
        BY <1>0, <3>1 DEF CreateTask, UpdateTask, RowsOK
      <3>2. CASE DeleteTask(t, i)
        <4>1. u = t
          BY <1>0, <3>2 DEF DeleteTask, RowsOK
        <4>2. [at |-> clock, id |-> i, of |-> t] \in lifecycle'
          BY <3>2 DEF DeleteTask
        <4> QED BY <4>1, <4>2
      <3> QED BY <1>2, <3>1, <3>2
    <2>6. settled => phone.cursor.at < new.at
      BY <2>2 DEF FollowInv, Ahead
    <2> QED BY <1>0, <2>2, <2>3, <2>4, <2>5, <2>6, CommandFollow
  <1>3. ASSUME NEW l \in Lines, NEW i \in Ids, CommitLine(l, i) PROVE FollowInv'
    <2> DEFINE new == [at |-> waiting[l], id |-> i, of |-> l, version |-> lines[l] + 1]
    <2>1. outbox' = outbox \cup {new} /\ new.at = waiting[l]
      BY <1>3 DEF CommitLine, Publish
    <2> HIDE DEF new
    <2>2. RowsGrow
      BY <1>3, CommitSync
    <2>3. /\ lifecycle' = lifecycle /\ tasks' = tasks /\ Committed
          /\ waiting' = [waiting EXCEPT ![l] = 0] /\ waiting[l] # 0
      BY <1>3 DEF CommitLine
    <2>4. \A m \in Lines : waiting'[m] # 0 => waiting'[m] = waiting[m]
      BY <1>0, <2>3 DEF RowsOK
    <2>5. settled => phone.cursor.at < new.at
      BY <2>1, <2>3 DEF FollowInv, Ahead
    <2> QED BY <1>0, <2>1, <2>2, <2>3, <2>4, <2>5, CommandFollow
  <1>4. ASSUME Ask PROVE FollowInv'
    BY <1>4, AskFollow
  <1>5. ASSUME ReadEvents \/ ReadTombstones \/ ReadTail PROVE FollowInv'
    BY <1>0, <1>5, DeltaFollow
  <1>6. ASSUME ReadTasks PROVE FollowInv'
    BY <1>0, <1>6, TasksFollow
  <1>7. ASSUME ReadLines \/ ReadNews \/ ReadListed \/ ReadCursor PROVE FollowInv'
    BY <1>0, <1>7, LaterFollow
  <1>8. ASSUME Deliver \/ Lose PROVE FollowInv'
    BY <1>0, <1>8, AnswerFollow
  <1>9. CASE UNCHANGED vars
    <2>1. /\ UNCHANGED <<clock, rows, waiting, phone, settled>> /\ UNCHANGED request
          /\ quiet' = quiet
      BY <1>9 DEF vars
    <2>2. /\ step' = step /\ full' = full /\ after' = after /\ changes' = changes
          /\ tombstones' = tombstones /\ slice' = slice /\ listed' = listed
          /\ cursor' = cursor
          /\ TasksRead' = TasksRead /\ BothRead' = BothRead /\ Answered' = Answered
          /\ tasks' = tasks /\ lines' = lines /\ outbox' = outbox
          /\ lifecycle' = lifecycle /\ clock' = clock /\ phone' = phone
      BY <2>1 DEF request, rows, TasksRead, BothRead, Answered
    <2>3. Shown' /\ Removing' /\ Asked'
      BY <2>2 DEF FollowInv, Shown, Removing, Asked, Dropped
    <2>4. [t \in Tasks |-> VisibleRow(t)'] = [t \in Tasks |-> VisibleRow(t)]
      BY <2>1, ReadKeeps
    <2>5. Peace'
      BY <2>1, <2>2, <2>4, ReadKeeps DEF FollowInv, Peace
    <2>6. Empty'
      BY <2>1, <2>2 DEF FollowInv, Empty, NothingBeyond, NothingRemoved, Beyond
    <2> QED BY <2>1, <2>3, <2>5, <2>6, ReadKeeps DEF FollowInv
  <1> QED BY <1>1, <1>2, <1>3, <1>4, <1>5, <1>6, <1>7, <1>8, <1>9, NamesAssumption DEF Next

LEMMA FollowInvariant == Spec => [](SyncInv /\ ShapeInv /\ FollowInv)
  <1>1. Init => SyncInv /\ ShapeInv /\ FollowInv
    BY InitSync, InitShape, InitFollow
  <1>2. SyncInv /\ ShapeInv /\ FollowInv /\ [Next]_vars => (SyncInv /\ ShapeInv /\ FollowInv)'
    BY NextSync, NextShape, NextFollow
  <1> QED BY <1>1, <1>2, PTL DEF Spec

\* A task that goes from the phone's list is among the removals it is given.
THEOREM RemovalTheorem == Spec => []RemovalListed
  <1>1. FollowInv => RemovalListed
    BY DEF FollowInv, Removing, RemovalListed, Dropped
  <1> QED BY <1>1, FollowInvariant, PTL

\* A phone whose last answers were read in peace shows what is current, or has
\* news to fetch, whatever members do from then on.
THEOREM QuietSyncTheorem == Spec => []QuietSyncMissesNothing
  <1>1. FollowInv => QuietSyncMissesNothing
    BY DEF FollowInv
  <1> QED BY <1>1, FollowInvariant, PTL
=============================================================================
