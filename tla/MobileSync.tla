------------------------------ MODULE MobileSync ------------------------------
(***************************************************************************)
(* cloud_backend/app/repositories/mobile_sync.py: how a phone follows the  *)
(* tasks and event lines of its organization, while members change them.   *)
(*                                                                         *)
(* A command commits its rows and one outbox event in one transaction.     *)
(* The event carries available_at, a time in milliseconds, and an id whose *)
(* order within a millisecond is arbitrary.  Task commands take the time   *)
(* under the write lock, event line commands before they wait for it.      *)
(* The phone asks with a cursor, the place of one event; delta() and       *)
(* bootstrap() answer from reads that are each a transaction of their own. *)
(* The phone is one device that waits for each answer; an answer may be    *)
(* lost.  All rows are visible to its member.                              *)
(***************************************************************************)
EXTENDS Integers, FiniteSets

CONSTANTS Tasks, Lines,
          NoLine,       \* a task without an event line
          Ids,          \* order of the ids of events of one millisecond
          Limit,        \* limit: how many events one read lists
          MaxCommands,  \* bound: commands
          MaxClock      \* bound: milliseconds

ASSUME NamesAssumption == NoLine \notin Lines /\ Tasks \cap Lines = {}
ASSUME NumbersAssumption ==
    /\ Ids \subseteq Nat \ {0}
    /\ Limit \in Nat \ {0}
    /\ MaxClock \in Nat \ {0}

VARIABLES
    clock,      \* utc_now()
    tasks,      \* task |-> its row; version 0 before create_task
    lines,      \* event line |-> its version, 0 before create_event_line
    waiting,    \* event line |-> `now` of the command that waits for the lock
    outbox,     \* outbox_events
    lifecycle,  \* lifecycle_events
    step,       \* the read the request does next
    full,       \* the request has gone on to bootstrap()
    after,      \* the cursor the request came with
    changes,    \* events of delta()
    tombstones, \* lifecycle rows of delta()
    slice,      \* projection: tasks and event lines
    news,       \* events of the projection
    listed,     \* lifecycle rows of the projection
    cursor,     \* the cursor the answer will carry
    phone,      \* what the phone keeps: the last projection and its cursor
    quiet,      \* auxiliary: no command was under way during these reads
    settled     \* auxiliary: what the phone keeps came from quiet reads

rows == <<tasks, lines, outbox, lifecycle>>
request == <<step, full, after, changes, tombstones, slice, news, listed, cursor>>
vars == <<clock, rows, waiting, request, phone, quiet, settled>>

Times == 1 .. MaxClock
Row == [version : Nat, line : Lines \cup {NoLine}, deleted : BOOLEAN]
View == [version : Nat, line : Lines \cup {NoLine}]
Absent == [version |-> 0, line |-> NoLine]
Slice == [tasks : [Tasks -> View], lines : [Lines -> Nat]]
NoSlice == [tasks |-> [t \in Tasks |-> Absent], lines |-> [l \in Lines |-> 0]]

Events == [at : Times, id : Ids, of : Tasks \cup Lines, version : Nat]
Removals == [at : Times, id : Ids, of : Tasks]

\* The start of every list: after=("", "").  "none" sorts behind every id.
Start == [at |-> 0, id |-> 0, last |-> FALSE]
Place(e) == [at |-> e.at, id |-> e.id, last |-> FALSE]
Cursors == [at : Times \cup {0}, id : Ids \cup {0}, last : BOOLEAN]

\* Mutant: both columns of the cursor must be exceeded.
BeyondBoth(c, e) == e.at > c.at /\ e.id > c.id /\ ~c.last

Beyond(c, e) == \/ e.at > c.at
                \/ e.at = c.at /\ e.id > c.id /\ ~c.last

\* Mutant: the event lines are read before the tasks that name them.
NextReadLinesFirst ==
            [events |-> "tombstones", tombstones |-> "tail", tail |-> "lines",
             lines |-> "tasks", tasks |-> "news", news |-> "listed",
             listed |-> "cursor", cursor |-> "answer"]

\* Mutant: the removals are listed before the rows are read.
NextReadListedFirst ==
            [events |-> "tombstones", tombstones |-> "tail", tail |-> "listed",
             listed |-> "tasks", tasks |-> "lines", lines |-> "news",
             news |-> "cursor", cursor |-> "answer"]

\* The order of the reads: delta(), then bootstrap() from "tasks" on.
NextRead == [events |-> "tombstones", tombstones |-> "tail", tail |-> "tasks",
             tasks |-> "lines", lines |-> "news", news |-> "listed",
             listed |-> "cursor", cursor |-> "answer"]
Steps == {"idle", "answer"} \cup DOMAIN NextRead

TypeOK ==
    /\ clock \in Times
    /\ tasks \in [Tasks -> Row]
    /\ lines \in [Lines -> Nat]
    /\ waiting \in [Lines -> Times \cup {0}]
    /\ outbox \subseteq Events
    /\ lifecycle \subseteq Removals
    /\ step \in Steps
    /\ full \in BOOLEAN
    /\ after \in Cursors
    /\ changes \subseteq Events
    /\ tombstones \subseteq Removals
    /\ slice \in Slice
    /\ news \subseteq Events
    /\ listed \subseteq Removals
    /\ cursor \in Cursors
    /\ phone \in [cursor : Cursors, told : BOOLEAN,
                 tasks : [Tasks -> View], lines : [Lines -> Nat]]
    /\ quiet \in BOOLEAN
    /\ settled \in BOOLEAN

Init ==
    /\ clock = 1
    /\ tasks = [t \in Tasks |-> [version |-> 0, line |-> NoLine, deleted |-> FALSE]]
    /\ lines = [l \in Lines |-> 0]
    /\ waiting = [l \in Lines |-> 0]
    /\ outbox = {} /\ lifecycle = {}
    /\ step = "idle" /\ full = FALSE
    /\ after = Start /\ cursor = Start
    /\ changes = {} /\ tombstones = {} /\ news = {} /\ listed = {}
    /\ slice = NoSlice
    /\ phone = [cursor |-> Start, told |-> FALSE,
                tasks |-> NoSlice.tasks, lines |-> NoSlice.lines]
    /\ quiet = TRUE /\ settled = FALSE

-----------------------------------------------------------------------------
(* The commands of the members. *)

Tick ==
    /\ clock < MaxClock
    /\ clock' = clock + 1
    /\ UNCHANGED <<rows, waiting, request, phone, quiet, settled>>

Room == Cardinality(outbox) + Cardinality({l \in Lines : waiting[l] # 0}) < MaxCommands

\* Mutant: the event carries the version after the next command.
PublishAhead(of, version, at, i) ==
    /\ \A e \in outbox : e.at = at => e.id # i
    /\ outbox' = outbox \cup {[at |-> at, id |-> i, of |-> of, version |-> version + 1]}

\* One event, at the time and with the id the command gave it.
Publish(of, version, at, i) ==
    /\ \A e \in outbox : e.at = at => e.id # i
    /\ outbox' = outbox \cup {[at |-> at, id |-> i, of |-> of, version |-> version]}

Live(t) == tasks[t].version > 0 /\ ~tasks[t].deleted
Attachable == {l \in Lines : lines[l] > 0} \cup {NoLine}

Committed == quiet' = FALSE /\ UNCHANGED <<clock, request, phone, settled>>

CreateTask(t, l, i) ==
    /\ Room
    /\ tasks[t].version = 0 /\ l \in Attachable
    /\ tasks' = [tasks EXCEPT ![t] = [version |-> 1, line |-> l, deleted |-> FALSE]]
    /\ Publish(t, 1, clock, i)
    /\ UNCHANGED <<lines, lifecycle, waiting>> /\ Committed

UpdateTask(t, l, i) ==
    /\ Room
    /\ Live(t) /\ l \in Attachable
    /\ LET v == tasks[t].version + 1 IN
       /\ tasks' = [tasks EXCEPT ![t] = [version |-> v, line |-> l, deleted |-> FALSE]]
       /\ Publish(t, v, clock, i)
    /\ UNCHANGED <<lines, lifecycle, waiting>> /\ Committed

DeleteTask(t, i) ==
    /\ Room
    /\ Live(t)
    /\ LET v == tasks[t].version + 1 IN
       /\ tasks' = [tasks EXCEPT ![t] =
                       [version |-> v, line |-> tasks[t].line, deleted |-> TRUE]]
       /\ Publish(t, v, clock, i)
    /\ lifecycle' = lifecycle \cup {[at |-> clock, id |-> i, of |-> t]}
    /\ UNCHANGED <<lines, waiting>> /\ Committed

\* create_event_line and update_event_line: the time first, then the lock.
StampLine(l) ==
    /\ Room
    /\ waiting[l] = 0
    /\ waiting' = [waiting EXCEPT ![l] = clock]
    /\ quiet' = FALSE
    /\ UNCHANGED <<clock, rows, request, phone, settled>>

CommitLine(l, i) ==
    /\ waiting[l] # 0
    /\ waiting' = [waiting EXCEPT ![l] = 0]
    /\ lines' = [lines EXCEPT ![l] = lines[l] + 1]
    /\ Publish(l, lines[l] + 1, waiting[l], i)
    /\ UNCHANGED <<tasks, lifecycle>> /\ Committed

RefuseLine(l) ==
    /\ waiting[l] # 0
    /\ waiting' = [waiting EXCEPT ![l] = 0]
    /\ UNCHANGED <<clock, rows, request, phone, quiet, settled>>

-----------------------------------------------------------------------------
(* The reads of _cursor_and_events. *)

Earlier(e, f) == e.at < f.at \/ (e.at = f.at /\ e.id < f.id)

\* ORDER BY ... LIMIT
FirstOf(S) == {e \in S : Cardinality({f \in S : Earlier(f, e)}) < Limit}

EventsAfter(c) == FirstOf({e \in outbox : Beyond(c, e)})

\* Mutant: the removals are taken from the events.
RemovalsFromEvents(c) == FirstOf({e \in outbox : e.at >= c.at})

RemovalsFrom(c) == FirstOf({r \in lifecycle : r.at >= c.at})

Tail ==
    IF outbox = {} THEN [at |-> clock, id |-> 0, last |-> TRUE]
    ELSE Place(CHOOSE e \in outbox : \A f \in outbox \ {e} : Earlier(f, e))

\* Nothing is under way, and nothing later can get a place at or before c.
Calm(c) == quiet /\ c.at < clock

NobodyWaits == \A l \in Lines : waiting[l] = 0

-----------------------------------------------------------------------------
(* A request: bootstrap() as the phone asks for it, or delta(). *)

Ask ==
    /\ step = "idle"
    /\ after' = phone.cursor
    /\ \/ step' = NextRead["tail"] /\ full' = TRUE
       \/ phone.cursor # Start /\ step' = "events" /\ full' = FALSE
    /\ changes' = {} /\ tombstones' = {} /\ news' = {} /\ listed' = {}
    /\ slice' = NoSlice /\ cursor' = Start
    /\ quiet' = NobodyWaits
    /\ UNCHANGED <<clock, rows, waiting, phone, settled>>

Reads(s) == step = s /\ UNCHANGED <<clock, rows, waiting, phone, settled, after>>
Goes == step' = NextRead[step]

ReadEvents ==
    /\ Reads("events") /\ Goes
    /\ changes' = EventsAfter(after)
    /\ UNCHANGED <<full, tombstones, slice, news, listed, cursor, quiet>>

ReadTombstones ==
    /\ Reads("tombstones") /\ Goes
    /\ tombstones' = RemovalsFrom(after)
    /\ UNCHANGED <<full, changes, slice, news, listed, cursor, quiet>>

\* The end of delta() when it found nothing, else the call of bootstrap().
ReadTail ==
    /\ Reads("tail")
    /\ cursor' = Tail
    /\ IF changes = {} /\ tombstones = {}
       THEN step' = "answer" /\ full' = FALSE /\ quiet' = Calm(Tail)
       ELSE Goes /\ full' = TRUE /\ quiet' = NobodyWaits
    /\ UNCHANGED <<changes, tombstones, slice, news, listed>>

ReadTasks ==
    /\ Reads("tasks") /\ Goes
    /\ slice' = [tasks |-> [t \in Tasks |->
                              IF Live(t) THEN [version |-> tasks[t].version,
                                               line |-> tasks[t].line]
                              ELSE Absent],
                 lines |-> slice.lines]
    /\ UNCHANGED <<full, changes, tombstones, news, listed, cursor, quiet>>

ReadLines ==
    /\ Reads("lines") /\ Goes
    /\ slice' = [tasks |-> slice.tasks, lines |-> lines]
    /\ UNCHANGED <<full, changes, tombstones, news, listed, cursor, quiet>>

\* bootstrap() asks for all events and removals, and is given the oldest.
ReadNews ==
    /\ Reads("news") /\ Goes
    /\ news' = EventsAfter(Start)
    /\ UNCHANGED <<full, changes, tombstones, slice, listed, cursor, quiet>>

ReadListed ==
    /\ Reads("listed") /\ Goes
    /\ listed' = RemovalsFrom(Start)
    /\ UNCHANGED <<full, changes, tombstones, slice, news, cursor, quiet>>

ReadCursor ==
    /\ Reads("cursor") /\ Goes
    /\ cursor' = Tail
    /\ quiet' = Calm(Tail)
    /\ UNCHANGED <<full, changes, tombstones, slice, news, listed>>

NewerThan(e, s) ==
    \/ e.of \in Lines /\ s.lines[e.of] < e.version
    \/ e.of \in Tasks /\ s.tasks[e.of].version < e.version

\* The phone replaces what it keeps by a projection; without one it only
\* moves its cursor.
Deliver ==
    /\ step = "answer"
    /\ step' = "idle"
    /\ phone' = IF full
                THEN [cursor |-> cursor, told |-> \E e \in news : NewerThan(e, slice),
                      tasks |-> slice.tasks, lines |-> slice.lines]
                ELSE [phone EXCEPT !.cursor = cursor]
    /\ settled' = IF full THEN quiet ELSE settled /\ (quiet \/ cursor = after)
    /\ UNCHANGED <<clock, rows, waiting, full, after, changes, tombstones, slice,
                   news, listed, cursor, quiet>>

\* The answer is lost: the phone will ask again with the cursor it has.
Lose ==
    /\ step = "answer"
    /\ step' = "idle"
    /\ UNCHANGED <<clock, rows, waiting, full, after, changes, tombstones, slice,
                   news, listed, cursor, phone, quiet, settled>>

Next ==
    \/ Tick
    \/ \E t \in Tasks, i \in Ids :
          \/ \E l \in Lines \cup {NoLine} : CreateTask(t, l, i) \/ UpdateTask(t, l, i)
          \/ DeleteTask(t, i)
    \/ \E l \in Lines :
          \/ StampLine(l)
          \/ \E i \in Ids : CommitLine(l, i)
          \/ RefuseLine(l)
    \/ Ask
    \/ ReadEvents \/ ReadTombstones \/ ReadTail
    \/ ReadTasks \/ ReadLines \/ ReadNews \/ ReadListed \/ ReadCursor
    \/ Deliver \/ Lose

Spec == Init /\ [][Next]_vars

-----------------------------------------------------------------------------
(* What an answer must be. *)

Answered == step = "answer" /\ full

\* delta() lists changes before bootstrap() reads the rows: what the phone is
\* given is never older than a change it is told of.
ChangesInSlice ==
    Answered => \A e \in changes :
        NewerThan(e, slice) => /\ e.of \in Tasks /\ tasks[e.of].deleted
                               /\ slice.tasks[e.of] = Absent

\* The rows of a projection are read one list after the other while members
\* write; no task of it may name an event line it does not hold.
LinesPresent ==
    Answered => \A t \in Tasks :
        slice.tasks[t].line \in Lines => slice.lines[slice.tasks[t].line] > 0

\* A task the phone shows and the projection no longer holds is among the
\* removals of the same answer, as long as there are no more than one read
\* lists: the phone can remove it before it applies the projection.
RemovalListed ==
    Answered /\ Cardinality(lifecycle) <= Limit =>
        \A t \in Tasks : phone.tasks[t] # Absent /\ slice.tasks[t] = Absent =>
            \E r \in tombstones \cup listed : r.of = t

Current ==
    /\ phone.lines = lines
    /\ phone.tasks = [t \in Tasks |-> IF Live(t) THEN [version |-> tasks[t].version,
                                                      line |-> tasks[t].line]
                                     ELSE Absent]

\* The next delta() brings a projection, or the last answer named a change that
\* its own projection does not hold yet.
HasNews ==
    \/ phone.told
    \/ \E e \in outbox : Beyond(phone.cursor, e)
    \/ \E r \in lifecycle : r.at >= phone.cursor.at

\* A phone whose last projection was read while no command was under way, and
\* whose cursor lies in a millisecond that was over, misses nothing: what it
\* shows is current, or it has news to fetch.
QuietSyncMissesNothing == settled => Current \/ HasNews

\* mobile_sync.py:182 says "Returning the current authorized slice makes a
\* missed event harmless": whatever the interleaving, a phone that shows old
\* rows has news to fetch.
MissedEventHarmless == Current \/ HasNews
=============================================================================
