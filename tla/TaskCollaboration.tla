-------------------------- MODULE TaskCollaboration --------------------------
(***************************************************************************)
(* One task of the organization cloud and the members who work on it       *)
(* (cloud_backend/app/repositories/gc04_tasks.py): its owner, its          *)
(* collaborators, who wait until the owner has accepted, and the focus     *)
(* timers each of them runs on it.  Every command is one SQLite            *)
(* transaction (BEGIN IMMEDIATE ... commit), so the interleaving is that   *)
(* of the clients: a command is composed from what its member sees, is     *)
(* executed at any later time, and is executed again under the same        *)
(* idempotency key when its answer is lost.                                *)
(***************************************************************************)
EXTENDS Integers, Sequences, FiniteSets

CONSTANTS
    Members,      \* the active memberships of the organization
    Creator,      \* tasks.creator_membership_id
    Slots,        \* commands that can be under way at once
    Commands,     \* the commands clients compose
    Keep,         \* a field the payload of an update leaves out
    Free,         \* a slot without a command
    NoReceipt,    \* no idempotency record under the key
    MaxCommands,  \* bound: commands composed in one behaviour
    MaxAttempts   \* bound: executions under one idempotency key

Edits(kind) == [kind : {kind}, owner : Members \cup {Keep},
                collabs : (SUBSET Members) \cup {{Keep}},
                mark : {"keep", "done", "open"}]

AllCommands ==
    Edits("update") \cup Edits("bulk")
    \cup [kind : {"inbox"}, action : {"accept", "return"}]
    \cup [kind : {"transfer"}, target : Members]
    \cup [kind : {"timer"}, action : {"start", "pause", "stop"}]
    \cup [kind : {"pause_running", "delete"}]

ASSUME MembersAssumption == Creator \in Members /\ Keep \notin Members
ASSUME CommandsAssumption == Commands \subseteq AllCommands
ASSUME BoundsAssumption == MaxCommands \in Nat /\ MaxAttempts \in Nat

VARIABLES
    task,    \* [version, done, live]: the row of tasks
    owner,   \* owner[m]: m's row of task_collaborators with role_key owner
    collab,  \* collab[m]: m's row with role_key collaborator
    runs,    \* runs[m]: m's focus segments (execution_runs), oldest first
    slot,    \* slot[s]: a command under way and what became of it, or Free
    issued   \* commands composed so far

vars == <<task, owner, collab, runs, slot, issued>>

Assignments ==
    {"none", "assigned", "awaiting_owner", "returned", "transferred", "removed"}

Row == [assignment : Assignments,
        inbox : {"pending", "accepted", "returned"},
        version : Nat]

NoRow == [assignment |-> "none", inbox |-> "pending", version |-> 0]

\* A command under way: what was composed, what its member had seen, and the
\* idempotency record and last answer under its key.
Fingerprints == [command : AllCommands, stamp : Nat]

ASSUME ReceiptAssumption == NoReceipt \notin Fingerprints

Replies == {"none", "ok", "idempotency_conflict", "missing", "forbidden",
            "version_conflict", "item_refused", "not_pending",
            "owner_missing", "same_owner"}

CommandState ==
    [command : AllCommands, by : Members, seen : Nat,
     sawOwner : SUBSET Members, attempts : 0..MaxAttempts,
     receipt : Fingerprints \cup {NoReceipt}, reply : Replies, applied : Nat]

Run == [status : {"running", "paused", "stopped"}, version : Nat \ {0}]

-----------------------------------------------------------------------------
(* What the rows say.                                                      *)

\* lifecycle_state = 'active': a row is deleted exactly when it is removed.
Active(r) == r.assignment \notin {"none", "removed"}

Accepted(r) == r.assignment = "assigned" /\ r.inbox = "accepted"

AssignedOwners == {m \in Members : owner[m].assignment = "assigned"}

\* The owner an update without ownerId keeps: assigned, or returned and not
\* replaced yet.
OpenOwners == {m \in Members : owner[m].assignment \in {"assigned", "returned"}}

CanRead(m) ==
    /\ task.live
    /\ \/ m = Creator
       \/ \E r \in {owner[m], collab[m]} :
            r.assignment = "assigned" /\ r.inbox \in {"pending", "accepted"}

CanWrite(m) == CanRead(m) /\ (m = Creator \/ Accepted(owner[m]))

CanTrack(m) ==
    CanRead(m) /\ (m = Creator \/ Accepted(owner[m]) \/ Accepted(collab[m]))

\* An UPDATE of a row: every one of them raises its version.
Moved(r, assignment, inbox) ==
    [assignment |-> assignment, inbox |-> inbox, version |-> r.version + 1]

\* The UPDATE that _replace_collaborators skips when the row already says so.
Settled(r, assignment, inbox) ==
    IF r.assignment = assignment /\ r.inbox = inbox
    THEN r ELSE Moved(r, assignment, inbox)

Removed(r) == IF Active(r) THEN Moved(r, "removed", r.inbox) ELSE r

-----------------------------------------------------------------------------
(* _replace_collaborators: the rows after owner o and collaborators C have *)
(* been written over the rows ow and co.                                   *)

OwnerAccepted(ow, o) == o = Creator \/ Accepted(ow[o])

ReplacedOwner(ow, o) ==
    [m \in Members |->
        IF m = o
        THEN Settled(ow[m], "assigned",
                     IF OwnerAccepted(ow, o) THEN "accepted" ELSE "pending")
        ELSE Removed(ow[m])]

\* Mutant: an invitation accepted before the member was removed still counts.
ReplacedCollabOldAnswer(ow, co, o, C) ==
    [m \in Members |->
        IF m \notin C THEN Removed(co[m])
        ELSE IF OwnerAccepted(ow, o)
        THEN Settled(co[m], "assigned",
                     IF co[m].inbox = "accepted" THEN "accepted" ELSE "pending")
        ELSE Settled(co[m], "awaiting_owner", "pending")]

ReplacedCollab(ow, co, o, C) ==
    [m \in Members |->
        IF m \notin C THEN Removed(co[m])
        ELSE IF OwnerAccepted(ow, o)
        THEN Settled(co[m], "assigned",
                     IF Accepted(co[m]) THEN "accepted" ELSE "pending")
        ELSE Settled(co[m], "awaiting_owner", "pending")]

(* The collaborators while a new owner is awaited, and once one accepted.  *)

\* Mutant: the collaborators of the former owner are not held back.
HeldForgotten(co) == co

Held(co) ==
    [m \in Members |-> IF Active(co[m])
                       THEN Moved(co[m], "awaiting_owner", "pending") ELSE co[m]]

Released(co) ==
    [m \in Members |-> IF co[m].assignment = "awaiting_owner"
                       THEN Moved(co[m], "assigned", co[m].inbox) ELSE co[m]]

-----------------------------------------------------------------------------
(* Focus segments.                                                         *)

TimerState(m) == IF runs[m] = <<>> THEN "idle" ELSE runs[m][Len(runs[m])].status

TimerVersion(m) ==
    LET sum[i \in 0..Len(runs[m])] ==
            IF i = 0 THEN 0 ELSE sum[i - 1] + runs[m][i].version
    IN  sum[Len(runs[m])]

\* The latest segment of q becomes status, if it is in one of the states from.
Ended(q, from, status) ==
    [i \in DOMAIN q |->
        IF i = Len(q) /\ q[i].status \in from
        THEN [status |-> status, version |-> q[i].version + 1] ELSE q[i]]

Suspended(q) ==
    [i \in DOMAIN q |->
        IF q[i].status = "running"
        THEN [status |-> "paused", version |-> q[i].version + 1] ELSE q[i]]

-----------------------------------------------------------------------------
(* Composing a command.  _normalize_patch fills what the payload leaves    *)
(* out from the rows of the moment: update_task does so on every execution *)
(* and bulk_preflight once, before the items are committed.                *)

ChangesPeople(c) == c.owner # Keep \/ c.collabs # {Keep}

PatchOwner(c, m) ==
    CASE c.owner # Keep    -> c.owner
      [] OpenOwners # {}   -> CHOOSE o \in OpenOwners : TRUE
      [] OTHER             -> m

PatchCollabs(c, o) ==
    (IF c.collabs # {Keep} THEN c.collabs
     ELSE {m \in Members : collab[m].assignment \in {"assigned", "awaiting_owner"}})
    \ {o}

NormalizePatch(c, m) ==
    IF ChangesPeople(c)
    THEN [c EXCEPT !.owner = PatchOwner(c, m),
                   !.collabs = PatchCollabs(c, PatchOwner(c, m))]
    ELSE c

\* The version the member's client sends along.
SeenVersion(c, m) ==
    CASE c.kind \in {"update", "bulk", "delete"} -> task.version
      [] c.kind = "inbox" -> IF owner[m].assignment = "assigned" /\ owner[m].inbox = "pending"
                             THEN owner[m].version ELSE collab[m].version
      [] c.kind = "transfer" -> IF AssignedOwners = {} THEN 0
                                ELSE owner[CHOOSE o \in AssignedOwners : TRUE].version
      [] c.kind = "timer" -> TimerVersion(m)
      [] OTHER -> 0

\* sawOwner is what the member saw, for the properties; it is sent nowhere.
Compose(s, m, c) ==
    /\ slot[s] = Free
    /\ issued < MaxCommands
    /\ CanRead(m)
    /\ c.kind = "bulk" => CanWrite(m)
    /\ slot' = [slot EXCEPT ![s] =
                  [command |-> IF c.kind = "bulk" THEN NormalizePatch(c, m) ELSE c,
                   by |-> m, seen |-> SeenVersion(c, m),
                   sawOwner |-> IF c.kind \in {"update", "bulk"} THEN OpenOwners ELSE {},
                   attempts |-> 0, receipt |-> NoReceipt, reply |-> "none",
                   applied |-> 0]]
    /\ issued' = issued + 1
    /\ UNCHANGED <<task, owner, collab, runs>>

\* The client has an answer, or has given up: the key is never sent again.
Close(s) ==
    /\ slot[s] # Free
    /\ slot[s].attempts > 0
    /\ slot' = [slot EXCEPT ![s] = Free]
    /\ UNCHANGED <<task, owner, collab, runs, issued>>

-----------------------------------------------------------------------------
(* Executing a command.  Its fingerprint is what the idempotency record    *)
(* keeps: the command and, when an update completes the task without       *)
(* naming the time, the time of this execution (no two are equal).         *)

Arrives(s, kinds) ==
    /\ slot[s] # Free
    /\ slot[s].command.kind \in kinds
    /\ slot[s].attempts < MaxAttempts

Plain(s) == [command |-> slot[s].command, stamp |-> 0]

UpdateFingerprint(s) ==
    [command |-> NormalizePatch(slot[s].command, slot[s].by),
     stamp |-> IF slot[s].command.mark = "done" THEN slot[s].attempts + 1 ELSE 0]

\* Mutant: the idempotency record is not consulted.
FreshAlways(s) == TRUE

\* _receipt: no record under the key.
Fresh(s) == slot[s].receipt = NoReceipt

\* The command of slot s after one more execution.
Executed(s, reply, receipt, applied) ==
    [command |-> slot[s].command, by |-> slot[s].by, seen |-> slot[s].seen,
     sawOwner |-> slot[s].sawOwner, attempts |-> slot[s].attempts + 1,
     receipt |-> receipt, reply |-> reply, applied |-> applied]

\* An answer that changes nothing.
Reply(s, reply) ==
    slot' = [slot EXCEPT ![s] =
                Executed(s, reply, slot[s].receipt, slot[s].applied)]

\* _record_command and commit: the receipt is written with the effect.
Commit(s, print) ==
    /\ slot' = [slot EXCEPT ![s] =
                   Executed(s, "ok", print, slot[s].applied + 1)]
    /\ UNCHANGED issued

Unchanged == UNCHANGED <<task, owner, collab, runs, issued>>

Replay(s, print) ==
    /\ ~Fresh(s)
    /\ Reply(s, IF slot[s].receipt = print THEN "ok" ELSE "idempotency_conflict")
    /\ Unchanged

Reject(s, reply) == Reply(s, reply) /\ Unchanged

\* _require_task_write: 404 before 403.
RejectWriter(s) ==
    /\ ~CanWrite(slot[s].by)
    /\ Reject(s, IF CanRead(slot[s].by) THEN "forbidden" ELSE "missing")

(* _apply_patch: the task row under its version; the sessions of everyone  *)
(* end when the task becomes done; then the people.                        *)

ApplyPatch(c) ==
    /\ task' = [version |-> task.version + 1, live |-> task.live,
                done |-> IF c.mark = "keep" THEN task.done ELSE c.mark = "done"]
    /\ runs' = IF c.mark = "done" /\ ~task.done
               THEN [m \in Members |-> Ended(runs[m], {"running", "paused"}, "stopped")]
               ELSE runs
    /\ IF ChangesPeople(c)
       THEN /\ owner' = ReplacedOwner(owner, c.owner)
            /\ collab' = ReplacedCollab(owner, collab, c.owner, c.collabs)
       ELSE UNCHANGED <<owner, collab>>

\* update_task asks for permission and normalizes before it looks for the
\* receipt.
UpdateTask(s) ==
    /\ Arrives(s, {"update"})
    /\ LET print == UpdateFingerprint(s)
       IN  \/ RejectWriter(s)
           \/ CanWrite(slot[s].by) /\ Replay(s, print)
           \/ /\ CanWrite(slot[s].by) /\ Fresh(s)
              /\ slot[s].seen # task.version
              /\ Reject(s, "version_conflict")
           \/ /\ CanWrite(slot[s].by) /\ Fresh(s)
              /\ slot[s].seen = task.version
              /\ ApplyPatch(print.command)
              /\ Commit(s, print)

\* bulk_commit of one item: a refused item is committed as refused, so every
\* outcome leaves a receipt.
BulkCommit(s) ==
    /\ Arrives(s, {"bulk"})
    /\ LET print == Plain(s)
           ready == CanWrite(slot[s].by) /\ slot[s].seen = task.version
       IN  \/ Replay(s, print)
           \/ /\ Fresh(s) /\ ~ready
              /\ slot' = [slot EXCEPT ![s] =
                             Executed(s, "item_refused", print, slot[s].applied)]
              /\ Unchanged
           \/ /\ Fresh(s) /\ ready
              /\ ApplyPatch(slot[s].command)
              /\ Commit(s, print)

DeleteTask(s) ==
    /\ Arrives(s, {"delete"})
    /\ LET print == Plain(s)
       IN  \/ Replay(s, print)
           \/ Fresh(s) /\ RejectWriter(s)
           \/ /\ Fresh(s) /\ CanWrite(slot[s].by)
              /\ slot[s].seen # task.version
              /\ Reject(s, "version_conflict")
           \/ /\ Fresh(s) /\ CanWrite(slot[s].by)
              /\ slot[s].seen = task.version
              /\ task' = [task EXCEPT !.version = @ + 1, !.live = FALSE]
              /\ owner' = [m \in Members |-> Removed(owner[m])]
              /\ collab' = [m \in Members |-> Removed(collab[m])]
              /\ Commit(s, print)
              /\ UNCHANGED runs

(* handle_inbox: the member answers the invitation that is pending, the    *)
(* owner's before the collaborator's.  An owner who accepts releases the   *)
(* collaborators; one who returns the task holds all of them back.         *)

Pending(r) == r.assignment = "assigned" /\ r.inbox = "pending"

\* Mutant: the two columns of the answer are swapped.
AnsweredSwapped(r, action) ==
    IF action = "accept" THEN Moved(r, "accepted", "assigned")
                         ELSE Moved(r, "returned", "returned")

Answered(r, action) ==
    IF action = "accept" THEN Moved(r, "assigned", "accepted")
                         ELSE Moved(r, "returned", "returned")

HandleInbox(s) ==
    /\ Arrives(s, {"inbox"})
    /\ LET print == Plain(s)
           m == slot[s].by
           action == slot[s].command.action
           asOwner == Pending(owner[m])
           invitation == IF asOwner THEN owner[m] ELSE collab[m]
       IN  \/ Replay(s, print)
           \/ Fresh(s) /\ ~CanRead(m) /\ Reject(s, "missing")
           \/ /\ Fresh(s) /\ CanRead(m)
              /\ ~Pending(invitation)
              /\ Reject(s, "not_pending")
           \/ /\ Fresh(s) /\ CanRead(m)
              /\ Pending(invitation) /\ slot[s].seen # invitation.version
              /\ Reject(s, "version_conflict")
           \/ /\ Fresh(s) /\ CanRead(m)
              /\ Pending(invitation) /\ slot[s].seen = invitation.version
              /\ IF asOwner
                 THEN /\ owner' = [owner EXCEPT ![m] = Answered(@, action)]
                      /\ collab' = IF action = "accept" THEN Released(collab)
                                                        ELSE Held(collab)
                 ELSE /\ collab' = [collab EXCEPT ![m] = Answered(@, action)]
                      /\ UNCHANGED owner
              /\ Commit(s, print)
              /\ UNCHANGED <<task, runs>>

(* transfer_task: the target leaves the collaborators, the others wait     *)
(* for it unless it is the creator, who need not accept.  The version of   *)
(* the task row does not move.                                             *)

\* Mutant: the new owner stays among the collaborators.
TransferredCollabKept(target) ==
    IF target = Creator THEN Released(collab) ELSE Held(collab)

TransferredCollab(target) ==
    LET others == [collab EXCEPT ![target] = Removed(@)]
    IN  IF target = Creator THEN Released(others) ELSE Held(others)

TransferTask(s) ==
    /\ Arrives(s, {"transfer"})
    /\ LET print == Plain(s)
           target == slot[s].command.target
       IN  \/ Replay(s, print)
           \/ Fresh(s) /\ RejectWriter(s)
           \/ /\ Fresh(s) /\ CanWrite(slot[s].by)
              /\ AssignedOwners = {}
              /\ Reject(s, "owner_missing")
           \/ \E o \in AssignedOwners :
                /\ Fresh(s) /\ CanWrite(slot[s].by)
                /\ \/ /\ slot[s].seen # owner[o].version
                      /\ Reject(s, "version_conflict")
                   \/ /\ slot[s].seen = owner[o].version /\ o = target
                      /\ Reject(s, "same_owner")
                   \/ /\ slot[s].seen = owner[o].version /\ o # target
                      /\ owner' = [owner EXCEPT
                            ![o] = Moved(@, "transferred", "returned"),
                            ![target] = Moved(@, "assigned",
                                IF target = Creator THEN "accepted" ELSE "pending")]
                      /\ collab' = TransferredCollab(target)
                      /\ Commit(s, print)
                      /\ UNCHANGED <<task, runs>>

(* update_task_timer.  A stale version is forgiven when the timer is       *)
(* already in the state the command asks for.                              *)

Asked(action) ==
    CASE action = "start" -> "running"
      [] action = "pause" -> "paused"
      [] action = "stop"  -> "stopped"

\* Mutant: a completed task may be started again.
TimerMovesCompleted(m, action) ==
    CASE action = "start" -> TRUE
      [] action = "pause" -> TimerState(m) = "running"
      [] action = "stop"  -> TimerState(m) \in {"running", "paused"}

TimerMoves(m, action) ==
    CASE action = "start" -> ~task.done
      [] action = "pause" -> TimerState(m) = "running"
      [] action = "stop"  -> TimerState(m) \in {"running", "paused"}

TimerAfter(m, action) ==
    IF action = "start" THEN Append(runs[m], [status |-> "running", version |-> 1])
    ELSE Ended(runs[m], {"running", "paused"}, Asked(action))

UpdateTimer(s) ==
    /\ Arrives(s, {"timer"})
    /\ LET print == Plain(s)
           m == slot[s].by
           action == slot[s].command.action
           already == TimerState(m) = Asked(action)
           current == slot[s].seen = TimerVersion(m)
       IN  \/ Replay(s, print)
           \/ /\ Fresh(s) /\ ~CanTrack(m)
              /\ Reject(s, IF CanRead(m) THEN "forbidden" ELSE "missing")
           \/ /\ Fresh(s) /\ CanTrack(m) /\ already
              /\ Commit(s, print)
              /\ UNCHANGED <<task, owner, collab, runs>>
           \/ /\ Fresh(s) /\ CanTrack(m) /\ ~already
              /\ ~current \/ ~TimerMoves(m, action)
              /\ Reject(s, "version_conflict")
           \/ /\ Fresh(s) /\ CanTrack(m) /\ ~already
              /\ current /\ TimerMoves(m, action)
              /\ runs' = [runs EXCEPT ![m] = TimerAfter(m, action)]
              /\ Commit(s, print)
              /\ UNCHANGED <<task, owner, collab>>

\* The closing application pauses whatever its member left running, on tasks
\* the member may no longer see too; no version is compared.
PauseRunningTimers(s) ==
    /\ Arrives(s, {"pause_running"})
    /\ LET print == Plain(s)
           m == slot[s].by
       IN  \/ Replay(s, print)
           \/ /\ Fresh(s)
              /\ runs' = [runs EXCEPT ![m] = Suspended(@)]
              /\ Commit(s, print)
              /\ UNCHANGED <<task, owner, collab>>

-----------------------------------------------------------------------------
NoRows == [m \in Members |-> NoRow]

\* create_task by Creator, for any owner and collaborators.
Init ==
    /\ task = [version |-> 1, done |-> FALSE, live |-> TRUE]
    /\ \E o \in Members : \E C \in SUBSET (Members \ {o}) :
         /\ owner = ReplacedOwner(NoRows, o)
         /\ collab = ReplacedCollab(NoRows, NoRows, o, C)
    /\ runs = [m \in Members |-> <<>>]
    /\ slot = [s \in Slots |-> Free]
    /\ issued = 0

Execute(s) ==
    \/ UpdateTask(s) \/ BulkCommit(s) \/ DeleteTask(s)
    \/ HandleInbox(s) \/ TransferTask(s)
    \/ UpdateTimer(s) \/ PauseRunningTimers(s)

Next ==
    \E s \in Slots :
        \/ \E m \in Members, c \in Commands : Compose(s, m, c)
        \/ Close(s)
        \/ Execute(s)

Spec == Init /\ [][Next]_vars

-----------------------------------------------------------------------------
\* Every variable has its shape, and no receipt exists for a command that was
\* never executed.
TypeOK ==
    /\ task \in [version : Nat \ {0}, done : BOOLEAN, live : BOOLEAN]
    /\ owner \in [Members -> Row]
    /\ collab \in [Members -> Row]
    /\ runs \in [Members -> Seq(Run)]
    /\ issued \in 0..MaxCommands
    /\ slot \in [Slots -> CommandState \cup {Free}]
    /\ \A s \in Slots :
         slot[s] # Free /\ slot[s].receipt # NoReceipt => slot[s].attempts > 0

\* Whatever the order of edits, transfers, answers and returns, a collaborator
\* is let in only behind an owner who has accepted
\* (gc04_tasks.py: the gate of _replace_collaborators, handle_inbox and
\* transfer_task).
OwnerGate ==
    \A m \in Members :
        collab[m].assignment = "assigned" => \E o \in Members : Accepted(owner[o])

\* A task has at most one owner it is assigned to or was returned by, and that
\* owner is not one of its collaborators too: the readers that take the first
\* open owner, and the inbox that answers the owner's invitation first, are
\* never ambiguous.
OneOwner ==
    /\ \A o, p \in OpenOwners : o = p
    /\ \A o \in OpenOwners : ~Active(collab[o])

(* What the rows tell of the people, in the words of TaskOwnership.         *)

Standing(r) ==
    CASE Accepted(r) -> "accepted"
      [] Pending(r)  -> "asked"
      [] r.assignment = "returned" -> "returned"
      [] OTHER -> "none"

Seat(r) ==
    CASE Accepted(r) -> "joined"
      [] Pending(r)  -> "invited"
      [] r.assignment = "awaiting_owner" -> "waiting"
      [] r.assignment = "returned" -> "declined"
      [] OTHER -> "out"

Ownership == INSTANCE TaskOwnership WITH
    live <- task.live,
    role <- [m \in Members |-> Standing(owner[m])],
    team <- [m \in Members |-> Seat(collab[m])]

\* Whatever edits, bulk edits, transfers, answers, deletions and replays
\* overlap, the two sets of rows tell of one owner and one team that move by
\* the rules of TaskOwnership: nobody is let in, held back, asked again or
\* forgotten but by a step that may do so, and a deleted task is not touched
\* (gc04_tasks.py: _replace_collaborators, handle_inbox, transfer_task,
\* delete_task).
ImplementsOwnership == Ownership!Spec

\* Nobody is made to have accepted: a row becomes accepted only by its member's
\* own answer, or because the member created the task and owns it.
AcceptanceIsOwn ==
    [][\A m \in Members :
         /\ Accepted(collab'[m]) /\ ~Accepted(collab[m]) =>
              \E s \in Slots : slot[s] # Free /\ slot[s].by = m
                               /\ slot[s].command.kind = "inbox"
         /\ Accepted(owner'[m]) /\ ~Accepted(owner[m]) =>
              \/ m = Creator
              \/ \E s \in Slots : slot[s] # Free /\ slot[s].by = m
                                  /\ slot[s].command.kind = "inbox"]_vars

\* A completed task accumulates no more time: no segment of anybody, the latest
\* or an earlier one, is running.
CompletedStopsTimers ==
    task.done => \A m \in Members : \A i \in DOMAIN runs[m] :
                    runs[m][i].status # "running"

\* However often a command is executed under its key, it takes effect once.
AppliedOnce == \A s \in Slots : slot[s] # Free => slot[s].applied <= 1

\* STRICT_RELIABILITY_CONTRACT.md:37: the same key with the same payload returns
\* the first receipt, so a command that took effect is answered "ok" again.
ReplayReturnsReceipt ==
    \A s \in Slots :
        slot[s] # Free /\ slot[s].applied > 0 => slot[s].reply = "ok"

\* STRICT_RELIABILITY_CONTRACT.md:27: a command against a state its member had
\* not seen is a conflict, never a last write; so an edit that replaces the open
\* owner was composed by a member who saw that owner.
NoLostOwner ==
    [][\A s \in Slots :
         /\ slot[s] # Free /\ slot'[s] # Free
         /\ slot[s].command.kind \in {"update", "bulk"}
         /\ slot'[s].applied > slot[s].applied
         /\ OpenOwners' # OpenOwners
         => slot[s].sawOwner = OpenOwners]_vars

=============================================================================
