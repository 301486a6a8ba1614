---------------------- MODULE TaskCollaboration_proofs ----------------------
(***************************************************************************)
(* For any members, commands and bounds: a collaborator is let in only     *)
(* behind an owner who has accepted, and a task has one open owner.        *)
(*                                                                         *)
(* The two support each other.  A transfer takes the place of one          *)
(* assigned owner only because there is no other, and the answer of a      *)
(* member changes the row of one role only because the open owner is not   *)
(* a collaborator too.  PeopleInv adds that an edit frozen by a bulk       *)
(* preflight names an owner who is not among its collaborators.            *)
(*                                                                         *)
(* TaskInv is the invariant of the rest: types, an owner who completed the *)
(* task with no timer running, commands applied at most once, and rows     *)
(* accepted by their own member.                                           *)
(*                                                                         *)
(* OwnershipTheorem maps the rows to TaskOwnership, one lemma per command. *)
(* NoLostOwnerTheorem and ReplayTheorem say how far two statements go that *)
(* the code does not keep in general.                                      *)
(***************************************************************************)
EXTENDS TaskCollaboration, WellFoundedInduction, TLAPS

Resolved(c) ==
    ChangesPeople(c) => /\ c.owner \in Members
                        /\ c.collabs \subseteq Members \ {c.owner}

RowsOK == owner \in [Members -> Row] /\ collab \in [Members -> Row]

SlotsOK ==
    /\ DOMAIN slot = Slots
    /\ \A s \in Slots :
         slot[s] # Free =>
            /\ slot[s].command \in AllCommands
            /\ slot[s].by \in Members
            /\ slot[s].command.kind = "bulk" => Resolved(slot[s].command)

People == OneOwner /\ OwnerGate

PeopleInv == RowsOK /\ SlotsOK /\ People

-----------------------------------------------------------------------------
\* Filling what a payload leaves out yields an edit of the same kind that names
\* an owner outside its collaborators.
LEMMA NormalizeLemma ==
    ASSUME NEW c \in AllCommands, c.kind \in {"update", "bulk"}, NEW m \in Members
    PROVE  /\ NormalizePatch(c, m) \in AllCommands
           /\ NormalizePatch(c, m).kind = c.kind
           /\ NormalizePatch(c, m).mark = c.mark
           /\ Resolved(NormalizePatch(c, m))
<1> DEFINE o == PatchOwner(c, m)
           C == PatchCollabs(c, o)
<1>1. c \in Edits("update") \/ c \in Edits("bulk")
  BY DEF AllCommands, Edits
<1>2. c.kind \in {"update", "bulk"} /\ c.mark \in {"keep", "done", "open"}
      /\ c.owner \in Members \cup {Keep}
      /\ c.collabs \in (SUBSET Members) \cup {{Keep}}
  BY <1>1 DEF Edits
<1>3. o \in Members
  <2>1. CASE OpenOwners = {}
    BY <2>1, <1>2 DEF PatchOwner
  <2>2. CASE OpenOwners # {}
    <3>1. (CHOOSE p \in OpenOwners : TRUE) \in OpenOwners
      BY <2>2
    <3>2. OpenOwners \subseteq Members
      BY DEF OpenOwners
    <3> QED BY <3>1, <3>2, <1>2, <2>2 DEF PatchOwner
  <2> QED BY <2>1, <2>2
<1>4. C \subseteq Members \ {o}
  <2>1. CASE c.collabs = {Keep}
    BY <2>1 DEF PatchCollabs
  <2>2. CASE c.collabs # {Keep}
    <3>1. c.collabs \subseteq Members
      BY <1>2, <2>2
    <3> QED BY <3>1, <2>2 DEF PatchCollabs
  <2> QED BY <2>1, <2>2
<1> HIDE DEF o, C
<1>5. CASE ChangesPeople(c)
  <2>1. NormalizePatch(c, m) = [c EXCEPT !.owner = o, !.collabs = C]
    BY <1>5 DEF NormalizePatch, o, C
  <2>2. CASE c \in Edits("update")
    <3>1. [c EXCEPT !.owner = o, !.collabs = C] \in Edits("update")
      BY <2>2, <1>3, <1>4 DEF Edits
    <3>2. /\ [c EXCEPT !.owner = o, !.collabs = C].kind = c.kind
          /\ [c EXCEPT !.owner = o, !.collabs = C].mark = c.mark
          /\ [c EXCEPT !.owner = o, !.collabs = C].owner = o
          /\ [c EXCEPT !.owner = o, !.collabs = C].collabs = C
      BY <2>2 DEF Edits
    <3> QED BY <3>1, <3>2, <2>1, <1>3, <1>4 DEF AllCommands, Resolved
  <2>3. CASE c \in Edits("bulk")
    <3>1. [c EXCEPT !.owner = o, !.collabs = C] \in Edits("bulk")
      BY <2>3, <1>3, <1>4 DEF Edits
    <3>2. /\ [c EXCEPT !.owner = o, !.collabs = C].kind = c.kind
          /\ [c EXCEPT !.owner = o, !.collabs = C].mark = c.mark
          /\ [c EXCEPT !.owner = o, !.collabs = C].owner = o
          /\ [c EXCEPT !.owner = o, !.collabs = C].collabs = C
      BY <2>3 DEF Edits
    <3> QED BY <3>1, <3>2, <2>1, <1>3, <1>4 DEF AllCommands, Resolved
  <2> QED BY <1>1, <2>2, <2>3
<1>6. CASE ~ChangesPeople(c)
  BY <1>6 DEF NormalizePatch, Resolved
<1> QED BY <1>5, <1>6

\* A row that is moved, settled or removed stays a row.
LEMMA RowLemma ==
    ASSUME NEW r \in Row
    PROVE  /\ \A a \in Assignments, i \in {"pending", "accepted", "returned"} :
                 Moved(r, a, i) \in Row /\ Settled(r, a, i) \in Row
           /\ Removed(r) \in Row
           /\ ~Active(Removed(r))
           /\ \A a \in Assignments, i \in {"pending", "accepted", "returned"} :
                 /\ Moved(r, a, i).assignment = a /\ Moved(r, a, i).inbox = i
                 /\ Settled(r, a, i).assignment = a /\ Settled(r, a, i).inbox = i
BY DEF Row, Moved, Settled, Removed, Active, Assignments

\* Replacing the people of a task establishes the gate whatever was before.
LEMMA ReplaceLemma ==
    ASSUME NEW ow \in [Members -> Row], NEW co \in [Members -> Row],
           NEW o \in Members, NEW C \in SUBSET (Members \ {o}),
           owner' = ReplacedOwner(ow, o),
           collab' = ReplacedCollab(ow, co, o, C)
    PROVE  RowsOK' /\ People'
<1>1. owner' \in [Members -> Row] /\ collab' \in [Members -> Row]
  BY RowLemma DEF ReplacedOwner, ReplacedCollab, Assignments
<1>2. /\ owner'[o].assignment = "assigned"
      /\ OwnerAccepted(ow, o) => owner'[o].inbox = "accepted"
      /\ \A m \in Members \ {o} : ~Active(owner'[m])
  BY RowLemma DEF ReplacedOwner, Assignments
<1>3. \A m \in Members :
        /\ collab'[m].assignment = "assigned" => OwnerAccepted(ow, o)
        /\ m \notin C => ~Active(collab'[m])
  <2> SUFFICES ASSUME NEW m \in Members
               PROVE  /\ collab'[m].assignment = "assigned" => OwnerAccepted(ow, o)
                      /\ m \notin C => ~Active(collab'[m])
    OBVIOUS
  <2>1. CASE m \notin C
    BY <2>1, RowLemma DEF ReplacedCollab, Active
  <2>2. CASE m \in C /\ ~OwnerAccepted(ow, o)
    BY <2>2, RowLemma DEF ReplacedCollab, Assignments
  <2> QED BY <2>1, <2>2
<1>4. OneOwner'
  BY <1>2, <1>3 DEF OneOwner, OpenOwners, Active
<1>5. OwnerGate'
  BY <1>2, <1>3 DEF OwnerGate, Accepted
<1> QED BY <1>1, <1>4, <1>5 DEF RowsOK, People

-----------------------------------------------------------------------------
\* Executing a command keeps the command: only what became of it changes.
LEMMA SlotLemma ==
    ASSUME SlotsOK, NEW s \in Slots, slot[s] # Free,
           NEW reply, NEW receipt, NEW applied,
           slot' = [slot EXCEPT ![s] = Executed(s, reply, receipt, applied)]
    PROVE  SlotsOK'
<1>1. DOMAIN slot' = Slots
  BY DEF SlotsOK
<1>2. ASSUME NEW t \in Slots, slot'[t] # Free
      PROVE  slot[t] # Free /\ slot'[t].command = slot[t].command
             /\ slot'[t].by = slot[t].by
  BY <1>2 DEF SlotsOK, Executed
<1>3. (\A t \in Slots :
         slot[t] # Free =>
            /\ slot[t].command \in AllCommands
            /\ slot[t].by \in Members
            /\ slot[t].command.kind = "bulk" => Resolved(slot[t].command))'
  BY <1>2 DEF SlotsOK, Resolved, ChangesPeople
<1> QED BY <1>1, <1>3 DEF SlotsOK

\* An update is resolved before it is applied.
LEMMA FingerprintLemma ==
    ASSUME SlotsOK, NEW s \in Slots, slot[s] # Free,
           slot[s].command.kind = "update"
    PROVE  Resolved(UpdateFingerprint(s).command)
<1>1. slot[s].command \in AllCommands /\ slot[s].by \in Members
  BY DEF SlotsOK
<1>2. UpdateFingerprint(s).command = NormalizePatch(slot[s].command, slot[s].by)
  BY DEF UpdateFingerprint
<1> QED BY <1>1, <1>2, NormalizeLemma

\* A resolved edit keeps the gate, whatever else it changes.
LEMMA PatchLemma ==
    ASSUME RowsOK, People, NEW c, Resolved(c), ApplyPatch(c)
    PROVE  RowsOK' /\ People'
<1>1. CASE ChangesPeople(c)
  <2>1. c.owner \in Members /\ c.collabs \in SUBSET (Members \ {c.owner})
    BY <1>1 DEF Resolved
  <2>2. /\ owner' = ReplacedOwner(owner, c.owner)
        /\ collab' = ReplacedCollab(owner, collab, c.owner, c.collabs)
    BY <1>1, Zenon DEF ApplyPatch
  <2>3. owner \in [Members -> Row] /\ collab \in [Members -> Row]
    BY DEF RowsOK
  <2> QED BY <2>1, <2>2, <2>3, ReplaceLemma
<1>2. CASE ~ChangesPeople(c)
  <2>1. UNCHANGED <<owner, collab>>
    BY <1>2, Zenon DEF ApplyPatch
  <2> QED BY <2>1 DEF RowsOK, People, OneOwner, OwnerGate, OpenOwners, Accepted, Active
<1> QED BY <1>1, <1>2

-----------------------------------------------------------------------------
\* What holding back and releasing the collaborators does to one of them.
LEMMA HeldLemma ==
    ASSUME NEW co \in [Members -> Row]
    PROVE  /\ Held(co) \in [Members -> Row] /\ Released(co) \in [Members -> Row]
           /\ \A m \in Members :
                /\ Held(co)[m].assignment # "assigned"
                /\ Active(Held(co)[m]) => Active(co[m])
                /\ Active(Released(co)[m]) => Active(co[m])
<1>1. \A m \in Members : co[m] \in Row /\ co[m].inbox \in {"pending", "accepted", "returned"}
  BY DEF Row
<1>2. Held(co) \in [Members -> Row] /\ Released(co) \in [Members -> Row]
  BY <1>1, RowLemma DEF Held, Released, Assignments
<1>3. ASSUME NEW m \in Members
      PROVE  /\ Held(co)[m].assignment # "assigned"
             /\ Active(Held(co)[m]) => Active(co[m])
             /\ Active(Released(co)[m]) => Active(co[m])
  <2>1. /\ Held(co)[m] = IF Active(co[m])
                         THEN Moved(co[m], "awaiting_owner", "pending") ELSE co[m]
        /\ Released(co)[m] = IF co[m].assignment = "awaiting_owner"
                             THEN Moved(co[m], "assigned", co[m].inbox) ELSE co[m]
    BY DEF Held, Released
  <2> QED BY <2>1 DEF Moved, Active
<1> QED BY <1>2, <1>3

\* An answer keeps the gate: the owner's moves all the collaborators with it.
LEMMA InboxLemma ==
    ASSUME RowsOK, People, NEW m \in Members, NEW action \in {"accept", "return"},
           \/ /\ Pending(owner[m])
              /\ owner' = [owner EXCEPT ![m] = Answered(@, action)]
              /\ collab' = IF action = "accept" THEN Released(collab) ELSE Held(collab)
           \/ /\ Pending(collab[m])
              /\ collab' = [collab EXCEPT ![m] = Answered(@, action)]
              /\ UNCHANGED owner
    PROVE  RowsOK' /\ People'
<1>1. owner \in [Members -> Row] /\ collab \in [Members -> Row]
  BY DEF RowsOK
<1>2. ASSUME NEW r \in Row
      PROVE  /\ Answered(r, action) \in Row
             /\ action = "accept" => Accepted(Answered(r, action))
             /\ action = "return" => Answered(r, action).assignment = "returned"
  BY RowLemma DEF Answered, Accepted, Assignments
<1>3. CASE /\ Pending(owner[m])
           /\ owner' = [owner EXCEPT ![m] = Answered(@, action)]
           /\ collab' = IF action = "accept" THEN Released(collab) ELSE Held(collab)
  <2> DEFINE a == Answered(owner[m], action)
  <2>0. /\ a \in Row
        /\ action = "accept" => Accepted(a)
        /\ action = "return" => a.assignment = "returned"
        /\ owner' = [owner EXCEPT ![m] = a]
    BY <1>1, <1>2, <1>3
  <2> HIDE DEF a
  <2>1. RowsOK'
    BY <1>1, <2>0, <1>3, HeldLemma DEF RowsOK
  <2>2. OpenOwners' = OpenOwners
    <3>1. m \in OpenOwners
      BY <1>3 DEF OpenOwners, Pending
    <3>2. owner'[m].assignment \in {"assigned", "returned"}
      BY <1>1, <2>0 DEF Accepted
    <3> QED BY <1>1, <2>0, <3>1, <3>2 DEF OpenOwners
  <2>3. \A n \in Members : Active(collab'[n]) => Active(collab[n])
    BY <1>1, <1>3, HeldLemma
  <2>4. OneOwner'
    BY <2>2, <2>3 DEF People, OneOwner, OpenOwners, Active
  <2>5. OwnerGate'
    <3>1. CASE action = "accept"
      <4>1. Accepted(owner'[m])
        BY <3>1, <1>1, <2>0
      <4> QED BY <4>1 DEF OwnerGate, Accepted
    <3>2. CASE action = "return"
      BY <3>2, <1>1, <1>3, HeldLemma DEF OwnerGate
    <3> QED BY <3>1, <3>2
  <2> QED BY <2>1, <2>4, <2>5 DEF People
<1>4. CASE /\ Pending(collab[m])
           /\ collab' = [collab EXCEPT ![m] = Answered(@, action)]
           /\ UNCHANGED owner
  <2> DEFINE a == Answered(collab[m], action)
  <2>1. a \in Row /\ collab' = [collab EXCEPT ![m] = a]
    BY <1>1, <1>2, <1>4
  <2> HIDE DEF a
  <2>2. RowsOK'
    BY <1>1, <2>1, <1>4 DEF RowsOK
  <2>3. \A n \in Members :
          /\ Active(collab'[n]) => Active(collab[n])
          /\ collab'[n].assignment = "assigned" =>
                collab[n].assignment = "assigned"
    BY <1>1, <2>1, <1>4 DEF Pending, Active
  <2>4. owner' = owner
    BY <1>4
  <2>5. OneOwner'
    BY <2>3, <2>4 DEF People, OneOwner, OpenOwners, Active
  <2>6. OwnerGate'
    BY <2>3, <2>4 DEF People, OwnerGate, Accepted
  <2> QED BY <2>2, <2>5, <2>6 DEF People
<1> QED BY <1>3, <1>4

\* A transfer keeps the gate: the one assigned owner gives its place to the
\* target, who leaves the collaborators.
LEMMA TransferLemma ==
    ASSUME RowsOK, People, NEW o \in AssignedOwners, NEW target \in Members,
           o # target,
           owner' = [owner EXCEPT
                        ![o] = Moved(@, "transferred", "returned"),
                        ![target] = Moved(@, "assigned",
                            IF target = Creator THEN "accepted" ELSE "pending")],
           collab' = TransferredCollab(target)
    PROVE  RowsOK' /\ People'
<1> DEFINE others == [collab EXCEPT ![target] = Removed(@)]
<1>1. owner \in [Members -> Row] /\ collab \in [Members -> Row] /\ o \in Members
  BY DEF RowsOK, AssignedOwners
<1>2. /\ owner' \in [Members -> Row]
      /\ owner'[o].assignment = "transferred"
      /\ target = Creator => Accepted(owner'[target])
      /\ \A n \in Members \ {o, target} : owner'[n] = owner[n]
  BY <1>1, RowLemma DEF Assignments, Accepted
<1>3. /\ others \in [Members -> Row]
      /\ ~Active(others[target])
      /\ \A n \in Members \ {target} : others[n] = collab[n]
  BY <1>1, RowLemma
<1>4. collab' = IF target = Creator THEN Released(others) ELSE Held(others)
  BY DEF TransferredCollab
<1> HIDE DEF others
<1>5. /\ collab' \in [Members -> Row]
      /\ \A n \in Members : Active(collab'[n]) => Active(others[n])
      /\ target # Creator =>
            \A n \in Members : collab'[n].assignment # "assigned"
  BY <1>3, <1>4, HeldLemma
<1>6. OpenOwners' \subseteq {target}
  <2>1. OpenOwners = {o}
    BY DEF People, OneOwner, OpenOwners, AssignedOwners
  <2> QED BY <1>2, <2>1 DEF OpenOwners
<1>7. OneOwner'
  BY <1>3, <1>5, <1>6 DEF OneOwner, Active
<1>8. OwnerGate'
  BY <1>2, <1>5 DEF OwnerGate, Accepted
<1> QED BY <1>2, <1>5, <1>7, <1>8 DEF RowsOK, People

\* Deleting the task removes everybody.
LEMMA DeleteLemma ==
    ASSUME RowsOK,
           owner' = [m \in Members |-> Removed(owner[m])],
           collab' = [m \in Members |-> Removed(collab[m])]
    PROVE  RowsOK' /\ People'
<1>1. owner \in [Members -> Row] /\ collab \in [Members -> Row]
  BY DEF RowsOK
<1>2. RowsOK'
  BY <1>1, RowLemma DEF RowsOK
<1>3. \A m \in Members : ~Active(owner'[m]) /\ ~Active(collab'[m])
  BY <1>1, RowLemma DEF Active
<1>4. OneOwner' /\ OwnerGate'
  BY <1>3 DEF OneOwner, OwnerGate, OpenOwners, Active
<1> QED BY <1>2, <1>4 DEF People

-----------------------------------------------------------------------------
\* A task is created with its people in order.
LEMMA InitLemma == Init => PeopleInv
<1> SUFFICES ASSUME Init PROVE PeopleInv
  OBVIOUS
<1>0. PICK o \in Members : \E C \in SUBSET (Members \ {o}) :
        owner = ReplacedOwner(NoRows, o) /\ collab = ReplacedCollab(NoRows, NoRows, o, C)
  BY DEF Init
<1>1. PICK C \in SUBSET (Members \ {o}) :
        owner = ReplacedOwner(NoRows, o) /\ collab = ReplacedCollab(NoRows, NoRows, o, C)
  BY <1>0
<1>2. NoRows \in [Members -> Row]
  BY DEF NoRows, NoRow, Row, Assignments
<1>3. RowsOK
  BY <1>1, <1>2, RowLemma DEF RowsOK, ReplacedOwner, ReplacedCollab, Assignments
<1>4. /\ owner[o].assignment = "assigned"
      /\ OwnerAccepted(NoRows, o) => owner[o].inbox = "accepted"
      /\ \A m \in Members \ {o} : ~Active(owner[m])
  BY <1>1, <1>2, RowLemma DEF ReplacedOwner, Assignments
<1>5. \A m \in Members :
        /\ collab[m].assignment = "assigned" => OwnerAccepted(NoRows, o)
        /\ m \notin C => ~Active(collab[m])
  <2> SUFFICES ASSUME NEW m \in Members
               PROVE  /\ collab[m].assignment = "assigned" => OwnerAccepted(NoRows, o)
                      /\ m \notin C => ~Active(collab[m])
    OBVIOUS
  <2>1. CASE m \notin C
    BY <2>1, <1>1, <1>2, RowLemma DEF ReplacedCollab, Active
  <2>2. CASE m \in C /\ ~OwnerAccepted(NoRows, o)
    BY <2>2, <1>1, <1>2, RowLemma DEF ReplacedCollab, Assignments
  <2> QED BY <2>1, <2>2
<1>6. OneOwner
  BY <1>4, <1>5 DEF OneOwner, OpenOwners, Active
<1>7. OwnerGate
  BY <1>4, <1>5 DEF OwnerGate, Accepted
<1>8. SlotsOK
  BY DEF Init, SlotsOK
<1> QED BY <1>3, <1>6, <1>7, <1>8 DEF PeopleInv, People

\* A step that leaves the rows alone keeps what is said of them.
LEMMA RowsLemma ==
    ASSUME RowsOK, People, UNCHANGED <<owner, collab>>
    PROVE  RowsOK' /\ People'
<1>1. owner' = owner /\ collab' = collab
  OBVIOUS
<1>2. RowsOK'
  BY <1>1 DEF RowsOK
<1>3. OneOwner'
  BY <1>1 DEF People, OneOwner, OpenOwners, Active
<1>4. OwnerGate'
  BY <1>1 DEF People, OwnerGate, Accepted
<1> QED BY <1>2, <1>3, <1>4 DEF People

\* Composing a command fills a free slot with it; a bulk edit is resolved first.
LEMMA ComposeLemma ==
    ASSUME PeopleInv, NEW s \in Slots, NEW m \in Members, NEW c \in Commands,
           Compose(s, m, c)
    PROVE  PeopleInv'
<1> DEFINE d == IF c.kind = "bulk" THEN NormalizePatch(c, m) ELSE c
           w == IF c.kind \in {"update", "bulk"} THEN OpenOwners ELSE {}
           r == [command |-> d, by |-> m, seen |-> SeenVersion(c, m),
                 sawOwner |-> w, attempts |-> 0, receipt |-> NoReceipt,
                 reply |-> "none", applied |-> 0]
<1>1. c \in AllCommands
  BY CommandsAssumption
<1>2. d \in AllCommands /\ (d.kind = "bulk" => Resolved(d))
  BY <1>1, NormalizeLemma
<1>3. slot' = [slot EXCEPT ![s] = r] /\ UNCHANGED <<owner, collab>>
  BY Zenon DEF Compose
<1>4. r.command = d /\ r.by = m
  OBVIOUS
<1> HIDE DEF d, w, r
<1>5. DOMAIN slot' = Slots
  BY <1>3 DEF PeopleInv, SlotsOK
<1>6. ASSUME NEW t \in Slots, slot'[t] # Free
      PROVE  /\ slot'[t].command \in AllCommands
             /\ slot'[t].by \in Members
             /\ slot'[t].command.kind = "bulk" => Resolved(slot'[t].command)
  <2>1. CASE t = s
    BY <2>1, <1>2, <1>3, <1>4 DEF PeopleInv, SlotsOK
  <2>2. CASE t # s
    <3>1. slot'[t] = slot[t]
      BY <2>2, <1>3 DEF PeopleInv, SlotsOK
    <3> QED BY <3>1, <1>6 DEF PeopleInv, SlotsOK
  <2> QED BY <2>1, <2>2
<1>7. SlotsOK'
  BY <1>5, <1>6 DEF SlotsOK, Resolved, ChangesPeople
<1> QED BY <1>3, <1>7, RowsLemma DEF PeopleInv

\* Every way of executing a command either changes no row, and answers, or
\* changes the rows as one of the lemmas above says and commits.
LEMMA ExecuteLemma ==
    ASSUME PeopleInv, NEW s \in Slots, Execute(s)
    PROVE  PeopleInv'
<1> DEFINE Answers == \E reply, receipt, applied :
                         slot' = [slot EXCEPT ![s] = Executed(s, reply, receipt, applied)]
<1>0. slot[s] # Free /\ SlotsOK /\ RowsOK /\ People
  BY DEF Execute, UpdateTask, BulkCommit, DeleteTask, HandleInbox, TransferTask,
         UpdateTimer, PauseRunningTimers, Arrives, PeopleInv
<1>1. ASSUME Answers, RowsOK', People' PROVE PeopleInv'
  <2>1. PICK reply, receipt, applied :
          slot' = [slot EXCEPT ![s] = Executed(s, reply, receipt, applied)]
    BY <1>1
  <2>2. SlotsOK'
    BY <2>1, <1>0, SlotLemma
  <2> QED BY <2>2, <1>1 DEF PeopleInv
<1>2. ASSUME NEW reply, Reply(s, reply) PROVE Answers
  BY <1>2 DEF Reply
<1>3. ASSUME NEW print, Commit(s, print) PROVE Answers
  BY <1>3 DEF Commit
<1> HIDE DEF Answers
<1>4. ASSUME NEW reply, Reject(s, reply) PROVE PeopleInv'
  BY <1>0, <1>1, <1>2, <1>4, RowsLemma DEF Reject, Unchanged
<1>5. ASSUME NEW print, Replay(s, print) PROVE PeopleInv'
  <2>1. PICK reply : Reply(s, reply)
    BY <1>5, Zenon DEF Replay
  <2>2. UNCHANGED <<owner, collab>>
    BY <1>5 DEF Replay, Unchanged
  <2> QED BY <1>0, <1>1, <1>2, <2>1, <2>2, RowsLemma
<1>6. ASSUME RejectWriter(s) PROVE PeopleInv'
  <2>1. PICK reply : Reject(s, reply)
    BY <1>6, Zenon DEF RejectWriter
  <2> QED BY <1>4, <2>1
<1>7. ASSUME NEW print, Commit(s, print), UNCHANGED <<owner, collab>>
      PROVE  PeopleInv'
  BY <1>0, <1>1, <1>3, <1>7, RowsLemma
<1>8. CASE UpdateTask(s)
  <2> DEFINE print == UpdateFingerprint(s)
  <2>1. CASE ApplyPatch(print.command) /\ Commit(s, print)
    <3>1. slot[s].command.kind = "update"
      BY <1>8 DEF UpdateTask, Arrives
    <3>2. Resolved(print.command)
      BY <3>1, <1>0, FingerprintLemma
    <3> HIDE DEF print
    <3>3. RowsOK' /\ People'
      BY <2>1, <3>2, <1>0, PatchLemma
    <3> QED BY <3>3, <2>1, <1>1, <1>3
  <2> QED BY <2>1, <1>4, <1>5, <1>6, <1>8 DEF UpdateTask
<1>9. CASE BulkCommit(s)
  <2>1. CASE ApplyPatch(slot[s].command) /\ Commit(s, Plain(s))
    <3>1. Resolved(slot[s].command)
      BY <1>9, <1>0 DEF BulkCommit, Arrives, SlotsOK
    <3>2. RowsOK' /\ People'
      BY <2>1, <3>1, <1>0, PatchLemma
    <3> QED BY <3>2, <2>1, <1>1, <1>3
  <2>2. CASE /\ slot' = [slot EXCEPT ![s] =
                            Executed(s, "item_refused", Plain(s), slot[s].applied)]
             /\ Unchanged
    <3>1. Answers
      BY <2>2 DEF Answers
    <3> QED BY <3>1, <2>2, <1>0, <1>1, RowsLemma DEF Unchanged
  <2> QED BY <2>1, <2>2, <1>5, <1>9 DEF BulkCommit
<1>10. CASE DeleteTask(s)
  <2>1. CASE /\ owner' = [m \in Members |-> Removed(owner[m])]
             /\ collab' = [m \in Members |-> Removed(collab[m])]
             /\ Commit(s, Plain(s))
    BY <2>1, <1>0, <1>1, <1>3, DeleteLemma
  <2> QED BY <2>1, <1>4, <1>5, <1>6, <1>10 DEF DeleteTask
<1>11. CASE HandleInbox(s)
  <2> DEFINE m == slot[s].by
             action == slot[s].command.action
  <2>1. m \in Members
    BY <1>0 DEF SlotsOK
  <2>2. action \in {"accept", "return"}
    <3>1. slot[s].command \in AllCommands /\ slot[s].command.kind = "inbox"
      BY <1>11, <1>0 DEF HandleInbox, Arrives, SlotsOK
    <3> QED BY <3>1 DEF AllCommands, Edits
  <2>3. CASE /\ Pending(IF Pending(owner[m]) THEN owner[m] ELSE collab[m])
             /\ IF Pending(owner[m])
                THEN /\ owner' = [owner EXCEPT ![m] = Answered(@, action)]
                     /\ collab' = IF action = "accept" THEN Released(collab)
                                                       ELSE Held(collab)
                ELSE /\ collab' = [collab EXCEPT ![m] = Answered(@, action)]
                     /\ UNCHANGED owner
             /\ Commit(s, Plain(s))
    <3> HIDE DEF m, action
    <3>1. CASE Pending(owner[m])
      BY <3>1, <2>1, <2>2, <2>3, <1>0, <1>1, <1>3, InboxLemma
    <3>2. CASE ~Pending(owner[m])
      BY <3>2, <2>1, <2>2, <2>3, <1>0, <1>1, <1>3, InboxLemma
    <3> QED BY <3>1, <3>2
  <2> QED BY <2>3, <1>4, <1>5, <1>11 DEF HandleInbox
<1>12. CASE TransferTask(s)
  <2> DEFINE target == slot[s].command.target
  <2>1. target \in Members
    <3>1. slot[s].command \in AllCommands /\ slot[s].command.kind = "transfer"
      BY <1>12, <1>0 DEF TransferTask, Arrives, SlotsOK
    <3> QED BY <3>1 DEF AllCommands, Edits
  <2>2. ASSUME NEW o \in AssignedOwners, o # target,
               owner' = [owner EXCEPT
                            ![o] = Moved(@, "transferred", "returned"),
                            ![target] = Moved(@, "assigned",
                                IF target = Creator THEN "accepted" ELSE "pending")],
               collab' = TransferredCollab(target),
               Commit(s, Plain(s))
        PROVE  PeopleInv'
    <3> HIDE DEF target
    <3>1. RowsOK' /\ People'
      BY <2>1, <2>2, <1>0, TransferLemma
    <3> QED BY <3>1, <2>2, <1>1, <1>3
  <2> QED BY <2>2, <1>4, <1>5, <1>6, <1>12 DEF TransferTask
<1>13. CASE UpdateTimer(s)
  <2>1. CASE UNCHANGED <<owner, collab>> /\ Commit(s, Plain(s))
    BY <2>1, <1>7
  <2> QED BY <2>1, <1>4, <1>5, <1>13 DEF UpdateTimer
<1>14. CASE PauseRunningTimers(s)
  <2>1. CASE UNCHANGED <<owner, collab>> /\ Commit(s, Plain(s))
    BY <2>1, <1>7
  <2> QED BY <2>1, <1>5, <1>14 DEF PauseRunningTimers
<1> QED BY <1>8, <1>9, <1>10, <1>11, <1>12, <1>13, <1>14 DEF Execute

LEMMA StepLemma == PeopleInv /\ [Next]_vars => PeopleInv'
<1> SUFFICES ASSUME PeopleInv, [Next]_vars PROVE PeopleInv'
  OBVIOUS
<1>1. ASSUME NEW s \in Slots, NEW m \in Members, NEW c \in Commands, Compose(s, m, c)
      PROVE  PeopleInv'
  BY <1>1, ComposeLemma
<1>2. ASSUME NEW s \in Slots, Close(s) PROVE PeopleInv'
  <2>1. slot' = [slot EXCEPT ![s] = Free] /\ UNCHANGED <<owner, collab>>
    BY <1>2 DEF Close
  <2>2. SlotsOK'
    BY <2>1 DEF PeopleInv, SlotsOK, Resolved, ChangesPeople
  <2> QED BY <2>1, <2>2, RowsLemma DEF PeopleInv
<1>3. ASSUME NEW s \in Slots, Execute(s) PROVE PeopleInv'
  BY <1>3, ExecuteLemma
<1>4. CASE UNCHANGED vars
  <2>1. slot' = slot /\ UNCHANGED <<owner, collab>>
    BY <1>4 DEF vars
  <2>2. SlotsOK'
    BY <2>1 DEF PeopleInv, SlotsOK, Resolved, ChangesPeople
  <2> QED BY <2>1, <2>2, RowsLemma DEF PeopleInv
<1> QED BY <1>1, <1>2, <1>3, <1>4, Zenon DEF Next

\* For any members and commands: a collaborator is let in only behind an owner
\* who has accepted.
THEOREM OwnerGateTheorem == Spec => []OwnerGate
<1>1. PeopleInv => OwnerGate
  BY DEF PeopleInv, People
<1> QED BY <1>1, InitLemma, StepLemma, PTL DEF Spec

\* For any members and commands: a task has one open owner, who is not one of
\* its collaborators too.
THEOREM OneOwnerTheorem == Spec => []OneOwner
<1>1. PeopleInv => OneOwner
  BY DEF PeopleInv, People
<1> QED BY <1>1, InitLemma, StepLemma, PTL DEF Spec

-----------------------------------------------------------------------------
(* The version of a timer is a sum over its segments.  That it is a number   *)
(* is proved by taking the first segment for which it were not.              *)

\* A set of naturals has a least element.
LEMMA LeastNat ==
    ASSUME NEW S \in SUBSET Nat, S # {}
    PROVE  \E x \in S : \A y \in S : x <= y
<1>1. PICK x \in S : \A y \in S : ~ (<<y, x>> \in OpToRel(<, Nat))
  BY WFMin, NatLessThanWellFounded, Zenon
<1>2. \A y \in S : ~ (y < x)
  BY <1>1 DEF OpToRel
<1> QED BY <1>2

\* Partial sums exist, up to every length, ...
LEMMA SumsExist ==
    ASSUME NEW n \in Nat, NEW q, \A i \in 1..n : q[i].version \in Nat
    PROVE  \E f \in [0..n -> Nat] :
              f = [i \in 0..n |-> IF i = 0 THEN 0 ELSE f[i - 1] + q[i].version]
<1> DEFINE Sums(k, f) ==
             \A i \in 0..k : f[i] = IF i = 0 THEN 0 ELSE f[i - 1] + q[i].version
           Bad == {k \in 0..n : ~ \E f \in [0..k -> Nat] : Sums(k, f)}
<1>1. ASSUME Bad # {} PROVE FALSE
  <2>1. PICK k \in Bad : \A j \in Bad : k <= j
    <3>1. Bad \in SUBSET Nat
      OBVIOUS
    <3> HIDE DEF Bad
    <3> QED BY <3>1, <1>1, LeastNat
  <2>2. CASE k = 0
    <3>1. [i \in 0..0 |-> 0] \in [0..0 -> Nat] /\ Sums(0, [i \in 0..0 |-> 0])
      OBVIOUS
    <3> QED BY <3>1, <2>2
  <2>3. CASE k # 0
    <3>0. k \in 0..n /\ \A j \in Bad : k <= j
      BY <2>1
    <3>1. k \in 1..n /\ k - 1 \in 0..n /\ k - 1 \notin Bad
      <4> HIDE DEF Bad
      <4> QED BY <3>0, <2>3
    <3>2. PICK f \in [0..(k - 1) -> Nat] : Sums(k - 1, f)
      BY <3>1
    <3> DEFINE g == [i \in 0..k |-> IF i = k THEN f[k - 1] + q[k].version ELSE f[i]]
    <3>3. g \in [0..k -> Nat]
      BY <3>1, <3>2
    <3>4. Sums(k, g)
      BY <3>1, <3>2
    <3> QED BY <3>3, <3>4
  <2> QED BY <2>2, <2>3
<1>2. PICK f \in [0..n -> Nat] : Sums(n, f)
  BY SMTT(30), <1>1
<1>3. f = [i \in 0..n |-> IF i = 0 THEN 0 ELSE f[i - 1] + q[i].version]
  BY <1>2
<1> QED BY <1>3

\* ... and whichever function the definition chooses, it is made of numbers.
LEMMA TimerVersionLemma ==
    ASSUME NEW m \in Members, runs[m] \in Seq(Run)
    PROVE  TimerVersion(m) \in Nat
<1> DEFINE n == Len(runs[m])
           Sum(f) == f = [i \in 0..n |->
                            IF i = 0 THEN 0 ELSE f[i - 1] + runs[m][i].version]
           sum == CHOOSE f : Sum(f)
<1>1. n \in Nat /\ \A i \in 1..n : runs[m][i].version \in Nat
  <2>1. n \in Nat /\ \A i \in 1..n : runs[m][i] \in Run
    OBVIOUS
  <2>2. \A r \in Run : r.version \in Nat
    BY DEF Run
  <2> QED BY <2>1, <2>2
<1>2. TimerVersion(m) = sum[n]
  BY DEF TimerVersion
<1> HIDE DEF n
<1>3. \E f : Sum(f)
  <2>1. \E f \in [0..n -> Nat] : Sum(f)
    BY <1>1, SumsExist, Zenon
  <2> QED BY <2>1, Zenon
<1>4. Sum(sum)
  BY <1>3
<1>5. \A i \in 0..n : sum[i] = IF i = 0 THEN 0 ELSE sum[i - 1] + runs[m][i].version
  BY <1>4, Zenon
<1> HIDE DEF sum
<1> DEFINE Bad == {i \in 0..n : sum[i] \notin Nat}
<1>6. ASSUME Bad # {} PROVE FALSE
  <2>1. PICK k \in Bad : \A j \in Bad : k <= j
    <3>1. Bad \in SUBSET Nat
      BY <1>1
    <3> HIDE DEF Bad
    <3> QED BY <3>1, <1>6, LeastNat
  <2>2. k # 0
    BY <1>1, <1>5
  <2>3. k \in 1..n /\ sum[k - 1] \in Nat
    BY <1>1, <2>1, <2>2
  <2>4. k \in 0..n /\ k # 0 /\ sum[k] \notin Nat
    BY <2>1, <2>2
  <2>5. sum[k] = sum[k - 1] + runs[m][k].version
    BY <1>5, <2>4
  <2>6. runs[m][k].version \in Nat
    BY <1>1, <2>3
  <2> QED BY <2>3, <2>4, <2>5, <2>6
<1> QED BY <1>1, <1>2, <1>6

-----------------------------------------------------------------------------
(* What an execution makes of its slot: an answer, or a receipt that was not *)
(* there before, and then at most one effect.                                *)

StatesOK == slot \in [Slots -> CommandState \cup {Free}]

Takes(s, reply, receipt, applied) ==
    /\ slot' = [slot EXCEPT ![s] = Executed(s, reply, receipt, applied)]
    /\ reply \in Replies
    /\ \/ receipt = slot[s].receipt /\ applied = slot[s].applied
       \/ /\ Fresh(s) /\ receipt \in Fingerprints
          /\ applied \in {slot[s].applied, slot[s].applied + 1}

Taken(s) == \E reply, receipt, applied : Takes(s, reply, receipt, applied)

\* The fingerprints are those of the commands there are.
LEMMA PrintLemma ==
    ASSUME SlotsOK, StatesOK, NEW s \in Slots, slot[s] # Free
    PROVE  /\ Plain(s) \in Fingerprints
           /\ slot[s].command.kind = "update" => UpdateFingerprint(s) \in Fingerprints
<1>1. slot[s].command \in AllCommands /\ slot[s].by \in Members
      /\ slot[s].attempts \in 0..MaxAttempts
  BY DEF SlotsOK, StatesOK, CommandState
<1>2. slot[s].command.kind = "update" =>
         NormalizePatch(slot[s].command, slot[s].by) \in AllCommands
  BY <1>1, NormalizeLemma
<1>3. (IF slot[s].command.mark = "done" THEN slot[s].attempts + 1 ELSE 0) \in Nat
  BY <1>1, BoundsAssumption
<1> QED BY <1>1, <1>2, <1>3 DEF Plain, UpdateFingerprint, Fingerprints

\* Every execution takes its slot from one state to the next in this way.
LEMMA TakenLemma ==
    ASSUME SlotsOK, StatesOK, NEW s \in Slots, Execute(s)
    PROVE  /\ Taken(s) /\ slot[s] # Free /\ slot[s].attempts < MaxAttempts
           /\ issued' = issued
<1>0. slot[s] # Free /\ slot[s].attempts < MaxAttempts
  BY DEF Execute, UpdateTask, BulkCommit, DeleteTask, HandleInbox, TransferTask,
         UpdateTimer, PauseRunningTimers, Arrives
<1>1. ASSUME NEW reply \in Replies, Reply(s, reply) PROVE Taken(s)
  <2>1. Takes(s, reply, slot[s].receipt, slot[s].applied)
    BY <1>1 DEF Reply, Takes
  <2> QED BY <2>1 DEF Taken
<1>2. ASSUME NEW print \in Fingerprints, Fresh(s), Commit(s, print)
      PROVE  Taken(s) /\ issued' = issued
  <2>1. Takes(s, "ok", print, slot[s].applied + 1)
    BY <1>2 DEF Commit, Takes, Replies
  <2> QED BY <1>2, <2>1 DEF Taken, Commit
<1>3. ASSUME NEW reply \in Replies, Reject(s, reply) PROVE Taken(s) /\ issued' = issued
  BY <1>1, <1>3 DEF Reject, Unchanged
<1>4. ASSUME NEW print, Replay(s, print) PROVE Taken(s) /\ issued' = issued
  <2>1. CASE slot[s].receipt = print
    BY <1>1, <1>4, <2>1 DEF Replay, Unchanged, Replies
  <2>2. CASE slot[s].receipt # print
    BY <1>1, <1>4, <2>2 DEF Replay, Unchanged, Replies
  <2> QED BY <2>1, <2>2
<1>5. ASSUME RejectWriter(s) PROVE Taken(s) /\ issued' = issued
  BY <1>3, <1>5 DEF RejectWriter, Replies
<1> USE DEF Replies
<1>6. Plain(s) \in Fingerprints
  BY <1>0, PrintLemma
<1>7. CASE UpdateTask(s)
  <2>1. UpdateFingerprint(s) \in Fingerprints
    BY <1>0, <1>7, PrintLemma DEF UpdateTask, Arrives
  <2> QED BY <2>1, <1>0, <1>2, <1>3, <1>4, <1>5, <1>7 DEF UpdateTask
<1>8. CASE BulkCommit(s)
  <2>1. CASE /\ Fresh(s)
             /\ slot' = [slot EXCEPT ![s] =
                           Executed(s, "item_refused", Plain(s), slot[s].applied)]
             /\ Unchanged
    <3>1. Takes(s, "item_refused", Plain(s), slot[s].applied)
      BY <1>6, <2>1 DEF Takes
    <3> QED BY <2>1, <3>1, <1>0 DEF Taken, Unchanged
  <2> QED BY <2>1, <1>0, <1>2, <1>4, <1>6, <1>8 DEF BulkCommit
<1>9. CASE DeleteTask(s)
  BY <1>0, <1>2, <1>3, <1>4, <1>5, <1>6, <1>9 DEF DeleteTask
<1>10. CASE HandleInbox(s)
  BY <1>0, <1>2, <1>3, <1>4, <1>6, <1>10 DEF HandleInbox
<1>11. CASE TransferTask(s)
  BY <1>0, <1>2, <1>3, <1>4, <1>5, <1>6, <1>11 DEF TransferTask
<1>12. CASE UpdateTimer(s)
  BY <1>0, <1>2, <1>3, <1>4, <1>6, <1>12 DEF UpdateTimer
<1>13. CASE PauseRunningTimers(s)
  BY <1>0, <1>2, <1>4, <1>6, <1>13 DEF PauseRunningTimers
<1> QED BY <1>7, <1>8, <1>9, <1>10, <1>11, <1>12, <1>13 DEF Execute

\* What an execution leaves in its slot is a command under way.
LEMMA StatesLemma ==
    ASSUME StatesOK, NEW s \in Slots, slot[s] # Free, slot[s].attempts < MaxAttempts,
           NEW reply, NEW receipt, NEW applied, Takes(s, reply, receipt, applied)
    PROVE  StatesOK' /\ slot'[s] = Executed(s, reply, receipt, applied)
           /\ \A t \in Slots \ {s} : slot'[t] = slot[t]
<1>1. slot[s] \in CommandState
  BY DEF StatesOK
<1>2. /\ slot[s].command \in AllCommands /\ slot[s].by \in Members /\ slot[s].seen \in Nat
      /\ slot[s].sawOwner \subseteq Members /\ slot[s].attempts + 1 \in 0..MaxAttempts
      /\ receipt \in Fingerprints \cup {NoReceipt}
      /\ applied \in Nat /\ reply \in Replies
  BY <1>1, BoundsAssumption DEF CommandState, Takes
<1>3. Executed(s, reply, receipt, applied) \in CommandState
  BY <1>2 DEF Executed, CommandState
<1>4. slot' = [slot EXCEPT ![s] = Executed(s, reply, receipt, applied)]
  BY DEF Takes
<1> QED BY <1>3, <1>4 DEF StatesOK

-----------------------------------------------------------------------------
(* The focus segments: only the latest of a member may be running, so ending *)
(* the latest of each of them stops every timer of a completed task.         *)

TaskOK == task \in [version : Nat \ {0}, done : BOOLEAN, live : BOOLEAN]

OlderEnded(q) == \A i \in DOMAIN q : i < Len(q) => q[i].status # "running"
NoneRuns(q) == \A i \in DOMAIN q : q[i].status # "running"

TimersInv ==
    /\ TaskOK
    /\ runs \in [Members -> Seq(Run)]
    /\ \A m \in Members : OlderEnded(runs[m])
    /\ CompletedStopsTimers

\* A function over the indices of a sequence is a sequence.
LEMMA SegmentsLemma ==
    ASSUME NEW q \in Seq(Run), NEW g, DOMAIN g = DOMAIN q,
           \A i \in DOMAIN q : g[i] \in Run, g = [i \in DOMAIN q |-> g[i]]
    PROVE  g \in Seq(Run) /\ Len(g) = Len(q) /\ DOMAIN g = 1..Len(q)
<1>1. DOMAIN q = 1..Len(q) /\ Len(q) \in Nat
  OBVIOUS
<1>2. g \in [1..Len(q) -> Run]
  BY <1>1
<1> QED BY <1>1, <1>2

\* Ending or suspending segments starts none.
LEMMA EndedLemma ==
    ASSUME NEW q \in Seq(Run), OlderEnded(q), NEW from,
           NEW status \in {"paused", "stopped"}
    PROVE  /\ Ended(q, from, status) \in Seq(Run) /\ OlderEnded(Ended(q, from, status))
           /\ "running" \in from => NoneRuns(Ended(q, from, status))
           /\ NoneRuns(q) => NoneRuns(Ended(q, from, status))
           /\ Suspended(q) \in Seq(Run) /\ NoneRuns(Suspended(q))
           /\ OlderEnded(Suspended(q))
<1> DEFINE g == Ended(q, from, status)
           h == Suspended(q)
<1>0. DOMAIN q = 1..Len(q) /\ Len(q) \in Nat /\ \A i \in DOMAIN q : q[i] \in Run
  OBVIOUS
<1>1. /\ DOMAIN g = DOMAIN q /\ DOMAIN h = DOMAIN q
      /\ g = [i \in DOMAIN q |-> g[i]] /\ h = [i \in DOMAIN q |-> h[i]]
  BY DEF Ended, Suspended
<1>2. \A i \in DOMAIN q :
        /\ g[i] = IF i = Len(q) /\ q[i].status \in from
                  THEN [status |-> status, version |-> q[i].version + 1] ELSE q[i]
        /\ h[i] = IF q[i].status = "running"
                  THEN [status |-> "paused", version |-> q[i].version + 1] ELSE q[i]
  BY DEF Ended, Suspended
<1>3. \A i \in DOMAIN q :
        /\ [status |-> status, version |-> q[i].version + 1] \in Run
        /\ [status |-> "paused", version |-> q[i].version + 1] \in Run
  BY <1>0 DEF Run
<1> HIDE DEF g, h
<1>4. \A i \in DOMAIN q :
        /\ g[i] \in Run /\ h[i] \in Run
        /\ g[i].status = q[i].status \/ (i = Len(q) /\ g[i].status = status)
        /\ i = Len(q) /\ q[i].status \in from => g[i].status = status
        /\ h[i].status # "running"
  <2> SUFFICES ASSUME NEW i \in DOMAIN q
               PROVE  /\ g[i] \in Run /\ h[i] \in Run
                      /\ g[i].status = q[i].status \/ (i = Len(q) /\ g[i].status = status)
                      /\ i = Len(q) /\ q[i].status \in from => g[i].status = status
                      /\ h[i].status # "running"
    OBVIOUS
  <2>1. g[i] \in Run /\ h[i] \in Run
    BY <1>0, <1>2, <1>3
  <2>2. h[i].status # "running"
    <3>1. CASE q[i].status = "running"
      <4>1. h[i] = [status |-> "paused", version |-> q[i].version + 1]
        BY <1>2, <3>1
      <4> QED BY <4>1
    <3>2. CASE q[i].status # "running"
      <4>1. h[i] = q[i]
        BY <1>2, <3>2
      <4> QED BY <3>2, <4>1
    <3> QED BY <3>1, <3>2
  <2>3. CASE i = Len(q) /\ q[i].status \in from
    <3>1. g[i] = [status |-> status, version |-> q[i].version + 1]
      BY <1>2, <2>3
    <3>2. g[i].status = status
      BY <3>1
    <3> QED BY <2>1, <2>2, <2>3, <3>2
  <2>4. CASE ~(i = Len(q) /\ q[i].status \in from)
    <3>1. g[i] = q[i]
      BY <1>2, <2>4
    <3> QED BY <2>1, <2>2, <2>4, <3>1
  <2> QED BY <2>3, <2>4
<1>5. g \in Seq(Run) /\ Len(g) = Len(q) /\ h \in Seq(Run) /\ Len(h) = Len(q)
  BY <1>1, <1>4, SegmentsLemma
<1>6. OlderEnded(g) /\ (NoneRuns(q) => NoneRuns(g))
  BY <1>0, <1>1, <1>4, <1>5 DEF OlderEnded, NoneRuns
<1>7. "running" \in from => NoneRuns(g)
  <2> SUFFICES ASSUME "running" \in from, NEW i \in DOMAIN q
               PROVE  g[i].status # "running"
    BY <1>1 DEF NoneRuns
  <2>1. CASE i = Len(q)
    BY <1>4, <2>1
  <2>2. CASE i < Len(q)
    BY <1>4, <2>2 DEF OlderEnded
  <2> QED BY <1>0, <2>1, <2>2
<1>8. NoneRuns(h) /\ OlderEnded(h)
  BY <1>1, <1>4 DEF NoneRuns, OlderEnded
<1> QED BY <1>5, <1>6, <1>7, <1>8 DEF g, h

\* Completing a task ends the timers of everybody.
LEMMA PatchTimers ==
    ASSUME TimersInv, NEW c, ApplyPatch(c) PROVE TimersInv'
<1>1. /\ task' = [version |-> task.version + 1, live |-> task.live,
                  done |-> IF c.mark = "keep" THEN task.done ELSE c.mark = "done"]
      /\ task.version \in Nat \ {0} /\ task.done \in BOOLEAN /\ task.live \in BOOLEAN
  BY DEF ApplyPatch, TimersInv, TaskOK
<1>2. TaskOK'
  <2> DEFINE d == IF c.mark = "keep" THEN task.done ELSE c.mark = "done"
  <2>1. d \in BOOLEAN
    BY <1>1
  <2>2. task.version + 1 \in Nat \ {0}
    BY <1>1
  <2>3. task' = [version |-> task.version + 1, live |-> task.live, done |-> d]
    BY <1>1
  <2> HIDE DEF d
  <2> QED BY <1>1, <2>1, <2>2, <2>3 DEF TaskOK
<1>3. CASE c.mark = "done" /\ ~task.done
  <2>1. runs' = [m \in Members |-> Ended(runs[m], {"running", "paused"}, "stopped")]
    BY <1>3 DEF ApplyPatch
  <2>2. \A m \in Members : /\ runs'[m] \in Seq(Run) /\ OlderEnded(runs'[m])
                           /\ NoneRuns(runs'[m])
    BY <2>1, EndedLemma DEF TimersInv
  <2>3. runs' \in [Members -> Seq(Run)]
    BY <2>1, <2>2
  <2> QED BY <1>2, <2>2, <2>3 DEF TimersInv, CompletedStopsTimers, NoneRuns
<1>4. CASE ~(c.mark = "done" /\ ~task.done)
  <2>1. runs' = runs
    BY <1>4 DEF ApplyPatch
  <2>2. task'.done => task.done
    BY <1>1, <1>4
  <2> QED BY <1>2, <2>1, <2>2 DEF TimersInv, CompletedStopsTimers
<1> QED BY <1>3, <1>4

LEMMA ExecuteTimers ==
    ASSUME PeopleInv, TimersInv, NEW s \in Slots, Execute(s) PROVE TimersInv'
<1>0. slot[s] # Free /\ SlotsOK
  BY DEF Execute, UpdateTask, BulkCommit, DeleteTask, HandleInbox, TransferTask,
         UpdateTimer, PauseRunningTimers, Arrives, PeopleInv
<1>1. ASSUME UNCHANGED <<task, runs>> PROVE TimersInv'
  BY <1>1 DEF TimersInv, TaskOK, CompletedStopsTimers
<1>2. ASSUME Unchanged PROVE TimersInv'
  BY <1>1, <1>2 DEF Unchanged
<1>3. CASE UpdateTask(s) \/ BulkCommit(s)
  BY <1>2, <1>3, PatchTimers
     DEF UpdateTask, BulkCommit, Replay, Reject, RejectWriter
<1>4. CASE DeleteTask(s)
  <2>1. ASSUME task' = [task EXCEPT !.version = @ + 1, !.live = FALSE], runs' = runs
        PROVE  TimersInv'
    <3>1. task \in [version : Nat \ {0}, done : BOOLEAN, live : BOOLEAN]
      BY DEF TimersInv, TaskOK
    <3>2. task' = [version |-> task.version + 1, done |-> task.done, live |-> FALSE]
      BY <2>1, <3>1
    <3>3. TaskOK' /\ task'.done = task.done
      BY <3>1, <3>2 DEF TaskOK
    <3> QED BY <2>1, <3>3 DEF TimersInv, CompletedStopsTimers
  <2> QED BY <1>2, <1>4, <2>1 DEF DeleteTask, Replay, Reject, RejectWriter
<1>5. CASE HandleInbox(s) \/ TransferTask(s)
  BY <1>1, <1>2, <1>5 DEF HandleInbox, TransferTask, Replay, Reject, RejectWriter
<1>6. CASE UpdateTimer(s)
  <2> DEFINE m == slot[s].by
             action == slot[s].command.action
  <2>1. m \in Members /\ action \in {"start", "pause", "stop"}
    <3>1. slot[s].command \in AllCommands /\ slot[s].command.kind = "timer"
      BY <1>0, <1>6 DEF UpdateTimer, Arrives, SlotsOK
    <3>2. slot[s].command.action \in {"start", "pause", "stop"}
      BY <3>1 DEF AllCommands, Edits
    <3> QED BY <1>0, <3>2 DEF SlotsOK
  <2>2. ASSUME TimerState(m) # Asked(action), TimerMoves(m, action),
               runs' = [runs EXCEPT ![m] = TimerAfter(m, action)], task' = task
        PROVE  TimersInv'
    <3> DEFINE q == runs[m]
               a == TimerAfter(m, action)
    <3>1. q \in Seq(Run) /\ OlderEnded(q) /\ TaskOK'
      BY <2>1, <2>2 DEF TimersInv, TaskOK
    <3>2. CASE action = "start"
      <4>1. ~task.done /\ a = Append(q, [status |-> "running", version |-> 1])
        BY <2>2, <3>2 DEF TimerMoves, TimerAfter
      <4>2. NoneRuns(q)
        <5>1. q # <<>> => q[Len(q)].status # "running"
          BY <2>2, <3>2 DEF TimerState, Asked
        <5> QED BY <3>1, <5>1 DEF OlderEnded, NoneRuns
      <4>3. [status |-> "running", version |-> 1] \in Run
        BY DEF Run
      <4> HIDE DEF q, a
      <4>4. a \in Seq(Run) /\ OlderEnded(a)
        BY <3>1, <4>1, <4>2, <4>3 DEF OlderEnded, NoneRuns
      <4>5. runs' = [runs EXCEPT ![m] = a]
        BY <2>2 DEF a
      <4> QED BY <2>1, <2>2, <3>1, <4>1, <4>4, <4>5 DEF TimersInv, CompletedStopsTimers
    <3>3. CASE action \in {"pause", "stop"}
      <4>1. a = Ended(q, {"running", "paused"}, Asked(action))
            /\ Asked(action) \in {"paused", "stopped"}
        BY <3>3 DEF TimerAfter, Asked
      <4> HIDE DEF q, a
      <4>2. a \in Seq(Run) /\ OlderEnded(a) /\ NoneRuns(a)
        BY <3>1, <4>1, EndedLemma
      <4>3. runs' = [runs EXCEPT ![m] = a]
        BY <2>2 DEF a
      <4> QED BY <2>1, <2>2, <3>1, <4>2, <4>3
              DEF TimersInv, CompletedStopsTimers, NoneRuns
    <3> QED BY <2>1, <3>2, <3>3
  <2> HIDE DEF m, action
  <2> QED BY <1>1, <1>2, <1>6, <2>2 DEF UpdateTimer, Replay, Reject, m, action
<1>7. CASE PauseRunningTimers(s)
  <2> DEFINE m == slot[s].by
  <2>1. m \in Members
    BY <1>0 DEF SlotsOK
  <2>2. ASSUME runs' = [runs EXCEPT ![m] = Suspended(@)], task' = task
        PROVE  TimersInv'
    <3>1. /\ Suspended(runs[m]) \in Seq(Run) /\ OlderEnded(Suspended(runs[m]))
          /\ NoneRuns(Suspended(runs[m]))
      BY <2>1, EndedLemma DEF TimersInv
    <3> HIDE DEF m
    <3> QED BY <2>1, <2>2, <3>1 DEF TimersInv, TaskOK, CompletedStopsTimers, NoneRuns
  <2> QED BY <1>2, <1>7, <2>2 DEF PauseRunningTimers, Replay
<1> QED BY <1>3, <1>4, <1>5, <1>6, <1>7 DEF Execute

-----------------------------------------------------------------------------
(* Acceptances.  A collaborator who waits for the owner has no answer, so    *)
(* releasing those who wait accepts for nobody.                              *)

Unanswered(co) ==
    \A m \in Members : co[m].assignment = "awaiting_owner" => co[m].inbox = "pending"

OwnAnswers(s) ==
    \A m \in Members :
        /\ Accepted(collab'[m]) /\ ~Accepted(collab[m]) =>
              slot[s].by = m /\ slot[s].command.kind = "inbox"
        /\ Accepted(owner'[m]) /\ ~Accepted(owner[m]) =>
              m = Creator \/ (slot[s].by = m /\ slot[s].command.kind = "inbox")

\* Writing the people of a task anew accepts for the creator at most.
LEMMA ReplaceAccepts ==
    ASSUME NEW ow \in [Members -> Row], NEW co \in [Members -> Row], Unanswered(co),
           NEW o \in Members, NEW C
    PROVE  /\ Unanswered(ReplacedCollab(ow, co, o, C))
           /\ \A m \in Members :
                /\ Accepted(ReplacedCollab(ow, co, o, C)[m]) => Accepted(co[m])
                /\ Accepted(ReplacedOwner(ow, o)[m]) => m = Creator \/ Accepted(ow[m])
<1> DEFINE co2 == ReplacedCollab(ow, co, o, C)
           ow2 == ReplacedOwner(ow, o)
<1>0. \A m \in Members : /\ co[m] \in Row /\ ow[m] \in Row
                         /\ ~Active(Removed(co[m])) /\ ~Active(Removed(ow[m]))
                         /\ Removed(co[m]).assignment # "awaiting_owner"
                         /\ Removed(co[m]).assignment # "assigned"
                         /\ Removed(ow[m]).assignment # "assigned"
  BY RowLemma DEF Active
<1>1. ASSUME NEW m \in Members
      PROVE  /\ co2[m].assignment = "awaiting_owner" => co2[m].inbox = "pending"
             /\ Accepted(co2[m]) => Accepted(co[m])
  <2>1. CASE m \notin C
    <3>1. co2[m] = Removed(co[m])
      BY <2>1 DEF ReplacedCollab
    <3> QED BY <1>0, <3>1 DEF Accepted
  <2>2. CASE m \in C /\ OwnerAccepted(ow, o)
    <3>1. co2[m] = Settled(co[m], "assigned",
                           IF Accepted(co[m]) THEN "accepted" ELSE "pending")
      BY <2>2 DEF ReplacedCollab
    <3>2. co2[m].assignment = "assigned"
          /\ co2[m].inbox = IF Accepted(co[m]) THEN "accepted" ELSE "pending"
      BY <3>1, <1>0, RowLemma DEF Assignments
    <3> QED BY <3>2 DEF Accepted
  <2>3. CASE m \in C /\ ~OwnerAccepted(ow, o)
    <3>1. co2[m] = Settled(co[m], "awaiting_owner", "pending")
      BY <2>3 DEF ReplacedCollab
    <3>2. co2[m].assignment = "awaiting_owner" /\ co2[m].inbox = "pending"
      BY <3>1, <1>0, RowLemma DEF Assignments
    <3> QED BY <3>2 DEF Accepted
  <2> QED BY <2>1, <2>2, <2>3
<1>2. ASSUME NEW m \in Members, Accepted(ow2[m]) PROVE m = Creator \/ Accepted(ow[m])
  <2>1. CASE m # o
    <3>1. ow2[m] = Removed(ow[m])
      BY <2>1 DEF ReplacedOwner
    <3> QED BY <1>0, <1>2, <3>1 DEF Accepted
  <2>2. CASE m = o
    <3>1. ow2[m] = Settled(ow[m], "assigned",
                           IF OwnerAccepted(ow, o) THEN "accepted" ELSE "pending")
      BY <2>2 DEF ReplacedOwner
    <3>2. ow2[m].inbox = IF OwnerAccepted(ow, o) THEN "accepted" ELSE "pending"
      BY <3>1, <1>0, RowLemma DEF Assignments
    <3> QED BY <1>2, <2>2, <3>2 DEF Accepted, OwnerAccepted
  <2> QED BY <2>1, <2>2
<1> QED BY <1>1, <1>2 DEF Unanswered

\* Neither does holding back or releasing collaborators.
LEMMA HeldAccepts ==
    ASSUME NEW co \in [Members -> Row], Unanswered(co)
    PROVE  /\ Unanswered(Held(co)) /\ Unanswered(Released(co))
           /\ \A m \in Members : /\ ~Accepted(Held(co)[m])
                                 /\ Accepted(Released(co)[m]) => Accepted(co[m])
<1> SUFFICES ASSUME NEW m \in Members
             PROVE  /\ Held(co)[m].assignment = "awaiting_owner" => Held(co)[m].inbox = "pending"
                    /\ Released(co)[m].assignment # "awaiting_owner"
                    /\ ~Accepted(Held(co)[m])
                    /\ Accepted(Released(co)[m]) => Accepted(co[m])
  BY DEF Unanswered
<1>1. /\ Held(co)[m] = IF Active(co[m])
                       THEN Moved(co[m], "awaiting_owner", "pending") ELSE co[m]
      /\ Released(co)[m] = IF co[m].assignment = "awaiting_owner"
                           THEN Moved(co[m], "assigned", co[m].inbox) ELSE co[m]
  BY DEF Held, Released
<1>2. co[m].assignment = "awaiting_owner" => co[m].inbox = "pending"
  BY DEF Unanswered
<1> QED BY <1>1, <1>2 DEF Moved, Active, Accepted

LEMMA ExecuteAccepts ==
    ASSUME PeopleInv, Unanswered(collab), NEW s \in Slots, Execute(s)
    PROVE  Unanswered(collab') /\ OwnAnswers(s)
<1> DEFINE Goal == Unanswered(collab') /\ OwnAnswers(s)
<1>0. /\ slot[s] # Free /\ SlotsOK
      /\ owner \in [Members -> Row] /\ collab \in [Members -> Row]
  BY DEF Execute, UpdateTask, BulkCommit, DeleteTask, HandleInbox, TransferTask,
         UpdateTimer, PauseRunningTimers, Arrives, PeopleInv, RowsOK
<1>1. ASSUME UNCHANGED <<owner, collab>> PROVE Goal
  BY <1>1 DEF OwnAnswers
<1>2. ASSUME Unchanged PROVE Goal
  BY <1>1, <1>2 DEF Unchanged
<1>3. ASSUME NEW c, Resolved(c), ApplyPatch(c) PROVE Goal
  <2>1. CASE ChangesPeople(c)
    <3>1. /\ c.owner \in Members
          /\ owner' = ReplacedOwner(owner, c.owner)
          /\ collab' = ReplacedCollab(owner, collab, c.owner, c.collabs)
      BY <1>3, <2>1, Zenon DEF ApplyPatch, Resolved
    <3> QED BY <1>0, <3>1, ReplaceAccepts DEF OwnAnswers
  <2>2. CASE ~ChangesPeople(c)
    <3>1. UNCHANGED <<owner, collab>>
      BY <1>3, <2>2, Zenon DEF ApplyPatch
    <3> QED BY <1>1, <3>1
  <2> QED BY <2>1, <2>2
<1> HIDE DEF Goal
<1>4. CASE UpdateTask(s)
  <2>1. slot[s].command.kind = "update"
    BY <1>4 DEF UpdateTask, Arrives
  <2>2. Resolved(UpdateFingerprint(s).command)
    BY <1>0, <2>1, FingerprintLemma
  <2>3. Goal
    BY <1>2, <1>3, <1>4, <2>2 DEF UpdateTask, Replay, Reject, RejectWriter
  <2> QED BY <2>3 DEF Goal
<1>5. CASE BulkCommit(s)
  <2>1. Resolved(slot[s].command)
    BY <1>0, <1>5 DEF BulkCommit, Arrives, SlotsOK
  <2>2. Goal
    BY <1>2, <1>3, <1>5, <2>1 DEF BulkCommit, Replay, Reject
  <2> QED BY <2>2 DEF Goal
<1>6. CASE DeleteTask(s)
  <2>1. ASSUME owner' = [m \in Members |-> Removed(owner[m])],
               collab' = [m \in Members |-> Removed(collab[m])]
        PROVE  Goal
    <3>1. \A m \in Members : ~Active(owner'[m]) /\ ~Active(collab'[m])
      BY <1>0, <2>1, RowLemma
    <3> QED BY <3>1 DEF Goal, OwnAnswers, Unanswered, Accepted, Active
  <2>2. Goal
    BY <1>2, <1>6, <2>1 DEF DeleteTask, Replay, Reject, RejectWriter
  <2> QED BY <2>2 DEF Goal
<1>7. CASE HandleInbox(s)
  <2> DEFINE m == slot[s].by
             action == slot[s].command.action
  <2>0. m \in Members /\ slot[s].command.kind = "inbox"
    BY <1>0, <1>7 DEF HandleInbox, Arrives, SlotsOK
  <2>1. ASSUME owner' = [owner EXCEPT ![m] = Answered(@, action)],
               collab' = IF action = "accept" THEN Released(collab) ELSE Held(collab)
        PROVE  Goal
    <3>1. /\ Unanswered(collab')
          /\ \A n \in Members : Accepted(collab'[n]) => Accepted(collab[n])
      BY <1>0, <2>1, HeldAccepts
    <3>2. \A n \in Members \ {m} : owner'[n] = owner[n]
      BY <1>0, <2>1
    <3> QED BY <2>0, <3>1, <3>2 DEF Goal, OwnAnswers
  <2>2. ASSUME collab' = [collab EXCEPT ![m] = Answered(@, action)], owner' = owner
        PROVE  Goal
    <3>1. Answered(collab[m], action).assignment # "awaiting_owner"
      BY DEF Answered, Moved
    <3>2. /\ collab'[m] = Answered(collab[m], action)
          /\ \A n \in Members \ {m} : collab'[n] = collab[n]
      BY <1>0, <2>0, <2>2
    <3> QED BY <2>0, <2>2, <3>1, <3>2 DEF Goal, OwnAnswers, Unanswered
  <2>3. Goal
    BY <1>2, <1>7, <2>1, <2>2 DEF HandleInbox, Replay, Reject
  <2> QED BY <2>3 DEF Goal
<1>8. CASE TransferTask(s)
  <2> DEFINE target == slot[s].command.target
  <2>1. ASSUME NEW o \in AssignedOwners,
               owner' = [owner EXCEPT
                            ![o] = Moved(@, "transferred", "returned"),
                            ![target] = Moved(@, "assigned",
                                IF target = Creator THEN "accepted" ELSE "pending")],
               collab' = TransferredCollab(target)
        PROVE  Goal
    <3> DEFINE others == [collab EXCEPT ![target] = Removed(@)]
    <3>0. target \in Members /\ o \in Members
      <4>1. slot[s].command \in AllCommands /\ slot[s].command.kind = "transfer"
        BY <1>0, <1>8 DEF TransferTask, Arrives, SlotsOK
      <4> QED BY <4>1 DEF AllCommands, Edits, AssignedOwners
    <3>1. ASSUME NEW n \in Members, Accepted(owner'[n]) PROVE n = Creator \/ Accepted(owner[n])
      BY <1>0, <2>1, <3>0, <3>1 DEF Moved, Accepted
    <3>2. /\ others \in [Members -> Row]
          /\ ~Active(others[target])
          /\ \A n \in Members \ {target} : others[n] = collab[n]
      BY <1>0, <3>0, RowLemma
    <3>3. collab' = IF target = Creator THEN Released(others) ELSE Held(others)
      BY <2>1 DEF TransferredCollab
    <3> HIDE DEF others
    <3>4. Unanswered(others) /\ \A n \in Members : Accepted(others[n]) => Accepted(collab[n])
      BY <3>2 DEF Unanswered, Active, Accepted
    <3>5. /\ Unanswered(collab')
          /\ \A n \in Members : Accepted(collab'[n]) => Accepted(collab[n])
      BY <3>2, <3>3, <3>4, HeldAccepts
    <3> QED BY <3>1, <3>5 DEF Goal, OwnAnswers
  <2>2. Goal
    BY <1>2, <1>8, <2>1 DEF TransferTask, Replay, Reject, RejectWriter
  <2> QED BY <2>2 DEF Goal
<1>9. CASE UpdateTimer(s) \/ PauseRunningTimers(s)
  <2>1. Goal
    BY <1>1, <1>2, <1>9 DEF UpdateTimer, PauseRunningTimers, Replay, Reject
  <2> QED BY <2>1 DEF Goal
<1> QED BY <1>4, <1>5, <1>6, <1>7, <1>8, <1>9 DEF Execute

-----------------------------------------------------------------------------
(* Everything together.                                                      *)

ReceiptsOK ==
    \A s \in Slots : slot[s] # Free =>
        /\ slot[s].receipt # NoReceipt => slot[s].attempts > 0
        /\ slot[s].applied = 0 \/ (slot[s].applied = 1 /\ slot[s].receipt # NoReceipt)

TaskInv ==
    /\ PeopleInv /\ TimersInv /\ Unanswered(collab)
    /\ StatesOK /\ ReceiptsOK /\ issued \in 0..MaxCommands

LEMMA InitTask == Init => TaskInv
<1> SUFFICES ASSUME Init PROVE TaskInv
  OBVIOUS
<1>1. PeopleInv
  BY InitLemma
<1>2. TimersInv
  BY DEF Init, TimersInv, TaskOK, OlderEnded, CompletedStopsTimers
<1>3. Unanswered(collab)
  <2>1. PICK o \in Members : \E C \in SUBSET (Members \ {o}) :
          collab = ReplacedCollab(NoRows, NoRows, o, C)
    BY DEF Init
  <2>2. PICK C \in SUBSET (Members \ {o}) : collab = ReplacedCollab(NoRows, NoRows, o, C)
    BY <2>1
  <2>3. NoRows \in [Members -> Row] /\ Unanswered(NoRows)
    BY DEF NoRows, NoRow, Row, Assignments, Unanswered
  <2> QED BY <2>2, <2>3, ReplaceAccepts
<1>4. StatesOK /\ ReceiptsOK /\ issued \in 0..MaxCommands
  BY BoundsAssumption DEF Init, StatesOK, ReceiptsOK
<1> QED BY <1>1, <1>2, <1>3, <1>4 DEF TaskInv

\* The version a client sends along is one it has seen, hence a number.
LEMMA SeenLemma ==
    ASSUME RowsOK, TimersInv, NEW m \in Members, NEW c
    PROVE  SeenVersion(c, m) \in Nat
<1>1. task.version \in Nat /\ \A n \in Members : owner[n].version \in Nat
                                                 /\ collab[n].version \in Nat
  BY DEF RowsOK, Row, TimersInv, TaskOK
<1>2. AssignedOwners # {} => owner[CHOOSE o \in AssignedOwners : TRUE].version \in Nat
  <2>1. AssignedOwners # {} => (CHOOSE o \in AssignedOwners : TRUE) \in AssignedOwners
    OBVIOUS
  <2>2. AssignedOwners \subseteq Members
    BY DEF AssignedOwners
  <2> QED BY <1>1, <2>1, <2>2
<1>3. TimerVersion(m) \in Nat
  BY TimerVersionLemma DEF TimersInv
<1> QED BY <1>1, <1>2, <1>3 DEF SeenVersion

LEMMA ComposeTask ==
    ASSUME TaskInv, NEW s \in Slots, NEW m \in Members, NEW c \in Commands, Compose(s, m, c)
    PROVE  TaskInv'
<1> DEFINE d == IF c.kind = "bulk" THEN NormalizePatch(c, m) ELSE c
           w == IF c.kind \in {"update", "bulk"} THEN OpenOwners ELSE {}
           r == [command |-> d, by |-> m, seen |-> SeenVersion(c, m),
                 sawOwner |-> w, attempts |-> 0, receipt |-> NoReceipt,
                 reply |-> "none", applied |-> 0]
<1>1. c \in AllCommands
  BY CommandsAssumption
<1>2. d \in AllCommands /\ w \subseteq Members /\ SeenVersion(c, m) \in Nat
  BY <1>1, NormalizeLemma, SeenLemma DEF OpenOwners, TaskInv, PeopleInv
<1>3. /\ slot' = [slot EXCEPT ![s] = r] /\ issued' = issued + 1 /\ issued < MaxCommands
      /\ UNCHANGED <<task, owner, collab, runs>>
  BY Zenon DEF Compose
<1> HIDE DEF d, w
<1>4. r \in CommandState
  BY <1>2, BoundsAssumption DEF CommandState, Replies
<1>5. r.receipt = NoReceipt /\ r.applied = 0
  OBVIOUS
<1> HIDE DEF r
<1>6. StatesOK' /\ ReceiptsOK'
  BY <1>3, <1>4, <1>5 DEF TaskInv, StatesOK, ReceiptsOK
<1>7. TimersInv' /\ Unanswered(collab)'
  BY <1>3 DEF TaskInv, TimersInv, TaskOK, CompletedStopsTimers, Unanswered
<1>8. issued' \in 0..MaxCommands
  BY <1>3, BoundsAssumption DEF TaskInv
<1> QED BY <1>6, <1>7, <1>8, ComposeLemma DEF TaskInv

LEMMA CloseTask == ASSUME TaskInv, NEW s \in Slots, Close(s) PROVE TaskInv'
<1>1. /\ slot' = [slot EXCEPT ![s] = Free]
      /\ UNCHANGED <<task, owner, collab, runs, issued>>
  BY DEF Close
<1>2. StatesOK' /\ ReceiptsOK'
  BY <1>1 DEF TaskInv, StatesOK, ReceiptsOK
<1>3. TimersInv' /\ Unanswered(collab)' /\ issued' \in 0..MaxCommands
  BY <1>1 DEF TaskInv, TimersInv, TaskOK, CompletedStopsTimers, Unanswered
<1>4. SlotsOK'
  BY <1>1 DEF TaskInv, PeopleInv, SlotsOK, Resolved, ChangesPeople
<1>5. PeopleInv'
  BY <1>1, <1>4, RowsLemma DEF TaskInv, PeopleInv
<1> QED BY <1>2, <1>3, <1>5 DEF TaskInv

LEMMA ExecuteTask == ASSUME TaskInv, NEW s \in Slots, Execute(s) PROVE TaskInv'
<1>1. PeopleInv' /\ TimersInv' /\ Unanswered(collab')
  BY ExecuteLemma, ExecuteTimers, ExecuteAccepts DEF TaskInv
<1>2. /\ Taken(s) /\ slot[s] # Free /\ slot[s].attempts < MaxAttempts
      /\ issued' = issued
  BY TakenLemma DEF TaskInv, PeopleInv
<1>3. PICK reply, receipt, applied : Takes(s, reply, receipt, applied)
  BY <1>2, Zenon DEF Taken
<1>4. StatesOK' /\ slot'[s] = Executed(s, reply, receipt, applied)
      /\ \A t \in Slots \ {s} : slot'[t] = slot[t]
  BY <1>2, <1>3, StatesLemma DEF TaskInv
<1>5. /\ slot'[s].receipt = receipt /\ slot'[s].applied = applied
      /\ slot'[s].attempts = slot[s].attempts + 1 /\ slot[s].attempts \in Nat
  BY <1>2, <1>4 DEF Executed, TaskInv, StatesOK, CommandState
<1>6. ReceiptsOK'
  <2>1. \/ receipt = slot[s].receipt /\ applied = slot[s].applied
        \/ /\ slot[s].receipt = NoReceipt /\ receipt # NoReceipt
           /\ applied \in {slot[s].applied, slot[s].applied + 1}
    BY <1>3, ReceiptAssumption DEF Takes, Fresh
  <2>2. slot[s].applied = 0 \/ (slot[s].applied = 1 /\ slot[s].receipt # NoReceipt)
    BY <1>2 DEF TaskInv, ReceiptsOK
  <2>3. /\ slot'[s].attempts > 0
        /\ slot'[s].applied = 0 \/ (slot'[s].applied = 1 /\ slot'[s].receipt # NoReceipt)
    BY <1>5, <2>1, <2>2
  <2> QED BY <1>4, <2>3 DEF TaskInv, ReceiptsOK
<1> QED BY <1>1, <1>2, <1>4, <1>6 DEF TaskInv, Unanswered

LEMMA NextTask == TaskInv /\ [Next]_vars => TaskInv'
<1> SUFFICES ASSUME TaskInv, [Next]_vars PROVE TaskInv'
  OBVIOUS
<1>1. CASE UNCHANGED vars
  <2>1. /\ slot' = slot /\ owner' = owner /\ collab' = collab /\ task' = task
        /\ runs' = runs /\ issued' = issued
    BY <1>1 DEF vars
  <2>2. PeopleInv'
    BY <1>1, StepLemma DEF TaskInv
  <2>3. TimersInv' /\ Unanswered(collab)' /\ StatesOK' /\ ReceiptsOK'
    BY <2>1 DEF TaskInv, TimersInv, TaskOK, CompletedStopsTimers, Unanswered, StatesOK,
                ReceiptsOK
  <2> QED BY <2>1, <2>2, <2>3 DEF TaskInv
<1> QED BY <1>1, ComposeTask, CloseTask, ExecuteTask, Zenon DEF Next

LEMMA TaskInvariant == Spec => []TaskInv
  BY InitTask, NextTask, PTL DEF Spec

\* Rows, segments and commands stay well formed, the sum of a timer's versions
\* among them, and no receipt exists for a command that was never executed.
THEOREM TaskTypeOK == Spec => []TypeOK
<1>1. TaskInv => TypeOK
  BY DEF TaskInv, PeopleInv, RowsOK, TimersInv, TaskOK, StatesOK, ReceiptsOK, TypeOK
<1> QED BY <1>1, TaskInvariant, PTL

\* For any commands, and however often each is executed under its key, it takes
\* effect once.
THEOREM AppliedOnceTheorem == Spec => []AppliedOnce
<1>1. TaskInv => AppliedOnce
  BY DEF TaskInv, ReceiptsOK, AppliedOnce
<1> QED BY <1>1, TaskInvariant, PTL

\* For any members and commands: no segment of a completed task is running.
THEOREM TimersStopTheorem == Spec => []CompletedStopsTimers
<1>1. TaskInv => CompletedStopsTimers
  BY DEF TaskInv, TimersInv
<1> QED BY <1>1, TaskInvariant, PTL

\* For any members and commands: a row becomes accepted by the answer of its
\* member only, the creator's own excepted.
THEOREM AcceptanceTheorem == Spec => AcceptanceIsOwn
<1> DEFINE Own ==
      \A m \in Members :
         /\ Accepted(collab'[m]) /\ ~Accepted(collab[m]) =>
              \E s \in Slots : slot[s] # Free /\ slot[s].by = m
                               /\ slot[s].command.kind = "inbox"
         /\ Accepted(owner'[m]) /\ ~Accepted(owner[m]) =>
              \/ m = Creator
              \/ \E s \in Slots : slot[s] # Free /\ slot[s].by = m
                                  /\ slot[s].command.kind = "inbox"
<1>1. TaskInv /\ [Next]_vars => [Own]_vars
  <2> SUFFICES ASSUME TaskInv, Next PROVE Own
    OBVIOUS
  <2>1. ASSUME NEW s \in Slots, Execute(s) PROVE Own
    <3>1. OwnAnswers(s) /\ slot[s] # Free
      BY <2>1, ExecuteAccepts, TakenLemma DEF TaskInv, PeopleInv
    <3> QED BY <3>1 DEF OwnAnswers
  <2>2. ASSUME UNCHANGED <<owner, collab>> PROVE Own
    BY <2>2
  <2> HIDE DEF Own
  <2>3. ASSUME NEW s \in Slots, NEW m \in Members, NEW c \in Commands, Compose(s, m, c)
        PROVE  Own
    BY <2>2, <2>3, Zenon DEF Compose
  <2>4. ASSUME NEW s \in Slots, Close(s) PROVE Own
    BY <2>2, <2>4 DEF Close
  <2> QED BY <2>1, <2>3, <2>4, Zenon DEF Next
<1> QED BY <1>1, TaskInvariant, PTL DEF Spec, AcceptanceIsOwn
-----------------------------------------------------------------------------
(* The rows tell of an owner and a team.  They do because an assigned row is *)
(* accepted or pending, a row that waits has no answer, and no collaborator  *)
(* is transferred: with that, each row stands for one standing or one seat.  *)

OwnerTells(r) == r.assignment = "assigned" => Accepted(r) \/ Pending(r)

CollabTells(r) ==
    /\ r.assignment = "assigned" => Accepted(r) \/ Pending(r)
    /\ r.assignment = "awaiting_owner" => r.inbox = "pending"
    /\ r.assignment # "transferred"

RowsTell == \A m \in Members : OwnerTells(owner[m]) /\ CollabTells(collab[m])

Roles(ow) == [m \in Members |-> Standing(ow[m])]
Seats(co) == [m \in Members |-> Seat(co[m])]

\* What a standing and a seat say of the row.
LEMMA TellsLemma ==
    ASSUME NEW r \in Row
    PROVE  /\ OwnerTells(r) =>
                /\ Accepted(r) <=> Standing(r) = "accepted"
                /\ Pending(r) <=> Standing(r) = "asked"
                /\ r.assignment = "assigned" <=> Standing(r) \in {"asked", "accepted"}
                /\ r.assignment \in {"assigned", "returned"} <=> Standing(r) # "none"
           /\ CollabTells(r) =>
                /\ Accepted(r) <=> Seat(r) = "joined"
                /\ Pending(r) <=> Seat(r) = "invited"
                /\ r.assignment = "awaiting_owner" <=> Seat(r) = "waiting"
                /\ Active(r) <=> Seat(r) # "out"
<1>1. r.assignment \in Assignments
  BY DEF Row
<1>2. OwnerTells(r) =>
        /\ Accepted(r) <=> Standing(r) = "accepted"
        /\ Pending(r) <=> Standing(r) = "asked"
        /\ r.assignment = "assigned" <=> Standing(r) \in {"asked", "accepted"}
        /\ r.assignment \in {"assigned", "returned"} <=> Standing(r) # "none"
  BY DEF OwnerTells, Standing, Accepted, Pending
<1>3. CollabTells(r) =>
        /\ Accepted(r) <=> Seat(r) = "joined"
        /\ Pending(r) <=> Seat(r) = "invited"
        /\ r.assignment = "awaiting_owner" <=> Seat(r) = "waiting"
        /\ Active(r) <=> Seat(r) # "out"
  BY <1>1 DEF CollabTells, Seat, Accepted, Pending, Active, Assignments
<1> QED BY <1>2, <1>3

\* What the rows that the commands write tell.
LEMMA WrittenLemma ==
    ASSUME NEW r \in Row
    PROVE  /\ Standing(Settled(r, "assigned", "accepted")) = "accepted"
           /\ Standing(Settled(r, "assigned", "pending")) = "asked"
           /\ OwnerTells(Settled(r, "assigned", "accepted"))
           /\ OwnerTells(Settled(r, "assigned", "pending"))
           /\ Standing(Removed(r)) = "none" /\ OwnerTells(Removed(r))
           /\ Seat(Settled(r, "assigned", "accepted")) = "joined"
           /\ Seat(Settled(r, "assigned", "pending")) = "invited"
           /\ Seat(Settled(r, "awaiting_owner", "pending")) = "waiting"
           /\ CollabTells(Settled(r, "assigned", "accepted"))
           /\ CollabTells(Settled(r, "assigned", "pending"))
           /\ CollabTells(Settled(r, "awaiting_owner", "pending"))
           /\ Seat(Removed(r)) = "out" /\ CollabTells(Removed(r))
<1>1. ASSUME NEW i \in {"pending", "accepted"}
      PROVE  /\ Settled(r, "assigned", i).assignment = "assigned"
             /\ Settled(r, "assigned", i).inbox = i
  BY RowLemma DEF Assignments
<1>2. /\ Settled(r, "awaiting_owner", "pending").assignment = "awaiting_owner"
      /\ Settled(r, "awaiting_owner", "pending").inbox = "pending"
  BY RowLemma DEF Assignments
<1>3. Removed(r).assignment \in {"none", "removed"}
  BY RowLemma DEF Active
<1> QED BY <1>1, <1>2, <1>3
        DEF OwnerTells, CollabTells, Standing, Seat, Accepted, Pending

\* Writing the people anew settles the owner and the team.
LEMMA SettleOwns ==
    ASSUME NEW ow \in [Members -> Row], NEW co \in [Members -> Row],
           \A m \in Members : OwnerTells(ow[m]) /\ CollabTells(co[m]),
           NEW o \in Members, NEW C
    PROVE  LET accepted == o = Creator \/ Roles(ow)[o] = "accepted"
           IN  /\ Roles(ReplacedOwner(ow, o))
                    = Ownership!Only(o, Ownership!Standing(accepted))
               /\ Seats(ReplacedCollab(ow, co, o, C))
                    = [m \in Members |->
                         IF m \notin C THEN "out"
                         ELSE IF ~accepted THEN "waiting"
                         ELSE IF Seats(co)[m] = "joined" THEN "joined" ELSE "invited"]
               /\ \A m \in Members : /\ OwnerTells(ReplacedOwner(ow, o)[m])
                                     /\ CollabTells(ReplacedCollab(ow, co, o, C)[m])
<1> DEFINE accepted == o = Creator \/ Roles(ow)[o] = "accepted"
           ow2 == ReplacedOwner(ow, o)
           co2 == ReplacedCollab(ow, co, o, C)
<1>1. accepted <=> OwnerAccepted(ow, o)
  BY TellsLemma DEF OwnerAccepted, Roles
<1>2. ASSUME NEW m \in Members
      PROVE  /\ Standing(ow2[m]) = IF m = o THEN Ownership!Standing(accepted) ELSE "none"
             /\ OwnerTells(ow2[m])
  <2>1. CASE m # o
    <3>1. ow2[m] = Removed(ow[m])
      BY <2>1 DEF ReplacedOwner
    <3> QED BY <2>1, <3>1, WrittenLemma
  <2>2. CASE m = o /\ accepted
    <3>1. ow2[m] = Settled(ow[m], "assigned", "accepted")
      BY <1>1, <2>2 DEF ReplacedOwner
    <3> QED BY <2>2, <3>1, WrittenLemma DEF Ownership!Standing
  <2>3. CASE m = o /\ ~accepted
    <3>1. ow2[m] = Settled(ow[m], "assigned", "pending")
      BY <1>1, <2>3 DEF ReplacedOwner
    <3> QED BY <2>3, <3>1, WrittenLemma DEF Ownership!Standing
  <2> QED BY <2>1, <2>2, <2>3
<1>3. ASSUME NEW m \in Members
      PROVE  /\ Seat(co2[m]) = IF m \notin C THEN "out"
                               ELSE IF ~accepted THEN "waiting"
                               ELSE IF Seats(co)[m] = "joined" THEN "joined" ELSE "invited"
             /\ CollabTells(co2[m])
  <2>0. Accepted(co[m]) <=> Seats(co)[m] = "joined"
    BY TellsLemma DEF Seats
  <2>1. CASE m \notin C
    <3>1. co2[m] = Removed(co[m])
      BY <2>1 DEF ReplacedCollab
    <3> QED BY <2>1, <3>1, WrittenLemma
  <2>2. CASE m \in C /\ ~accepted
    <3>1. co2[m] = Settled(co[m], "awaiting_owner", "pending")
      BY <1>1, <2>2 DEF ReplacedCollab
    <3> QED BY <2>2, <3>1, WrittenLemma
  <2>3. CASE m \in C /\ accepted /\ Accepted(co[m])
    <3>1. co2[m] = Settled(co[m], "assigned", "accepted")
      BY <1>1, <2>3 DEF ReplacedCollab
    <3> QED BY <2>0, <2>3, <3>1, WrittenLemma
  <2>4. CASE m \in C /\ accepted /\ ~Accepted(co[m])
    <3>1. co2[m] = Settled(co[m], "assigned", "pending")
      BY <1>1, <2>4 DEF ReplacedCollab
    <3> QED BY <2>0, <2>4, <3>1, WrittenLemma
  <2> QED BY <2>1, <2>2, <2>3, <2>4
<1> HIDE DEF accepted, ow2, co2
<1>4. Roles(ow2) = Ownership!Only(o, Ownership!Standing(accepted))
  BY <1>2 DEF Roles, Ownership!Only
<1>5. Seats(co2) = [m \in Members |->
                      IF m \notin C THEN "out"
                      ELSE IF ~accepted THEN "waiting"
                      ELSE IF Seats(co)[m] = "joined" THEN "joined" ELSE "invited"]
  BY <1>3 DEF Seats
<1> QED BY <1>2, <1>3, <1>4, <1>5 DEF accepted, ow2, co2

\* Holding back and releasing the rows holds back and admits the team.
LEMMA HeldOwns ==
    ASSUME NEW co \in [Members -> Row], \A m \in Members : CollabTells(co[m])
    PROVE  /\ Seats(Held(co)) = Ownership!HeldBack(Seats(co))
           /\ Seats(Released(co)) = Ownership!Admitted(Seats(co))
           /\ \A m \in Members : CollabTells(Held(co)[m]) /\ CollabTells(Released(co)[m])
<1>1. ASSUME NEW m \in Members
      PROVE  /\ Seat(Held(co)[m]) = IF Seat(co[m]) = "out" THEN "out" ELSE "waiting"
             /\ Seat(Released(co)[m]) = IF Seat(co[m]) = "waiting" THEN "invited"
                                                                   ELSE Seat(co[m])
             /\ CollabTells(Held(co)[m]) /\ CollabTells(Released(co)[m])
  <2>1. /\ Held(co)[m] = IF Active(co[m])
                         THEN Moved(co[m], "awaiting_owner", "pending") ELSE co[m]
        /\ Released(co)[m] = IF co[m].assignment = "awaiting_owner"
                             THEN Moved(co[m], "assigned", co[m].inbox) ELSE co[m]
    BY DEF Held, Released
  <2>2. /\ Active(co[m]) <=> Seat(co[m]) # "out"
        /\ co[m].assignment = "awaiting_owner" <=> Seat(co[m]) = "waiting"
        /\ co[m].assignment = "awaiting_owner" => co[m].inbox = "pending"
        /\ CollabTells(co[m])
    BY TellsLemma DEF CollabTells
  <2>3. /\ Seat(Moved(co[m], "awaiting_owner", "pending")) = "waiting"
        /\ CollabTells(Moved(co[m], "awaiting_owner", "pending"))
        /\ Seat(Moved(co[m], "assigned", "pending")) = "invited"
        /\ CollabTells(Moved(co[m], "assigned", "pending"))
    BY DEF Moved, Seat, CollabTells, Accepted, Pending
  <2> QED BY <2>1, <2>2, <2>3
<1>2. /\ \A m \in Members : Seats(co)[m] = Seat(co[m])
      /\ Seats(Held(co)) = [m \in Members |-> Seat(Held(co)[m])]
      /\ Seats(Released(co)) = [m \in Members |-> Seat(Released(co)[m])]
  BY DEF Seats
<1>3. Seats(Held(co)) = Ownership!HeldBack(Seats(co))
  BY <1>1, <1>2 DEF Ownership!HeldBack
<1>4. Seats(Released(co)) = Ownership!Admitted(Seats(co))
  BY <1>1, <1>2 DEF Ownership!Admitted
<1> QED BY <1>1, <1>3, <1>4

-----------------------------------------------------------------------------
(* A step of the rows is a step of the owner and the team, or none.          *)

Moves == Ownership!Next \/ UNCHANGED Ownership!vars

LEMMA SameRows ==
    ASSUME RowsTell, UNCHANGED <<owner, collab>>, task'.live = task.live
    PROVE  RowsTell' /\ Moves
<1>1. owner' = owner /\ collab' = collab
  OBVIOUS
<1>2. RowsTell'
  BY <1>1 DEF RowsTell
<1>3. UNCHANGED Ownership!vars
  BY <1>1 DEF Ownership!vars
<1> QED BY <1>2, <1>3 DEF Moves

\* An edit that names the people settles them.
LEMMA PatchOwns ==
    ASSUME RowsOK, RowsTell, task.live, NEW c, Resolved(c), ApplyPatch(c)
    PROVE  RowsTell' /\ Moves
<1>1. task'.live = task.live
  BY DEF ApplyPatch
<1>2. CASE ~ChangesPeople(c)
  <2>1. UNCHANGED <<owner, collab>>
    BY <1>2, Zenon DEF ApplyPatch
  <2> QED BY <1>1, <2>1, SameRows
<1>3. CASE ChangesPeople(c)
  <2> DEFINE o == c.owner
             C == c.collabs
             accepted == o = Creator \/ Roles(owner)[o] = "accepted"
  <2>1. /\ o \in Members /\ C \in SUBSET (Members \ {o})
        /\ owner' = ReplacedOwner(owner, o)
        /\ collab' = ReplacedCollab(owner, collab, o, C)
    BY <1>3, Zenon DEF Resolved, ApplyPatch
  <2> HIDE DEF o, C
  <2>2. /\ owner \in [Members -> Row] /\ collab \in [Members -> Row]
        /\ \A m \in Members : OwnerTells(owner[m]) /\ CollabTells(collab[m])
    BY DEF RowsOK, RowsTell
  <2>3. /\ Roles(owner') = Ownership!Only(o, Ownership!Standing(accepted))
        /\ Seats(collab') = [m \in Members |->
                               IF m \notin C THEN "out"
                               ELSE IF ~accepted THEN "waiting"
                               ELSE IF Seats(collab)[m] = "joined" THEN "joined"
                                                                   ELSE "invited"]
        /\ \A m \in Members : OwnerTells(owner'[m]) /\ CollabTells(collab'[m])
    BY <2>1, <2>2, SettleOwns
  <2>4. Ownership!Settle(o)
    BY <1>1, <2>1, <2>3 DEF Ownership!Settle, Roles, Seats
  <2> QED BY <2>1, <2>3, <2>4 DEF Moves, Ownership!Next, RowsTell
<1> QED BY <1>2, <1>3

\* An answer is the owner's, which moves the team, or that of one collaborator.
LEMMA InboxOwns ==
    ASSUME RowsOK, RowsTell, task.live, task'.live = task.live,
           NEW m \in Members, NEW action \in {"accept", "return"},
           \/ /\ Pending(owner[m])
              /\ owner' = [owner EXCEPT ![m] = Answered(@, action)]
              /\ collab' = IF action = "accept" THEN Released(collab) ELSE Held(collab)
           \/ /\ Pending(collab[m])
              /\ collab' = [collab EXCEPT ![m] = Answered(@, action)]
              /\ UNCHANGED owner
    PROVE  RowsTell' /\ Moves
<1>1. /\ owner \in [Members -> Row] /\ collab \in [Members -> Row]
      /\ \A n \in Members : OwnerTells(owner[n]) /\ CollabTells(collab[n])
  BY DEF RowsOK, RowsTell
<1>2. ASSUME NEW r
      PROVE  /\ OwnerTells(Answered(r, action)) /\ CollabTells(Answered(r, action))
             /\ Standing(Answered(r, action))
                  = IF action = "accept" THEN "accepted" ELSE "returned"
             /\ Seat(Answered(r, action))
                  = IF action = "accept" THEN "joined" ELSE "declined"
  BY DEF Answered, Moved, OwnerTells, CollabTells, Standing, Seat, Accepted, Pending
<1>3. CASE /\ Pending(owner[m])
           /\ owner' = [owner EXCEPT ![m] = Answered(@, action)]
           /\ collab' = IF action = "accept" THEN Released(collab) ELSE Held(collab)
  <2>1. Roles(owner)[m] = "asked"
    BY <1>1, <1>3, TellsLemma DEF Roles
  <2>2. Roles(owner') = [Roles(owner) EXCEPT
                            ![m] = IF action = "accept" THEN "accepted" ELSE "returned"]
    BY <1>1, <1>2, <1>3 DEF Roles
  <2>3. Seats(collab') = IF action = "accept" THEN Ownership!Admitted(Seats(collab))
                                              ELSE Ownership!HeldBack(Seats(collab))
    BY <1>1, <1>3, HeldOwns
  <2>4. RowsTell'
    BY <1>1, <1>2, <1>3, HeldOwns DEF RowsTell
  <2>5. CASE action = "accept"
    <3>1. Ownership!OwnerAccepts(m)
      BY <2>1, <2>2, <2>3, <2>5 DEF Ownership!OwnerAccepts, Roles, Seats
    <3> QED BY <2>4, <3>1 DEF Moves, Ownership!Next
  <2>6. CASE action = "return"
    <3>1. Ownership!OwnerReturns(m)
      BY <2>1, <2>2, <2>3, <2>6 DEF Ownership!OwnerReturns, Roles, Seats
    <3> QED BY <2>4, <3>1 DEF Moves, Ownership!Next
  <2> QED BY <2>5, <2>6
<1>4. CASE /\ Pending(collab[m])
           /\ collab' = [collab EXCEPT ![m] = Answered(@, action)]
           /\ UNCHANGED owner
  <2> DEFINE seat == IF action = "accept" THEN "joined" ELSE "declined"
  <2>1. Seats(collab)[m] = "invited"
    BY <1>1, <1>4, TellsLemma DEF Seats
  <2>2. Seats(collab') = [Seats(collab) EXCEPT ![m] = seat]
    BY <1>1, <1>2, <1>4 DEF Seats
  <2>3. RowsTell'
    BY <1>1, <1>2, <1>4 DEF RowsTell
  <2> HIDE DEF seat
  <2>4. Ownership!Replies(m, seat)
    BY <1>4, <2>1, <2>2 DEF Ownership!Replies, Seats
  <2> QED BY <2>3, <2>4 DEF Moves, Ownership!Next, seat
<1> QED BY <1>3, <1>4

\* A transfer moves the ownership: there is no other open owner to be left.
LEMMA TransferOwns ==
    ASSUME RowsOK, RowsTell, OneOwner, task.live, task'.live = task.live,
           NEW o \in AssignedOwners, NEW target \in Members, o # target,
           owner' = [owner EXCEPT
                        ![o] = Moved(@, "transferred", "returned"),
                        ![target] = Moved(@, "assigned",
                            IF target = Creator THEN "accepted" ELSE "pending")],
           collab' = TransferredCollab(target)
    PROVE  RowsTell' /\ Moves
<1> DEFINE others == [collab EXCEPT ![target] = Removed(@)]
           seats == [Seats(collab) EXCEPT ![target] = "out"]
<1>1. /\ owner \in [Members -> Row] /\ collab \in [Members -> Row]
      /\ \A n \in Members : OwnerTells(owner[n]) /\ CollabTells(collab[n])
      /\ o \in Members /\ owner[o].assignment = "assigned"
  BY DEF RowsOK, RowsTell, AssignedOwners
<1>2. Roles(owner)[o] \in {"asked", "accepted"}
  BY <1>1, TellsLemma DEF Roles
<1>3. ASSUME NEW n \in Members
      PROVE  /\ Standing(owner'[n]) = IF n = target THEN Ownership!Standing(target = Creator)
                                                    ELSE "none"
             /\ OwnerTells(owner'[n])
  <2>1. CASE n = target
    <3>1. owner'[n] = Moved(owner[n], "assigned",
                            IF target = Creator THEN "accepted" ELSE "pending")
      BY <1>1, <2>1
    <3> QED BY <2>1, <3>1
            DEF Moved, Standing, OwnerTells, Accepted, Pending, Ownership!Standing
  <2>2. CASE n = o
    <3>1. owner'[n] = Moved(owner[n], "transferred", "returned")
      BY <1>1, <2>2
    <3> QED BY <2>2, <3>1 DEF Moved, Standing, OwnerTells, Accepted, Pending
  <2>3. CASE n \notin {o, target}
    <3>1. owner'[n] = owner[n]
      BY <1>1, <2>3
    <3>2. owner[n].assignment \notin {"assigned", "returned"}
      BY <1>1, <2>3 DEF OneOwner, OpenOwners
    <3> QED BY <1>1, <2>3, <3>1, <3>2 DEF Standing, Accepted, Pending
  <2> QED BY <2>1, <2>2, <2>3
<1>4. Roles(owner') = Ownership!Only(target, Ownership!Standing(target = Creator))
  BY <1>3 DEF Roles, Ownership!Only
<1>5. /\ others \in [Members -> Row] /\ \A n \in Members : CollabTells(others[n])
      /\ Seats(others) = seats
  <2>1. others[target] = Removed(collab[target])
        /\ \A n \in Members \ {target} : others[n] = collab[n]
    BY <1>1
  <2>2. others \in [Members -> Row]
    BY <1>1, RowLemma
  <2>3. ASSUME NEW n \in Members
        PROVE  CollabTells(others[n]) /\ Seat(others[n]) = seats[n]
    BY <1>1, <2>1, WrittenLemma DEF Seats
  <2> HIDE DEF others
  <2>4. Seats(others) = seats
    BY <2>3 DEF Seats
  <2> QED BY <2>2, <2>3, <2>4
<1>6. collab' = IF target = Creator THEN Released(others) ELSE Held(others)
  BY DEF TransferredCollab
<1> HIDE DEF others
<1>7. /\ Seats(collab') = IF target = Creator THEN Ownership!Admitted(seats)
                                              ELSE Ownership!HeldBack(seats)
      /\ \A n \in Members : CollabTells(collab'[n])
  BY <1>5, <1>6, HeldOwns
<1>8. Ownership!Transfer(o, target)
  BY <1>2, <1>4, <1>7 DEF Ownership!Transfer, Roles, Seats
<1> QED BY <1>1, <1>3, <1>7, <1>8 DEF Moves, Ownership!Next, RowsTell

\* Deleting the task ends all of it.
LEMMA DeleteOwns ==
    ASSUME RowsOK, task.live, ~task'.live,
           owner' = [m \in Members |-> Removed(owner[m])],
           collab' = [m \in Members |-> Removed(collab[m])]
    PROVE  RowsTell' /\ Moves
<1>1. owner \in [Members -> Row] /\ collab \in [Members -> Row]
  BY DEF RowsOK
<1>2. \A m \in Members :
        /\ Standing(owner'[m]) = "none" /\ OwnerTells(owner'[m])
        /\ Seat(collab'[m]) = "out" /\ CollabTells(collab'[m])
  BY <1>1, WrittenLemma
<1>3. /\ [m \in Members |-> Standing(owner[m])]' = [m \in Members |-> "none"]
      /\ [m \in Members |-> Seat(collab[m])]' = [m \in Members |-> "out"]
  BY <1>2
<1> QED BY <1>2, <1>3 DEF RowsTell, Moves, Ownership!Next, Ownership!Delete

LEMMA ExecuteOwns ==
    ASSUME TaskInv, RowsTell, NEW s \in Slots, Execute(s)
    PROVE  RowsTell' /\ Moves
<1> DEFINE Goal == RowsTell' /\ Moves
<1>0. /\ slot[s] # Free /\ SlotsOK /\ RowsOK /\ OneOwner
      /\ task \in [version : Nat \ {0}, done : BOOLEAN, live : BOOLEAN]
  BY DEF Execute, UpdateTask, BulkCommit, DeleteTask, HandleInbox, TransferTask,
         UpdateTimer, PauseRunningTimers, Arrives, TaskInv, PeopleInv, People,
         TimersInv, TaskOK
<1>1. ASSUME UNCHANGED <<owner, collab>>, task' = task PROVE Goal
  BY <1>1, SameRows
<1>2. ASSUME Unchanged PROVE Goal
  BY <1>1, <1>2 DEF Unchanged
<1>3. ASSUME NEW c, Resolved(c), ApplyPatch(c), CanWrite(slot[s].by) PROVE Goal
  BY <1>0, <1>3, PatchOwns DEF CanWrite, CanRead
<1> HIDE DEF Goal
<1>4. CASE UpdateTask(s)
  <2>1. slot[s].command.kind = "update"
    BY <1>4 DEF UpdateTask, Arrives
  <2>2. Resolved(UpdateFingerprint(s).command)
    BY <1>0, <2>1, FingerprintLemma
  <2>3. Goal
    BY <1>2, <1>3, <1>4, <2>2 DEF UpdateTask, Replay, Reject, RejectWriter
  <2> QED BY <2>3 DEF Goal
<1>5. CASE BulkCommit(s)
  <2>1. Resolved(slot[s].command)
    BY <1>0, <1>5 DEF BulkCommit, Arrives, SlotsOK
  <2>2. Goal
    BY <1>2, <1>3, <1>5, <2>1 DEF BulkCommit, Replay, Reject
  <2> QED BY <2>2 DEF Goal
<1>6. CASE DeleteTask(s)
  <2>1. ASSUME CanWrite(slot[s].by),
               task' = [task EXCEPT !.version = @ + 1, !.live = FALSE],
               owner' = [m \in Members |-> Removed(owner[m])],
               collab' = [m \in Members |-> Removed(collab[m])]
        PROVE  Goal
    <3>1. task.live /\ ~task'.live
      BY <1>0, <2>1 DEF CanWrite, CanRead
    <3> QED BY <1>0, <2>1, <3>1, DeleteOwns DEF Goal
  <2>2. Goal
    BY <1>2, <1>6, <2>1 DEF DeleteTask, Replay, Reject, RejectWriter
  <2> QED BY <2>2 DEF Goal
<1>7. CASE HandleInbox(s)
  <2> DEFINE m == slot[s].by
             action == slot[s].command.action
  <2>1. m \in Members /\ action \in {"accept", "return"}
    <3>1. slot[s].command \in AllCommands /\ slot[s].command.kind = "inbox"
      BY <1>0, <1>7 DEF HandleInbox, Arrives, SlotsOK
    <3> QED BY <1>0, <3>1 DEF AllCommands, Edits, SlotsOK
  <2>2. ASSUME CanRead(m), task' = task,
               \/ /\ Pending(owner[m])
                  /\ owner' = [owner EXCEPT ![m] = Answered(@, action)]
                  /\ collab' = IF action = "accept" THEN Released(collab) ELSE Held(collab)
               \/ /\ Pending(collab[m])
                  /\ collab' = [collab EXCEPT ![m] = Answered(@, action)]
                  /\ UNCHANGED owner
        PROVE  Goal
    <3>1. task.live /\ task'.live = task.live
      BY <2>2 DEF CanRead
    <3> HIDE DEF m, action
    <3> QED BY <1>0, <2>1, <2>2, <3>1, InboxOwns DEF Goal
  <2>3. Goal
    <3>1. CASE Pending(owner[m])
      BY <1>2, <1>7, <2>2, <3>1 DEF HandleInbox, Replay, Reject
    <3>2. CASE ~Pending(owner[m])
      BY <1>2, <1>7, <2>2, <3>2 DEF HandleInbox, Replay, Reject
    <3> QED BY <3>1, <3>2
  <2> QED BY <2>3 DEF Goal
<1>8. CASE TransferTask(s)
  <2> DEFINE target == slot[s].command.target
  <2>1. target \in Members
    <3>1. slot[s].command \in AllCommands /\ slot[s].command.kind = "transfer"
      BY <1>0, <1>8 DEF TransferTask, Arrives, SlotsOK
    <3> QED BY <3>1 DEF AllCommands, Edits
  <2>2. ASSUME NEW o \in AssignedOwners, o # target, CanWrite(slot[s].by), task' = task,
               owner' = [owner EXCEPT
                            ![o] = Moved(@, "transferred", "returned"),
                            ![target] = Moved(@, "assigned",
                                IF target = Creator THEN "accepted" ELSE "pending")],
               collab' = TransferredCollab(target)
        PROVE  Goal
    <3>1. task.live /\ task'.live = task.live
      BY <2>2 DEF CanWrite, CanRead
    <3> HIDE DEF target
    <3> QED BY <1>0, <2>1, <2>2, <3>1, TransferOwns DEF Goal
  <2>3. Goal
    BY <1>2, <1>8, <2>2 DEF TransferTask, Replay, Reject, RejectWriter
  <2> QED BY <2>3 DEF Goal
<1>9. CASE UpdateTimer(s) \/ PauseRunningTimers(s)
  <2>1. Goal
    BY <1>1, <1>2, <1>9 DEF UpdateTimer, PauseRunningTimers, Replay, Reject
  <2> QED BY <2>1 DEF Goal
<1> QED BY <1>4, <1>5, <1>6, <1>7, <1>8, <1>9 DEF Execute

\* A task is created with one owner, and a team that waits for that owner unless
\* the creator owns the task.
LEMMA InitOwns == Init => RowsTell /\ Ownership!Init
<1> SUFFICES ASSUME Init PROVE RowsTell /\ Ownership!Init
  OBVIOUS
<1>1. PICK o \in Members : \E C \in SUBSET (Members \ {o}) :
        owner = ReplacedOwner(NoRows, o) /\ collab = ReplacedCollab(NoRows, NoRows, o, C)
  BY DEF Init
<1>2. PICK C \in SUBSET (Members \ {o}) :
        owner = ReplacedOwner(NoRows, o) /\ collab = ReplacedCollab(NoRows, NoRows, o, C)
  BY <1>1
<1>3. /\ NoRows \in [Members -> Row]
      /\ \A m \in Members : /\ OwnerTells(NoRows[m]) /\ CollabTells(NoRows[m])
                            /\ Standing(NoRows[m]) = "none" /\ Seat(NoRows[m]) = "out"
  BY DEF NoRows, NoRow, Row, Assignments, OwnerTells, CollabTells, Standing, Seat,
         Accepted, Pending
<1>4. Roles(NoRows)[o] = "none" /\ \A m \in Members : Seats(NoRows)[m] = "out"
  BY <1>3 DEF Roles, Seats
<1>5. /\ Roles(owner) = Ownership!Only(o, Ownership!Standing(o = Creator))
      /\ Seats(collab) = [m \in Members |-> IF m \notin C THEN "out"
                                            ELSE IF o = Creator THEN "invited" ELSE "waiting"]
      /\ RowsTell
  <2> DEFINE accepted == o = Creator \/ Roles(NoRows)[o] = "accepted"
  <2>1. /\ Roles(owner) = Ownership!Only(o, Ownership!Standing(accepted))
        /\ Seats(collab) = [m \in Members |->
                              IF m \notin C THEN "out"
                              ELSE IF ~accepted THEN "waiting"
                              ELSE IF Seats(NoRows)[m] = "joined" THEN "joined"
                                                                  ELSE "invited"]
        /\ \A m \in Members : OwnerTells(owner[m]) /\ CollabTells(collab[m])
    BY <1>2, <1>3, SettleOwns
  <2>2. accepted <=> o = Creator
    BY <1>4
  <2> HIDE DEF accepted
  <2>3. Ownership!Standing(accepted) = Ownership!Standing(o = Creator)
    BY <2>2 DEF Ownership!Standing
  <2>4. Seats(collab) = [m \in Members |-> IF m \notin C THEN "out"
                                           ELSE IF o = Creator THEN "invited" ELSE "waiting"]
    BY <1>4, <2>1, <2>2
  <2> QED BY <2>1, <2>3, <2>4 DEF RowsTell
<1>6. task.live = TRUE
  BY DEF Init
<1> QED BY <1>5, <1>6 DEF Ownership!Init, Roles, Seats

\* For any members, commands and bounds: the rows implement TaskOwnership.
THEOREM OwnershipTheorem == Spec => ImplementsOwnership
<1>1. TaskInv /\ RowsTell /\ [Next]_vars => RowsTell' /\ [Ownership!Next]_Ownership!vars
  <2> SUFFICES ASSUME TaskInv, RowsTell, [Next]_vars PROVE RowsTell' /\ Moves
    BY DEF Moves
  <2> DEFINE Goal == RowsTell' /\ Moves
  <2>1. ASSUME NEW s \in Slots, Execute(s) PROVE Goal
    BY <2>1, ExecuteOwns
  <2>2. ASSUME UNCHANGED <<task, owner, collab>> PROVE Goal
    BY <2>2, SameRows
  <2> HIDE DEF Goal
  <2>3. ASSUME NEW s \in Slots, NEW m \in Members, NEW c \in Commands, Compose(s, m, c)
        PROVE  Goal
    BY <2>2, <2>3, Zenon DEF Compose
  <2>4. ASSUME NEW s \in Slots, Close(s) PROVE Goal
    BY <2>2, <2>4 DEF Close
  <2>5. ASSUME UNCHANGED vars PROVE Goal
    BY <2>2, <2>5 DEF vars
  <2>6. Goal
    BY <2>1, <2>3, <2>4, <2>5, Zenon DEF Next
  <2> QED BY <2>6 DEF Goal
<1> QED BY <1>1, InitOwns, TaskInvariant, PTL DEF Spec, ImplementsOwnership, Ownership!Spec

-----------------------------------------------------------------------------
(* NoLostOwner and ReplayReturnsReceipt do not hold of the code.  These      *)
(* theorems say how far they do: the first as long as nobody transfers the   *)
(* task, the second of every command but an update.                          *)

NoTransfers == \A c \in Commands : c.kind # "transfer"

\* An edit that was composed against the version of the task saw its owner.
SawOwner ==
    \A s \in Slots :
        slot[s] # Free /\ slot[s].command.kind \in {"update", "bulk"} =>
            /\ slot[s].seen \in Nat /\ slot[s].seen <= task.version
            /\ slot[s].seen = task.version => slot[s].sawOwner = OpenOwners

\* Without a transfer there is no command under way that transfers.
Kinds == \A s \in Slots : slot[s] # Free => slot[s].command.kind # "transfer"

\* A change of the owner that is no transfer raises the version of the task, and
\* is an edit's only if the edit was composed against that version.
LEMMA OwnerVersion ==
    ASSUME TaskInv, NEW s \in Slots, Execute(s), slot[s].command.kind # "transfer"
    PROVE  /\ \/ task'.version = task.version /\ OpenOwners' = OpenOwners
              \/ task'.version = task.version + 1
           /\ slot[s].command.kind \in {"update", "bulk"} =>
                 (slot'[s].applied > slot[s].applied => slot[s].seen = task.version)
<1> DEFINE Moved1 == \/ task'.version = task.version /\ OpenOwners' = OpenOwners
                     \/ task'.version = task.version + 1
           Edit == slot[s].command.kind \in {"update", "bulk"} =>
                      (slot'[s].applied > slot[s].applied => slot[s].seen = task.version)
<1>0. /\ slot[s] # Free /\ SlotsOK /\ RowsOK /\ TaskOK /\ DOMAIN slot = Slots
      /\ slot[s].applied \in Nat
  BY DEF Execute, UpdateTask, BulkCommit, DeleteTask, HandleInbox, TransferTask,
         UpdateTimer, PauseRunningTimers, Arrives, TaskInv, PeopleInv, SlotsOK,
         TimersInv, StatesOK, CommandState
<1>1. ASSUME UNCHANGED <<task, owner>> PROVE Moved1
  BY <1>1 DEF OpenOwners
<1>2. ASSUME NEW c, ApplyPatch(c) PROVE Moved1
  BY <1>2 DEF ApplyPatch
<1>3. ASSUME NEW reply, NEW receipt,
             slot' = [slot EXCEPT ![s] = Executed(s, reply, receipt, slot[s].applied)]
      PROVE  Edit
  BY <1>0, <1>3 DEF Executed
<1>4. ASSUME NEW reply, Reply(s, reply) PROVE Edit
  BY <1>3, <1>4 DEF Reply
<1> HIDE DEF Moved1, Edit
<1>5. ASSUME NEW reply, Reject(s, reply) PROVE Moved1 /\ Edit
  BY <1>1, <1>4, <1>5 DEF Reject, Unchanged
<1>6. ASSUME NEW print, Replay(s, print) PROVE Moved1 /\ Edit
  BY <1>1, <1>4, <1>6 DEF Replay, Unchanged
<1>7. ASSUME RejectWriter(s) PROVE Moved1 /\ Edit
  BY <1>5, <1>7 DEF RejectWriter
<1>8. CASE UpdateTask(s)
  <2>1. ASSUME slot[s].seen = task.version PROVE Edit
    BY <2>1 DEF Edit
  <2> QED BY <1>2, <1>5, <1>6, <1>7, <1>8, <2>1 DEF UpdateTask, Moved1, Edit
<1>9. CASE BulkCommit(s)
  <2>1. ASSUME slot[s].seen = task.version PROVE Edit
    BY <2>1 DEF Edit
  <2>2. ASSUME Unchanged PROVE Moved1
    BY <1>1, <2>2 DEF Unchanged
  <2> QED BY <1>2, <1>3, <1>6, <1>9, <2>1, <2>2 DEF BulkCommit, Moved1, Edit
<1>10. CASE DeleteTask(s)
  <2>1. slot[s].command.kind \notin {"update", "bulk"}
    BY <1>10 DEF DeleteTask, Arrives
  <2>2. ASSUME task' = [task EXCEPT !.version = @ + 1, !.live = FALSE] PROVE Moved1
    BY <1>0, <2>2 DEF TaskOK, Moved1
  <2>3. Moved1
    BY <1>5, <1>6, <1>7, <1>10, <2>2 DEF DeleteTask
  <2> QED BY <2>1, <2>3 DEF Moved1
<1>11. CASE HandleInbox(s)
  <2> DEFINE m == slot[s].by
             action == slot[s].command.action
  <2>1. slot[s].command.kind \notin {"update", "bulk"} /\ m \in Members
    BY <1>0, <1>11 DEF HandleInbox, Arrives, SlotsOK
  <2>2. ASSUME Pending(owner[m]), owner' = [owner EXCEPT ![m] = Answered(@, action)],
               task' = task
        PROVE  Moved1
    <3>1. /\ owner \in [Members -> Row]
          /\ owner[m].assignment = "assigned"
          /\ owner'[m].assignment \in {"assigned", "returned"}
          /\ \A n \in Members \ {m} : owner'[n] = owner[n]
      BY <1>0, <2>1, <2>2 DEF RowsOK, Pending, Answered, Moved
    <3>2. OpenOwners' = OpenOwners
      BY <3>1 DEF OpenOwners
    <3> QED BY <2>2, <3>2 DEF Moved1
  <2>3. Moved1
    BY <1>1, <1>5, <1>6, <1>11, <2>2 DEF HandleInbox
  <2> QED BY <2>1, <2>3 DEF Moved1
<1>12. CASE TransferTask(s)
  BY <1>12 DEF TransferTask, Arrives
<1>13. CASE UpdateTimer(s) \/ PauseRunningTimers(s)
  <2>1. slot[s].command.kind \notin {"update", "bulk"}
    BY <1>13 DEF UpdateTimer, PauseRunningTimers, Arrives
  <2>2. Moved1
    BY <1>1, <1>5, <1>6, <1>13 DEF UpdateTimer, PauseRunningTimers
  <2> QED BY <2>1, <2>2 DEF Moved1
<1> QED BY <1>8, <1>9, <1>10, <1>11, <1>12, <1>13 DEF Execute

\* Executing a command leaves the others, and what its member saw, alone.
LEMMA KeptLemma ==
    ASSUME TaskInv, NEW s \in Slots, Execute(s)
    PROVE  /\ slot[s] # Free
           /\ \A t \in Slots : slot'[t] # Free =>
                 /\ slot[t] # Free /\ slot'[t].command = slot[t].command
                 /\ slot'[t].seen = slot[t].seen /\ slot'[t].sawOwner = slot[t].sawOwner
           /\ \A t \in Slots \ {s} : slot'[t] = slot[t]
<1>1. /\ Taken(s) /\ slot[s] # Free /\ slot[s].attempts < MaxAttempts
  BY TakenLemma DEF TaskInv, PeopleInv
<1>2. PICK reply, receipt, applied : Takes(s, reply, receipt, applied)
  BY <1>1, Zenon DEF Taken
<1>3. slot'[s] = Executed(s, reply, receipt, applied)
      /\ \A t \in Slots \ {s} : slot'[t] = slot[t]
  BY <1>1, <1>2, StatesLemma DEF TaskInv
<1> QED BY <1>1, <1>3 DEF Executed

\* What Compose puts into its slot.
LEMMA ComposedLemma ==
    ASSUME TaskInv, NEW s \in Slots, NEW m \in Members, NEW c \in Commands, Compose(s, m, c)
    PROVE  /\ \A t \in Slots \ {s} : slot'[t] = slot[t]
           /\ slot'[s].command.kind = c.kind /\ slot'[s].applied = 0
           /\ slot'[s].seen = SeenVersion(c, m)
           /\ c.kind \in {"update", "bulk"} => slot'[s].sawOwner = OpenOwners
           /\ UNCHANGED <<task, owner, collab>>
<1> DEFINE d == IF c.kind = "bulk" THEN NormalizePatch(c, m) ELSE c
           w == IF c.kind \in {"update", "bulk"} THEN OpenOwners ELSE {}
           r == [command |-> d, by |-> m, seen |-> SeenVersion(c, m),
                 sawOwner |-> w, attempts |-> 0, receipt |-> NoReceipt,
                 reply |-> "none", applied |-> 0]
<1>1. d.kind = c.kind
  BY CommandsAssumption, NormalizeLemma
<1>2. slot' = [slot EXCEPT ![s] = r] /\ UNCHANGED <<task, owner, collab>>
  BY Zenon DEF Compose
<1>3. r.command = d /\ r.applied = 0 /\ r.seen = SeenVersion(c, m) /\ r.sawOwner = w
  OBVIOUS
<1> HIDE DEF d, r
<1>4. slot'[s] = r /\ \A t \in Slots \ {s} : slot'[t] = slot[t]
  BY <1>2 DEF TaskInv, StatesOK
<1> QED BY <1>1, <1>2, <1>3, <1>4

\* For any members, commands and bounds: as long as the clients transfer nothing,
\* an edit that replaces the owner was composed by a member who saw that owner.
THEOREM NoLostOwnerTheorem ==
    ASSUME NoTransfers PROVE Spec => NoLostOwner
<1> DEFINE Inv == TaskInv /\ SawOwner /\ Kinds
           Seen == \A s \in Slots :
                     /\ slot[s] # Free /\ slot'[s] # Free
                     /\ slot[s].command.kind \in {"update", "bulk"}
                     /\ slot'[s].applied > slot[s].applied
                     /\ OpenOwners' # OpenOwners
                     => slot[s].sawOwner = OpenOwners
<1>1. Init => SawOwner /\ Kinds
  BY DEF Init, SawOwner, Kinds
<1>2. ASSUME Inv, [Next]_vars PROVE SawOwner' /\ Kinds' /\ [Seen]_vars
  <2> DEFINE Goal == SawOwner' /\ Kinds' /\ Seen
  <2>1. ASSUME NEW s \in Slots, NEW m \in Members, NEW c \in Commands, Compose(s, m, c)
        PROVE  Goal
    <3>1. /\ \A t \in Slots \ {s} : slot'[t] = slot[t]
          /\ slot'[s].command.kind = c.kind /\ slot[s] = Free
          /\ slot'[s].seen = SeenVersion(c, m)
          /\ c.kind \in {"update", "bulk"} => slot'[s].sawOwner = OpenOwners
          /\ UNCHANGED <<task, owner>> /\ c.kind # "transfer"
      BY <1>2, <2>1, ComposedLemma DEF Compose, NoTransfers
    <3>2. OpenOwners' = OpenOwners
      BY <3>1 DEF OpenOwners
    <3>3. c.kind \in {"update", "bulk"} => SeenVersion(c, m) = task.version
      BY DEF SeenVersion
    <3>4. task.version \in Nat
      BY <1>2 DEF TaskInv, TimersInv, TaskOK
    <3>5. SawOwner'
      BY <1>2, <3>1, <3>2, <3>3, <3>4 DEF SawOwner
    <3>6. Kinds'
      BY <1>2, <3>1 DEF Kinds
    <3> QED BY <3>2, <3>5, <3>6
  <2>2. ASSUME NEW s \in Slots, Close(s) PROVE Goal
    <3>1. /\ slot' = [slot EXCEPT ![s] = Free] /\ UNCHANGED <<task, owner>>
          /\ OpenOwners' = OpenOwners
      BY <2>2 DEF Close, OpenOwners
    <3>2. DOMAIN slot = Slots
      BY <1>2 DEF TaskInv, StatesOK
    <3>3. SawOwner' /\ Kinds'
      BY <1>2, <3>1, <3>2 DEF SawOwner, Kinds
    <3> QED BY <3>1, <3>3
  <2>3. ASSUME NEW s \in Slots, Execute(s) PROVE Goal
    <3>1. /\ slot[s] # Free
          /\ \A t \in Slots : slot'[t] # Free =>
                /\ slot[t] # Free /\ slot'[t].command = slot[t].command
                /\ slot'[t].seen = slot[t].seen /\ slot'[t].sawOwner = slot[t].sawOwner
          /\ \A t \in Slots \ {s} : slot'[t] = slot[t]
      BY <1>2, <2>3, KeptLemma
    <3>2. slot[s].command.kind # "transfer"
      BY <1>2, <3>1 DEF Kinds
    <3>3. /\ \/ task'.version = task.version /\ OpenOwners' = OpenOwners
             \/ task'.version = task.version + 1
          /\ slot[s].command.kind \in {"update", "bulk"} =>
                (slot'[s].applied > slot[s].applied => slot[s].seen = task.version)
      BY <1>2, <2>3, <3>2, OwnerVersion
    <3>4. task.version \in Nat
      BY <1>2 DEF TaskInv, TimersInv, TaskOK
    <3>5. SawOwner'
      BY <1>2, <3>1, <3>3, <3>4 DEF SawOwner
    <3>6. Kinds'
      BY <1>2, <3>1 DEF Kinds
    <3>7. ASSUME NEW t \in Slots, slot[t] # Free, slot'[t] # Free,
                 slot[t].command.kind \in {"update", "bulk"},
                 slot'[t].applied > slot[t].applied
          PROVE  slot[t].sawOwner = OpenOwners
      <4>1. slot[t].applied \in Nat
        BY <1>2, <3>7 DEF TaskInv, StatesOK, CommandState
      <4>2. t = s
        BY <3>1, <3>7, <4>1
      <4> QED BY <1>2, <3>3, <3>7, <4>2 DEF SawOwner
    <3> QED BY <3>5, <3>6, <3>7
  <2>4. CASE UNCHANGED vars
    <3>1. slot' = slot /\ task' = task /\ OpenOwners' = OpenOwners
      BY <2>4 DEF vars, OpenOwners
    <3> QED BY <1>2, <2>4, <3>1 DEF SawOwner, Kinds
  <2> HIDE DEF Goal
  <2>5. CASE Next
    <3>1. Goal
      BY <2>1, <2>2, <2>3, <2>5, Zenon DEF Next
    <3> QED BY <3>1 DEF Goal
  <2> QED BY <1>2, <2>4, <2>5
<1> QED BY <1>1, <1>2, TaskInvariant, PTL DEF Spec, NoLostOwner

\* A command that is no update is answered as it was the first time.
CommandReplayed ==
    \A s \in Slots :
        slot[s] # Free /\ slot[s].command.kind # "update" /\ slot[s].applied > 0 =>
            /\ slot[s].receipt = Plain(s)
            /\ slot[s].reply = "ok"

\* It looks for its receipt before everything else, and its fingerprint is the
\* command itself.
LEMMA ReplayLemma ==
    ASSUME TaskInv, CommandReplayed, NEW s \in Slots, Execute(s),
           slot[s].command.kind # "update"
    PROVE  CommandReplayed'
<1>0. /\ slot[s] # Free /\ DOMAIN slot = Slots /\ slot[s].applied \in Nat
      /\ Fresh(s) => slot[s].applied = 0
  BY DEF Execute, UpdateTask, BulkCommit, DeleteTask, HandleInbox, TransferTask,
         UpdateTimer, PauseRunningTimers, Arrives, TaskInv, StatesOK, CommandState,
         ReceiptsOK, Fresh
<1>1. ASSUME NEW reply, NEW receipt, NEW applied,
             slot' = [slot EXCEPT ![s] = Executed(s, reply, receipt, applied)],
             \/ applied = 0
             \/ reply = "ok" /\ receipt = Plain(s)
      PROVE  CommandReplayed'
  <2>1. slot'[s] = Executed(s, reply, receipt, applied)
        /\ \A t \in Slots \ {s} : slot'[t] = slot[t]
    BY <1>0, <1>1
  <2>2. /\ slot'[s].command = slot[s].command /\ slot'[s].receipt = receipt
        /\ slot'[s].reply = reply /\ slot'[s].applied = applied
    BY <2>1 DEF Executed
  <2> QED BY <1>1, <2>1, <2>2 DEF CommandReplayed, Plain
<1>2. ASSUME Fresh(s), NEW reply, Reply(s, reply) PROVE CommandReplayed'
  BY <1>0, <1>1, <1>2 DEF Reply
<1>3. ASSUME Replay(s, Plain(s)) PROVE CommandReplayed'
  <2>1. CASE slot[s].applied = 0
    BY <1>1, <1>3, <2>1 DEF Replay, Reply
  <2>2. CASE slot[s].applied # 0
    <3>1. slot[s].receipt = Plain(s)
      BY <1>0, <2>2 DEF CommandReplayed
    <3> QED BY <1>1, <1>3, <3>1 DEF Replay, Reply
  <2> QED BY <2>1, <2>2
<1>4. ASSUME Fresh(s), Commit(s, Plain(s)) PROVE CommandReplayed'
  BY <1>1, <1>4 DEF Commit
<1>5. ASSUME Fresh(s), NEW reply, Reject(s, reply) PROVE CommandReplayed'
  BY <1>2, <1>5 DEF Reject
<1>6. ASSUME Fresh(s), RejectWriter(s) PROVE CommandReplayed'
  BY <1>5, <1>6 DEF RejectWriter
<1>7. CASE UpdateTask(s)
  BY <1>7 DEF UpdateTask, Arrives
<1>8. CASE BulkCommit(s)
  BY <1>0, <1>1, <1>3, <1>4, <1>8 DEF BulkCommit
<1>9. CASE DeleteTask(s)
  BY <1>3, <1>4, <1>5, <1>6, <1>9 DEF DeleteTask
<1>10. CASE HandleInbox(s)
  BY <1>3, <1>4, <1>5, <1>10 DEF HandleInbox
<1>11. CASE TransferTask(s)
  BY <1>3, <1>4, <1>5, <1>6, <1>11 DEF TransferTask
<1>12. CASE UpdateTimer(s)
  BY <1>3, <1>4, <1>5, <1>12 DEF UpdateTimer
<1>13. CASE PauseRunningTimers(s)
  BY <1>3, <1>4, <1>13 DEF PauseRunningTimers
<1> QED BY <1>7, <1>8, <1>9, <1>10, <1>11, <1>12, <1>13 DEF Execute

\* For any members, commands and bounds: a command other than an update that took
\* effect is answered "ok" however often it comes again under its key.
THEOREM ReplayTheorem == Spec => []CommandReplayed
<1>1. Init => CommandReplayed
  BY DEF Init, CommandReplayed
<1>2. TaskInv /\ CommandReplayed /\ [Next]_vars => CommandReplayed'
  <2> SUFFICES ASSUME TaskInv, CommandReplayed, [Next]_vars PROVE CommandReplayed'
    OBVIOUS
  <2>1. ASSUME NEW s \in Slots, NEW m \in Members, NEW c \in Commands, Compose(s, m, c)
        PROVE  CommandReplayed'
    <3>1. (\A t \in Slots \ {s} : slot'[t] = slot[t]) /\ slot'[s].applied = 0
      BY <2>1, ComposedLemma
    <3> QED BY <3>1 DEF CommandReplayed, Plain
  <2>2. ASSUME NEW s \in Slots, Close(s) PROVE CommandReplayed'
    <3>1. slot' = [slot EXCEPT ![s] = Free] /\ DOMAIN slot = Slots
      BY <2>2 DEF Close, TaskInv, StatesOK
    <3> QED BY <3>1 DEF CommandReplayed, Plain
  <2>3. ASSUME NEW s \in Slots, Execute(s) PROVE CommandReplayed'
    <3>1. CASE slot[s].command.kind # "update"
      BY <2>3, <3>1, ReplayLemma
    <3>2. CASE slot[s].command.kind = "update"
      <4>1. /\ slot'[s].command = slot[s].command \/ slot'[s] = Free
            /\ \A t \in Slots \ {s} : slot'[t] = slot[t]
        BY <2>3, KeptLemma
      <4> QED BY <3>2, <4>1 DEF CommandReplayed, Plain
    <3> QED BY <3>1, <3>2
  <2>4. CASE UNCHANGED vars
    BY <2>4 DEF vars, CommandReplayed, Plain
  <2> QED BY <2>1, <2>2, <2>3, <2>4, Zenon DEF Next
<1> QED BY <1>1, <1>2, TaskInvariant, PTL DEF Spec
=============================================================================
