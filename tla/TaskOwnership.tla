---------------------------- MODULE TaskOwnership ----------------------------
(***************************************************************************)
(* What a task promises the people who work on it, with no rows, versions, *)
(* commands or retries in it.  A task has at most one owner, who was asked *)
(* and accepts or returns it; the creator need not be asked.  Everybody    *)
(* else is outside the team or has one seat in it: waiting for the owner   *)
(* to accept, invited, joined, or declined.  A change of the owner sends   *)
(* the whole team back to waiting, unless the new owner is the creator or  *)
(* keeps the task already accepted.  Nothing happens to a deleted task.    *)
(***************************************************************************)
CONSTANTS Members, Creator

VARIABLES live,   \* the task is not deleted
          role,   \* member |-> none, or how the owner stands to the task
          team    \* member |-> its seat

vars == <<live, role, team>>

\* o is the owner and nobody else is.
Only(o, standing) == [m \in Members |-> IF m = o THEN standing ELSE "none"]

Standing(accepted) == IF accepted THEN "accepted" ELSE "asked"

\* The owner accepted: who waited is invited.  A new one is awaited: all wait.
Admitted(seats) ==
    [m \in Members |-> IF seats[m] = "waiting" THEN "invited" ELSE seats[m]]
HeldBack(seats) ==
    [m \in Members |-> IF seats[m] = "out" THEN "out" ELSE "waiting"]

Init ==
    /\ live = TRUE
    /\ \E o \in Members : \E C \in SUBSET (Members \ {o}) :
         /\ role = Only(o, Standing(o = Creator))
         /\ team = [m \in Members |-> IF m \notin C THEN "out"
                                      ELSE IF o = Creator THEN "invited" ELSE "waiting"]

(* An edit names the owner and the team anew.  Only who has joined, under   *)
(* an owner who has accepted, need not be asked again.                      *)
Settle(o) ==
    LET accepted == o = Creator \/ role[o] = "accepted"
    IN  /\ live
        /\ role' = Only(o, Standing(accepted))
        /\ \E C \in SUBSET (Members \ {o}) :
              team' = [m \in Members |->
                         IF m \notin C THEN "out"
                         ELSE IF ~accepted THEN "waiting"
                         ELSE IF team[m] = "joined" THEN "joined" ELSE "invited"]
        /\ UNCHANGED live

Transfer(o, target) ==
    LET others == [team EXCEPT ![target] = "out"]
    IN  /\ live
        /\ role[o] \in {"asked", "accepted"} /\ o # target
        /\ role' = Only(target, Standing(target = Creator))
        /\ team' = IF target = Creator THEN Admitted(others) ELSE HeldBack(others)
        /\ UNCHANGED live

OwnerAccepts(m) ==
    /\ live /\ role[m] = "asked"
    /\ role' = [role EXCEPT ![m] = "accepted"]
    /\ team' = Admitted(team)
    /\ UNCHANGED live

OwnerReturns(m) ==
    /\ live /\ role[m] = "asked"
    /\ role' = [role EXCEPT ![m] = "returned"]
    /\ team' = HeldBack(team)
    /\ UNCHANGED live

Replies(m, seat) ==
    /\ live /\ team[m] = "invited"
    /\ team' = [team EXCEPT ![m] = seat]
    /\ UNCHANGED <<live, role>>

Delete ==
    /\ live /\ live' = FALSE
    /\ role' = [m \in Members |-> "none"]
    /\ team' = [m \in Members |-> "out"]

Next ==
    \/ \E o \in Members : Settle(o)
    \/ \E o, target \in Members : Transfer(o, target)
    \/ \E m \in Members : OwnerAccepts(m) \/ OwnerReturns(m)
                          \/ Replies(m, "joined") \/ Replies(m, "declined")
    \/ Delete

Spec == Init /\ [][Next]_vars
=============================================================================
