----------------------------- MODULE SessionChain -----------------------------
(***************************************************************************)
(* What the organization cloud promises about a login session, with no     *)
(* files, transactions or threads in it: a session is a chain of token     *)
(* pairs of which at most the last is live.  Opening a session makes its   *)
(* first pair live, renewing it replaces the live pair by one never used   *)
(* before, ending it leaves no live pair for ever, and a client is only    *)
(* ever handed a pair that is live at that moment: the new one when it is  *)
(* made, or the live one later.                                            *)
(***************************************************************************)
CONSTANTS Sessions, Pairs, NoPair

VARIABLES live,    \* session |-> its live pair, or NoPair
          used,    \* pairs that are or were live
          handed   \* pairs some client was handed

vars == <<live, used, handed>>

Init ==
    /\ live = [s \in Sessions |-> NoPair]
    /\ used = {}
    /\ handed = {}

(* The new pair is handed to the client, or its answer is still to come.    *)
MayHand(p) == handed' \in {handed, handed \cup {p}}

Opened(s) == \E p \in used : p.session = s

Open(s, p) ==
    /\ p.session = s
    /\ ~Opened(s)
    /\ live' = [live EXCEPT ![s] = p]
    /\ used' = used \cup {p}
    /\ MayHand(p)

Renew(s, p) ==
    /\ p.session = s /\ p \notin used
    /\ live[s] # NoPair
    /\ live' = [live EXCEPT ![s] = p]
    /\ used' = used \cup {p}
    /\ MayHand(p)

End(S) ==
    /\ live' = [s \in Sessions |-> IF s \in S THEN NoPair ELSE live[s]]
    /\ UNCHANGED <<used, handed>>

Hand(s) ==
    /\ live[s] # NoPair
    /\ handed' = handed \cup {live[s]}
    /\ UNCHANGED <<live, used>>

Next ==
    \/ \E S \in SUBSET Sessions : End(S)
    \/ \E s \in Sessions :
          \/ \E p \in Pairs : Open(s, p) \/ Renew(s, p)
          \/ Hand(s)

Spec == Init /\ [][Next]_vars
=============================================================================
