------------------------ MODULE MCTaskCollaboration ------------------------
EXTENDS TaskCollaboration, TLC

\* Edits name one owner, or everybody else as collaborators, or only the mark.
MCCommands ==
    {c \in AllCommands :
        CASE c.kind = "update" ->
                \/ c.owner # Keep /\ c.collabs = {Keep} /\ c.mark = "keep"
                \/ c.owner = Keep /\ c.collabs \in {{}, Members \ {Creator}} /\ c.mark = "keep"
                \/ c.owner = Keep /\ c.collabs = {Keep} /\ c.mark \in {"done", "open"}
          [] c.kind = "bulk" ->
                c.owner = Keep /\ c.collabs = Members \ {Creator} /\ c.mark = "done"
          [] OTHER -> TRUE}

Symmetry == Permutations(Members \ {Creator}) \cup Permutations(Slots)

=============================================================================
