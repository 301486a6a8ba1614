---------------------------- MODULE MCCloudSession ----------------------------
(* Model values and symmetry for CloudSession.                               *)
EXTENDS CloudSession, TLC

Symmetry == Permutations(Requests) \cup Permutations(Keys)
=============================================================================
