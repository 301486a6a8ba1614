--------------------------- MODULE MCWorkspaceSwitch ---------------------------
(***************************************************************************)
(* Two organizations and two calls of the user, three in                   *)
(* WorkspaceSwitchTarget.cfg.                                              *)
(***************************************************************************)
EXTENDS WorkspaceSwitch
=============================================================================
