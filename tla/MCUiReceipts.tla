----------------------------- MODULE MCUiReceipts -----------------------------
(***************************************************************************)
(* Two changes of one row, each sent up to three times.                    *)
(***************************************************************************)
EXTENDS UiReceipts
=============================================================================
