-------------------------- MODULE MCBoundedDispatch --------------------------
(* The model values of BoundedDispatch for TLC are in BoundedDispatch.cfg.  *)
EXTENDS BoundedDispatch
=============================================================================
