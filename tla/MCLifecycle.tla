---------------------------- MODULE MCLifecycle -----------------------------
(* One process and one signal.                                             *)
EXTENDS Lifecycle, TLC
=============================================================================
