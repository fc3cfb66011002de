---------------------------- MODULE MCReadiness -----------------------------
(* Two callers start and stop one loop, in haste or not.                   *)
EXTENDS Readiness, TLC

CONSTANTS k1, k2

MCCallers == {k1, k2}
=============================================================================
