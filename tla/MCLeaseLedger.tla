--------------------------- MODULE MCLeaseLedger ---------------------------
(* One feed whose callers claim two windows in any order, at most three  *)
(* rows, leases of two units and statements that may be one unit late.     *)
EXTENDS LeaseLedger, TLC

CONSTANT f1

MCFeeds == {f1}
MCWindows == 1..2
=============================================================================
