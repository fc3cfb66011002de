--------------------------- MODULE MCLeaseStores ---------------------------
(* PostgreSQL with two connections, one feed, two windows and at most two  *)
(* rows; memory with two keys and at most three leases.                    *)
EXTENDS LeaseStores, TLC

CONSTANTS s1, s2, f1

MCSessions == {s1, s2}
MCFeeds == {f1}
MCWindows == 1..2
MCKeys == 1..2
Symmetry == Permutations(MCSessions)
=============================================================================
