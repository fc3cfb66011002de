---------------------------- MODULE MCPublisher -----------------------------
(* Two publications that share the transport's channel.                    *)
EXTENDS Publisher

CONSTANTS p1, p2

MCPublications == {p1, p2}
=============================================================================
