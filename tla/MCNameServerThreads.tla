------------------------- MODULE MCNameServerThreads -------------------------
(* NameServerThreads on small instances. *)
EXTENDS NameServerThreads

CONSTANTS f1, c1, c2
=============================================================================
