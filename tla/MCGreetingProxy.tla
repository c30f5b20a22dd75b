---------------------------- MODULE MCGreetingProxy ----------------------------
(* GreetingProxy on small instances. *)
EXTENDS GreetingProxy

CONSTANTS g1, g2, c1

\* One server may come back, after a shutdown or killed.
MCMaxStarts(s) == IF s = g1 THEN 2 ELSE 1
=============================================================================
