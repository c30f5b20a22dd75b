------------------------------- MODULE MCWire -------------------------------
(* Wire on small instances: streams of two messages, a varint of two bytes. *)
EXTENDS Wire

MCNumbers == {0, 300}
=============================================================================
