----------------------------- MODULE MCNameServer -----------------------------
(* NameServerSpec on small instances. *)
EXTENDS NameServerSpec

CONSTANTS f1, f2, s1, s2, s3

\* Places on the ring: server hashes 2, 4, 6, replica hashes 0 .. 7, some on a
\* server's place, some above the last one.
MCServerHash(s) == CASE s = s1 -> 2 [] s = s2 -> 4 [] s = s3 -> 6

MCReplicaHash(f, i, n) == ((IF f = f1 THEN 1 ELSE 4) + 3 * i + 2 * n) % 8

MCReports == {<<1, "h1">>, <<2, "h2">>}
=============================================================================
