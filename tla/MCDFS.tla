--------------------------------- MODULE MCDFS ---------------------------------
(* DFS on small instances. *)
EXTENDS DFSRefinement

CONSTANTS f1, f2, s1, s2, c1, c2

MCServerHash(s) == IF s = s1 THEN 2 ELSE 5

\* Block 0 goes to s1 and s2, block 1 to s2 alone: both replicas land there.
MCReplicaHash(f, i, n) == IF i = 0 /\ n = 0 THEN 1 ELSE 4

MCContents == {<<1, 1, 1>>, <<2, 2>>}

\* The second content leaves a unit of the first block to whoever wrote before.
MCShortContents == {<<1, 1, 1>>, <<2>>}

MCBlockHashes == UNION {[1 .. n -> {1, 2, Garbage}] : n \in 1 .. maxBlockSize}
=============================================================================
