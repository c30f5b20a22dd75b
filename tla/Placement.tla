------------------------------ MODULE Placement ------------------------------
(***************************************************************************)
(* Where the blocks of a file go: the pure part of beginPutTransaction in  *)
(* NameServer.cpp.  A file is split into blocks of at most maxBlockSize,   *)
(* and each block is stored on up to backupNum data servers, found by      *)
(* consistent hashing: the servers lie on a ring, sorted by the hash of    *)
(* their address, and a replica goes to the first server whose hash is not *)
(* below the hash of (file name, block index, replica number).             *)
(*                                                                         *)
(* A SHA-256 digest is a natural number, since memcmp orders digests as    *)
(* numbers; the two hash functions are constants.                          *)
(***************************************************************************)
EXTENDS Integers, SequencesExt

CONSTANTS
  Files,           \* file names
  Servers,         \* addresses of data servers
  NoServer,        \* what is read as the address in a dead ServerInfo
  ServerHash(_),   \* the digest of a server's address
  ReplicaHash(_, _, _), \* the digest of a file name, block index and replica number
  BlockHashes,     \* digests of block contents
  NoHash,          \* the empty blockHash of a block not yet stored
  maxBlockSize,    \* largest size of a block
  backupNum        \* number of replicas asked for each block

ASSUME PlacementAssumption ==
  /\ NoServer \notin Servers
  /\ NoHash \notin BlockHashes
  /\ \A s \in Servers : ServerHash(s) \in Nat
  /\ maxBlockSize \in Nat \ {0}
  /\ backupNum \in Nat \ {0}

\* A data server as the name server records it.
ServerInfo == [address : Servers \cup {NoServer}, hash : Nat]

\* One replica of one block: an element of a file's storeList.
BlockStore == [blockIdx : Nat, blockSize : Nat,
               blockHash : BlockHashes \cup {NoHash}, server : ServerInfo]

-----------------------------------------------------------------------------
(***************************************************************************)
(* The ring.  serverList is sorted by hash; the lookup scans it for the    *)
(* first hash that is not below the key, and wraps to the first server.    *)
(***************************************************************************)
cmp(a, b) == a.hash < b.hash

Sorted(ring) == IsSorted(ring, LAMBDA a, b : ~cmp(b, a))

NotBelow(s, key) == key <= s.hash

\* Mutant: plain hashing, which moves most keys when a server comes or goes.
LookupModulo(ring, key) == ring[(key % Len(ring)) + 1]

Lookup(ring, key) ==
  LET found == SelectInSeq(ring, LAMBDA s : NotBelow(s, key))
  IN  IF found = 0 THEN ring[1] ELSE ring[found]

\* The reference definition: the closest server at or after the key, and the
\* lowest one of all when there is none.
IsSuccessor(s, members, key) ==
  LET after == {m \in members : key <= m.hash}
  IN  /\ s \in members
      /\ after # {} => s \in after
      /\ \A m \in (IF after # {} THEN after ELSE members) : s.hash <= m.hash

-----------------------------------------------------------------------------
(***************************************************************************)
(* The replicas of one block: the servers of the replica numbers           *)
(* 0 .. backupNum-1 in that order, each address only once.                 *)
(***************************************************************************)
Stored(stores, server) ==
  \E k \in DOMAIN stores : stores[k].address = server.address

Place(stores, server) ==
  IF Stored(stores, server) THEN stores ELSE Append(stores, server)

Replicas(ring, file, blockIdx) ==
  LET kept[n \in 0 .. backupNum] ==
        IF n = 0 THEN <<>>
        ELSE Place(kept[n - 1], Lookup(ring, ReplicaHash(file, blockIdx, n - 1)))
  IN  kept[backupNum]

\* The entries of one block, whose content is still to come.
BlockStores(ring, file, blockIdx, size) ==
  LET replicas == Replicas(ring, file, blockIdx)
  IN  [k \in DOMAIN replicas |->
         [blockIdx |-> blockIdx, blockSize |-> size, blockHash |-> NoHash,
          server |-> replicas[k]]]

(***************************************************************************)
(* The whole storeList of a file.  With n blocks done, the state of the    *)
(* loop is the size that remains and the entries made so far.              *)
(***************************************************************************)
\* Mutant: the last block is as large as the others.
NextSizeWhole(remain) == maxBlockSize

NextSize(remain) == IF remain > maxBlockSize THEN maxBlockSize ELSE remain

StoreList(ring, file, size) ==
  LET split[n \in 0 .. size] ==
        IF n = 0 THEN [remain |-> size, list |-> <<>>]
        ELSE LET before == split[n - 1]
             IN  IF before.remain = 0 THEN before
                 ELSE [remain |-> before.remain - NextSize(before.remain),
                       list |-> before.list \o
                                BlockStores(ring, file, n - 1, NextSize(before.remain))]
  IN  split[size].list

-----------------------------------------------------------------------------
(***************************************************************************)
(* What a storeList must look like: the runs of equal indices that         *)
(* updateBlockInfo, get and put walk over.                                 *)
(***************************************************************************)

\* Blocks are numbered from 0 without a gap, the replicas of a block adjacent.
Contiguous(list) ==
  /\ list # <<>> => list[1].blockIdx = 0
  /\ \A k \in 1 .. Len(list) - 1 :
       list[k + 1].blockIdx \in {list[k].blockIdx, list[k].blockIdx + 1}

\* No data server is asked to store the same block twice.
DistinctReplicas(list) ==
  \A j, k \in DOMAIN list :
    /\ list[j].blockIdx = list[k].blockIdx
    /\ list[j].server.address = list[k].server.address
    => j = k

\* The replicas of a block are recorded with one size and one hash.
ReplicasAgree(list) ==
  \A j, k \in DOMAIN list :
    list[j].blockIdx = list[k].blockIdx =>
      /\ list[j].blockSize = list[k].blockSize
      /\ list[j].blockHash = list[k].blockHash

\* The blocks cut the file's size into pieces of maxBlockSize and a last one.
CutsSize(list, size) ==
  {<<e.blockIdx, e.blockSize>> : e \in ToSet(list)} =
    {<<i, Min({maxBlockSize, size - i * maxBlockSize})>> :
       i \in {j \in 0 .. size : j * maxBlockSize < size}}

WellFormed(list) ==
  Contiguous(list) /\ DistinctReplicas(list) /\ ReplicasAgree(list)
=============================================================================
