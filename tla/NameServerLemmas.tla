--------------------------- MODULE NameServerLemmas ---------------------------
(***************************************************************************)
(* What the handlers of the name server keep, whoever calls them: the      *)
(* facts that the proofs about the name server alone and those about the   *)
(* whole file system share.  Those about the operators of Placement come   *)
(* first, for every ring, file and size: the linear search of the          *)
(* handlers, the ring lookup, and the storeList that beginPutTransaction   *)
(* builds.                                                                 *)
(***************************************************************************)
EXTENDS NameServer, ListProofs

-----------------------------------------------------------------------------
(***************************************************************************)
(* The ring.                                                               *)
(***************************************************************************)

\* The lookup answers an element of the ring: the first one not below the key,
\* or the first of all when every one is below.
LEMMA LookupFindsFirst ==
  ASSUME NEW ring \in Seq(ServerInfo), ring # <<>>, NEW key
  PROVE  \E k \in 1 .. Len(ring) :
           /\ Lookup(ring, key) = ring[k]
           /\ \/ NotBelow(ring[k], key) /\ \A j \in 1 .. k - 1 : ~NotBelow(ring[j], key)
              \/ k = 1 /\ \A j \in 1 .. Len(ring) : ~NotBelow(ring[j], key)
<1>. DEFINE I == {i \in 1 .. Len(ring) : NotBelow(ring[i], key)}
<1>1. Lookup(ring, key) = IF (IF I # {} THEN Min(I) ELSE 0) = 0 THEN ring[1]
                          ELSE ring[IF I # {} THEN Min(I) ELSE 0]
  BY Zenon DEF Lookup, SelectInSeq
<1>2. CASE I = {}
  <2>1. Lookup(ring, key) = ring[1]
    BY <1>1, <1>2
  <2>2. 1 \in 1 .. Len(ring) /\ \A j \in 1 .. Len(ring) : ~NotBelow(ring[j], key)
    BY <1>2
  <2>. QED BY <2>1, <2>2
<1>3. CASE I # {}
  <2>1. Min(I) \in I /\ \A j \in I : Min(I) <= j
    <3>. I \in SUBSET Nat
      OBVIOUS
    <3>. HIDE DEF I
    <3>. QED BY <1>3, MinOfNats
  <2>2. PICK m \in I : Min(I) = m
    BY <2>1
  <2>3. Lookup(ring, key) = ring[m]
    BY <1>1, <1>3, <2>2
  <2>4. \A j \in 1 .. m - 1 : ~NotBelow(ring[j], key)
    BY <2>1, <2>2
  <2>. QED BY <2>3, <2>4
<1>. QED BY <1>2, <1>3

\* On a sorted ring the first element found is the successor of the key.
LEMMA LookupFindsSuccessor ==
  ASSUME NEW ring \in Seq(ServerInfo), ring # <<>>, Sorted(ring), NEW key \in Nat
  PROVE  IsSuccessor(Lookup(ring, key), ToSet(ring), key)
<1>1. PICK k \in 1 .. Len(ring) :
        /\ Lookup(ring, key) = ring[k]
        /\ \/ NotBelow(ring[k], key) /\ \A j \in 1 .. k - 1 : ~NotBelow(ring[j], key)
           \/ k = 1 /\ \A j \in 1 .. Len(ring) : ~NotBelow(ring[j], key)
  BY LookupFindsFirst
<1>2. \A j \in 1 .. Len(ring) : ring[j] \in ServerInfo /\ ring[j].hash \in Nat
  <2>1. \A j \in 1 .. Len(ring) : ring[j] \in ServerInfo
    BY ElementOfSeq
  <2>. QED BY <2>1 DEF ServerInfo
<1>3. \A i, j \in 1 .. Len(ring) : i < j => ring[i].hash <= ring[j].hash
  <2>1. \A i, j \in 1 .. Len(ring) : i < j => ~(ring[j].hash < ring[i].hash)
    BY Zenon DEF Sorted, IsSorted, cmp
  <2>. QED BY <1>2, <2>1
<1>4. ToSet(ring) = {ring[j] : j \in 1 .. Len(ring)}
  BY DEF ToSet
<1>. DEFINE after == {m \in ToSet(ring) : key <= m.hash}
<1>5. CASE NotBelow(ring[k], key) /\ \A j \in 1 .. k - 1 : ~NotBelow(ring[j], key)
  <2>1. ring[k] \in after
    BY <1>4, <1>5 DEF NotBelow
  <2>2. ASSUME NEW m \in after PROVE ring[k].hash <= m.hash
    <3>1. PICK j \in 1 .. Len(ring) : m = ring[j]
      BY <1>4
    <3>2. ~(j \in 1 .. k - 1)
      BY <1>5, <3>1 DEF NotBelow
    <3>. QED BY <1>2, <1>3, <3>1, <3>2
  <2>. QED BY <1>1, <2>1, <2>2 DEF IsSuccessor
<1>6. CASE k = 1 /\ \A j \in 1 .. Len(ring) : ~NotBelow(ring[j], key)
  <2>1. after = {}
    BY <1>4, <1>6 DEF NotBelow
  <2>2. ASSUME NEW m \in ToSet(ring) PROVE ring[k].hash <= m.hash
    <3>1. PICK j \in 1 .. Len(ring) : m = ring[j]
      BY <1>4
    <3>. QED BY <1>2, <1>3, <1>6, <3>1
  <2>3. ring[k] \in ToSet(ring)
    BY <1>4
  <2>. QED BY <1>1, <2>1, <2>2, <2>3 DEF IsSuccessor
<1>. QED BY <1>1, <1>5, <1>6

-----------------------------------------------------------------------------
(***************************************************************************)
(* The replicas of a block.                                                *)
(***************************************************************************)
DistinctAddresses(servers) ==
  \A j, k \in DOMAIN servers : servers[j].address = servers[k].address => j = k

\* Placing one more replica keeps the addresses distinct.
LEMMA PlaceDistinct ==
  ASSUME NEW servers \in Seq(ServerInfo), DistinctAddresses(servers),
         NEW s \in ServerInfo
  PROVE  /\ Place(servers, s) \in Seq(ServerInfo)
         /\ DistinctAddresses(Place(servers, s))
         /\ Place(servers, s) # <<>>
<1>1. CASE Stored(servers, s)
  BY <1>1 DEF Place, Stored
<1>2. CASE ~Stored(servers, s)
  <2>1. Place(servers, s) = Append(servers, s)
    BY <1>2 DEF Place
  <2>2. /\ Append(servers, s) \in Seq(ServerInfo)
        /\ Len(Append(servers, s)) = Len(servers) + 1
        /\ DOMAIN Append(servers, s) = 1 .. Len(servers) + 1
        /\ \A k \in 1 .. Len(servers) : Append(servers, s)[k] = servers[k]
        /\ Append(servers, s)[Len(servers) + 1] = s
    OBVIOUS
  <2>3. \A k \in 1 .. Len(servers) : servers[k].address # s.address
    BY <1>2 DEF Stored
  <2>4. DistinctAddresses(Append(servers, s))
    BY <2>2, <2>3 DEF DistinctAddresses
  <2>. QED BY <2>1, <2>2, <2>4
<1>. QED BY <1>1, <1>2

\* The servers of a block, one for each replica number.
Lookups(ring, file, blockIdx) ==
  {Lookup(ring, ReplicaHash(file, blockIdx, n)) : n \in 0 .. backupNum - 1}

\* A lookup answers with a server of the ring.
LEMMA LookupsAreServers ==
  ASSUME NEW ring \in Seq(ServerInfo), ring # <<>>, NEW file, NEW blockIdx, NEW n
  PROVE  /\ Lookup(ring, ReplicaHash(file, blockIdx, n)) \in ServerInfo
         /\ Lookup(ring, ReplicaHash(file, blockIdx, n)) \in ToSet(ring)
<1>. DEFINE key == ReplicaHash(file, blockIdx, n)
<1>. HIDE DEF key
<1>1. PICK k \in 1 .. Len(ring) : Lookup(ring, key) = ring[k]
  BY LookupFindsFirst
<1>2. ring[k] \in ServerInfo /\ ring[k] \in ToSet(ring)
  BY ElementOfSeq, LenProperties DEF ToSet
<1>. QED BY <1>1, <1>2 DEF key

\* The loop over the replica numbers: what is kept after each of them.
KeptByNumber(kept, ring, file, blockIdx) ==
  /\ Replicas(ring, file, blockIdx) = kept[backupNum]
  /\ kept[0] = <<>>
  /\ \A n \in 1 .. backupNum :
       kept[n] = Place(kept[n - 1], Lookup(ring, ReplicaHash(file, blockIdx, n - 1)))
  /\ \A n \in 0 .. backupNum : kept[n] \in Seq(ServerInfo) /\ DistinctAddresses(kept[n])

\* The loop of beginPutTransaction over the replica numbers ends with such lists.
LEMMA ReplicasByNumber ==
  ASSUME NEW ring \in Seq(ServerInfo), ring # <<>>, NEW file, NEW blockIdx
  PROVE  \E kept : KeptByNumber(kept, ring, file, blockIdx)
<1>. DEFINE S == {q \in Seq(ServerInfo) : DistinctAddresses(q)}
            found(n) == Lookup(ring, ReplicaHash(file, blockIdx, n - 1))
            step == [p \in S \X (1 .. backupNum) |-> Place(p[1], found(p[2]))]
            Is(g) == g = [n \in 0 .. backupNum |->
                            IF n = 0 THEN <<>> ELSE Place(g[n - 1], found(n))]
            kept == CHOOSE g : Is(g)
<1>1. \A n : found(n) \in ServerInfo
  BY LookupsAreServers
<1>2. \A q \in S : \A n : Place(q, found(n)) \in S
  <2>. TAKE q \in S
  <2>. TAKE n
  <2>. HIDE DEF found
  <2>. QED BY <1>1, PlaceDistinct
<1>3. <<>> \in S
  BY DEF DistinctAddresses
<1>4. backupNum \in Nat /\ backupNum # 0
  BY PlacementAssumption
<1>5. step \in Steps(backupNum, S)
  <2>1. ASSUME NEW p \in S \X (1 .. backupNum) PROVE Place(p[1], found(p[2])) \in S
    <3>. HIDE DEF S, found
    <3>. QED BY <1>2, p[1] \in S
  <2>. HIDE DEF S, found
  <2>. QED BY <2>1 DEF Steps
<1>6. \E g \in [0 .. backupNum -> S] : Is(g)
  <2>1. PICK g \in [0 .. backupNum -> S] :
          g[0] = <<>> /\ \A n \in 1 .. backupNum : g[n] = step[<<g[n - 1], n>>]
    <3>. DEFINE first == <<>>
    <3>1. first \in S
      BY <1>3
    <3>. HIDE DEF S, step, found, first
    <3>2. Solutions(backupNum, S, first, step) # {}
      BY <1>4, <1>5, <3>1, Recursion
    <3>. QED BY <3>2 DEF first, Solutions, Solves
  <2>2. ASSUME NEW n \in 1 .. backupNum
        PROVE  step[<<g[n - 1], n>>] = Place(g[n - 1], found(n))
    <3>. HIDE DEF S, found
    <3>1. g[n - 1] \in S
      BY <1>4, n - 1 \in 0 .. backupNum
    <3>. QED BY <3>1
  <2>3. ASSUME NEW n \in 0 .. backupNum, n # 0
        PROVE  g[n] = Place(g[n - 1], found(n))
    <3>. HIDE DEF S, step, found
    <3>. QED BY <1>4, <2>1, <2>2, <2>3, n \in 1 .. backupNum
  <2>4. Is(g)
    <3>. HIDE DEF S, step, found
    <3>. QED BY <2>1, <2>3
  <2>. HIDE DEF Is, S
  <2>. QED BY <2>4
<1>7. Is(kept)
  <2>. HIDE DEF Is, S
  <2>. QED BY <1>6
<1>8. \A n \in 0 .. backupNum : kept[n] \in S
  <2>. DEFINE Good == {n \in 0 .. backupNum : kept[n] \in S}
  <2>1. \A n \in 0 .. backupNum :
          kept[n] = IF n = 0 THEN <<>> ELSE Place(kept[n - 1], found(n))
    <3>. HIDE DEF kept, found
    <3>. QED BY <1>7
  <2>. HIDE DEF S, kept, found, Is
  <2>2. 0 \in Good
    <3>1. 0 \in 0 .. backupNum
      BY <1>4
    <3>2. kept[0] = <<>>
      BY <2>1, <3>1
    <3>. QED BY <1>3, <3>1, <3>2
  <2>3. ASSUME NEW n \in 1 .. backupNum, n - 1 \in Good PROVE n \in Good
    BY <1>2, <1>4, <2>1, <2>3
  <2>. QED
    <3>. HIDE DEF Good
    <3>1. \A n \in 0 .. backupNum : n \in Good
      BY <1>4, <2>2, <2>3, UpTo
    <3>. QED BY <3>1 DEF Good
<1>9. Replicas(ring, file, blockIdx) = kept[backupNum]
  BY Zenon DEF Replicas
<1>10. kept[0] = <<>> /\ \A n \in 1 .. backupNum : kept[n] = Place(kept[n - 1], found(n))
  <2>. HIDE DEF kept, found
  <2>. QED BY <1>4, <1>7
<1>11. KeptByNumber(kept, ring, file, blockIdx)
  <2>. HIDE DEF kept
  <2>. QED BY <1>8, <1>9, <1>10 DEF KeptByNumber
<1>. QED BY <1>11

\* A block's replicas lie on distinct servers, on one at least, whatever the
\* servers the replica numbers hash to.
LEMMA ReplicasDistinct ==
  ASSUME NEW ring \in Seq(ServerInfo), ring # <<>>, NEW file, NEW blockIdx
  PROVE  /\ Replicas(ring, file, blockIdx) \in Seq(ServerInfo)
         /\ DistinctAddresses(Replicas(ring, file, blockIdx))
         /\ Replicas(ring, file, blockIdx) # <<>>
<1>. DEFINE found(n) == Lookup(ring, ReplicaHash(file, blockIdx, n - 1))
<1>. PICK kept : KeptByNumber(kept, ring, file, blockIdx)
  BY ReplicasByNumber
<1>1. /\ Replicas(ring, file, blockIdx) = kept[backupNum]
      /\ \A n \in 1 .. backupNum : kept[n] = Place(kept[n - 1], found(n))
      /\ \A n \in 0 .. backupNum :
           kept[n] \in Seq(ServerInfo) /\ DistinctAddresses(kept[n])
  BY DEF KeptByNumber
<1>2. backupNum \in 1 .. backupNum /\ backupNum - 1 \in 0 .. backupNum
      /\ backupNum \in 0 .. backupNum
  BY PlacementAssumption
<1>3. found(backupNum) \in ServerInfo
  BY LookupsAreServers
<1>. HIDE DEF found
<1>4. kept[backupNum] = Place(kept[backupNum - 1], found(backupNum))
  BY <1>1, <1>2
<1>5. kept[backupNum] # <<>>
  BY <1>1, <1>2, <1>3, <1>4, PlaceDistinct
<1>. QED BY <1>1, <1>2, <1>5

\* On a ring that has one ServerInfo for an address, what is placed is there.
OneEach(ring) ==
  \A s, t \in ToSet(ring) : s.address = t.address => s = t

\* What Place adds to the servers of a block.
LEMMA PlaceAdds ==
  ASSUME NEW servers \in Seq(ServerInfo), NEW s \in ServerInfo,
         \A t \in ToSet(servers) : t.address = s.address => t = s
  PROVE  ToSet(Place(servers, s)) = ToSet(servers) \cup {s}
<1>1. DOMAIN servers = 1 .. Len(servers) /\ Len(servers) \in Nat
  BY LenProperties
<1>2. CASE Stored(servers, s)
  <2>1. s \in ToSet(servers)
    BY <1>1, <1>2 DEF Stored, ToSet
  <2>2. Place(servers, s) = servers
    BY <1>2 DEF Place
  <2>. QED BY <2>1, <2>2
<1>3. CASE ~Stored(servers, s)
  <2>1. Place(servers, s) = Append(servers, s)
    BY <1>3 DEF Place
  <2>. QED BY <2>1, ListMembers
<1>. QED BY <1>2, <1>3

\* Then the replicas of a block are on the servers of its replica numbers, on
\* every one of them.
LEMMA ReplicasAreLookups ==
  ASSUME NEW ring \in Seq(ServerInfo), ring # <<>>, OneEach(ring),
         NEW file, NEW blockIdx
  PROVE  ToSet(Replicas(ring, file, blockIdx)) = Lookups(ring, file, blockIdx)
<1>. DEFINE found(n) == Lookup(ring, ReplicaHash(file, blockIdx, n))
            Upto(n) == {found(m) : m \in 0 .. n - 1}
<1>. PICK kept : KeptByNumber(kept, ring, file, blockIdx)
  BY ReplicasByNumber
<1>1. /\ Replicas(ring, file, blockIdx) = kept[backupNum]
      /\ kept[0] = <<>>
      /\ \A n \in 1 .. backupNum : kept[n] = Place(kept[n - 1], found(n - 1))
      /\ \A n \in 0 .. backupNum : kept[n] \in Seq(ServerInfo)
  BY DEF KeptByNumber
<1>2. backupNum \in Nat
  BY PlacementAssumption
<1>3. \A n : found(n) \in ServerInfo /\ found(n) \in ToSet(ring)
  BY LookupsAreServers
<1>. DEFINE Good == {n \in 0 .. backupNum : ToSet(kept[n]) = Upto(n)}
<1>4. 0 \in Good
  <2>1. ToSet(kept[0]) = {}
    BY <1>1 DEF ToSet
  <2>2. Upto(0) = {}
    OBVIOUS
  <2>. QED BY <1>2, <2>1, <2>2
<1>5. ASSUME NEW n \in 1 .. backupNum, n - 1 \in Good PROVE n \in Good
  <2>. HIDE DEF found
  <2>1. ToSet(kept[n - 1]) = Upto(n - 1)
    BY <1>5
  <2>2. Upto(n) = Upto(n - 1) \cup {found(n - 1)}
    <3>1. 0 .. n - 1 = (0 .. n - 2) \cup {n - 1}
      BY <1>2
    <3>. QED BY <3>1
  <2>3. \A t \in ToSet(kept[n - 1]) : t.address = found(n - 1).address => t = found(n - 1)
    BY <1>3, <2>1 DEF OneEach
  <2>4. kept[n - 1] \in Seq(ServerInfo)
    BY <1>1, <1>2, n - 1 \in 0 .. backupNum
  <2>. HIDE DEF Upto
  <2>5. ToSet(Place(kept[n - 1], found(n - 1))) = ToSet(kept[n - 1]) \cup {found(n - 1)}
    BY <1>3, <2>3, <2>4, PlaceAdds
  <2>6. kept[n] = Place(kept[n - 1], found(n - 1))
    BY <1>1
  <2>7. ToSet(kept[n]) = Upto(n)
    BY <2>1, <2>2, <2>5, <2>6
  <2>. QED BY <1>2, <2>7
<1>6. \A n \in 0 .. backupNum : n \in Good
  <2>. HIDE DEF Good
  <2>. QED BY <1>2, <1>4, <1>5, UpTo
<1>7. backupNum \in Good
  <2>. HIDE DEF Good
  <2>. QED BY <1>2, <1>6
<1>. QED BY <1>1, <1>7 DEF Lookups

-----------------------------------------------------------------------------
(***************************************************************************)
(* The storeList of a file.                                                *)
(***************************************************************************)

\* The entries of one block: alike but for their servers, which are distinct.
OneBlock(stores, blockIdx) ==
  /\ stores \in Seq(BlockStore) /\ stores # <<>>
  /\ \A k \in 1 .. Len(stores) : stores[k].blockIdx = blockIdx
  /\ \A j, k \in 1 .. Len(stores) :
       /\ stores[j].blockSize = stores[k].blockSize
       /\ stores[j].blockHash = stores[k].blockHash
       /\ stores[j].server.address = stores[k].server.address => j = k

\* What is made of the replicas of a block.
LEMMA BlockStoresAreOneBlock ==
  ASSUME NEW ring \in Seq(ServerInfo), ring # <<>>, NEW file,
         NEW blockIdx \in Nat, NEW size \in Nat
  PROVE  OneBlock(BlockStores(ring, file, blockIdx, size), blockIdx)
<1>. DEFINE r == Replicas(ring, file, blockIdx)
            entry(k) == [blockIdx |-> blockIdx, blockSize |-> size,
                         blockHash |-> NoHash, server |-> r[k]]
            b == [k \in 1 .. Len(r) |-> entry(k)]
<1>1. r \in Seq(ServerInfo) /\ DistinctAddresses(r) /\ r # <<>>
  BY ReplicasDistinct
<1>. HIDE DEF r
<1>2. DOMAIN r = 1 .. Len(r) /\ Len(r) \in Nat
  BY <1>1, LenProperties
<1>3. BlockStores(ring, file, blockIdx, size) = b
  BY <1>2, Zenon DEF BlockStores, r
<1>4. \A k \in 1 .. Len(r) : entry(k) \in BlockStore
  <2>. TAKE k \in 1 .. Len(r)
  <2>1. r[k] \in ServerInfo
    BY <1>1, ElementOfSeq
  <2>. QED BY <2>1 DEF BlockStore
<1>5. b \in Seq(BlockStore)
  <2>. HIDE DEF entry
  <2>. QED BY <1>2, <1>4, IsASeq
<1>6. Len(b) = Len(r) /\ b # <<>>
  BY <1>1, <1>2, <1>5, LenProperties
<1>7. \A k \in 1 .. Len(r) :
        /\ b[k].blockIdx = blockIdx /\ b[k].blockSize = size
        /\ b[k].blockHash = NoHash /\ b[k].server = r[k]
  OBVIOUS
<1>8. \A j, k \in 1 .. Len(r) : r[j].address = r[k].address => j = k
  BY <1>1, <1>2 DEF DistinctAddresses
<1>. HIDE DEF b
<1>. QED BY <1>3, <1>5, <1>6, <1>7, <1>8 DEF OneBlock

\* A storeList with the blocks 0 .. n-1.
Blocks(list, n) ==
  /\ list \in Seq(BlockStore) /\ WellFormed(list)
  /\ \A k \in 1 .. Len(list) : list[k].blockIdx < n
  /\ IF list = <<>> THEN n = 0 ELSE list[Len(list)].blockIdx = n - 1

\* One more block at its end.
LEMMA NextBlock ==
  ASSUME NEW list, NEW n \in Nat, Blocks(list, n),
         NEW b, OneBlock(b, n)
  PROVE  Blocks(list \o b, n + 1)
<1>. DEFINE L == Len(list)
            M == Len(b)
            s == list \o b
<1>1. /\ list \in Seq(BlockStore) /\ b \in Seq(BlockStore)
      /\ L \in Nat /\ M \in Nat /\ M # 0
      /\ DOMAIN list = 1 .. L
      /\ L = 0 <=> list = <<>>
  BY LenProperties, EmptySeq DEF Blocks, OneBlock
<1>0. /\ \A j, k \in 1 .. L : list[j].blockIdx = list[k].blockIdx =>
           /\ list[j].server.address = list[k].server.address => j = k
           /\ list[j].blockSize = list[k].blockSize
           /\ list[j].blockHash = list[k].blockHash
      /\ \A k \in 1 .. L - 1 :
           list[k + 1].blockIdx \in {list[k].blockIdx, list[k].blockIdx + 1}
  <2>1. Contiguous(list) /\ DistinctReplicas(list) /\ ReplicasAgree(list)
    BY DEF Blocks, WellFormed
  <2>2. DOMAIN list = 1 .. L
    BY <1>1
  <2>3. \A k \in 1 .. L - 1 :
           list[k + 1].blockIdx \in {list[k].blockIdx, list[k].blockIdx + 1}
    BY <2>1, Zenon DEF Contiguous
  <2>. QED BY <2>1, <2>2, <2>3 DEF DistinctReplicas, ReplicasAgree
<1>2. /\ s \in Seq(BlockStore) /\ Len(s) = L + M /\ DOMAIN s = 1 .. L + M
      /\ \A k \in 1 .. L : s[k] = list[k]
      /\ \A k \in L + 1 .. L + M : s[k] = b[k - L] /\ k - L \in 1 .. M
  BY <1>1, ConcatProperties, LenProperties
<1>3. \A k \in 1 .. L : list[k].blockIdx \in Nat /\ list[k].blockIdx < n
  <2>. TAKE k \in 1 .. L
  <2>1. list[k] \in BlockStore
    BY <1>1, ElementOfSeq
  <2>. QED BY <2>1 DEF Blocks, BlockStore
<1>4. \A k \in L + 1 .. L + M : s[k].blockIdx = n
  BY <1>2 DEF OneBlock
<1>. HIDE DEF s, L, M
<1>5. Contiguous(s)
  <2>1. s[1].blockIdx = 0
    <3>1. CASE list = <<>>
      BY <1>1, <1>4, <3>1 DEF Blocks
    <3>2. CASE list # <<>>
      BY <1>1, <1>2, <3>2 DEF Blocks, WellFormed, Contiguous
    <3>. QED BY <3>1, <3>2
  <2>2. ASSUME NEW k \in 1 .. L + M - 1
        PROVE  s[k + 1].blockIdx \in {s[k].blockIdx, s[k].blockIdx + 1}
    <3>1. CASE k < L
      BY <1>0, <1>1, <1>2, <3>1, k \in 1 .. L - 1, k \in 1 .. L, k + 1 \in 1 .. L
    <3>2. CASE k = L
      <4>1. list[L].blockIdx = n - 1
        BY <1>1, <3>2 DEF Blocks, L
      <4>2. s[k].blockIdx = n - 1 /\ s[k + 1].blockIdx = n
        BY <1>1, <1>2, <1>4, <3>2, <4>1, k \in 1 .. L, k + 1 \in L + 1 .. L + M
      <4>. QED BY <4>2
    <3>3. CASE k > L
      BY <1>1, <1>4, <3>3
    <3>. QED BY <1>1, <3>1, <3>2, <3>3
  <2>3. ASSUME NEW k \in 1 .. Len(s) - 1
        PROVE  s[k + 1].blockIdx \in {s[k].blockIdx, s[k].blockIdx + 1}
    <3>1. Len(s) = L + M
      BY <1>2
    <3>2. k \in 1 .. L + M - 1
      BY <1>1, <3>1
    <3>. QED BY <2>2, <3>2, Zenon
  <2>. QED BY <2>1, <2>3, Zenon DEF Contiguous
<1>6. ASSUME NEW j \in 1 .. L + M, NEW k \in 1 .. L + M,
             s[j].blockIdx = s[k].blockIdx
      PROVE  /\ s[j].server.address = s[k].server.address => j = k
             /\ s[j].blockSize = s[k].blockSize
             /\ s[j].blockHash = s[k].blockHash
  <2>1. CASE j \in 1 .. L /\ k \in 1 .. L
    BY <1>0, <1>2, <1>6, <2>1
  <2>2. CASE j \in L + 1 .. L + M /\ k \in L + 1 .. L + M
    <3>1. /\ j - L \in 1 .. M /\ k - L \in 1 .. M
          /\ s[j] = b[j - L] /\ s[k] = b[k - L]
      BY <1>2, <2>2
    <3>2. j - L = k - L => j = k
      BY <1>1
    <3>. QED BY <3>1, <3>2 DEF OneBlock, M
  <2>3. CASE j \in 1 .. L /\ k \in L + 1 .. L + M
    BY <1>2, <1>3, <1>4, <1>6, <2>3
  <2>4. CASE j \in L + 1 .. L + M /\ k \in 1 .. L
    BY <1>2, <1>3, <1>4, <1>6, <2>4
  <2>. QED BY <1>1, <2>1, <2>2, <2>3, <2>4
<1>7. WellFormed(s)
  BY <1>2, <1>5, <1>6 DEF WellFormed, DistinctReplicas, ReplicasAgree
<1>8. \A k \in 1 .. L + M : s[k].blockIdx < n + 1
  BY <1>1, <1>2, <1>3, <1>4
<1>9. s[L + M].blockIdx = n /\ s # <<>>
  BY <1>1, <1>2, <1>4, EmptySeq
<1>. QED BY <1>2, <1>7, <1>8, <1>9 DEF Blocks, s

\* A block has a size of its own, and no more than remains.
LEMMA NextSizeFits ==
  \A m \in Nat : m # 0 => NextSize(m) \in Nat /\ NextSize(m) <= m /\ NextSize(m) # 0
BY PlacementAssumption DEF NextSize

\* The state of the loop of beginPutTransaction, and a round of it.
SplitState == [remain : Nat, list : Seq(BlockStore)]

AfterBlock(ring, file, state, n) ==
  IF state.remain = 0 THEN state
  ELSE [remain |-> state.remain - NextSize(state.remain),
        list |-> state.list \o BlockStores(ring, file, n - 1, NextSize(state.remain))]

\* The states of the loop, from the first to the one it ends with.
IsSplit(ring, file, size, split) ==
  /\ StoreList(ring, file, size) = split[size].list
  /\ split[0] = [remain |-> size, list |-> <<>>]
  /\ \A n \in 1 .. size : split[n] = AfterBlock(ring, file, split[n - 1], n)
  /\ \A n \in 0 .. size : split[n] \in SplitState

\* The loop, round by round.
LEMMA StoreListByBlock ==
  ASSUME NEW ring \in Seq(ServerInfo), NEW file, NEW size \in Nat,
         ring # <<>> \/ size = 0
  PROVE  \E split : IsSplit(ring, file, size, split)
<1>. DEFINE first == [remain |-> size, list |-> <<>>]
            After(state, n) == AfterBlock(ring, file, state, n)
            step == [p \in SplitState \X (1 .. size) |-> After(p[1], p[2])]
            Is(g) == g = [n \in 0 .. size |->
                            IF n = 0 THEN first ELSE After(g[n - 1], n)]
            split == CHOOSE g : Is(g)
<1>. USE DEF SplitState, AfterBlock
<1>1. \A m \in Nat : m # 0 => NextSize(m) \in Nat /\ NextSize(m) <= m
  BY NextSizeFits
<1>2. ASSUME NEW n \in 1 .. size, NEW state \in SplitState, state.remain # 0
      PROVE  OneBlock(BlockStores(ring, file, n - 1, NextSize(state.remain)), n - 1)
  <2>1. ring # <<>>
    OBVIOUS
  <2>2. NextSize(state.remain) \in Nat
    BY <1>1, <1>2
  <2>. QED BY <2>1, <2>2, BlockStoresAreOneBlock, n - 1 \in Nat
<1>3. ASSUME NEW n \in 1 .. size, NEW state \in SplitState
      PROVE  After(state, n) \in SplitState
  <2>. DEFINE b == BlockStores(ring, file, n - 1, NextSize(state.remain))
  <2>1. CASE state.remain = 0
    BY <2>1
  <2>2. CASE state.remain # 0
    <3>1. b \in Seq(BlockStore)
      BY <1>2, <2>2 DEF OneBlock
    <3>2. state.remain - NextSize(state.remain) \in Nat
      BY <1>1, <2>2
    <3>. HIDE DEF b
    <3>3. state.list \o b \in Seq(BlockStore)
      BY <3>1, ConcatProperties
    <3>. QED BY <2>2, <3>2, <3>3 DEF b
  <2>. QED BY <2>1, <2>2
<1>4. first \in SplitState
  BY EmptySeq
<1>5. step \in Steps(size, SplitState)
  <2>1. ASSUME NEW p \in SplitState \X (1 .. size) PROVE After(p[1], p[2]) \in SplitState
    <3>1. p[1] \in SplitState /\ p[2] \in 1 .. size
      OBVIOUS
    <3>. HIDE DEF After
    <3>. QED BY <1>3, <3>1
  <2>. HIDE DEF After
  <2>. QED BY <2>1 DEF Steps
<1>6. \E g \in [0 .. size -> SplitState] : Is(g)
  <2>. HIDE DEF After, first
  <2>1. PICK g \in [0 .. size -> SplitState] :
          g[0] = first /\ \A n \in 1 .. size : g[n] = step[<<g[n - 1], n>>]
    <3>. HIDE DEF step
    <3>1. Solutions(size, SplitState, first, step) # {}
      BY <1>4, <1>5, Recursion
    <3>. QED BY <3>1 DEF Solutions, Solves
  <2>2. ASSUME NEW n \in 1 .. size
        PROVE  step[<<g[n - 1], n>>] = After(g[n - 1], n)
    <3>1. g[n - 1] \in SplitState
      BY n - 1 \in 0 .. size
    <3>. QED BY <3>1
  <2>3. ASSUME NEW n \in 0 .. size, n # 0
        PROVE  g[n] = After(g[n - 1], n)
    <3>. HIDE DEF step
    <3>. QED BY <2>1, <2>2, <2>3, n \in 1 .. size
  <2>4. Is(g)
    BY <2>1, <2>3
  <2>. HIDE DEF Is
  <2>. QED BY <2>4
<1>7. /\ split[0] = first
      /\ \A n \in 1 .. size : split[n] = After(split[n - 1], n)
  <2>1. Is(split)
    <3>. HIDE DEF Is
    <3>. QED BY <1>6
  <2>. HIDE DEF split, After, first
  <2>. QED BY <2>1
<1>8. StoreList(ring, file, size) = split[size].list
  BY Zenon DEF StoreList, AfterBlock
<1>. HIDE DEF split
<1>9. \A n \in 0 .. size : split[n] \in SplitState
  <2>. HIDE DEF After, first
  <2>. DEFINE G == {n \in 0 .. size : split[n] \in SplitState}
  <2>1. 0 \in G
    BY <1>4, <1>7
  <2>2. ASSUME NEW n \in 1 .. size, n - 1 \in G PROVE n \in G
    <3>1. split[n] = After(split[n - 1], n)
      BY <1>7
    <3>. HIDE DEF SplitState
    <3>. QED BY <1>3, <2>2, <3>1
  <2>. HIDE DEF G
  <2>3. \A n \in 0 .. size : n \in G
    BY <2>1, <2>2, UpTo
  <2>. QED BY <2>3 DEF G
<1>. QED BY <1>7, <1>8, <1>9 DEF IsSplit

\* The loop of beginPutTransaction, whatever the ring and the size: the storeList
\* it ends with has the shape that the other handlers and the clients walk over.
\* Only a put of an empty file may do without a registered server.
THEOREM StoreListWellFormed ==
  ASSUME NEW ring \in Seq(ServerInfo), NEW file, NEW size \in Nat,
         ring # <<>> \/ size = 0
  PROVE  /\ StoreList(ring, file, size) \in Seq(BlockStore)
         /\ WellFormed(StoreList(ring, file, size))
<1>. DEFINE Good(state, n) ==
              /\ WellFormed(state.list)
              /\ state.remain # 0 => Blocks(state.list, n)
<1>0. PICK split : IsSplit(ring, file, size, split)
  BY StoreListByBlock
<1>1. /\ StoreList(ring, file, size) = split[size].list
      /\ split[0] = [remain |-> size, list |-> <<>>]
      /\ \A n \in 1 .. size : split[n] = AfterBlock(ring, file, split[n - 1], n)
      /\ \A n \in 0 .. size : split[n] \in SplitState
  BY <1>0 DEF IsSplit
<1>2. Good(split[0], 0)
  <2>1. Blocks(<<>>, 0)
    BY EmptySeq DEF Blocks, WellFormed, Contiguous, DistinctReplicas, ReplicasAgree
  <2>2. WellFormed(<<>>)
    BY <2>1 DEF Blocks
  <2>. QED BY <1>1, <2>1, <2>2
<1>3. ASSUME NEW n \in 1 .. size, Good(split[n - 1], n - 1)
      PROVE  Good(split[n], n)
  <2>. DEFINE before == split[n - 1]
              b == BlockStores(ring, file, n - 1, NextSize(before.remain))
  <2>1. split[n] = AfterBlock(ring, file, before, n)
    BY <1>1
  <2>2. CASE before.remain = 0
    <3>1. split[n] = before
      BY <2>1, <2>2 DEF AfterBlock
    <3>. QED BY <1>3, <2>2, <3>1
  <2>3. CASE before.remain # 0
    <3>1. before.remain \in Nat
      BY <1>1, n - 1 \in 0 .. size DEF SplitState
    <3>2. OneBlock(b, n - 1)
      <4>. PICK i, s : i = n - 1 /\ s = NextSize(before.remain)
        OBVIOUS
      <4>. HIDE DEF before
      <4>1. i \in Nat /\ s \in Nat
        BY <2>3, <3>1, NextSizeFits
      <4>2. ring \in Seq(ServerInfo) /\ ring # <<>>
        OBVIOUS
      <4>3. OneBlock(BlockStores(ring, file, i, s), i)
        BY ONLY <4>1, <4>2, BlockStoresAreOneBlock
      <4>. QED BY <4>3
    <3>3. split[n].list = before.list \o b
      <4>. HIDE DEF before
      <4>1. AfterBlock(ring, file, before, n) =
              [remain |-> before.remain - NextSize(before.remain),
               list |-> before.list \o b]
        BY <2>3 DEF AfterBlock
      <4>. HIDE DEF b
      <4>. QED BY <2>1, <4>1
    <3>4. Blocks(before.list, n - 1)
      BY <1>3, <2>3
    <3>. HIDE DEF b, before
    <3>5. Blocks(before.list \o b, (n - 1) + 1)
      BY <3>2, <3>4, NextBlock, n - 1 \in Nat
    <3>6. Blocks(split[n].list, n)
      BY <3>3, <3>5, (n - 1) + 1 = n
    <3>. QED BY <3>6 DEF Blocks
  <2>. QED BY <2>2, <2>3
<1>4. Good(split[size], size)
  <2>. DEFINE G == {n \in 0 .. size : Good(split[n], n)}
  <2>. HIDE DEF Good
  <2>1. 0 \in G
    BY <1>2
  <2>2. \A n \in 1 .. size : n - 1 \in G => n \in G
    BY <1>3
  <2>. HIDE DEF G
  <2>3. \A n \in 0 .. size : n \in G
    BY <2>1, <2>2, UpTo
  <2>. QED BY <2>3 DEF G
<1>. QED BY <1>1, <1>4 DEF SplitState

-----------------------------------------------------------------------------
(***************************************************************************)
(* What the storeList of a file is, entry by entry.                        *)
(***************************************************************************)

\* The part of a file that is its block i.
PieceSize(size, i) ==
  IF size - i * maxBlockSize > maxBlockSize THEN maxBlockSize ELSE size - i * maxBlockSize

\* The entries of the first n blocks: one for each block and each server that a
\* replica number of it leads to.
AskedFor(ring, file, size, n) ==
  {e \in BlockStore :
     /\ e.blockIdx < n /\ e.blockIdx * maxBlockSize < size
     /\ e.blockSize = PieceSize(size, e.blockIdx)
     /\ e.blockHash = NoHash
     /\ e.server \in Lookups(ring, file, e.blockIdx)}

\* The entries of one block.
LEMMA BlockStoresMembers ==
  ASSUME NEW ring \in Seq(ServerInfo), ring # <<>>, OneEach(ring), NEW file,
         NEW blockIdx \in Nat, NEW size \in Nat
  PROVE  ToSet(BlockStores(ring, file, blockIdx, size)) =
           {e \in BlockStore :
              /\ e.blockIdx = blockIdx /\ e.blockSize = size /\ e.blockHash = NoHash
              /\ e.server \in Lookups(ring, file, blockIdx)}
<1>. DEFINE r == Replicas(ring, file, blockIdx)
            entry(s) == [blockIdx |-> blockIdx, blockSize |-> size,
                         blockHash |-> NoHash, server |-> s]
            b == [k \in DOMAIN r |-> entry(r[k])]
<1>1. r \in Seq(ServerInfo) /\ ToSet(r) = Lookups(ring, file, blockIdx)
  BY ReplicasDistinct, ReplicasAreLookups
<1>2. BlockStores(ring, file, blockIdx, size) = b
  BY Zenon DEF BlockStores
<1>. HIDE DEF r
<1>3. ToSet(r) = {r[k] : k \in DOMAIN r}
  BY DEF ToSet
<1>4. ToSet(b) = {entry(s) : s \in ToSet(r)}
  BY <1>3 DEF ToSet
<1>5. ToSet(r) \subseteq ServerInfo
  BY <1>1, <1>3, ElementOfSeq, LenProperties
<1>6. \A s \in ServerInfo : entry(s) \in BlockStore
  BY DEF BlockStore
<1>7. \A e \in BlockStore :
        e.blockIdx = blockIdx /\ e.blockSize = size /\ e.blockHash = NoHash
          => e = entry(e.server)
  BY DEF BlockStore
<1>. HIDE DEF b
<1>. QED BY <1>1, <1>2, <1>4, <1>5, <1>6, <1>7

\* The storeList that beginPutTransaction makes of a file is, as a set, exactly
\* the entries asked for; so no byte of the file is lost or stored as part of two
\* blocks, and no server of a replica number is left out.
THEOREM StoreListMembers ==
  ASSUME NEW ring \in Seq(ServerInfo), OneEach(ring), NEW file, NEW size \in Nat,
         ring # <<>> \/ size = 0
  PROVE  ToSet(StoreList(ring, file, size)) = AskedFor(ring, file, size, size)
<1>. DEFINE M == maxBlockSize
            Left(n) == IF n * M < size THEN size - n * M ELSE 0
<1>0. PICK split : IsSplit(ring, file, size, split)
  BY StoreListByBlock
<1>1. /\ StoreList(ring, file, size) = split[size].list
      /\ split[0] = [remain |-> size, list |-> <<>>]
      /\ \A n \in 1 .. size : split[n] = AfterBlock(ring, file, split[n - 1], n)
      /\ \A n \in 0 .. size : split[n] \in SplitState
  BY <1>0 DEF IsSplit
<1>2. M \in Nat \ {0}
  BY PlacementAssumption
<1>. HIDE DEF M
<1>. DEFINE Done(n) == /\ split[n].remain = Left(n)
                       /\ ToSet(split[n].list) = AskedFor(ring, file, size, n)
            Good == {n \in 0 .. size : Done(n)}
<1>3. 0 \in Good
  <2>1. AskedFor(ring, file, size, 0) = {}
    BY DEF AskedFor, BlockStore
  <2>2. Left(0) = size
    BY <1>2
  <2>3. ToSet(<<>>) = {}
    BY DEF ToSet
  <2>. HIDE DEF Left
  <2>4. split[0].remain = Left(0) /\ split[0].list = <<>>
    BY <1>1, <2>2
  <2>5. Done(0)
    BY <2>1, <2>3, <2>4
  <2>. HIDE DEF Done
  <2>. QED BY <2>5
<1>4. ASSUME NEW n \in 1 .. size, n - 1 \in Good PROVE n \in Good
  <2>. DEFINE before == split[n - 1]
              m == n - 1
              b == BlockStores(ring, file, m, NextSize(before.remain))
  <2>1. /\ before.remain = Left(m) /\ before.remain \in Nat
        /\ before.list \in Seq(BlockStore)
        /\ ToSet(before.list) = AskedFor(ring, file, size, m)
    BY <1>1, <1>4, m \in 0 .. size DEF SplitState
  <2>2. split[n] = AfterBlock(ring, file, before, n)
    BY <1>1
  <2>3. n * M = m * M + M /\ m \in Nat
    BY <1>2
  <2>4. CASE before.remain = 0
    <3>1. split[n] = before
      BY <2>2, <2>4 DEF AfterBlock
    <3>2. size <= m * M
      BY <1>2, <2>1, <2>3, <2>4
    <3>3. Left(n) = 0
      BY <1>2, <2>3, <3>2
    <3>4. AskedFor(ring, file, size, n) = AskedFor(ring, file, size, m)
      <4>1. ASSUME NEW e \in BlockStore
            PROVE  e \in AskedFor(ring, file, size, n) <=> e \in AskedFor(ring, file, size, m)
        <5>1. e.blockIdx \in Nat /\ (e.blockIdx < n <=> e.blockIdx < m \/ e.blockIdx = m)
          BY <2>3 DEF BlockStore
        <5>2. CASE e.blockIdx = m
          BY <2>3, <3>2, <5>2, <1>2 DEF AskedFor, M
        <5>3. CASE e.blockIdx # m
          BY <5>1, <5>3 DEF AskedFor
        <5>. QED BY <5>2, <5>3
      <4>. QED BY <4>1 DEF AskedFor
    <3>. QED BY <2>1, <2>4, <3>1, <3>3, <3>4
  <2>5. CASE before.remain # 0
    <3>1. m * M < size /\ before.remain = size - m * M
      BY <1>2, <2>1, <2>3, <2>5
    <3>2. /\ NextSize(before.remain) = PieceSize(size, m)
          /\ before.remain - NextSize(before.remain) = Left(n)
      <4>. DEFINE done == m * M
      <4>1. done \in Nat /\ n * M = done + M
        BY <1>2, <2>3
      <4>. HIDE DEF done
      <4>2. before.remain = size - done /\ done < size
        BY <3>1 DEF done
      <4>3. PieceSize(size, m) = IF size - done > M THEN M ELSE size - done
        BY DEF PieceSize, M, done
      <4>. QED BY <1>2, <4>1, <4>2, <4>3 DEF NextSize, M
    <3>3. ring # <<>>
      OBVIOUS
    <3>4. NextSize(before.remain) \in Nat
      BY <2>1, <2>5, NextSizeFits
    <3>5. OneBlock(b, m)
      BY <2>3, <3>3, <3>4, BlockStoresAreOneBlock
    <3>6. ToSet(b) = {e \in BlockStore :
                       /\ e.blockIdx = m /\ e.blockSize = PieceSize(size, m)
                       /\ e.blockHash = NoHash
                       /\ e.server \in Lookups(ring, file, m)}
      BY <2>3, <3>2, <3>3, <3>4, BlockStoresMembers
    <3>7. split[n].list = before.list \o b /\ split[n].remain = Left(n)
      <4>. HIDE DEF before
      <4>1. AfterBlock(ring, file, before, n) =
              [remain |-> before.remain - NextSize(before.remain),
               list |-> before.list \o b]
        BY <2>5 DEF AfterBlock
      <4>. HIDE DEF b, Left
      <4>. QED BY <2>2, <3>2, <4>1
    <3>. HIDE DEF b, before
    <3>8. ToSet(before.list \o b) = ToSet(before.list) \cup ToSet(b)
      BY <2>1, <3>5, ConcatMembers DEF OneBlock
    <3>9. AskedFor(ring, file, size, n) = AskedFor(ring, file, size, m) \cup ToSet(b)
      <4>1. ASSUME NEW e \in BlockStore
            PROVE  e \in AskedFor(ring, file, size, n) <=>
                     e \in AskedFor(ring, file, size, m) \/ e \in ToSet(b)
        <5>1. e.blockIdx \in Nat /\ (e.blockIdx < n <=> e.blockIdx < m \/ e.blockIdx = m)
          BY <2>3 DEF BlockStore
        <5>2. CASE e.blockIdx = m
          BY <2>3, <3>1, <3>6, <5>1, <5>2 DEF AskedFor, M
        <5>3. CASE e.blockIdx # m
          BY <2>3, <3>6, <5>1, <5>3 DEF AskedFor
        <5>. QED BY <5>2, <5>3
      <4>. QED BY <3>6, <4>1 DEF AskedFor
    <3>. HIDE DEF Left
    <3>10. ToSet(split[n].list) = AskedFor(ring, file, size, n)
      BY <2>1, <3>7, <3>8, <3>9
    <3>11. Done(n)
      BY <3>7, <3>10
    <3>. HIDE DEF Done
    <3>. QED BY <3>11
  <2>. QED BY <2>4, <2>5
<1>5. size \in Good
  <2>. HIDE DEF Good
  <2>. QED BY <1>3, <1>4, UpTo
<1>. QED BY <1>1, <1>5

-----------------------------------------------------------------------------
(***************************************************************************)
(* The searches of the handlers, and the sort of serverList.               *)
(***************************************************************************)

\* The search by name answers an index of the list, or 0.
LEMMA FindInList ==
  ASSUME NEW S, NEW list \in Seq(S), NEW file
  PROVE  /\ Find(list, file) # 0 =>
              Find(list, file) \in 1 .. Len(list) /\ list[Find(list, file)].fileName = file
         /\ Find(list, file) = 0 => \A k \in 1 .. Len(list) : list[k].fileName # file
<1>. DEFINE I == {i \in 1 .. Len(list) : list[i].fileName = file}
<1>1. Find(list, file) = IF I # {} THEN Min(I) ELSE 0
  BY Zenon DEF Find, SelectInSeq
<1>2. I # {} => Min(I) \in I
  BY MinOfNats, I \in SUBSET Nat
<1>. QED BY <1>1, <1>2

\* So does the search of a registered address.
LEMMA FindServerInList ==
  ASSUME serverList \in Seq(ServerInfo), NEW address
  PROVE  FindServer(address) # 0 => FindServer(address) \in 1 .. Len(serverList)
<1>. DEFINE I == {i \in 1 .. Len(serverList) : serverList[i].address = address}
<1>1. FindServer(address) = IF I # {} THEN Min(I) ELSE 0
  BY Zenon DEF FindServer, SelectInSeq
<1>2. I # {} => Min(I) \in I
  BY MinOfNats, I \in SUBSET Nat
<1>. QED BY <1>1, <1>2

\* The search of a block answers the first entry of its index, or 0 when the
\* list has none.
LEMMA FindBlockIsFirst ==
  ASSUME NEW list \in Seq(BlockStore), NEW blockIdx
  PROVE  /\ FindBlock(list, blockIdx) = 0 =>
              \A k \in 1 .. Len(list) : list[k].blockIdx # blockIdx
         /\ FindBlock(list, blockIdx) # 0 =>
              /\ FindBlock(list, blockIdx) \in 1 .. Len(list)
              /\ list[FindBlock(list, blockIdx)].blockIdx = blockIdx
              /\ \A k \in 1 .. Len(list) :
                   list[k].blockIdx = blockIdx => FindBlock(list, blockIdx) <= k
<1>. DEFINE I == {i \in 1 .. Len(list) : list[i].blockIdx = blockIdx}
<1>1. FindBlock(list, blockIdx) = IF I # {} THEN Min(I) ELSE 0
  BY Zenon DEF FindBlock, SelectInSeq
<1>2. I # {} => Min(I) \in I /\ \A j \in I : Min(I) <= j
  BY MinOfNats, I \in SUBSET Nat
<1>3. CASE I = {}
  BY <1>1, <1>3
<1>4. CASE I # {}
  <2>1. PICK m \in I : Min(I) = m
    BY <1>2, <1>4
  <2>2. FindBlock(list, blockIdx) = m
    BY <1>1, <1>4, <2>1
  <2>. QED BY <1>2, <1>4, <2>1, <2>2
<1>. QED BY <1>3, <1>4

\* Sorting reorders a list.
LEMMA SortingsProperties ==
  ASSUME NEW S, NEW ring \in Seq(S), NEW s \in Sortings(ring)
  PROVE  s \in Seq(S) /\ Sorted(s)
<1>. DEFINE N == Len(ring)
<1>1. N \in Nat /\ DOMAIN ring = 1 .. N
  BY LenProperties
<1>2. PICK order \in Bijection(1 .. N, 1 .. N) : s = [k \in 1 .. N |-> ring[order[k]]]
  BY <1>1 DEF Sortings
<1>3. \A k \in 1 .. N : ring[order[k]] \in S
  <2>1. order \in [1 .. N -> 1 .. N]
    BY DEF Bijection, Injection
  <2>. TAKE k \in 1 .. N
  <2>2. order[k] \in 1 .. N
    BY <2>1
  <2>. QED BY <2>2, ElementOfSeq
<1>4. s \in Seq(S)
  <2>. DEFINE e(k) == ring[order[k]]
  <2>1. \A k \in 1 .. N : e(k) \in S
    BY <1>3
  <2>. HIDE DEF e
  <2>2. [k \in 1 .. N |-> e(k)] \in Seq(S)
    BY <1>1, <2>1, IsASeq
  <2>. QED BY <1>2, <2>2 DEF e
<1>5. Sorted(s)
  BY Zenon DEF Sortings
<1>. QED BY <1>4, <1>5

\* Erasing a server leaves the others sorted.
LEMMA RemoveAtSorted ==
  ASSUME NEW ring \in Seq(ServerInfo), Sorted(ring), NEW i \in 1 .. Len(ring)
  PROVE  Sorted(RemoveAt(ring, i))
<1>. DEFINE r == RemoveAt(ring, i)
            N == Len(ring)
<1>1. /\ r \in Seq(ServerInfo) /\ Len(r) = N - 1
      /\ \A k \in 1 .. N - 1 : r[k] = IF k < i THEN ring[k] ELSE ring[k + 1]
  BY RemoveAtProperties
<1>2. \A j, k \in 1 .. N : j < k => ~cmp(ring[k], ring[j])
  BY Zenon DEF Sorted, IsSorted
<1>3. N \in Nat
  BY LenProperties
<1>. HIDE DEF r, N
<1>4. ASSUME NEW j \in 1 .. N - 1, NEW k \in 1 .. N - 1, j < k
      PROVE  ~cmp(r[k], r[j])
  <2>1. CASE k < i
    BY <1>1, <1>2, <1>3, <1>4, <2>1, j \in 1 .. N, k \in 1 .. N
  <2>2. CASE j < i /\ ~(k < i)
    BY <1>1, <1>2, <1>3, <1>4, <2>2, j \in 1 .. N, k + 1 \in 1 .. N
  <2>3. CASE ~(j < i)
    BY <1>1, <1>2, <1>3, <1>4, <2>3, j + 1 \in 1 .. N, k + 1 \in 1 .. N
  <2>. QED BY <1>4, <2>1, <2>2, <2>3
<1>5. \A j, k \in 1 .. Len(r) : j < k => ~cmp(r[k], r[j])
  BY <1>1, <1>4
<1>. QED BY <1>5, Zenon DEF Sorted, IsSorted, r

-----------------------------------------------------------------------------
(***************************************************************************)
(* updateBlockInfo.                                                        *)
(***************************************************************************)

\* Block indices never fall along a storeList.
LEMMA IndicesRise ==
  ASSUME NEW list \in Seq(BlockStore), Contiguous(list),
         NEW j \in 1 .. Len(list), NEW k \in 1 .. Len(list), j <= k
  PROVE  list[j].blockIdx <= list[k].blockIdx
<1>. DEFINE N == k - j
            Good == {n \in 0 .. N : list[j].blockIdx <= list[j + n].blockIdx}
<1>1. Len(list) \in Nat /\ \A i \in 1 .. Len(list) : list[i].blockIdx \in Nat
  <2>1. \A i \in 1 .. Len(list) : list[i] \in BlockStore
    BY ElementOfSeq
  <2>. QED BY <2>1, LenProperties DEF BlockStore
<1>2. \A i \in 1 .. Len(list) - 1 :
        list[i + 1].blockIdx \in {list[i].blockIdx, list[i].blockIdx + 1}
  BY Zenon DEF Contiguous
<1>3. 0 \in Good
  BY <1>1, j + 0 = j
<1>4. ASSUME NEW n \in 1 .. N, n - 1 \in Good PROVE n \in Good
  <2>. DEFINE i == j + (n - 1)
  <2>1. i \in 1 .. Len(list) - 1 /\ i \in 1 .. Len(list) /\ i + 1 = j + n
    BY <1>1
  <2>2. list[j].blockIdx <= list[i].blockIdx
    BY <1>4
  <2>3. i + 1 \in 1 .. Len(list)
    BY <1>1, <2>1
  <2>4. /\ list[j].blockIdx \in Nat /\ list[i].blockIdx \in Nat
        /\ list[i + 1].blockIdx \in Nat
    BY <1>1, <2>1, <2>3
  <2>5. list[i + 1].blockIdx = list[i].blockIdx \/ list[i + 1].blockIdx = list[i].blockIdx + 1
    BY <1>2, <2>1
  <2>. HIDE DEF i
  <2>6. list[j].blockIdx <= list[i + 1].blockIdx
    BY <2>2, <2>4, <2>5
  <2>7. list[j].blockIdx <= list[j + n].blockIdx
    BY <2>1, <2>6
  <2>. QED BY <2>7
<1>5. N \in Nat /\ N \in 0 .. N /\ j + N = k
  BY <1>1
<1>6. N \in Good
  <2>. HIDE DEF Good, N
  <2>. QED BY <1>3, <1>4, <1>5, UpTo
<1>. QED BY <1>5, <1>6

\* The run that updateBlockInfo walks, from the first entry of the block to the
\* last of the same index in a row, is the whole block.
LEMMA RunIsBlock ==
  ASSUME NEW list \in Seq(BlockStore), Contiguous(list), NEW blockIdx \in Nat,
         FindBlock(list, blockIdx) # 0, NEW k \in 1 .. Len(list)
  PROVE  InRun(list, FindBlock(list, blockIdx), k) <=> list[k].blockIdx = blockIdx
<1>. DEFINE first == FindBlock(list, blockIdx)
<1>1. /\ first \in 1 .. Len(list) /\ list[first].blockIdx = blockIdx
      /\ \A j \in 1 .. Len(list) : list[j].blockIdx = blockIdx => first <= j
  BY FindBlockIsFirst
<1>2. Len(list) \in Nat /\ \A i \in 1 .. Len(list) : list[i].blockIdx \in Nat
  <2>1. \A i \in 1 .. Len(list) : list[i] \in BlockStore
    BY ElementOfSeq
  <2>. QED BY <2>1, LenProperties DEF BlockStore
<1>. HIDE DEF first
<1>3. ASSUME list[k].blockIdx = blockIdx PROVE InRun(list, first, k)
  <2>1. first <= k
    BY <1>1, <1>3
  <2>2. ASSUME NEW j \in first .. k PROVE list[j].blockIdx = list[first].blockIdx
    <3>1. j \in 1 .. Len(list) /\ first <= j /\ j <= k
      BY <1>1, <1>2
    <3>2. list[first].blockIdx <= list[j].blockIdx
      BY <1>1, <3>1, IndicesRise
    <3>3. list[j].blockIdx <= list[k].blockIdx
      BY <3>1, IndicesRise
    <3>. QED BY <1>1, <1>2, <1>3, <3>1, <3>2, <3>3
  <2>. QED BY <2>1, <2>2 DEF InRun
<1>4. ASSUME InRun(list, first, k) PROVE list[k].blockIdx = blockIdx
  <2>1. k \in first .. k
    BY <1>1, <1>4 DEF InRun
  <2>. QED BY <1>1, <1>4, <2>1 DEF InRun
<1>. QED BY <1>3, <1>4 DEF first

\* A report changes the size and the hash of every replica of its block, and so
\* leaves the shape of the storeList as it was.
LEMMA ReportKeepsShape ==
  ASSUME NEW list \in Seq(BlockStore), WellFormed(list), NEW blockIdx \in Nat,
         FindBlock(list, blockIdx) # 0, NEW size \in Nat, NEW hash \in BlockHashes
  PROVE  /\ Report(list, blockIdx, size, hash) \in Seq(BlockStore)
         /\ WellFormed(Report(list, blockIdx, size, hash))
<1>. DEFINE N == Len(list)
            e(k) == IF list[k].blockIdx = blockIdx
                    THEN [list[k] EXCEPT !.blockSize = size, !.blockHash = hash]
                    ELSE list[k]
            r == [k \in 1 .. N |-> e(k)]
<1>1. N \in Nat /\ DOMAIN list = 1 .. N /\ \A k \in 1 .. N : list[k] \in BlockStore
  BY LenProperties, ElementOfSeq
<1>2. Contiguous(list) /\ DistinctReplicas(list) /\ ReplicasAgree(list)
  BY Zenon DEF WellFormed
<1>3. Report(list, blockIdx, size, hash) = r
  <2>1. \A k \in 1 .. N : InRun(list, FindBlock(list, blockIdx), k)
                            <=> list[k].blockIdx = blockIdx
    BY <1>2, RunIsBlock
  <2>. QED BY <1>1, <2>1 DEF Report
<1>4. \A k \in 1 .. N :
        /\ e(k) \in BlockStore
        /\ e(k).blockIdx = list[k].blockIdx /\ e(k).server = list[k].server
        /\ list[k].blockIdx = blockIdx => e(k).blockSize = size /\ e(k).blockHash = hash
        /\ list[k].blockIdx # blockIdx => e(k) = list[k]
  BY <1>1 DEF BlockStore
<1>. HIDE DEF e, N
<1>5. r \in Seq(BlockStore)
  BY <1>1, <1>4, IsASeq
<1>6. Len(r) = N /\ DOMAIN r = 1 .. N /\ \A k \in 1 .. N : r[k] = e(k)
  BY <1>1, <1>5, LenProperties
<1>. HIDE DEF r
<1>7. Contiguous(r)
  <2>1. r # <<>> => r[1].blockIdx = 0
    <3>1. r # <<>> => list # <<>> /\ 1 \in 1 .. N
      BY <1>1, <1>5, <1>6, EmptySeq, LenProperties DEF N
    <3>2. list # <<>> => list[1].blockIdx = 0
      BY <1>2, Zenon DEF Contiguous
    <3>. QED BY <1>4, <1>6, <3>1, <3>2
  <2>2. \A k \in 1 .. N - 1 :
          list[k + 1].blockIdx \in {list[k].blockIdx, list[k].blockIdx + 1}
    BY <1>2, Zenon DEF Contiguous, N
  <2>3. \A k \in 1 .. N - 1 :
          r[k + 1].blockIdx = list[k + 1].blockIdx /\ r[k].blockIdx = list[k].blockIdx
    BY <1>1, <1>4, <1>6
  <2>4. \A k \in 1 .. Len(r) - 1 : r[k + 1].blockIdx \in {r[k].blockIdx, r[k].blockIdx + 1}
    BY <1>1, <1>6, <2>2, <2>3
  <2>. QED BY <2>1, <2>4, Zenon DEF Contiguous
<1>8. DistinctReplicas(r)
  BY <1>1, <1>2, <1>4, <1>6 DEF DistinctReplicas
<1>9. ReplicasAgree(r)
  <2>1. ASSUME NEW j \in 1 .. N, NEW k \in 1 .. N, r[j].blockIdx = r[k].blockIdx
        PROVE  r[j].blockSize = r[k].blockSize /\ r[j].blockHash = r[k].blockHash
    <3>1. list[j].blockIdx = list[k].blockIdx
      BY <1>4, <1>6, <2>1
    <3>2. list[j].blockSize = list[k].blockSize /\ list[j].blockHash = list[k].blockHash
      BY <1>1, <1>2, <3>1 DEF ReplicasAgree
    <3>3. CASE list[j].blockIdx = blockIdx
      BY <1>4, <1>6, <3>1, <3>3
    <3>4. CASE list[j].blockIdx # blockIdx
      BY <1>4, <1>6, <3>1, <3>2, <3>4
    <3>. QED BY <3>3, <3>4
  <2>. QED BY <1>6, <2>1 DEF ReplicasAgree
<1>. QED BY <1>3, <1>5, <1>7, <1>8, <1>9 DEF WellFormed

-----------------------------------------------------------------------------
(***************************************************************************)
(* The inductive invariant.  The ring is sorted, which the lookup needs and*)
(* no single handler looks at; the entries keep the shape of their lists,  *)
(* which a report needs to reach all the replicas of its block.            *)
(***************************************************************************)
RingServer == {[address |-> a, hash |-> ServerHash(a)] : a \in Servers}

GoodEntry == {e \in FileMetaData : WellFormed(e.storeList)}

RingInv == serverList \in Seq(RingServer) /\ Sorted(serverList)

ListsInv == fileList \in Seq(GoodEntry) /\ tempList \in Seq(GoodEntry)

FlagsInv == up \in BOOLEAN /\ allocated \in BOOLEAN

IInv == RingInv /\ ListsInv /\ FlagsInv

\* Every server of the ring is a ServerInfo, every entry a FileMetaData.
LEMMA InvTypes ==
  /\ RingServer \subseteq ServerInfo /\ GoodEntry \subseteq FileMetaData
  /\ RingInv => serverList \in Seq(ServerInfo)
  /\ ListsInv => fileList \in Seq(FileMetaData) /\ tempList \in Seq(FileMetaData)
<1>1. RingServer \subseteq ServerInfo
  BY PlacementAssumption DEF RingServer, ServerInfo
<1>2. GoodEntry \subseteq FileMetaData
  BY DEF GoodEntry
<1>3. Seq(RingServer) \subseteq Seq(ServerInfo)
  BY <1>1, SeqMonotonic
<1>4. Seq(GoodEntry) \subseteq Seq(FileMetaData)
  BY <1>2, SeqMonotonic
<1>. QED BY <1>1, <1>2, <1>3, <1>4 DEF RingInv, ListsInv

\* A ServerInfo is told by its address.
LEMMA RingHasOneEach ==
  ASSUME NEW ring \in Seq(RingServer)
  PROVE  OneEach(ring)
<1>1. \A s \in ToSet(ring) : s \in RingServer
  BY ElementOfSeq, LenProperties DEF ToSet
<1>2. \A s, t \in RingServer : s.address = t.address => s = t
  BY DEF RingServer
<1>. QED BY <1>1, <1>2 DEF OneEach

\* A server that registers is sorted in, one that terminates is taken out.
LEMMA RegistrationKeeps ==
  ASSUME IInv, NEW address \in Servers, NEW hash,
         startServer(address, hash) \/ terminateServer(address, hash)
  PROVE  IInv'
<1>. USE DEF IInv
<1>2. ListsInv'
  BY Zenon DEF startServer, terminateServer, ListsInv
<1>3. CASE startServer(address, hash)
  <2>. DEFINE new == [address |-> address, hash |-> hash]
  <2>1. CASE hash = ServerHash(address) /\ Register(new)
    <3>1. new \in RingServer
      BY <2>1 DEF RingServer
    <3>. HIDE DEF new
    <3>2. Append(serverList, new) \in Seq(RingServer)
      BY <3>1, AppendProperties DEF RingInv
    <3>3. serverList' \in Sortings(Append(serverList, new)) /\ allocated' = TRUE
      BY <2>1, Zenon DEF Register
    <3>4. RingInv'
      BY <3>2, <3>3, SortingsProperties DEF RingInv
    <3>5. FlagsInv'
      BY <1>3, <3>3, Zenon DEF FlagsInv, startServer
    <3>. QED BY <1>2, <3>4, <3>5
  <2>2. CASE UNCHANGED <<serverList, allocated>>
    <3>1. RingInv'
      BY <2>2 DEF RingInv
    <3>2. FlagsInv'
      BY <1>3, <2>2, Zenon DEF FlagsInv, startServer
    <3>. QED BY <1>2, <3>1, <3>2
  <2>. QED BY <1>3, <2>1, <2>2, Zenon DEF startServer
<1>4. CASE terminateServer(address, hash)
  <2>. DEFINE found == FindServer(address)
  <2>1. ASSUME found # 0, serverList' = RemoveAt(serverList, found) PROVE RingInv'
    <3>1. serverList \in Seq(ServerInfo)
      BY InvTypes
    <3>2. found \in 1 .. Len(serverList)
      BY <2>1, <3>1, FindServerInList
    <3>. HIDE DEF found
    <3>3. RemoveAt(serverList, found) \in Seq(RingServer)
      BY <3>2, RemoveAtProperties DEF RingInv
    <3>4. Sorted(RemoveAt(serverList, found))
      BY <3>1, <3>2, RemoveAtSorted DEF RingInv
    <3>. QED BY <2>1, <3>3, <3>4 DEF RingInv
  <2>2. ASSUME UNCHANGED serverList PROVE RingInv'
    BY <2>2 DEF RingInv
  <2>3. RingInv'
    <3>1. \/ found # 0 /\ serverList' = RemoveAt(serverList, found)
          \/ UNCHANGED serverList
      BY <1>4, Zenon DEF terminateServer
    <3>. QED BY <2>1, <2>2, <3>1 DEF RingInv
  <2>4. FlagsInv'
    BY <1>4, Zenon DEF FlagsInv, terminateServer
  <2>. QED BY <1>2, <2>3, <2>4
<1>. QED BY <1>3, <1>4

\* A report changes one entry of tempList, to another good one.
LEMMA ReportKeeps ==
  ASSUME IInv, NEW file, NEW blockIdx \in Nat, NEW size \in Nat, NEW hash \in BlockHashes,
         updateBlockInfo(file, blockIdx, size, hash)
  PROVE  IInv'
<1>. USE DEF IInv
<1>2. RingInv' /\ FlagsInv'
  <2>1. UNCHANGED <<up, serverList, allocated>>
    BY Zenon DEF updateBlockInfo
  <2>. QED BY <2>1, Zenon DEF RingInv, FlagsInv
<1>. DEFINE i == Find(tempList, file)
            e == tempList[i]
            stores == Report(e.storeList, blockIdx, size, hash)
<1>3. CASE KnowsBlock(file, blockIdx) /\ fileList' = fileList
             /\ tempList' = [tempList EXCEPT ![i].storeList = stores]
  <2>1. i \in 1 .. Len(tempList) /\ FindBlock(e.storeList, blockIdx) # 0
    BY <1>3, InvTypes, FindInList DEF KnowsBlock, Pending
  <2>2. e \in GoodEntry
    BY <2>1, ElementOfSeq DEF ListsInv
  <2>. HIDE DEF e
  <2>3. e.storeList \in Seq(BlockStore) /\ WellFormed(e.storeList)
    BY <2>2 DEF GoodEntry, FileMetaData
  <2>5. stores \in Seq(BlockStore) /\ WellFormed(stores)
    BY <2>1, <2>3, ReportKeepsShape
  <2>. HIDE DEF stores, i
  <2>6. [e EXCEPT !.storeList = stores] \in GoodEntry
    BY <2>2, <2>5 DEF GoodEntry, FileMetaData
  <2>. DEFINE next == [e EXCEPT !.storeList = stores]
  <2>7. tempList' = [tempList EXCEPT ![i] = next]
    BY <1>3, Zenon DEF e
  <2>. HIDE DEF next
  <2>8. tempList' \in Seq(GoodEntry)
    BY <2>1, <2>6, <2>7, ExceptSeq DEF ListsInv, next
  <2>. QED BY <1>2, <1>3, <2>8 DEF ListsInv
<1>4. CASE UNCHANGED <<fileList, tempList>>
  BY <1>2, <1>4 DEF ListsInv
<1>. QED BY <1>3, <1>4, Zenon DEF updateBlockInfo

\* The entry a put is given is a good one: of a ring with servers, and also of
\* the dead ServerInfo that an emptied ring reads.
LEMMA NewEntryIsGood ==
  ASSUME NEW ring \in Seq(ServerInfo), NEW file \in Files, NEW size \in Nat,
         ring # <<>> \/ size = 0
  PROVE  NewEntry(ring, file, size) \in GoodEntry
BY StoreListWellFormed DEF NewEntry, GoodEntry, FileMetaData

\* Entries move between the lists as they are.
LEMMA MovesKeep ==
  ASSUME ListsInv, NEW file, Publish(file) \/ Drop(file) \/ Refuse(file)
  PROVE  ListsInv'
<1>. DEFINE i == Find(tempList, file)
<1>1. ASSUME Pending(file)
      PROVE  /\ tempList[i] \in GoodEntry
             /\ RemoveAt(tempList, i) \in Seq(GoodEntry)
  <2>1. i \in 1 .. Len(tempList)
    BY <1>1, InvTypes, FindInList DEF Pending
  <2>. HIDE DEF i
  <2>. QED BY <2>1, ElementOfSeq, RemoveAtProperties DEF ListsInv
<1>2. CASE Publish(file)
  <2>. HIDE DEF i
  <2>1. Append(fileList, tempList[i]) \in Seq(GoodEntry)
    BY <1>1, <1>2, AppendProperties DEF ListsInv, Publish
  <2>. QED BY <1>1, <1>2, <2>1 DEF ListsInv, Publish, i
<1>3. CASE Drop(file)
  BY <1>1, <1>3 DEF ListsInv, Drop
<1>4. CASE Refuse(file)
  BY <1>4 DEF ListsInv, Refuse
<1>. QED BY <1>2, <1>3, <1>4

\* A crash leaves the empty lists that a start begins with.
LEMMA CrashKeeps ==
  ASSUME Crash
  PROVE  IInv'
<1>1. <<>> \in Seq(RingServer) /\ Sorted(<<>>)
  <2>1. \A i, j \in 1 .. Len(<<>>) : i < j => ~cmp(<<>>[j], <<>>[i])
    OBVIOUS
  <2>. QED BY <2>1, EmptySeq, Zenon DEF Sorted, IsSorted
<1>2. <<>> \in Seq(GoodEntry)
  BY EmptySeq
<1>3. RingInv'
  BY <1>1 DEF Crash, RingInv
<1>4. ListsInv'
  BY <1>2 DEF Crash, ListsInv
<1>5. FlagsInv'
  BY Zenon DEF Crash, FlagsInv
<1>. QED BY <1>3, <1>4, <1>5 DEF IInv

\* A put is given a good entry, and leaves tempList with it.
LEMMA BeginPutKeeps ==
  ASSUME IInv, NEW file \in Files, NEW size \in Nat, beginPutTransaction(file, size)
  PROVE  IInv'
<1>. USE DEF IInv
<1>2. ASSUME NEW e \in GoodEntry, tempList' = Append(tempList, e),
             UNCHANGED <<up, serverList, fileList, allocated>>
      PROVE  IInv'
  <2>1. Append(tempList, e) \in Seq(GoodEntry)
    BY AppendProperties DEF ListsInv
  <2>2. RingInv' /\ FlagsInv'
    BY <1>2, Zenon DEF RingInv, FlagsInv
  <2>. QED BY <1>2, <2>1, <2>2 DEF ListsInv
<1>3. CASE UNCHANGED nsVars
  BY <1>3, Zenon DEF nsVars, RingInv, ListsInv, FlagsInv
<1>4. CASE /\ ~ReadsDeadServer(size)
           /\ tempList' = Append(tempList, NewEntry(serverList, file, size))
           /\ UNCHANGED <<up, serverList, fileList, allocated>>
  <2>1. serverList # <<>> \/ size = 0
    BY <1>4 DEF ReadsDeadServer
  <2>2. NewEntry(serverList, file, size) \in GoodEntry
    BY <2>1, InvTypes, NewEntryIsGood
  <2>. QED BY <1>2, <1>4, <2>2
<1>5. CASE Crash
  BY <1>5, CrashKeeps
<1>6. CASE /\ tempList' = Append(tempList, NewEntry(<<DeadServer>>, file, size))
           /\ UNCHANGED <<up, serverList, fileList, allocated>>
  <2>. DEFINE ring == <<DeadServer>>
  <2>1. ring \in Seq(ServerInfo) /\ ring # <<>>
    BY DEF DeadServer, ServerInfo
  <2>. HIDE DEF ring
  <2>2. NewEntry(ring, file, size) \in GoodEntry
    BY <2>1, NewEntryIsGood
  <2>. QED BY <1>2, <1>6, <2>2 DEF ring
<1>. QED BY <1>3, <1>4, <1>5, <1>6, Zenon DEF beginPutTransaction

\* The ends of a put and of a removal.
LEMMA EndsKeep ==
  ASSUME IInv, NEW file,
         \/ commitPutTransaction(file) \/ abortPutTransaction(file)
         \/ commitRmTransaction(file) \/ abortRmTransaction(file)
  PROVE  IInv'
<1>. USE DEF IInv
<1>1. ListsInv'
  BY MovesKeep, Zenon DEF commitPutTransaction, abortPutTransaction,
                          commitRmTransaction, abortRmTransaction
<1>2. UNCHANGED <<up, serverList, allocated>>
  BY Zenon DEF commitPutTransaction, abortPutTransaction,
               commitRmTransaction, abortRmTransaction
<1>. QED BY <1>1, <1>2, Zenon DEF RingInv, FlagsInv

\* A removal takes an entry out of fileList.
LEMMA BeginRmKeeps ==
  ASSUME IInv, NEW file, beginRmTransaction(file)
  PROVE  IInv'
<1>. USE DEF IInv
<1>. DEFINE i == Find(fileList, file)
<1>1. RingInv' /\ FlagsInv'
  BY Zenon DEF beginRmTransaction, RingInv, FlagsInv
<1>2. CASE /\ Listed(file)
           /\ tempList' = Append(tempList, fileList[i])
           /\ fileList' = RemoveAt(fileList, i)
  <2>1. i \in 1 .. Len(fileList)
    BY <1>2, InvTypes, FindInList DEF Listed
  <2>. HIDE DEF i
  <2>2. fileList[i] \in GoodEntry /\ RemoveAt(fileList, i) \in Seq(GoodEntry)
    BY <2>1, ElementOfSeq, RemoveAtProperties DEF ListsInv
  <2>3. Append(tempList, fileList[i]) \in Seq(GoodEntry)
    BY <2>2, AppendProperties DEF ListsInv
  <2>. QED BY <1>1, <1>2, <2>2, <2>3 DEF ListsInv
<1>3. CASE UNCHANGED <<fileList, tempList>>
  BY <1>1, <1>3 DEF ListsInv
<1>. QED BY <1>2, <1>3, Zenon DEF beginRmTransaction

-----------------------------------------------------------------------------
(***************************************************************************)
(* Lists of metadata, as far as the names in them go.                      *)
(***************************************************************************)
NamesOf(l) == {e.fileName : e \in ToSet(l)}

\* Entries that have a name, and no name twice.
NameList(l) ==
  /\ l \in Seq(ToSet(l)) /\ \A e \in ToSet(l) : "fileName" \in DOMAIN e
  /\ \A j, k \in 1 .. Len(l) : l[j].fileName = l[k].fileName => j = k

\* The members of a list are its elements.
LEMMA NameListElements ==
  ASSUME NEW S, NEW l \in Seq(S)
  PROVE  /\ l \in Seq(ToSet(l)) /\ Len(l) \in Nat /\ DOMAIN l = 1 .. Len(l)
         /\ \A e : e \in ToSet(l) <=> \E k \in 1 .. Len(l) : e = l[k]
         /\ \A f : f \in NamesOf(l) <=> \E k \in 1 .. Len(l) : f = l[k].fileName
<1>1. Len(l) \in Nat /\ DOMAIN l = 1 .. Len(l) /\ l = [k \in 1 .. Len(l) |-> l[k]]
  BY LenProperties
<1>2. \A e : e \in ToSet(l) <=> \E k \in 1 .. Len(l) : e = l[k]
  BY <1>1 DEF ToSet
<1>3. l \in [1 .. Len(l) -> ToSet(l)]
  BY <1>1, <1>2
<1>. QED BY <1>1, <1>2, <1>3, SeqDef DEF NamesOf

\* A search by name finds it where the list has it.
LEMMA NameFound ==
  ASSUME NEW l, l \in Seq(ToSet(l)), NEW f
  PROVE  /\ Find(l, f) # 0 <=> f \in NamesOf(l)
         /\ Find(l, f) # 0 => Find(l, f) \in 1 .. Len(l) /\ l[Find(l, f)].fileName = f
BY NameListElements, FindInList

\* An entry of a new name is appended.
LEMMA NameAdded ==
  ASSUME NEW l, NameList(l), NEW e, "fileName" \in DOMAIN e, e.fileName \notin NamesOf(l)
  PROVE  /\ NameList(Append(l, e))
         /\ NamesOf(Append(l, e)) = NamesOf(l) \cup {e.fileName}
<1>. DEFINE m == Append(l, e)
            S == ToSet(l) \cup {e}
<1>1. /\ Len(l) \in Nat /\ l \in Seq(S)
      /\ \A f : f \in NamesOf(l) <=> \E k \in 1 .. Len(l) : f = l[k].fileName
  <2>1. l \in Seq(S)
    BY SeqMonotonic DEF NameList
  <2>. QED BY <2>1, NameListElements
<1>2. /\ m \in Seq(S) /\ Len(m) = Len(l) + 1
      /\ \A k \in 1 .. Len(l) : m[k] = l[k]
      /\ m[Len(l) + 1] = e
  <2>. HIDE DEF S
  <2>. QED BY <1>1, AppendProperties, e \in S DEF S
<1>3. ToSet(m) = ToSet(l) \cup {e}
  <2>. HIDE DEF S
  <2>. QED BY <1>1, ListMembers, e \in S DEF S
<1>. HIDE DEF m
<1>4. m \in Seq(ToSet(m))
  BY <1>2, NameListElements
<1>5. NamesOf(m) = NamesOf(l) \cup {e.fileName}
  BY <1>3 DEF NamesOf
<1>6. ASSUME NEW j \in 1 .. Len(m), NEW k \in 1 .. Len(m), m[j].fileName = m[k].fileName
      PROVE  j = k
  <2>1. \A i \in 1 .. Len(l) : m[i].fileName # e.fileName
    BY <1>1, <1>2
  <2>2. \A i \in 1 .. Len(m) : i \in 1 .. Len(l) \/ i = Len(l) + 1
    BY <1>1, <1>2
  <2>. QED BY <1>2, <1>6, <2>1, <2>2 DEF NameList
<1>. QED BY <1>3, <1>4, <1>5, <1>6 DEF NameList, m

\* An entry is taken out.
LEMMA NameRemoved ==
  ASSUME NEW l, NameList(l), NEW i \in 1 .. Len(l)
  PROVE  /\ NameList(RemoveAt(l, i))
         /\ NamesOf(RemoveAt(l, i)) = NamesOf(l) \ {l[i].fileName}
         /\ l[i].fileName \in NamesOf(l) /\ "fileName" \in DOMAIN l[i]
<1>. DEFINE m == RemoveAt(l, i)
<1>1. /\ Len(l) \in Nat /\ l \in Seq(ToSet(l))
      /\ \A f : f \in NamesOf(l) <=> \E k \in 1 .. Len(l) : f = l[k].fileName
  BY NameListElements DEF NameList
<1>2. /\ m \in Seq(ToSet(l)) /\ Len(m) = Len(l) - 1
      /\ \A k \in 1 .. Len(l) - 1 : m[k] = IF k < i THEN l[k] ELSE l[k + 1]
  BY <1>1, RemoveAtProperties
<1>3. ToSet(m) \subseteq ToSet(l) /\ ToSet(l) \subseteq ToSet(m) \cup {l[i]} /\ l[i] \in ToSet(l)
  BY <1>1, ListMembers
<1>. HIDE DEF m
<1>4. /\ m \in Seq(ToSet(m))
      /\ \A f : f \in NamesOf(m) <=> \E k \in 1 .. Len(m) : f = m[k].fileName
  BY <1>2, NameListElements
<1>5. \A k \in 1 .. Len(m) : m[k].fileName # l[i].fileName
  <2>. SUFFICES ASSUME NEW k \in 1 .. Len(m) PROVE m[k].fileName # l[i].fileName
    OBVIOUS
  <2>1. k \in 1 .. Len(l) /\ k + 1 \in 1 .. Len(l)
    BY <1>1, <1>2
  <2>2. m[k] = (IF k < i THEN l[k] ELSE l[k + 1]) /\ (k < i => k # i) /\ (~(k < i) => k + 1 # i)
    BY <1>1, <1>2
  <2>. QED BY <2>1, <2>2 DEF NameList
<1>6. NamesOf(m) = NamesOf(l) \ {l[i].fileName}
  <2>1. l[i].fileName \notin NamesOf(m)
    BY <1>4, <1>5
  <2>. QED BY <1>3, <2>1 DEF NamesOf
<1>7. ASSUME NEW j \in 1 .. Len(m), NEW k \in 1 .. Len(m), m[j].fileName = m[k].fileName
      PROVE  j = k
  <2>. DEFINE was(n) == IF n < i THEN n ELSE n + 1
  <2>1. \A n \in 1 .. Len(m) : was(n) \in 1 .. Len(l) /\ m[n] = l[was(n)]
    BY <1>1, <1>2
  <2>2. was(j) = was(k)
    <3>. HIDE DEF was
    <3>. QED BY <1>7, <2>1 DEF NameList
  <2>. QED BY <1>1, <1>2, <2>2
<1>. QED BY <1>3, <1>4, <1>6, <1>7 DEF NameList, NamesOf, m

\* A name server that has just started knows no name.
LEMMA EmptyKnown ==
  /\ NameList(<<>>) /\ NamesOf(<<>>) = {}
<1>1. <<>> \in Seq({}) /\ Len(<<>>) = 0
  BY EmptySeq
<1>2. ToSet(<<>>) = {}
  <2>. PICK l : l = <<>>
    OBVIOUS
  <2>1. DOMAIN l = {}
    BY <1>1, LenProperties
  <2>. QED BY <2>1 DEF ToSet
<1>. QED BY <1>1, <1>2 DEF NameList, NamesOf

\* Another storeList leaves an entry its name.
LEMMA NameKept ==
  ASSUME NEW l, NameList(l), NEW i \in 1 .. Len(l), NEW stores
  PROVE  LET m == [l EXCEPT ![i].storeList = stores]
         IN  NameList(m) /\ NamesOf(m) = NamesOf(l)
<1>. DEFINE m == [l EXCEPT ![i].storeList = stores]
            e == [l[i] EXCEPT !.storeList = stores]
            S == ToSet(l) \cup {e}
<1>1. /\ Len(l) \in Nat /\ l \in Seq(S) /\ l \in Seq(ToSet(l))
      /\ \A f : f \in NamesOf(l) <=> \E k \in 1 .. Len(l) : f = l[k].fileName
      /\ \A k \in 1 .. Len(l) : l[k] \in ToSet(l)
  <2>1. l \in Seq(S) /\ l \in Seq(ToSet(l))
    BY SeqMonotonic DEF NameList
  <2>. QED BY <2>1, NameListElements
<1>2. "fileName" \in DOMAIN l[i]
  BY <1>1 DEF NameList
<1>3. "fileName" \in DOMAIN e /\ e.fileName = l[i].fileName
  BY <1>2
<1>4. m = [l EXCEPT ![i] = e]
  OBVIOUS
<1>. HIDE DEF m, e
<1>5. /\ m \in Seq(S) /\ Len(m) = Len(l)
      /\ \A k \in 1 .. Len(l) : m[k] = IF k = i THEN e ELSE l[k]
  BY <1>1, <1>4, ExceptSeq
<1>6. /\ m \in Seq(ToSet(m))
      /\ \A x : x \in ToSet(m) <=> \E k \in 1 .. Len(m) : x = m[k]
      /\ \A f : f \in NamesOf(m) <=> \E k \in 1 .. Len(m) : f = m[k].fileName
  BY <1>5, NameListElements
<1>7. \A k \in 1 .. Len(l) : m[k].fileName = l[k].fileName /\ "fileName" \in DOMAIN m[k]
  BY <1>1, <1>3, <1>5 DEF NameList
<1>8. NamesOf(m) = NamesOf(l)
  <2>1. ASSUME NEW f \in NamesOf(m) PROVE f \in NamesOf(l)
    BY <1>1, <1>5, <1>6, <1>7
  <2>2. ASSUME NEW f \in NamesOf(l) PROVE f \in NamesOf(m)
    <3>1. PICK k \in 1 .. Len(l) : f = l[k].fileName
      BY <1>1, <2>2
    <3>2. k \in 1 .. Len(m) /\ f = m[k].fileName
      BY <1>5, <1>7, <3>1
    <3>. QED BY <1>6, <3>2
  <2>. QED BY <2>1, <2>2
<1>9. NameList(m)
  <2>1. \A x \in ToSet(m) : "fileName" \in DOMAIN x
    BY <1>5, <1>6, <1>7, Zenon
  <2>2. \A j, k \in 1 .. Len(m) : m[j].fileName = m[k].fileName => j = k
    BY <1>5, <1>7, Zenon DEF NameList
  <2>. QED BY <1>6, <2>1, <2>2 DEF NameList
<1>. QED BY <1>8, <1>9 DEF m

-----------------------------------------------------------------------------
(***************************************************************************)
(* No name is known twice.                                                 *)
(***************************************************************************)
KnownOnce ==
  /\ NameList(fileList) /\ NameList(tempList)
  /\ NamesOf(fileList) \cap NamesOf(tempList) = {}

\* What becomes of the names when an entry of tempList is published, or dropped.
LEMMA MovesKeepNames ==
  ASSUME KnownOnce, NEW f, Publish(f) \/ Drop(f) \/ Refuse(f)
  PROVE  KnownOnce' /\ f \notin NamesOf(tempList')
<1>. DEFINE i == Find(tempList, f)
<1>1. /\ Pending(f) <=> f \in NamesOf(tempList)
      /\ Pending(f) => i \in 1 .. Len(tempList) /\ tempList[i].fileName = f
  BY NameFound DEF KnownOnce, NameList, Pending
<1>2. ASSUME Pending(f)
      PROVE  /\ NameList(RemoveAt(tempList, i))
             /\ NamesOf(RemoveAt(tempList, i)) = NamesOf(tempList) \ {f}
             /\ NameList(Append(fileList, tempList[i]))
             /\ NamesOf(Append(fileList, tempList[i])) = NamesOf(fileList) \cup {f}
  <2>. HIDE DEF i
  <2>1. f \notin NamesOf(fileList)
    BY <1>1, <1>2 DEF KnownOnce
  <2>. QED BY <1>1, <1>2, <2>1, NameRemoved, NameAdded DEF KnownOnce
<1>3. CASE Publish(f)
  BY <1>2, <1>3 DEF Publish, KnownOnce
<1>4. CASE Drop(f)
  BY <1>2, <1>4 DEF Drop, KnownOnce
<1>5. CASE Refuse(f)
  BY <1>1, <1>5 DEF Refuse, KnownOnce
<1>. QED BY <1>3, <1>4, <1>5

\* The ends of a put and of a removal leave no entry of the name on the way.
LEMMA EndsKeepNames ==
  ASSUME KnownOnce, NEW f,
         \/ commitPutTransaction(f) \/ abortPutTransaction(f)
         \/ commitRmTransaction(f) \/ abortRmTransaction(f)
  PROVE  KnownOnce' /\ f \notin NamesOf(tempList') /\ up' = up
<1>1. Publish(f) \/ Drop(f) \/ Refuse(f)
  BY Zenon DEF commitPutTransaction, abortPutTransaction,
               commitRmTransaction, abortRmTransaction
<1>2. up' = up
  BY Zenon DEF commitPutTransaction, abortPutTransaction,
               commitRmTransaction, abortRmTransaction
<1>. QED BY <1>1, <1>2, MovesKeepNames

\* A removal takes the name from fileList to tempList.
LEMMA BeginRmKeepsNames ==
  ASSUME KnownOnce, NEW f, beginRmTransaction(f)
  PROVE  KnownOnce' /\ up' = up
<1>. DEFINE i == Find(fileList, f)
<1>1. /\ Listed(f) <=> f \in NamesOf(fileList)
      /\ Listed(f) => i \in 1 .. Len(fileList) /\ fileList[i].fileName = f
  BY NameFound DEF KnownOnce, NameList, Listed
<1>2. ASSUME Listed(f)
      PROVE  /\ NameList(RemoveAt(fileList, i))
             /\ NamesOf(RemoveAt(fileList, i)) = NamesOf(fileList) \ {f}
             /\ NameList(Append(tempList, fileList[i]))
             /\ NamesOf(Append(tempList, fileList[i])) = NamesOf(tempList) \cup {f}
  <2>. HIDE DEF i
  <2>1. f \notin NamesOf(tempList)
    BY <1>1, <1>2 DEF KnownOnce
  <2>. QED BY <1>1, <1>2, <2>1, NameRemoved, NameAdded DEF KnownOnce
<1>3. KnownOnce'
  BY <1>2 DEF beginRmTransaction, KnownOnce
<1>. QED BY <1>3, Zenon DEF beginRmTransaction

\* A put adds the name, if it is not on its way already.
LEMMA BeginPutKeepsNames ==
  ASSUME KnownOnce, NEW f, NEW size, beginPutTransaction(f, size), ~Pending(f)
  PROVE  KnownOnce' /\ (up' = up \/ (fileList' = <<>> /\ tempList' = <<>>))
<1>1. f \notin NamesOf(tempList)
  BY NameFound DEF KnownOnce, NameList, Pending
<1>2. ~Listed(f) => f \notin NamesOf(fileList)
  BY NameFound DEF KnownOnce, NameList, Listed
<1>3. ASSUME NEW ring, ~Listed(f), UNCHANGED <<up, fileList>>,
             tempList' = Append(tempList, NewEntry(ring, f, size))
      PROVE  KnownOnce' /\ up' = up
  <2>. DEFINE e == NewEntry(ring, f, size)
  <2>1. "fileName" \in DOMAIN e /\ e.fileName = f
    BY DEF NewEntry
  <2>. HIDE DEF e
  <2>2. NameList(Append(tempList, e)) /\ NamesOf(Append(tempList, e)) = NamesOf(tempList) \cup {f}
    BY <1>1, <2>1, NameAdded DEF KnownOnce
  <2>. QED BY <1>2, <1>3, <2>2 DEF KnownOnce, e
<1>4. ASSUME UNCHANGED nsVars PROVE KnownOnce' /\ up' = up
  BY <1>4 DEF nsVars, KnownOnce
<1>5. ASSUME Crash PROVE KnownOnce' /\ fileList' = <<>> /\ tempList' = <<>>
  BY <1>5, EmptyKnown DEF Crash, KnownOnce
<1>6. \/ UNCHANGED nsVars
      \/ Crash
      \/ /\ ~Listed(f) /\ UNCHANGED <<up, serverList, fileList, allocated>>
         /\ \E ring \in {serverList, <<DeadServer>>} :
              tempList' = Append(tempList, NewEntry(ring, f, size))
  BY Zenon DEF beginPutTransaction
<1>7. KnownOnce'
  BY <1>3, <1>4, <1>5, <1>6
<1>8. up' = up \/ Crash
  BY Zenon DEF beginPutTransaction, nsVars
<1>. QED BY <1>5, <1>7, <1>8

\* A report changes no name.
LEMMA ReportKeepsNames ==
  ASSUME KnownOnce, NEW f, NEW blockIdx, NEW size, NEW hash,
         updateBlockInfo(f, blockIdx, size, hash)
  PROVE  KnownOnce' /\ NamesOf(tempList') = NamesOf(tempList) /\ up' = up
<1>. DEFINE i == Find(tempList, f)
            stores == Report(tempList[i].storeList, blockIdx, size, hash)
<1>1. CASE KnowsBlock(f, blockIdx) /\ tempList' = [tempList EXCEPT ![i].storeList = stores]
  <2>1. i \in 1 .. Len(tempList)
    BY <1>1, NameFound DEF KnownOnce, NameList, KnowsBlock, Pending
  <2>. HIDE DEF i, stores
  <2>2. NameList(tempList') /\ NamesOf(tempList') = NamesOf(tempList)
    BY <1>1, <2>1, NameKept, Zenon DEF KnownOnce
  <2>3. UNCHANGED <<up, fileList>>
    BY Zenon DEF updateBlockInfo
  <2>. QED BY <2>2, <2>3 DEF KnownOnce
<1>2. CASE UNCHANGED tempList
  <2>1. UNCHANGED <<up, fileList>>
    BY Zenon DEF updateBlockInfo
  <2>. QED BY <1>2, <2>1 DEF KnownOnce
<1>. QED BY <1>1, <1>2, Zenon DEF updateBlockInfo
=============================================================================
