--------------------------- MODULE NameServerProofs ---------------------------
(***************************************************************************)
(* Theorems about the name server, for any number of files, data servers,  *)
(* callers and requests: its type invariant, the shape of the metadata,    *)
(* the ring lookup, and what a step may do to the files that exist.        *)
(***************************************************************************)
EXTENDS NameServerSpec, NameServerLemmas

-----------------------------------------------------------------------------
(***************************************************************************)
(* The steps keep what their handlers keep.                                *)
(***************************************************************************)

\* A server that registers or terminates.
LEMMA RegisteringKeeps ==
  ASSUME IInv, Registration
  PROVE  IInv'
<1>1. PICK address \in Servers, hash \in {ServerHash(s) : s \in Servers} :
        startServer(address, hash) \/ terminateServer(address, hash)
  BY DEF Registration
<1>. QED BY <1>1, RegistrationKeeps

\* A report.
LEMMA ReportingKeeps ==
  ASSUME IInv, Reporting
  PROVE  IInv'
<1>1. PICK file \in Files, blockIdx \in BlockIndices, report \in Reports :
        updateBlockInfo(file, blockIdx, report[1], report[2])
  BY DEF Reporting
<1>2. blockIdx \in Nat /\ report[1] \in Nat /\ report[2] \in BlockHashes
  BY NameServerAssumption
<1>. QED BY <1>1, <1>2, ReportKeeps

\* A step of a put.
LEMMA PuttingKeeps ==
  ASSUME IInv, Putting
  PROVE  IInv'
<1>1. PICK file \in Files :
        \/ \E size \in FileSizes : beginPutTransaction(file, size)
        \/ commitPutTransaction(file) \/ abortPutTransaction(file)
  BY DEF Putting
<1>2. \A size \in FileSizes : size \in Nat
  BY NameServerAssumption
<1>. QED BY <1>1, <1>2, BeginPutKeeps, EndsKeep

\* A step of a removal.
LEMMA RemovingKeeps ==
  ASSUME IInv, Removing
  PROVE  IInv'
<1>1. PICK file \in Files : \/ beginRmTransaction(file)
                            \/ commitRmTransaction(file) \/ abortRmTransaction(file)
  BY DEF Removing
<1>. QED BY <1>1, BeginRmKeeps, EndsKeep

-----------------------------------------------------------------------------
(***************************************************************************)
(* The theorems.                                                           *)
(***************************************************************************)

\* The name server keeps its inductive invariant.
THEOREM Inductive == NSSpec => []IInv
<1>1. NSInit => IInv
  <2>. SUFFICES ASSUME NSInit PROVE IInv
    OBVIOUS
  <2>1. Sorted(<<>>)
    <3>1. \A i, j \in 1 .. Len(<<>>) : i < j => ~cmp(<<>>[j], <<>>[i])
      OBVIOUS
    <3>. QED BY <3>1, Zenon DEF Sorted, IsSorted
  <2>2. RingInv /\ ListsInv
    BY <2>1, EmptySeq DEF NSInit, RingInv, ListsInv
  <2>3. FlagsInv
    BY Zenon DEF NSInit, FlagsInv
  <2>. QED BY <2>2, <2>3 DEF IInv
<1>2. IInv /\ [NSNext]_nsVars => IInv'
  <2>. SUFFICES ASSUME IInv, [NSNext]_nsVars PROVE IInv'
    OBVIOUS
  <2>1. CASE Registration
    BY <2>1, RegisteringKeeps
  <2>2. CASE Reporting
    BY <2>2, ReportingKeeps
  <2>3. CASE Putting
    BY <2>3, PuttingKeeps
  <2>4. CASE Removing
    BY <2>4, RemovingKeeps
  <2>5. CASE Kill
    BY <2>5, CrashKeeps DEF Kill
  <2>6. CASE Restart
    <3>1. FlagsInv'
      BY <2>6, Zenon DEF Restart, FlagsInv, IInv
    <3>. QED BY <2>6, <3>1 DEF Restart, IInv, RingInv, ListsInv
  <2>7. CASE UNCHANGED nsVars
    BY <2>7, Zenon DEF nsVars, IInv, RingInv, ListsInv, FlagsInv
  <2>. QED BY <2>1, <2>2, <2>3, <2>4, <2>5, <2>6, <2>7, Zenon DEF NSNext
<1>. QED BY <1>1, <1>2, PTL DEF NSSpec

\* Every variable keeps its type: in particular every storeList the name server
\* ever holds or streams is a list of block entries.
THEOREM TypeCorrect == NSSpec => []TypeOK
<1>1. IInv => TypeOK
  <2>. SUFFICES ASSUME IInv PROVE TypeOK
    OBVIOUS
  <2>1. up \in BOOLEAN /\ allocated \in BOOLEAN
    BY Zenon DEF IInv, FlagsInv
  <2>2. /\ serverList \in Seq(ServerInfo)
        /\ fileList \in Seq(FileMetaData) /\ tempList \in Seq(FileMetaData)
    BY InvTypes DEF IInv
  <2>. QED BY <2>1, <2>2, Zenon DEF TypeOK
<1>. QED BY <1>1, Inductive, PTL

\* The scan of the ring finds the successor of every key, however many servers
\* registered and terminated, in whatever order, also with equal digests.
THEOREM LookupCorrect == NSSpec => []LookupIsSuccessor
<1>1. IInv => LookupIsSuccessor
  <2>. SUFFICES ASSUME IInv, serverList # <<>>,
                       NEW file \in Files, NEW blockIdx \in BlockIndices,
                       NEW n \in 0 .. backupNum - 1
                PROVE  LET key == ReplicaHash(file, blockIdx, n)
                       IN  IsSuccessor(Lookup(serverList, key), ToSet(serverList), key)
    BY Zenon DEF LookupIsSuccessor
  <2>1. ReplicaHash(file, blockIdx, n) \in Nat
    BY NameServerAssumption
  <2>2. serverList \in Seq(ServerInfo) /\ Sorted(serverList)
    BY InvTypes DEF IInv, RingInv
  <2>. DEFINE key == ReplicaHash(file, blockIdx, n)
  <2>. HIDE DEF key
  <2>3. IsSuccessor(Lookup(serverList, key), ToSet(serverList), key)
    BY <2>1, <2>2, LookupFindsSuccessor DEF key
  <2>. QED BY <2>3 DEF key
<1>. QED BY <1>1, Inductive, PTL

\* The metadata of every file keeps the shape the handlers and the clients walk
\* over, for every number of files, blocks, replicas and callers.
THEOREM StoresCorrect == NSSpec => []StoresWellFormed
<1>1. IInv => StoresWellFormed
  <2>. SUFFICES ASSUME IInv, NEW e \in Entries PROVE WellFormed(e.storeList)
    BY DEF StoresWellFormed
  <2>1. ASSUME NEW s \in Seq(GoodEntry), e \in ToSet(s) PROVE e \in GoodEntry
    <3>1. PICK k \in 1 .. Len(s) : e = s[k]
      BY <2>1, LenProperties DEF ToSet
    <3>. QED BY <3>1, ElementOfSeq
  <2>2. e \in GoodEntry
    BY <2>1 DEF Entries, IInv, ListsInv
  <2>. QED BY <2>2 DEF GoodEntry
<1>. QED BY <1>1, Inductive, PTL

\* Whatever servers are registered, a put of any file asks for blocks that cut it
\* without loss or overlap, each on all the servers its replica numbers lead to.
THEOREM PutCuts == NSSpec => []PutCutsFile
<1>1. IInv => PutCutsFile
  <2>. SUFFICES ASSUME IInv, serverList # <<>>,
                       NEW file \in Files, NEW size \in FileSizes
                PROVE  LET list == StoreList(serverList, file, size)
                       IN  /\ CutsSize(list, size)
                           /\ \A e \in ToSet(list) :
                                {x.server : x \in {y \in ToSet(list) : y.blockIdx = e.blockIdx}} =
                                  {Lookup(serverList, ReplicaHash(file, e.blockIdx, n)) :
                                     n \in 0 .. backupNum - 1}
    BY Zenon DEF PutCutsFile
  <2>. DEFINE list == StoreList(serverList, file, size)
              Members == AskedFor(serverList, file, size, size)
              On(i) == Lookups(serverList, file, i)
              Piece(i) == PieceSize(size, i)
  <2>1. size \in Nat
    BY NameServerAssumption
  <2>2. serverList \in Seq(ServerInfo) /\ OneEach(serverList)
    BY InvTypes, RingHasOneEach DEF IInv, RingInv
  <2>3. ToSet(list) = Members
    BY <2>1, <2>2, StoreListMembers
  <2>4. \A i \in Nat : On(i) \subseteq ServerInfo /\ On(i) # {}
    <3>1. \A i \in Nat : On(i) \subseteq ServerInfo
      BY <2>2, LookupsAreServers, Zenon DEF Lookups
    <3>2. 0 \in 0 .. backupNum - 1
      BY PlacementAssumption
    <3>. QED BY <3>1, <3>2 DEF Lookups
  <2>5. maxBlockSize \in Nat \ {0}
    BY PlacementAssumption
  <2>6. ASSUME NEW i \in Nat, i * maxBlockSize < size
        PROVE  /\ i < size /\ Piece(i) \in Nat
               /\ Piece(i) = Min({maxBlockSize, size - i * maxBlockSize})
    <3>. DEFINE before == i * maxBlockSize
                two == {maxBlockSize, size - before}
    <3>1. before \in Nat /\ i <= before /\ before < size
      <4>1. maxBlockSize = 1 + (maxBlockSize - 1) /\ maxBlockSize - 1 \in Nat
        BY <2>5
      <4>2. before = i + i * (maxBlockSize - 1) /\ i * (maxBlockSize - 1) \in Nat
        BY <4>1
      <4>. QED BY <2>6, <4>2
    <3>2. Piece(i) = IF size - before > maxBlockSize THEN maxBlockSize ELSE size - before
      BY DEF PieceSize
    <3>. HIDE DEF before, Piece
    <3>3. two \in SUBSET Nat /\ two # {}
      BY <2>1, <2>5, <3>1
    <3>4. Min(two) \in two /\ \A j \in two : Min(two) <= j
      <4>. HIDE DEF two
      <4>. QED BY <3>3, MinOfNats
    <3>5. Min(two) = Piece(i)
      BY <2>1, <2>5, <3>1, <3>2, <3>4
    <3>. QED BY <2>1, <2>5, <3>1, <3>2, <3>5 DEF before
  <2>7. \A e \in Members : /\ e.blockIdx \in Nat /\ e.blockIdx * maxBlockSize < size
                            /\ e.blockSize = Piece(e.blockIdx)
                            /\ e.server \in On(e.blockIdx)
    BY DEF AskedFor, BlockStore
  <2>8. ASSUME NEW i \in Nat, i * maxBlockSize < size, NEW s \in On(i)
        PROVE  \E e \in Members : e.blockIdx = i /\ e.blockSize = Piece(i) /\ e.server = s
    <3>. DEFINE e == [blockIdx |-> i, blockSize |-> Piece(i),
                      blockHash |-> NoHash, server |-> s]
    <3>1. e \in BlockStore
      <4>1. s \in ServerInfo /\ Piece(i) \in Nat
        BY <2>4, <2>6, <2>8
      <4>. QED BY <4>1 DEF BlockStore
    <3>2. e.blockIdx < size /\ e.blockIdx * maxBlockSize < size
      BY <2>6, <2>8
    <3>3. e \in Members
      BY <2>8, <3>1, <3>2 DEF AskedFor
    <3>. QED BY <3>3
  <2>. HIDE DEF list, Members, Piece
  <2>9. CutsSize(list, size)
    <3>. DEFINE cut == {<<i, Min({maxBlockSize, size - i * maxBlockSize})>> :
                          i \in {j \in 0 .. size : j * maxBlockSize < size}}
                have == {<<e.blockIdx, e.blockSize>> : e \in ToSet(list)}
    <3>1. ASSUME NEW e \in Members PROVE <<e.blockIdx, e.blockSize>> \in cut
      <4>1. e.blockIdx \in {j \in 0 .. size : j * maxBlockSize < size}
        <5>1. /\ e.blockIdx \in Nat /\ e.blockIdx * maxBlockSize < size
              /\ e.blockIdx < size
          BY <2>6, <2>7
        <5>2. e.blockIdx \in 0 .. size
          BY <2>1, <5>1
        <5>. QED BY <5>1, <5>2
      <4>2. e.blockSize = Min({maxBlockSize, size - e.blockIdx * maxBlockSize})
        BY <2>6, <2>7
      <4>. QED BY <4>1, <4>2
    <3>2. ASSUME NEW i \in 0 .. size, i * maxBlockSize < size
          PROVE  <<i, Min({maxBlockSize, size - i * maxBlockSize})>> \in have
      <4>1. i \in Nat
        BY <2>1
      <4>2. PICK s : s \in On(i)
        BY <2>4, <4>1
      <4>3. PICK e \in Members : e.blockIdx = i /\ e.blockSize = Piece(i)
        BY <2>8, <3>2, <4>1, <4>2
      <4>4. <<e.blockIdx, e.blockSize>> \in have
        BY <2>3
      <4>. QED BY <2>6, <3>2, <4>1, <4>3, <4>4
    <3>3. have = cut
      BY <2>3, <3>1, <3>2
    <3>. QED BY <3>3 DEF CutsSize
  <2>10. ASSUME NEW e \in ToSet(list)
         PROVE  {x.server : x \in {y \in ToSet(list) : y.blockIdx = e.blockIdx}} =
                  On(e.blockIdx)
    <3>. DEFINE i == e.blockIdx
    <3>1. i \in Nat /\ i * maxBlockSize < size
      BY <2>3, <2>7
    <3>2. \A s \in On(i) : \E x \in Members : x.blockIdx = i /\ x.server = s
      BY <2>8, <3>1
    <3>3. \A x \in Members : x.blockIdx = i => x.server \in On(i)
      BY <2>7
    <3>. HIDE DEF i, On
    <3>4. {x.server : x \in {y \in Members : y.blockIdx = i}} = On(i)
      BY <3>2, <3>3
    <3>. QED BY <2>3, <3>4 DEF i
  <2>. QED BY <2>9, <2>10, Zenon DEF Lookups, list
<1>. QED BY <1>1, Inductive, PTL

-----------------------------------------------------------------------------
(***************************************************************************)
(* What a step may do.                                                     *)
(***************************************************************************)

\* The part of CommittedIsStable that one step must satisfy.
Stable == ToSet(fileList') \subseteq Entries /\ (up' => ToSet(fileList) \subseteq Entries')

\* Moving an entry between the lists keeps every listed entry known.
LEMMA MovesAreStable ==
  ASSUME ListsInv, NEW file, Publish(file) \/ Drop(file) \/ Refuse(file)
  PROVE  Stable
<1>. DEFINE i == Find(tempList, file)
<1>1. ASSUME Pending(file)
      PROVE  tempList[i] \in GoodEntry /\ tempList[i] \in ToSet(tempList)
  <2>1. i \in 1 .. Len(tempList)
    BY <1>1, InvTypes, FindInList DEF Pending
  <2>. HIDE DEF i
  <2>. QED BY <2>1, ElementOfSeq, ListMembers DEF ListsInv
<1>2. CASE Publish(file)
  <2>1. fileList' = Append(fileList, tempList[i]) /\ Pending(file)
    BY <1>2 DEF Publish
  <2>. HIDE DEF i
  <2>2. ToSet(fileList') = ToSet(fileList) \cup {tempList[i]}
    BY <1>1, <2>1, ListMembers DEF ListsInv
  <2>. HIDE DEF ListsInv
  <2>. QED BY <1>1, <2>1, <2>2, Zenon DEF Stable, Entries
<1>3. CASE fileList' = fileList
  BY <1>3, Zenon DEF Stable, Entries
<1>. QED BY <1>2, <1>3, Zenon DEF Drop, Refuse

\* No step makes or changes the entry of a file that exists, or loses it but by
\* moving it to tempList; only a crash loses all.
THEOREM CommittedStable == NSSpec => CommittedIsStable
<1>1. IInv /\ [NSNext]_nsVars => [Stable]_nsVars
  <2>. SUFFICES ASSUME IInv, NSNext PROVE Stable
    OBVIOUS
  <2>1. ASSUME fileList' = fileList PROVE Stable
    BY <2>1, Zenon DEF Stable, Entries
  <2>2. ASSUME Crash PROVE Stable
    <3>1. ToSet(fileList') = {} /\ up' = FALSE
      BY <2>2 DEF Crash, ToSet
    <3>. QED BY <3>1, Zenon DEF Stable
  <2>3. CASE Registration
    BY <2>1, <2>3, Zenon DEF Registration, startServer, terminateServer
  <2>4. CASE Reporting
    BY <2>1, <2>4, Zenon DEF Reporting, updateBlockInfo
  <2>5. CASE Putting
    <3>1. PICK file \in Files :
            \/ \E size \in FileSizes : beginPutTransaction(file, size)
            \/ commitPutTransaction(file) \/ abortPutTransaction(file)
      BY <2>5 DEF Putting
    <3>2. ASSUME NEW size \in FileSizes, beginPutTransaction(file, size) PROVE Stable
      BY <2>1, <2>2, <3>2, Zenon DEF beginPutTransaction, nsVars
    <3>3. ASSUME commitPutTransaction(file) \/ abortPutTransaction(file) PROVE Stable
      BY <3>3, MovesAreStable, Zenon
         DEF commitPutTransaction, abortPutTransaction, IInv
    <3>. QED BY <3>1, <3>2, <3>3
  <2>6. CASE Removing
    <3>1. PICK file \in Files : \/ beginRmTransaction(file)
                                \/ commitRmTransaction(file) \/ abortRmTransaction(file)
      BY <2>6 DEF Removing
    <3>2. ASSUME Listed(file),
                 tempList' = Append(tempList, fileList[Find(fileList, file)]),
                 fileList' = RemoveAt(fileList, Find(fileList, file))
          PROVE  Stable
      <4>. DEFINE i == Find(fileList, file)
      <4>1. i \in 1 .. Len(fileList)
        BY <3>2, InvTypes, FindInList DEF Listed, IInv
      <4>. HIDE DEF i
      <4>2. fileList[i] \in GoodEntry
        BY <4>1, ElementOfSeq DEF IInv, ListsInv
      <4>3. ToSet(tempList') = ToSet(tempList) \cup {fileList[i]}
        BY <3>2, <4>2, ListMembers DEF IInv, ListsInv, i
      <4>4. /\ ToSet(fileList') \subseteq ToSet(fileList)
            /\ ToSet(fileList) \subseteq ToSet(fileList') \cup {fileList[i]}
        BY <3>2, <4>1, ListMembers DEF IInv, ListsInv, i
      <4>. QED BY <4>3, <4>4, Zenon DEF Stable, Entries
    <3>3. ASSUME beginRmTransaction(file) PROVE Stable
      BY <2>1, <3>2, <3>3, Zenon DEF beginRmTransaction
    <3>4. ASSUME commitRmTransaction(file) \/ abortRmTransaction(file) PROVE Stable
      BY <3>4, MovesAreStable, Zenon
         DEF commitRmTransaction, abortRmTransaction, IInv
    <3>. QED BY <3>1, <3>3, <3>4
  <2>7. CASE Kill
    BY <2>2, <2>7 DEF Kill
  <2>8. CASE Restart
    BY <2>1, <2>8, Zenon DEF Restart
  <2>. QED BY <2>3, <2>4, <2>5, <2>6, <2>7, <2>8, Zenon DEF NSNext
<1>. QED BY <1>1, Inductive, PTL DEF NSSpec, CommittedIsStable, Stable

\* No two addresses have one digest.
NoCollision == \A s, t \in Servers : ServerHash(s) = ServerHash(t) => s = t

\* On two rings of servers, whatever was added and whatever taken away, the
\* lookups of a key differ only where the one answer is not on the other ring.
LEMMA LookupDependsOnMembers ==
  ASSUME NoCollision,
         NEW r \in Seq(RingServer), Sorted(r), r # <<>>,
         NEW s \in Seq(RingServer), Sorted(s), s # <<>>,
         NEW key \in Nat, Lookup(r, key) # Lookup(s, key)
  PROVE  Lookup(s, key) \notin ToSet(r) \/ Lookup(r, key) \notin ToSet(s)
<1>. DEFINE b == Lookup(r, key)
            a == Lookup(s, key)
<1>1. r \in Seq(ServerInfo) /\ s \in Seq(ServerInfo)
  BY InvTypes, SeqMonotonic
<1>2. IsSuccessor(b, ToSet(r), key) /\ IsSuccessor(a, ToSet(s), key)
  BY <1>1, LookupFindsSuccessor
<1>3. \A t \in Seq(RingServer) : \A m \in ToSet(t) : m \in RingServer
  BY ElementOfSeq, LenProperties DEF ToSet
<1>4. a # b
  OBVIOUS
<1>. HIDE DEF a, b
<1>5. \A m \in RingServer : m.hash \in Nat
  BY PlacementAssumption DEF RingServer
<1>6. \A m, n \in RingServer : m.hash = n.hash => m = n
  BY DEF RingServer, NoCollision
<1>7. ASSUME a \in ToSet(r), b \in ToSet(s) PROVE FALSE
  <2>. DEFINE R == ToSet(r)
              S == ToSet(s)
  <2>1. a \in R /\ a \in S /\ b \in R /\ b \in S
    BY <1>2, <1>7 DEF IsSuccessor
  <2>2. a.hash \in Nat /\ b.hash \in Nat
    BY <1>3, <1>5, <2>1
  <2>. HIDE DEF R, S
  <2>3. IsSuccessor(b, R, key) /\ IsSuccessor(a, S, key)
    BY <1>2 DEF R, S
  <2>4. a.hash <= b.hash
    <3>1. CASE key <= b.hash
      BY <2>1, <2>3, <3>1 DEF IsSuccessor
    <3>2. CASE ~(key <= b.hash)
      <4>1. {m \in R : key <= m.hash} = {}
        BY <2>3, <3>2 DEF IsSuccessor
      <4>2. ~(key <= a.hash)
        BY <2>1, <4>1
      <4>3. {m \in S : key <= m.hash} = {}
        BY <2>3, <4>2 DEF IsSuccessor
      <4>. QED BY <2>1, <2>3, <4>3 DEF IsSuccessor
    <3>. QED BY <3>1, <3>2
  <2>5. b.hash <= a.hash
    <3>1. CASE key <= a.hash
      BY <2>1, <2>3, <3>1 DEF IsSuccessor
    <3>2. CASE ~(key <= a.hash)
      <4>1. {m \in S : key <= m.hash} = {}
        BY <2>3, <3>2 DEF IsSuccessor
      <4>2. ~(key <= b.hash)
        BY <2>1, <4>1
      <4>3. {m \in R : key <= m.hash} = {}
        BY <2>3, <4>2 DEF IsSuccessor
      <4>. QED BY <2>1, <2>3, <4>3 DEF IsSuccessor
    <3>. QED BY <3>1, <3>2
  <2>6. a.hash = b.hash
    BY <2>2, <2>4, <2>5
  <2>. QED BY <1>3, <1>4, <1>6, <2>1, <2>6 DEF R
<1>. QED BY <1>7 DEF a, b

\* The part of RingIsStable that one step must satisfy.
RingStep ==
  serverList # <<>> /\ serverList' # <<>> =>
    \A file \in Files, blockIdx \in BlockIndices, n \in 0 .. backupNum - 1 :
      LET key == ReplicaHash(file, blockIdx, n)
          before == Lookup(serverList, key)
          after  == Lookup(serverList', key)
      IN  before # after =>
            after \notin ToSet(serverList) \/ before \notin ToSet(serverList')

\* Without a collision of the addresses' digests, a server that comes or goes
\* moves the keys it takes or leaves and no other.
THEOREM RingStable ==
  ASSUME NoCollision
  PROVE  NSSpec => RingIsStable
<1>1. IInv /\ IInv' /\ [NSNext]_nsVars => [RingStep]_nsVars
  <2>. SUFFICES ASSUME IInv, IInv', serverList # <<>>, serverList' # <<>>,
                       NEW file \in Files, NEW blockIdx \in BlockIndices,
                       NEW n \in 0 .. backupNum - 1,
                       Lookup(serverList, ReplicaHash(file, blockIdx, n)) #
                         Lookup(serverList', ReplicaHash(file, blockIdx, n))
                PROVE  \/ Lookup(serverList', ReplicaHash(file, blockIdx, n))
                            \notin ToSet(serverList)
                       \/ Lookup(serverList, ReplicaHash(file, blockIdx, n))
                            \notin ToSet(serverList')
    BY Zenon DEF RingStep
  <2>1. ReplicaHash(file, blockIdx, n) \in Nat
    BY NameServerAssumption
  <2>2. /\ serverList \in Seq(RingServer) /\ Sorted(serverList)
        /\ serverList' \in Seq(RingServer) /\ Sorted(serverList')
    BY Zenon DEF IInv, RingInv
  <2>. DEFINE key == ReplicaHash(file, blockIdx, n)
              r == serverList
              s == serverList'
  <2>. HIDE DEF key
  <2>3. Lookup(r, key) # Lookup(s, key)
    BY DEF key
  <2>. HIDE DEF r, s
  <2>4. Lookup(s, key) \notin ToSet(r) \/ Lookup(r, key) \notin ToSet(s)
    BY <2>1, <2>2, <2>3, LookupDependsOnMembers DEF key, r, s
  <2>. QED BY <2>4 DEF key, r, s
<1>. QED BY <1>1, Inductive, PTL DEF NSSpec, RingIsStable, RingStep
=============================================================================
