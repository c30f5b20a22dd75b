---------------------------- MODULE NameServerSpec ----------------------------
(***************************************************************************)
(* The name server open to any caller: every handler may be called at any  *)
(* time with any argument, which covers every interleaving of any number   *)
(* of clients and data servers, and callers that died half way.            *)
(***************************************************************************)
EXTENDS NameServer

CONSTANTS
  FileSizes,        \* the sizes of the files that are put
  BlockIndices,     \* the block numbers a data server reports
  Reports,          \* the <<size, hash>> pairs a data server reports
  MaxRegistrations, \* bound on the length of serverList
  MaxEntries        \* bound on the entries of fileList and tempList together

ASSUME NameServerAssumption ==
  /\ FileSizes \subseteq Nat
  /\ BlockIndices \subseteq Nat
  /\ \A f \in Files, i \in BlockIndices, n \in 0 .. backupNum - 1 :
       ReplicaHash(f, i, n) \in Nat
  /\ Reports \subseteq Nat \X BlockHashes
  /\ MaxRegistrations \in Nat
  /\ MaxEntries \in Nat

HasRoom == Len(fileList) + Len(tempList) < MaxEntries

\* A caller may send the digest of its own address or a wrong one.
Registration ==
  \E address \in Servers, hash \in {ServerHash(s) : s \in Servers} :
    \/ Len(serverList) < MaxRegistrations /\ startServer(address, hash)
    \/ terminateServer(address, hash)

Reporting ==
  \E file \in Files, blockIdx \in BlockIndices, report \in Reports :
    updateBlockInfo(file, blockIdx, report[1], report[2])

Putting ==
  \E file \in Files :
    \/ \E size \in FileSizes : HasRoom /\ beginPutTransaction(file, size)
    \/ commitPutTransaction(file)
    \/ abortPutTransaction(file)

Removing ==
  \E file \in Files :
    \/ beginRmTransaction(file)
    \/ commitRmTransaction(file)
    \/ abortRmTransaction(file)

\* The operator starts the process again; it begins with empty lists.
Restart == ~up /\ up' = TRUE /\ UNCHANGED <<serverList, fileList, tempList, allocated>>

Kill == up /\ Crash

NSNext == Registration \/ Reporting \/ Putting \/ Removing \/ Kill \/ Restart

NSSpec == NSInit /\ [][NSNext]_nsVars

-----------------------------------------------------------------------------
Entries == ToSet(fileList) \cup ToSet(tempList)

\* The type invariant.
TypeOK ==
  /\ up \in BOOLEAN
  /\ serverList \in Seq(ServerInfo)
  /\ fileList \in Seq(FileMetaData)
  /\ tempList \in Seq(FileMetaData)
  /\ allocated \in BOOLEAN

\* The linear scan of the ring finds the successor of every key a block can
\* have, the lowest server when the key lies above all: true only as long as
\* every registration and termination leaves serverList sorted.
LookupIsSuccessor ==
  \A file \in Files, blockIdx \in BlockIndices, n \in 0 .. backupNum - 1 :
    LET key == ReplicaHash(file, blockIdx, n)
    IN  serverList # <<>> =>
          IsSuccessor(Lookup(serverList, key), ToSet(serverList), key)

\* Every file's metadata keeps the shape that updateBlockInfo, put, get and rm
\* walk over: blocks numbered without a gap with their replicas adjacent, no
\* server twice for a block, and the replicas of a block recorded alike,
\* whatever reports arrive, in whatever order and for whichever put.
StoresWellFormed == \A e \in Entries : WellFormed(e.storeList)

\* A put asks for blocks that cut the file without loss or overlap, and for as
\* many replicas of each as there are servers on the replicas' ring places.
PutCutsFile ==
  serverList # <<>> =>
    \A file \in Files, size \in FileSizes :
      LET list == StoreList(serverList, file, size)
      IN  /\ CutsSize(list, size)
          /\ \A e \in ToSet(list) :
               {x.server : x \in {y \in ToSet(list) : y.blockIdx = e.blockIdx}} =
                 {Lookup(serverList, ReplicaHash(file, e.blockIdx, n)) :
                    n \in 0 .. backupNum - 1}

\* Metadata is published as it was put and withdrawn as it was published: no
\* step changes the entry of a file that exists, makes one from nothing, or
\* loses one other than by moving it to tempList; only a crash loses all.
CommittedIsStable ==
  [][/\ ToSet(fileList') \subseteq Entries
     /\ up' => ToSet(fileList) \subseteq Entries']_nsVars

\* Consistent hashing: when a data server comes or goes, a key moves only to
\* the server that came or from the server that went.
RingIsStable ==
  [][serverList # <<>> /\ serverList' # <<>> =>
       \A file \in Files, blockIdx \in BlockIndices, n \in 0 .. backupNum - 1 :
         LET key == ReplicaHash(file, blockIdx, n)
             before == Lookup(serverList, key)
             after  == Lookup(serverList', key)
         IN  before # after =>
               after \notin ToSet(serverList) \/ before \notin ToSet(serverList')
    ]_nsVars
=============================================================================
