---------------------------------- MODULE DFS ----------------------------------
(***************************************************************************)
(* The whole file system: clients, data servers and the name server, with  *)
(* the crashes of each.                                                    *)
(***************************************************************************)
EXTENDS Client

CONSTANTS
  BlockIndices, \* the block numbers the contents come to
  Contents,   \* what users write into their files
  Operations, \* the operations clients run, of "get", "put", "rm"
  Users,      \* the clients that put and rm; the others only get
  MaxOps,     \* bound on the operations each user starts
  MaxGets,    \* bound on the gets of a client that only gets
  MaxEdits,   \* bound on the edits of all users
  Faults,     \* what may crash, of "client", "data", "name"
  MaxFaults   \* bound on the crashes

\* What a block may be made of.
Units == {Garbage} \cup UNION {ToSet(content) : content \in Contents}

ASSUME DFSAssumption ==
  /\ IsFiniteSet(Servers) /\ Users \subseteq Clients /\ Orphan \notin Clients
  /\ Contents \subseteq Seq(Units)
  /\ \A n \in 1 .. maxBlockSize : [1 .. n -> Units] \subseteq BlockHashes
  /\ Absent \notin BlockHashes

VARIABLES
  ops,    \* operations started by each client
  edits,  \* edits made
  faults  \* crashes so far

dfsVars == <<vars, ops, edits, faults>>
bounds == <<ops, edits, faults>>

\* Every data server has started once, no file was ever put.
Init ==
  /\ up = TRUE /\ allocated = TRUE
  /\ serverList \in Sortings([k \in 1 .. Cardinality(Servers) |->
                       LET s == SetToSeq(Servers)[k]
                       IN  [address |-> s, hash |-> ServerHash(s)]])
  /\ fileList = <<>> /\ tempList = <<>>
  /\ starting = {} /\ running = Servers
  /\ disk = [s \in Servers |-> [b \in Files \X BlockIndices |-> Absent]]
  /\ calls = {}
  /\ pc = [c \in Clients |-> "idle"]
  /\ op = [c \in Clients |-> [name |-> "none", file |-> CHOOSE f \in Files : TRUE]]
  /\ list = [c \in Clients |-> <<>>]
  /\ at = [c \in Clients |-> 1]
  /\ got = [c \in Clients |-> <<>>]
  /\ status = [c \in Clients |-> "none"]
  /\ local = [c \in Clients |-> [f \in Files |-> Absent]]
  /\ bak = [c \in Clients |-> [f \in Files |-> Absent]]
  /\ cacheList = [c \in Clients |-> <<>>]
  /\ ops = [c \in Clients |-> 0] /\ edits = 0 /\ faults = 0

-----------------------------------------------------------------------------
Begin(c) ==
  /\ ops[c] < IF c \in Users THEN MaxOps ELSE MaxGets
  /\ \E f \in Files :
       \/ "put" \in Operations /\ c \in Users /\ StartPut(c, f)
       \/ "rm" \in Operations /\ c \in Users /\ StartRm(c, f)
       \/ "get" \in Operations /\ StartGet(c, f)
  /\ ops' = [ops EXCEPT ![c] = @ + 1]
  /\ UNCHANGED <<edits, faults>>

UserEdits ==
  /\ edits < MaxEdits
  /\ \E c \in Users, f \in Files, content \in Contents :
       local[c][f] # content /\ Edit(c, f, content)
  /\ edits' = edits + 1
  /\ UNCHANGED <<ops, faults>>

\* The next step of an operation that has begun.
Step(c) ==
  /\ \/ BeginRm(c) \/ RmBlock(c) \/ RmBlockDone(c) \/ AbortRm(c) \/ CommitRm(c)
     \/ BeginPut(c) \/ PutBlock(c) \/ PutBlockDone(c) \/ AbortPut(c) \/ CommitPut(c)
     \/ BeginGet(c) \/ GetBlock(c) \/ GetUnit(c) \/ GetBlockDone(c) \/ CommitGet(c)
     \/ CallFails(c)
  /\ UNCHANGED bounds

\* The steps of a data server inside a call, and the end of a call nobody
\* waits for.
Serve(call) ==
  /\ \/ PutWrites(call) \/ PutReports(call)
     \/ call.caller = Orphan /\ (PutCloses(call) \/ RmRemoves(call))
  /\ UNCHANGED <<clVars, bounds>>

Crashes ==
  /\ faults < MaxFaults
  /\ \/ "client" \in Faults /\ \E c \in Clients : CrashClient(c)
     \/ /\ "data" \in Faults
        /\ \E s \in Servers : CrashDataServer(s) /\ UNCHANGED clVars
     \/ /\ "name" \in Faults /\ up
        /\ \/ Crash /\ UNCHANGED <<dsVars, clVars>>
           \/ \E c \in Clients : AnswerBreaks(c)
  /\ faults' = faults + 1
  /\ UNCHANGED <<ops, edits>>

Restarts ==
  /\ \/ \E s \in Servers : (RegisterDataServer(s) \/ Listen(s)) /\ UNCHANGED clVars
     \/ /\ ~up /\ up' = TRUE
        /\ UNCHANGED <<serverList, fileList, tempList, allocated, dsVars, clVars>>
  /\ UNCHANGED bounds

Next ==
  \/ \E c \in Clients : Begin(c) \/ Step(c)
  \/ \E call \in calls : Serve(call)
  \/ UserEdits \/ Crashes \/ Restarts

Spec == Init /\ [][Next]_dfsVars

\* Client processes and the threads that serve calls are scheduled; that anyone
\* starts an operation, crashes or restarts anything is not assumed.
Fairness ==
  /\ \A c \in Clients : WF_dfsVars(Step(c))
  /\ WF_dfsVars(\E call \in calls : Serve(call))

FairSpec == Spec /\ Fairness

-----------------------------------------------------------------------------
\* The type invariant.
TypeOK ==
  /\ up \in BOOLEAN /\ allocated \in BOOLEAN
  /\ serverList \in Seq(ServerInfo)
  /\ fileList \in Seq(FileMetaData) /\ tempList \in Seq(FileMetaData)
  /\ starting \subseteq Servers /\ running \subseteq Servers \ starting
  /\ \A s \in Servers : \A b \in DOMAIN disk[s] :
       disk[s][b] = Absent \/ disk[s][b] \in BlockHashes \cup {<<>>}
  /\ \A call \in calls :
       /\ call.method \in {"getBlock", "putBlock", "rmBlock"}
       /\ call.caller \in Clients \cup {Orphan} /\ call.server \in running
       /\ call.method = "putBlock" => call.data \in BlockHashes
  /\ \A c \in Clients :
       /\ pc[c] \in {"idle", "beginRm", "rmBlock", "rmWait", "abortRm", "beginPut",
                     "putBlock", "putWait", "abortPut", "beginGet", "getBlock", "getWait"}
       /\ list[c] \in Seq(BlockStore) /\ at[c] \in 1 .. Len(list[c]) + 1
       /\ status[c] \in {"none", "running", "OK", "CANCELLED", "crashed"}

NoFault == faults = 0

\* Until something crashes, everything a listed file names is on the disks: each
\* replica of each of its blocks, with the content its digest was taken of. It
\* needs the report of a data server to reach the entry of its own put, and
\* every replica removed only while the entry is off fileList.
CommittedIsStored ==
  NoFault =>
    \A e \in ToSet(fileList) : \A store \in ToSet(e.storeList) :
      disk[store.server.address][<<e.fileName, store.blockIdx>>] = store.blockHash

\* Between operations every block on a disk belongs to a listed file that counts
\* on it: put and rm leave no block behind.
NoOrphanBlocks ==
  (\A c \in Clients : pc[c] = "idle") =>
    \A s \in Servers : \A b \in DOMAIN disk[s] :
      disk[s][b] # Absent =>
        \E e \in ToSet(fileList) : \E store \in ToSet(e.storeList) :
          b = <<e.fileName, store.blockIdx>> /\ s = store.server.address

\* No two listed files have one name: what beginPutTransaction refuses a file
\* that "already exists!" for.
ListedOnce ==
  \A j, k \in DOMAIN fileList : fileList[j].fileName = fileList[k].fileName => j = k

\* With one client that writes, a name is known at most once, be the file there,
\* on its way in or on its way out, whatever crashed before: the rm that every
\* put begins with clears the entry a dead put or rm has left.
UniqueNames ==
  \A f \in Files :
    Cardinality({k \in DOMAIN fileList : fileList[k].fileName = f})
      + Cardinality({k \in DOMAIN tempList : tempList[k].fileName = f}) <= 1

Returns(c, name, result) ==
  /\ pc[c] # "idle" /\ pc'[c] = "idle"
  /\ op[c].name = name /\ status'[c] = result

\* The content a storeList stands for.
ContentOf(stores) ==
  FlattenSeq([k \in DOMAIN stores |->
    IF FirstOfBlock(stores, k) THEN stores[k].blockHash ELSE <<>>])

\* A put that returns OK has done its work: the file is listed, with the digests
\* of the user's copy.
PutIsListed ==
  [][\A c \in Clients : Returns(c, "put", "OK") =>
       Listed(File(c))' /\ ContentOf(beginGetReply(File(c)))' = local'[c][File(c)]]_dfsVars

\* A get that downloads and returns OK leaves the user with the file whose
\* digests the name server answered.
GetIsListed ==
  [][\A c \in Clients : pc[c] = "getBlock" /\ Returns(c, "get", "OK") =>
       local'[c][File(c)] = ContentOf(list[c])]_dfsVars

\* What the cache says of a file is what the name server says: between the
\* operations of a lone user, every cached entry has the digests of the listed
\* file, so that "already cached!" never compares with a version before last.
CacheIsListed ==
  Cardinality(Users) = 1 /\ NoFault =>
    \A c \in Users : pc[c] = "idle" =>
      \A entry \in ToSet(cacheList[c]) :
        /\ Listed(entry.fileName)
        /\ Hashes(entry.storeList) = Hashes(beginGetReply(entry.fileName))

\* Whatever puts and removals go on meanwhile, and whatever calls of dead clients
\* still write: when every block of a get came without an error, the file composed
\* of them is, block by block, what the list the get works from names, never a
\* mixture of two versions. That list is a version whole, unless the name server
\* died in its answer: then it is the beginning that arrived.
NoMixedVersions ==
  \A c \in Clients :
    (pc[c] = "getBlock" /\ AtEnd(c) /\ list[c] # <<>>
       /\ {e.blockIdx : e \in ToSet(list[c])} = Downloaded(c)) =>
      Composition(c) = ContentOf(list[c])

\* Every operation returns, whoever crashes while it runs.
OpsTerminate == \A c \in Clients : pc[c] # "idle" ~> pc[c] = "idle"
=============================================================================
