------------------------------ MODULE NameServer ------------------------------
(***************************************************************************)
(* The name server of the distributed file system, NameServer.cpp.  Every  *)
(* handler holds atomicMutex from its first line to each of its returns,   *)
(* so one handler is one action.  A refused request (Status::CANCELLED)    *)
(* leaves the state as it is.  Nothing is written to disk: a name server   *)
(* that dies and is started again knows no file and no data server.        *)
(*                                                                         *)
(* A put moves a file's metadata tempList -> fileList, an rm moves it back *)
(* and erases it; both find their entry by name only, the first that fits. *)
(***************************************************************************)
EXTENDS Placement

VARIABLES
  up,          \* the process is running
  serverList,  \* the registered data servers, sorted by hash
  fileList,    \* metadata of the files that exist
  tempList,    \* metadata of the files being put or removed
  allocated    \* serverList's vector has storage: a server has registered

nsVars == <<up, serverList, fileList, tempList, allocated>>

FileMetaData == [fileName : Files, fileSize : Nat, storeList : Seq(BlockStore)]

\* The index of the first entry of the name, or 0: the loop of every handler.
Find(list, file) == SelectInSeq(list, LAMBDA e : e.fileName = file)

Listed(file) == Find(fileList, file) # 0
Pending(file) == Find(tempList, file) # 0

NSInit ==
  /\ up = TRUE
  /\ serverList = <<>>
  /\ fileList = <<>>
  /\ tempList = <<>>
  /\ allocated = FALSE

-----------------------------------------------------------------------------
(***************************************************************************)
(* Registration.                                                           *)
(***************************************************************************)

\* The results std::sort may leave: the orders of the elements that are sorted.
Sortings(list) ==
  {s \in {[k \in DOMAIN list |-> list[order[k]]] :
            order \in Bijection(DOMAIN list, DOMAIN list)} : Sorted(s)}

\* Mutant: the sort is forgotten.
RegisterUnsorted(server) ==
  /\ serverList' = Append(serverList, server)
  /\ allocated' = TRUE

Register(server) ==
  /\ serverList' \in Sortings(Append(serverList, server))
  /\ allocated' = TRUE

\* A data server that comes back is appended again: no look for its address.
startServer(address, hash) ==
  /\ up
  /\ \/ hash = ServerHash(address) /\ Register([address |-> address, hash |-> hash])
     \/ hash # ServerHash(address) /\ UNCHANGED <<serverList, allocated>>
  /\ UNCHANGED <<up, fileList, tempList>>

FindServer(address) == SelectInSeq(serverList, LAMBDA s : s.address = address)

terminateServer(address, hash) ==
  LET found == FindServer(address)
  IN  /\ up
      /\ \/ /\ hash = ServerHash(address) /\ found # 0
            /\ serverList' = RemoveAt(serverList, found)
         \/ /\ hash # ServerHash(address) \/ found = 0
            /\ UNCHANGED serverList
      /\ UNCHANGED <<up, fileList, tempList, allocated>>

-----------------------------------------------------------------------------
(***************************************************************************)
(* updateBlockInfo: a data server reports the block it has just stored.    *)
(* The request names file and block only, so the entry changed is the first*)
(* of the name in tempList, whoever put it; all replicas of the block, the *)
(* run of its index, take the reported size and hash.                      *)
(***************************************************************************)
FindBlock(list, blockIdx) == SelectInSeq(list, LAMBDA e : e.blockIdx = blockIdx)

\* Mutant: only the first replica of the block takes the report.
InRunFirst(list, first, k) == k = first

InRun(list, first, k) ==
  /\ first <= k
  /\ \A j \in first .. k : list[j].blockIdx = list[first].blockIdx

Report(list, blockIdx, size, hash) ==
  LET first == FindBlock(list, blockIdx)
  IN  [k \in DOMAIN list |->
         IF InRun(list, first, k)
         THEN [list[k] EXCEPT !.blockSize = size, !.blockHash = hash]
         ELSE list[k]]

KnowsBlock(file, blockIdx) ==
  /\ Pending(file)
  /\ FindBlock(tempList[Find(tempList, file)].storeList, blockIdx) # 0

updateBlockInfo(file, blockIdx, size, hash) ==
  /\ up
  /\ \/ /\ KnowsBlock(file, blockIdx)
        /\ tempList' = [tempList EXCEPT ![Find(tempList, file)].storeList =
                          Report(@, blockIdx, size, hash)]
     \/ ~KnowsBlock(file, blockIdx) /\ UNCHANGED tempList
  /\ UNCHANGED <<up, serverList, fileList, allocated>>

-----------------------------------------------------------------------------
(***************************************************************************)
(* put and rm.                                                             *)
(***************************************************************************)
Crash ==
  /\ up' = FALSE
  /\ serverList' = <<>>
  /\ fileList' = <<>>
  /\ tempList' = <<>>
  /\ allocated' = FALSE

\* Mutant: an entry filled from a request whose size was never set.
NewEntryUnsized(ring, file, size) ==
  [fileName |-> file, fileSize |-> -1, storeList |-> StoreList(ring, file, size)]

NewEntry(ring, file, size) ==
  [fileName |-> file, fileSize |-> size, storeList |-> StoreList(ring, file, size)]

\* With no server registered the lookup wraps to begin() = end() and reads a
\* ServerInfo that is not there, once per replica.  A vector that never had
\* storage makes that a null access; one that was emptied by terminateServer
\* still holds the bytes of the element it destroyed.
DeadServer == [address |-> NoServer, hash |-> 0]

ReadsDeadServer(size) == serverList = <<>> /\ size > 0

\* Only fileList is searched: a second put of a name that is still in tempList
\* is accepted.
beginPutTransaction(file, size) ==
  /\ up
  /\ \/ Listed(file) /\ UNCHANGED nsVars
     \/ /\ ~Listed(file) /\ ~ReadsDeadServer(size)
        /\ tempList' = Append(tempList, NewEntry(serverList, file, size))
        /\ UNCHANGED <<up, serverList, fileList, allocated>>
     \/ /\ ~Listed(file) /\ ReadsDeadServer(size)
        /\ Crash
     \/ /\ ~Listed(file) /\ ReadsDeadServer(size) /\ allocated
        /\ tempList' = Append(tempList, NewEntry(<<DeadServer>>, file, size))
        /\ UNCHANGED <<up, serverList, fileList, allocated>>

\* Mutant: the published entry stays in tempList.
PublishCopy(file) ==
  /\ Pending(file)
  /\ fileList' = Append(fileList, tempList[Find(tempList, file)])
  /\ UNCHANGED tempList

\* The first entry of the name in tempList is published, or dropped.
Publish(file) ==
  /\ Pending(file)
  /\ fileList' = Append(fileList, tempList[Find(tempList, file)])
  /\ tempList' = RemoveAt(tempList, Find(tempList, file))

Drop(file) ==
  /\ Pending(file)
  /\ tempList' = RemoveAt(tempList, Find(tempList, file))
  /\ UNCHANGED fileList

Refuse(file) ==
  ~Pending(file) /\ UNCHANGED <<fileList, tempList>>

\* Mutant: the commit drops the entry as the abort does.
commitPutDrops(file) ==
  /\ up
  /\ Drop(file) \/ Refuse(file)
  /\ UNCHANGED <<up, serverList, allocated>>

commitPutTransaction(file) ==
  /\ up
  /\ Publish(file) \/ Refuse(file)
  /\ UNCHANGED <<up, serverList, allocated>>

abortPutTransaction(file) ==
  /\ up
  /\ Drop(file) \/ Refuse(file)
  /\ UNCHANGED <<up, serverList, allocated>>

\* Mutant: the entry is erased and not kept for an abort.
beginRmErases(file) ==
  /\ up
  /\ \/ Listed(file) /\ fileList' = RemoveAt(fileList, Find(fileList, file))
     \/ ~Listed(file) /\ UNCHANGED fileList
  /\ UNCHANGED <<up, serverList, tempList, allocated>>

beginRmTransaction(file) ==
  /\ up
  /\ \/ /\ Listed(file)
        /\ tempList' = Append(tempList, fileList[Find(fileList, file)])
        /\ fileList' = RemoveAt(fileList, Find(fileList, file))
     \/ ~Listed(file) /\ UNCHANGED <<fileList, tempList>>
  /\ UNCHANGED <<up, serverList, allocated>>

commitRmTransaction(file) ==
  /\ up
  /\ Drop(file) \/ Refuse(file)
  /\ UNCHANGED <<up, serverList, allocated>>

abortRmTransaction(file) ==
  /\ up
  /\ Publish(file) \/ Refuse(file)
  /\ UNCHANGED <<up, serverList, allocated>>

-----------------------------------------------------------------------------
(***************************************************************************)
(* get and ls change nothing: what they answer.  An entry's storeList is   *)
(* streamed to the caller; the status is CANCELLED for a file not listed.  *)
(* The answers of beginPut and beginRm are storeLists too.                 *)
(***************************************************************************)
beginGetReply(file) ==
  IF Listed(file) THEN fileList[Find(fileList, file)].storeList ELSE <<>>

commitGetReply(file) == up /\ Listed(file)

\* What a put is answered, if the name server gets that far.
beginPutReply(file, size) ==
  IF Listed(file) \/ (ReadsDeadServer(size) /\ ~allocated) THEN <<>>
  ELSE StoreList(IF ReadsDeadServer(size) THEN <<DeadServer>> ELSE serverList, file, size)

executeLsReply ==
  [k \in DOMAIN fileList |-> [fileName |-> fileList[k].fileName,
                              fileSize |-> fileList[k].fileSize]]
=============================================================================
