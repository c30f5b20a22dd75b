-------------------------------- MODULE Client --------------------------------
(***************************************************************************)
(* The client, Client.cpp.  Each client runs one operation at a time, get, *)
(* put or rm; an operation is a chain of calls to the name server and the  *)
(* data servers, and between two calls anything may happen.  A call to the *)
(* name server is one step, as its handler is.                             *)
(*                                                                         *)
(* A client's own directory holds its files, cacheDirectory; the pieces of *)
(* a file that get and put leave there for a while are not modelled, each  *)
(* is written afresh before it is read.                                    *)
(***************************************************************************)
EXTENDS DataServer

CONSTANTS Clients

VARIABLES
  pc,        \* pc[c]: the call client c makes next, "idle" between operations
  op,        \* op[c]: "get", "put" or "rm", of which file
  list,      \* list[c]: the storeList the name server answered
  at,        \* at[c]: the iterator over list[c]
  got,       \* got[c]: the blocks downloaded, a function of the block index
  status,    \* status[c]: what the last operation returned
  local,     \* local[c][f]: the client's copy of a file
  bak,       \* bak[c][f]: the copy put renamed to f.bak
  cacheList  \* cacheList[c]: the files put, with the digests of their blocks

clVars == <<pc, op, list, at, got, status, local, bak, cacheList>>
vars == <<nsVars, dsVars, clVars>>

File(c) == op[c].file

Entry(c) == list[c][at[c]]
AtEnd(c) == at[c] > Len(list[c])

Goto(c, label) == pc' = [pc EXCEPT ![c] = label]

\* Mutant: the iterator is not reset.
ForgetList(c) ==
  /\ list' = [list EXCEPT ![c] = <<>>]
  /\ got' = [got EXCEPT ![c] = <<>>]
  /\ UNCHANGED at

\* The local variables of an operation end with it.
Forget(c) ==
  /\ list' = [list EXCEPT ![c] = <<>>]
  /\ at' = [at EXCEPT ![c] = 1]
  /\ got' = [got EXCEPT ![c] = <<>>]

Return(c, result) ==
  /\ Goto(c, "idle")
  /\ status' = [status EXCEPT ![c] = result]
  /\ Forget(c)

\* The list an operation walks over next.
Walk(c, stores) ==
  list' = [list EXCEPT ![c] = stores] /\ at' = [at EXCEPT ![c] = 1]

Advance(c) == at' = [at EXCEPT ![c] = @ + 1]

Start(c, name, file) ==
  /\ pc[c] = "idle"
  /\ op' = [op EXCEPT ![c] = [name |-> name, file |-> file]]
  /\ status' = [status EXCEPT ![c] = "running"]

-----------------------------------------------------------------------------
(***************************************************************************)
(* rm, which is also the first part of put.                                *)
(***************************************************************************)
FindCached(c, file) == SelectInSeq(cacheList[c], LAMBDA e : e.fileName = file)

StartRm(c, file) ==
  /\ Start(c, "rm", file)
  /\ Goto(c, "beginRm")
  /\ UNCHANGED <<nsVars, dsVars, list, at, got, local, bak, cacheList>>

\* Mutant: the cache entry outlives the removal.
BeginRmKeepsCache(c) ==
  /\ pc[c] = "beginRm"
  /\ NameService(beginRmTransaction(File(c)))
  /\ Walk(c, beginGetReply(File(c)))
  /\ Goto(c, "rmBlock")
  /\ UNCHANGED <<dsVars, op, got, status, local, bak, cacheList>>

\* The cache entry has gone first.  A refusal leaves an empty list, and the rm goes
\* on with it.
RmGoesOn(c, stores) ==
  /\ cacheList' = [cacheList EXCEPT ![c] =
       IF FindCached(c, File(c)) = 0 THEN @ ELSE RemoveAt(@, FindCached(c, File(c)))]
  /\ Walk(c, stores)
  /\ Goto(c, "rmBlock")
  /\ UNCHANGED <<dsVars, op, got, status, local, bak>>

BeginRm(c) ==
  /\ pc[c] = "beginRm"
  /\ NameService(beginRmTransaction(File(c)))
  /\ RmGoesOn(c, beginGetReply(File(c)))

RmBlock(c) ==
  /\ pc[c] = "rmBlock" /\ ~AtEnd(c)
  /\ \/ rmBlock(c, File(c), Entry(c)) /\ Goto(c, "rmWait")
     \/ ~BlockMatches(File(c), Entry(c)) /\ Goto(c, "abortRm") /\ UNCHANGED dsVars
  /\ UNCHANGED <<nsVars, op, list, at, got, status, local, bak, cacheList>>

\* The data server answers after the removal.
RmBlockDone(c) ==
  /\ pc[c] = "rmWait"
  /\ \E call \in calls :
       /\ call.caller = c /\ RmRemoves(call)
       /\ \/ RmFinds(call) /\ Goto(c, "rmBlock") /\ Advance(c)
          \/ ~RmFinds(call) /\ Goto(c, "abortRm") /\ UNCHANGED at
  /\ UNCHANGED <<op, list, got, status, local, bak, cacheList>>

\* Mutant: put opens its copy before the backup is renamed.
EndRmTruncates(c, result, copy) ==
  \/ /\ op[c].name = "rm"
     /\ Return(c, result)
     /\ local' = [local EXCEPT ![c][File(c)] = copy]
     /\ UNCHANGED bak
  \/ /\ op[c].name = "put"
     /\ Goto(c, "beginPut") /\ Forget(c)
     /\ local' = [local EXCEPT ![c][File(c)] = <<>>]
     /\ bak' = [bak EXCEPT ![c][File(c)] = Absent]
     /\ UNCHANGED status

\* copy: what an rm leaves of the client's own file.  Put, whatever rm returned,
\* renames its copy back and goes on; opening the file creates a missing one.
EndRm(c, result, copy) ==
  \/ /\ op[c].name = "rm"
     /\ Return(c, result)
     /\ local' = [local EXCEPT ![c][File(c)] = copy]
     /\ UNCHANGED bak
  \/ /\ op[c].name = "put"
     /\ Goto(c, "beginPut") /\ Forget(c)
     /\ local' = [local EXCEPT ![c][File(c)] =
                    IF bak[c][File(c)] # Absent THEN bak[c][File(c)] ELSE <<>>]
     /\ bak' = [bak EXCEPT ![c][File(c)] = Absent]
     /\ UNCHANGED status

AbortRm(c) ==
  /\ pc[c] = "abortRm"
  /\ NameService(abortRmTransaction(File(c)))
  /\ EndRm(c, "CANCELLED", local[c][File(c)])
  /\ UNCHANGED <<dsVars, op, cacheList>>

CommitRm(c) ==
  /\ pc[c] = "rmBlock" /\ AtEnd(c)
  /\ NameService(commitRmTransaction(File(c)))
  /\ EndRm(c, "OK", Absent)
  /\ UNCHANGED <<dsVars, op, cacheList>>

-----------------------------------------------------------------------------
(***************************************************************************)
(* put: the copy is set aside, the file removed from the system, the copy  *)
(* put back, and its blocks stored replica by replica.                     *)
(***************************************************************************)
StartPut(c, file) ==
  /\ Start(c, "put", file)
  /\ Goto(c, "beginRm")
  /\ IF local[c][file] = Absent THEN UNCHANGED <<local, bak>>
     ELSE /\ bak' = [bak EXCEPT ![c][file] = local[c][file]]
          /\ local' = [local EXCEPT ![c][file] = Absent]
  /\ UNCHANGED <<nsVars, dsVars, list, at, got, cacheList>>

\* Refused, put goes on with an empty list.  The cache entry is pushed either way.
PutGoesOn(c, stores) ==
  /\ Walk(c, stores)
  /\ cacheList' = [cacheList EXCEPT ![c] =
                     Append(@, [fileName |-> File(c), storeList |-> <<>>])]
  /\ Goto(c, "putBlock")
  /\ UNCHANGED <<dsVars, op, got, status, local, bak>>

BeginPut(c) ==
  /\ pc[c] = "beginPut"
  /\ NameService(beginPutTransaction(File(c), Len(local[c][File(c)])))
  /\ PutGoesOn(c, IF Len(tempList') > Len(tempList) THEN Last(tempList').storeList ELSE <<>>)

\* The piece of the copy that is the block of an entry.
Piece(c, e) ==
  SubSeq(local[c][File(c)], e.blockIdx * maxBlockSize + 1,
         e.blockIdx * maxBlockSize + e.blockSize)

\* Each entry is cached before its block is sent, without a digest.
CacheEntry(c, e) ==
  cacheList' = [cacheList EXCEPT ![c][Len(cacheList[c])].storeList =
    Append(@, [blockIdx |-> e.blockIdx, blockHash |-> NoHash])]

PutBlock(c) ==
  /\ pc[c] = "putBlock" /\ ~AtEnd(c)
  /\ CacheEntry(c, Entry(c))
  /\ \/ putBlock(c, File(c), Entry(c), Piece(c, Entry(c))) /\ Goto(c, "putWait")
     \/ Entry(c).server.address \notin running /\ Goto(c, "abortPut") /\ UNCHANGED dsVars
  /\ UNCHANGED <<nsVars, op, list, at, got, status, local, bak>>

\* The digest is set on all the replicas of the block cached so far.
Digested(stores, blockIdx, hash) ==
  [k \in DOMAIN stores |->
     IF stores[k].blockIdx = blockIdx THEN [stores[k] EXCEPT !.blockHash = hash]
     ELSE stores[k]]

\* The reply carries the size and the digest of what was received, which is
\* what a client that lives has sent.
PutBlockDone(c) ==
  /\ pc[c] = "putWait"
  /\ \E call \in calls :
       /\ call.caller = c /\ PutCloses(call)
       /\ cacheList' = [cacheList EXCEPT ![c][FindCached(c, File(c))].storeList =
                          Digested(@, call.blockIdx, call.data)]
  /\ Advance(c)
  /\ Goto(c, "putBlock")
  /\ UNCHANGED <<op, list, got, status, local, bak>>

\* Mutant: an rm waits for a data server that died.
CallFailsInPut(c) ==
  /\ \A call \in calls : call.caller # c
  /\ pc[c] = "putWait" /\ Goto(c, "abortPut")
  /\ UNCHANGED <<nsVars, dsVars, op, list, at, got, status, local, bak, cacheList>>

\* The data server died with the call.
CallFails(c) ==
  /\ \A call \in calls : call.caller # c
  /\ \/ pc[c] = "putWait" /\ Goto(c, "abortPut") /\ UNCHANGED at
     \/ pc[c] = "rmWait" /\ Goto(c, "abortRm") /\ UNCHANGED at
     \/ pc[c] = "getWait" /\ Goto(c, "getBlock") /\ Advance(c)
  /\ UNCHANGED <<nsVars, dsVars, op, list, got, status, local, bak, cacheList>>

AbortPut(c) ==
  /\ pc[c] = "abortPut"
  /\ NameService(abortPutTransaction(File(c)))
  /\ Return(c, "CANCELLED")
  /\ UNCHANGED <<dsVars, op, local, bak, cacheList>>

\* The status of the commit is not looked at.
CommitPut(c) ==
  /\ pc[c] = "putBlock" /\ AtEnd(c)
  /\ NameService(commitPutTransaction(File(c)))
  /\ Return(c, "OK")
  /\ UNCHANGED <<dsVars, op, local, bak, cacheList>>

-----------------------------------------------------------------------------
(***************************************************************************)
(* get.                                                                    *)
(***************************************************************************)
Hashes(stores) == [k \in DOMAIN stores |-> stores[k].blockHash]

\* The digests of the last put of this client are those of the answer.
Cached(c, file, stores) ==
  LET found == FindCached(c, file)
  IN  found # 0 /\ Hashes(cacheList[c][found].storeList) = Hashes(stores)

\* Looking up the cache reads storeList[0], also of an empty answer.
ReadsEmptyList(c, stores) == cacheList[c] # <<>> /\ stores = <<>>

StartGet(c, file) ==
  /\ Start(c, "get", file)
  /\ Goto(c, "beginGet")
  /\ UNCHANGED <<nsVars, dsVars, list, at, got, local, bak, cacheList>>

\* The process ends: what it kept in memory is gone, its calls go on.
Die(c) ==
  /\ Return(c, "crashed")
  /\ cacheList' = [cacheList EXCEPT ![c] = <<>>]
  /\ UNCHANGED <<op, local, bak>>

\* commitGet, called when the copy is found up to date, changes nothing and its
\* status is dropped.
GetGoesOn(c, stores) ==
  /\ \/ ReadsEmptyList(c, stores) /\ Die(c)
     \/ /\ ~ReadsEmptyList(c, stores) /\ Cached(c, File(c), stores)
        /\ Return(c, "OK")
        /\ UNCHANGED <<op, local, bak, cacheList>>
     \/ /\ ~ReadsEmptyList(c, stores) /\ ~Cached(c, File(c), stores)
        /\ Walk(c, stores) /\ Goto(c, "getBlock")
        /\ got' = [got EXCEPT ![c] = <<>>]
        /\ UNCHANGED <<op, status, local, bak, cacheList>>
  /\ UNCHANGED dsVars

BeginGet(c) ==
  /\ pc[c] = "beginGet"
  /\ GetGoesOn(c, beginGetReply(File(c)))
  /\ UNCHANGED nsVars

\* lastBlockIdx + 1: the number of blocks downloaded without an error, got
\* holding one element more when the block at hand was tried in vain.
Downloaded(c) == {i \in DOMAIN got[c] : got[c][i].ok}

Receive(c, e, ok, data) ==
  got' = [got EXCEPT ![c] =
    [i \in DOMAIN @ \cup {e.blockIdx} |->
       IF i = e.blockIdx THEN [ok |-> ok, data |-> data] ELSE @[i]]]

\* A replica of a block already downloaded is passed over, another replica of a
\* block that failed is tried, and a block is given up when its last replica
\* failed and the next block's first entry comes up.
GetBlock(c) ==
  LET e    == Entry(c)
      done == Cardinality(Downloaded(c))
  IN  /\ pc[c] = "getBlock" /\ ~AtEnd(c)
      /\ \/ e.blockIdx < done /\ Advance(c) /\ UNCHANGED <<dsVars, pc, status, list, got>>
         \/ /\ e.blockIdx = done
            /\ getBlock(c, File(c), e) /\ Goto(c, "getWait")
            /\ Receive(c, e, FALSE, <<>>)
            /\ UNCHANGED <<status, list, at>>
         \/ /\ e.blockIdx = done /\ ~SizeMatches(File(c), e)
            /\ Receive(c, e, FALSE, <<>>) /\ Advance(c)
            /\ UNCHANGED <<dsVars, pc, status, list>>
         \/ e.blockIdx > done /\ Return(c, "CANCELLED") /\ UNCHANGED dsVars
      /\ UNCHANGED <<nsVars, op, local, bak, cacheList>>

\* What the client has of the block at hand, and the data server's last unit.
Received(c) == got[c][Entry(c).blockIdx].data
Buffer(c) == IF Received(c) = <<>> THEN Garbage ELSE Last(Received(c))

GetUnit(c) ==
  /\ pc[c] = "getWait" /\ Len(Received(c)) < Entry(c).blockSize
  /\ \E call \in calls :
       /\ call.caller = c
       /\ \E unit \in Reads(call, Len(Received(c)) + 1, Buffer(c)) :
            Receive(c, Entry(c), FALSE, Append(Received(c), unit))
       /\ GetReads(call, Len(Received(c)) + 1)
  /\ UNCHANGED <<nsVars, pc, op, list, at, status, local, bak, cacheList>>

\* Mutant: the digest of what was streamed is not compared.
GetBlockDoneAny(c) ==
  /\ pc[c] = "getWait" /\ Len(Received(c)) = Entry(c).blockSize
  /\ calls' = {call \in calls : call.caller # c}
  /\ Receive(c, Entry(c), TRUE, Received(c))
  /\ Advance(c) /\ Goto(c, "getBlock")
  /\ UNCHANGED <<nsVars, processes, disk, op, list, status, local, bak, cacheList>>

\* All is streamed; the status tells whether it has the digest asked for.
GetBlockDone(c) ==
  /\ pc[c] = "getWait" /\ Len(Received(c)) = Entry(c).blockSize
  /\ \E call \in calls : call.caller = c
  /\ calls' = {call \in calls : call.caller # c}
  /\ Receive(c, Entry(c), Received(c) = Entry(c).blockHash, Received(c))
  /\ Advance(c) /\ Goto(c, "getBlock")
  /\ UNCHANGED <<nsVars, processes, disk, op, list, status, local, bak, cacheList>>

\* Mutant: the whole buffer is copied, whatever the size of the block.
ComposedWhole(c, e) ==
  [k \in 1 .. maxBlockSize |->
     IF k <= Len(got[c][e.blockIdx].data) THEN got[c][e.blockIdx].data[k] ELSE Garbage]

\* A block is copied with the size the name server gave; what the download did
\* not bring is what the read buffer held.
Composed(c, e) ==
  [k \in 1 .. e.blockSize |->
     IF k <= Len(got[c][e.blockIdx].data) THEN got[c][e.blockIdx].data[k] ELSE Garbage]

FirstOfBlock(stores, k) == k = 1 \/ stores[k].blockIdx # stores[k - 1].blockIdx

Composition(c) ==
  FlattenSeq([k \in DOMAIN list[c] |->
    IF FirstOfBlock(list[c], k) THEN Composed(c, list[c][k]) ELSE <<>>])

\* No error is left to find after the loop: also with the last block missing
\* the file is composed.  commitGet changes nothing and its status is dropped.
CommitGet(c) ==
  /\ pc[c] = "getBlock" /\ AtEnd(c)
  /\ local' = [local EXCEPT ![c][File(c)] = Composition(c)]
  /\ Return(c, "OK")
  /\ UNCHANGED <<nsVars, dsVars, op, bak, cacheList>>

-----------------------------------------------------------------------------
(***************************************************************************)
(* What happens around the operations.                                     *)
(***************************************************************************)

\* What has arrived of an answer that breaks off; of nothing but an error the call
\* has failed.
Beginnings(stores) == {SubSeq(stores, 1, n) : n \in 1 .. Len(stores) - 1}

\* The name server dies while it streams its answer to a begin.  The error is
\* printed, and the client takes what has arrived for the whole list.
AnswerBreaks(c) ==
  LET copy == local[c][File(c)]
  IN  /\ Crash
      /\ \/ /\ pc[c] = "beginRm"
            /\ \E stores \in Beginnings(beginGetReply(File(c))) : RmGoesOn(c, stores)
         \/ /\ pc[c] = "beginPut"
            /\ \E stores \in Beginnings(beginPutReply(File(c), Len(copy))) : PutGoesOn(c, stores)
         \/ /\ pc[c] = "beginGet"
            /\ \E stores \in Beginnings(beginGetReply(File(c))) : GetGoesOn(c, stores)

\* The user writes a new content into a file of the client's directory.
Edit(c, file, content) ==
  /\ pc[c] = "idle"
  /\ local' = [local EXCEPT ![c][file] = content]
  /\ UNCHANGED <<nsVars, dsVars, pc, op, list, at, got, status, bak, cacheList>>

\* What a data server received of a block when the stream broke.
Cut(call, n) ==
  IF call.method = "putBlock" /\ ~call.reported
  THEN [call EXCEPT !.caller = Orphan, !.data = SubSeq(@, 1, n),
                    !.left = SubSeq(call.data, Len(call.data) - Len(@) + 1, n)]
  ELSE [call EXCEPT !.caller = Orphan]

\* The calls of the client go on without it, a getBlock to no effect: the end of
\* a broken stream is taken for the end of the block, but never before the first
\* unit.
CrashClient(c) ==
  /\ Die(c)
  /\ \/ /\ \A call \in calls : call.caller = c => call.method = "getBlock"
        /\ calls' = {call \in calls : call.caller # c}
     \/ \E call \in calls :
          /\ call.caller = c /\ call.method # "getBlock"
          /\ \E n \in Max({1, Len(call.data) - Len(call.left)}) .. Max({1, Len(call.data)}) :
               calls' = Replace(call, Cut(call, n))
  /\ UNCHANGED <<nsVars, processes, disk>>
=============================================================================
