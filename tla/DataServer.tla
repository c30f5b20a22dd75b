------------------------------ MODULE DataServer ------------------------------
(***************************************************************************)
(* The data servers, DataServer.cpp, on top of the name server they report *)
(* to.  A data server holds no lock: the calls it serves interleave step by*)
(* step, two calls may have one block file open, and a call goes on to its *)
(* end after its client died.  Block files are on disk and survive a crash *)
(* of the process; the calls do not.                                       *)
(*                                                                         *)
(* The content of a block is the sequence of the units it is streamed in.  *)
(* A digest is represented by the content it is the digest of, and         *)
(* blockSize counts units.                                                 *)
(***************************************************************************)
EXTENDS NameServer

CONSTANTS
  Absent,   \* what is where there is no file
  Orphan,   \* the caller of a call whose client died
  Garbage   \* a unit nobody sent: a hole in a file, stale memory

VARIABLES
  starting, \* the data servers that are registered and do not listen yet
  running,  \* the data servers that listen
  disk,     \* disk[s][<<file, blockIdx>>]: the block files of each server
  calls     \* the block calls being served

processes == <<starting, running>>
dsVars == <<processes, disk, calls>>

\* data: the units that make the block; left: those still to be written, in a
\* getBlock what was in a file removed meanwhile; linked: the open file is still
\* the one its name leads to; short: a read found the file's end too early.
NewCall(method, caller, file, e, data) ==
  [method |-> method, caller |-> caller, server |-> e.server.address,
   file |-> file, blockIdx |-> e.blockIdx, data |-> data, left |-> data,
   linked |-> TRUE, reported |-> FALSE, short |-> FALSE]

BlockName(call) == <<call.file, call.blockIdx>>

RemovalsAt(s) == {call \in calls : call.server = s /\ call.method = "rmBlock"}

Replace(call, next) == (calls \ {call}) \cup {next}

\* A call to the name server: its handler, or a failed call when it is down.
NameService(handler) == handler \/ (~up /\ UNCHANGED nsVars)

\* RunServer: the constructor registers, and exits when that fails; only then
\* does the server begin to listen.
RegisterDataServer(s) ==
  /\ s \notin starting \cup running /\ up
  /\ startServer(s, ServerHash(s))
  /\ starting' = starting \cup {s}
  /\ UNCHANGED <<running, disk, calls>>

Listen(s) ==
  /\ s \in starting
  /\ starting' = starting \ {s}
  /\ running' = running \cup {s}
  /\ UNCHANGED <<disk, calls, nsVars>>

\* server->Wait() never returns, so a data server ends by being killed and
\* ~DataServerImp, the only caller of terminateServer, never runs.  It may have
\* removed a block and not answered yet.
CrashDataServer(s) ==
  /\ s \in starting \cup running
  /\ starting' = starting \ {s}
  /\ running' = running \ {s}
  /\ calls' = {call \in calls : call.server # s}
  /\ \E removed \in SUBSET {BlockName(call) : call \in RemovalsAt(s)} :
       disk' = [disk EXCEPT ![s] =
                  [b \in DOMAIN @ |-> IF b \in removed THEN Absent ELSE @[b]]]
  /\ UNCHANGED nsVars

-----------------------------------------------------------------------------
(***************************************************************************)
(* getBlock.  The file is measured, then streamed unit by unit, and the    *)
(* digest of what was streamed is compared at the end: the answer is known *)
(* only after the content has gone out.                                    *)
(***************************************************************************)
Block(file, e) == disk[e.server.address][<<file, e.blockIdx>>]

\* The file is there and has the size of the request ...
SizeMatches(file, e) ==
  /\ e.server.address \in running
  /\ Block(file, e) # Absent
  /\ Len(Block(file, e)) = e.blockSize

\* ... and its digest.
BlockMatches(file, e) == SizeMatches(file, e) /\ Block(file, e) = e.blockHash

getBlock(caller, file, e) ==
  /\ SizeMatches(file, e)
  /\ calls' = calls \cup {NewCall("getBlock", caller, file, e, <<>>)}
  /\ UNCHANGED <<processes, disk>>

\* The file a getBlock has open may have been removed; it is then still there
\* for those who have it open.
OpenFile(call) == IF call.linked THEN disk[call.server][BlockName(call)] ELSE call.left

RemovedWriters(call) ==
  {w \in calls : /\ w.method = "putBlock" /\ ~w.linked
                 /\ w.server = call.server /\ BlockName(w) = BlockName(call)}

\* What the next read brings, unit number k.  Beyond the end it leaves the
\* buffer as the last read left it, and every later read fails too; a removed
\* file may still be written by a putBlock that has it open.
Reads(call, k, buffer) ==
  IF call.short \/ k > Len(OpenFile(call)) THEN {buffer}
  ELSE {OpenFile(call)[k]} \cup
       {w.data[k] : w \in {x \in RemovedWriters(call) : ~call.linked /\ k <= Len(x.data)}}

GetReads(call, k) ==
  /\ calls' = Replace(call, [call EXCEPT !.short = @ \/ k > Len(OpenFile(call))])
  /\ UNCHANGED <<processes, disk>>

-----------------------------------------------------------------------------
(***************************************************************************)
(* putBlock.                                                               *)
(***************************************************************************)

\* The first unit has arrived; opening the file truncates it.
putBlock(caller, file, e, data) ==
  /\ e.server.address \in running
  /\ disk' = [disk EXCEPT ![e.server.address][<<file, e.blockIdx>>] = <<>>]
  /\ calls' = calls \cup {NewCall("putBlock", caller, file, e, data)}
  /\ UNCHANGED processes

\* The file after the next unit is written at the call's own offset, whatever
\* another call on the same file has left there.
AfterWrite(call) ==
  LET old == disk[call.server][BlockName(call)]
      at  == Len(call.data) - Len(call.left) + 1
  IN  [k \in 1 .. Max({at, Len(old)}) |->
         IF k = at THEN Head(call.left) ELSE IF k <= Len(old) THEN old[k] ELSE Garbage]

\* A file that was removed since it was opened is written unseen.
WriteUnit(call) ==
  IF call.linked /\ call.left # <<>>
  THEN disk' = [disk EXCEPT ![call.server][BlockName(call)] = AfterWrite(call)]
  ELSE UNCHANGED disk

PutWrites(call) ==
  /\ call.method = "putBlock" /\ ~call.reported /\ call.left # <<>>
  /\ WriteUnit(call)
  /\ calls' = Replace(call, [call EXCEPT !.left = Tail(@)])
  /\ UNCHANGED <<processes, nsVars>>

\* Mutant: the block is stored and not reported.
PutReportsNothing(call) ==
  /\ call.method = "putBlock" /\ ~call.reported /\ Len(call.left) <= 1
  /\ calls' = Replace(call, [call EXCEPT !.reported = TRUE])
  /\ UNCHANGED <<processes, disk, nsVars>>

\* The report goes out before the file is closed: the last unit may still be
\* in the stream's buffer.  Its failure does not fail the call.
PutReports(call) ==
  /\ call.method = "putBlock" /\ ~call.reported /\ Len(call.left) <= 1
  /\ NameService(updateBlockInfo(call.file, call.blockIdx, Len(call.data), call.data))
  /\ calls' = Replace(call, [call EXCEPT !.reported = TRUE])
  /\ UNCHANGED <<processes, disk>>

PutCloses(call) ==
  /\ call.method = "putBlock" /\ call.reported
  /\ WriteUnit(call)
  /\ calls' = calls \ {call}
  /\ UNCHANGED <<processes, nsVars>>

-----------------------------------------------------------------------------
(***************************************************************************)
(* rmBlock: the file is compared with the request, closed, then removed by *)
(* name, whatever it is by then.                                           *)
(***************************************************************************)
rmBlock(caller, file, e) ==
  /\ BlockMatches(file, e)
  /\ calls' = calls \cup {NewCall("rmBlock", caller, file, e, <<>>)}
  /\ UNCHANGED <<processes, disk>>

\* A getBlock keeps what it has open; a putBlock goes on writing unseen.
Unlink(call, other) ==
  IF other.linked /\ other.server = call.server /\ BlockName(other) = BlockName(call)
  THEN [other EXCEPT !.linked = FALSE,
                     !.left = IF other.method = "getBlock" THEN OpenFile(other) ELSE @]
  ELSE other

RmFinds(call) == disk[call.server][BlockName(call)] # Absent

\* Mutant: the block is compared and never removed.
RmRemovesNothing(call) ==
  /\ call.method = "rmBlock"
  /\ calls' = calls \ {call}
  /\ UNCHANGED <<processes, disk, nsVars>>

RmRemoves(call) ==
  /\ call.method = "rmBlock"
  /\ disk' = [disk EXCEPT ![call.server][BlockName(call)] = Absent]
  /\ calls' = IF RmFinds(call)
              THEN {Unlink(call, other) : other \in calls \ {call}}
              ELSE calls \ {call}
  /\ UNCHANGED <<processes, nsVars>>
=============================================================================
