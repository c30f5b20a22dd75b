-------------------------- MODULE NameServerThreads --------------------------
(***************************************************************************)
(* The threads of the name server, NameServer.cpp, below the atomic        *)
(* handlers of NameServer.tla: a handler waits for atomicMutex, looks for  *)
(* its entry, streams its answer while it holds the mutex and an iterator  *)
(* into fileList, and releases the mutex on each of its returns.  A client *)
(* reads an answer to its end before it goes on, and while it waits for a  *)
(* putBlock the data server waits for updateBlockInfo.                     *)
(***************************************************************************)
EXTENDS Integers, SequencesExt

CONSTANTS
  Clients, Files,
  Free,       \* the mutex is not held
  Blocks,     \* the entries in the storeList of a file
  Window,     \* the replies a stream holds before Write blocks
  Operations, \* those clients run, of "get", "put", "rm", "ls"
  MaxOps,     \* bound on the operations of each client
  MaxCrashes  \* bound on the clients that die

VARIABLES
  mutex,    \* the thread that holds atomicMutex
  handler,  \* handler[t]: the handler thread t runs
  fileList, \* the names of the files that exist
  tempList, \* those of the files being put or removed
  call,     \* call[c]: the call client c is in, "idle", "storing" or "dead"
  op,       \* op[c]: the client's operation and its file
  window,   \* window[c]: the replies written and not yet read
  ops,      \* operations begun by each client
  crashes   \* clients that died

listVars == <<fileList, tempList>>
clientVars == <<call, op, ops, crashes>>
vars == <<mutex, handler, listVars, window, clientVars>>

\* A client has one call to the name server at a time, and one data server at a
\* time reports a block of it.
Threads == Clients \X {"call", "report"}

ASSUME ThreadsAssumption ==
  /\ Files # {} /\ Free \notin Threads
  /\ Blocks \in Nat /\ Window \in Nat
  /\ Operations \subseteq {"get", "put", "rm", "ls"}

Nothing == [method |-> "none", step |-> "done", left |-> 0, stale |-> FALSE]
Waiting(method) == [method |-> method, step |-> "lock", left |-> 0, stale |-> FALSE]

Init ==
  /\ mutex = Free /\ handler = [t \in Threads |-> Nothing]
  /\ fileList = <<>> /\ tempList = <<>>
  /\ call = [c \in Clients |-> "idle"]
  /\ op = [c \in Clients |-> [name |-> "none", file |-> CHOOSE f \in Files : TRUE]]
  /\ window = [c \in Clients |-> 0]
  /\ ops = [c \in Clients |-> 0] /\ crashes = 0

-----------------------------------------------------------------------------
(***************************************************************************)
(* The handlers.                                                           *)
(***************************************************************************)
File(t) == op[t[1]].file
Method(t) == handler[t].method

Lock(t) ==
  /\ handler[t].step = "lock" /\ mutex = Free
  /\ mutex' = t
  /\ handler' = [handler EXCEPT ![t].step = "find"]
  /\ UNCHANGED <<listVars, window, clientVars>>

\* A return releases the mutex; what it did to fileList leaves every iterator
\* into the vector stale.
Return(t) ==
  /\ mutex' = Free
  /\ handler' = [u \in Threads |->
       IF u = t THEN Nothing
       ELSE [handler[u] EXCEPT !.stale =
              @ \/ (handler[u].step = "stream" /\ fileList' # fileList)]]

Searched(t) ==
  IF Method(t) \in {"beginGet", "commitGet", "abortGet", "beginPut", "beginRm"}
  THEN fileList ELSE tempList

Found(t) == SelectInSeq(Searched(t), LAMBDA f : f = File(t))

\* All refuse a file that is not there, but for beginPut, which refuses one
\* that is.
Refused(t) == Method(t) # "executeLs" /\ ((Method(t) = "beginPut") <=> (Found(t) # 0))

Streams(method) == method \in {"beginGet", "beginPut", "beginRm", "executeLs"}

\* Mutant: the refusal returns with the mutex held.
RefuseLocked(t) ==
  /\ handler[t].step = "find" /\ Refused(t)
  /\ handler' = [handler EXCEPT ![t] = Nothing]
  /\ UNCHANGED <<mutex, listVars, window, clientVars>>

Refuse(t) ==
  /\ handler[t].step = "find" /\ Refused(t)
  /\ UNCHANGED <<listVars, window, clientVars>>
  /\ Return(t)

\* The commits and aborts, and updateBlockInfo.
Act(t) ==
  /\ handler[t].step = "find" /\ ~Refused(t) /\ ~Streams(Method(t))
  /\ fileList' = IF Method(t) \in {"commitPut", "abortRm"} THEN Append(fileList, File(t))
                 ELSE fileList
  /\ tempList' = IF Method(t) \in {"commitPut", "abortPut", "commitRm", "abortRm"}
                 THEN RemoveAt(tempList, Found(t)) ELSE tempList
  /\ Return(t)
  /\ UNCHANGED <<window, clientVars>>

\* Mutant: the mutex is released before the answer is streamed.
StreamUnlocked(t) ==
  /\ handler[t].step = "find" /\ ~Refused(t) /\ Streams(Method(t))
  /\ tempList' = IF Method(t) \in {"beginPut", "beginRm"} THEN Append(tempList, File(t))
                 ELSE tempList
  /\ handler' = [handler EXCEPT ![t].step = "stream",
       ![t].left = IF Method(t) = "executeLs" THEN Len(fileList) ELSE Blocks]
  /\ mutex' = Free
  /\ UNCHANGED <<fileList, window, clientVars>>

StartStream(t) ==
  /\ handler[t].step = "find" /\ ~Refused(t) /\ Streams(Method(t))
  /\ tempList' = IF Method(t) \in {"beginPut", "beginRm"} THEN Append(tempList, File(t))
                 ELSE tempList
  /\ handler' = [handler EXCEPT ![t].step = "stream",
       ![t].left = IF Method(t) = "executeLs" THEN Len(fileList) ELSE Blocks]
  /\ UNCHANGED <<mutex, fileList, window, clientVars>>

\* Mutant: Write does not wait for the client.
WriteAhead(t) ==
  /\ handler[t].step = "stream" /\ handler[t].left > 0
  /\ window' = [window EXCEPT ![t[1]] = @ + 1]
  /\ handler' = [handler EXCEPT ![t].left = @ - 1]
  /\ UNCHANGED <<mutex, listVars, clientVars>>

\* Write blocks while the client does not read, and fails, which nobody looks
\* at, when the client is dead.
Write(t) ==
  /\ handler[t].step = "stream" /\ handler[t].left > 0
  /\ \/ call[t[1]] # "dead" /\ window[t[1]] < Window
        /\ window' = [window EXCEPT ![t[1]] = @ + 1]
     \/ call[t[1]] = "dead" /\ UNCHANGED window
  /\ handler' = [handler EXCEPT ![t].left = @ - 1]
  /\ UNCHANGED <<mutex, listVars, clientVars>>

\* beginRm erases the entry only now, through the iterator of its search.
EndStream(t) ==
  /\ handler[t].step = "stream" /\ handler[t].left = 0
  /\ fileList' = IF Method(t) = "beginRm" THEN RemoveAt(fileList, Found(t)) ELSE fileList
  /\ Return(t)
  /\ UNCHANGED <<tempList, window, clientVars>>

HandlerStep(t) ==
  \/ Lock(t) \/ Refuse(t) \/ Act(t) \/ StartStream(t) \/ Write(t) \/ EndStream(t)

-----------------------------------------------------------------------------
(***************************************************************************)
(* The clients.                                                            *)
(***************************************************************************)

\* The calls that may follow a call: of the answer only the choice between
\* commit and abort is kept, and of the blocks of a put one that is stored and one
\* that is not.
After(operation, method) ==
  CASE method = "beginGet" -> {"commitGet", "abortGet"}
    [] method = "beginRm" -> {"commitRm", "abortRm"}
    [] method = "beginPut" -> {"storing", "commitPut", "abortPut"}
    [] method = "storing" -> {"commitPut", "abortPut"}
    [] method \in {"commitRm", "abortRm"} /\ operation = "put" -> {"beginPut"}
    [] OTHER -> {"idle"}

\* A block is stored through a data server, which reports it.
Enter(c, next) ==
  /\ call' = [call EXCEPT ![c] = next]
  /\ handler' =
       CASE next = "idle" -> handler
         [] next = "storing" -> [handler EXCEPT ![<<c, "report">>] = Waiting("updateBlockInfo")]
         [] OTHER -> [handler EXCEPT ![<<c, "call">>] = Waiting(next)]

First(operation) ==
  CASE operation = "get" -> "beginGet"
    [] operation \in {"put", "rm"} -> "beginRm"
    [] operation = "ls" -> "executeLs"

Begin(c) ==
  /\ call[c] = "idle" /\ ops[c] < MaxOps
  /\ \E name \in Operations, f \in Files :
       /\ op' = [op EXCEPT ![c] = [name |-> name, file |-> f]]
       /\ Enter(c, First(name))
  /\ ops' = [ops EXCEPT ![c] = @ + 1]
  /\ UNCHANGED <<mutex, listVars, window, crashes>>

Read(c) ==
  /\ window[c] > 0 /\ call[c] # "storing"
  /\ window' = [window EXCEPT ![c] = @ - 1]
  /\ UNCHANGED <<mutex, handler, listVars, clientVars>>

\* Mutant: the client stores its blocks while their places are still coming.
FinishEarly(c) ==
  /\ call[c] \notin {"idle", "dead"}
  /\ \/ handler[<<c, "call">>].step = "done" /\ handler[<<c, "report">>].step = "done"
     \/ call[c] = "beginPut" /\ window[c] > 0
  /\ \E next \in After(op[c].name, call[c]) :
       /\ call[c] = "beginPut" /\ handler[<<c, "call">>].step # "done" => next = "storing"
       /\ Enter(c, next)
  /\ UNCHANGED <<mutex, listVars, op, window, ops, crashes>>

\* The answer is read to its end, or the data server has answered.
Finish(c) ==
  /\ call[c] \notin {"idle", "dead"} /\ window[c] = 0
  /\ handler[<<c, "call">>].step = "done" /\ handler[<<c, "report">>].step = "done"
  /\ \E next \in After(op[c].name, call[c]) : Enter(c, next)
  /\ UNCHANGED <<mutex, listVars, op, window, ops, crashes>>

\* What it has begun at the servers goes on.
Die(c) ==
  /\ call[c] # "dead" /\ crashes < MaxCrashes
  /\ call' = [call EXCEPT ![c] = "dead"]
  /\ window' = [window EXCEPT ![c] = 0]
  /\ crashes' = crashes + 1
  /\ UNCHANGED <<mutex, handler, listVars, op, ops>>

ClientStep(c) == Read(c) \/ Finish(c)

Next ==
  \/ \E t \in Threads : HandlerStep(t)
  \/ \E c \in Clients : Begin(c) \/ ClientStep(c) \/ Die(c)

\* Threads and client processes are scheduled; the mutex is not handed over in
\* any order, so nobody is sure of it while others keep coming.
Spec ==
  /\ Init /\ [][Next]_vars
  /\ \A t \in Threads : WF_vars(HandlerStep(t))
  /\ \A c \in Clients : WF_vars(ClientStep(c))

-----------------------------------------------------------------------------
\* The type invariant.
TypeOK ==
  /\ mutex \in Threads \cup {Free}
  /\ \A t \in Threads :
       /\ handler[t].step \in {"lock", "find", "stream", "done"}
       /\ handler[t].left \in Nat
  /\ fileList \in Seq(Files) /\ tempList \in Seq(Files)
  /\ \A c \in Clients : window[c] \in 0 .. Window

\* The iterator a handler keeps while it streams is into the vector as it was
\* when the handler found its entry: no commit or abort moves fileList below it,
\* however long the client takes to read.
IteratorsValid == \A t \in Threads : ~handler[t].stale

\* No handler waits for ever, for the mutex or for a reader: each of the returns
\* has released the mutex, and a dead client's stream does not hold it.
HandlersReturn == \A t \in Threads : handler[t].step # "done" ~> handler[t].step = "done"

\* A client, the data server that reports for it and the stream of its own
\* begin never wait for each other in a circle: every operation ends.
OperationsReturn == \A c \in Clients : call[c] # "idle" ~> call[c] \in {"idle", "dead"}
=============================================================================
