------------------------ MODULE NameServerThreadsProofs ------------------------
(***************************************************************************)
(* Theorems about the threads of the name server, for any number of        *)
(* clients, files and operations, streams of any length and any window.    *)
(***************************************************************************)
EXTENDS NameServerThreads, ListProofs

Methods ==
  {"none", "updateBlockInfo", "executeLs", "beginGet", "commitGet", "abortGet",
   "beginPut", "commitPut", "abortPut", "beginRm", "commitRm", "abortRm"}

Handler ==
  [method : Methods, step : {"lock", "find", "stream", "done"}, left : Nat,
   stale : BOOLEAN]

Holds(list, f) == \E k \in 1 .. Len(list) : list[k] = f

(***************************************************************************)
(* The inductive invariant.  Only the holder of the mutex is between its   *)
(* search and its return, so that nobody changes fileList under a stream;  *)
(* a client in a call begins nothing else, so that the name a handler      *)
(* looks for stays; hence a beginRm still finds the entry it streams.      *)
(***************************************************************************)
Typed ==
  /\ mutex \in Threads \cup {Free}
  /\ handler \in [Threads -> Handler]
  /\ fileList \in Seq(Files) /\ tempList \in Seq(Files)
  /\ call \in [Clients -> Methods \cup {"idle", "storing", "dead"}]
  /\ op \in [Clients -> [name : {"none", "get", "put", "rm", "ls"}, file : Files]]
  /\ window \in [Clients -> 0 .. Window]

Exclusion == \A t \in Threads : handler[t].step \in {"find", "stream"} => mutex = t

Busy == \A t \in Threads : handler[t].step # "done" => call[t[1]] # "idle"

Holding ==
  \A t \in Threads :
    handler[t].step = "stream" /\ handler[t].method = "beginRm" => Holds(fileList, File(t))

Fresh == \A t \in Threads : handler[t].stale = FALSE

IInv == Typed /\ Exclusion /\ Busy /\ Holding /\ Fresh

\* A thread belongs to a client.
LEMMA ThreadOfClient == \A t \in Threads : t[1] \in Clients
  BY DEF Threads

\* The search answers an index of the list, or 0 when the name is not there.
LEMMA FoundInList ==
  ASSUME NEW t \in Threads, fileList \in Seq(Files), tempList \in Seq(Files)
  PROVE  /\ Searched(t) \in Seq(Files)
         /\ Found(t) # 0 =>
              Found(t) \in 1 .. Len(Searched(t)) /\ Holds(Searched(t), File(t))
         /\ Holds(Searched(t), File(t)) => Found(t) # 0
<1>. DEFINE I == {i \in 1 .. Len(Searched(t)) : Searched(t)[i] = File(t)}
<1>1. Searched(t) \in Seq(Files)
  BY Zenon DEF Searched
<1>2. Found(t) = IF I # {} THEN Min(I) ELSE 0
  BY Zenon DEF Found, SelectInSeq
<1>3. I # {} => Min(I) \in I
  BY MinOfNats, I \in SUBSET Nat
<1>4. Found(t) # 0 => Found(t) \in I
  BY <1>2, <1>3
<1>5. I # {} => Found(t) # 0
  BY <1>2, <1>3
<1>. QED BY <1>1, <1>4, <1>5 DEF Holds

-----------------------------------------------------------------------------
(***************************************************************************)
(* The steps of a handler.                                                 *)
(***************************************************************************)

\* A return leaves the other handlers as they are: none of them streams.
LEMMA ReturnKeeps ==
  ASSUME IInv, NEW t \in Threads, handler[t].step \in {"find", "stream"}, Return(t),
         fileList' \in Seq(Files), tempList' \in Seq(Files),
         UNCHANGED <<window, clientVars>>
  PROVE  IInv'
<1>. USE DEF IInv, clientVars
<1>1. mutex = t /\ mutex' = Free
  BY DEF Exclusion, Return
<1>2. ASSUME NEW u \in Threads, u # t
      PROVE  /\ handler'[u] = handler[u]
             /\ handler[u].step \notin {"find", "stream"}
  <2>1. handler[u].step \notin {"find", "stream"}
    BY <1>1, <1>2 DEF Exclusion
  <2>2. (handler[u].stale \/ (handler[u].step = "stream" /\ fileList' # fileList)) = FALSE
    BY <2>1 DEF Fresh
  <2>3. handler'[u] = [handler[u] EXCEPT !.stale = FALSE]
    BY <1>2, <2>2, Zenon DEF Return
  <2>4. handler[u] \in Handler /\ handler[u].stale = FALSE
    BY DEF Typed, Fresh
  <2>. QED BY <2>1, <2>3, <2>4 DEF Handler
<1>3. handler'[t] = Nothing /\ handler' \in [Threads -> Handler]
  <2>1. Nothing \in Handler
    BY DEF Nothing, Handler, Methods
  <2>2. handler'[t] = Nothing
    BY Zenon DEF Return
  <2>3. \A u \in Threads : handler'[u] \in Handler
    BY <1>2, <2>1, <2>2 DEF Typed
  <2>4. DOMAIN handler' = Threads /\ handler' = [u \in Threads |-> handler'[u]]
    BY Zenon DEF Return
  <2>. QED BY <2>2, <2>3, <2>4
<1>4. handler'[t].step = "done" /\ handler'[t].stale = FALSE
  BY <1>3 DEF Nothing
<1>5. Typed'
  BY <1>1, <1>3 DEF Typed
<1>6. Exclusion'
  BY <1>2, <1>4 DEF Exclusion
<1>7. Busy'
  BY <1>2, <1>4 DEF Busy
<1>8. Holding'
  BY <1>2, <1>4 DEF Holding
<1>9. Fresh'
  BY <1>2, <1>4 DEF Fresh
<1>. QED BY <1>5, <1>6, <1>7, <1>8, <1>9

\* A step in which one handler goes on and nothing of the lists changes but the
\* end of tempList.
LEMMA HandlerGoesOn ==
  ASSUME IInv, NEW t \in Threads, NEW next \in Handler,
         handler' = [handler EXCEPT ![t] = next],
         handler[t].step # "done", next.stale = FALSE,
         mutex' \in Threads \cup {Free}, mutex' = t, mutex \in {t, Free},
         next.method = handler[t].method,
         next.step = "stream" /\ next.method = "beginRm" => Holds(fileList, File(t)),
         fileList' = fileList, tempList' \in Seq(Files),
         window' \in [Clients -> 0 .. Window], UNCHANGED clientVars
  PROVE  IInv'
<1>. USE DEF IInv, clientVars
<1>1. handler' \in [Threads -> Handler] /\ handler'[t] = next
  BY DEF Typed
<1>2. \A u \in Threads \ {t} : handler'[u] = handler[u]
  BY DEF Typed
<1>3. Typed'
  BY <1>1 DEF Typed
<1>4. Exclusion'
  BY <1>2, ThreadsAssumption DEF Exclusion
<1>5. Busy'
  BY <1>1, <1>2 DEF Busy
<1>6. Holding'
  BY <1>1, <1>2 DEF Holding, File
<1>7. Fresh'
  BY <1>1, <1>2 DEF Fresh
<1>. QED BY <1>3, <1>4, <1>5, <1>6, <1>7

\* The mutex is taken when nobody holds it.
LEMMA LockKeeps ==
  ASSUME IInv, NEW t \in Threads, Lock(t)
  PROVE  IInv'
<1>. DEFINE next == [handler[t] EXCEPT !.step = "find"]
<1>1. handler[t] \in Handler /\ handler[t].stale = FALSE
  BY DEF IInv, Typed, Fresh
<1>2. /\ next \in Handler /\ next.step = "find" /\ next.stale = FALSE
      /\ next.method = handler[t].method
  BY <1>1 DEF Handler
<1>3. handler' = [handler EXCEPT ![t] = next]
  BY DEF Lock
<1>4. /\ handler[t].step = "lock" /\ mutex = Free /\ mutex' = t
      /\ UNCHANGED <<fileList, tempList, window, clientVars>>
  BY DEF Lock, listVars
<1>. HIDE DEF next
<1>5. /\ tempList' \in Seq(Files) /\ window' \in [Clients -> 0 .. Window]
  BY <1>4 DEF IInv, Typed
<1>. QED BY <1>2, <1>3, <1>4, <1>5, HandlerGoesOn

\* A refusal, and a commit or abort, which erases an entry it has found.
LEMMA RefuseAndActKeep ==
  ASSUME IInv, NEW t \in Threads, Refuse(t) \/ Act(t)
  PROVE  IInv'
<1>1. fileList \in Seq(Files) /\ tempList \in Seq(Files) /\ File(t) \in Files
  BY ThreadOfClient DEF IInv, Typed, File
<1>2. CASE Refuse(t)
  <2>1. /\ handler[t].step = "find" /\ Return(t)
        /\ UNCHANGED <<fileList, tempList, window, clientVars>>
    BY <1>2 DEF Refuse, listVars
  <2>. QED BY <1>1, <2>1, ReturnKeeps
<1>3. CASE Act(t)
  <2>1. /\ handler[t].step = "find" /\ Return(t) /\ UNCHANGED <<window, clientVars>>
    BY <1>3 DEF Act
  <2>2. fileList' \in Seq(Files)
    BY <1>1, <1>3, AppendProperties DEF Act
  <2>3. ASSUME Method(t) \in {"commitPut", "abortPut", "commitRm", "abortRm"}
        PROVE  RemoveAt(tempList, Found(t)) \in Seq(Files)
    <3>1. Searched(t) = tempList
      BY <2>3 DEF Searched
    <3>2. Found(t) # 0
      BY <1>3, <2>3 DEF Act, Refused
    <3>. QED BY <1>1, <3>1, <3>2, FoundInList, RemoveAtProperties
  <2>4. tempList' \in Seq(Files)
    BY <1>1, <1>3, <2>3 DEF Act
  <2>. QED BY <2>1, <2>2, <2>4, ReturnKeeps
<1>. QED BY <1>2, <1>3

\* The answer of a beginRm is streamed only when its entry was found.
LEMMA StartStreamKeeps ==
  ASSUME IInv, NEW t \in Threads, StartStream(t)
  PROVE  IInv'
<1>. DEFINE length == IF Method(t) = "executeLs" THEN Len(fileList) ELSE Blocks
            next == [handler[t] EXCEPT !.step = "stream", !.left = length]
<1>1. /\ handler[t] \in Handler /\ handler[t].stale = FALSE
      /\ fileList \in Seq(Files) /\ tempList \in Seq(Files) /\ File(t) \in Files
  BY ThreadOfClient DEF IInv, Typed, Fresh, File
<1>2. length \in Nat
  BY <1>1, LenProperties, ThreadsAssumption
<1>. HIDE DEF length
<1>3. /\ next \in Handler /\ next.step = "stream" /\ next.stale = FALSE
      /\ next.method = handler[t].method
  BY <1>1, <1>2 DEF Handler
<1>4. /\ handler[t].step = "find" /\ ~Refused(t)
      /\ handler' = [handler EXCEPT ![t] = next]
      /\ UNCHANGED <<mutex, fileList, window, clientVars>>
  BY DEF StartStream, length
<1>5. mutex = t
  BY <1>4 DEF IInv, Exclusion
<1>6. tempList' \in Seq(Files) /\ window' \in [Clients -> 0 .. Window]
  BY <1>1, <1>4, AppendProperties DEF StartStream, IInv, Typed
<1>7. ASSUME handler[t].method = "beginRm" PROVE Holds(fileList, File(t))
  <2>1. Searched(t) = fileList /\ Found(t) # 0
    BY <1>4, <1>7 DEF Searched, Refused, Method
  <2>. QED BY <1>1, <2>1, FoundInList
<1>. HIDE DEF next
<1>. QED BY <1>3, <1>4, <1>5, <1>6, <1>7, HandlerGoesOn

\* A write moves the stream only, and never past the window.
LEMMA WriteKeeps ==
  ASSUME IInv, NEW t \in Threads, Write(t)
  PROVE  IInv'
<1>. DEFINE next == [handler[t] EXCEPT !.left = @ - 1]
<1>1. /\ handler[t] \in Handler /\ handler[t].stale = FALSE
      /\ t[1] \in Clients /\ window \in [Clients -> 0 .. Window] /\ Window \in Nat
  BY ThreadOfClient, ThreadsAssumption DEF IInv, Typed, Fresh
<1>2. /\ handler[t].step = "stream" /\ handler[t].left > 0
      /\ handler' = [handler EXCEPT ![t] = next]
      /\ UNCHANGED <<mutex, fileList, tempList, clientVars>>
  BY DEF Write, listVars
<1>3. /\ next \in Handler /\ next.step = "stream" /\ next.stale = FALSE
      /\ next.method = handler[t].method
  BY <1>1, <1>2 DEF Handler
<1>4. window' \in [Clients -> 0 .. Window]
  BY <1>1 DEF Write
<1>5. mutex = t
  BY <1>2 DEF IInv, Exclusion
<1>6. tempList' \in Seq(Files)
  BY <1>2 DEF IInv, Typed
<1>7. handler[t].method = "beginRm" => Holds(fileList, File(t))
  BY <1>2 DEF IInv, Holding
<1>. HIDE DEF next
<1>. QED BY <1>2, <1>3, <1>4, <1>5, <1>6, <1>7, HandlerGoesOn

\* A beginRm erases the entry it found when it began.
LEMMA EndStreamKeeps ==
  ASSUME IInv, NEW t \in Threads, EndStream(t)
  PROVE  IInv'
<1>1. fileList \in Seq(Files) /\ tempList \in Seq(Files)
  BY DEF IInv, Typed
<1>2. /\ handler[t].step = "stream" /\ Return(t)
      /\ UNCHANGED <<tempList, window, clientVars>>
  BY DEF EndStream
<1>3. ASSUME Method(t) = "beginRm" PROVE RemoveAt(fileList, Found(t)) \in Seq(Files)
  <2>1. Searched(t) = fileList /\ Holds(fileList, File(t))
    BY <1>2, <1>3 DEF Searched, Method, IInv, Holding
  <2>. QED BY <1>1, <2>1, FoundInList, RemoveAtProperties
<1>4. fileList' \in Seq(Files)
  BY <1>1, <1>3 DEF EndStream
<1>. QED BY <1>1, <1>2, <1>4, ReturnKeeps

-----------------------------------------------------------------------------
(***************************************************************************)
(* The steps of a client.                                                  *)
(***************************************************************************)

\* A client enters its next call only when its last one is over.
LEMMA EnterKeeps ==
  ASSUME IInv, NEW c \in Clients,
         \A t \in Threads : t[1] = c => handler[t].step = "done",
         NEW next \in (Methods \ {"none"}) \cup {"idle", "storing"}, Enter(c, next),
         op' \in [Clients -> [name : {"none", "get", "put", "rm", "ls"}, file : Files]],
         \A d \in Clients \ {c} : op'[d] = op[d],
         UNCHANGED <<mutex, fileList, tempList, window>>
  PROVE  IInv'
<1>. DEFINE t == IF next = "storing" THEN <<c, "report">> ELSE <<c, "call">>
            method == IF next = "storing" THEN "updateBlockInfo" ELSE next
<1>1. t \in Threads /\ t[1] = c
  BY DEF Threads
<1>2. handler' = IF next = "idle" THEN handler
                 ELSE [handler EXCEPT ![t] = Waiting(method)]
  BY Zenon DEF Enter
<1>. HIDE DEF t
<1>3. next # "idle" => Waiting(method) \in Handler
  BY DEF Waiting, Handler, Methods
<1>4. /\ Waiting(method).step = "lock" /\ Waiting(method).stale = FALSE
  BY DEF Waiting
<1>. HIDE DEF method
<1>5. /\ handler' \in [Threads -> Handler]
      /\ \A u \in Threads : handler'[u] = handler[u]
           \/ (u = t /\ next # "idle" /\ handler'[u].step = "lock" /\ handler'[u].stale = FALSE)
  BY <1>1, <1>2, <1>3, <1>4 DEF IInv, Typed
<1>6. call' \in [Clients -> Methods \cup {"idle", "storing", "dead"}] /\ call'[c] = next
      /\ \A d \in Clients \ {c} : call'[d] = call[d]
  BY DEF Enter, IInv, Typed
<1>7. Typed'
  BY <1>5, <1>6 DEF IInv, Typed
<1>8. Exclusion'
  BY <1>5 DEF IInv, Exclusion
<1>9. Busy'
  BY <1>1, <1>5, <1>6, ThreadOfClient DEF IInv, Busy
<1>10. Holding'
  BY <1>5, ThreadOfClient DEF IInv, Holding, File
<1>11. Fresh'
  BY <1>5 DEF IInv, Fresh
<1>. QED BY <1>7, <1>8, <1>9, <1>10, <1>11 DEF IInv

\* Beginning an operation.
LEMMA BeginKeeps ==
  ASSUME IInv, NEW c \in Clients, Begin(c)
  PROVE  IInv'
<1>1. PICK name \in Operations, f \in Files :
        op' = [op EXCEPT ![c] = [name |-> name, file |-> f]] /\ Enter(c, First(name))
  BY DEF Begin
<1>2. First(name) \in (Methods \ {"none"}) \cup {"idle", "storing"}
  BY ThreadsAssumption DEF First, Methods
<1>3. \A t \in Threads : t[1] = c => handler[t].step = "done"
  BY DEF Begin, IInv, Busy
<1>4. /\ op' \in [Clients -> [name : {"none", "get", "put", "rm", "ls"}, file : Files]]
      /\ \A d \in Clients \ {c} : op'[d] = op[d]
  BY <1>1, ThreadsAssumption DEF IInv, Typed
<1>5. UNCHANGED <<mutex, fileList, tempList, window>>
  BY DEF Begin, listVars
<1>. HIDE DEF First
<1>. QED BY <1>1, <1>2, <1>3, <1>4, <1>5, EnterKeeps

\* Going on to the next call.
LEMMA FinishKeeps ==
  ASSUME IInv, NEW c \in Clients, Finish(c)
  PROVE  IInv'
<1>1. PICK next \in After(op[c].name, call[c]) : Enter(c, next)
  BY DEF Finish
<1>2. next \in (Methods \ {"none"}) \cup {"idle", "storing"}
  BY DEF After, Methods
<1>3. \A t \in Threads : t[1] = c => handler[t].step = "done"
  BY DEF Finish, Threads
<1>4. op' = op /\ UNCHANGED <<mutex, fileList, tempList, window>>
  BY DEF Finish, listVars
<1>5. op' \in [Clients -> [name : {"none", "get", "put", "rm", "ls"}, file : Files]]
  BY <1>4 DEF IInv, Typed
<1>. QED BY <1>1, <1>2, <1>3, <1>4, <1>5, EnterKeeps

\* Reading, and dying, change neither handlers nor lists.
LEMMA ReadAndDieKeep ==
  ASSUME IInv, NEW c \in Clients, Read(c) \/ Die(c)
  PROVE  IInv'
<1>1. UNCHANGED <<mutex, handler, fileList, tempList, op>>
  BY DEF Read, Die, listVars, clientVars
<1>2. window' \in [Clients -> 0 .. Window]
  BY ThreadsAssumption DEF Read, Die, IInv, Typed
<1>3. /\ call' \in [Clients -> Methods \cup {"idle", "storing", "dead"}]
      /\ \A d \in Clients : call[d] # "idle" => call'[d] # "idle"
  BY DEF Read, Die, clientVars, IInv, Typed
<1>. QED BY <1>1, <1>2, <1>3, ThreadOfClient
         DEF IInv, Typed, Exclusion, Busy, Holding, Fresh, File

-----------------------------------------------------------------------------
\* The inductive invariant holds in every reachable state.
THEOREM ThreadsInductive == Spec => []IInv
<1>1. Init => IInv
  <2>. SUFFICES ASSUME Init PROVE IInv
    OBVIOUS
  <2>1. handler = [t \in Threads |-> Nothing] /\ Nothing \in Handler
        /\ Nothing.step = "done" /\ Nothing.stale = FALSE
    BY DEF Init, Nothing, Handler, Methods
  <2>2. Typed
    BY <2>1, ThreadsAssumption DEF Init, Typed
  <2>. QED BY <2>1, <2>2 DEF IInv, Exclusion, Busy, Holding, Fresh
<1>2. IInv /\ [Next]_vars => IInv'
  <2>. SUFFICES ASSUME IInv, [Next]_vars PROVE IInv'
    OBVIOUS
  <2>1. ASSUME NEW t \in Threads, HandlerStep(t) PROVE IInv'
    BY <2>1, LockKeeps, RefuseAndActKeep, StartStreamKeeps, WriteKeeps, EndStreamKeeps
       DEF HandlerStep
  <2>2. ASSUME NEW c \in Clients, Begin(c) \/ ClientStep(c) \/ Die(c) PROVE IInv'
    BY <2>2, BeginKeeps, FinishKeeps, ReadAndDieKeep DEF ClientStep
  <2>3. CASE UNCHANGED vars
    BY <2>3 DEF vars, listVars, clientVars, IInv, Typed, Exclusion, Busy, Holding,
                Fresh, File
  <2>. QED BY <2>1, <2>2, <2>3 DEF Next
<1>. QED BY <1>1, <1>2, PTL DEF Spec

\* Every variable keeps its type, and no stream outgrows its window.
THEOREM ThreadsTypeCorrect == Spec => []TypeOK
<1>1. IInv => TypeOK
  BY DEF IInv, Typed, TypeOK, Handler
<1>. QED BY <1>1, ThreadsInductive, PTL

\* While a handler streams with an iterator into fileList in hand, no return of
\* another handler changes the vector, however long the client takes to read.
THEOREM NoStaleIterator == Spec => []IteratorsValid
<1>1. IInv => IteratorsValid
  BY DEF IInv, Fresh, IteratorsValid
<1>. QED BY <1>1, ThreadsInductive, PTL
=============================================================================
