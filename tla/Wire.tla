-------------------------------- MODULE Wire --------------------------------
(***************************************************************************)
(* A call of the file system between its stub and its service, the         *)
(* generated classes of proto-src/DistributedFileSystem.grpc.pb.cc.  The   *)
(* client serializes with the types of the stub, the server parses with    *)
(* the types of the handler the path of the call leads to, and back.       *)
(* Messages travel up, to the server, and down.  Who reads a stream parses *)
(* every message into the same object, and most callers pass one object as *)
(* request and reply: what such an object holds afterwards depends on what *)
(* Clear, the parser and the serializer agree on.                          *)
(***************************************************************************)
EXTENDS Messages

CONSTANTS
  Names,      \* names of files, addresses of servers
  Hashes,     \* hashes, contents of units
  Numbers,    \* indexes and sizes
  MaxStream,  \* bound on the messages of a stream
  Window      \* bound on the messages under way in one direction

\* What is not UTF-8 is no name the program builds, nor the empty string.
ASSUME WireAssumption == Window \in Nat /\ NotText \cap (Names \cup {Empty}) = {}

VARIABLES
  method,   \* the method called
  request,  \* the message the client calls it with
  object,   \* object[d]: the message the reader of a direction parses into
  rest,     \* rest[d]: what is still to be parsed of the message being read
  reading,  \* reading[d]: whether one is being read
  wire,     \* wire[d]: the serialized messages under way
  closed,   \* closed[d]: the writer has written its last message
  sent,     \* sent[d]: the messages written so far
  got,      \* got[d]: the messages read so far
  status    \* what the call returned: "open" until then

vars == <<method, request, object, rest, reading, wire, closed, sent, got, status>>

(***************************************************************************)
(* NameService                                                             *)
(***************************************************************************)
NameServiceMethods ==
  <<"startServer", "terminateServer", "updateBlockInfo",
    "beginGetTransaction", "commitGetTransaction", "abortGetTransaction",
    "beginPutTransaction", "commitPutTransaction", "abortPutTransaction",
    "beginRmTransaction", "commitRmTransaction", "abortRmTransaction",
    "executeLsTransaction">>

\* The path a stub method calls, and how: its RpcMethod.
Rpc(path, kind) == [path |-> path, kind |-> kind]

NameServiceStub ==
  LET normal(i) == Rpc(NameServiceMethods[i], "NORMAL_RPC")
      stream(i) == Rpc(NameServiceMethods[i], "SERVER_STREAMING")
  IN  [startServer |-> normal(1), terminateServer |-> normal(2),
       updateBlockInfo |-> normal(3),
       beginGetTransaction |-> stream(4), commitGetTransaction |-> normal(5),
       abortGetTransaction |-> normal(6),
       beginPutTransaction |-> stream(7), commitPutTransaction |-> normal(8),
       abortPutTransaction |-> normal(9),
       beginRmTransaction |-> stream(10), commitRmTransaction |-> normal(11),
       abortRmTransaction |-> normal(12), executeLsTransaction |-> stream(13)]

\* The messages a stub method writes and reads.
NameServiceCalls ==
  [m \in DOMAIN NameServiceStub |->
     CASE m \in {"startServer", "terminateServer"} ->
            [request |-> "ServerInfo", reply |-> "ServerInfo"]
       [] m = "updateBlockInfo" ->
            [request |-> "BlockInfo", reply |-> "BlockInfo"]
       [] m \in {"beginGetTransaction", "beginPutTransaction", "beginRmTransaction"} ->
            [request |-> "FileInfo", reply |-> "BlockStore"]
       [] OTHER -> [request |-> "FileInfo", reply |-> "FileInfo"]]

\* A handler the service adds: the path it serves, the messages it reads
\* and writes, and the member function it runs.
Handler(path, kind, from, to, function) ==
  [path |-> path, kind |-> kind, request |-> from, reply |-> to, function |-> function]

NameServiceHandlers ==
  LET normal(i, type, function) ==
        Handler(NameServiceMethods[i], "NORMAL_RPC", type, type, function)
      stream(i, to, function) ==
        Handler(NameServiceMethods[i], "SERVER_STREAMING", "FileInfo", to, function)
  IN  {normal(1, "ServerInfo", "startServer"), normal(2, "ServerInfo", "terminateServer"),
       normal(3, "BlockInfo", "updateBlockInfo"),
       stream(4, "BlockStore", "beginGetTransaction"),
       normal(5, "FileInfo", "commitGetTransaction"),
       normal(6, "FileInfo", "abortGetTransaction"),
       stream(7, "BlockStore", "beginPutTransaction"),
       normal(8, "FileInfo", "commitPutTransaction"),
       normal(9, "FileInfo", "abortPutTransaction"),
       stream(10, "BlockStore", "beginRmTransaction"),
       normal(11, "FileInfo", "commitRmTransaction"),
       normal(12, "FileInfo", "abortRmTransaction"),
       stream(13, "FileInfo", "executeLsTransaction")}

(***************************************************************************)
(* DataService                                                             *)
(***************************************************************************)
DataServiceMethods == <<"getBlock", "putBlock", "rmBlock">>

DataServiceStub ==
  [getBlock |-> Rpc(DataServiceMethods[1], "SERVER_STREAMING"),
   putBlock |-> Rpc(DataServiceMethods[2], "CLIENT_STREAMING"),
   rmBlock  |-> Rpc(DataServiceMethods[3], "NORMAL_RPC")]

DataServiceCalls ==
  [getBlock |-> [request |-> "BlockInfo", reply |-> "BlockUnit"],
   putBlock |-> [request |-> "BlockUnit", reply |-> "BlockInfo"],
   rmBlock  |-> [request |-> "BlockInfo", reply |-> "BlockInfo"]]

DataServiceHandlers ==
  {Handler(DataServiceMethods[1], "SERVER_STREAMING", "BlockInfo", "BlockUnit", "getBlock"),
   Handler(DataServiceMethods[2], "CLIENT_STREAMING", "BlockUnit", "BlockInfo", "putBlock"),
   Handler(DataServiceMethods[3], "NORMAL_RPC", "BlockInfo", "BlockInfo", "rmBlock")}

(***************************************************************************)
(* The call under way                                                      *)
(***************************************************************************)
Both(f, g) == [m \in DOMAIN f \cup DOMAIN g |-> IF m \in DOMAIN f THEN f[m] ELSE g[m]]

Stub == Both(NameServiceStub, DataServiceStub)
Calls == Both(NameServiceCalls, DataServiceCalls)

ServedBy(m) ==
  CHOOSE h \in NameServiceHandlers \cup DataServiceHandlers : h.path = Stub[m].path

handler == ServedBy(method)

\* The type the writer and the reader of a direction take its messages for.
WriterType(d) == IF d = "up" THEN Calls[method].request ELSE handler.reply
ReaderType(d) == IF d = "up" THEN handler.request ELSE Calls[method].reply

\* The messages the program builds with the setters.
Built ==
  LET text == Names
      hash == Hashes \cup {Empty}
  IN  [ServerInfo |-> [address : text, hash : Hashes],
       FileInfo   |-> [fileName : text, fileSize : Numbers],
       BlockStore |-> [serverAddress : text, serverHash : Hashes, fileName : text,
                       blockIdx : Numbers, blockSize : Numbers, blockHash : hash],
       BlockInfo  |-> [fileName : text, blockIdx : Numbers, blockSize : Numbers,
                       blockHash : hash],
       BlockUnit  |-> [fileName : text, blockIdx : Numbers, unitIdx : Numbers,
                       unitData : Hashes, lastUnit : BOOLEAN]]

\* A name the user of the client gives goes, whatever its bytes, to a begin; when that
\* fails, the operation goes on without a block and to its commit with the same name.
Begins == {"beginGetTransaction", "beginPutTransaction", "beginRmTransaction"}
Commits == {"commitGetTransaction", "commitPutTransaction", "commitRmTransaction"}

Requests(m) ==
  CASE m = "executeLsTransaction" -> {Default("FileInfo")}
    [] m = "putBlock"             -> {Default("BlockUnit")}
    [] m \in Begins \cup Commits  -> [fileName : Names \cup NotText, fileSize : Numbers]
    [] OTHER                      -> Built[Calls[m].request]

\* The calls that get their request as the reply to be filled in.
OneObject ==
  {"updateBlockInfo", "commitGetTransaction", "abortGetTransaction",
   "commitPutTransaction", "abortPutTransaction",
   "commitRmTransaction", "abortRmTransaction"}

Each(up, down) == [up |-> up, down |-> down]

Init ==
  /\ method \in DOMAIN Stub
  /\ request \in Requests(method)
  /\ object = Each(Default(ServedBy(method).request),
                   IF method \in OneObject THEN request ELSE Default(Calls[method].reply))
  /\ rest = Each(<<>>, <<>>) /\ reading = Each(FALSE, FALSE)
  /\ wire = Each(<<>>, <<>>) /\ closed = Each(FALSE, FALSE)
  /\ sent = Each(<<>>, <<>>) /\ got = Each(<<>>, <<>>)
  /\ status = "open"

(***************************************************************************)
(* Writing, a message and the end of the messages                          *)
(***************************************************************************)
\* A writer that does not wait for room.
WriteAhead(d, message, last) ==
  /\ status = "open" /\ ~closed[d]
  /\ wire' = [wire EXCEPT ![d] = Append(@, Serialize(WriterType(d), message))]
  /\ sent' = [sent EXCEPT ![d] = Append(@, message)]
  /\ closed' = [closed EXCEPT ![d] = last]
  /\ UNCHANGED <<method, request, object, rest, reading, got, status>>

Write(d, message, last) ==
  /\ status = "open" /\ ~closed[d] /\ Len(wire[d]) < Window
  /\ wire' = [wire EXCEPT ![d] = Append(@, Serialize(WriterType(d), message))]
  /\ sent' = [sent EXCEPT ![d] = Append(@, message)]
  /\ closed' = [closed EXCEPT ![d] = last]
  /\ UNCHANGED <<method, request, object, rest, reading, got, status>>

WritesDone(d) ==
  /\ status = "open" /\ ~closed[d]
  /\ closed' = [closed EXCEPT ![d] = TRUE]
  /\ UNCHANGED <<method, request, object, rest, reading, wire, sent, got, status>>

(***************************************************************************)
(* Reading: ParseFromCodedStream clears the object and parses into it      *)
(***************************************************************************)
StartRead(d) ==
  /\ status = "open" /\ ~reading[d] /\ wire[d] # <<>>
  /\ object' = [object EXCEPT ![d] = Clear(ReaderType(d), @)]
  /\ rest' = [rest EXCEPT ![d] = Head(wire[d])]
  /\ reading' = [reading EXCEPT ![d] = TRUE]
  /\ wire' = [wire EXCEPT ![d] = Tail(@)]
  /\ UNCHANGED <<method, request, closed, sent, got, status>>

ParseField(d) ==
  /\ status = "open" /\ rest[d] # <<>>
  /\ LET token == Head(rest[d])
     IN  IF Fails(ReaderType(d), token)
         THEN status' = "INTERNAL" /\ UNCHANGED <<object, rest>>
         ELSE /\ object' = [object EXCEPT ![d] = Parsed(ReaderType(d), @, token)]
              /\ rest' = [rest EXCEPT ![d] = Tail(@)]
              /\ UNCHANGED status
  /\ UNCHANGED <<method, request, reading, wire, closed, sent, got>>

EndRead(d) ==
  /\ status = "open" /\ reading[d] /\ rest[d] = <<>>
  /\ reading' = [reading EXCEPT ![d] = FALSE]
  /\ got' = [got EXCEPT ![d] = Append(@, object[d])]
  /\ UNCHANGED <<method, request, object, rest, wire, closed, sent, status>>

AllRead(d) == closed[d] /\ wire[d] = <<>> /\ ~reading[d]

(***************************************************************************)
(* The client: a unary request, or the units of a block                    *)
(***************************************************************************)
SendRequest == Stub[method].kind # "CLIENT_STREAMING" /\ Write("up", request, TRUE)

WriteUnit ==
  /\ Stub[method].kind = "CLIENT_STREAMING" /\ Len(sent.up) < MaxStream
  /\ \E m \in Built[WriterType("up")] : Write("up", m, FALSE)

UnitsDone == Stub[method].kind = "CLIENT_STREAMING" /\ WritesDone("up")

(***************************************************************************)
(* The handler: it runs once the request is read, one that reads a stream  *)
(* from the start, and returns OK or, before or after its writes, refuses. *)
(***************************************************************************)
Running == handler.kind = "CLIENT_STREAMING" \/ AllRead("up")

\* The reply a handler makes of what it has read.
Replies ==
  LET copy == CopyFrom(handler.reply, Default(handler.reply), Head(got.up))
  IN  CASE handler.function \in OneObject \cup {"terminateServer"} -> {copy}
        [] handler.function = "startServer" -> {[copy EXCEPT !.hash = h] : h \in Hashes}
        [] handler.function = "rmBlock"     -> {Default(handler.reply)}
        [] handler.function = "putBlock"    ->
             {[fileName |-> Head(got.up).fileName, blockIdx |-> Head(got.up).blockIdx,
               blockSize |-> n, blockHash |-> h] : n \in Numbers \ {0}, h \in Hashes}

ReturnReply ==
  /\ handler.kind # "SERVER_STREAMING"
  /\ AllRead("up") /\ got.up # <<>>
  /\ \E m \in Replies : Write("down", m, TRUE)

WriteReply ==
  /\ handler.kind = "SERVER_STREAMING" /\ Running /\ Len(sent.down) < MaxStream
  /\ \E m \in Built[WriterType("down")] : Write("down", m, FALSE)

ReturnOK == handler.kind = "SERVER_STREAMING" /\ Running /\ WritesDone("down")

\* putBlock refuses after one read at most, a begin before its first write.
Refuses ==
  CASE handler.function = "executeLsTransaction" -> FALSE
    [] handler.function = "putBlock" ->
         ~reading.up /\ (Len(got.up) = 1 \/ (got.up = <<>> /\ AllRead("up")))
    [] handler.function = "getBlock" -> TRUE
    [] OTHER -> sent.down = <<>>

Refuse ==
  /\ status = "open" /\ Running /\ ~closed.down /\ Refuses
  /\ status' = "CANCELLED"
  /\ UNCHANGED <<method, request, object, rest, reading, wire, closed, sent, got>>

\* The client's call returns, its last message read.
Finish ==
  /\ status = "open" /\ AllRead("down")
  /\ status' = "OK"
  /\ UNCHANGED <<method, request, object, rest, reading, wire, closed, sent, got>>

Returned == status # "open" /\ UNCHANGED vars

Next ==
  \/ SendRequest \/ WriteUnit \/ UnitsDone
  \/ \E d \in {"up", "down"} : StartRead(d) \/ ParseField(d) \/ EndRead(d)
  \/ ReturnReply \/ WriteReply \/ ReturnOK \/ Refuse
  \/ Finish \/ Returned

Spec == Init /\ [][Next]_vars
-----------------------------------------------------------------------------
\* The objects read into keep the members of their type, and no more than
\* Window messages are under way.
TypeOK ==
  /\ method \in DOMAIN Stub
  /\ \A d \in {"up", "down"} :
       /\ DOMAIN object[d] = DOMAIN Members[ReaderType(d)]
       /\ Len(wire[d]) <= Window
       /\ rest[d] # <<>> => reading[d]
  /\ status \in {"open", "OK", "CANCELLED", "INTERNAL"}

\* What a side has read is what the other wrote, message for message, though
\* default values are not on the wire and one object takes all of a stream;
\* a call that returns OK has delivered all of it.
ReadAsWritten ==
  \A d \in {"up", "down"} :
    /\ IsPrefix(got[d], sent[d])
    /\ status = "OK" => got[d] = sent[d]

\* A caller that passes its request as the reply, as commits and
\* updateBlockInfo do, finds it unchanged however the call ends: the client
\* goes on with fileInfo after a commit or an abort.
RequestSurvives ==
  method \in OneObject /\ status # "open" => object.down = request

\* Only a name that is not UTF-8 is refused by the parser, and the handler
\* of such a call never sees it: no file of that name gets into the system.
OnlyBadNamesFail ==
  LET bad == {f \in DOMAIN request : Members[Calls[method].request][f] = "string"
                                       /\ request[f] \in NotText}
  IN  /\ status = "INTERNAL" => bad # {}
      /\ bad # {} => got.up = <<>> /\ status \notin {"OK", "CANCELLED"}

\* The size ByteSizeLong announces is the length of what the serializer
\* writes into the buffer of that size.
SizeIsLength ==
  \A d \in {"up", "down"} : \A i \in DOMAIN sent[d] :
    ByteSizeLong(WriterType(d), sent[d][i]) = Bytes(Serialize(WriterType(d), sent[d][i]))
=============================================================================
