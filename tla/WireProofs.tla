------------------------------ MODULE WireProofs ------------------------------
(***************************************************************************)
(* A call carries messages unchanged, whatever the method and the window:  *)
(* the generated serializers and parsers fit together, and what a side has *)
(* read is what the other has written.                                     *)
(*                                                                         *)
(* The listings of Messages agree, so a round of the parser undoes what a  *)
(* serializer wrote (Partial).  The messages of a direction are read, half *)
(* read or under way, in order (Flow).  With what client and handler write *)
(* and how a call ends, that is inductive (IInv); the properties of Wire   *)
(* follow from it.                                                         *)
(***************************************************************************)
EXTENDS Wire, ListProofs

\* The messages of DistributedFileSystem.proto.
Types == {"ServerInfo", "FileInfo", "BlockStore", "BlockInfo", "BlockUnit"}

(***************************************************************************)
(* The listings agree                                                      *)
(***************************************************************************)
\* The types of their members.
Kinds == {"string", "bytes", "uint64", "bool"}

\* The serializers write field w as the constructor declares its member, and under a
\* tag that MergePartialFromCodedStream reads into that member and no other.
WriteField(T, w) ==
  /\ w.name \in DOMAIN Members[T]
  /\ w.kind = Members[T][w.name]
  /\ WireTag(w) \in Nat
  /\ WireTag(w) % 8 = 0 <=> w.kind \in {"uint64", "bool"}
  /\ \A r \in Reads[T] : r.tag = WireTag(w) => r = Tag(WireTag(w), w.kind, w.name)
  /\ Tag(WireTag(w), w.kind, w.name) \in Reads[T]

\* The generated functions of message T mean the same members: Clear, MergeFrom and
\* ByteSizeLong take all of them, and the serializers write each once.
Agreed(T) ==
  /\ Clears[T] = DOMAIN Members[T]
  /\ Merges[T] = DOMAIN Members[T]
  /\ Sizes[T] = DOMAIN Members[T]
  /\ \A f \in DOMAIN Members[T] : Members[T][f] \in Kinds
  /\ \E n \in Nat : DOMAIN Writes[T] = 1 .. n
  /\ \A i \in DOMAIN Writes[T] : WriteField(T, Writes[T][i])
  /\ \A f \in DOMAIN Members[T] : \E i \in DOMAIN Writes[T] : Writes[T][i].name = f
  /\ \A i, j \in DOMAIN Writes[T] : Writes[T][i].name = Writes[T][j].name => i = j

\* The generated functions of ServerInfo agree on its members.
LEMMA ServerInfoAgrees == Agreed("ServerInfo")
<1>1. /\ Members["ServerInfo"] = ServerInfoMembers
      /\ Clears["ServerInfo"] = ServerInfoClears
      /\ Reads["ServerInfo"] = ServerInfoReads
      /\ Writes["ServerInfo"] = ServerInfoWrites
      /\ Sizes["ServerInfo"] = ServerInfoSizes
      /\ Merges["ServerInfo"] = ServerInfoMerges
  BY DEF Members, Clears, Reads, Writes, Sizes, Merges, ByMessage
<1>2. DOMAIN ServerInfoMembers =
        {"address", "hash"}
  BY DEF ServerInfoMembers
<1>3. DOMAIN ServerInfoWrites = 1 .. 2
  BY DEF ServerInfoWrites
<1>4. \A i \in 1 .. 2 : WriteField("ServerInfo", ServerInfoWrites[i])
  BY <1>1, <1>2 DEF WriteField, ServerInfoWrites, ServerInfoMembers,
       ServerInfoReads, WireTag, Tag, Field
<1>5. \A f \in DOMAIN ServerInfoMembers : \E i \in 1 .. 2 : ServerInfoWrites[i].name = f
  BY <1>2 DEF ServerInfoWrites, Field
<1>6. \A i, j \in 1 .. 2 :
        ServerInfoWrites[i].name = ServerInfoWrites[j].name => i = j
  BY DEF ServerInfoWrites, Field
<1>. QED BY <1>1, <1>2, <1>3, <1>4, <1>5, <1>6
     DEF Agreed, Kinds, ServerInfoMembers, ServerInfoClears, ServerInfoSizes,
         ServerInfoMerges

\* The generated functions of FileInfo agree on its members.
LEMMA FileInfoAgrees == Agreed("FileInfo")
<1>1. /\ Members["FileInfo"] = FileInfoMembers
      /\ Clears["FileInfo"] = FileInfoClears
      /\ Reads["FileInfo"] = FileInfoReads
      /\ Writes["FileInfo"] = FileInfoWrites
      /\ Sizes["FileInfo"] = FileInfoSizes
      /\ Merges["FileInfo"] = FileInfoMerges
  BY DEF Members, Clears, Reads, Writes, Sizes, Merges, ByMessage
<1>2. DOMAIN FileInfoMembers =
        {"fileName", "fileSize"}
  BY DEF FileInfoMembers
<1>3. DOMAIN FileInfoWrites = 1 .. 2
  BY DEF FileInfoWrites
<1>4. \A i \in 1 .. 2 : WriteField("FileInfo", FileInfoWrites[i])
  BY <1>1, <1>2 DEF WriteField, FileInfoWrites, FileInfoMembers,
       FileInfoReads, WireTag, Tag, Field
<1>5. \A f \in DOMAIN FileInfoMembers : \E i \in 1 .. 2 : FileInfoWrites[i].name = f
  BY <1>2 DEF FileInfoWrites, Field
<1>6. \A i, j \in 1 .. 2 :
        FileInfoWrites[i].name = FileInfoWrites[j].name => i = j
  BY DEF FileInfoWrites, Field
<1>. QED BY <1>1, <1>2, <1>3, <1>4, <1>5, <1>6
     DEF Agreed, Kinds, FileInfoMembers, FileInfoClears, FileInfoSizes, FileInfoMerges

\* The generated functions of BlockStore agree on its members.
LEMMA BlockStoreAgrees == Agreed("BlockStore")
<1>1. /\ Members["BlockStore"] = BlockStoreMembers
      /\ Clears["BlockStore"] = BlockStoreClears
      /\ Reads["BlockStore"] = BlockStoreReads
      /\ Writes["BlockStore"] = BlockStoreWrites
      /\ Sizes["BlockStore"] = BlockStoreSizes
      /\ Merges["BlockStore"] = BlockStoreMerges
  BY DEF Members, Clears, Reads, Writes, Sizes, Merges, ByMessage
<1>2. DOMAIN BlockStoreMembers =
        {"serverAddress", "serverHash", "fileName",
        "blockIdx", "blockSize", "blockHash"}
  BY DEF BlockStoreMembers
<1>3. DOMAIN BlockStoreWrites = 1 .. 6
  BY DEF BlockStoreWrites
<1>4. ASSUME NEW i \in 1 .. 6 PROVE WriteField("BlockStore", BlockStoreWrites[i])
  <2>1. CASE i = 1
    <3>1. BlockStoreWrites[i] = Field(1, "string", "serverAddress")
      BY <2>1 DEF BlockStoreWrites
    <3>2. WriteField("BlockStore", Field(1, "string", "serverAddress"))
      BY <1>1, <1>2
         DEF WriteField, BlockStoreMembers, BlockStoreReads, WireTag, Tag, Field
    <3>. QED BY <3>1, <3>2
  <2>2. CASE i = 2
    <3>1. BlockStoreWrites[i] = Field(2, "bytes", "serverHash")
      BY <2>2 DEF BlockStoreWrites
    <3>2. WriteField("BlockStore", Field(2, "bytes", "serverHash"))
      BY <1>1, <1>2
         DEF WriteField, BlockStoreMembers, BlockStoreReads, WireTag, Tag, Field
    <3>. QED BY <3>1, <3>2
  <2>3. CASE i = 3
    <3>1. BlockStoreWrites[i] = Field(3, "string", "fileName")
      BY <2>3 DEF BlockStoreWrites
    <3>2. WriteField("BlockStore", Field(3, "string", "fileName"))
      BY <1>1, <1>2
         DEF WriteField, BlockStoreMembers, BlockStoreReads, WireTag, Tag, Field
    <3>. QED BY <3>1, <3>2
  <2>4. CASE i = 4
    <3>1. BlockStoreWrites[i] = Field(4, "uint64", "blockIdx")
      BY <2>4 DEF BlockStoreWrites
    <3>2. WriteField("BlockStore", Field(4, "uint64", "blockIdx"))
      BY <1>1, <1>2
         DEF WriteField, BlockStoreMembers, BlockStoreReads, WireTag, Tag, Field
    <3>. QED BY <3>1, <3>2
  <2>5. CASE i = 5
    <3>1. BlockStoreWrites[i] = Field(5, "uint64", "blockSize")
      BY <2>5 DEF BlockStoreWrites
    <3>2. WriteField("BlockStore", Field(5, "uint64", "blockSize"))
      BY <1>1, <1>2
         DEF WriteField, BlockStoreMembers, BlockStoreReads, WireTag, Tag, Field
    <3>. QED BY <3>1, <3>2
  <2>6. CASE i = 6
    <3>1. BlockStoreWrites[i] = Field(6, "bytes", "blockHash")
      BY <2>6 DEF BlockStoreWrites
    <3>2. WriteField("BlockStore", Field(6, "bytes", "blockHash"))
      BY <1>1, <1>2
         DEF WriteField, BlockStoreMembers, BlockStoreReads, WireTag, Tag, Field
    <3>. QED BY <3>1, <3>2
  <2>. QED BY ONLY i \in 1 .. 6, <2>1, <2>2, <2>3, <2>4, <2>5, <2>6
<1>5. \A f \in DOMAIN BlockStoreMembers : \E i \in 1 .. 6 : BlockStoreWrites[i].name = f
  BY <1>2 DEF BlockStoreWrites, Field
<1>6. \A i, j \in 1 .. 6 :
        BlockStoreWrites[i].name = BlockStoreWrites[j].name => i = j
  BY DEF BlockStoreWrites, Field
<1>. QED BY <1>1, <1>2, <1>3, <1>4, <1>5, <1>6
     DEF Agreed, Kinds, BlockStoreMembers, BlockStoreClears, BlockStoreSizes,
         BlockStoreMerges

\* The generated functions of BlockInfo agree on its members.
LEMMA BlockInfoAgrees == Agreed("BlockInfo")
<1>1. /\ Members["BlockInfo"] = BlockInfoMembers
      /\ Clears["BlockInfo"] = BlockInfoClears
      /\ Reads["BlockInfo"] = BlockInfoReads
      /\ Writes["BlockInfo"] = BlockInfoWrites
      /\ Sizes["BlockInfo"] = BlockInfoSizes
      /\ Merges["BlockInfo"] = BlockInfoMerges
  BY DEF Members, Clears, Reads, Writes, Sizes, Merges, ByMessage
<1>2. DOMAIN BlockInfoMembers =
        {"fileName", "blockIdx", "blockSize", "blockHash"}
  BY DEF BlockInfoMembers
<1>3. DOMAIN BlockInfoWrites = 1 .. 4
  BY DEF BlockInfoWrites
<1>4. \A i \in 1 .. 4 : WriteField("BlockInfo", BlockInfoWrites[i])
  BY <1>1, <1>2 DEF WriteField, BlockInfoWrites, BlockInfoMembers,
       BlockInfoReads, WireTag, Tag, Field
<1>5. \A f \in DOMAIN BlockInfoMembers : \E i \in 1 .. 4 : BlockInfoWrites[i].name = f
  BY <1>2 DEF BlockInfoWrites, Field
<1>6. \A i, j \in 1 .. 4 :
        BlockInfoWrites[i].name = BlockInfoWrites[j].name => i = j
  BY DEF BlockInfoWrites, Field
<1>. QED BY <1>1, <1>2, <1>3, <1>4, <1>5, <1>6
     DEF Agreed, Kinds, BlockInfoMembers, BlockInfoClears, BlockInfoSizes,
         BlockInfoMerges

\* The generated functions of BlockUnit agree on its members.
LEMMA BlockUnitAgrees == Agreed("BlockUnit")
<1>1. /\ Members["BlockUnit"] = BlockUnitMembers
      /\ Clears["BlockUnit"] = BlockUnitClears
      /\ Reads["BlockUnit"] = BlockUnitReads
      /\ Writes["BlockUnit"] = BlockUnitWrites
      /\ Sizes["BlockUnit"] = BlockUnitSizes
      /\ Merges["BlockUnit"] = BlockUnitMerges
  BY DEF Members, Clears, Reads, Writes, Sizes, Merges, ByMessage
<1>2. DOMAIN BlockUnitMembers =
        {"fileName", "blockIdx", "unitIdx", "unitData", "lastUnit"}
  BY DEF BlockUnitMembers
<1>3. DOMAIN BlockUnitWrites = 1 .. 5
  BY DEF BlockUnitWrites
<1>4. ASSUME NEW i \in 1 .. 5 PROVE WriteField("BlockUnit", BlockUnitWrites[i])
  <2>1. CASE i = 1
    <3>1. BlockUnitWrites[i] = Field(1, "string", "fileName")
      BY <2>1 DEF BlockUnitWrites
    <3>2. WriteField("BlockUnit", Field(1, "string", "fileName"))
      BY <1>1, <1>2 DEF WriteField, BlockUnitMembers, BlockUnitReads, WireTag, Tag, Field
    <3>. QED BY <3>1, <3>2
  <2>2. CASE i = 2
    <3>1. BlockUnitWrites[i] = Field(2, "uint64", "blockIdx")
      BY <2>2 DEF BlockUnitWrites
    <3>2. WriteField("BlockUnit", Field(2, "uint64", "blockIdx"))
      BY <1>1, <1>2 DEF WriteField, BlockUnitMembers, BlockUnitReads, WireTag, Tag, Field
    <3>. QED BY <3>1, <3>2
  <2>3. CASE i = 3
    <3>1. BlockUnitWrites[i] = Field(3, "uint64", "unitIdx")
      BY <2>3 DEF BlockUnitWrites
    <3>2. WriteField("BlockUnit", Field(3, "uint64", "unitIdx"))
      BY <1>1, <1>2 DEF WriteField, BlockUnitMembers, BlockUnitReads, WireTag, Tag, Field
    <3>. QED BY <3>1, <3>2
  <2>4. CASE i = 4
    <3>1. BlockUnitWrites[i] = Field(4, "bytes", "unitData")
      BY <2>4 DEF BlockUnitWrites
    <3>2. WriteField("BlockUnit", Field(4, "bytes", "unitData"))
      BY <1>1, <1>2 DEF WriteField, BlockUnitMembers, BlockUnitReads, WireTag, Tag, Field
    <3>. QED BY <3>1, <3>2
  <2>5. CASE i = 5
    <3>1. BlockUnitWrites[i] = Field(5, "bool", "lastUnit")
      BY <2>5 DEF BlockUnitWrites
    <3>2. WriteField("BlockUnit", Field(5, "bool", "lastUnit"))
      BY <1>1, <1>2 DEF WriteField, BlockUnitMembers, BlockUnitReads, WireTag, Tag, Field
    <3>. QED BY <3>1, <3>2
  <2>. QED BY ONLY i \in 1 .. 5, <2>1, <2>2, <2>3, <2>4, <2>5
<1>5. \A f \in DOMAIN BlockUnitMembers : \E i \in 1 .. 5 : BlockUnitWrites[i].name = f
  BY <1>2 DEF BlockUnitWrites, Field
<1>6. \A i, j \in 1 .. 5 :
        BlockUnitWrites[i].name = BlockUnitWrites[j].name => i = j
  BY DEF BlockUnitWrites, Field
<1>. QED BY <1>1, <1>2, <1>3, <1>4, <1>5, <1>6
     DEF Agreed, Kinds, BlockUnitMembers, BlockUnitClears, BlockUnitSizes,
         BlockUnitMerges

\* The generated functions of every message agree on its members.
LEMMA ListingsAgree == \A T \in Types : Agreed(T)
BY ServerInfoAgrees, FileInfoAgrees, BlockStoreAgrees, BlockInfoAgrees, BlockUnitAgrees
   DEF Types

(***************************************************************************)
(* A method of the stub and its handler                                    *)
(***************************************************************************)
\* The methods of NameService and DataService.
Methods ==
  {"startServer", "terminateServer", "updateBlockInfo",
   "beginGetTransaction", "commitGetTransaction", "abortGetTransaction",
   "beginPutTransaction", "commitPutTransaction", "abortPutTransaction",
   "beginRmTransaction", "commitRmTransaction", "abortRmTransaction",
   "executeLsTransaction", "getBlock", "putBlock", "rmBlock"}

\* What the constructors of the two services register.
Handlers == NameServiceHandlers \cup DataServiceHandlers

\* Stub and service take method m for one of this kind and these types.
Serves(m, kind, from, to) ==
  /\ Stub[m] = Rpc(m, kind)
  /\ Calls[m] = [request |-> from, reply |-> to]
  /\ Handler(m, kind, from, to, m) \in Handlers

\* The stubs' listings and the services' agree, method by method.
LEMMA StubMethods ==
  /\ DOMAIN Stub = Methods
  /\ Serves("startServer", "NORMAL_RPC", "ServerInfo", "ServerInfo")
  /\ Serves("terminateServer", "NORMAL_RPC", "ServerInfo", "ServerInfo")
  /\ Serves("updateBlockInfo", "NORMAL_RPC", "BlockInfo", "BlockInfo")
  /\ Serves("beginGetTransaction", "SERVER_STREAMING", "FileInfo", "BlockStore")
  /\ Serves("commitGetTransaction", "NORMAL_RPC", "FileInfo", "FileInfo")
  /\ Serves("abortGetTransaction", "NORMAL_RPC", "FileInfo", "FileInfo")
  /\ Serves("beginPutTransaction", "SERVER_STREAMING", "FileInfo", "BlockStore")
  /\ Serves("commitPutTransaction", "NORMAL_RPC", "FileInfo", "FileInfo")
  /\ Serves("abortPutTransaction", "NORMAL_RPC", "FileInfo", "FileInfo")
  /\ Serves("beginRmTransaction", "SERVER_STREAMING", "FileInfo", "BlockStore")
  /\ Serves("commitRmTransaction", "NORMAL_RPC", "FileInfo", "FileInfo")
  /\ Serves("abortRmTransaction", "NORMAL_RPC", "FileInfo", "FileInfo")
  /\ Serves("executeLsTransaction", "SERVER_STREAMING", "FileInfo", "FileInfo")
  /\ Serves("getBlock", "SERVER_STREAMING", "BlockInfo", "BlockUnit")
  /\ Serves("putBlock", "CLIENT_STREAMING", "BlockUnit", "BlockInfo")
  /\ Serves("rmBlock", "NORMAL_RPC", "BlockInfo", "BlockInfo")
<1>1. DOMAIN NameServiceStub = Methods \ {"getBlock", "putBlock", "rmBlock"}
  BY DEF NameServiceStub, Methods
<1>2. DOMAIN DataServiceStub = {"getBlock", "putBlock", "rmBlock"}
  BY DEF DataServiceStub
<1>3. DOMAIN NameServiceCalls = DOMAIN NameServiceStub
  BY DEF NameServiceCalls
<1>4. DOMAIN DataServiceCalls = DOMAIN DataServiceStub
  BY <1>2 DEF DataServiceCalls
<1>5. DOMAIN Stub = Methods
  BY <1>1, <1>2 DEF Stub, Both, Methods
<1>6. \A m \in DOMAIN NameServiceStub :
        Stub[m] = NameServiceStub[m] /\ Calls[m] = NameServiceCalls[m]
  BY <1>1, <1>3 DEF Stub, Calls, Both
<1>7. \A m \in DOMAIN DataServiceStub :
        Stub[m] = DataServiceStub[m] /\ Calls[m] = DataServiceCalls[m]
  BY <1>1, <1>2, <1>3, <1>4 DEF Stub, Calls, Both
<1>8. Serves("startServer", "NORMAL_RPC", "ServerInfo", "ServerInfo")
  <2>1. NameServiceStub["startServer"] = Rpc("startServer", "NORMAL_RPC")
    BY DEF NameServiceStub, NameServiceMethods
  <2>2. NameServiceCalls["startServer"]
          = [request |-> "ServerInfo", reply |-> "ServerInfo"]
    BY <1>1 DEF NameServiceCalls, Methods
  <2>3. Handler("startServer", "NORMAL_RPC", "ServerInfo", "ServerInfo", "startServer")
          \in Handlers
    BY DEF Handlers, NameServiceHandlers, NameServiceMethods
  <2>. QED BY <1>1, <1>6, <2>1, <2>2, <2>3 DEF Serves, Methods
<1>9. Serves("terminateServer", "NORMAL_RPC", "ServerInfo", "ServerInfo")
  <2>1. NameServiceStub["terminateServer"] = Rpc("terminateServer", "NORMAL_RPC")
    BY DEF NameServiceStub, NameServiceMethods
  <2>2. NameServiceCalls["terminateServer"]
          = [request |-> "ServerInfo", reply |-> "ServerInfo"]
    BY <1>1 DEF NameServiceCalls, Methods
  <2>3. Handler("terminateServer", "NORMAL_RPC",
                "ServerInfo", "ServerInfo", "terminateServer")
          \in Handlers
    BY DEF Handlers, NameServiceHandlers, NameServiceMethods
  <2>. QED BY <1>1, <1>6, <2>1, <2>2, <2>3 DEF Serves, Methods
<1>10. Serves("updateBlockInfo", "NORMAL_RPC", "BlockInfo", "BlockInfo")
  <2>1. NameServiceStub["updateBlockInfo"] = Rpc("updateBlockInfo", "NORMAL_RPC")
    BY DEF NameServiceStub, NameServiceMethods
  <2>2. NameServiceCalls["updateBlockInfo"]
          = [request |-> "BlockInfo", reply |-> "BlockInfo"]
    BY <1>1 DEF NameServiceCalls, Methods
  <2>3. Handler("updateBlockInfo", "NORMAL_RPC",
                "BlockInfo", "BlockInfo", "updateBlockInfo")
          \in Handlers
    BY DEF Handlers, NameServiceHandlers, NameServiceMethods
  <2>. QED BY <1>1, <1>6, <2>1, <2>2, <2>3 DEF Serves, Methods
<1>11. Serves("beginGetTransaction", "SERVER_STREAMING", "FileInfo", "BlockStore")
  <2>1. NameServiceStub["beginGetTransaction"]
          = Rpc("beginGetTransaction", "SERVER_STREAMING")
    BY DEF NameServiceStub, NameServiceMethods
  <2>2. NameServiceCalls["beginGetTransaction"]
          = [request |-> "FileInfo", reply |-> "BlockStore"]
    BY <1>1 DEF NameServiceCalls, Methods
  <2>3. Handler("beginGetTransaction", "SERVER_STREAMING",
                "FileInfo", "BlockStore", "beginGetTransaction")
          \in Handlers
    BY DEF Handlers, NameServiceHandlers, NameServiceMethods
  <2>. QED BY <1>1, <1>6, <2>1, <2>2, <2>3 DEF Serves, Methods
<1>12. Serves("commitGetTransaction", "NORMAL_RPC", "FileInfo", "FileInfo")
  <2>1. NameServiceStub["commitGetTransaction"]
          = Rpc("commitGetTransaction", "NORMAL_RPC")
    BY DEF NameServiceStub, NameServiceMethods
  <2>2. NameServiceCalls["commitGetTransaction"]
          = [request |-> "FileInfo", reply |-> "FileInfo"]
    BY <1>1 DEF NameServiceCalls, Methods
  <2>3. Handler("commitGetTransaction", "NORMAL_RPC",
                "FileInfo", "FileInfo", "commitGetTransaction")
          \in Handlers
    BY DEF Handlers, NameServiceHandlers, NameServiceMethods
  <2>. QED BY <1>1, <1>6, <2>1, <2>2, <2>3 DEF Serves, Methods
<1>13. Serves("abortGetTransaction", "NORMAL_RPC", "FileInfo", "FileInfo")
  <2>1. NameServiceStub["abortGetTransaction"]
          = Rpc("abortGetTransaction", "NORMAL_RPC")
    BY DEF NameServiceStub, NameServiceMethods
  <2>2. NameServiceCalls["abortGetTransaction"]
          = [request |-> "FileInfo", reply |-> "FileInfo"]
    BY <1>1 DEF NameServiceCalls, Methods
  <2>3. Handler("abortGetTransaction", "NORMAL_RPC",
                "FileInfo", "FileInfo", "abortGetTransaction")
          \in Handlers
    BY DEF Handlers, NameServiceHandlers, NameServiceMethods
  <2>. QED BY <1>1, <1>6, <2>1, <2>2, <2>3 DEF Serves, Methods
<1>14. Serves("beginPutTransaction", "SERVER_STREAMING", "FileInfo", "BlockStore")
  <2>1. NameServiceStub["beginPutTransaction"]
          = Rpc("beginPutTransaction", "SERVER_STREAMING")
    BY DEF NameServiceStub, NameServiceMethods
  <2>2. NameServiceCalls["beginPutTransaction"]
          = [request |-> "FileInfo", reply |-> "BlockStore"]
    BY <1>1 DEF NameServiceCalls, Methods
  <2>3. Handler("beginPutTransaction", "SERVER_STREAMING",
                "FileInfo", "BlockStore", "beginPutTransaction")
          \in Handlers
    BY DEF Handlers, NameServiceHandlers, NameServiceMethods
  <2>. QED BY <1>1, <1>6, <2>1, <2>2, <2>3 DEF Serves, Methods
<1>15. Serves("commitPutTransaction", "NORMAL_RPC", "FileInfo", "FileInfo")
  <2>1. NameServiceStub["commitPutTransaction"]
          = Rpc("commitPutTransaction", "NORMAL_RPC")
    BY DEF NameServiceStub, NameServiceMethods
  <2>2. NameServiceCalls["commitPutTransaction"]
          = [request |-> "FileInfo", reply |-> "FileInfo"]
    BY <1>1 DEF NameServiceCalls, Methods
  <2>3. Handler("commitPutTransaction", "NORMAL_RPC",
                "FileInfo", "FileInfo", "commitPutTransaction")
          \in Handlers
    BY DEF Handlers, NameServiceHandlers, NameServiceMethods
  <2>. QED BY <1>1, <1>6, <2>1, <2>2, <2>3 DEF Serves, Methods
<1>16. Serves("abortPutTransaction", "NORMAL_RPC", "FileInfo", "FileInfo")
  <2>1. NameServiceStub["abortPutTransaction"]
          = Rpc("abortPutTransaction", "NORMAL_RPC")
    BY DEF NameServiceStub, NameServiceMethods
  <2>2. NameServiceCalls["abortPutTransaction"]
          = [request |-> "FileInfo", reply |-> "FileInfo"]
    BY <1>1 DEF NameServiceCalls, Methods
  <2>3. Handler("abortPutTransaction", "NORMAL_RPC",
                "FileInfo", "FileInfo", "abortPutTransaction")
          \in Handlers
    BY DEF Handlers, NameServiceHandlers, NameServiceMethods
  <2>. QED BY <1>1, <1>6, <2>1, <2>2, <2>3 DEF Serves, Methods
<1>17. Serves("beginRmTransaction", "SERVER_STREAMING", "FileInfo", "BlockStore")
  <2>1. NameServiceStub["beginRmTransaction"]
          = Rpc("beginRmTransaction", "SERVER_STREAMING")
    BY DEF NameServiceStub, NameServiceMethods
  <2>2. NameServiceCalls["beginRmTransaction"]
          = [request |-> "FileInfo", reply |-> "BlockStore"]
    BY <1>1 DEF NameServiceCalls, Methods
  <2>3. Handler("beginRmTransaction", "SERVER_STREAMING",
                "FileInfo", "BlockStore", "beginRmTransaction")
          \in Handlers
    BY DEF Handlers, NameServiceHandlers, NameServiceMethods
  <2>. QED BY <1>1, <1>6, <2>1, <2>2, <2>3 DEF Serves, Methods
<1>18. Serves("commitRmTransaction", "NORMAL_RPC", "FileInfo", "FileInfo")
  <2>1. NameServiceStub["commitRmTransaction"]
          = Rpc("commitRmTransaction", "NORMAL_RPC")
    BY DEF NameServiceStub, NameServiceMethods
  <2>2. NameServiceCalls["commitRmTransaction"]
          = [request |-> "FileInfo", reply |-> "FileInfo"]
    BY <1>1 DEF NameServiceCalls, Methods
  <2>3. Handler("commitRmTransaction", "NORMAL_RPC",
                "FileInfo", "FileInfo", "commitRmTransaction")
          \in Handlers
    BY DEF Handlers, NameServiceHandlers, NameServiceMethods
  <2>. QED BY <1>1, <1>6, <2>1, <2>2, <2>3 DEF Serves, Methods
<1>19. Serves("abortRmTransaction", "NORMAL_RPC", "FileInfo", "FileInfo")
  <2>1. NameServiceStub["abortRmTransaction"] = Rpc("abortRmTransaction", "NORMAL_RPC")
    BY DEF NameServiceStub, NameServiceMethods
  <2>2. NameServiceCalls["abortRmTransaction"]
          = [request |-> "FileInfo", reply |-> "FileInfo"]
    BY <1>1 DEF NameServiceCalls, Methods
  <2>3. Handler("abortRmTransaction", "NORMAL_RPC",
                "FileInfo", "FileInfo", "abortRmTransaction")
          \in Handlers
    BY DEF Handlers, NameServiceHandlers, NameServiceMethods
  <2>. QED BY <1>1, <1>6, <2>1, <2>2, <2>3 DEF Serves, Methods
<1>20. Serves("executeLsTransaction", "SERVER_STREAMING", "FileInfo", "FileInfo")
  <2>1. NameServiceStub["executeLsTransaction"]
          = Rpc("executeLsTransaction", "SERVER_STREAMING")
    BY DEF NameServiceStub, NameServiceMethods
  <2>2. NameServiceCalls["executeLsTransaction"]
          = [request |-> "FileInfo", reply |-> "FileInfo"]
    BY <1>1 DEF NameServiceCalls, Methods
  <2>3. Handler("executeLsTransaction", "SERVER_STREAMING",
                "FileInfo", "FileInfo", "executeLsTransaction")
          \in Handlers
    BY DEF Handlers, NameServiceHandlers, NameServiceMethods
  <2>. QED BY <1>1, <1>6, <2>1, <2>2, <2>3 DEF Serves, Methods
<1>21. Serves("getBlock", "SERVER_STREAMING", "BlockInfo", "BlockUnit")
  <2>1. DataServiceStub["getBlock"] = Rpc("getBlock", "SERVER_STREAMING")
    BY DEF DataServiceStub, DataServiceMethods
  <2>2. DataServiceCalls["getBlock"] = [request |-> "BlockInfo", reply |-> "BlockUnit"]
    BY DEF DataServiceCalls
  <2>3. Handler("getBlock", "SERVER_STREAMING", "BlockInfo", "BlockUnit", "getBlock")
          \in Handlers
    BY DEF Handlers, DataServiceHandlers, DataServiceMethods
  <2>. QED BY <1>2, <1>7, <2>1, <2>2, <2>3 DEF Serves
<1>22. Serves("putBlock", "CLIENT_STREAMING", "BlockUnit", "BlockInfo")
  <2>1. DataServiceStub["putBlock"] = Rpc("putBlock", "CLIENT_STREAMING")
    BY DEF DataServiceStub, DataServiceMethods
  <2>2. DataServiceCalls["putBlock"] = [request |-> "BlockUnit", reply |-> "BlockInfo"]
    BY DEF DataServiceCalls
  <2>3. Handler("putBlock", "CLIENT_STREAMING", "BlockUnit", "BlockInfo", "putBlock")
          \in Handlers
    BY DEF Handlers, DataServiceHandlers, DataServiceMethods
  <2>. QED BY <1>2, <1>7, <2>1, <2>2, <2>3 DEF Serves
<1>23. Serves("rmBlock", "NORMAL_RPC", "BlockInfo", "BlockInfo")
  <2>1. DataServiceStub["rmBlock"] = Rpc("rmBlock", "NORMAL_RPC")
    BY DEF DataServiceStub, DataServiceMethods
  <2>2. DataServiceCalls["rmBlock"] = [request |-> "BlockInfo", reply |-> "BlockInfo"]
    BY DEF DataServiceCalls
  <2>3. Handler("rmBlock", "NORMAL_RPC", "BlockInfo", "BlockInfo", "rmBlock")
          \in Handlers
    BY DEF Handlers, DataServiceHandlers, DataServiceMethods
  <2>. QED BY <1>2, <1>7, <2>1, <2>2, <2>3 DEF Serves
<1>. QED
  BY <1>5, <1>8, <1>9, <1>10, <1>11, <1>12, <1>13, <1>14, <1>15,
     <1>16, <1>17, <1>18, <1>19, <1>20, <1>21, <1>22, <1>23

\* The handler the stub of method m means.
HandlerOf(m) == Handler(m, Stub[m].kind, Calls[m].request, Calls[m].reply, m)

\* A call arrives at the handler its stub means: no other one is registered under its
\* path.
LEMMA ServedByItsHandler ==
  ASSUME NEW m \in Methods
  PROVE  ServedBy(m) = HandlerOf(m)
<1>. DEFINE Ours == {HandlerOf(n) : n \in Methods}
<1>1. ASSUME NEW n, NEW kind, NEW from, NEW to, Serves(n, kind, from, to)
      PROVE  HandlerOf(n) = Handler(n, kind, from, to, n)
  BY <1>1 DEF Serves, HandlerOf, Rpc
<1>2. HandlerOf("startServer") \in Ours
  BY DEF Methods
<1>3. ASSUME NEW h \in NameServiceHandlers PROVE h \in Ours
  <2>1. NameServiceHandlers =
          {HandlerOf("startServer"), HandlerOf("terminateServer"),
           HandlerOf("updateBlockInfo"), HandlerOf("beginGetTransaction"),
           HandlerOf("commitGetTransaction"), HandlerOf("abortGetTransaction"),
           HandlerOf("beginPutTransaction"), HandlerOf("commitPutTransaction"),
           HandlerOf("abortPutTransaction"), HandlerOf("beginRmTransaction"),
           HandlerOf("commitRmTransaction"), HandlerOf("abortRmTransaction"),
           HandlerOf("executeLsTransaction")}
    BY <1>1, StubMethods DEF NameServiceHandlers, NameServiceMethods
  <2>. QED BY <2>1 DEF Methods
<1>4. ASSUME NEW h \in DataServiceHandlers PROVE h \in Ours
  <2>1. DataServiceHandlers =
          {HandlerOf("getBlock"), HandlerOf("putBlock"), HandlerOf("rmBlock")}
    BY <1>1, StubMethods DEF DataServiceHandlers, DataServiceMethods
  <2>. QED BY <2>1 DEF Methods
<1>5. \A n \in Methods : Stub[n].path = n /\ HandlerOf(n) \in Handlers
  BY <1>1, StubMethods DEF Serves, Methods, Rpc
<1>6. \A n : HandlerOf(n).path = n
  BY DEF HandlerOf, Handler
<1>7. \A h \in Handlers : h.path = m => h = HandlerOf(m)
  BY <1>3, <1>4, <1>6 DEF Handlers
<1>8. ServedBy(m) = CHOOSE h \in Handlers : h.path = m
  BY <1>5 DEF ServedBy, Handlers
<1>. HIDE DEF Ours
<1>. QED BY <1>5, <1>6, <1>7, <1>8

\* The type of the messages of a direction.
TypeAt(m, d) == IF d = "up" THEN Calls[m].request ELSE Calls[m].reply

\* The writer and the reader of a direction take its messages for the same type.
LEMMA WriterAndReaderAgree ==
  ASSUME method \in Methods, NEW d
  PROVE  /\ WriterType(d) = TypeAt(method, d)
         /\ ReaderType(d) = TypeAt(method, d)
         /\ handler.kind = Stub[method].kind
         /\ handler.function = method
         /\ handler.reply = Calls[method].reply
BY ServedByItsHandler DEF WriterType, ReaderType, TypeAt, handler, HandlerOf, Handler

\* What the methods exchange, and how.
LEMMA MethodKinds ==
  ASSUME NEW m \in Methods
  PROVE  /\ Calls[m].request \in Types /\ Calls[m].reply \in Types
         /\ Stub[m].kind \in {"NORMAL_RPC", "SERVER_STREAMING", "CLIENT_STREAMING"}
         /\ Stub[m].kind = "CLIENT_STREAMING" <=> m = "putBlock"
         /\ Stub[m].kind = "NORMAL_RPC" <=>
              m \in OneObject \cup {"startServer", "terminateServer", "rmBlock"}
         /\ m \in OneObject \cup {"startServer", "terminateServer", "rmBlock"} =>
              Calls[m].request = Calls[m].reply
         /\ m \in {"startServer", "terminateServer"} => Calls[m].request = "ServerInfo"
         /\ m = "rmBlock" => Calls[m].request = "BlockInfo"
         /\ m = "putBlock" => Calls[m] = [request |-> "BlockUnit", reply |-> "BlockInfo"]
         /\ m \in Begins \cup Commits => Calls[m].request = "FileInfo"
         /\ m = "executeLsTransaction" => Calls[m].request = "FileInfo"
BY StubMethods DEF Methods, Serves, Rpc, OneObject, Begins, Commits, Types

(***************************************************************************)
(* Messages                                                                *)
(***************************************************************************)
\* What a member may hold.
Values == {Empty, 0} \cup Names \cup Hashes \cup Numbers \cup NotText \cup BOOLEAN

\* The objects of type T.
Message(T) ==
  {m \in [DOMAIN Members[T] -> Values] :
     \A f \in DOMAIN Members[T] : Members[T][f] = "bool" => m[f] \in BOOLEAN}

\* Every string of m is UTF-8.
Clean(T, m) == \A f \in DOMAIN Members[T] : Members[T][f] = "string" => m[f] \notin NotText

\* A constructor makes an object of its type, whose strings are UTF-8.
LEMMA DefaultIsMessage ==
  ASSUME NEW T \in Types
  PROVE  Default(T) \in Message(T) /\ Clean(T, Default(T))
<1>1. \A f \in DOMAIN Members[T] : Members[T][f] \in Kinds
  BY ListingsAgree DEF Agreed
<1>2. ASSUME NEW f \in DOMAIN Members[T]
      PROVE  /\ DefaultOf(Members[T][f]) \in Values
             /\ Members[T][f] = "bool" => DefaultOf(Members[T][f]) \in BOOLEAN
             /\ Members[T][f] = "string" => DefaultOf(Members[T][f]) \notin NotText
  BY <1>1, WireAssumption DEF DefaultOf, Values, Kinds
<1>. QED BY <1>2 DEF Default, Message, Clean

\* Clear leaves nothing of the message before.
LEMMA ClearResets ==
  ASSUME NEW T \in Types, NEW o \in Message(T)
  PROVE  Clear(T, o) = Default(T)
BY ListingsAgree DEF Agreed, Clear, Default, Message

\* CopyFrom copies all of a message, whatever the object held.
LEMMA CopyIsSame ==
  ASSUME NEW T \in Types, NEW o \in Message(T), NEW m \in Message(T)
  PROVE  CopyFrom(T, o, m) = m
<1>1. CopyFrom(T, o, m) = MergeFrom(T, Default(T), m)
  BY ClearResets DEF CopyFrom
<1>2. Merges[T] = DOMAIN Members[T] /\ DOMAIN m = DOMAIN Members[T]
  BY ListingsAgree DEF Agreed, Message
<1>3. m = [f \in DOMAIN Members[T] |-> m[f]]
  BY DEF Message
<1>. QED BY <1>1, <1>2, <1>3 DEF MergeFrom, IsSet, Default

(***************************************************************************)
(* The tokens of a message                                                 *)
(***************************************************************************)
\* A tagged value on the wire.
Token == [tag : Nat, value : Values \cup {1}]

\* The one the serializers write for field w of m.
TokenOf(m, w) == [tag |-> WireTag(w), value |-> Encoded(w.kind, m[w.name])]

\* The fields of m that are on the wire.
SetFields(T, m) == {i \in DOMAIN Writes[T] : IsSet(T, m, Writes[T][i].name)}

\* The serializers write tagged values.
LEMMA TokenTyped ==
  ASSUME NEW T \in Types, NEW m \in Message(T), NEW i \in DOMAIN Writes[T]
  PROVE  TokenOf(m, Writes[T][i]) \in Token
<1>. DEFINE w == Writes[T][i]
<1>1. w.name \in DOMAIN Members[T] /\ w.kind = Members[T][w.name] /\ WireTag(w) \in Nat
  BY ListingsAgree DEF Agreed, WriteField
<1>. HIDE DEF w
<1>2. Encoded(w.kind, m[w.name]) \in Values \cup {1}
  BY <1>1 DEF Encoded, Message, Values
<1>3. TokenOf(m, w) \in Token
  BY <1>1, <1>2 DEF TokenOf, Token
<1>. QED BY <1>3 DEF w

\* What is on the wire of a message: its fields that are not the default.
LEMMA SerializeTokens ==
  ASSUME NEW T \in Types, NEW m \in Message(T)
  PROVE  /\ Serialize(T, m) \in Seq(Token)
         /\ ToSet(Serialize(T, m)) = {TokenOf(m, Writes[T][i]) : i \in SetFields(T, m)}
<1>. DEFINE seqs == [i \in DOMAIN Writes[T] |->
                       IF IsSet(T, m, Writes[T][i].name)
                       THEN <<TokenOf(m, Writes[T][i])>> ELSE <<>>]
<1>1. PICK n \in Nat : DOMAIN Writes[T] = 1 .. n
  BY ListingsAgree DEF Agreed
<1>2. Serialize(T, m) = FlattenSeq(seqs)
  BY DEF Serialize, TokenOf
<1>3. ASSUME NEW t \in Token
      PROVE  <<t>> \in Seq(Token) /\ ToSet(<<t>>) = {t}
  BY DEF ToSet
<1>4. <<>> \in Seq(Token) /\ ToSet(<<>>) = {}
  BY DEF ToSet
<1>5. ASSUME NEW i \in 1 .. n
      PROVE  /\ seqs[i] \in Seq(Token)
             /\ ToSet(seqs[i]) = IF i \in SetFields(T, m)
                                 THEN {TokenOf(m, Writes[T][i])} ELSE {}
  <2>1. TokenOf(m, Writes[T][i]) \in Token
    BY <1>1, TokenTyped
  <2>. HIDE DEF Token
  <2>. QED BY <1>1, <1>3, <1>4, <2>1 DEF SetFields
<1>6. seqs = [i \in 1 .. n |-> seqs[i]]
  BY <1>1
<1>. HIDE DEF seqs
<1>7. seqs \in Seq(Seq(Token)) /\ Len(seqs) = n
  BY <1>5, <1>6, LenProperties
<1>8. ToSet(FlattenSeq(seqs)) = UNION {ToSet(seqs[i]) : i \in 1 .. n}
  BY <1>7, FlattenMembers
<1>9. UNION {ToSet(seqs[i]) : i \in 1 .. n}
        = {TokenOf(m, Writes[T][i]) : i \in SetFields(T, m)}
  <2>1. SetFields(T, m) \subseteq 1 .. n
    BY <1>1 DEF SetFields
  <2>. QED BY <1>5, <2>1
<1>. QED BY <1>2, <1>7, <1>8, <1>9, FlattenIsList

(***************************************************************************)
(* A message half read                                                     *)
(***************************************************************************)
\* The object o is half way to m: its strings are UTF-8, what is left, r, are fields of
\* m, and a member that is not yet as in m is among them.
Partial(T, o, r, m) ==
  /\ Clean(T, o)
  /\ \A t \in ToSet(r) : \E i \in SetFields(T, m) : t = TokenOf(m, Writes[T][i])
  /\ \A i \in DOMAIN Writes[T] :
       LET w == Writes[T][i]
       IN  o[w.name] = m[w.name] \/ TokenOf(m, w) \in ToSet(r)

\* The parser reads t into the member of field w, and into no other, as it is in m.
ReadsAs(T, m, w, t) ==
  /\ Known(T, t) = {Tag(WireTag(w), w.kind, w.name)}
  /\ Decoded(w.kind, t.value) = m[w.name]
  /\ w.kind = "string" => t.value = m[w.name]
  /\ w.name \in DOMAIN Members[T] /\ w.kind = Members[T][w.name]

\* The parser reads what the serializers write: a field comes back into its member.
LEMMA TokenRead ==
  ASSUME NEW T \in Types, NEW m \in Message(T), NEW i \in DOMAIN Writes[T]
  PROVE  ReadsAs(T, m, Writes[T][i], TokenOf(m, Writes[T][i]))
<1>. PICK w : w = Writes[T][i]
  OBVIOUS
<1>1. WriteField(T, w)
  BY ListingsAgree DEF Agreed
<1>2. w.kind = "bool" => m[w.name] \in BOOLEAN
  BY <1>1 DEF WriteField, Message
<1>3. TokenOf(m, w).tag = WireTag(w) /\ TokenOf(m, w).value = Encoded(w.kind, m[w.name])
  BY DEF TokenOf
<1>4. Known(T, TokenOf(m, w)) = {Tag(WireTag(w), w.kind, w.name)}
  <2>1. Tag(WireTag(w), w.kind, w.name).tag = WireTag(w)
    BY DEF Tag
  <2>. QED BY <1>1, <1>3, <2>1 DEF Known, WriteField
<1>5. Decoded(w.kind, Encoded(w.kind, m[w.name])) = m[w.name]
  BY <1>2 DEF Encoded, Decoded
<1>6. w.kind = "string" => Encoded(w.kind, m[w.name]) = m[w.name]
  BY DEF Encoded
<1>. QED BY <1>1, <1>3, <1>4, <1>5, <1>6 DEF WriteField, ReadsAs

\* ParseFromCodedStream starts with an empty object: the fields it will not read are
\* the default on both sides.
LEMMA PartialStart ==
  ASSUME NEW T \in Types, NEW o \in Message(T), NEW m \in Message(T)
  PROVE  /\ Clear(T, o) \in Message(T)
         /\ Partial(T, Clear(T, o), Serialize(T, m), m)
<1>1. Clear(T, o) = Default(T) /\ Default(T) \in Message(T) /\ Clean(T, Default(T))
  BY ClearResets, DefaultIsMessage
<1>2. ToSet(Serialize(T, m)) = {TokenOf(m, Writes[T][i]) : i \in SetFields(T, m)}
  BY SerializeTokens
<1>3. ASSUME NEW i \in DOMAIN Writes[T],
             Default(T)[Writes[T][i].name] # m[Writes[T][i].name]
      PROVE  i \in SetFields(T, m)
  <2>1. Writes[T][i].name \in DOMAIN Members[T]
    BY TokenRead DEF ReadsAs
  <2>. QED BY <1>3, <2>1 DEF SetFields, IsSet, Default
<1>. QED BY <1>1, <1>2, <1>3 DEF Partial

\* With nothing left, the object is the message, and its strings are UTF-8.
LEMMA PartialEnd ==
  ASSUME NEW T \in Types, NEW o \in Message(T), NEW m \in Message(T), Partial(T, o, <<>>, m)
  PROVE  o = m /\ Clean(T, m)
<1>1. ToSet(<<>>) = {}
  BY DEF ToSet
<1>2. ASSUME NEW f \in DOMAIN Members[T] PROVE o[f] = m[f]
  <2>1. PICK i \in DOMAIN Writes[T] : Writes[T][i].name = f
    BY ListingsAgree DEF Agreed
  <2>. QED BY <1>1, <2>1 DEF Partial
<1>3. o = m
  BY <1>2 DEF Message
<1>. QED BY <1>3 DEF Partial

\* The parse fails only for a string of the message that is not UTF-8.
LEMMA PartialFails ==
  ASSUME NEW T \in Types, NEW o, NEW m \in Message(T),
         NEW r \in Seq(Token), r # <<>>,
         Partial(T, o, r, m), Fails(T, Head(r))
  PROVE  ~Clean(T, m)
<1>1. PICK i \in DOMAIN Writes[T] : Head(r) = TokenOf(m, Writes[T][i])
  BY HeadTailMembers DEF Partial, SetFields
<1>. PICK w : w = Writes[T][i]
  OBVIOUS
<1>2. /\ Known(T, Head(r)) = {Tag(WireTag(w), w.kind, w.name)}
      /\ w.kind = "string" => Head(r).value = m[w.name]
      /\ w.name \in DOMAIN Members[T] /\ w.kind = Members[T][w.name]
  <2>1. ReadsAs(T, m, w, Head(r))
    BY <1>1, TokenRead
  <2>. QED BY <2>1 DEF ReadsAs
<1>3. Tag(WireTag(w), w.kind, w.name).kind = w.kind
  BY DEF Tag
<1>4. w.kind = "string" /\ Head(r).value \in NotText
  BY <1>2, <1>3 DEF Fails
<1>. QED BY <1>2, <1>4 DEF Clean

\* A round of the parser brings the object one field closer to the message.
LEMMA PartialParse ==
  ASSUME NEW T \in Types, NEW o \in Message(T), NEW m \in Message(T),
         NEW r \in Seq(Token), r # <<>>,
         Partial(T, o, r, m), ~Fails(T, Head(r))
  PROVE  /\ Parsed(T, o, Head(r)) \in Message(T)
         /\ Partial(T, Parsed(T, o, Head(r)), Tail(r), m)
<1>1. PICK i \in DOMAIN Writes[T] : Head(r) = TokenOf(m, Writes[T][i])
  BY HeadTailMembers DEF Partial, SetFields
<1>. PICK w : w = Writes[T][i]
  OBVIOUS
<1>2. /\ Known(T, Head(r)) = {Tag(WireTag(w), w.kind, w.name)}
      /\ Decoded(w.kind, Head(r).value) = m[w.name]
      /\ w.kind = "string" => Head(r).value = m[w.name]
      /\ w.name \in DOMAIN Members[T] /\ w.kind = Members[T][w.name]
  <2>1. ReadsAs(T, m, w, Head(r))
    BY <1>1, TokenRead
  <2>. QED BY <2>1 DEF ReadsAs
<1>3. /\ Tag(WireTag(w), w.kind, w.name).kind = w.kind
      /\ Tag(WireTag(w), w.kind, w.name).name = w.name
  BY DEF Tag
<1>. PICK p : p = Parsed(T, o, Head(r))
  OBVIOUS
<1>4. DOMAIN o = DOMAIN Members[T] /\ \A f \in DOMAIN Members[T] : o[f] \in Values
  BY DEF Message
<1>5. p = [f \in DOMAIN Members[T] |-> IF f = w.name THEN m[w.name] ELSE o[f]]
  BY <1>2, <1>3, <1>4 DEF Parsed
<1>6. p \in Message(T)
  BY <1>2, <1>5 DEF Message
<1>7. w.kind = "string" => m[w.name] \notin NotText
  BY <1>2, <1>3 DEF Fails
<1>8. Clean(T, p)
  BY <1>2, <1>5, <1>7 DEF Clean, Partial
<1>9. ToSet(r) = {Head(r)} \cup ToSet(Tail(r))
  BY HeadTailMembers
<1>10. ASSUME NEW j \in DOMAIN Writes[T]
       PROVE  \/ p[Writes[T][j].name] = m[Writes[T][j].name]
              \/ TokenOf(m, Writes[T][j]) \in ToSet(Tail(r))
  <2>0. ReadsAs(T, m, Writes[T][j], TokenOf(m, Writes[T][j]))
    BY TokenRead
  <2>1. Writes[T][j].name \in DOMAIN Members[T]
    BY <2>0 DEF ReadsAs
  <2>2. CASE Writes[T][j].name = w.name
    BY <1>2, <1>5, <2>2
  <2>3. CASE Writes[T][j].name # w.name
    <3>1. p[Writes[T][j].name] = o[Writes[T][j].name]
      BY <1>5, <2>1, <2>3
    <3>2. TokenOf(m, Writes[T][j]) # Head(r)
      <4>1. /\ Known(T, TokenOf(m, Writes[T][j])) =
                 {Tag(WireTag(Writes[T][j]), Writes[T][j].kind, Writes[T][j].name)}
        BY <2>0 DEF ReadsAs
      <4>2. Tag(WireTag(Writes[T][j]), Writes[T][j].kind, Writes[T][j].name).name =
              Writes[T][j].name
        BY DEF Tag
      <4>. QED BY <1>2, <1>3, <2>3, <4>1, <4>2
    <3>. QED BY <1>9, <3>1, <3>2 DEF Partial
  <2>. QED BY <2>2, <2>3
<1>. QED BY <1>6, <1>8, <1>9, <1>10 DEF Partial

(***************************************************************************)
(* The messages of a direction: sent, under way, being read, read          *)
(***************************************************************************)
\* Of the messages s sent, those of g are read, the next one is half read when reads,
\* and the frames under way, w, are the others, in order.
Flow(T, o, r, reads, w, s, g) ==
  /\ o \in Message(T) /\ r \in Seq(Token) /\ w \in Seq(Seq(Token))
  /\ s \in Seq(Message(T)) /\ g \in Seq(Message(T))
  /\ \A i \in 1 .. Len(g) : g[i] = s[i]
  /\ \A i \in 1 .. Len(w) : w[i] = Serialize(T, s[Len(s) - Len(w) + i])
  /\ reads => Len(s) = Len(g) + 1 + Len(w) /\ Partial(T, o, r, s[Len(g) + 1])
  /\ ~reads => Len(s) = Len(g) + Len(w) /\ r = <<>>

\* A write adds a message and its frame.
LEMMA FlowWrites ==
  ASSUME NEW T \in Types, NEW o, NEW r, NEW reads, NEW w, NEW s, NEW g,
         Flow(T, o, r, reads, w, s, g), NEW m \in Message(T)
  PROVE  Flow(T, o, r, reads, Append(w, Serialize(T, m)), Append(s, m), g)
<1>. DEFINE M == Message(T)
            x == Serialize(T, m)
            F == Seq(Token)
<1>1. x \in F
  BY SerializeTokens
<1>2. /\ s \in Seq(M) /\ g \in Seq(M) /\ w \in Seq(F) /\ m \in M
      /\ \A i \in 1 .. Len(g) : g[i] = s[i]
      /\ \A i \in 1 .. Len(w) : w[i] = Serialize(T, s[Len(s) - Len(w) + i])
      /\ reads => Len(s) = Len(g) + 1 + Len(w) /\ Partial(T, o, r, s[Len(g) + 1])
      /\ ~reads => Len(s) = Len(g) + Len(w) /\ r = <<>>
  BY DEF Flow
<1>. HIDE DEF M, x, F
<1>3. Len(s) \in Nat /\ Len(g) \in Nat /\ Len(w) \in Nat
  BY <1>2, LenProperties
<1>4. /\ Append(s, m) \in Seq(M) /\ Len(Append(s, m)) = Len(s) + 1
      /\ \A i \in 1 .. Len(s) : Append(s, m)[i] = s[i]
      /\ Append(s, m)[Len(s) + 1] = m
  BY <1>2, AppendProperties
<1>5. /\ Append(w, x) \in Seq(F) /\ Len(Append(w, x)) = Len(w) + 1
      /\ \A i \in 1 .. Len(w) : Append(w, x)[i] = w[i]
      /\ Append(w, x)[Len(w) + 1] = x
  BY <1>1, <1>2, AppendProperties
<1>. PICK s1, w1 : s1 = Append(s, m) /\ w1 = Append(w, x)
  OBVIOUS
<1>6. \A i \in 1 .. Len(g) : g[i] = s1[i]
  BY <1>2, <1>3, <1>4
<1>7. ASSUME NEW i \in 1 .. Len(w1)
      PROVE  w1[i] = Serialize(T, s1[Len(s1) - Len(w1) + i])
  <2>. PICK j : j = Len(s1) - Len(w1) + i
    OBVIOUS
  <2>1. j = Len(s) - Len(w) + i
    BY <1>3, <1>4, <1>5
  <2>2. CASE i = Len(w) + 1
    <3>1. j = Len(s) + 1
      BY <1>3, <2>1, <2>2
    <3>. QED BY <1>4, <1>5, <2>2, <3>1 DEF x
  <2>3. CASE i # Len(w) + 1
    <3>1. i \in 1 .. Len(w) /\ j \in 1 .. Len(s)
      BY <1>2, <1>3, <1>5, <2>1, <2>3
    <3>. QED BY <1>2, <1>4, <1>5, <2>1, <3>1
  <2>. QED BY <2>2, <2>3
<1>8. reads => s1[Len(g) + 1] = s[Len(g) + 1]
  BY <1>2, <1>3, <1>4
<1>9. Len(s1) = Len(s) + 1 /\ Len(w1) = Len(w) + 1
  BY <1>4, <1>5
<1>12. /\ reads => Len(s1) = Len(g) + 1 + Len(w1)
       /\ ~reads => Len(s1) = Len(g) + Len(w1)
  <2>1. CASE reads
    <3>1. Len(s) = Len(g) + 1 + Len(w)
      BY <1>2, <2>1
    <3>. QED BY <1>3, <1>9, <2>1, <3>1
  <2>2. CASE ~reads
    <3>1. Len(s) = Len(g) + Len(w)
      BY <1>2, <2>2
    <3>. QED BY <1>3, <1>9, <2>2, <3>1
  <2>. QED BY <2>1, <2>2
<1>10. /\ o \in M /\ r \in F /\ s1 \in Seq(M) /\ w1 \in Seq(F)
  BY <1>4, <1>5 DEF Flow, M, F
<1>11. /\ reads => Partial(T, o, r, s1[Len(g) + 1])
       /\ ~reads => r = <<>>
  BY <1>2, <1>8
<1>. QED BY <1>2, <1>6, <1>7, <1>10, <1>11, <1>12, Zenon DEF Flow, M, F, x

\* A read starts with the first frame under way.
LEMMA FlowStarts ==
  ASSUME NEW T \in Types, NEW o, NEW r, NEW w, NEW s, NEW g,
         Flow(T, o, r, FALSE, w, s, g), w # <<>>
  PROVE  Flow(T, Clear(T, o), Head(w), TRUE, Tail(w), s, g)
<1>. DEFINE M == Message(T)
            F == Seq(Token)
<1>2. /\ s \in Seq(M) /\ g \in Seq(M) /\ w \in Seq(F) /\ o \in M
      /\ Len(s) = Len(g) + Len(w)
      /\ \A i \in 1 .. Len(g) : g[i] = s[i]
      /\ \A i \in 1 .. Len(w) : w[i] = Serialize(T, s[Len(s) - Len(w) + i])
  BY DEF Flow
<1>. HIDE DEF M, F
<1>3. Len(s) \in Nat /\ Len(g) \in Nat /\ Len(w) \in Nat \ {0}
  BY <1>2, LenProperties, EmptySeq
<1>4. /\ Head(w) \in F /\ Head(w) = w[1] /\ Tail(w) \in Seq(F)
      /\ Len(Tail(w)) = Len(w) - 1
      /\ \A i \in 1 .. Len(w) - 1 : Tail(w)[i] = w[i + 1]
  BY <1>2, HeadTailProperties
<1>. PICK w1, m : w1 = Tail(w) /\ m = s[Len(g) + 1]
  OBVIOUS
<1>5. Head(w) = Serialize(T, m)
  <2>1. 1 \in 1 .. Len(w) /\ Len(s) - Len(w) + 1 = Len(g) + 1
    BY <1>2, <1>3
  <2>. QED BY <1>2, <1>4, <2>1
<1>6. ASSUME NEW i \in 1 .. Len(w1)
      PROVE  w1[i] = Serialize(T, s[Len(s) - Len(w1) + i])
  <2>1. i \in 1 .. Len(w) - 1 /\ i + 1 \in 1 .. Len(w)
    BY <1>3, <1>4
  <2>2. Len(s) - Len(w1) + i = Len(s) - Len(w) + (i + 1)
    BY <1>3, <1>4
  <2>. QED BY <1>2, <1>4, <2>1, <2>2
<1>7. m \in M
  BY <1>2, <1>3, ElementOfSeq, Len(g) + 1 \in 1 .. Len(s)
<1>8. Clear(T, o) \in M /\ Partial(T, Clear(T, o), Head(w), m)
  BY <1>2, <1>5, <1>7, PartialStart DEF M
<1>9. Len(s) = Len(g) + 1 + Len(w1)
  BY <1>2, <1>3, <1>4
<1>10. Flow(T, Clear(T, o), Head(w), TRUE, w1, s, g)
  BY <1>2, <1>4, <1>6, <1>8, <1>9 DEF Flow, M, F
<1>. QED BY <1>10

\* A round of the parser fails on a bad name or goes on with the message.
LEMMA FlowParses ==
  ASSUME NEW T \in Types, NEW o, NEW r, NEW reads \in BOOLEAN, NEW w, NEW s, NEW g,
         Flow(T, o, r, reads, w, s, g), r # <<>>
  PROVE  /\ reads
         /\ s[Len(g) + 1] \in Message(T) /\ Len(g) + 1 \in 1 .. Len(s)
         /\ IF Fails(T, Head(r)) THEN ~Clean(T, s[Len(g) + 1])
            ELSE Flow(T, Parsed(T, o, Head(r)), Tail(r), reads, w, s, g)
<1>1. reads /\ Partial(T, o, r, s[Len(g) + 1]) /\ r \in Seq(Token) /\ o \in Message(T)
  BY DEF Flow
<1>2. s[Len(g) + 1] \in Message(T) /\ Len(g) + 1 \in 1 .. Len(s)
  <2>1. s \in Seq(Message(T)) /\ Len(s) \in Nat /\ Len(g) \in Nat /\ Len(w) \in Nat
    BY LenProperties DEF Flow
  <2>2. Len(s) = Len(g) + 1 + Len(w)
    BY <1>1 DEF Flow
  <2>3. Len(g) + 1 \in 1 .. Len(s)
    BY <2>1, <2>2
  <2>. QED BY <2>1, <2>3, ElementOfSeq
<1>3. CASE Fails(T, Head(r))
  BY <1>1, <1>2, <1>3, PartialFails
<1>4. CASE ~Fails(T, Head(r))
  <2>1. /\ Parsed(T, o, Head(r)) \in Message(T)
        /\ Partial(T, Parsed(T, o, Head(r)), Tail(r), s[Len(g) + 1])
    BY <1>1, <1>2, <1>4, PartialParse
  <2>2. Tail(r) \in Seq(Token)
    BY <1>1, HeadTailProperties
  <2>. QED BY <1>1, <1>2, <1>4, <2>1, <2>2, Zenon DEF Flow
<1>. QED BY <1>3, <1>4

\* A read that ends has the next message, and it is clean.
LEMMA FlowEnds ==
  ASSUME NEW T \in Types, NEW o, NEW w, NEW s, NEW g,
         Flow(T, o, <<>>, TRUE, w, s, g)
  PROVE  /\ Flow(T, o, <<>>, FALSE, w, s, Append(g, o))
         /\ Len(g) + 1 \in 1 .. Len(s) /\ o = s[Len(g) + 1] /\ Clean(T, o)
<1>. DEFINE M == Message(T)
<1>1. /\ s \in Seq(M) /\ g \in Seq(M) /\ o \in M
      /\ Len(s) = Len(g) + 1 + Len(w)
      /\ \A i \in 1 .. Len(g) : g[i] = s[i]
      /\ Partial(T, o, <<>>, s[Len(g) + 1])
  BY DEF Flow
<1>2. Len(s) \in Nat /\ Len(g) \in Nat /\ Len(w) \in Nat
  BY LenProperties DEF Flow
<1>. HIDE DEF M
<1>3. Len(g) + 1 \in 1 .. Len(s) /\ s[Len(g) + 1] \in M
  BY <1>1, <1>2, ElementOfSeq, Len(g) + 1 \in 1 .. Len(s)
<1>4. o = s[Len(g) + 1] /\ Clean(T, o)
  BY <1>1, <1>3, PartialEnd DEF M
<1>5. /\ Append(g, o) \in Seq(M) /\ Len(Append(g, o)) = Len(g) + 1
      /\ \A i \in 1 .. Len(g) : Append(g, o)[i] = g[i]
      /\ Append(g, o)[Len(g) + 1] = o
  BY <1>1, AppendProperties
<1>. PICK g1 : g1 = Append(g, o)
  OBVIOUS
<1>6. ASSUME NEW i \in 1 .. Len(g1) PROVE g1[i] = s[i]
  <2>1. i \in 1 .. Len(g) \/ i = Len(g) + 1
    BY <1>2, <1>5
  <2>. QED BY <1>1, <1>4, <1>5, <2>1
<1>7. Len(s) = Len(g1) + Len(w)
  BY <1>1, <1>2, <1>5
<1>8. Flow(T, o, <<>>, FALSE, w, s, g1)
  BY <1>1, <1>5, <1>6, <1>7 DEF Flow, M
<1>. QED BY <1>3, <1>4, <1>8

\* What was read is a beginning of what was sent, and all of it when nothing is under
\* way.
LEMMA FlowRead ==
  ASSUME NEW T, NEW o, NEW r, NEW reads \in BOOLEAN, NEW w, NEW s, NEW g,
         Flow(T, o, r, reads, w, s, g)
  PROVE  /\ Len(g) <= Len(s) /\ IsPrefix(g, s)
         /\ ~reads /\ w = <<>> => g = s
         /\ s = <<>> => g = <<>> /\ ~reads /\ w = <<>>
<1>. DEFINE M == Message(T)
<1>1. /\ s \in Seq(M) /\ g \in Seq(M) /\ w \in Seq(Seq(Token))
      /\ reads => Len(s) = Len(g) + 1 + Len(w)
      /\ ~reads => Len(s) = Len(g) + Len(w)
      /\ \A i \in 1 .. Len(g) : g[i] = s[i]
  BY DEF Flow
<1>. HIDE DEF M
<1>2. Len(s) \in Nat /\ Len(g) \in Nat /\ Len(w) \in Nat
  BY <1>1, LenProperties
<1>3. Len(g) <= Len(s)
  BY <1>1, <1>2
<1>4. SubSeq(g, 1, Len(g)) = SubSeq(s, 1, Len(g))
  <2>1. g \in Seq(M) /\ \A i \in 1 .. Len(g) : s[i] \in M
    BY <1>1, ElementOfSeq
  <2>2. /\ SubSeq(s, 1, Len(g)) \in Seq(M) /\ Len(SubSeq(s, 1, Len(g))) = Len(g)
        /\ \A i \in 1 .. Len(g) : SubSeq(s, 1, Len(g))[i] = s[i]
    BY <1>2, <2>1, SubSeqProperties
  <2>3. SubSeq(g, 1, Len(g)) = g
    BY <1>1, SubSeqFull
  <2>. PICK p : p = SubSeq(s, 1, Len(g))
    OBVIOUS
  <2>4. p = g
    BY <1>1, <2>2, SeqEqual
  <2>. QED BY <2>3, <2>4
<1>5. ASSUME ~reads, w = <<>> PROVE g = s
  <2>1. Len(w) = 0
    BY <1>5
  <2>2. Len(g) = Len(s)
    BY <1>1, <1>2, <1>5, <2>1
  <2>. QED BY <1>1, <2>2, SeqEqual
<1>6. ASSUME s = <<>> PROVE g = <<>> /\ ~reads /\ w = <<>>
  <2>1. Len(s) = 0
    BY <1>6
  <2>2. Len(g) = 0 /\ ~reads /\ Len(w) = 0
    BY <1>1, <1>2, <2>1
  <2>. QED BY <1>1, <2>2, EmptySeq
<1>. QED BY <1>3, <1>4, <1>5, <1>6 DEF IsPrefix

(***************************************************************************)
(* The size of a message                                                   *)
(***************************************************************************)

\* The fields of a message are written under different tags.
LEMMA TagsDiffer ==
  ASSUME NEW T \in Types, NEW i \in DOMAIN Writes[T], NEW j \in DOMAIN Writes[T],
         WireTag(Writes[T][i]) = WireTag(Writes[T][j])
  PROVE  i = j
<1>. PICK v, w : v = Writes[T][i] /\ w = Writes[T][j]
  OBVIOUS
<1>1. /\ Tag(WireTag(v), v.kind, v.name) \in Reads[T]
      /\ \A r \in Reads[T] : r.tag = WireTag(w) => r = Tag(WireTag(w), w.kind, w.name)
  BY ListingsAgree DEF Agreed, WriteField
<1>2. Tag(WireTag(v), v.kind, v.name) = Tag(WireTag(w), w.kind, w.name)
  BY <1>1 DEF Tag
<1>3. v.name = w.name
  BY <1>2 DEF Tag
<1>4. \A k, l \in DOMAIN Writes[T] : Writes[T][k].name = Writes[T][l].name => k = l
  BY ListingsAgree, Zenon DEF Agreed
<1>. QED BY <1>3, <1>4

\* The serializers write every field at most once.
LEMMA SerializeOnce ==
  ASSUME NEW T \in Types, NEW m \in Message(T)
  PROVE  IsInjective(Serialize(T, m))
<1>. DEFINE seqs == [i \in DOMAIN Writes[T] |->
                       IF IsSet(T, m, Writes[T][i].name)
                       THEN <<TokenOf(m, Writes[T][i])>> ELSE <<>>]
<1>1. PICK n \in Nat : DOMAIN Writes[T] = 1 .. n
  BY ListingsAgree DEF Agreed
<1>2. Serialize(T, m) = FlattenSeq(seqs)
  BY DEF Serialize, TokenOf
<1>3. ASSUME NEW t \in Token
      PROVE  <<t>> \in Seq(Token) /\ ToSet(<<t>>) = {t} /\ IsInjective(<<t>>)
  BY DEF ToSet, IsInjective
<1>4. <<>> \in Seq(Token) /\ ToSet(<<>>) = {} /\ IsInjective(<<>>)
  BY DEF ToSet, IsInjective
<1>5. ASSUME NEW i \in 1 .. n
      PROVE  /\ seqs[i] \in Seq(Token) /\ IsInjective(seqs[i])
             /\ ToSet(seqs[i]) \subseteq {TokenOf(m, Writes[T][i])}
  <2>1. TokenOf(m, Writes[T][i]) \in Token
    BY <1>1, TokenTyped
  <2>. HIDE DEF Token
  <2>. QED BY <1>1, <1>3, <1>4, <2>1
<1>6. seqs = [i \in 1 .. n |-> seqs[i]]
  BY <1>1
<1>. HIDE DEF seqs
<1>7. seqs \in Seq(Seq(Token)) /\ Len(seqs) = n
  BY <1>5, <1>6, LenProperties
<1>8. ASSUME NEW i \in 1 .. n, NEW j \in 1 .. n, i # j
      PROVE  ToSet(seqs[i]) \cap ToSet(seqs[j]) = {}
  <2>1. TokenOf(m, Writes[T][i]).tag # TokenOf(m, Writes[T][j]).tag
    BY <1>1, <1>8, TagsDiffer DEF TokenOf
  <2>. QED BY <1>5, <2>1
<1>9. IsInjective(FlattenSeq(seqs))
  BY <1>5, <1>7, <1>8, FlattenOnce
<1>. QED BY <1>2, <1>9

\* How many bytes the value of a member and its tag take.
SizeOf(T, m, f) ==
  1 + ValueSize(Members[T][f] \in {"uint64", "bool"}, Encoded(Members[T][f], m[f]))

\* Bytes measures a value on the wire as ByteSizeLong measures its member.
LEMMA SizeOfToken ==
  ASSUME NEW T \in Types, NEW m, NEW i \in DOMAIN Writes[T],
         NEW t, t = TokenOf(m, Writes[T][i])
  PROVE  1 + ValueSize(t.tag % 8 = 0, t.value) = SizeOf(T, m, Writes[T][i].name)
<1>. PICK w : w = Writes[T][i]
  OBVIOUS
<1>1. w.kind = Members[T][w.name] /\ (WireTag(w) % 8 = 0 <=> w.kind \in {"uint64", "bool"})
  BY ListingsAgree DEF Agreed, WriteField
<1>2. t.tag = WireTag(w) /\ t.value = Encoded(w.kind, m[w.name])
  BY DEF TokenOf
<1>3. ValueSize(t.tag % 8 = 0, t.value)
        = ValueSize(Members[T][w.name] \in {"uint64", "bool"},
                    Encoded(Members[T][w.name], m[w.name]))
  <2>. PICK a, b : /\ (a <=> t.tag % 8 = 0)
                   /\ (b <=> Members[T][w.name] \in {"uint64", "bool"})
    BY Zenon
  <2>. QED BY <1>1, <1>2 DEF ValueSize
<1>. QED BY <1>3 DEF SizeOf

\* ByteSizeLong adds up, in the order of the members, what the serializers
\* write in the order of the fields.
LEMMA SizeOfMessage ==
  ASSUME NEW T \in Types, NEW m \in Message(T)
  PROVE  ByteSizeLong(T, m) = Bytes(Serialize(T, m))
<1>. DEFINE frame == Serialize(T, m)
            R == {f \in Sizes[T] : IsSet(T, m, f)}
            w == [f \in R |-> SizeOf(T, m, f)]
            Writer(k, i) == i \in SetFields(T, m) /\ frame[k] = TokenOf(m, Writes[T][i])
            writer == [k \in DOMAIN frame |-> CHOOSE i \in DOMAIN Writes[T] : Writer(k, i)]
            b == [k \in DOMAIN frame |-> Writes[T][writer[k]].name]
<1>1. /\ frame \in Seq(Token)
      /\ ToSet(frame) = {TokenOf(m, Writes[T][i]) : i \in SetFields(T, m)}
      /\ IsInjective(frame)
  BY SerializeTokens, SerializeOnce
<1>. HIDE DEF frame
<1>2. DOMAIN frame = 1 .. Len(frame) /\ Len(frame) \in Nat
  BY <1>1, LenProperties
<1>3. IsFiniteSet(DOMAIN frame)
  BY <1>2, FS_Interval
<1>4. /\ Sizes[T] = DOMAIN Members[T]
      /\ \A f \in DOMAIN Members[T] : \E i \in DOMAIN Writes[T] : Writes[T][i].name = f
      /\ \A i \in DOMAIN Writes[T] : Writes[T][i].name \in DOMAIN Members[T]
  BY ListingsAgree, Zenon DEF Agreed, WriteField
<1>5. ASSUME NEW k \in DOMAIN frame
      PROVE  writer[k] \in DOMAIN Writes[T] /\ Writer(k, writer[k])
  <2>1. frame[k] \in ToSet(frame)
    BY DEF ToSet
  <2>2. \E i \in DOMAIN Writes[T] : Writer(k, i)
    BY <1>1, <2>1 DEF SetFields
  <2>. HIDE DEF Writer
  <2>. QED BY <2>2
<1>. HIDE DEF writer
<1>6. b \in [DOMAIN frame -> R]
  <2>1. ASSUME NEW k \in DOMAIN frame PROVE Writes[T][writer[k]].name \in R
    BY <1>4, <1>5 DEF SetFields
  <2>. HIDE DEF R
  <2>. QED BY <2>1
<1>7. ASSUME NEW k \in DOMAIN frame, NEW l \in DOMAIN frame, b[k] = b[l]
      PROVE  k = l
  <2>1. \A i, j \in DOMAIN Writes[T] : Writes[T][i].name = Writes[T][j].name => i = j
    BY ListingsAgree, Zenon DEF Agreed
  <2>2. writer[k] = writer[l]
    BY <1>5, <1>7, <2>1
  <2>3. frame[k] = frame[l]
    BY <1>5, <2>2
  <2>. QED BY <1>1, <2>3, Zenon DEF IsInjective
<1>8. ASSUME NEW f \in R PROVE \E k \in DOMAIN frame : b[k] = f
  <2>1. PICK i \in DOMAIN Writes[T] : Writes[T][i].name = f
    BY <1>4
  <2>2. i \in SetFields(T, m)
    BY <2>1 DEF SetFields
  <2>3. TokenOf(m, Writes[T][i]) \in ToSet(frame)
    BY <1>1, <2>2
  <2>4. PICK k \in DOMAIN frame : frame[k] = TokenOf(m, Writes[T][i])
    BY <2>3 DEF ToSet
  <2>5. writer[k] = i
    <3>1. WireTag(Writes[T][writer[k]]) = WireTag(Writes[T][i])
      BY <1>5, <2>4 DEF TokenOf
    <3>. QED BY <1>5, <3>1, TagsDiffer
  <2>. QED BY <2>1, <2>5
<1>9. w \in [R -> Nat]
  <2>1. ASSUME NEW f \in R PROVE SizeOf(T, m, f) \in Nat
    BY DEF SizeOf, ValueSize
  <2>. HIDE DEF R
  <2>. QED BY <2>1
<1>10. [k \in DOMAIN frame |-> w[b[k]]]
         = [k \in DOMAIN frame |-> 1 + ValueSize(frame[k].tag % 8 = 0, frame[k].value)]
  <2>1. ASSUME NEW k \in DOMAIN frame
        PROVE  w[b[k]] = 1 + ValueSize(frame[k].tag % 8 = 0, frame[k].value)
    <3>1. w[b[k]] = SizeOf(T, m, Writes[T][writer[k]].name)
      BY <1>6
    <3>. QED BY <1>5, <3>1, SizeOfToken
  <2>. HIDE DEF w, b
  <2>. QED BY <2>1
<1>11. ByteSizeLong(T, m) = SumFunction(w)
  BY DEF ByteSizeLong, SizeOf
<1>12. Bytes(frame) = SumFunction([k \in DOMAIN frame |-> w[b[k]]])
  BY <1>10 DEF Bytes
<1>. HIDE DEF w, b, R
<1>13. R = {b[k] : k \in DOMAIN frame}
  BY <1>6, <1>8
<1>14. SumFunction([k \in DOMAIN frame |-> w[b[k]]]) = SumFunction(w)
  BY <1>3, <1>6, <1>7, <1>9, <1>13, SumRenamed
<1>. QED BY <1>11, <1>12, <1>14 DEF frame

(***************************************************************************)
(* What the programs put into a call                                       *)
(***************************************************************************)
\* The messages of type T whose strings are UTF-8.
Good(T) == {m \in Message(T) : Clean(T, m)}

\* The program sets members to values of their types, and to names that are UTF-8.
LEMMA BuiltIsGood ==
  ASSUME NEW T \in Types, NEW m \in Built[T]
  PROVE  m \in Good(T)
<1>. USE DEF Good, Message, Clean, Values
<1>0. \A n \in Names : n \notin NotText
  BY WireAssumption
<1>1. CASE T = "ServerInfo"
  <2>1. Members[T] = ServerInfoMembers
    BY <1>1 DEF Members, ByMessage
  <2>2. m \in [address : Names, hash : Hashes \cup {Empty}]
    BY <1>1 DEF Built
  <2>. QED BY <1>0, <2>1, <2>2 DEF ServerInfoMembers
<1>2. CASE T = "FileInfo"
  <2>1. Members[T] = FileInfoMembers
    BY <1>2 DEF Members, ByMessage
  <2>2. m \in [fileName : Names, fileSize : Numbers]
    BY <1>2 DEF Built
  <2>. QED BY <1>0, <2>1, <2>2 DEF FileInfoMembers
<1>3. CASE T = "BlockStore"
  <2>1. Members[T] = BlockStoreMembers
    BY <1>3 DEF Members, ByMessage
  <2>2. m \in [serverAddress : Names, serverHash : Hashes \cup {Empty},
               fileName : Names, blockIdx : Numbers, blockSize : Numbers,
               blockHash : Hashes \cup {Empty}]
    BY <1>3 DEF Built
  <2>. QED BY <1>0, <2>1, <2>2 DEF BlockStoreMembers
<1>4. CASE T = "BlockInfo"
  <2>1. Members[T] = BlockInfoMembers
    BY <1>4 DEF Members, ByMessage
  <2>2. m \in [fileName : Names, blockIdx : Numbers, blockSize : Numbers,
               blockHash : Hashes \cup {Empty}]
    BY <1>4 DEF Built
  <2>. QED BY <1>0, <2>1, <2>2 DEF BlockInfoMembers
<1>5. CASE T = "BlockUnit"
  <2>1. Members[T] = BlockUnitMembers
    BY <1>5 DEF Members, ByMessage
  <2>2. m \in [fileName : Names, blockIdx : Numbers, unitIdx : Numbers,
               unitData : Hashes \cup {Empty}, lastUnit : BOOLEAN]
    BY <1>5 DEF Built
  <2>. QED BY <1>0, <2>1, <2>2 DEF BlockUnitMembers
<1>. QED BY <1>1, <1>2, <1>3, <1>4, <1>5 DEF Types

\* A request is a message; only a begin or a commit may carry a name that is not UTF-8.
LEMMA RequestIsMessage ==
  ASSUME NEW m \in Methods, NEW r \in Requests(m)
  PROVE  /\ r \in Message(Calls[m].request)
         /\ m \notin Begins \cup Commits => Clean(Calls[m].request, r)
<1>1. CASE m = "executeLsTransaction"
  <2>0. "FileInfo" \in Types
    BY DEF Types
  <2>1. r = Default("FileInfo") /\ Calls[m].request = "FileInfo"
    BY <1>1, MethodKinds DEF Requests, Begins, Commits
  <2>2. /\ Default("FileInfo") \in Message("FileInfo")
        /\ Clean("FileInfo", Default("FileInfo"))
    BY ONLY <2>0, DefaultIsMessage
  <2>. QED BY <2>1, <2>2, Zenon
<1>2. CASE m = "putBlock"
  <2>0. "BlockUnit" \in Types
    BY DEF Types
  <2>1. r = Default("BlockUnit") /\ Calls[m].request = "BlockUnit"
    BY <1>2, MethodKinds DEF Requests, Begins, Commits
  <2>2. /\ Default("BlockUnit") \in Message("BlockUnit")
        /\ Clean("BlockUnit", Default("BlockUnit"))
    BY ONLY <2>0, DefaultIsMessage
  <2>. QED BY <2>1, <2>2, Zenon
<1>3. CASE m \in Begins \cup Commits
  <2>1. r \in [fileName : Names \cup NotText, fileSize : Numbers]
    BY <1>3 DEF Requests, Begins, Commits
  <2>2. Calls[m].request = "FileInfo" /\ Members["FileInfo"] = FileInfoMembers
    BY <1>3, MethodKinds DEF Members, ByMessage
  <2>. QED BY <1>3, <2>1, <2>2 DEF Message, Values, FileInfoMembers
<1>4. CASE m \notin Begins \cup Commits \cup {"executeLsTransaction", "putBlock"}
  <2>1. r \in Built[Calls[m].request]
    BY <1>4 DEF Requests
  <2>. QED BY <2>1, MethodKinds, BuiltIsGood DEF Good
<1>. QED BY <1>1, <1>2, <1>3, <1>4

\* A reply to the request got1: for a call with one object, that request.
ReplyIs(m, got1, x) ==
  /\ x \in Good(Calls[m].reply)
  /\ m \in OneObject => x = got1

\* The unary handlers and putBlock answer with a message of the reply's type, and those
\* the client passes its request for, with the request.
LEMMA RepliesAreGood ==
  ASSUME method \in Methods, Stub[method].kind # "SERVER_STREAMING",
         NEW first, first = Head(got.up), first \in Good(Calls[method].request),
         NEW x \in Replies
  PROVE  ReplyIs(method, first, x)
<1>1. /\ handler.function = method /\ handler.reply = Calls[method].reply
      /\ Calls[method].request \in Types /\ Calls[method].reply \in Types
  BY WriterAndReaderAgree, MethodKinds
<1>2. CASE method \in OneObject \cup {"startServer", "terminateServer", "rmBlock"}
  <2>. PICK T : T = Calls[method].reply
    OBVIOUS
  <2>1. T = Calls[method].request /\ T \in Types /\ first \in Good(T)
    BY <1>1, <1>2, MethodKinds
  <2>2. CopyFrom(T, Default(T), first) = first
    BY <2>1, DefaultIsMessage, CopyIsSame DEF Good
  <2>3. CASE method \in OneObject \cup {"terminateServer"}
    <3>1. x = first
      BY <1>1, <2>2, <2>3 DEF Replies, OneObject
    <3>. QED BY <2>1, <3>1 DEF ReplyIs
  <2>4. CASE method = "startServer"
    <3>1. PICK h \in Hashes : x = [first EXCEPT !.hash = h]
      BY <1>1, <2>2, <2>4 DEF Replies, OneObject
    <3>2. T = "ServerInfo" /\ Members[T] = ServerInfoMembers
      BY <2>1, <2>4, MethodKinds DEF Members, ByMessage
    <3>3. x \in Good(T)
      BY <2>1, <3>1, <3>2 DEF Good, Message, Clean, Values, ServerInfoMembers
    <3>. QED BY <2>4, <3>3 DEF ReplyIs, OneObject
  <2>5. CASE method = "rmBlock"
    <3>1. x = Default(T)
      BY <1>1, <2>5 DEF Replies, OneObject
    <3>. QED BY <2>1, <2>5, <3>1, DefaultIsMessage DEF ReplyIs, OneObject, Good
  <2>. QED BY <1>2, <2>3, <2>4, <2>5
<1>3. CASE method = "putBlock"
  <2>1. PICK n \in Numbers, h \in Hashes :
          x = [fileName |-> first.fileName, blockIdx |-> first.blockIdx,
               blockSize |-> n, blockHash |-> h]
    BY <1>1, <1>3 DEF Replies, OneObject
  <2>2. Calls[method].request = "BlockUnit" /\ Calls[method].reply = "BlockInfo"
    BY <1>3, MethodKinds
  <2>3. Members["BlockUnit"] = BlockUnitMembers /\ Members["BlockInfo"] = BlockInfoMembers
    BY DEF Members, ByMessage
  <2>4. /\ first.fileName \in Values /\ first.blockIdx \in Values
        /\ first.fileName \notin NotText
    BY <2>2, <2>3 DEF Good, Message, Clean, BlockUnitMembers
  <2>5. x \in Good("BlockInfo")
    BY <2>1, <2>3, <2>4 DEF Good, Message, Clean, Values, BlockInfoMembers
  <2>. QED BY <1>3, <2>2, <2>5 DEF ReplyIs, OneObject
<1>. QED BY <1>2, <1>3, MethodKinds

(***************************************************************************)
(* The invariant                                                           *)
(***************************************************************************)
Dirs == {"up", "down"}

\* The names of the request that are not UTF-8.
BadNames == {f \in DOMAIN request : Members[Calls[method].request][f] = "string"
                                      /\ request[f] \in NotText}

\* The call, and its variables as functions of the direction.
Call ==
  /\ method \in Methods
  /\ request \in Requests(method)
  /\ status \in {"open", "OK", "CANCELLED", "INTERNAL"}
  /\ DOMAIN object = Dirs /\ DOMAIN rest = Dirs /\ DOMAIN reading = Dirs
  /\ DOMAIN wire = Dirs /\ DOMAIN closed = Dirs
  /\ DOMAIN sent = Dirs /\ DOMAIN got = Dirs
  /\ \A d \in Dirs : reading[d] \in BOOLEAN /\ closed[d] \in BOOLEAN

\* Both directions flow, with Window frames under way at most.
Flows ==
  \A d \in Dirs :
    /\ Flow(TypeAt(method, d), object[d], rest[d], reading[d], wire[d], sent[d], got[d])
    /\ Len(wire[d]) <= Window

\* What the client writes: its request, once, or clean units of a block.
ClientWrites ==
  IF Stub[method].kind = "CLIENT_STREAMING"
  THEN \A i \in DOMAIN sent.up : Clean(Calls[method].request, sent.up[i])
  ELSE sent.up = IF closed.up THEN <<request>> ELSE <<>>

\* What the handler writes, once it has read all there is to read.
HandlerWrites ==
  /\ closed.down \/ sent.down # <<>> => AllRead("up")
  /\ \A i \in DOMAIN sent.down :
       /\ Clean(Calls[method].reply, sent.down[i])
       /\ method \in OneObject => sent.down[i] = request
  /\ method \in OneObject => (reading.down \/ object.down = request)

\* How the call ends.
Ends ==
  /\ status = "OK" => AllRead("down")
  /\ status = "INTERNAL" => BadNames # {}
  /\ BadNames # {} => got.up = <<>> /\ status \notin {"OK", "CANCELLED"}
  /\ method \in OneObject /\ status # "open" => ~reading.down

\* The inductive invariant.
IInv == Call /\ Flows /\ ClientWrites /\ HandlerWrites /\ Ends

\* Before the first write nothing flows.
LEMMA EmptyFlow ==
  ASSUME NEW T \in Types, NEW o \in Message(T)
  PROVE  Flow(T, o, <<>>, FALSE, <<>>, <<>>, <<>>)
BY EmptySeq DEF Flow

\* A call starts with nothing sent and nothing read.
LEMMA InitIInv == Init => IInv
<1>. SUFFICES ASSUME Init PROVE IInv
  OBVIOUS
<1>1. method \in Methods
  BY StubMethods DEF Init
<1>2. request \in Message(Calls[method].request) /\ request \in Requests(method)
  BY <1>1, RequestIsMessage DEF Init
<1>3. Calls[method].request \in Types /\ Calls[method].reply \in Types
  BY <1>1, MethodKinds
<1>4. /\ object = Each(Default(ServedBy(method).request),
                       IF method \in OneObject THEN request
                        ELSE Default(Calls[method].reply))
      /\ rest = Each(<<>>, <<>>) /\ reading = Each(FALSE, FALSE)
      /\ wire = Each(<<>>, <<>>) /\ closed = Each(FALSE, FALSE)
      /\ sent = Each(<<>>, <<>>) /\ got = Each(<<>>, <<>>)
      /\ status = "open"
  BY DEF Init
<1>5. ServedBy(method).request = Calls[method].request
  BY <1>1, ServedByItsHandler DEF HandlerOf, Handler
<1>6. object["up"] \in Message(Calls[method].request)
  <2>1. object["up"] = Default(Calls[method].request)
    BY <1>4, <1>5 DEF Each
  <2>. QED BY <1>3, <2>1, DefaultIsMessage
<1>7. /\ object["down"] \in Message(Calls[method].reply)
      /\ method \in OneObject => object["down"] = request
  <2>1. object["down"] = IF method \in OneObject THEN request
                         ELSE Default(Calls[method].reply)
    BY <1>4 DEF Each
  <2>2. method \in OneObject => Calls[method].request = Calls[method].reply
    BY <1>1, MethodKinds
  <2>. QED BY <1>2, <1>3, <2>1, <2>2, DefaultIsMessage
<1>8. Call
  <2>1. /\ DOMAIN object = Dirs /\ DOMAIN rest = Dirs /\ DOMAIN reading = Dirs
        /\ DOMAIN wire = Dirs /\ DOMAIN closed = Dirs
        /\ DOMAIN sent = Dirs /\ DOMAIN got = Dirs
    BY <1>4 DEF Each, Dirs
  <2>2. \A d \in Dirs : reading[d] \in BOOLEAN /\ closed[d] \in BOOLEAN
    <3>1. /\ reading["up"] = FALSE /\ reading["down"] = FALSE
          /\ closed["up"] = FALSE /\ closed["down"] = FALSE
      BY <1>4 DEF Each
    <3>. QED BY ONLY <3>1 DEF Dirs
  <2>3. status \in {"open", "OK", "CANCELLED", "INTERNAL"}
    BY <1>4
  <2>. QED BY <1>1, <1>2, <2>1, <2>2, <2>3, Zenon DEF Call
<1>9. Flows
  <2>1. ASSUME NEW d \in Dirs
        PROVE  Flow(TypeAt(method, d), object[d], rest[d], reading[d],
                    wire[d], sent[d], got[d])
    <3>1. TypeAt(method, d) \in Types /\ object[d] \in Message(TypeAt(method, d))
      BY <1>3, <1>6, <1>7 DEF TypeAt, Dirs
    <3>2. /\ rest[d] = <<>> /\ reading[d] = FALSE /\ wire[d] = <<>>
          /\ sent[d] = <<>> /\ got[d] = <<>>
      BY <1>4 DEF Each, Dirs
    <3>. QED BY <3>1, <3>2, EmptyFlow
  <2>2. ASSUME NEW d \in Dirs PROVE Len(wire[d]) <= Window
    <3>1. wire[d] = <<>>
      BY <1>4 DEF Each, Dirs
    <3>. QED BY <3>1, WireAssumption
  <2>. QED BY <2>1, <2>2 DEF Flows
<1>10. /\ sent.up = <<>> /\ sent.down = <<>> /\ got.up = <<>>
       /\ ~closed.up /\ ~closed.down /\ ~reading.down
  BY <1>4 DEF Each
<1>11. ClientWrites
  BY <1>10 DEF ClientWrites
<1>12. HandlerWrites
  BY <1>7, <1>10 DEF HandlerWrites
<1>13. Ends
  BY <1>4, <1>10 DEF Ends
<1>. QED BY <1>8, <1>9, <1>11, <1>12, <1>13 DEF IInv

\* What the invariant says of a direction.
LEMMA DirectionFacts ==
  ASSUME IInv, NEW d \in Dirs
  PROVE  /\ TypeAt(method, d) \in Types
         /\ WriterType(d) = TypeAt(method, d) /\ ReaderType(d) = TypeAt(method, d)
         /\ reading[d] \in BOOLEAN /\ closed[d] \in BOOLEAN
         /\ Flow(TypeAt(method, d), object[d], rest[d], reading[d],
                 wire[d], sent[d], got[d])
         /\ sent[d] \in Seq(Message(TypeAt(method, d)))
         /\ AllRead(d) => got[d] = sent[d]
         /\ sent[d] = <<>> => got[d] = <<>> /\ ~reading[d] /\ wire[d] = <<>>
         /\ IsPrefix(got[d], sent[d])
<1>1. method \in Methods /\ reading[d] \in BOOLEAN /\ closed[d] \in BOOLEAN
  BY DEF IInv, Call
<1>2. WriterType(d) = TypeAt(method, d) /\ ReaderType(d) = TypeAt(method, d)
  BY <1>1, WriterAndReaderAgree
<1>3. TypeAt(method, d) \in Types
  BY <1>1, MethodKinds DEF TypeAt
<1>. PICK T, o, r, w, s, g, b :
       /\ T = TypeAt(method, d) /\ o = object[d] /\ r = rest[d] /\ w = wire[d]
       /\ s = sent[d] /\ g = got[d] /\ b = reading[d]
  OBVIOUS
<1>4. Flow(T, o, r, b, w, s, g) /\ b \in BOOLEAN
  BY <1>1 DEF IInv, Flows
<1>5. /\ IsPrefix(g, s)
      /\ ~b /\ w = <<>> => g = s
      /\ s = <<>> => g = <<>> /\ ~b /\ w = <<>>
  BY ONLY <1>4, FlowRead
<1>6. s \in Seq(Message(T))
  BY ONLY <1>4 DEF Flow
<1>. QED BY <1>1, <1>2, <1>3, <1>4, <1>5, <1>6 DEF AllRead

\* Until the request is read, the direction down is untouched.
LEMMA BeforeReply ==
  ASSUME IInv, ~AllRead("up")
  PROVE  /\ ~closed.down /\ sent.down = <<>> /\ got.down = <<>>
         /\ ~reading.down /\ wire.down = <<>> /\ ~AllRead("down")
<1>1. ~closed.down /\ sent.down = <<>>
  BY DEF IInv, HandlerWrites
<1>2. "down" \in Dirs
  BY DEF Dirs
<1>3. sent["down"] = <<>> => got["down"] = <<>> /\ ~reading["down"] /\ wire["down"] = <<>>
  BY <1>2, DirectionFacts
<1>. QED BY <1>1, <1>3 DEF AllRead

\* A request that is read is clean, and it is the one the client sent.
LEMMA RequestRead ==
  ASSUME IInv, AllRead("up"), got.up # <<>>
  PROVE  /\ Head(got.up) \in Good(Calls[method].request)
         /\ Stub[method].kind # "CLIENT_STREAMING" => Head(got.up) = request
<1>. DEFINE T == Calls[method].request
<1>1. "up" \in Dirs /\ TypeAt(method, "up") = T
  BY DEF Dirs, TypeAt
<1>2. got.up = sent.up /\ sent.up \in Seq(Message(T)) /\ closed.up
  <2>1. got["up"] = sent["up"] /\ sent["up"] \in Seq(Message(T))
    BY <1>1, DirectionFacts
  <2>. QED BY <2>1 DEF AllRead
<1>3. method \in Methods /\ request \in Message(T) /\ BadNames = {}
  <2>1. method \in Methods /\ request \in Requests(method) /\ BadNames = {}
    BY DEF IInv, Call, Ends
  <2>. QED BY <2>1, RequestIsMessage
<1>4. CASE Stub[method].kind = "CLIENT_STREAMING"
  <2>1. \A i \in DOMAIN sent.up : Clean(T, sent.up[i])
    BY <1>4 DEF IInv, ClientWrites
  <2>2. 1 \in DOMAIN sent.up /\ sent.up[1] \in Message(T) /\ Head(sent.up) = sent.up[1]
    <3>. PICK s : s = sent.up
      OBVIOUS
    <3>1. Len(s) \in Nat \ {0} /\ DOMAIN s = 1 .. Len(s)
      BY <1>2, EmptySeq, LenProperties
    <3>2. s[1] \in Message(T)
      BY <1>2, <3>1, ElementOfSeq, 1 \in 1 .. Len(s)
    <3>. QED BY <1>2, <3>1, <3>2
  <2>. QED BY <1>2, <1>4, <2>1, <2>2 DEF Good
<1>5. CASE Stub[method].kind # "CLIENT_STREAMING"
  <2>1. sent.up = <<request>>
    BY <1>2, <1>5 DEF IInv, ClientWrites
  <2>2. Head(<<request>>) = request
    OBVIOUS
  <2>3. Clean(T, request)
    <3>1. DOMAIN request = DOMAIN Members[T]
      BY <1>3 DEF Message
    <3>. QED BY <1>3, <3>1 DEF BadNames, Clean
  <2>. QED BY <1>2, <1>3, <2>1, <2>2, <2>3 DEF Good
<1>. QED BY <1>4, <1>5

\* A write, whatever it writes.
LEMMA WriteStep ==
  ASSUME IInv, NEW d \in Dirs, NEW m \in Message(TypeAt(method, d)),
         NEW last \in BOOLEAN, Write(d, m, last)
  PROVE  /\ Call' /\ Flows'
         /\ UNCHANGED <<method, request, object, reading, got, status>>
         /\ status = "open" /\ ~closed[d]
         /\ sent'[d] = Append(sent[d], m) /\ closed'[d] = last
         /\ \A e \in Dirs \ {d} :
              sent'[e] = sent[e] /\ closed'[e] = closed[e] /\ wire'[e] = wire[e]
<1>. DEFINE x == Serialize(WriterType(d), m)
<1>1. /\ status = "open" /\ ~closed[d] /\ Len(wire[d]) < Window
      /\ wire' = [wire EXCEPT ![d] = Append(wire[d], x)]
      /\ sent' = [sent EXCEPT ![d] = Append(sent[d], m)]
      /\ closed' = [closed EXCEPT ![d] = last]
      /\ UNCHANGED <<method, request, object, rest, reading, got, status>>
  BY Zenon DEF Write
<1>. HIDE DEF x
<1>2. Call
  BY DEF IInv
<1>3. /\ wire'[d] = Append(wire[d], x) /\ sent'[d] = Append(sent[d], m) /\ closed'[d] = last
      /\ \A e \in Dirs \ {d} :
              sent'[e] = sent[e] /\ closed'[e] = closed[e] /\ wire'[e] = wire[e]
  BY <1>1, <1>2 DEF Call
<1>4. Call'
  <2>1. DOMAIN wire' = Dirs /\ DOMAIN sent' = Dirs /\ DOMAIN closed' = Dirs
    BY <1>1, <1>2 DEF Call
  <2>2. \A e \in Dirs : closed'[e] \in BOOLEAN
    BY <1>2, <1>3 DEF Call
  <2>. QED BY <1>1, <1>2, <2>1, <2>2 DEF Call
<1>5. Flows'
  <2>1. /\ Flow(TypeAt(method, d), object[d], rest[d], reading[d],
                wire'[d], sent'[d], got[d])
        /\ Len(wire'[d]) <= Window
    <3>. PICK T, o, r, w, s, g, b :
           /\ T = TypeAt(method, d) /\ o = object[d] /\ r = rest[d] /\ w = wire[d]
           /\ s = sent[d] /\ g = got[d] /\ b = reading[d]
      OBVIOUS
    <3>1. /\ T \in Types /\ Flow(T, o, r, b, w, s, g)
          /\ m \in Message(T) /\ x = Serialize(T, m)
      BY DirectionFacts DEF x
    <3>2. Flow(T, o, r, b, Append(w, Serialize(T, m)), Append(s, m), g)
      BY ONLY <3>1, FlowWrites
    <3>3. Len(Append(w, x)) <= Window
      <4>1. w \in Seq(Seq(Token)) /\ x \in Seq(Token) /\ Len(w) < Window
        BY <1>1, <3>1, SerializeTokens DEF Flow
      <4>2. Len(Append(w, x)) = Len(w) + 1 /\ Len(w) \in Nat
        BY ONLY <4>1, AppendProperties, LenProperties
      <4>. QED BY <4>1, <4>2, WireAssumption
    <3>. QED BY <1>3, <3>1, <3>2, <3>3
  <2>2. ASSUME NEW e \in Dirs \ {d}
        PROVE  /\ Flow(TypeAt(method, e), object[e], rest[e], reading[e],
                       wire'[e], sent'[e], got[e])
               /\ Len(wire'[e]) <= Window
    BY <1>3 DEF IInv, Flows
  <2>. QED BY <1>1, <2>1, <2>2, Zenon DEF Flows
<1>. QED BY <1>1, <1>3, <1>4, <1>5

\* The unary request: written once, with the end of the messages.
LEMMA SendRequestStep == IInv /\ SendRequest => IInv'
<1>. SUFFICES ASSUME IInv, SendRequest PROVE IInv'
  OBVIOUS
<1>1. Stub[method].kind # "CLIENT_STREAMING" /\ Write("up", request, TRUE)
  BY DEF SendRequest
<1>2. "up" \in Dirs /\ "down" \in Dirs \ {"up"} /\ request \in Message(TypeAt(method, "up"))
  <2>1. method \in Methods /\ request \in Requests(method)
    BY DEF IInv, Call
  <2>. QED BY <2>1, RequestIsMessage DEF Dirs, TypeAt
<1>3. /\ Call' /\ Flows'
      /\ UNCHANGED <<method, request, object, reading, got, status>>
      /\ status = "open" /\ ~closed["up"]
      /\ sent'["up"] = Append(sent["up"], request) /\ closed'["up"] = TRUE
      /\ sent'["down"] = sent["down"] /\ closed'["down"] = closed["down"]
      /\ wire'["down"] = wire["down"]
  BY <1>1, <1>2, WriteStep
<1>4. sent.up = <<>> /\ ~AllRead("up")
  BY <1>1, <1>3 DEF IInv, ClientWrites, AllRead
<1>5. ClientWrites'
  <2>1. Append(<<>>, request) = <<request>>
    OBVIOUS
  <2>2. sent'["up"] = <<request>>
    BY <1>3, <1>4, <2>1
  <2>. QED BY <1>1, <1>3, <2>2 DEF ClientWrites
<1>6. HandlerWrites'
  BY <1>3, <1>4, BeforeReply DEF IInv, HandlerWrites
<1>7. Ends'
  BY <1>3 DEF IInv, Ends, BadNames
<1>. QED BY <1>3, <1>5, <1>6, <1>7, Zenon DEF IInv

\* A unit of a block.
LEMMA WriteUnitStep == IInv /\ WriteUnit => IInv'
<1>. SUFFICES ASSUME IInv, WriteUnit PROVE IInv'
  OBVIOUS
<1>0. "up" \in Dirs /\ "down" \in Dirs \ {"up"}
  BY DEF Dirs
<1>. DEFINE T == TypeAt(method, "up")
<1>1. PICK m \in Built[T] : Stub[method].kind = "CLIENT_STREAMING" /\ Write("up", m, FALSE)
  BY <1>0, DirectionFacts DEF WriteUnit
<1>2. m \in Message(T) /\ Clean(T, m) /\ T = Calls[method].request
  <2>1. T \in Types
    BY <1>0, DirectionFacts
  <2>2. m \in Good(T)
    BY <2>1, BuiltIsGood
  <2>. QED BY <2>2 DEF Good, TypeAt
<1>3. /\ Call' /\ Flows'
      /\ UNCHANGED <<method, request, object, reading, got, status>>
      /\ status = "open" /\ ~closed["up"]
      /\ sent'["up"] = Append(sent["up"], m) /\ closed'["up"] = FALSE
      /\ sent'["down"] = sent["down"] /\ closed'["down"] = closed["down"]
      /\ wire'["down"] = wire["down"]
  BY <1>0, <1>1, <1>2, WriteStep
<1>4. ~AllRead("up")
  BY <1>3 DEF AllRead
<1>5. ClientWrites'
  <2>1. \A i \in DOMAIN sent.up : Clean(T, sent.up[i])
    BY <1>1, <1>2 DEF IInv, ClientWrites
  <2>2. sent["up"] \in Seq(Message(T))
    BY <1>0, DirectionFacts
  <2>3. \A i \in DOMAIN sent'["up"] : Clean(T, sent'["up"][i])
    <3>. PICK s, s1 : s = sent["up"] /\ s1 = sent'["up"]
      OBVIOUS
    <3>1. s \in Seq(Message(T)) /\ s1 = Append(s, m) /\ \A i \in DOMAIN s : Clean(T, s[i])
      BY <1>3, <2>1, <2>2
    <3>2. /\ Len(s) \in Nat /\ DOMAIN s = 1 .. Len(s) /\ DOMAIN s1 = 1 .. Len(s) + 1
          /\ s1[Len(s) + 1] = m /\ \A i \in 1 .. Len(s) : s1[i] = s[i]
      BY <1>2, <3>1, AppendProperties, LenProperties
    <3>3. ASSUME NEW i \in DOMAIN s1 PROVE Clean(T, s1[i])
      BY <1>2, <3>1, <3>2, i \in 1 .. Len(s) \/ i = Len(s) + 1
    <3>. QED BY <3>3
  <2>. HIDE DEF T
  <2>. QED BY <1>1, <1>2, <1>3, <2>3 DEF ClientWrites
<1>6. HandlerWrites'
  BY <1>3, <1>4, BeforeReply DEF IInv, HandlerWrites
<1>7. Ends'
  BY <1>3 DEF IInv, Ends, BadNames
<1>. QED BY <1>3, <1>5, <1>6, <1>7, Zenon DEF IInv

\* The end of the messages of a direction.
LEMMA DoneStep ==
  ASSUME IInv, NEW d \in Dirs, WritesDone(d)
  PROVE  /\ Call' /\ Flows'
         /\ UNCHANGED <<method, request, object, reading, wire, sent, got, status>>
         /\ status = "open" /\ ~closed[d] /\ closed'[d] = TRUE
         /\ \A e \in Dirs \ {d} : closed'[e] = closed[e]
<1>1. /\ status = "open" /\ ~closed[d]
      /\ closed' = [closed EXCEPT ![d] = TRUE]
      /\ UNCHANGED <<method, request, object, rest, reading, wire, sent, got, status>>
  BY Zenon DEF WritesDone
<1>2. Call /\ Flows
  BY DEF IInv
<1>3. /\ closed'[d] = TRUE /\ DOMAIN closed' = Dirs
      /\ \A e \in Dirs \ {d} : closed'[e] = closed[e]
  BY <1>1, <1>2 DEF Call
<1>4. Call'
  <2>1. \A e \in Dirs : closed'[e] \in BOOLEAN
    BY <1>2, <1>3 DEF Call
  <2>. QED BY <1>1, <1>2, <1>3, <2>1 DEF Call
<1>5. Flows'
  BY <1>1, <1>2, Zenon DEF Flows
<1>. QED BY <1>1, <1>3, <1>4, <1>5

\* The end of the units.
LEMMA UnitsDoneStep == IInv /\ UnitsDone => IInv'
<1>. SUFFICES ASSUME IInv, UnitsDone PROVE IInv'
  OBVIOUS
<1>0. "up" \in Dirs /\ "down" \in Dirs \ {"up"}
  BY DEF Dirs
<1>1. Stub[method].kind = "CLIENT_STREAMING" /\ WritesDone("up")
  BY DEF UnitsDone
<1>2. /\ Call' /\ Flows'
      /\ UNCHANGED <<method, request, object, reading, wire, sent, got, status>>
      /\ status = "open" /\ ~closed["up"]
      /\ closed'["down"] = closed["down"]
  BY <1>0, <1>1, DoneStep
<1>3. ~AllRead("up")
  BY <1>2 DEF AllRead
<1>4. ClientWrites'
  BY <1>1, <1>2 DEF IInv, ClientWrites
<1>5. HandlerWrites'
  BY <1>2, <1>3, BeforeReply DEF IInv, HandlerWrites
<1>6. Ends'
  BY <1>2 DEF IInv, Ends, BadNames
<1>. QED BY <1>2, <1>4, <1>5, <1>6, Zenon DEF IInv

\* A handler that returns its reply: it is made of the request it has read.
LEMMA ReturnReplyStep == IInv /\ ReturnReply => IInv'
<1>. SUFFICES ASSUME IInv, ReturnReply PROVE IInv'
  OBVIOUS
<1>0. "down" \in Dirs /\ "up" \in Dirs \ {"down"} /\ method \in Methods
  BY DEF Dirs, IInv, Call
<1>. DEFINE T == Calls[method].reply
<1>1. /\ Stub[method].kind # "SERVER_STREAMING"
      /\ AllRead("up") /\ got.up # <<>>
  BY <1>0, WriterAndReaderAgree DEF ReturnReply
<1>2. PICK m \in Replies : Write("down", m, TRUE)
  BY DEF ReturnReply
<1>3. ReplyIs(method, Head(got.up), m)
  <2>. PICK first : first = Head(got.up)
    OBVIOUS
  <2>1. first \in Good(Calls[method].request)
    BY <1>1, RequestRead
  <2>. QED BY <1>0, <1>1, <2>1, RepliesAreGood
<1>4. m \in Message(T) /\ Clean(T, m) /\ T = TypeAt(method, "down")
  BY <1>3 DEF ReplyIs, Good, TypeAt
<1>5. method \in OneObject => m = request
  <2>. SUFFICES ASSUME method \in OneObject PROVE m = request
    OBVIOUS
  <2>1. Stub[method].kind # "CLIENT_STREAMING"
    BY <1>0, MethodKinds
  <2>. QED BY <1>1, <1>3, <2>1, RequestRead DEF ReplyIs
<1>6. /\ Call' /\ Flows'
      /\ UNCHANGED <<method, request, object, reading, got, status>>
      /\ status = "open" /\ ~closed["down"]
      /\ sent'["down"] = Append(sent["down"], m) /\ closed'["down"] = TRUE
      /\ sent'["up"] = sent["up"] /\ closed'["up"] = closed["up"]
      /\ wire'["up"] = wire["up"]
  BY <1>0, <1>2, <1>4, WriteStep
<1>7. ClientWrites'
  BY <1>6 DEF IInv, ClientWrites
<1>8. HandlerWrites'
  <2>1. AllRead("up")'
    BY <1>1, <1>6 DEF AllRead
  <2>2. \A i \in DOMAIN sent'["down"] :
          /\ Clean(T, sent'["down"][i])
          /\ method \in OneObject => sent'["down"][i] = request
    <3>0. sent["down"] \in Seq(Message(T))
      BY <1>0, DirectionFacts DEF TypeAt
    <3>. PICK s, s1 : s = sent["down"] /\ s1 = sent'["down"]
      OBVIOUS
    <3>1. /\ s \in Seq(Message(T)) /\ s1 = Append(s, m)
          /\ \A i \in DOMAIN s : Clean(T, s[i]) /\ (method \in OneObject => s[i] = request)
      BY <1>6, <3>0 DEF IInv, HandlerWrites
    <3>2. /\ Len(s) \in Nat /\ DOMAIN s = 1 .. Len(s) /\ DOMAIN s1 = 1 .. Len(s) + 1
          /\ s1[Len(s) + 1] = m /\ \A i \in 1 .. Len(s) : s1[i] = s[i]
      BY <1>4, <3>1, AppendProperties, LenProperties
    <3>3. ASSUME NEW i \in DOMAIN s1
          PROVE  Clean(T, s1[i]) /\ (method \in OneObject => s1[i] = request)
      BY <1>4, <1>5, <3>1, <3>2, i \in 1 .. Len(s) \/ i = Len(s) + 1
    <3>. QED BY <3>3
  <2>. QED BY <1>6, <2>1, <2>2 DEF IInv, HandlerWrites
<1>9. Ends'
  BY <1>6 DEF IInv, Ends, BadNames, AllRead
<1>. QED BY <1>6, <1>7, <1>8, <1>9, Zenon DEF IInv

\* A handler that writes to its stream.
LEMMA WriteReplyStep == IInv /\ WriteReply => IInv'
<1>. SUFFICES ASSUME IInv, WriteReply PROVE IInv'
  OBVIOUS
<1>0. "down" \in Dirs /\ "up" \in Dirs \ {"down"} /\ method \in Methods
  BY DEF Dirs, IInv, Call
<1>. DEFINE T == Calls[method].reply
<1>1. Stub[method].kind = "SERVER_STREAMING" /\ AllRead("up")
  BY <1>0, WriterAndReaderAgree DEF WriteReply, Running
<1>2. PICK m \in Built[T] : Write("down", m, FALSE)
  BY <1>0, WriterAndReaderAgree DEF WriteReply, TypeAt
<1>4. m \in Message(T) /\ Clean(T, m) /\ T = TypeAt(method, "down")
  <2>1. T \in Types
    BY <1>0, MethodKinds
  <2>2. m \in Good(T)
    BY <2>1, BuiltIsGood
  <2>. QED BY <2>2 DEF Good, TypeAt
<1>5. method \notin OneObject
  BY <1>0, <1>1, MethodKinds
<1>6. /\ Call' /\ Flows'
      /\ UNCHANGED <<method, request, object, reading, got, status>>
      /\ status = "open" /\ ~closed["down"]
      /\ sent'["down"] = Append(sent["down"], m) /\ closed'["down"] = FALSE
      /\ sent'["up"] = sent["up"] /\ closed'["up"] = closed["up"]
      /\ wire'["up"] = wire["up"]
  BY <1>0, <1>2, <1>4, WriteStep
<1>7. ClientWrites'
  BY <1>6 DEF IInv, ClientWrites
<1>8. HandlerWrites'
  <2>1. AllRead("up")'
    BY <1>1, <1>6 DEF AllRead
  <2>2. \A i \in DOMAIN sent'["down"] : Clean(T, sent'["down"][i])
    <3>0. sent["down"] \in Seq(Message(T))
      BY <1>0, DirectionFacts DEF TypeAt
    <3>. PICK s, s1 : s = sent["down"] /\ s1 = sent'["down"]
      OBVIOUS
    <3>1. /\ s \in Seq(Message(T)) /\ s1 = Append(s, m)
          /\ \A i \in DOMAIN s : Clean(T, s[i])
      BY <1>6, <3>0 DEF IInv, HandlerWrites
    <3>2. /\ Len(s) \in Nat /\ DOMAIN s = 1 .. Len(s) /\ DOMAIN s1 = 1 .. Len(s) + 1
          /\ s1[Len(s) + 1] = m /\ \A i \in 1 .. Len(s) : s1[i] = s[i]
      BY <1>4, <3>1, AppendProperties, LenProperties
    <3>3. ASSUME NEW i \in DOMAIN s1 PROVE Clean(T, s1[i])
      BY <1>4, <3>1, <3>2, i \in 1 .. Len(s) \/ i = Len(s) + 1
    <3>. QED BY <3>3
  <2>. QED BY <1>5, <1>6, <2>1, <2>2 DEF HandlerWrites
<1>9. Ends'
  BY <1>5, <1>6 DEF IInv, Ends, BadNames, AllRead
<1>. QED BY <1>6, <1>7, <1>8, <1>9, Zenon DEF IInv

\* A handler that ends its stream.
LEMMA ReturnOKStep == IInv /\ ReturnOK => IInv'
<1>. SUFFICES ASSUME IInv, ReturnOK PROVE IInv'
  OBVIOUS
<1>0. "down" \in Dirs /\ "up" \in Dirs \ {"down"} /\ method \in Methods
  BY DEF Dirs, IInv, Call
<1>1. Stub[method].kind = "SERVER_STREAMING" /\ AllRead("up") /\ WritesDone("down")
  BY <1>0, WriterAndReaderAgree DEF ReturnOK, Running
<1>2. /\ Call' /\ Flows'
      /\ UNCHANGED <<method, request, object, reading, wire, sent, got, status>>
      /\ status = "open" /\ closed'["up"] = closed["up"]
  BY <1>0, <1>1, DoneStep
<1>3. ClientWrites'
  BY <1>2 DEF IInv, ClientWrites
<1>4. HandlerWrites'
  <2>1. AllRead("up")'
    BY <1>1, <1>2 DEF AllRead
  <2>. QED BY <1>2, <2>1 DEF IInv, HandlerWrites
<1>5. Ends'
  BY <1>2 DEF IInv, Ends, BadNames, AllRead
<1>. QED BY <1>2, <1>3, <1>4, <1>5, Zenon DEF IInv

\* The flow of a direction that a step does not touch.
Kept(e) ==
  /\ object'[e] = object[e] /\ rest'[e] = rest[e] /\ reading'[e] = reading[e]
  /\ wire'[e] = wire[e] /\ sent'[e] = sent[e] /\ got'[e] = got[e]

\* A step of one direction keeps both flowing.
LEMMA OtherFlow ==
  ASSUME IInv, UNCHANGED method, NEW d \in Dirs, \A e \in Dirs \ {d} : Kept(e),
         Flow(TypeAt(method, d), object'[d], rest'[d], reading'[d],
              wire'[d], sent'[d], got'[d]),
         Len(wire'[d]) <= Window
  PROVE  Flows'
<1>1. ASSUME NEW e \in Dirs
      PROVE  /\ Flow(TypeAt(method, e), object'[e], rest'[e], reading'[e],
                     wire'[e], sent'[e], got'[e])
             /\ Len(wire'[e]) <= Window
  <2>1. CASE e = d
    BY <2>1
  <2>2. CASE e # d
    BY <2>2, Zenon DEF IInv, Flows, Kept
  <2>. QED BY <2>1, <2>2
<1>. QED BY <1>1, Zenon DEF Flows

\* A read starts: the object is cleared. Only the request has been written before it is
\* read, so the object of the reply is cleared only for a reply.
LEMMA StartReadStep ==
  ASSUME IInv, NEW d \in Dirs, StartRead(d)
  PROVE  IInv'
<1>. DEFINE T == TypeAt(method, d)
<1>1. /\ status = "open" /\ ~reading[d] /\ wire[d] # <<>>
      /\ object' = [object EXCEPT ![d] = Clear(ReaderType(d), object[d])]
      /\ rest' = [rest EXCEPT ![d] = Head(wire[d])]
      /\ reading' = [reading EXCEPT ![d] = TRUE]
      /\ wire' = [wire EXCEPT ![d] = Tail(wire[d])]
      /\ UNCHANGED <<method, request, closed, sent, got, status>>
  BY Zenon DEF StartRead
<1>2. Call
  BY DEF IInv
<1>3. /\ object'[d] = Clear(T, object[d]) /\ rest'[d] = Head(wire[d])
      /\ reading'[d] = TRUE /\ wire'[d] = Tail(wire[d])
      /\ sent'[d] = sent[d] /\ got'[d] = got[d]
  BY <1>1, <1>2, DirectionFacts DEF Call
<1>4. ASSUME NEW e \in Dirs \ {d} PROVE Kept(e)
  BY <1>1, <1>2 DEF Call, Kept
<1>5. Flow(T, object'[d], rest'[d], reading'[d], wire'[d], sent'[d], got'[d])
  <2>. PICK o, r, w, s, g : /\ o = object[d] /\ r = rest[d] /\ w = wire[d]
                            /\ s = sent[d] /\ g = got[d]
    OBVIOUS
  <2>1. T \in Types /\ Flow(T, o, r, FALSE, w, s, g) /\ w # <<>>
    BY <1>1, DirectionFacts
  <2>2. Flow(T, Clear(T, o), Head(w), TRUE, Tail(w), s, g)
    BY ONLY <2>1, FlowStarts
  <2>. QED BY <1>3, <2>2
<1>6. Len(wire'[d]) <= Window
  <2>1. wire[d] \in Seq(Seq(Token)) /\ Len(wire[d]) <= Window
    BY DirectionFacts DEF Flow, IInv, Flows
  <2>. PICK w, w1 : w = wire[d] /\ w1 = wire'[d]
    OBVIOUS
  <2>2. Len(w1) = Len(w) - 1 /\ Len(w) \in Nat /\ Len(w) <= Window
    BY <1>1, <1>3, <2>1, HeadTailProperties, LenProperties
  <2>3. Len(w1) <= Window
    BY <2>2, WireAssumption
  <2>. QED BY <2>3
<1>7. Flows'
  BY <1>1, <1>4, <1>5, <1>6, OtherFlow
<1>8. Call'
  <2>1. /\ DOMAIN object' = Dirs /\ DOMAIN rest' = Dirs /\ DOMAIN reading' = Dirs
        /\ DOMAIN wire' = Dirs
    BY <1>1, <1>2 DEF Call
  <2>2. \A e \in Dirs : reading'[e] \in BOOLEAN
    BY <1>2, <1>3, <1>4 DEF Call, Kept
  <2>. QED BY <1>1, <1>2, <2>1, <2>2 DEF Call
<1>9. ClientWrites'
  BY <1>1 DEF IInv, ClientWrites
<1>10. HandlerWrites' /\ Ends'
  <2>1. CASE d = "up"
    <3>1. "down" \in Dirs \ {d}
      BY <2>1 DEF Dirs
    <3>2. reading'["down"] = reading["down"] /\ object'["down"] = object["down"]
      BY <1>4, <3>1 DEF Kept
    <3>3. ~AllRead("up")
      BY <1>1, <2>1 DEF AllRead
    <3>4. ~closed.down /\ sent.down = <<>>
      BY <3>3, BeforeReply
    <3>5. HandlerWrites'
      BY <1>1, <3>2, <3>4 DEF IInv, HandlerWrites
    <3>6. Ends'
      BY <1>1, <3>2 DEF IInv, Ends, BadNames
    <3>. QED BY <3>5, <3>6
  <2>2. CASE d = "down"
    <3>1. "up" \in Dirs \ {d}
      BY <2>2 DEF Dirs
    <3>2. reading'["up"] = reading["up"] /\ wire'["up"] = wire["up"]
      BY <1>4, <3>1 DEF Kept
    <3>3. AllRead("up") => AllRead("up")'
      BY <1>1, <3>2 DEF AllRead
    <3>4. HandlerWrites'
      BY <1>1, <1>3, <2>2, <3>3 DEF IInv, HandlerWrites
    <3>5. Ends'
      BY <1>1 DEF IInv, Ends, BadNames
    <3>. QED BY <3>4, <3>5
  <2>. QED BY <2>1, <2>2 DEF Dirs
<1>. QED BY <1>7, <1>8, <1>9, <1>10, Zenon DEF IInv

\* A read ends: the reply read into the request's own object is the request again.
LEMMA EndReadStep ==
  ASSUME IInv, NEW d \in Dirs, EndRead(d)
  PROVE  IInv'
<1>. DEFINE T == TypeAt(method, d)
<1>1. /\ status = "open" /\ reading[d] /\ rest[d] = <<>>
      /\ reading' = [reading EXCEPT ![d] = FALSE]
      /\ got' = [got EXCEPT ![d] = Append(got[d], object[d])]
      /\ UNCHANGED <<method, request, object, rest, wire, closed, sent, status>>
  BY Zenon DEF EndRead
<1>2. Call
  BY DEF IInv
<1>3. /\ object'[d] = object[d] /\ rest'[d] = rest[d] /\ reading'[d] = FALSE
      /\ wire'[d] = wire[d] /\ sent'[d] = sent[d] /\ got'[d] = Append(got[d], object[d])
  BY <1>1, <1>2 DEF Call
<1>4. ASSUME NEW e \in Dirs \ {d} PROVE Kept(e)
  BY <1>1, <1>2 DEF Call, Kept
<1>5. /\ Flow(T, object[d], <<>>, FALSE, wire[d], sent[d], Append(got[d], object[d]))
      /\ Len(got[d]) + 1 \in 1 .. Len(sent[d]) /\ object[d] = sent[d][Len(got[d]) + 1]
      /\ Clean(T, object[d])
  <2>. PICK o, r, w, s, g, b :
         /\ o = object[d] /\ r = rest[d] /\ w = wire[d] /\ s = sent[d] /\ g = got[d]
         /\ b = reading[d]
    OBVIOUS
  <2>0. b \in BOOLEAN /\ b
    BY <1>1, DirectionFacts
  <2>1. T \in Types /\ Flow(T, o, r, b, w, s, g) /\ r = <<>>
    BY <1>1, DirectionFacts
  <2>2. Flow(T, o, <<>>, TRUE, w, s, g)
    BY <2>0, <2>1, b = TRUE
  <2>3. /\ Flow(T, o, <<>>, FALSE, w, s, Append(g, o))
        /\ Len(g) + 1 \in 1 .. Len(s) /\ o = s[Len(g) + 1] /\ Clean(T, o)
    BY ONLY <2>1, <2>2, FlowEnds
  <2>. QED BY <2>3
<1>6. Len(wire'[d]) <= Window
  BY <1>3 DEF IInv, Flows
<1>7. Flows'
  <2>1. Flow(T, object'[d], rest'[d], reading'[d], wire'[d], sent'[d], got'[d])
    BY <1>1, <1>3, <1>5, Zenon
  <2>. QED BY <1>1, <1>4, <1>6, <2>1, OtherFlow
<1>8. Call'
  <2>1. DOMAIN reading' = Dirs /\ DOMAIN got' = Dirs
    BY <1>1, <1>2 DEF Call
  <2>2. \A e \in Dirs : reading'[e] \in BOOLEAN
    BY <1>2, <1>3, <1>4 DEF Call, Kept
  <2>. QED BY <1>1, <1>2, <2>1, <2>2 DEF Call
<1>9. ClientWrites'
  BY <1>1 DEF IInv, ClientWrites
<1>10. DOMAIN sent[d] = 1 .. Len(sent[d])
  BY DirectionFacts, LenProperties
<1>11. HandlerWrites' /\ Ends'
  <2>1. CASE d = "up"
    <3>1. "down" \in Dirs \ {d}
      BY <2>1 DEF Dirs
    <3>2. reading'["down"] = reading["down"] /\ got'["down"] = got["down"]
      BY <1>4, <3>1 DEF Kept
    <3>3. ~AllRead("up")
      BY <1>1, <2>1 DEF AllRead
    <3>4. ~closed.down /\ sent.down = <<>> /\ ~AllRead("down")
      BY <3>3, BeforeReply
    <3>5. HandlerWrites'
      BY <1>1, <3>2, <3>4 DEF IInv, HandlerWrites
    <3>6. BadNames = {}
      <4>1. CASE Stub[method].kind = "CLIENT_STREAMING"
        <5>1. method \in Methods /\ request \in Requests(method) /\ method \notin Begins \cup Commits
          BY <1>2, <4>1, MethodKinds DEF Call, Begins, Commits
        <5>2. /\ Clean(Calls[method].request, request)
              /\ request \in Message(Calls[method].request)
          BY <5>1, RequestIsMessage
        <5>. QED BY <5>2 DEF Clean, BadNames, Message
      <4>2. CASE Stub[method].kind # "CLIENT_STREAMING"
        <5>1. sent["up"] = IF closed["up"] THEN <<request>> ELSE <<>>
          BY <4>2 DEF IInv, ClientWrites
        <5>2. sent["up"] = <<request>>
          BY <1>5, <2>1, <5>1
        <5>3. sent["up"][Len(got["up"]) + 1] = request
          BY <1>5, <2>1, <5>2
        <5>4. /\ Clean(Calls[method].request, request)
              /\ request \in Message(Calls[method].request)
          <6>1. method \in Methods /\ request \in Requests(method)
            BY <1>2 DEF Call
          <6>2. Clean(Calls[method].request, request)
            BY <1>5, <2>1, <5>3 DEF TypeAt
          <6>. QED BY <6>1, <6>2, RequestIsMessage
        <5>. QED BY <5>4 DEF Clean, BadNames, Message
      <4>. QED BY <4>1, <4>2
    <3>7. Ends'
      BY <1>1, <3>2, <3>4, <3>6 DEF IInv, Ends, BadNames
    <3>. QED BY <3>5, <3>7
  <2>2. CASE d = "down"
    <3>1. "up" \in Dirs \ {d}
      BY <2>2 DEF Dirs
    <3>2. reading'["up"] = reading["up"] /\ got'["up"] = got["up"]
      BY <1>4, <3>1 DEF Kept
    <3>3. AllRead("up") => AllRead("up")'
      BY <1>1, <3>2 DEF AllRead
    <3>4. method \in OneObject => object["down"] = request
      BY <1>5, <1>10, <2>2 DEF IInv, HandlerWrites
    <3>5. HandlerWrites'
      BY <1>1, <3>3, <3>4 DEF IInv, HandlerWrites
    <3>6. Ends'
      BY <1>1, <3>2 DEF IInv, Ends, BadNames
    <3>. QED BY <3>5, <3>6
  <2>. QED BY <2>1, <2>2 DEF Dirs
<1>. QED BY <1>7, <1>8, <1>9, <1>11, Zenon DEF IInv

\* A round of the parser: it fails only on a bad name of the request.
LEMMA ParseFieldStep ==
  ASSUME IInv, NEW d \in Dirs, ParseField(d)
  PROVE  IInv'
<1>. DEFINE T == TypeAt(method, d)
            token == Head(rest[d])
            message == sent[d][Len(got[d]) + 1]
<1>1. /\ status = "open" /\ rest[d] # <<>>
      /\ IF Fails(T, token)
         THEN status' = "INTERNAL" /\ UNCHANGED <<object, rest>>
         ELSE /\ object' = [object EXCEPT ![d] = Parsed(T, object[d], token)]
              /\ rest' = [rest EXCEPT ![d] = Tail(rest[d])]
              /\ UNCHANGED status
      /\ UNCHANGED <<method, request, reading, wire, closed, sent, got>>
  <2>1. ReaderType(d) = T
    BY DirectionFacts
  <2>. QED BY <2>1, Zenon DEF ParseField
<1>2. Call /\ Len(wire[d]) <= Window
  BY DEF IInv, Flows
<1>3. /\ reading[d] /\ message \in Message(T) /\ Len(got[d]) + 1 \in 1 .. Len(sent[d])
      /\ IF Fails(T, token) THEN ~Clean(T, message)
         ELSE Flow(T, Parsed(T, object[d], token), Tail(rest[d]), reading[d],
                   wire[d], sent[d], got[d])
  <2>. PICK o, r, w, s, g, b :
         /\ o = object[d] /\ r = rest[d] /\ w = wire[d] /\ s = sent[d] /\ g = got[d]
         /\ b = reading[d]
    OBVIOUS
  <2>1. T \in Types /\ b \in BOOLEAN /\ Flow(T, o, r, b, w, s, g) /\ r # <<>>
    BY <1>1, DirectionFacts
  <2>2. /\ b /\ s[Len(g) + 1] \in Message(T) /\ Len(g) + 1 \in 1 .. Len(s)
        /\ IF Fails(T, Head(r)) THEN ~Clean(T, s[Len(g) + 1])
           ELSE Flow(T, Parsed(T, o, Head(r)), Tail(r), b, w, s, g)
    BY ONLY <2>1, FlowParses
  <2>. QED BY <2>2
<1>4. d = "up" => ~AllRead("up")
  BY <1>3 DEF AllRead
<1>5. ClientWrites'
  BY <1>1 DEF IInv, ClientWrites
<1>6. CASE ~Fails(T, token)
  <2>1. /\ object' = [object EXCEPT ![d] = Parsed(T, object[d], token)]
        /\ rest' = [rest EXCEPT ![d] = Tail(rest[d])]
        /\ UNCHANGED status
    BY <1>1, <1>6
  <2>2. object'[d] = Parsed(T, object[d], token) /\ rest'[d] = Tail(rest[d])
    BY <1>2, <2>1 DEF Call
  <2>3. ASSUME NEW e \in Dirs \ {d} PROVE Kept(e)
    BY <1>1, <1>2, <2>1 DEF Call, Kept
  <2>4. Flow(T, object'[d], rest'[d], reading'[d], wire'[d], sent'[d], got'[d])
    BY <1>1, <1>3, <1>6, <2>2, Zenon
  <2>5. Flows'
    BY <1>1, <1>2, <2>3, <2>4, OtherFlow
  <2>6. Call'
    <3>1. DOMAIN object' = Dirs /\ DOMAIN rest' = Dirs
      BY <1>2, <2>1 DEF Call
    <3>. QED BY <1>1, <1>2, <2>1, <3>1 DEF Call
  <2>7. Ends'
    BY <1>1, <2>1 DEF IInv, Ends, BadNames
  <2>8. HandlerWrites'
    <3>1. reading["down"] \/ object'["down"] = object["down"]
      <4>1. CASE d = "down"
        BY <1>3, <4>1
      <4>2. CASE d # "down"
        <5>1. "down" \in Dirs \ {d}
          BY <4>2 DEF Dirs
        <5>. QED BY <2>3, <5>1 DEF Kept
      <4>. QED BY <4>1, <4>2
    <3>2. AllRead("up") => AllRead("up")'
      BY <1>1 DEF AllRead
    <3>. QED BY <1>1, <3>1, <3>2 DEF IInv, HandlerWrites
  <2>. QED BY <1>5, <2>5, <2>6, <2>7, <2>8, Zenon DEF IInv
<1>7. CASE Fails(T, token)
  <2>1. status' = "INTERNAL" /\ UNCHANGED <<object, rest>>
    BY <1>1, <1>7
  <2>2. ~Clean(T, message)
    BY <1>3, <1>7
  <2>3. d = "up"
    <3>. SUFFICES ASSUME d = "down" PROVE FALSE
      BY DEF Dirs
    <3>1. T = Calls[method].reply
      BY DEF TypeAt
    <3>2. DOMAIN sent[d] = 1 .. Len(sent[d])
      BY DirectionFacts, LenProperties
    <3>3. Clean(T, message)
      BY <1>3, <3>1, <3>2 DEF IInv, HandlerWrites
    <3>. QED BY <2>2, <3>3
  <2>4. T = Calls[method].request
    BY <2>3 DEF TypeAt
  <2>5. Stub[method].kind # "CLIENT_STREAMING"
    <3>. SUFFICES ASSUME Stub[method].kind = "CLIENT_STREAMING" PROVE FALSE
      OBVIOUS
    <3>1. DOMAIN sent[d] = 1 .. Len(sent[d])
      BY DirectionFacts, LenProperties
    <3>2. \A i \in DOMAIN sent.up : Clean(T, sent.up[i])
      BY <2>4 DEF IInv, ClientWrites
    <3>3. Clean(T, message)
      BY <1>3, <2>3, <3>1, <3>2
    <3>. QED BY <2>2, <3>3
  <2>6. message = request
    <3>1. sent["up"] = IF closed["up"] THEN <<request>> ELSE <<>>
      BY <2>5 DEF IInv, ClientWrites
    <3>2. sent["up"] = <<request>>
      BY <1>3, <2>3, <3>1
    <3>. QED BY <1>3, <2>3, <3>2
  <2>7. BadNames # {}
    BY <1>3, <2>2, <2>4, <2>6 DEF BadNames, Clean, Message
  <2>8. ~closed.down /\ sent.down = <<>> /\ ~reading.down /\ ~AllRead("down")
    BY <1>4, <2>3, BeforeReply
  <2>9. Call'
    BY <1>1, <1>2, <2>1 DEF Call
  <2>10. Flows'
    BY <1>1, <2>1, Zenon DEF IInv, Flows
  <2>11. HandlerWrites'
    BY <1>1, <2>1, <2>8 DEF IInv, HandlerWrites
  <2>12. Ends'
    <3>1. got.up = <<>>
      BY <2>7 DEF IInv, Ends
    <3>2. BadNames' = BadNames
      BY <1>1 DEF BadNames
    <3>. QED BY <1>1, <2>1, <2>7, <2>8, <3>1, <3>2 DEF Ends
  <2>. QED BY <1>5, <2>9, <2>10, <2>11, <2>12, Zenon DEF IInv
<1>. QED BY <1>6, <1>7

\* Once the request is read, it had no name that is not UTF-8.
LEMMA ReadIsClean ==
  ASSUME IInv, AllRead("up")
  PROVE  BadNames = {}
<1>1. method \in Methods /\ request \in Requests(method)
  BY DEF IInv, Call
<1>2. CASE method \notin Begins \cup Commits
  <2>1. /\ Clean(Calls[method].request, request)
        /\ request \in Message(Calls[method].request)
    BY <1>1, <1>2, RequestIsMessage
  <2>. QED BY <2>1 DEF Clean, BadNames, Message
<1>3. CASE method \in Begins \cup Commits
  <2>1. Stub[method].kind # "CLIENT_STREAMING"
    BY <1>1, <1>3, MethodKinds DEF Begins, Commits
  <2>2. sent.up = <<request>>
    BY <2>1 DEF IInv, ClientWrites, AllRead
  <2>3. got["up"] = sent["up"]
    BY DirectionFacts DEF Dirs
  <2>4. <<request>> # <<>>
    OBVIOUS
  <2>5. got.up # <<>>
    BY <2>2, <2>3, <2>4
  <2>. QED BY <2>5 DEF IInv, Ends
<1>. QED BY <1>2, <1>3

\* A handler that refuses: the client's object is as it was.
LEMMA RefuseStep == IInv /\ Refuse => IInv'
<1>. SUFFICES ASSUME IInv, Refuse PROVE IInv'
  OBVIOUS
<1>1. /\ status = "open" /\ ~closed.down /\ status' = "CANCELLED"
      /\ UNCHANGED <<method, request, object, rest, reading, wire, closed, sent, got>>
  BY Zenon DEF Refuse
<1>2. method \in Methods /\ handler.kind = Stub[method].kind /\ handler.function = method
  <2>1. method \in Methods
    BY DEF IInv, Call
  <2>. QED BY <2>1, WriterAndReaderAgree
<1>3. BadNames = {}
  <2>1. CASE AllRead("up")
    BY <2>1, ReadIsClean
  <2>2. CASE ~AllRead("up")
    <3>1. method = "putBlock" /\ request \in Requests(method)
      BY <1>2, <2>2, MethodKinds DEF Refuse, Running, IInv, Call
    <3>2. /\ Clean(Calls[method].request, request)
          /\ request \in Message(Calls[method].request)
      BY <1>2, <3>1, RequestIsMessage DEF Begins, Commits
    <3>. QED BY <3>2 DEF Clean, BadNames, Message
  <2>. QED BY <2>1, <2>2
<1>4. method \in OneObject => ~reading.down
  <2>. SUFFICES ASSUME method \in OneObject PROVE ~reading.down
    OBVIOUS
  <2>1. sent.down = <<>>
    BY <1>2 DEF Refuse, Refuses, OneObject
  <2>2. sent["down"] = <<>> => ~reading["down"]
    BY DirectionFacts DEF Dirs
  <2>. QED BY <2>1, <2>2
<1>5. Call'
  BY <1>1 DEF IInv, Call
<1>6. Flows' /\ ClientWrites' /\ HandlerWrites'
  BY <1>1, Zenon DEF IInv, Flows, ClientWrites, HandlerWrites, AllRead
<1>7. Ends'
  <2>1. BadNames' = BadNames
    BY <1>1 DEF BadNames
  <2>. QED BY <1>1, <1>3, <1>4, <2>1 DEF Ends
<1>. QED BY <1>5, <1>6, <1>7, Zenon DEF IInv

\* The call returns OK once all was read.
LEMMA FinishStep == IInv /\ Finish => IInv'
<1>. SUFFICES ASSUME IInv, Finish PROVE IInv'
  OBVIOUS
<1>1. /\ status = "open" /\ AllRead("down") /\ status' = "OK"
      /\ UNCHANGED <<method, request, object, rest, reading, wire, closed, sent, got>>
  BY Zenon DEF Finish
<1>2. AllRead("up") /\ ~reading.down
  BY <1>1 DEF AllRead, IInv, HandlerWrites
<1>3. BadNames = {}
  BY <1>2, ReadIsClean
<1>5. Call'
  BY <1>1 DEF IInv, Call
<1>6. Flows' /\ ClientWrites' /\ HandlerWrites'
  BY <1>1, Zenon DEF IInv, Flows, ClientWrites, HandlerWrites, AllRead
<1>7. Ends'
  <2>1. BadNames' = BadNames /\ AllRead("down")'
    BY <1>1 DEF BadNames, AllRead
  <2>. QED BY <1>1, <1>2, <1>3, <2>1 DEF Ends
<1>. QED BY <1>5, <1>6, <1>7, Zenon DEF IInv

\* A step that changes nothing.
LEMMA StutterStep == IInv /\ UNCHANGED vars => IInv'
BY Zenon DEF vars, IInv, Call, Flows, ClientWrites, HandlerWrites, Ends, AllRead, BadNames

\* The invariant holds in every call, whatever the method, the names, the numbers and
\* the window.
THEOREM InvariantHolds == Spec => []IInv
<1>1. IInv /\ [Next]_vars => IInv'
  <2>. SUFFICES ASSUME IInv, [Next]_vars PROVE IInv'
    OBVIOUS
  <2>1. CASE SendRequest
    BY <2>1, SendRequestStep
  <2>2. CASE WriteUnit
    BY <2>2, WriteUnitStep
  <2>3. CASE UnitsDone
    BY <2>3, UnitsDoneStep
  <2>4. ASSUME NEW d \in Dirs, StartRead(d) PROVE IInv'
    BY <2>4, StartReadStep
  <2>5. ASSUME NEW d \in Dirs, ParseField(d) PROVE IInv'
    BY <2>5, ParseFieldStep
  <2>6. ASSUME NEW d \in Dirs, EndRead(d) PROVE IInv'
    BY <2>6, EndReadStep
  <2>7. CASE ReturnReply
    BY <2>7, ReturnReplyStep
  <2>8. CASE WriteReply
    BY <2>8, WriteReplyStep
  <2>9. CASE ReturnOK
    BY <2>9, ReturnOKStep
  <2>10. CASE Refuse
    BY <2>10, RefuseStep
  <2>11. CASE Finish
    BY <2>11, FinishStep
  <2>12. CASE Returned \/ UNCHANGED vars
    BY <2>12, StutterStep DEF Returned
  <2>. QED
    BY <2>1, <2>2, <2>3, <2>4, <2>5, <2>6, <2>7, <2>8, <2>9, <2>10, <2>11, <2>12
       DEF Next, Dirs
<1>. QED BY <1>1, InitIInv, PTL DEF Spec

\* The objects keep the members of the type their reader takes them for, and the window
\* is kept: the run's TypeOK, for all constants.
THEOREM TypeCorrect == Spec => []TypeOK
<1>1. IInv => TypeOK
  <2>. SUFFICES ASSUME IInv PROVE TypeOK
    OBVIOUS
  <2>1. method \in DOMAIN Stub /\ status \in {"open", "OK", "CANCELLED", "INTERNAL"}
    BY StubMethods DEF IInv, Call
  <2>2. ASSUME NEW d \in Dirs
        PROVE  /\ DOMAIN object[d] = DOMAIN Members[ReaderType(d)]
               /\ Len(wire[d]) <= Window
               /\ rest[d] # <<>> => reading[d]
    <3>1. ReaderType(d) = TypeAt(method, d) /\ Len(wire[d]) <= Window
      BY DirectionFacts DEF IInv, Flows
    <3>2. object[d] \in Message(TypeAt(method, d)) /\ (~reading[d] => rest[d] = <<>>)
      BY DirectionFacts DEF Flow
    <3>. QED BY <3>1, <3>2 DEF Message
  <2>. QED BY <2>1, <2>2, Zenon DEF TypeOK, Dirs
<1>. QED BY <1>1, InvariantHolds, PTL

\* What a side has read is what the other wrote, and after OK all of it: the defaults
\* that are not on the wire and the object that takes every message of a stream lose
\* nothing.
THEOREM ReadAsWrittenHolds == Spec => []ReadAsWritten
<1>1. IInv => ReadAsWritten
  <2>. SUFFICES ASSUME IInv PROVE ReadAsWritten
    OBVIOUS
  <2>1. ASSUME NEW d \in Dirs
        PROVE  IsPrefix(got[d], sent[d]) /\ (status = "OK" => got[d] = sent[d])
    <3>1. IsPrefix(got[d], sent[d]) /\ (AllRead(d) => got[d] = sent[d])
      BY DirectionFacts
    <3>2. status = "OK" => AllRead("down")
      BY DEF IInv, Ends
    <3>3. AllRead("down") => AllRead("up")
      BY DEF AllRead, IInv, HandlerWrites
    <3>. QED BY <3>1, <3>2, <3>3 DEF Dirs
  <2>. QED BY <2>1 DEF ReadAsWritten, Dirs
<1>. QED BY <1>1, InvariantHolds, PTL

\* A client that passes its request as the reply goes on with the same fileInfo or
\* blockInfo, however the call ends.
THEOREM RequestSurvivesHolds == Spec => []RequestSurvives
<1>1. IInv => RequestSurvives
  BY DEF IInv, HandlerWrites, Ends, RequestSurvives
<1>. QED BY <1>1, InvariantHolds, PTL

\* The parser refuses nothing but a name that is not UTF-8, and no handler sees such a
\* name.
THEOREM OnlyBadNamesFailHolds == Spec => []OnlyBadNamesFail
<1>1. IInv => OnlyBadNamesFail
  BY DEF IInv, Ends, BadNames, OnlyBadNamesFail
<1>. QED BY <1>1, InvariantHolds, PTL

\* The buffer a message is serialized into is as long as what is written to it.
THEOREM SizeIsLengthHolds == Spec => []SizeIsLength
<1>1. IInv => SizeIsLength
  <2>. SUFFICES ASSUME IInv, NEW d \in Dirs, NEW i \in DOMAIN sent[d]
                PROVE  ByteSizeLong(WriterType(d), sent[d][i])
                         = Bytes(Serialize(WriterType(d), sent[d][i]))
    BY DEF SizeIsLength, Dirs
  <2>1. WriterType(d) \in Types /\ sent[d] \in Seq(Message(WriterType(d)))
    BY DirectionFacts DEF Flow
  <2>2. sent[d][i] \in Message(WriterType(d))
    BY <2>1, LenProperties, ElementOfSeq
  <2>. QED BY <2>1, <2>2, SizeOfMessage
<1>. QED BY <1>1, InvariantHolds, PTL
=============================================================================
