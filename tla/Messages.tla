------------------------------ MODULE Messages ------------------------------
(***************************************************************************)
(* The messages of DistributedFileSystem.proto as the generated code of    *)
(* proto-src/DistributedFileSystem.pb.cc handles them.  For each message,  *)
(* one listing per generated function says which members that function     *)
(* touches: the members and their kinds (constructors), those Clear        *)
(* resets, those the parser reads under which tag, those the serializers   *)
(* write under which number, those ByteSizeLong counts and those MergeFrom *)
(* copies.  What a generated function does with a member is the same in    *)
(* every message; it is stated once, by the operators after the listings.  *)
(*                                                                         *)
(* A string or byte string is Empty, a member of NotText (one that is not  *)
(* UTF-8) or another value; a non-empty one counts as one byte long.       *)
(***************************************************************************)
EXTENDS Naturals, SequencesExt

CONSTANTS Empty, NotText

Field(number, kind, name) == [number |-> number, kind |-> kind, name |-> name]
Tag(tag, kind, name) == [tag |-> tag, kind |-> kind, name |-> name]

(***************************************************************************)
(* ServerInfo                                                              *)
(***************************************************************************)
ServerInfoMembers == [address |-> "string", hash |-> "bytes"]
ServerInfoClears == {"address", "hash"}
ServerInfoReads == {Tag(10, "string", "address"), Tag(18, "bytes", "hash")}
ServerInfoWrites == <<Field(1, "string", "address"), Field(2, "bytes", "hash")>>
ServerInfoSizes == {"address", "hash"}
ServerInfoMerges == {"address", "hash"}

(***************************************************************************)
(* FileInfo                                                                *)
(***************************************************************************)
FileInfoMembers == [fileName |-> "string", fileSize |-> "uint64"]
FileInfoClears == {"fileName", "fileSize"}
\* The parser if fileName were declared as bytes: its UTF-8 is not verified.
FileInfoReadsBytes == {Tag(10, "bytes", "fileName"), Tag(16, "uint64", "fileSize")}
FileInfoReads == {Tag(10, "string", "fileName"), Tag(16, "uint64", "fileSize")}
FileInfoWrites == <<Field(1, "string", "fileName"), Field(2, "uint64", "fileSize")>>
FileInfoSizes == {"fileName", "fileSize"}
\* MergeFrom without the size.
FileInfoMergesName == {"fileName"}
FileInfoMerges == {"fileName", "fileSize"}

(***************************************************************************)
(* BlockStore                                                              *)
(***************************************************************************)
BlockStoreMembers ==
  [serverAddress |-> "string", serverHash |-> "bytes", fileName |-> "string",
   blockIdx |-> "uint64", blockSize |-> "uint64", blockHash |-> "bytes"]
\* Clear without the memset of the numbers.
BlockStoreClearsText == {"serverAddress", "serverHash", "fileName", "blockHash"}
BlockStoreClears ==
  {"serverAddress", "serverHash", "fileName", "blockHash", "blockIdx", "blockSize"}
BlockStoreReads ==
  {Tag(10, "string", "serverAddress"), Tag(18, "bytes", "serverHash"),
   Tag(26, "string", "fileName"), Tag(32, "uint64", "blockIdx"),
   Tag(40, "uint64", "blockSize"), Tag(50, "bytes", "blockHash")}
BlockStoreWrites ==
  <<Field(1, "string", "serverAddress"), Field(2, "bytes", "serverHash"),
    Field(3, "string", "fileName"), Field(4, "uint64", "blockIdx"),
    Field(5, "uint64", "blockSize"), Field(6, "bytes", "blockHash")>>
\* ByteSizeLong without the hash of the block.
BlockStoreSizesUnhashed ==
  {"serverAddress", "serverHash", "fileName", "blockIdx", "blockSize"}
BlockStoreSizes ==
  {"serverAddress", "serverHash", "fileName", "blockHash", "blockIdx", "blockSize"}
BlockStoreMerges ==
  {"serverAddress", "serverHash", "fileName", "blockHash", "blockIdx", "blockSize"}

(***************************************************************************)
(* BlockInfo                                                               *)
(***************************************************************************)
BlockInfoMembers ==
  [fileName |-> "string", blockIdx |-> "uint64", blockSize |-> "uint64",
   blockHash |-> "bytes"]
BlockInfoClears == {"fileName", "blockHash", "blockIdx", "blockSize"}
BlockInfoReads ==
  {Tag(10, "string", "fileName"), Tag(16, "uint64", "blockIdx"),
   Tag(24, "uint64", "blockSize"), Tag(34, "bytes", "blockHash")}
BlockInfoWrites ==
  <<Field(1, "string", "fileName"), Field(2, "uint64", "blockIdx"),
    Field(3, "uint64", "blockSize"), Field(4, "bytes", "blockHash")>>
BlockInfoSizes == {"fileName", "blockHash", "blockIdx", "blockSize"}
BlockInfoMerges == {"fileName", "blockHash", "blockIdx", "blockSize"}

(***************************************************************************)
(* BlockUnit                                                               *)
(***************************************************************************)
BlockUnitMembers ==
  [fileName |-> "string", blockIdx |-> "uint64", unitIdx |-> "uint64",
   unitData |-> "bytes", lastUnit |-> "bool"]
BlockUnitClears == {"fileName", "unitData", "blockIdx", "unitIdx", "lastUnit"}
BlockUnitReads ==
  {Tag(10, "string", "fileName"), Tag(16, "uint64", "blockIdx"),
   Tag(24, "uint64", "unitIdx"), Tag(34, "bytes", "unitData"),
   Tag(40, "bool", "lastUnit")}
BlockUnitWrites ==
  <<Field(1, "string", "fileName"), Field(2, "uint64", "blockIdx"),
    Field(3, "uint64", "unitIdx"), Field(4, "bytes", "unitData"),
    Field(5, "bool", "lastUnit")>>
BlockUnitSizes == {"fileName", "unitData", "blockIdx", "unitIdx", "lastUnit"}
BlockUnitMerges == {"fileName", "unitData", "blockIdx", "unitIdx", "lastUnit"}

(***************************************************************************)
(* The listings by message                                                 *)
(***************************************************************************)
ByMessage(server, file, store, block, unit) ==
  [ServerInfo |-> server, FileInfo |-> file, BlockStore |-> store,
   BlockInfo |-> block, BlockUnit |-> unit]

Members == ByMessage(ServerInfoMembers, FileInfoMembers, BlockStoreMembers,
                     BlockInfoMembers, BlockUnitMembers)
Clears == ByMessage(ServerInfoClears, FileInfoClears, BlockStoreClears,
                    BlockInfoClears, BlockUnitClears)
Reads == ByMessage(ServerInfoReads, FileInfoReads, BlockStoreReads,
                   BlockInfoReads, BlockUnitReads)
Writes == ByMessage(ServerInfoWrites, FileInfoWrites, BlockStoreWrites,
                    BlockInfoWrites, BlockUnitWrites)
Sizes == ByMessage(ServerInfoSizes, FileInfoSizes, BlockStoreSizes,
                   BlockInfoSizes, BlockUnitSizes)
Merges == ByMessage(ServerInfoMerges, FileInfoMerges, BlockStoreMerges,
                    BlockInfoMerges, BlockUnitMerges)

(***************************************************************************)
(* What the generated functions do with a member                           *)
(***************************************************************************)
DefaultOf(kind) ==
  CASE kind \in {"string", "bytes"} -> Empty
    [] kind = "uint64"              -> 0
    [] kind = "bool"                -> FALSE

\* A message object as its constructor leaves it.
Default(type) == [f \in DOMAIN Members[type] |-> DefaultOf(Members[type][f])]

\* A proto3 member is written, counted and merged only when it is not the default.
IsSet(type, object, f) == object[f] # DefaultOf(Members[type][f])

Clear(type, object) ==
  [f \in DOMAIN object |-> IF f \in Clears[type] THEN Default(type)[f] ELSE object[f]]

MergeFrom(type, object, from) ==
  [f \in DOMAIN object |->
     IF f \in Merges[type] /\ IsSet(type, from, f) THEN from[f] ELSE object[f]]

CopyFrom(type, object, from) == MergeFrom(type, Clear(type, object), from)

(***************************************************************************)
(* The wire format: a serialized message is a sequence of tagged values.   *)
(* The wire type of strings and bytes is 2, that of numbers and bools 0,   *)
(* and a bool travels as the number 0 or 1.                                *)
(***************************************************************************)
WireTag(field) ==
  8 * field.number + IF field.kind \in {"string", "bytes"} THEN 2 ELSE 0

Encoded(kind, value) == IF kind = "bool" THEN (IF value THEN 1 ELSE 0) ELSE value
Decoded(kind, value) == IF kind = "bool" THEN value # 0 ELSE value

Serialize(type, object) ==
  LET token(field) == [tag   |-> WireTag(field),
                       value |-> Encoded(field.kind, object[field.name])]
  IN  FlattenSeq([i \in DOMAIN Writes[type] |->
        LET field == Writes[type][i]
        IN  IF IsSet(type, object, field.name) THEN <<token(field)>> ELSE <<>>])

\* The length of a value on the wire: a byte of length and the bytes, or a varint.
ValueSize(isNumber, value) ==
  IF isNumber THEN (IF value < 128 THEN 1 ELSE 2)
  ELSE 1 + IF value = Empty THEN 0 ELSE 1

Bytes(frame) ==
  SumFunction([i \in DOMAIN frame |-> 1 + ValueSize(frame[i].tag % 8 = 0, frame[i].value)])

ByteSizeLong(type, object) ==
  LET isNumber(f) == Members[type][f] \in {"uint64", "bool"}
  IN  SumFunction([f \in {f \in Sizes[type] : IsSet(type, object, f)} |->
        1 + ValueSize(isNumber(f), Encoded(Members[type][f], object[f]))])

(***************************************************************************)
(* One round of MergePartialFromCodedStream: a known tag overwrites its    *)
(* member, an unknown one is skipped, and a string that is not UTF-8 fails *)
(* the parse.                                                              *)
(***************************************************************************)
Known(type, token) == {r \in Reads[type] : r.tag = token.tag}

Fails(type, token) ==
  \E r \in Known(type, token) : r.kind = "string" /\ token.value \in NotText

Parsed(type, object, token) ==
  [f \in DOMAIN object |->
     IF \E r \in Known(type, token) : r.name = f
     THEN Decoded(Members[type][f], token.value) ELSE object[f]]
=============================================================================
