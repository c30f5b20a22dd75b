---------------------------- MODULE DFSRefinement ----------------------------
(***************************************************************************)
(* DFS implements FileStore as long as one client writes and only data     *)
(* servers fail.                                                           *)
(***************************************************************************)
EXTENDS DFS

\* "No file" is told from a content, and from what a download brings.
ASSUME AbsentAssumption ==
  Absent \notin Seq(Units) /\ Absent \notin [file : Files, content : Seq(Units)]

Removing(f) ==
  \E c \in Users : pc[c] \in {"rmBlock", "rmWait", "abortRm"} /\ File(c) = f

\* What the metadata says is stored, listed or set aside by beginRmTransaction.
storedFiles ==
  [f \in Files |-> IF Listed(f) THEN ContentOf(beginGetReply(f)) ELSE Absent]

withdrawnFiles ==
  [f \in Files |->
     IF Removing(f) /\ Pending(f) THEN ContentOf(tempList[Find(tempList, f)].storeList)
     ELSE Absent]

\* The answer of beginGetTransaction is what a download works from.
chosenFiles ==
  [c \in Clients |->
     IF pc[c] \in {"getBlock", "getWait"}
     THEN [file |-> File(c), content |-> ContentOf(list[c])] ELSE Absent]

\* While put has renamed it, the user's copy is the one called .bak.
copies ==
  [c \in Clients |->
     [f \in Files |-> IF bak[c][f] # Absent THEN bak[c][f] ELSE local[c][f]]]

Store == INSTANCE FileStore
  WITH Units <- Units, stored <- storedFiles, withdrawn <- withdrawnFiles,
       chosen <- chosenFiles, copy <- copies

\* Block by block, on servers that may die, with a reader in between: a put
\* shows at commitPutTransaction, whole, a removal at beginRmTransaction, for
\* good or until it is undone, a get brings the version of its begin, and put
\* never loses the copy it renamed.
ImplementsFileStore == Store!Spec
=============================================================================
