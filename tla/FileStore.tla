------------------------------ MODULE FileStore ------------------------------
(***************************************************************************)
(* What the file system promises to a user who writes alone while others   *)
(* read: there are no blocks, data servers or metadata, a file is stored   *)
(* or it is not, and each operation takes effect in one step.  A data      *)
(* server may fail at any time, which shows only in what is promised no    *)
(* more: a put or rm may come to nothing, and the last block of a download *)
(* may be anything.                                                        *)
(***************************************************************************)
EXTENDS Integers, Sequences

CONSTANTS
  Clients, Users,  \* those who use the system, and those of them who write
  Files,
  Contents,        \* what users write into their files
  Units,           \* what a block consists of
  maxBlockSize,
  Absent           \* where there is no file

VARIABLES
  stored,    \* stored[f]: the content of a file in the system
  withdrawn, \* withdrawn[f]: the content of a file that is being removed
  chosen,    \* chosen[c]: the version a download of client c brings
  copy       \* copy[c][f]: the client's own copy

storeVars == <<stored, withdrawn, chosen, copy>>

Init ==
  /\ stored = [f \in Files |-> Absent]
  /\ withdrawn = [f \in Files |-> Absent]
  /\ chosen = [c \in Clients |-> Absent]
  /\ copy = [c \in Clients |-> [f \in Files |-> Absent]]

Owned(c, f) == IF copy[c][f] = Absent THEN <<>> ELSE copy[c][f]

Edit(c, f) ==
  /\ \E content \in Contents : copy' = [copy EXCEPT ![c][f] = content]
  /\ UNCHANGED <<stored, withdrawn, chosen>>

-----------------------------------------------------------------------------
(***************************************************************************)
(* A removal hides the file, then it is gone or it is back.  A put removes *)
(* first, whatever comes of it, and keeps the user's copy.                 *)
(***************************************************************************)
Withdraw(f) ==
  /\ stored[f] # Absent
  /\ withdrawn' = [withdrawn EXCEPT ![f] = stored[f]]
  /\ stored' = [stored EXCEPT ![f] = Absent]
  /\ UNCHANGED <<chosen, copy>>

Discard(c, f) ==
  /\ stored[f] = Absent
  /\ withdrawn' = [withdrawn EXCEPT ![f] = Absent]
  /\ \/ copy' = [copy EXCEPT ![c][f] = Absent]
     \/ copy' = [copy EXCEPT ![c][f] = Owned(c, f)]
  /\ UNCHANGED <<stored, chosen>>

Reinstate(c, f) ==
  /\ stored[f] = Absent /\ withdrawn[f] # Absent
  /\ stored' = [stored EXCEPT ![f] = withdrawn[f]]
  /\ withdrawn' = [withdrawn EXCEPT ![f] = Absent]
  /\ \/ UNCHANGED copy
     \/ copy' = [copy EXCEPT ![c][f] = Owned(c, f)]
  /\ UNCHANGED chosen

\* The new version appears at once and whole.
Publish(c, f) ==
  /\ stored[f] = Absent /\ withdrawn[f] = Absent /\ copy[c][f] # Absent
  /\ stored' = [stored EXCEPT ![f] = copy[c][f]]
  /\ UNCHANGED <<withdrawn, chosen, copy>>

-----------------------------------------------------------------------------
(***************************************************************************)
(* A download brings the version that was stored when it began.            *)
(***************************************************************************)
Choose(c, f) ==
  /\ chosen[c] = Absent
  /\ chosen' = [chosen EXCEPT ![c] =
       [file |-> f, content |-> IF stored[f] = Absent THEN <<>> ELSE stored[f]]]
  /\ UNCHANGED <<stored, withdrawn, copy>>

\* The units before the last block.
Body(content) == ((Len(content) - 1) \div maxBlockSize) * maxBlockSize

Delivered(content) ==
  IF content = <<>> THEN {<<>>}
  ELSE {SubSeq(content, 1, Body(content)) \o last :
          last \in [1 .. Len(content) - Body(content) -> Units]}

Deliver(c) ==
  /\ chosen[c] # Absent
  /\ \E content \in Delivered(chosen[c].content) :
       copy' = [copy EXCEPT ![c][chosen[c].file] = content]
  /\ chosen' = [chosen EXCEPT ![c] = Absent]
  /\ UNCHANGED <<stored, withdrawn>>

GiveUp(c) ==
  /\ chosen[c] # Absent
  /\ chosen' = [chosen EXCEPT ![c] = Absent]
  /\ UNCHANGED <<stored, withdrawn, copy>>

-----------------------------------------------------------------------------
Next ==
  \/ \E c \in Users, f \in Files :
       Edit(c, f) \/ Withdraw(f) \/ Discard(c, f) \/ Reinstate(c, f) \/ Publish(c, f)
  \/ \E c \in Clients :
       Deliver(c) \/ GiveUp(c) \/ \E f \in Files : Choose(c, f)

Spec == Init /\ [][Next]_storeVars
=============================================================================
