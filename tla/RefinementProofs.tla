--------------------------- MODULE RefinementProofs ---------------------------
(***************************************************************************)
(* DFS implements FileStore when one client writes and only data servers   *)
(* fail, however often: StoreImplemented. The invariant it needs is        *)
(* Steady, which unlike Quiet of DFSProofs outlives the failures: it says  *)
(* what is true of the metadata, the clients and the calls whatever is     *)
(* left on the disks.                                                      *)
(***************************************************************************)
EXTENDS DFSProofs, DFSRefinement

\* Where an rm, or the rm a put begins with, has its file off fileList, and where
\* an entry of tempList belongs to someone.
Removal == RmPhase \cup {"abortRm"}
OnWay == Removal \cup PutPhase \cup {"abortPut"}

\* The pieces of a content, and a storeList that has all of them.
BlockOf(content, e) ==
  SubSeq(content, e.blockIdx * maxBlockSize + 1, e.blockIdx * maxBlockSize + e.blockSize)

Covers(stores, size) ==
  \A i \in Nat : i * maxBlockSize < size => \E k \in 1 .. Len(stores) : stores[k].blockIdx = i

StandsFor(stores, content) ==
  /\ content \in Seq(Units)
  /\ \A k \in 1 .. Len(stores) :
       Cuts(stores[k], Len(content)) /\ stores[k].blockHash = BlockOf(content, stores[k])
  /\ Covers(stores, Len(content))

Whole(stores) == StandsFor(stores, ContentOf(stores))

\* The name server is up, with a data server on its ring.
NameServerRuns == up /\ serverList # <<>>

\* Every listed file has all of its blocks.
ListedWhole == \A e \in ToSet(fileList) : Whole(e.storeList)

\* Every call is the one its client waits for.
CallsAwait ==
  /\ \A call \in calls : Awaited(call)
  /\ \A a, b \in calls : a.caller = b.caller => a = b

\* What is in tempList is being removed or put.
EachOwned ==
  \A f \in NamesOf(tempList) : \E c \in Clients : pc[c] \in OnWay /\ File(c) = f

\* A removal has its file off fileList, and can bring it back.
Withdrawn(c) ==
  pc[c] \in Removal =>
    /\ File(c) \notin NamesOf(fileList)
    /\ \A e \in ToSet(tempList) : Whole(e.storeList)

\* A put that was accepted has the entry of its copy, filled in up to the iterator.
Arriving(c) ==
  pc[c] \in PutPhase =>
    \/ tempList = <<>> /\ list[c] = <<>>
    \/ /\ Len(tempList) = 1 /\ tempList[1].fileName = File(c)
       /\ Len(Sending) = Len(list[c])
       /\ \A k \in 1 .. Len(list[c]) : Sending[k].blockIdx = list[c][k].blockIdx
       /\ Covers(list[c], Len(local[c][File(c)]))
       /\ \A k \in 1 .. at[c] - 1 :
            /\ Sending[k].blockHash = Piece(c, list[c][k])
            /\ Sending[k].blockSize = list[c][k].blockSize

\* A put has a copy called .bak only until the rm it begins with has ended.
SettingAside(c) == op[c].name = "put" /\ pc[c] \in {"beginRm"} \cup Removal

CopySafe(c) ==
  /\ \A f \in Files : bak[c][f] # Absent => SettingAside(c) /\ f = File(c)
  /\ SettingAside(c) => local[c][File(c)] = Absent

\* A get has the first n blocks without an error, and is at the next one at most.
Reading(c) ==
  pc[c] \in Downloading =>
    /\ Whole(list[c])
    /\ \E n \in Nat :
         /\ Downloaded(c) = 0 .. n - 1
         /\ \A k \in 1 .. at[c] - 1 : list[c][k].blockIdx <= n
         /\ pc[c] = "getWait" => Entry(c).blockIdx = n

\* What a putBlock sends is the piece, and a report has reached the entry.
Sent(call) ==
  call.method = "putBlock" =>
    LET c == call.caller
    IN  /\ call.data = Piece(c, Entry(c))
        /\ call.reported =>
             Sending[at[c]].blockHash = call.data /\ Sending[at[c]].blockSize = Len(call.data)

ClientSteady(c) == Withdrawn(c) /\ Arriving(c) /\ CopySafe(c) /\ Reading(c)

Steady ==
  /\ NameServerRuns /\ ListedWhole /\ CallsAwait /\ EachOwned
  /\ \A c \in Clients : ClientSteady(c)
  /\ \A call \in calls : Sent(call)

Sound == DInv /\ NamesInv /\ Steady

Waits == {"getWait", "putWait", "rmWait"}

\* A call whose data and report are as they were.
Kept(old, call) == SameCall(old, call) /\ old.data = call.data /\ old.reported = call.reported

\* The other clients during a step of one.
LEMMA OthersSteady ==
  ASSUME Sound, OneWriter, NEW c \in Clients, Own(c), UNCHANGED nsVars \/ pc[c] \in Writing,
         NEW d \in Clients, d # c
  PROVE  /\ ClientSteady(d)'
         /\ pc'[d] = pc[d] /\ File(d)' = File(d) /\ Entry(d)' = Entry(d) /\ at'[d] = at[d]
         /\ list'[d] = list[d] /\ local'[d] = local[d] /\ bak'[d] = bak[d] /\ op'[d] = op[d]
         /\ pc[d] \in OnWay => UNCHANGED nsVars
<1>1. /\ pc'[d] = pc[d] /\ op'[d] = op[d] /\ list'[d] = list[d] /\ at'[d] = at[d]
      /\ got'[d] = got[d] /\ local'[d] = local[d]
      /\ File(d)' = File(d) /\ Entry(d)' = Entry(d)
  BY OthersSame DEF Sound, DInv
<1>2. bak'[d] = bak[d]
  BY OtherValue DEF Sound, DInv, ClientsInv, Domains, Own
<1>3. pc[d] \in OnWay => UNCHANGED nsVars
  <2>1. pc[d] \in OnWay => pc[d] \in Writing
    BY DEF OnWay, Removal, RmPhase, PutPhase, Writing
  <2>2. pc[d] \in OnWay /\ pc[c] \in Writing => FALSE
    BY <2>1 DEF Sound, NamesInv, Controls, OneWriter
  <2>. QED BY <2>2
<1>4. UNCHANGED nsVars => UNCHANGED <<fileList, tempList>>
  BY DEF nsVars
<1>5. ClientSteady(d)
  BY DEF Sound, Steady
<1>6. Withdrawn(d)'
  <2>. SUFFICES ASSUME pc'[d] \in Removal PROVE Withdrawn(d)'
    BY Zenon DEF Withdrawn
  <2>1. UNCHANGED <<fileList, tempList>>
    BY <1>1, <1>3, <1>4 DEF OnWay
  <2>. QED BY <1>1, <1>5, <2>1, Zenon DEF Withdrawn, ClientSteady
<1>7. Arriving(d)'
  <2>. SUFFICES ASSUME pc'[d] \in PutPhase PROVE Arriving(d)'
    BY Zenon DEF Arriving
  <2>1. UNCHANGED <<fileList, tempList>>
    BY <1>1, <1>3, <1>4 DEF OnWay
  <2>2. Sending' = Sending /\ \A e : Piece(d, e)' = Piece(d, e)
    BY <1>1, <2>1 DEF Sending, Piece
  <2>. QED BY <1>1, <1>5, <2>1, <2>2 DEF Arriving, ClientSteady
<1>8. CopySafe(d)'
  BY <1>1, <1>2, <1>5 DEF CopySafe, ClientSteady, SettingAside
<1>9. Reading(d)'
  <2>1. Downloaded(d)' = Downloaded(d)
    BY <1>1 DEF Downloaded
  <2>. QED BY <1>1, <1>5, <2>1 DEF Reading, ClientSteady
<1>. QED BY <1>1, <1>2, <1>3, <1>6, <1>7, <1>8, <1>9 DEF ClientSteady

\* What is to show of a step of a client.
LEMMA StepIsSteady ==
  ASSUME Sound, OneWriter, NEW c \in Clients, Own(c), UNCHANGED nsVars \/ pc[c] \in Writing,
         NameServerRuns', ListedWhole', EachOwned',
         \A call \in calls' : call.caller # c => \E old \in calls : Kept(old, call),
         \A a, b \in calls' : a.caller = b.caller => a = b,
         \A call \in calls' : call.caller = c => Awaited(call)' /\ Sent(call)',
         ClientSteady(c)'
  PROVE  Steady'
<1>1. \A d \in Clients : ClientSteady(d)'
  BY OthersSteady
<1>2. ASSUME NEW call \in calls', call.caller # c PROVE Awaited(call)' /\ Sent(call)'
  <2>. PICK d : d = call.caller
    OBVIOUS
  <2>1. PICK old \in calls : Kept(old, call)
    BY <1>2
  <2>2. /\ Awaited(old) /\ Sent(old) /\ old.caller = d
        /\ old.method \in {"getBlock", "putBlock", "rmBlock"}
    BY <2>1 DEF Kept, SameCall, Sound, Steady, CallsAwait, DInv, ServersInv, CallInv, BlockCall
  <2>3. d \in Clients /\ d # c
    BY <1>2, <2>2 DEF Awaited
  <2>4. /\ pc'[d] = pc[d] /\ File(d)' = File(d) /\ Entry(d)' = Entry(d) /\ at'[d] = at[d]
        /\ local'[d] = local[d] /\ (pc[d] \in OnWay => UNCHANGED nsVars)
    BY <2>3, OthersSteady
  <2>5. Awaited(call)'
    BY <2>1, <2>2, <2>3, <2>4 DEF Kept, SameCall, Awaited
  <2>6. Sent(call)'
    <3>. SUFFICES ASSUME call.method = "putBlock" PROVE Sent(call)'
      BY Zenon DEF Sent
    <3>1. old.method = "putBlock"
      BY <2>1 DEF Kept, SameCall
    <3>2. pc[d] = "putWait"
      BY <2>2, <3>1 DEF Awaited, WaitsFor
    <3>3. Sending' = Sending
      BY <2>4, <3>2 DEF OnWay, PutPhase, nsVars, Sending
    <3>4. Piece(d, Entry(d))' = Piece(d, Entry(d))
      BY <2>4 DEF Piece
    <3>. QED BY <2>1, <2>2, <2>4, <3>1, <3>3, <3>4 DEF Sent, Kept, SameCall
  <2>. QED BY <2>5, <2>6
<1>3. \A call \in calls' : Awaited(call)' /\ Sent(call)'
  BY <1>2
<1>. QED BY <1>1, <1>3 DEF Steady, CallsAwait

\* The calls after a step of a client: its own is at most one.
LEMMA CallsGoOn ==
  ASSUME CallsAwait, NEW c, NEW x, x.caller = c,
         calls' \subseteq {call \in calls : call.caller # c} \cup {x}
  PROVE  /\ \A call \in calls' : call.caller # c => \E old \in calls : Kept(old, call)
         /\ \A a, b \in calls' : a.caller = b.caller => a = b
         /\ \A call \in calls' : call.caller = c => call = x
BY DEF CallsAwait, Kept, SameCall

\* Only a client that waits has a call.
LEMMA CallersWait ==
  ASSUME Sound, NEW call \in calls
  PROVE  /\ call.caller \in Clients
         /\ pc[call.caller] \in Waits
         /\ pc[call.caller] = "getWait" <=> call.method = "getBlock"
         /\ pc[call.caller] = "putWait" <=> call.method = "putBlock"
         /\ pc[call.caller] = "rmWait" <=> call.method = "rmBlock"
<1>1. Awaited(call) /\ call.method \in {"getBlock", "putBlock", "rmBlock"}
  BY DEF Sound, Steady, CallsAwait, DInv, ServersInv, CallInv, BlockCall
<1>. QED BY <1>1 DEF Awaited, WaitsFor, Waits

\* A step that the name server has no part in.
LEMMA QuietIsSteady ==
  ASSUME Sound, OneWriter, NEW c \in Clients, Own(c), UNCHANGED nsVars,
         pc[c] \in OnWay => pc'[c] \in OnWay /\ File(c)' = File(c),
         \A call \in calls' : call.caller # c => \E old \in calls : Kept(old, call),
         \A a, b \in calls' : a.caller = b.caller => a = b,
         \A call \in calls' : call.caller = c => Awaited(call)' /\ Sent(call)',
         ClientSteady(c)'
  PROVE  Steady'
<1>1. NameServerRuns' /\ ListedWhole'
  BY DEF Sound, Steady, NameServerRuns, ListedWhole, nsVars
<1>2. EachOwned'
  <2>. SUFFICES ASSUME NEW f \in NamesOf(tempList')
                PROVE  \E d \in Clients : pc'[d] \in OnWay /\ File(d)' = f
    BY DEF EachOwned
  <2>1. tempList' = tempList
    BY DEF nsVars
  <2>2. PICK d \in Clients : pc[d] \in OnWay /\ File(d) = f
    BY <2>1 DEF Sound, Steady, EachOwned
  <2>3. d # c => pc'[d] = pc[d] /\ File(d)' = File(d)
    BY OthersSteady
  <2>. QED BY <2>2, <2>3
<1>. QED BY <1>1, <1>2, StepIsSteady

\* The same, of a client that has no call before or after.
LEMMA SilentIsSteady ==
  ASSUME Sound, OneWriter, NEW c \in Clients, Own(c), UNCHANGED <<nsVars, calls>>,
         pc[c] \in OnWay => pc'[c] \in OnWay /\ File(c)' = File(c),
         \A call \in calls : call.caller # c,
         ClientSteady(c)'
  PROVE  Steady'
<1>1. \A call \in calls' : call.caller # c /\ \E old \in calls : Kept(old, call)
  BY DEF Kept, SameCall
<1>2. \A a, b \in calls' : a.caller = b.caller => a = b
  BY DEF Sound, Steady, CallsAwait
<1>. QED BY <1>1, <1>2, QuietIsSteady

\* What the invariant says of one client.
LEMMA OwnParts ==
  ASSUME Sound, NEW c \in Clients
  PROVE  /\ Domains /\ IInv /\ ListsInv /\ KnownOnce /\ ServersInv /\ ClientInv(c)
         /\ ClientSteady(c) /\ NameServerRuns /\ CallsAwait
         /\ DOMAIN local[c] = Files /\ DOMAIN bak[c] = Files
         /\ pc[c] # "idle" => File(c) \in Files
         /\ pc[c] \notin Waits => \A call \in calls : call.caller # c
<1>1. /\ Domains /\ IInv /\ ListsInv /\ KnownOnce /\ ServersInv /\ ClientInv(c)
      /\ ClientSteady(c) /\ NameServerRuns /\ CallsAwait
  BY DEF Sound, DInv, ClientsInv, IInv, NamesInv, Steady
<1>2. DOMAIN local[c] = Files /\ DOMAIN bak[c] = Files /\ (pc[c] # "idle" => File(c) \in Files)
  BY <1>1 DEF ClientInv, Copies
<1>3. pc[c] \notin Waits => \A call \in calls : call.caller # c
  BY CallersWait
<1>. QED BY <1>1, <1>2, <1>3

\* The beginnings of operations.
LEMMA BeginIsSteady ==
  ASSUME Sound, OneWriter, NEW c \in Clients, Begin(c)
  PROVE  Steady'
<1>1. PICK f \in Files : StartPut(c, f) \/ StartRm(c, f) \/ StartGet(c, f)
  BY Zenon DEF Begin
<1>2. pc[c] = "idle" /\ UNCHANGED <<nsVars, calls>> /\ Own(c)
  BY <1>1, StepsAreOwn DEF StartPut, StartRm, StartGet, Start, dsVars
<1>3. Domains /\ CopySafe(c) /\ (\A call \in calls : call.caller # c)
      /\ DOMAIN local[c] = Files /\ DOMAIN bak[c] = Files
  BY <1>2, OwnParts DEF ClientSteady, Waits
<1>4. \A g \in Files : bak[c][g] = Absent
  BY <1>2, <1>3 DEF CopySafe, SettingAside, Removal, RmPhase
<1>5. pc'[c] \in {"beginRm", "beginGet"}
  BY <1>1, <1>3 DEF StartPut, StartRm, StartGet, Goto, Domains
<1>6. CopySafe(c)'
  <2>1. CASE StartPut(c, f)
    <3>1. op'[c].name = "put" /\ File(c)' = f /\ SettingAside(c)'
      BY <1>3, <2>1 DEF StartPut, Start, Goto, Domains, File, SettingAside
    <3>2. CASE local[c][f] = Absent
      <4>1. UNCHANGED <<local, bak>>
        BY <2>1, <3>2, Zenon DEF StartPut
      <4>. QED BY <1>4, <3>1, <3>2, <4>1 DEF CopySafe
    <3>3. CASE local[c][f] # Absent
      <4>1. /\ bak' = [bak EXCEPT ![c][f] = local[c][f]]
            /\ local' = [local EXCEPT ![c][f] = Absent]
        BY <2>1, <3>3, Zenon DEF StartPut
      <4>2. local'[c][f] = Absent /\ \A g \in Files : g # f => bak'[c][g] = bak[c][g]
        BY <1>3, <4>1 DEF Domains
      <4>. QED BY <1>4, <3>1, <4>2 DEF CopySafe
    <3>. QED BY <3>2, <3>3
  <2>2. CASE StartRm(c, f) \/ StartGet(c, f)
    <3>1. op'[c].name # "put" /\ UNCHANGED bak
      BY <1>3, <2>2 DEF StartRm, StartGet, Start, Domains
    <3>. QED BY <1>4, <3>1 DEF CopySafe, SettingAside
  <2>. QED BY <1>1, <2>1, <2>2
<1>7. ClientSteady(c)'
  <2>1. pc'[c] \notin OnWay \cup Downloading
    BY <1>5 DEF OnWay, Removal, RmPhase, PutPhase, Downloading
  <2>. QED BY <1>6, <2>1 DEF OnWay, Withdrawn, Arriving, Reading, ClientSteady
<1>. QED BY <1>2, <1>3, <1>7, SilentIsSteady DEF OnWay, Removal, RmPhase, PutPhase

\* A user's edit.
LEMMA EditIsSteady ==
  ASSUME Sound, OneWriter, NEW c \in Clients, NEW f, NEW content, Edit(c, f, content)
  PROVE  Steady'
<1>1. pc[c] = "idle" /\ UNCHANGED <<nsVars, calls, pc, op, list, at, got, status, bak>>
      /\ local' = [local EXCEPT ![c][f] = content]
  BY DEF Edit, dsVars
<1>2. Own(c)
  BY <1>1 DEF Own
<1>3. Domains /\ CopySafe(c) /\ (\A call \in calls : call.caller # c)
  BY <1>1, OwnParts DEF ClientSteady, Waits
<1>4. CopySafe(c)' /\ pc'[c] \notin OnWay \cup Downloading
  BY <1>1, <1>3 DEF CopySafe, SettingAside, OnWay, Removal, RmPhase, PutPhase, Downloading
<1>5. ClientSteady(c)'
  BY <1>4 DEF OnWay, Withdrawn, Arriving, Reading, ClientSteady
<1>. QED BY <1>1, <1>2, <1>3, <1>5, SilentIsSteady DEF OnWay, Removal, RmPhase, PutPhase

\* The next call of a client for the entry at hand is one that it waits for.
LEMMA AsksAwait ==
  ASSUME NEW c \in Clients, NEW method, NEW data, NEW x,
         x = NewCall(method, c, File(c), Entry(c), data),
         UNCHANGED <<op, list, at>>, pc'[c] = WaitsFor[method]
  PROVE  /\ Awaited(x)' /\ x.caller = c /\ x.method = method /\ x.data = data
         /\ ~x.reported
<1>1. /\ x.caller = c /\ x.method = method /\ x.data = data /\ ~x.reported
      /\ x.file = File(c) /\ x.blockIdx = Entry(c).blockIdx
      /\ x.server = Entry(c).server.address
  BY DEF NewCall
<1>2. File(c)' = File(c) /\ Entry(c)' = Entry(c)
  BY DEF File, Entry
<1>. QED BY <1>1, <1>2 DEF Awaited

\* rm asks for the removal of a block, or gives up.
LEMMA RmBlockIsSteady ==
  ASSUME Sound, OneWriter, NEW c \in Clients, Step(c), RmBlock(c)
  PROVE  Steady'
<1>. PICK x : x = NewCall("rmBlock", c, File(c), Entry(c), <<>>)
  OBVIOUS
<1>1. /\ Domains /\ ClientSteady(c) /\ CallsAwait /\ Own(c)
  BY OwnParts, StepsAreOwn
<1>2. pc[c] = "rmBlock" /\ UNCHANGED <<nsVars, op, list, at, got, status, local, bak>>
  BY DEF RmBlock
<1>3. \/ pc'[c] = "rmWait" /\ calls' = calls \cup {x}
      \/ pc'[c] = "abortRm" /\ calls' = calls
  BY <1>1 DEF RmBlock, rmBlock, Goto, Domains, dsVars
<1>4. \A call \in calls : call.caller # c
  BY <1>2, OwnParts DEF Waits
<1>5. ClientSteady(c)'
  <2>1. pc'[c] \in Removal /\ pc[c] \in Removal
    BY <1>2, <1>3 DEF Removal, RmPhase
  <2>2. Withdrawn(c)'
    BY <1>1, <1>2, <2>1 DEF ClientSteady, Withdrawn, nsVars, File
  <2>3. CopySafe(c)'
    BY <1>1, <1>2, <2>1 DEF ClientSteady, CopySafe, SettingAside, File
  <2>. QED BY <1>3, <2>2, <2>3 DEF ClientSteady, Arriving, Reading, PutPhase, Downloading
<1>6. x.caller = c /\ (pc'[c] = "rmWait" => Awaited(x)' /\ Sent(x)')
  <2>1. WaitsFor["rmBlock"] = "rmWait"
    BY DEF WaitsFor
  <2>2. x.caller = c /\ x.method = "rmBlock"
    BY DEF NewCall
  <2>3. ASSUME pc'[c] = "rmWait" PROVE Awaited(x)'
    BY <1>2, <2>1, <2>3, AsksAwait
  <2>. QED BY <2>2, <2>3 DEF Sent
<1>7. calls' \subseteq {call \in calls : call.caller # c} \cup {x}
  BY <1>3, <1>4
<1>8. /\ \A call \in calls' : call.caller # c => \E old \in calls : Kept(old, call)
      /\ \A a, b \in calls' : a.caller = b.caller => a = b
      /\ \A call \in calls' : call.caller = c => call = x
  BY <1>1, <1>6, <1>7, CallsGoOn
<1>9. \A call \in calls' : call.caller = c => Awaited(call)' /\ Sent(call)'
  BY <1>3, <1>4, <1>6, <1>8
<1>10. pc'[c] \in OnWay /\ File(c)' = File(c)
  BY <1>2, <1>3 DEF OnWay, Removal, RmPhase, File
<1>. QED BY <1>1, <1>2, <1>5, <1>8, <1>9, <1>10, QuietIsSteady

\* A block is gone, or another removal was faster.
LEMMA RmBlockDoneIsSteady ==
  ASSUME Sound, OneWriter, NEW c \in Clients, Step(c), RmBlockDone(c)
  PROVE  Steady'
<1>1. /\ Domains /\ ClientSteady(c) /\ CallsAwait /\ Own(c)
  BY OwnParts, StepsAreOwn
<1>2. PICK call \in calls : /\ call.caller = c /\ RmRemoves(call)
                            /\ \/ Goto(c, "rmBlock") \/ Goto(c, "abortRm")
  BY Zenon DEF RmBlockDone
<1>3. /\ pc[c] = "rmWait" /\ UNCHANGED <<nsVars, op, list, got, status, local, bak>>
      /\ pc'[c] \in {"rmBlock", "abortRm"}
  BY <1>1, <1>2 DEF RmBlockDone, RmRemoves, Goto, Domains
<1>4. \A new \in calls' : \E old \in calls \ {call} : new = old \/ new = Unlink(call, old)
  BY <1>2, Zenon DEF RmRemoves
<1>5. \A old : Kept(old, old) /\ Kept(old, Unlink(call, old))
  BY DEF Unlink, Kept, SameCall
<1>6. \A new \in calls' : \E old \in calls \ {call} : Kept(old, new)
  BY <1>4, <1>5
<1>7. calls' = calls \ {call} \/ calls' = {Unlink(call, other) : other \in calls \ {call}}
  BY <1>2, Zenon DEF RmRemoves
<1>8. ASSUME NEW a \in calls', NEW b \in calls', a.caller = b.caller PROVE a = b
  <2>1. CASE calls' = calls \ {call}
    BY <1>1, <1>8, <2>1 DEF CallsAwait
  <2>2. CASE calls' = {Unlink(call, other) : other \in calls \ {call}}
    <3>1. PICK p \in calls, q \in calls : a = Unlink(call, p) /\ b = Unlink(call, q)
      BY <1>8, <2>2
    <3>2. p.caller = q.caller
      BY <1>5, <1>8, <3>1 DEF Kept, SameCall
    <3>. QED BY <1>1, <3>1, <3>2 DEF CallsAwait
  <2>. QED BY <1>7, <2>1, <2>2
<1>9. \A new \in calls' : new.caller # c
  BY <1>1, <1>2, <1>6 DEF CallsAwait, Kept, SameCall
<1>10. ClientSteady(c)'
  <2>1. pc'[c] \in Removal /\ pc[c] \in Removal
    BY <1>3 DEF Removal, RmPhase
  <2>2. Withdrawn(c)'
    BY <1>1, <1>3, <2>1 DEF ClientSteady, Withdrawn, nsVars, File
  <2>3. CopySafe(c)'
    BY <1>1, <1>3, <2>1 DEF ClientSteady, CopySafe, SettingAside, File
  <2>. QED BY <1>3, <2>2, <2>3 DEF ClientSteady, Arriving, Reading, PutPhase, Downloading
<1>11. pc'[c] \in OnWay /\ File(c)' = File(c)
  BY <1>3 DEF OnWay, Removal, RmPhase, File
<1>. QED BY <1>1, <1>3, <1>6, <1>8, <1>9, <1>10, <1>11, QuietIsSteady

\* What an accepted put that waits knows of its entry.
LEMMA WaitingPut ==
  ASSUME Sound, NEW c \in Clients, pc[c] \in PutPhase, ~AtEnd(c)
  PROVE  /\ at[c] \in 1 .. Len(list[c]) /\ Len(list[c]) \in Nat
         /\ Entry(c) = list[c][at[c]] /\ Entry(c) \in BlockStore
         /\ Cuts(Entry(c), Len(local[c][File(c)])) /\ local[c][File(c)] \in Seq(Units)
         /\ Piece(c, Entry(c)) \in Pieces /\ Piece(c, Entry(c)) # <<>>
         /\ Len(Piece(c, Entry(c))) = Entry(c).blockSize
         /\ list[c] # <<>>
<1>1. ClientInv(c)
  BY OwnParts
<1>2. /\ at[c] \in 1 .. Len(list[c]) /\ Len(list[c]) \in Nat
      /\ Entry(c) = list[c][at[c]] /\ Entry(c) \in BlockStore
      /\ DOMAIN list[c] = 1 .. Len(list[c])
  BY <1>1, EntriesAreStores DEF ClientInv, AtEnd, Entry
<1>3. Entry(c) \in ToSet(list[c])
  BY <1>2 DEF ToSet
<1>4. Cuts(Entry(c), Len(local[c][File(c)])) /\ local[c][File(c)] \in Seq(Units)
  BY <1>1, <1>3 DEF ClientInv, PutPhase
<1>5. list[c] # <<>>
  BY <1>2, EmptySeq
<1>. QED BY <1>2, <1>4, <1>5, PieceIsPiece

\* A step of a put that goes on, with what it leaves of the entry.
LEMMA PutStaysSteady ==
  ASSUME Sound, NEW c \in Clients, pc[c] \in PutPhase, UNCHANGED <<nsVars, op, list, local, bak>>,
         pc'[c] \in PutPhase \cup {"abortPut"},
         \/ at'[c] = at[c]
         \/ /\ at'[c] = at[c] + 1 /\ ~AtEnd(c)
            /\ \E call \in calls : call.caller = c /\ call.method = "putBlock" /\ call.reported
  PROVE  ClientSteady(c)'
<1>. PICK f : f = File(c)
  OBVIOUS
<1>1. /\ Arriving(c) /\ CopySafe(c) /\ ClientInv(c) /\ at[c] \in Nat
  <2>1. Arriving(c) /\ CopySafe(c) /\ ClientInv(c)
    BY OwnParts DEF ClientSteady
  <2>2. at[c] \in Nat
    BY <2>1, LenProperties DEF ClientInv
  <2>. QED BY <2>1, <2>2
<1>2. CopySafe(c)'
  BY <1>1 DEF CopySafe, SettingAside, File, PutPhase, Removal, RmPhase
<1>3. File(c)' = File(c) /\ tempList' = tempList /\ list'[c] = list[c] /\ local'[c] = local[c]
      /\ Sending' = Sending /\ \A e : Piece(c, e)' = Piece(c, e)
  BY DEF File, nsVars, Sending, Piece
<1>4. ASSUME at'[c] = at[c] + 1, ~AtEnd(c), tempList # <<>> \/ list[c] # <<>>,
             NEW call \in calls, call.caller = c, call.method = "putBlock", call.reported
      PROVE  \A k \in 1 .. at'[c] - 1 :
               /\ Sending[k].blockHash = Piece(c, list[c][k])
               /\ Sending[k].blockSize = list[c][k].blockSize
  <2>1. Sent(call) /\ Entry(c) = list[c][at[c]] /\ Len(Piece(c, Entry(c))) = Entry(c).blockSize
        /\ list[c] # <<>>
    BY <1>4, WaitingPut DEF Sound, Steady
  <2>2. /\ Sending[at[c]].blockHash = Piece(c, Entry(c))
        /\ Sending[at[c]].blockSize = Entry(c).blockSize
    BY <1>4, <2>1 DEF Sent
  <2>3. \A k \in 1 .. at[c] - 1 :
               /\ Sending[k].blockHash = Piece(c, list[c][k])
               /\ Sending[k].blockSize = list[c][k].blockSize
    BY <1>1, <2>1 DEF Arriving
  <2>4. \A k \in 1 .. at'[c] - 1 : k = at[c] \/ k \in 1 .. at[c] - 1
    BY <1>1, <1>4
  <2>. QED BY <2>1, <2>2, <2>3, <2>4
<1>5. Arriving(c)'
  <2>1. CASE tempList = <<>> /\ list[c] = <<>>
    BY <1>3, <2>1 DEF Arriving
  <2>2. CASE ~(tempList = <<>> /\ list[c] = <<>>)
    <3>1. \A k \in 1 .. at'[c] - 1 :
            /\ Sending[k].blockHash = Piece(c, list[c][k])
            /\ Sending[k].blockSize = list[c][k].blockSize
      BY <1>1, <1>4, <2>2 DEF Arriving
    <3>. QED BY <1>1, <1>3, <2>2, <3>1 DEF Arriving
  <2>. QED BY <2>1, <2>2
<1>. QED BY <1>2, <1>5 DEF ClientSteady, Withdrawn, Reading, PutPhase, Removal, RmPhase,
                           Downloading

\* put sends a block.
LEMMA PutBlockIsSteady ==
  ASSUME Sound, OneWriter, NEW c \in Clients, Step(c), PutBlock(c)
  PROVE  Steady'
<1>. PICK x : x = NewCall("putBlock", c, File(c), Entry(c), Piece(c, Entry(c)))
  OBVIOUS
<1>1. /\ Domains /\ ClientSteady(c) /\ CallsAwait /\ Own(c)
  BY OwnParts, StepsAreOwn
<1>2. pc[c] = "putBlock" /\ ~AtEnd(c) /\ UNCHANGED <<nsVars, op, list, at, got, status, local, bak>>
  BY DEF PutBlock
<1>3. \/ pc'[c] = "putWait" /\ calls' = calls \cup {x}
      \/ pc'[c] = "abortPut" /\ calls' = calls
  BY <1>1 DEF PutBlock, putBlock, Goto, Domains, dsVars
<1>4. \A call \in calls : call.caller # c
  BY <1>2, OwnParts DEF Waits
<1>5. ClientSteady(c)'
  BY <1>2, <1>3, PutStaysSteady DEF PutPhase
<1>6. x.caller = c /\ (pc'[c] = "putWait" => Awaited(x)' /\ Sent(x)')
  <2>1. WaitsFor["putBlock"] = "putWait"
    BY DEF WaitsFor
  <2>2. x.caller = c /\ x.method = "putBlock" /\ x.data = Piece(c, Entry(c)) /\ ~x.reported
    BY DEF NewCall
  <2>3. ASSUME pc'[c] = "putWait" PROVE Awaited(x)'
    BY <1>2, <2>1, <2>3, AsksAwait
  <2>4. Piece(c, Entry(c))' = Piece(c, Entry(c))
    BY <1>2 DEF Piece, Entry, File
  <2>. QED BY <2>2, <2>3, <2>4 DEF Sent
<1>7. calls' \subseteq {call \in calls : call.caller # c} \cup {x}
  BY <1>3, <1>4
<1>8. /\ \A call \in calls' : call.caller # c => \E old \in calls : Kept(old, call)
      /\ \A a, b \in calls' : a.caller = b.caller => a = b
      /\ \A call \in calls' : call.caller = c => call = x
  BY <1>1, <1>6, <1>7, CallsGoOn
<1>9. \A call \in calls' : call.caller = c => Awaited(call)' /\ Sent(call)'
  BY <1>3, <1>4, <1>6, <1>8
<1>10. pc'[c] \in OnWay /\ File(c)' = File(c)
  BY <1>2, <1>3 DEF OnWay, PutPhase, File
<1>. QED BY <1>1, <1>2, <1>5, <1>8, <1>9, <1>10, QuietIsSteady

\* A call that ends.
LEMMA CallEnds ==
  ASSUME CallsAwait, NEW c, calls' \subseteq {call \in calls : call.caller # c}
  PROVE  /\ \A call \in calls' : call.caller # c => \E old \in calls : Kept(old, call)
         /\ \A a, b \in calls' : a.caller = b.caller => a = b
         /\ \A call \in calls' : call.caller # c
BY DEF CallsAwait, Kept, SameCall

\* A block is stored.
LEMMA PutBlockDoneIsSteady ==
  ASSUME Sound, OneWriter, NEW c \in Clients, Step(c), PutBlockDone(c)
  PROVE  Steady'
<1>1. /\ Domains /\ ClientInv(c) /\ CallsAwait /\ Own(c)
  BY OwnParts, StepsAreOwn
<1>2. PICK call \in calls : call.caller = c /\ PutCloses(call)
  BY Zenon DEF PutBlockDone
<1>3. /\ pc[c] = "putWait" /\ pc'[c] = "putBlock" /\ at'[c] = at[c] + 1
      /\ UNCHANGED <<nsVars, op, list, got, status, local, bak>>
      /\ call.method = "putBlock" /\ call.reported /\ calls' = calls \ {call}
  BY <1>1, <1>2 DEF PutBlockDone, PutCloses, Goto, Advance, Domains
<1>4. ~AtEnd(c)
  BY <1>1, <1>3 DEF ClientInv
<1>5. ClientSteady(c)'
  BY <1>2, <1>3, <1>4, PutStaysSteady DEF PutPhase
<1>6. calls' \subseteq {other \in calls : other.caller # c}
  BY <1>1, <1>2, <1>3 DEF CallsAwait
<1>7. pc'[c] \in OnWay /\ File(c)' = File(c)
  BY <1>3 DEF OnWay, PutPhase, File
<1>8. /\ \A new \in calls' : new.caller # c => \E old \in calls : Kept(old, new)
      /\ \A a, b \in calls' : a.caller = b.caller => a = b
      /\ \A new \in calls' : new.caller # c
  BY <1>1, <1>6, CallEnds
<1>. QED BY <1>1, <1>3, <1>5, <1>7, <1>8, QuietIsSteady

\* A data server died with the call.
LEMMA CallFailsIsSteady ==
  ASSUME Sound, OneWriter, NEW c \in Clients, Step(c), CallFails(c)
  PROVE  Steady'
<1>1. /\ Domains /\ ClientInv(c) /\ ClientSteady(c) /\ Own(c)
  BY OwnParts, StepsAreOwn
<1>2. /\ \A call \in calls : call.caller # c
      /\ UNCHANGED <<nsVars, calls, op, list, got, local, bak>>
  BY DEF CallFails, dsVars
<1>3. \/ pc[c] = "putWait" /\ pc'[c] = "abortPut" /\ at' = at
      \/ pc[c] = "rmWait" /\ pc'[c] = "abortRm" /\ at' = at
      \/ pc[c] = "getWait" /\ pc'[c] = "getBlock" /\ at'[c] = at[c] + 1
  BY <1>1 DEF CallFails, Goto, Advance, Domains, ClientInv
<1>4. pc[c] \in OnWay => pc'[c] \in OnWay /\ File(c)' = File(c)
  BY <1>2, <1>3 DEF OnWay, Removal, RmPhase, PutPhase, File
<1>5. ClientSteady(c)'
  <2>1. CASE pc[c] = "putWait" /\ pc'[c] = "abortPut" /\ at' = at
    BY <1>2, <2>1, PutStaysSteady DEF PutPhase
  <2>2. CASE pc[c] = "rmWait" /\ pc'[c] = "abortRm" /\ at' = at
    BY <1>1, <1>2, <2>2
       DEF ClientSteady, Withdrawn, Arriving, CopySafe, Reading, SettingAside, File, nsVars,
           Removal, RmPhase, PutPhase, Downloading
  <2>3. CASE pc[c] = "getWait" /\ pc'[c] = "getBlock" /\ at'[c] = at[c] + 1
    <3>1. PICK n \in Nat : /\ Downloaded(c) = 0 .. n - 1
                           /\ \A k \in 1 .. at[c] - 1 : list[c][k].blockIdx <= n
                           /\ Entry(c).blockIdx = n /\ Whole(list[c])
      BY <1>1, <2>3 DEF ClientSteady, Reading, Downloading
    <3>2. at[c] \in Nat
      BY <1>1, LenProperties DEF ClientInv
    <3>3. \A k \in 1 .. at'[c] - 1 : list[c][k].blockIdx <= n
      <4>1. \A k \in 1 .. at'[c] - 1 : k = at[c] \/ k \in 1 .. at[c] - 1
        BY <2>3, <3>2
      <4>. QED BY <3>1, <4>1 DEF Entry
    <3>4. Downloaded(c)' = Downloaded(c)
      BY <1>2 DEF Downloaded
    <3>5. Reading(c)'
      BY <1>2, <2>3, <3>1, <3>3, <3>4 DEF Reading
    <3>. QED BY <1>1, <1>2, <2>3, <3>5
             DEF ClientSteady, Withdrawn, Arriving, CopySafe, SettingAside, File, nsVars,
                 Removal, RmPhase, PutPhase
  <2>. QED BY <1>3, <2>1, <2>2, <2>3
<1>. QED BY <1>1, <1>2, <1>4, <1>5, SilentIsSteady

-----------------------------------------------------------------------------
(***************************************************************************)
(* Puts, on the side of the data servers, and gets.                        *)
(***************************************************************************)
\* A step of a data server inside a call, taken for one of the caller.
LEMMA ServesOwn ==
  ASSUME NEW c, UNCHANGED clVars
  PROVE  /\ Own(c) /\ UNCHANGED <<pc, op, list, at, got, local, bak>>
         /\ \A d : File(d)' = File(d) /\ Entry(d)' = Entry(d)
         /\ \A d, e : Piece(d, e)' = Piece(d, e)
BY DEF clVars, Own, File, Entry, Piece

\* A unit is written.
LEMMA PutWritesIsSteady ==
  ASSUME Sound, OneWriter, NEW call \in calls, PutWrites(call), UNCHANGED clVars
  PROVE  Steady'
<1>. PICK c, x : c = call.caller /\ x = [call EXCEPT !.left = Tail(@)]
  OBVIOUS
<1>1. /\ call.method = "putBlock" /\ ~call.reported /\ UNCHANGED nsVars
      /\ calls' = (calls \ {call}) \cup {x}
  BY DEF PutWrites, Replace
<1>2. c \in Clients /\ pc[c] = "putWait" /\ Awaited(call) /\ Sent(call)
  BY <1>1, CallersWait DEF Sound, Steady, CallsAwait
<1>3. CallsAwait /\ ClientSteady(c)
  BY <1>2, OwnParts
<1>4. /\ Own(c) /\ UNCHANGED <<pc, op, list, at, got, local, bak>>
      /\ File(c)' = File(c) /\ Entry(c)' = Entry(c) /\ Piece(c, Entry(c))' = Piece(c, Entry(c))
  BY ServesOwn
<1>5. x.caller = c /\ Kept(call, x)
  BY DEF Kept, SameCall
<1>6. calls' \subseteq {other \in calls : other.caller # c} \cup {x}
  BY <1>1, <1>3 DEF CallsAwait
<1>7. /\ \A new \in calls' : new.caller # c => \E old \in calls : Kept(old, new)
      /\ \A a, b \in calls' : a.caller = b.caller => a = b
      /\ \A new \in calls' : new.caller = c => new = x
  BY <1>3, <1>5, <1>6, CallsGoOn
<1>8. Awaited(x)' /\ Sent(x)'
  BY <1>1, <1>2, <1>4, <1>5 DEF Awaited, Sent, Kept, SameCall
<1>9. ClientSteady(c)'
  BY <1>2, <1>1, <1>4, PutStaysSteady DEF PutPhase
<1>. QED BY <1>1, <1>2, <1>4, <1>7, <1>8, <1>9, QuietIsSteady

\* A block is reported: the entry of the put takes what was sent.
LEMMA PutReportsIsSteady ==
  ASSUME Sound, OneWriter, NEW call \in calls, PutReports(call), UNCHANGED clVars
  PROVE  Steady'
<1>. PICK c, x : c = call.caller /\ x = [call EXCEPT !.reported = TRUE]
  OBVIOUS
<1>. PICK f, i, hash : f = call.file /\ i = call.blockIdx /\ hash = call.data
  OBVIOUS
<1>1. /\ call.method = "putBlock" /\ ~call.reported
      /\ calls' = (calls \ {call}) \cup {x}
      /\ NameService(updateBlockInfo(f, i, Len(hash), hash))
  BY DEF PutReports, Replace
<1>2. c \in Clients /\ pc[c] = "putWait" /\ Awaited(call) /\ Sent(call)
  BY <1>1, CallersWait DEF Sound, Steady, CallsAwait
<1>3. CallsAwait /\ ClientSteady(c) /\ ClientInv(c) /\ KnownOnce /\ ListsInv /\ NameServerRuns
  BY <1>2, OwnParts
<1>4. /\ Own(c) /\ UNCHANGED <<pc, op, list, at, got, local, bak>>
      /\ File(c)' = File(c) /\ Entry(c)' = Entry(c) /\ \A e : Piece(c, e)' = Piece(c, e)
  BY ServesOwn
<1>5. /\ f = File(c) /\ i = Entry(c).blockIdx /\ hash = Piece(c, Entry(c))
      /\ ~AtEnd(c) /\ pc[c] \in PutPhase
  BY <1>1, <1>2, <1>3 DEF Awaited, Sent, PutPhase, ClientInv
<1>6. /\ at[c] \in 1 .. Len(list[c]) /\ Len(list[c]) \in Nat /\ Entry(c) = list[c][at[c]]
      /\ list[c] # <<>> /\ hash \in Pieces /\ hash # <<>> /\ Len(hash) = Entry(c).blockSize
      /\ i \in Nat /\ Len(hash) \in Nat /\ hash \in BlockHashes
  <2>1. hash \in BlockHashes /\ Len(hash) \in 1 .. maxBlockSize
    BY <1>2, <1>5, WaitingPut, PiecesHaveDigests, DFSAssumption
  <2>2. Entry(c) \in BlockStore
    BY <1>2, <1>5, WaitingPut
  <2>. QED BY <1>2, <1>5, <2>1, <2>2, WaitingPut DEF BlockStore
<1>7. /\ Len(tempList) = 1 /\ tempList[1].fileName = f
      /\ Len(Sending) = Len(list[c])
      /\ \A k \in 1 .. Len(list[c]) : Sending[k].blockIdx = list[c][k].blockIdx
      /\ Covers(list[c], Len(local[c][f]))
      /\ \A k \in 1 .. at[c] - 1 :
            /\ Sending[k].blockHash = Piece(c, list[c][k])
            /\ Sending[k].blockSize = list[c][k].blockSize
  BY <1>3, <1>5, <1>6 DEF ClientSteady, Arriving
<1>. PICK r : r = Report(Sending, i, Len(hash), hash)
  OBVIOUS
<1>8. tempList[1] \in GoodEntry /\ Sending \in Seq(BlockStore) /\ WellFormed(Sending)
  BY <1>3, <1>7, SendingIsList DEF ListsInv
<1>. PICK l, n : l = Sending /\ n = Len(hash)
  OBVIOUS
<1>9. /\ FindBlock(Sending, i) # 0 /\ r \in Seq(BlockStore) /\ Len(r) = Len(Sending)
      /\ \A k \in 1 .. Len(Sending) :
           /\ r[k].blockIdx = Sending[k].blockIdx
           /\ Sending[k].blockIdx = i => r[k].blockSize = Len(hash) /\ r[k].blockHash = hash
           /\ Sending[k].blockIdx # i => r[k] = Sending[k]
  <2>1. at[c] \in 1 .. Len(l) /\ l[at[c]].blockIdx = i
    BY <1>5, <1>6, <1>7
  <2>2. /\ l \in Seq(BlockStore) /\ WellFormed(l) /\ i \in Nat /\ n \in Nat
        /\ hash \in BlockHashes /\ r = Report(l, i, n, hash)
    BY <1>6, <1>8
  <2>3. /\ FindBlock(l, i) # 0 /\ r \in Seq(BlockStore) /\ Len(r) = Len(l)
        /\ \A k \in 1 .. Len(l) :
           /\ r[k].blockIdx = l[k].blockIdx
           /\ l[k].blockIdx = i => r[k].blockSize = n /\ r[k].blockHash = hash
           /\ l[k].blockIdx # i => r[k] = l[k]
    BY <2>1, <2>2, ReportReaches
  <2>. QED BY <2>3
<1>10. Find(tempList, f) = 1
  <2>1. \A k \in 1 .. Len(tempList) : k = 1
    BY <1>7
  <2>2. Find(tempList, f) # 0
    BY <1>3, <1>7, FindInList DEF ListsInv
  <2>. QED BY <1>3, <2>1, <2>2, FindInList DEF ListsInv
<1>11. tempList' = [tempList EXCEPT ![1].storeList = r] /\ UNCHANGED <<up, serverList, fileList>>
  <2>1. updateBlockInfo(f, i, Len(hash), hash)
    BY <1>1, <1>3, Zenon DEF NameService, NameServerRuns
  <2>2. KnowsBlock(f, i)
    BY <1>9, <1>10 DEF KnowsBlock, Pending, Sending
  <2>. QED BY <1>10, <2>1, <2>2, Zenon DEF updateBlockInfo, Sending
<1>12. Len(tempList') = 1 /\ tempList'[1].fileName = f /\ Sending' = r
       /\ NamesOf(tempList') = NamesOf(tempList)
  <2>. PICK e : e = [tempList[1] EXCEPT !.storeList = r]
    OBVIOUS
  <2>1. e.fileName = f /\ e.storeList = r
    BY <1>7, <1>8 DEF GoodEntry, FileMetaData
  <2>2. tempList \in Seq(GoodEntry \cup {e}) /\ e \in GoodEntry \cup {e} /\ 1 \in 1 .. Len(tempList)
    BY <1>3, <1>7, SeqMonotonic DEF ListsInv
  <2>3. tempList' = [tempList EXCEPT ![1] = e]
    BY <1>11
  <2>4. Len(tempList') = 1 /\ tempList'[1] = e
    BY <1>7, <2>2, <2>3, ExceptSeq
  <2>5. NamesOf(tempList') = NamesOf(tempList)
    <3>1. NameList(tempList)
      BY <1>3 DEF KnownOnce
    <3>2. NamesOf([tempList EXCEPT ![1].storeList = r]) = NamesOf(tempList)
      BY ONLY <2>2, <3>1, NameKept
    <3>. QED BY <1>11, <3>2
  <2>. QED BY <2>1, <2>4, <2>5 DEF Sending
<1>13. \A k \in 1 .. at[c] - 1 :
            /\ r[k].blockHash = Piece(c, list[c][k])
            /\ r[k].blockSize = list[c][k].blockSize
  <2>. SUFFICES ASSUME NEW k \in 1 .. at[c] - 1
                PROVE  /\ r[k].blockHash = Piece(c, list[c][k])
                       /\ r[k].blockSize = list[c][k].blockSize
    OBVIOUS
  <2>1. k \in 1 .. Len(list[c]) /\ at[c] \in 1 .. Len(list[c])
    BY <1>6
  <2>2. CASE Sending[k].blockIdx # i
    BY <1>7, <1>9, <2>1, <2>2
  <2>3. CASE Sending[k].blockIdx = i
    <3>1. list[c][k].blockIdx = Entry(c).blockIdx
      BY <1>5, <1>7, <2>1, <2>3
    <3>2. list[c][k].blockSize = Entry(c).blockSize
      <4>1. ClientInv(c) /\ DOMAIN list[c] = 1 .. Len(list[c])
        BY <1>2, <1>3, EntriesAreStores
      <4>2. list[c][k] \in ToSet(list[c]) /\ Entry(c) \in ToSet(list[c])
        BY <1>6, <2>1, <4>1 DEF ToSet
      <4>. QED BY <1>5, <3>1, <4>1, <4>2 DEF ClientInv, Cuts, PutPhase
    <3>3. Piece(c, list[c][k]) = hash
      BY <1>5, <3>1, <3>2 DEF Piece
    <3>. QED BY <1>6, <1>7, <1>9, <2>1, <2>3, <3>2, <3>3
  <2>. QED BY <2>2, <2>3
<1>14. /\ r[at[c]].blockHash = hash /\ r[at[c]].blockSize = Len(hash)
       /\ \A k \in 1 .. Len(list[c]) : r[k].blockIdx = list[c][k].blockIdx
  <2>1. at[c] \in 1 .. Len(Sending) /\ Sending[at[c]].blockIdx = i
    BY <1>5, <1>6, <1>7
  <2>2. r[at[c]].blockHash = hash /\ r[at[c]].blockSize = Len(hash)
    BY <1>9, <2>1
  <2>. QED BY <1>7, <1>9, <2>2
<1>15. ClientSteady(c)'
  <2>1. local'[c][File(c)'] = local[c][f]
    BY <1>4, <1>5
  <2>2. Arriving(c)'
    <3>1. /\ File(c)' = f /\ list'[c] = list[c] /\ at'[c] = at[c] /\ Len(r) = Len(list[c])
          /\ \A e : Piece(c, e)' = Piece(c, e)
      BY <1>4, <1>5, <1>7, <1>9
    <3>2. \A k \in 1 .. at[c] - 1 :
            /\ r[k].blockHash = Piece(c, list[c][k])'
            /\ r[k].blockSize = list[c][k].blockSize
      BY <1>13, <3>1
    <3>. QED BY <1>7, <1>12, <1>14, <2>1, <3>1, <3>2 DEF Arriving
  <2>3. CopySafe(c)'
    BY <1>3, <1>4 DEF ClientSteady, CopySafe, SettingAside
  <2>. QED BY <1>2, <1>4, <2>2, <2>3
           DEF ClientSteady, Withdrawn, Reading, Removal, RmPhase, Downloading
<1>16. /\ \A new \in calls' : new.caller # c => \E old \in calls : Kept(old, new)
       /\ \A a, b \in calls' : a.caller = b.caller => a = b
       /\ \A new \in calls' : new.caller = c => new = x
  <2>1. x.caller = c
    OBVIOUS
  <2>2. calls' \subseteq {other \in calls : other.caller # c} \cup {x}
    BY <1>1, <1>3 DEF CallsAwait
  <2>. QED BY <1>3, <2>1, <2>2, CallsGoOn
<1>17. Awaited(x)' /\ Sent(x)'
  <2>1. x.caller = c /\ SameCall(call, x) /\ x.data = hash
    BY DEF SameCall
  <2>2. Awaited(x)'
    BY <1>2, <1>4, <2>1 DEF Awaited, SameCall
  <2>3. Piece(c, Entry(c))' = Piece(c, Entry(c))
    BY <1>4
  <2>. QED BY <1>4, <1>5, <1>12, <1>14, <2>1, <2>2, <2>3 DEF Sent
<1>18. NameServerRuns' /\ ListedWhole' /\ EachOwned'
  BY <1>4, <1>11, <1>12 DEF Sound, Steady, NameServerRuns, ListedWhole, EachOwned, File
<1>19. pc[c] \in Writing
  BY <1>2 DEF Writing
<1>. QED BY <1>2, <1>4, <1>15, <1>16, <1>17, <1>18, <1>19, StepIsSteady

\* The steps of the data servers inside the calls.
LEMMA ServeIsSteady ==
  ASSUME Sound, OneWriter, NEW call \in calls, Serve(call)
  PROVE  Steady'
<1>1. call.caller # Orphan
  BY CallersWait, DFSAssumption DEF DFSAssumption
<1>2. (PutWrites(call) \/ PutReports(call)) /\ UNCHANGED clVars
  BY <1>1, Zenon DEF Serve
<1>. QED BY <1>2, PutWritesIsSteady, PutReportsIsSteady

\* What a client that gets leaves alone.
LEMMA GetLeaves ==
  ASSUME Sound, NEW c \in Clients, pc[c] \in Downloading \cup {"beginGet"},
         pc'[c] \in Downloading \cup {"idle"}, UNCHANGED <<op, bak>>, Reading(c)'
  PROVE  ClientSteady(c)' /\ pc[c] \notin OnWay
<1>1. CopySafe(c)
  BY OwnParts DEF ClientSteady
<1>2. \A g \in Files : bak[c][g] = Absent
  BY <1>1 DEF CopySafe, SettingAside, Removal, RmPhase, Downloading
<1>3. CopySafe(c)'
  BY <1>2 DEF CopySafe, SettingAside, Removal, RmPhase, Downloading
<1>. QED BY <1>3 DEF ClientSteady, Withdrawn, Arriving, Removal, RmPhase, PutPhase, OnWay,
                     Downloading

\* A list of no entries stands for the empty file.
LEMMA EmptyContent == ContentOf(<<>>) = <<>> /\ <<>> \in Seq(Units) /\ Len(<<>>) = 0
<1>1. <<>> \in Seq(Units) /\ <<>> \in Seq(BlockStore) /\ Len(<<>>) = 0
  BY EmptySeq
<1>2. \A i \in Nat : ~(i * maxBlockSize < 0)
  <2>1. \A i, m \in Nat : ~(i * m < 0)
    OBVIOUS
  <2>. QED BY <2>1, PlacementAssumption
<1>3. Contiguous(<<>>)
  BY <1>1 DEF Contiguous
<1>. PICK s : s = <<>>
  OBVIOUS
<1>4. /\ s \in Seq(Units) /\ s \in Seq(BlockStore) /\ Contiguous(s)
      /\ \A k \in 1 .. Len(s) : FALSE
      /\ \A i \in Nat : ~(i * maxBlockSize < Len(s))
  BY <1>1, <1>2, <1>3
<1>5. ContentOf(s) = s
  BY ONLY <1>4, PiecesMakeFile
<1>. QED BY <1>1, <1>5

\* The list of a get is one the name server answered.
LEMMA RepliesWhole ==
  ASSUME Sound, NEW f
  PROVE  Whole(beginGetReply(f))
<1>1. CASE Listed(f)
  <2>1. fileList[Find(fileList, f)] \in ToSet(fileList)
    BY <1>1, Unlisted DEF Sound, DInv, IInv
  <2>. QED BY <1>1, <2>1 DEF Sound, Steady, ListedWhole, beginGetReply
<1>2. CASE ~Listed(f)
  <2>1. ContentOf(<<>>) = <<>> /\ <<>> \in Seq(Units) /\ Len(<<>>) = 0
    BY EmptyContent
  <2>2. \A i \in Nat : ~(i * maxBlockSize < 0)
    <3>1. \A i, m \in Nat : ~(i * m < 0)
      OBVIOUS
    <3>. QED BY <3>1, PlacementAssumption
  <2>. PICK s : s = <<>>
    OBVIOUS
  <2>3. /\ ContentOf(s) = s /\ s \in Seq(Units) /\ Len(s) = 0
        /\ \A k \in 1 .. Len(s) : FALSE
    BY <2>1
  <2>4. Whole(s)
    BY <2>2, <2>3 DEF Whole, StandsFor, Covers
  <2>. QED BY <1>2, <2>4 DEF beginGetReply
<1>. QED BY <1>1, <1>2

\* A get begins with the storeList it was answered.
LEMMA BeginGetIsSteady ==
  ASSUME Sound, OneWriter, NEW c \in Clients, Step(c), BeginGet(c)
  PROVE  Steady'
<1>. PICK stores : stores = beginGetReply(File(c))
  OBVIOUS
<1>1. Domains /\ Own(c)
  BY OwnParts, StepsAreOwn
<1>2. /\ pc[c] = "beginGet" /\ UNCHANGED <<nsVars, calls, op, local, bak>>
      /\ \/ \E result : Return(c, result)
         \/ Walk(c, stores) /\ Goto(c, "getBlock") /\ got' = [got EXCEPT ![c] = <<>>]
  BY Zenon DEF BeginGet, GetGoesOn, Die, dsVars
<1>3. CASE \E result : Return(c, result)
  <2>1. pc'[c] = "idle"
    BY <1>1, <1>3 DEF Return, Goto, Domains
  <2>2. Reading(c)'
    BY <2>1 DEF Reading, Downloading
  <2>. QED BY <1>1, <1>2, <2>1, <2>2, GetLeaves, SilentIsSteady, OwnParts DEF Waits
<1>4. CASE Walk(c, stores) /\ Goto(c, "getBlock") /\ got' = [got EXCEPT ![c] = <<>>]
  <2>1. pc'[c] = "getBlock" /\ list'[c] = stores /\ at'[c] = 1 /\ got'[c] = <<>>
    BY <1>1, <1>4 DEF Walk, Goto, Domains
  <2>2. Whole(stores)
    BY RepliesWhole
  <2>3. Downloaded(c)' = 0 .. 0 - 1
    BY <2>1 DEF Downloaded
  <2>4. Reading(c)'
    <3>1. 0 \in Nat /\ \A k \in 1 .. at'[c] - 1 : FALSE
      BY <2>1
    <3>. QED BY <2>1, <2>2, <2>3, <3>1 DEF Reading
  <2>5. pc'[c] \in Downloading
    BY <2>1 DEF Downloading
  <2>. QED BY <1>1, <1>2, <2>4, <2>5, GetLeaves, SilentIsSteady, OwnParts DEF Waits
<1>. QED BY <1>2, <1>3, <1>4

\* Where a get is.
LEMMA GetIsAt ==
  ASSUME Sound, NEW c \in Clients, pc[c] \in Downloading
  PROVE  \E n \in Nat :
           /\ Downloaded(c) = 0 .. n - 1 /\ Cardinality(Downloaded(c)) = n
           /\ \A k \in 1 .. at[c] - 1 : list[c][k].blockIdx <= n
           /\ pc[c] = "getWait" => Entry(c).blockIdx = n
           /\ Whole(list[c]) /\ at[c] \in Nat
<1>1. Reading(c) /\ at[c] \in Nat
  <2>1. Reading(c) /\ ClientInv(c)
    BY OwnParts DEF ClientSteady
  <2>. QED BY <2>1, LenProperties DEF ClientInv
<1>2. PICK n \in Nat :
           /\ Downloaded(c) = 0 .. n - 1
           /\ \A k \in 1 .. at[c] - 1 : list[c][k].blockIdx <= n
           /\ pc[c] = "getWait" => Entry(c).blockIdx = n
           /\ Whole(list[c])
  BY <1>1 DEF Reading
<1>3. Cardinality(Downloaded(c)) = n
  <2>1. n \in Nat /\ 0 \in Int /\ n - 1 \in Int
    BY <1>2
  <2>2. Cardinality(0 .. n - 1) = IF 0 > n - 1 THEN 0 ELSE n - 1 - 0 + 1
    BY ONLY <2>1, FS_Interval
  <2>. QED BY ONLY <1>2, <2>1, <2>2
<1>. QED BY <1>1, <1>2, <1>3

\* A step of a get that stays where it is or goes on to the next entry.
LEMMA ReadingGoesOn ==
  ASSUME Sound, NEW c \in Clients, pc[c] \in Downloading, pc'[c] \in Downloading, list' = list,
         NEW n \in Nat, NEW m \in n .. n + 1, Downloaded(c) = 0 .. n - 1, Downloaded(c)' = 0 .. m - 1,
         \A k \in 1 .. at[c] - 1 : list[c][k].blockIdx <= n,
         \/ at'[c] = at[c]
         \/ at'[c] = at[c] + 1 /\ ~AtEnd(c) /\ Entry(c).blockIdx <= n,
         pc'[c] = "getWait" => Entry(c)' = Entry(c) /\ Entry(c).blockIdx = m
  PROVE  Reading(c)'
<1>1. Whole(list[c]) /\ at[c] \in Nat /\ ClientInv(c)
  BY GetIsAt, OwnParts
<1>2. \A k \in 1 .. Len(list[c]) : list[c][k].blockIdx \in Nat
  BY <1>1, EntriesAreStores
<1>3. at[c] \in 1 .. Len(list[c]) + 1 /\ Len(list[c]) \in Nat
  BY <1>1, EntriesAreStores DEF ClientInv
<1>4. \A k \in 1 .. at'[c] - 1 : list[c][k].blockIdx <= m
  <2>. SUFFICES ASSUME NEW k \in 1 .. at'[c] - 1 PROVE list[c][k].blockIdx <= m
    OBVIOUS
  <2>1. (k = at[c] /\ at'[c] = at[c] + 1) \/ k \in 1 .. at[c] - 1
    BY <1>1
  <2>2. list[c][k].blockIdx <= n
    BY <2>1 DEF Entry
  <2>3. k \in 1 .. Len(list[c])
    BY <1>3, <2>1 DEF AtEnd
  <2>. QED BY <1>2, <2>2, <2>3
<1>5. Downloaded(c)' = 0 .. m - 1 /\ m \in Nat /\ list'[c] = list[c]
      /\ (pc'[c] = "getWait" => Entry(c)'.blockIdx = m)
  OBVIOUS
<1>. QED BY <1>1, <1>4, <1>5 DEF Reading

\* A get asks for a block, passes an entry over, or gives up.
LEMMA GetBlockIsSteady ==
  ASSUME Sound, OneWriter, NEW c \in Clients, Step(c), GetBlock(c)
  PROVE  Steady'
<1>. PICK e, x : e = Entry(c) /\ x = NewCall("getBlock", c, File(c), Entry(c), <<>>)
  OBVIOUS
<1>1. Domains /\ Own(c) /\ ClientInv(c) /\ CallsAwait
  BY OwnParts, StepsAreOwn
<1>2. pc[c] = "getBlock" /\ ~AtEnd(c) /\ UNCHANGED <<nsVars, op, local, bak>>
  BY DEF GetBlock
<1>3. pc[c] \in Downloading /\ \A call \in calls : call.caller # c
  BY <1>2, OwnParts DEF Downloading, Waits
<1>4. PICK n \in Nat :
        /\ Downloaded(c) = 0 .. n - 1 /\ Cardinality(Downloaded(c)) = n
        /\ \A k \in 1 .. at[c] - 1 : list[c][k].blockIdx <= n
  BY <1>3, GetIsAt
<1>5. e.blockIdx \in Nat
  <2>1. /\ Len(list[c]) \in Nat
        /\ \A k \in 1 .. Len(list[c]) : list[c][k].blockIdx \in Nat
    BY <1>1, EntriesAreStores
  <2>2. at[c] \in 1 .. Len(list[c])
    BY <1>1, <1>2, <2>1 DEF ClientInv, AtEnd
  <2>. QED BY <2>1, <2>2 DEF Entry
<1>6. \/ Return(c, "CANCELLED") /\ UNCHANGED calls
      \/ e.blockIdx < n /\ Advance(c) /\ UNCHANGED <<calls, pc, list, got>>
      \/ /\ e.blockIdx = n /\ Receive(c, e, FALSE, <<>>) /\ Advance(c)
         /\ UNCHANGED <<calls, pc, list>>
      \/ /\ e.blockIdx = n /\ Receive(c, e, FALSE, <<>>) /\ Goto(c, "getWait")
         /\ calls' = calls \cup {x} /\ UNCHANGED <<list, at>>
  BY <1>4, Zenon DEF GetBlock, getBlock, dsVars
<1>7. Receive(c, e, FALSE, <<>>) /\ e.blockIdx = n => Downloaded(c)' = 0 .. n - 1
  <2>. SUFFICES ASSUME Receive(c, e, FALSE, <<>>), e.blockIdx = n
                PROVE  Downloaded(c)' = 0 .. n - 1
    OBVIOUS
  <2>1. Downloaded(c)' = Downloaded(c) \ {n}
    BY <1>1, ReceivedIs, FALSE \in BOOLEAN
  <2>. QED BY <1>4, <2>1
<1>8. Advance(c) => at'[c] = at[c] + 1
  BY <1>1 DEF Advance, Domains
<1>9. CASE Return(c, "CANCELLED") /\ UNCHANGED calls
  <2>1. pc'[c] = "idle"
    BY <1>1, <1>9 DEF Return, Goto, Domains
  <2>2. Reading(c)'
    BY <2>1 DEF Reading, Downloading
  <2>. QED BY <1>1, <1>2, <1>3, <1>9, <2>1, <2>2, GetLeaves, SilentIsSteady
<1>10. CASE /\ Advance(c) /\ UNCHANGED <<calls, pc, list>> /\ e.blockIdx <= n
            /\ Downloaded(c)' = 0 .. n - 1
  <2>1. pc'[c] \in Downloading /\ pc'[c] # "getWait"
    BY <1>2, <1>10 DEF Downloading
  <2>2. Reading(c)'
    BY <1>2, <1>3, <1>4, <1>8, <1>10, <2>1, n \in n .. n + 1, ReadingGoesOn
  <2>. QED BY <1>1, <1>2, <1>3, <1>10, <2>1, <2>2, GetLeaves, SilentIsSteady
<1>11. CASE /\ e.blockIdx = n /\ Receive(c, e, FALSE, <<>>) /\ Goto(c, "getWait")
            /\ calls' = calls \cup {x} /\ UNCHANGED <<list, at>>
  <2>1. pc'[c] = "getWait" /\ Entry(c)' = e /\ pc'[c] \in Downloading
    BY <1>1, <1>11 DEF Goto, Domains, Entry, Downloading
  <2>2. Reading(c)'
    BY <1>2, <1>3, <1>4, <1>7, <1>11, <2>1, n \in n .. n + 1, ReadingGoesOn
  <2>3. x.caller = c /\ Awaited(x)' /\ Sent(x)'
    <3>1. WaitsFor["getBlock"] = "getWait"
      BY DEF WaitsFor
    <3>2. x.caller = c /\ x.method = "getBlock" /\ Awaited(x)'
      BY <1>2, <1>11, <2>1, <3>1, AsksAwait
    <3>. QED BY <3>2 DEF Sent
  <2>4. calls' \subseteq {call \in calls : call.caller # c} \cup {x}
    BY <1>3, <1>11
  <2>5. /\ \A call \in calls' : call.caller # c => \E old \in calls : Kept(old, call)
        /\ \A a, b \in calls' : a.caller = b.caller => a = b
        /\ \A call \in calls' : call.caller = c => call = x
    BY <1>1, <2>3, <2>4, CallsGoOn
  <2>6. ClientSteady(c)' /\ pc[c] \notin OnWay
    BY <1>2, <1>3, <2>1, <2>2, GetLeaves
  <2>. QED BY <1>1, <1>2, <2>3, <2>5, <2>6, QuietIsSteady
<1>12. e.blockIdx < n /\ UNCHANGED got => e.blockIdx <= n /\ Downloaded(c)' = 0 .. n - 1
  BY <1>4, <1>5 DEF Downloaded
<1>13. e.blockIdx = n => e.blockIdx <= n
  BY <1>5
<1>. QED BY <1>6, <1>7, <1>9, <1>10, <1>11, <1>12, <1>13

\* The next unit.
LEMMA GetUnitIsSteady ==
  ASSUME Sound, OneWriter, NEW c \in Clients, Step(c), GetUnit(c)
  PROVE  Steady'
<1>. PICK e : e = Entry(c)
  OBVIOUS
<1>1. Domains /\ Own(c) /\ ClientInv(c) /\ CallsAwait
  BY OwnParts, StepsAreOwn
<1>2. PICK call \in calls :
        call.caller = c /\ GetReads(call, Len(Received(c)) + 1)
        /\ \E unit : Receive(c, Entry(c), FALSE, Append(Received(c), unit))
  BY Zenon DEF GetUnit
<1>3. pc[c] = "getWait" /\ UNCHANGED <<nsVars, pc, op, list, at, local, bak>>
  BY DEF GetUnit
<1>4. pc[c] \in Downloading /\ pc'[c] \in Downloading /\ Entry(c)' = e /\ File(c)' = File(c)
  BY <1>3 DEF Downloading, Entry, File
<1>5. PICK n \in Nat :
        /\ Downloaded(c) = 0 .. n - 1 /\ e.blockIdx = n
        /\ \A k \in 1 .. at[c] - 1 : list[c][k].blockIdx <= n
  BY <1>3, <1>4, GetIsAt
<1>6. Downloaded(c)' = 0 .. n - 1
  <2>1. Downloaded(c)' = Downloaded(c) \ {n}
    BY <1>1, <1>2, <1>5, ReceivedIs, FALSE \in BOOLEAN
  <2>. QED BY <1>5, <2>1
<1>7. Reading(c)'
  BY <1>3, <1>4, <1>5, <1>6, n \in n .. n + 1, ReadingGoesOn
<1>8. ClientSteady(c)' /\ pc[c] \notin OnWay
  BY <1>3, <1>4, <1>7, GetLeaves
<1>. PICK x : x = [call EXCEPT !.short = @ \/ Len(Received(c)) + 1 > Len(OpenFile(call))]
  OBVIOUS
<1>9. calls' = (calls \ {call}) \cup {x} /\ Awaited(call) /\ call.method = "getBlock"
  BY <1>1, <1>2, <1>3, CallersWait DEF GetReads, Replace, CallsAwait
<1>10. x.caller = c /\ x.method = "getBlock" /\ SameCall(call, x)
  BY <1>2, <1>9 DEF SameCall
<1>11. Awaited(x)' /\ Sent(x)'
  BY <1>2, <1>3, <1>4, <1>9, <1>10 DEF Awaited, SameCall, Sent
<1>12. calls' \subseteq {other \in calls : other.caller # c} \cup {x}
  BY <1>1, <1>2, <1>9 DEF CallsAwait
<1>13. /\ \A new \in calls' : new.caller # c => \E old \in calls : Kept(old, new)
       /\ \A a, b \in calls' : a.caller = b.caller => a = b
       /\ \A new \in calls' : new.caller = c => new = x
  BY <1>1, <1>10, <1>12, CallsGoOn
<1>. QED BY <1>1, <1>3, <1>8, <1>11, <1>13, QuietIsSteady

\* The end of a block.
LEMMA GetBlockDoneIsSteady ==
  ASSUME Sound, OneWriter, NEW c \in Clients, Step(c), GetBlockDone(c)
  PROVE  Steady'
<1>. PICK e, ok : e = Entry(c) /\ ok = (Received(c) = Entry(c).blockHash)
  OBVIOUS
<1>1. Domains /\ Own(c) /\ ClientInv(c) /\ CallsAwait
  BY OwnParts, StepsAreOwn
<1>2. /\ pc[c] = "getWait" /\ pc'[c] = "getBlock" /\ at'[c] = at[c] + 1
      /\ UNCHANGED <<nsVars, op, list, local, bak>>
      /\ calls' = {call \in calls : call.caller # c}
  BY <1>1 DEF GetBlockDone, Goto, Advance, Domains
<1>3. Receive(c, e, ok, Received(c)) /\ ok \in BOOLEAN
  BY Zenon DEF GetBlockDone
<1>4. pc[c] \in Downloading /\ pc'[c] \in Downloading /\ ~AtEnd(c)
  BY <1>1, <1>2 DEF Downloading, ClientInv
<1>5. PICK n \in Nat :
        /\ Downloaded(c) = 0 .. n - 1 /\ e.blockIdx = n
        /\ \A k \in 1 .. at[c] - 1 : list[c][k].blockIdx <= n
  BY <1>2, <1>4, GetIsAt
<1>6. \E m \in n .. n + 1 : Downloaded(c)' = 0 .. m - 1
  <2>1. CASE ok
    <3>1. Downloaded(c)' = Downloaded(c) \cup {n}
      BY <1>1, <1>3, <1>5, <2>1, ReceivedIs
    <3>2. Downloaded(c)' = 0 .. (n + 1) - 1 /\ n + 1 \in n .. n + 1
      BY <1>5, <3>1
    <3>. QED BY <3>2
  <2>2. CASE ~ok
    <3>1. Downloaded(c)' = Downloaded(c) \ {n}
      BY <1>1, <1>3, <1>5, <2>2, ReceivedIs
    <3>2. Downloaded(c)' = 0 .. n - 1 /\ n \in n .. n + 1
      BY <1>5, <3>1
    <3>. QED BY <3>2
  <2>. QED BY <2>1, <2>2
<1>7. Reading(c)'
  <2>1. PICK m \in n .. n + 1 : Downloaded(c)' = 0 .. m - 1
    BY <1>6
  <2>2. Entry(c).blockIdx <= n
    BY <1>5
  <2>. QED BY <1>2, <1>4, <1>5, <2>1, <2>2, ReadingGoesOn
<1>8. ClientSteady(c)' /\ pc[c] \notin OnWay
  BY <1>2, <1>4, <1>7, GetLeaves
<1>9. /\ \A new \in calls' : new.caller # c => \E old \in calls : Kept(old, new)
      /\ \A a, b \in calls' : a.caller = b.caller => a = b
      /\ \A new \in calls' : new.caller # c
  BY <1>1, <1>2, CallEnds
<1>. QED BY <1>1, <1>2, <1>8, <1>9, QuietIsSteady

\* The end of a get.
LEMMA CommitGetIsSteady ==
  ASSUME Sound, OneWriter, NEW c \in Clients, Step(c), CommitGet(c)
  PROVE  Steady'
<1>1. Domains /\ Own(c)
  BY OwnParts, StepsAreOwn
<1>2. pc[c] = "getBlock" /\ pc'[c] = "idle" /\ UNCHANGED <<nsVars, calls, op, bak>>
  BY <1>1 DEF CommitGet, Return, Goto, Domains, dsVars
<1>3. pc[c] \in Downloading /\ Reading(c)' /\ (\A call \in calls : call.caller # c)
  BY <1>2, OwnParts DEF Downloading, Reading, Waits
<1>. QED BY <1>1, <1>2, <1>3, GetLeaves, SilentIsSteady

-----------------------------------------------------------------------------
(***************************************************************************)
(* The begins and ends of removals and puts, where the metadata changes.   *)
(***************************************************************************)
\* A list without a name is empty.
LEMMA NoNames ==
  ASSUME NEW S, NEW l \in Seq(S), NamesOf(l) = {}
  PROVE  l = <<>>
<1>1. Len(l) \in Nat /\ \A k \in 1 .. Len(l) : FALSE
  BY NameListElements
<1>2. Len(l) = 0
  <2>1. Len(l) # 0 => 1 \in 1 .. Len(l)
    BY <1>1
  <2>. QED BY <1>1, <2>1
<1>. QED BY <1>2, EmptySeq

\* Where a client writes, the names on their way are its own.
LEMMA WriterOwns ==
  ASSUME Sound, OneWriter, NEW c \in Clients, pc[c] \in Writing
  PROVE  /\ NamesOf(tempList) \subseteq {File(c)}
         /\ pc[c] \notin OnWay => tempList = <<>>
<1>1. ASSUME NEW d \in Clients, pc[d] \in OnWay PROVE d = c
  <2>1. pc[d] \in Writing
    BY <1>1 DEF OnWay, Removal, RmPhase, PutPhase, Writing
  <2>. QED BY <2>1 DEF Sound, NamesInv, Controls, OneWriter
<1>2. \A f \in NamesOf(tempList) : pc[c] \in OnWay /\ File(c) = f
  BY <1>1 DEF Sound, Steady, EachOwned
<1>3. pc[c] \notin OnWay => NamesOf(tempList) = {}
  BY <1>2
<1>4. NamesOf(tempList) = {} => tempList = <<>>
  BY OwnParts, NoNames DEF ListsInv
<1>. QED BY <1>2, <1>3, <1>4

\* A step of the one that writes, its calls apart.
LEMMA WriterIsSteady ==
  ASSUME Sound, OneWriter, NEW c \in Clients, Own(c), pc[c] \in Writing \ Waits,
         UNCHANGED <<calls, up, serverList>>,
         \A e \in ToSet(fileList') : e \in ToSet(fileList) \/ Whole(e.storeList),
         \A f \in NamesOf(tempList') : pc'[c] \in OnWay /\ File(c)' = f,
         ClientSteady(c)'
  PROVE  Steady'
<1>1. \A call \in calls : call.caller # c
  BY OwnParts
<1>2. \A call \in calls' : call.caller # c /\ \E old \in calls : Kept(old, call)
  BY <1>1 DEF Kept, SameCall
<1>3. \A a, b \in calls' : a.caller = b.caller => a = b
  BY DEF Sound, Steady, CallsAwait
<1>4. NameServerRuns' /\ ListedWhole' /\ EachOwned'
  BY DEF Sound, Steady, NameServerRuns, ListedWhole, EachOwned
<1>5. pc[c] \in Writing
  OBVIOUS
<1>. QED BY <1>2, <1>3, <1>4, <1>5, StepIsSteady

\* What an rm begins with.
LEMMA BeginRmMoves ==
  ASSUME Sound, OneWriter, NEW c \in Clients, Step(c), BeginRm(c)
  PROVE  LET f == File(c)
             i == Find(fileList, f)
         IN  /\ pc[c] = "beginRm" /\ pc'[c] = "rmBlock" /\ tempList = <<>>
             /\ UNCHANGED <<calls, up, serverList, op, got, local, bak>>
             /\ \/ /\ Listed(f) /\ tempList' = <<fileList[i]>>
                   /\ fileList' = RemoveAt(fileList, i)
                \/ ~Listed(f) /\ UNCHANGED <<fileList, tempList>>
<1>. PICK f : f = File(c)
  OBVIOUS
<1>. PICK i : i = Find(fileList, f)
  OBVIOUS
<1>1. Domains /\ NameServerRuns
  BY OwnParts
<1>2. /\ pc[c] = "beginRm" /\ pc'[c] = "rmBlock" /\ UNCHANGED <<calls, op, got, local, bak>>
      /\ NameService(beginRmTransaction(f))
  BY <1>1, Zenon DEF BeginRm, RmGoesOn, Goto, Domains, dsVars
<1>3. beginRmTransaction(f)
  BY <1>1, <1>2, Zenon DEF NameService, NameServerRuns
<1>4. /\ UNCHANGED <<up, serverList>>
      /\ \/ /\ Listed(f) /\ tempList' = Append(tempList, fileList[i])
            /\ fileList' = RemoveAt(fileList, i)
         \/ ~Listed(f) /\ UNCHANGED <<fileList, tempList>>
  BY <1>3, Zenon DEF beginRmTransaction
<1>5. tempList = <<>>
  BY <1>2, WriterOwns DEF Writing, OnWay, Removal, RmPhase, PutPhase
<1>6. Append(<<>>, fileList[i]) = <<fileList[i]>>
  OBVIOUS
<1>. QED BY <1>2, <1>4, <1>5, <1>6

\* An rm that begins takes the entry of its file off fileList, or ends.
LEMMA BeginRmIsSteady ==
  ASSUME Sound, OneWriter, NEW c \in Clients, Step(c), BeginRm(c)
  PROVE  Steady'
<1>. PICK f : f = File(c)
  OBVIOUS
<1>. PICK i, e : i = Find(fileList, f) /\ e = fileList[i]
  OBVIOUS
<1>1. /\ pc[c] = "beginRm" /\ pc'[c] = "rmBlock" /\ tempList = <<>>
      /\ UNCHANGED <<calls, up, serverList, op, got, local, bak>>
      /\ \/ Listed(f) /\ tempList' = <<e>> /\ fileList' = RemoveAt(fileList, i)
         \/ ~Listed(f) /\ UNCHANGED <<fileList, tempList>>
  BY BeginRmMoves
<1>2. Own(c) /\ ListsInv /\ KnownOnce /\ ClientSteady(c) /\ ListedWhole
  BY OwnParts, StepsAreOwn DEF Sound, Steady
<1>3. File(c)' = f
  BY <1>1 DEF File
<1>4. /\ \A g \in NamesOf(tempList') : g = f
      /\ \A x \in ToSet(tempList') : Whole(x.storeList)
      /\ f \notin NamesOf(fileList')
      /\ ToSet(fileList') \subseteq ToSet(fileList)
  <2>1. CASE Listed(f) /\ tempList' = <<e>> /\ fileList' = RemoveAt(fileList, i)
    <3>1. /\ i \in 1 .. Len(fileList) /\ e \in ToSet(fileList) /\ e.fileName = f
          /\ ToSet(fileList') \subseteq ToSet(fileList)
      BY <1>2, <2>1, Unlisted
    <3>2. f \notin NamesOf(fileList')
      BY <1>2, <2>1, <3>1, NameRemoved DEF KnownOnce
    <3>3. \A x \in ToSet(<<e>>) : x = e
      BY DEF ToSet
    <3>. QED BY <1>2, <2>1, <3>1, <3>2, <3>3 DEF ListedWhole, NamesOf
  <2>2. CASE ~Listed(f) /\ UNCHANGED <<fileList, tempList>>
    <3>1. ToSet(<<>>) = {}
      BY DEF ToSet
    <3>2. f \notin NamesOf(fileList)
      BY <1>2, <2>2, NameFound DEF Listed, KnownOnce, NameList
    <3>. QED BY <1>1, <2>2, <3>1, <3>2 DEF NamesOf
  <2>. QED BY <1>1, <2>1, <2>2
<1>5. ClientSteady(c)'
  <2>1. CopySafe(c)'
    BY <1>1, <1>2, <1>3 DEF ClientSteady, CopySafe, SettingAside, Removal, RmPhase
  <2>2. Withdrawn(c)'
    BY <1>3, <1>4 DEF Withdrawn
  <2>. QED BY <1>1, <2>1, <2>2 DEF ClientSteady, Arriving, Reading, PutPhase, Downloading
<1>6. pc[c] \in Writing \ Waits /\ pc'[c] \in OnWay
  BY <1>1 DEF Writing, Waits, OnWay, Removal, RmPhase
<1>. QED BY <1>1, <1>2, <1>3, <1>4, <1>5, <1>6, WriterIsSteady

\* The entry of a name that one list holds.
LEMMA OneFound ==
  ASSUME KnownOnce, ListsInv, NEW f, NamesOf(tempList) \subseteq {f}, Pending(f)
  PROVE  /\ Len(tempList) = 1 /\ Find(tempList, f) = 1 /\ tempList[1].fileName = f
         /\ tempList[1] \in ToSet(tempList) /\ tempList[1] \in GoodEntry
         /\ RemoveAt(tempList, 1) = <<>>
<1>1. /\ Find(tempList, f) \in 1 .. Len(tempList) /\ tempList[Find(tempList, f)].fileName = f
      /\ Len(tempList) \in Nat
  BY FindInList, LenProperties DEF Pending, ListsInv
<1>2. \A k \in 1 .. Len(tempList) : tempList[k].fileName = f
  BY NameListElements DEF ListsInv
<1>3. \A k \in 1 .. Len(tempList) : k = Find(tempList, f)
  BY <1>1, <1>2 DEF KnownOnce, NameList
<1>4. Len(tempList) = 1 /\ Find(tempList, f) = 1
  <2>1. 1 \in 1 .. Len(tempList) /\ Len(tempList) \in 1 .. Len(tempList)
    BY <1>1
  <2>. QED BY <1>3, <2>1
<1>5. tempList[1] \in ToSet(tempList) /\ tempList[1] \in GoodEntry
  BY <1>4, ElementOfSeq, ListMembers, 1 \in 1 .. 1 DEF ListsInv
<1>6. RemoveAt(tempList, 1) = <<>>
  <2>1. 1 \in 1 .. Len(tempList)
    BY <1>4
  <2>2. RemoveAt(tempList, 1) \in Seq(GoodEntry) /\ Len(RemoveAt(tempList, 1)) = 0
    <3>1. tempList \in Seq(GoodEntry)
      BY DEF ListsInv
    <3>2. /\ RemoveAt(tempList, 1) \in Seq(GoodEntry)
          /\ Len(RemoveAt(tempList, 1)) = Len(tempList) - 1
      BY ONLY <2>1, <3>1, RemoveAtProperties
    <3>. QED BY <1>4, <3>2
  <2>. QED BY <2>2, EmptySeq
<1>. QED BY <1>1, <1>4, <1>5, <1>6

\* What the end of a transaction does with the entry on its way.
LEMMA EntryEnds ==
  ASSUME Sound, OneWriter, NEW c \in Clients, pc[c] \in Writing, NEW f, f = File(c),
         Publish(f) \/ Drop(f) \/ Refuse(f)
  PROVE  /\ tempList' = <<>> /\ (~Pending(f) => tempList = <<>>)
         /\ Pending(f) => /\ Len(tempList) = 1 /\ tempList[1].fileName = f
                          /\ Find(tempList, f) = 1 /\ tempList[1] \in ToSet(tempList)
         /\ Publish(f) => /\ Pending(f) /\ fileList' = Append(fileList, tempList[1])
                          /\ ToSet(fileList') = ToSet(fileList) \cup {tempList[1]}
         /\ Drop(f) \/ Refuse(f) => fileList' = fileList
<1>1. KnownOnce /\ ListsInv /\ NamesOf(tempList) \subseteq {f}
  BY OwnParts, WriterOwns
<1>2. ~Pending(f) => tempList = <<>>
  <2>1. ~Pending(f) => NamesOf(tempList) = {}
    BY <1>1, NameFound DEF Pending, KnownOnce, NameList
  <2>. QED BY <1>1, <2>1, NoNames DEF ListsInv
<1>3. Pending(f) => /\ Len(tempList) = 1 /\ tempList[1].fileName = f
                    /\ Find(tempList, f) = 1 /\ tempList[1] \in ToSet(tempList)
                    /\ tempList[1] \in GoodEntry /\ RemoveAt(tempList, 1) = <<>>
  BY <1>1, OneFound
<1>4. ~Publish(f) => Drop(f) \/ Refuse(f)
  OBVIOUS
<1>5. tempList' = <<>>
  <2>1. Publish(f) \/ Drop(f) => Pending(f) /\ tempList' = RemoveAt(tempList, Find(tempList, f))
    BY Zenon DEF Publish, Drop
  <2>2. Refuse(f) => ~Pending(f) /\ tempList' = tempList
    BY Zenon DEF Refuse
  <2>. QED BY <1>2, <1>3, <2>1, <2>2
<1>6. Publish(f) => Pending(f) /\ fileList' = Append(fileList, tempList[1])
  BY <1>3, Zenon DEF Publish
<1>7. Publish(f) => ToSet(fileList') = ToSet(fileList) \cup {tempList[1]}
  <2>. SUFFICES ASSUME Publish(f) PROVE ToSet(fileList') = ToSet(fileList) \cup {tempList[1]}
    OBVIOUS
  <2>1. fileList \in Seq(GoodEntry) /\ tempList[1] \in GoodEntry
    BY <1>1, <1>3, <1>6 DEF ListsInv
  <2>2. ToSet(Append(fileList, tempList[1])) = ToSet(fileList) \cup {tempList[1]}
    BY ONLY <2>1, ListMembers
  <2>. QED BY <1>6, <2>2
<1>8. Drop(f) \/ Refuse(f) => fileList' = fileList
  BY Zenon DEF Drop, Refuse
<1>. QED BY <1>2, <1>3, <1>5, <1>6, <1>7, <1>8

\* The end of an rm, and of the rm a put begins with.
LEMMA EndRmLeaves ==
  ASSUME Sound, NEW c \in Clients, pc[c] \in Removal, NEW result, NEW copy, EndRm(c, result, copy),
         UNCHANGED op
  PROVE  ClientSteady(c)' /\ pc'[c] \in {"idle", "beginPut"}
<1>. PICK f : f = File(c)
  OBVIOUS
<1>1. Domains /\ CopySafe(c) /\ DOMAIN local[c] = Files /\ DOMAIN bak[c] = Files
  BY OwnParts DEF ClientSteady
<1>2. pc'[c] \in {"idle", "beginPut"}
  BY <1>1 DEF EndRm, Return, Goto, Domains
<1>3. op'[c] = op[c] /\ File(c)' = f
  BY DEF File
<1>4. ~SettingAside(c)'
  BY <1>2 DEF SettingAside, Removal, RmPhase
<1>5. \A g \in Files : bak'[c][g] = Absent
  <2>1. CASE op[c].name = "rm" /\ UNCHANGED bak
    BY <1>1, <2>1 DEF CopySafe, SettingAside
  <2>2. CASE op[c].name = "put" /\ bak' = [bak EXCEPT ![c][f] = Absent]
    <3>1. bak'[c] = [bak[c] EXCEPT ![f] = Absent]
      BY <1>1, <2>2 DEF Domains
    <3>. QED BY <1>1, <3>1 DEF CopySafe
  <2>. QED BY <2>1, <2>2, Zenon DEF EndRm
<1>6. CopySafe(c)'
  BY <1>4, <1>5 DEF CopySafe
<1>. QED BY <1>2, <1>6 DEF ClientSteady, Withdrawn, Arriving, Reading, Removal, RmPhase, PutPhase,
                           Downloading

\* An rm ends, or is undone.
LEMMA RmEndsAre ==
  ASSUME Sound, NEW c \in Clients, Step(c), CommitRm(c) \/ AbortRm(c)
  PROVE  /\ pc[c] \in Removal /\ pc[c] \in Writing \ Waits
         /\ UNCHANGED <<calls, up, serverList, op>>
         /\ CommitRm(c) => Drop(File(c)) \/ Refuse(File(c))
         /\ AbortRm(c) => Publish(File(c)) \/ Refuse(File(c))
         /\ \E result, copy : EndRm(c, result, copy)
<1>1. up
  BY OwnParts DEF NameServerRuns
<1>2. CASE CommitRm(c)
  <2>1. /\ pc[c] = "rmBlock" /\ NameService(commitRmTransaction(File(c)))
        /\ UNCHANGED <<calls, op>> /\ EndRm(c, "OK", Absent)
    BY <1>2, Zenon DEF CommitRm, dsVars
  <2>2. /\ UNCHANGED <<up, serverList>>
        /\ Drop(File(c)) \/ Refuse(File(c))
    BY <1>1, <2>1, Zenon DEF NameService, commitRmTransaction
  <2>3. ~AbortRm(c)
    BY <2>1, "rmBlock" # "abortRm", Zenon DEF AbortRm
  <2>4. \E result, copy : EndRm(c, result, copy)
    BY <2>1
  <2>5. pc[c] \in Removal /\ pc[c] \in Writing \ Waits
    BY <2>1 DEF Removal, RmPhase, Writing, Waits
  <2>. QED BY <2>1, <2>2, <2>3, <2>4, <2>5
<1>3. CASE AbortRm(c)
  <2>1. /\ pc[c] = "abortRm" /\ NameService(abortRmTransaction(File(c)))
        /\ UNCHANGED <<calls, op>> /\ EndRm(c, "CANCELLED", local[c][File(c)])
    BY <1>3, Zenon DEF AbortRm, dsVars
  <2>2. /\ UNCHANGED <<up, serverList>>
        /\ Publish(File(c)) \/ Refuse(File(c))
    BY <1>1, <2>1, Zenon DEF NameService, abortRmTransaction
  <2>3. ~CommitRm(c)
    BY <2>1, "rmBlock" # "abortRm", Zenon DEF CommitRm
  <2>4. \E result, copy : EndRm(c, result, copy)
    BY <2>1
  <2>5. pc[c] \in Removal /\ pc[c] \in Writing \ Waits
    BY <2>1 DEF Removal, RmPhase, Writing, Waits
  <2>. QED BY <2>1, <2>2, <2>3, <2>4, <2>5
<1>. QED BY <1>2, <1>3

\* An rm that ends, undone or not, gives the copy called .bak back.
LEMMA RmEndsSteady ==
  ASSUME Sound, OneWriter, NEW c \in Clients, Step(c), CommitRm(c) \/ AbortRm(c)
  PROVE  Steady'
<1>. PICK f : f = File(c)
  OBVIOUS
<1>1. /\ pc[c] \in Removal /\ pc[c] \in Writing \ Waits
      /\ UNCHANGED <<calls, up, serverList, op>>
      /\ Publish(f) \/ Drop(f) \/ Refuse(f)
      /\ \E result, copy : EndRm(c, result, copy)
  BY RmEndsAre
<1>2. Own(c) /\ Withdrawn(c)
  BY OwnParts, StepsAreOwn DEF ClientSteady
<1>3. /\ tempList' = <<>>
      /\ Publish(f) => tempList[1] \in ToSet(tempList)
                       /\ ToSet(fileList') = ToSet(fileList) \cup {tempList[1]}
      /\ Drop(f) \/ Refuse(f) => fileList' = fileList
  BY <1>1, EntryEnds
<1>4. \A e \in ToSet(fileList') : e \in ToSet(fileList) \/ Whole(e.storeList)
  BY <1>1, <1>2, <1>3 DEF Withdrawn
<1>5. NamesOf(tempList') = {}
  BY <1>3, EmptyKnown
<1>6. ClientSteady(c)'
  BY <1>1, EndRmLeaves
<1>. QED BY <1>1, <1>2, <1>4, <1>5, <1>6, WriterIsSteady

\* What a put begins with, refused or not.
LEMMA BeginPutMoves ==
  ASSUME Sound, OneWriter, NEW c \in Clients, Step(c), BeginPut(c)
  PROVE  LET f == File(c)
             new == NewEntry(serverList, f, Len(local[c][f]))
         IN  /\ pc[c] = "beginPut" /\ pc'[c] = "putBlock" /\ at'[c] = 1
             /\ tempList = <<>> /\ Len(local[c][f]) \in Nat
             /\ UNCHANGED <<calls, up, serverList, fileList, op, got, local, bak>>
             /\ \/ Listed(f) /\ tempList' = <<>> /\ list'[c] = <<>>
                \/ tempList' = <<new>> /\ list'[c] = new.storeList
<1>. PICK f, size : f = File(c) /\ size = Len(local[c][f])
  OBVIOUS
<1>. PICK new : new = NewEntry(serverList, f, size)
  OBVIOUS
<1>1. Domains /\ NameServerRuns /\ ClientInv(c)
  BY OwnParts
<1>. PICK stores : stores = IF Len(tempList') > Len(tempList) THEN Last(tempList').storeList ELSE <<>>
  OBVIOUS
<1>2. /\ pc[c] = "beginPut" /\ UNCHANGED <<calls, op, got, local, bak>>
      /\ NameService(beginPutTransaction(f, size)) /\ Goto(c, "putBlock") /\ Walk(c, stores)
  BY Zenon DEF BeginPut, PutGoesOn, dsVars
<1>3. pc'[c] = "putBlock" /\ at'[c] = 1 /\ list'[c] = stores
  BY <1>1, <1>2 DEF Goto, Walk, Domains
<1>4. size \in Nat
  BY <1>1, <1>2, LenProperties DEF ClientInv
<1>5. beginPutTransaction(f, size)
  BY <1>1, <1>2, Zenon DEF NameService, NameServerRuns
<1>6. /\ UNCHANGED <<up, serverList, fileList>>
      /\ \/ Listed(f) /\ tempList' = tempList
         \/ tempList' = Append(tempList, new)
  <2>1. ~ReadsDeadServer(size)
    BY <1>1 DEF NameServerRuns, ReadsDeadServer
  <2>. QED BY <1>5, <2>1, Zenon DEF beginPutTransaction, nsVars
<1>7. tempList = <<>>
  BY <1>2, WriterOwns DEF Writing, OnWay, Removal, RmPhase, PutPhase
<1>8. CASE Listed(f) /\ tempList' = tempList
  BY <1>2, <1>3, <1>4, <1>6, <1>7, <1>8
<1>9. CASE tempList' = Append(tempList, new)
  <2>1. tempList' = <<new>> /\ Len(<<new>>) = 1 /\ Len(<<>>) = 0 /\ Last(<<new>>) = new
    BY <1>7, <1>9 DEF Last
  <2>2. stores = new.storeList
    BY <1>7, <2>1
  <2>. QED BY <1>2, <1>3, <1>4, <1>6, <1>7, <2>1, <2>2
<1>. QED BY <1>6, <1>8, <1>9

\* A put that begins has its new entry in tempList, or none.
LEMMA BeginPutIsSteady ==
  ASSUME Sound, OneWriter, NEW c \in Clients, Step(c), BeginPut(c)
  PROVE  Steady'
<1>. PICK f, size : f = File(c) /\ size = Len(local[c][f])
  OBVIOUS
<1>. PICK new, stores : /\ new = NewEntry(serverList, f, size)
                        /\ stores = StoreList(serverList, f, size)
  OBVIOUS
<1>1. /\ pc[c] = "beginPut" /\ pc'[c] = "putBlock" /\ at'[c] = 1
      /\ tempList = <<>> /\ size \in Nat
      /\ UNCHANGED <<calls, up, serverList, fileList, op, got, local, bak>>
      /\ \/ Listed(f) /\ tempList' = <<>> /\ list'[c] = <<>>
         \/ tempList' = <<new>> /\ list'[c] = new.storeList
  BY BeginPutMoves
<1>2. Own(c) /\ IInv /\ CopySafe(c) /\ serverList # <<>>
  BY OwnParts, StepsAreOwn DEF ClientSteady, NameServerRuns
<1>3. new.fileName = f /\ new.storeList = stores
  BY DEF NewEntry
<1>4. Covers(stores, size) /\ Len(stores) \in Nat
  <2>1. stores \in Seq(BlockStore)
    BY <1>1, <1>2, StoresOnRing
  <2>2. \A e \in ToSet(stores) : \E k \in 1 .. Len(stores) : e = stores[k]
    BY <2>1, LenProperties DEF ToSet
  <2>3. \A i \in Nat : i * maxBlockSize < size => \E e \in ToSet(stores) : e.blockIdx = i
    BY <1>1, <1>2, StoreListCovers
  <2>. QED BY <2>1, <2>2, <2>3, LenProperties DEF Covers
<1>5. File(c)' = f /\ local'[c][File(c)'] = local[c][f]
  BY <1>1 DEF File
<1>6. Arriving(c)'
  <2>1. CASE tempList' = <<>> /\ list'[c] = <<>>
    BY <2>1 DEF Arriving
  <2>2. CASE tempList' = <<new>> /\ list'[c] = new.storeList
    <3>1. Len(tempList') = 1 /\ tempList'[1] = new /\ Sending' = stores /\ list'[c] = stores
      BY <1>3, <2>2 DEF Sending
    <3>2. \A k \in 1 .. at'[c] - 1 : FALSE
      BY <1>1
    <3>. QED BY <1>1, <1>3, <1>4, <1>5, <3>1, <3>2 DEF Arriving
  <2>. QED BY <1>1, <2>1, <2>2
<1>7. CopySafe(c)'
  BY <1>1, <1>2, <1>5 DEF CopySafe, SettingAside, Removal, RmPhase
<1>8. ClientSteady(c)'
  BY <1>1, <1>6, <1>7 DEF ClientSteady, Withdrawn, Reading, Removal, RmPhase, Downloading
<1>9. \A g \in NamesOf(tempList') : g = f
  <2>1. NamesOf(<<>>) = {}
    BY EmptyKnown
  <2>2. \A x \in ToSet(<<new>>) : x = new
    BY DEF ToSet
  <2>. QED BY <1>1, <1>3, <2>1, <2>2 DEF NamesOf
<1>10. pc[c] \in Writing \ Waits /\ pc'[c] \in OnWay
  BY <1>1 DEF Writing, Waits, OnWay, PutPhase
<1>11. \A e \in ToSet(fileList') : e \in ToSet(fileList)
  BY <1>1
<1>. QED BY <1>1, <1>2, <1>5, <1>8, <1>9, <1>10, <1>11, WriterIsSteady

\* A put that was accepted and has stored every block has a whole entry.
LEMMA SentIsWhole ==
  ASSUME Sound, NEW c \in Clients, pc[c] = "putBlock", AtEnd(c), tempList # <<>>
  PROVE  /\ Len(tempList) = 1 /\ tempList[1].fileName = File(c) /\ tempList[1].storeList = Sending
         /\ ContentOf(Sending) = local[c][File(c)] /\ Whole(Sending)
<1>. PICK content, l : content = local[c][File(c)] /\ l = list[c]
  OBVIOUS
<1>. PICK sent : sent = Sending
  OBVIOUS
<1>1. ClientInv(c) /\ Arriving(c) /\ ListsInv
  BY OwnParts DEF ClientSteady
<1>2. /\ Len(l) \in Nat /\ DOMAIN l = 1 .. Len(l)
      /\ \A k \in 1 .. Len(l) : l[k].blockIdx \in Nat /\ l[k].blockSize \in Nat
  BY <1>1, EntriesAreStores
<1>3. at[c] = Len(l) + 1
  BY <1>1, <1>2 DEF ClientInv, AtEnd
<1>4. /\ Len(tempList) = 1 /\ tempList[1].fileName = File(c) /\ Len(sent) = Len(l)
      /\ \A k \in 1 .. Len(l) :
           /\ sent[k].blockIdx = l[k].blockIdx
           /\ sent[k].blockHash = Piece(c, l[k]) /\ sent[k].blockSize = l[k].blockSize
      /\ Covers(l, Len(content))
  <2>1. at[c] - 1 = Len(l)
    BY <1>2, <1>3
  <2>. QED BY <1>1, <2>1 DEF Arriving, PutPhase
<1>5. content \in Seq(Units) /\ \A k \in 1 .. Len(l) : Cuts(l[k], Len(content))
  <2>1. \A k \in 1 .. Len(l) : l[k] \in ToSet(l)
    BY <1>2 DEF ToSet
  <2>. QED BY <1>1, <2>1 DEF ClientInv
<1>6. /\ sent \in Seq(BlockStore) /\ Contiguous(sent)
  BY <1>1, <1>4, SendingIsList DEF WellFormed
<1>7. StandsFor(sent, content)
  <2>1. \A k \in 1 .. Len(sent) :
          Cuts(sent[k], Len(content)) /\ sent[k].blockHash = BlockOf(content, sent[k])
    BY <1>4, <1>5 DEF Cuts, Piece, BlockOf
  <2>2. Covers(sent, Len(content))
    BY <1>4 DEF Covers
  <2>. QED BY <1>5, <2>1, <2>2 DEF StandsFor
<1>8. ContentOf(sent) = content
  <2>1. \A k \in 1 .. Len(sent) :
           LET i == sent[k].blockIdx
           IN  /\ i * maxBlockSize < Len(content)
               /\ sent[k].blockHash =
                    SubSeq(content, i * maxBlockSize + 1,
                           i * maxBlockSize + PieceSize(Len(content), i))
    BY <1>7, Zenon DEF StandsFor, Cuts, BlockOf
  <2>2. \A i \in Nat : i * maxBlockSize < Len(content) =>
           \E k \in 1 .. Len(sent) : sent[k].blockIdx = i
    BY <1>7 DEF StandsFor, Covers
  <2>. QED BY ONLY <1>5, <1>6, <2>1, <2>2, PiecesMakeFile
<1>. QED BY <1>4, <1>7, <1>8 DEF Whole, Sending

\* The end of a put.
LEMMA PutEndsAre ==
  ASSUME Sound, NEW c \in Clients, Step(c), CommitPut(c) \/ AbortPut(c)
  PROVE  /\ pc[c] \in OnWay /\ pc[c] \in Writing \ Waits /\ pc'[c] = "idle"
         /\ UNCHANGED <<calls, up, serverList, op, local, bak>>
         /\ AbortPut(c) => pc[c] = "abortPut" /\ (Drop(File(c)) \/ Refuse(File(c)))
         /\ CommitPut(c) => /\ pc[c] = "putBlock" /\ AtEnd(c)
                            /\ Publish(File(c)) \/ Refuse(File(c))
<1>1. up /\ Domains
  BY OwnParts DEF NameServerRuns
<1>2. CASE CommitPut(c)
  <2>1. /\ pc[c] = "putBlock" /\ AtEnd(c) /\ NameService(commitPutTransaction(File(c)))
        /\ UNCHANGED <<calls, op, local, bak>> /\ Return(c, "OK")
    BY <1>2, Zenon DEF CommitPut, dsVars
  <2>2. /\ UNCHANGED <<up, serverList>>
        /\ Publish(File(c)) \/ Refuse(File(c))
    BY <1>1, <2>1, Zenon DEF NameService, commitPutTransaction
  <2>3. ~AbortPut(c)
    BY <2>1, "putBlock" # "abortPut", Zenon DEF AbortPut
  <2>4. pc'[c] = "idle"
    BY <1>1, <2>1 DEF Return, Goto, Domains
  <2>5. pc[c] \in OnWay /\ pc[c] \in Writing \ Waits
    BY <2>1 DEF OnWay, PutPhase, Writing, Waits
  <2>. QED BY <2>1, <2>2, <2>3, <2>4, <2>5
<1>3. CASE AbortPut(c)
  <2>1. /\ pc[c] = "abortPut" /\ NameService(abortPutTransaction(File(c)))
        /\ UNCHANGED <<calls, op, local, bak>> /\ Return(c, "CANCELLED")
    BY <1>3, Zenon DEF AbortPut, dsVars
  <2>2. /\ UNCHANGED <<up, serverList>>
        /\ Drop(File(c)) \/ Refuse(File(c))
    BY <1>1, <2>1, Zenon DEF NameService, abortPutTransaction
  <2>3. ~CommitPut(c)
    BY <2>1, "putBlock" # "abortPut", Zenon DEF CommitPut
  <2>4. pc'[c] = "idle"
    BY <1>1, <2>1 DEF Return, Goto, Domains
  <2>5. pc[c] \in OnWay /\ pc[c] \in Writing \ Waits
    BY <2>1 DEF OnWay, Writing, Waits
  <2>. QED BY <2>1, <2>2, <2>3, <2>4, <2>5
<1>. QED BY <1>2, <1>3

\* A put that commits lists an entry filled in to its end.
LEMMA PutEndsSteady ==
  ASSUME Sound, OneWriter, NEW c \in Clients, Step(c), CommitPut(c) \/ AbortPut(c)
  PROVE  Steady'
<1>. PICK f : f = File(c)
  OBVIOUS
<1>1. /\ pc[c] \in OnWay /\ pc[c] \in Writing \ Waits /\ pc'[c] = "idle"
      /\ UNCHANGED <<calls, up, serverList, op, local, bak>>
      /\ \/ Drop(f) \/ Refuse(f)
         \/ pc[c] = "putBlock" /\ AtEnd(c) /\ Publish(f)
  BY PutEndsAre
<1>2. Own(c) /\ CopySafe(c)
  BY OwnParts, StepsAreOwn DEF ClientSteady
<1>3. pc[c] \in Writing /\ (Publish(f) \/ Drop(f) \/ Refuse(f))
  BY <1>1
<1>4. /\ tempList' = <<>>
      /\ Publish(f) => tempList # <<>> /\ ToSet(fileList') = ToSet(fileList) \cup {tempList[1]}
      /\ Drop(f) \/ Refuse(f) => fileList' = fileList
  <2>1. Len(tempList) = 1 => tempList # <<>>
    BY EmptySeq
  <2>. QED BY <1>3, <2>1, EntryEnds
<1>5. \A e \in ToSet(fileList') : e \in ToSet(fileList) \/ Whole(e.storeList)
  BY <1>1, <1>4, SentIsWhole
<1>6. NamesOf(tempList') = {}
  BY <1>4, EmptyKnown
<1>7. ClientSteady(c)'
  <2>1. ~SettingAside(c) /\ ~SettingAside(c)'
    BY <1>1, PutEndsAre DEF SettingAside, Removal, RmPhase
  <2>2. CopySafe(c)'
    BY <1>1, <1>2, <2>1 DEF CopySafe
  <2>. QED BY <1>1, <2>2 DEF ClientSteady, Withdrawn, Arriving, Reading, Removal, RmPhase,
                            PutPhase, Downloading
<1>. QED BY <1>1, <1>2, <1>5, <1>6, <1>7, WriterIsSteady

-----------------------------------------------------------------------------
(***************************************************************************)
(* Failures, and the invariant.                                            *)
(***************************************************************************)
\* Only data servers fail.
OnlyServersFail == Faults \subseteq {"data"}

\* A step of the servers that leaves the clients and the files alone.
LEMMA ServersStaySteady ==
  ASSUME Sound, UNCHANGED <<clVars, up, fileList, tempList>>, serverList' # <<>>,
         calls' \subseteq calls
  PROVE  Steady'
<1>1. UNCHANGED <<pc, op, list, at, got, local, bak>>
  BY DEF clVars
<1>2. /\ \A c : File(c)' = File(c) /\ Entry(c)' = Entry(c) /\ Downloaded(c)' = Downloaded(c)
      /\ \A c, e : Piece(c, e)' = Piece(c, e)
      /\ Sending' = Sending
  BY <1>1 DEF File, Entry, Downloaded, Piece, Sending
<1>3. NameServerRuns' /\ ListedWhole' /\ EachOwned'
  BY <1>1, <1>2 DEF Sound, Steady, NameServerRuns, ListedWhole, EachOwned
<1>4. CallsAwait'
  BY <1>1, <1>2 DEF Sound, Steady, CallsAwait, Awaited
<1>5. \A call \in calls' : Sent(call)'
  BY <1>1, <1>2 DEF Sound, Steady, Sent
<1>6. ASSUME NEW c \in Clients PROVE ClientSteady(c)'
  <2>1. ClientSteady(c)
    BY DEF Sound, Steady
  <2>2. Withdrawn(c)' /\ CopySafe(c)'
    BY <1>1, <1>2, <2>1 DEF ClientSteady, Withdrawn, CopySafe, SettingAside
  <2>3. Arriving(c)'
    BY <1>1, <1>2, <2>1 DEF ClientSteady, Arriving
  <2>4. Reading(c)'
    BY <1>1, <1>2, <2>1 DEF ClientSteady, Reading
  <2>. QED BY <2>2, <2>3, <2>4 DEF ClientSteady
<1>. QED BY <1>3, <1>4, <1>5, <1>6 DEF Steady

\* A server more on the ring.
LEMMA RingGrows ==
  ASSUME ListsInv, IInv, NEW s, startServer(s, ServerHash(s))
  PROVE  UNCHANGED <<up, fileList, tempList>> /\ serverList' # <<>>
<1>. PICK server : server = [address |-> s, hash |-> ServerHash(s)]
  OBVIOUS
<1>1. UNCHANGED <<up, fileList, tempList>> /\ serverList' \in Sortings(Append(serverList, server))
  BY Zenon DEF startServer, Register
<1>2. DOMAIN serverList' = DOMAIN Append(serverList, server)
  BY <1>1 DEF Sortings
<1>3. 1 \in DOMAIN Append(serverList, server)
  <2>1. serverList \in Seq(RingServer)
    BY DEF IInv, RingInv
  <2>2. serverList \in Seq(RingServer \cup {server})
    BY <2>1, SeqMonotonic
  <2>3. /\ Append(serverList, server) \in Seq(RingServer \cup {server})
        /\ Len(Append(serverList, server)) = Len(serverList) + 1 /\ Len(serverList) \in Nat
    BY <2>2, AppendProperties, LenProperties
  <2>. QED BY <2>3, LenProperties
<1>4. DOMAIN <<>> = {}
  OBVIOUS
<1>. QED BY <1>1, <1>2, <1>3, <1>4

\* A data server that fails, starts or listens again.
LEMMA ServersAreSteady ==
  ASSUME Sound, OnlyServersFail, Crashes \/ Restarts
  PROVE  Steady'
<1>1. IInv /\ ListsInv /\ up /\ serverList # <<>>
  BY DEF Sound, DInv, IInv, Steady, NameServerRuns
<1>2. ASSUME NEW s, CrashDataServer(s), UNCHANGED clVars PROVE Steady'
  <2>1. UNCHANGED nsVars /\ calls' \subseteq calls
    BY <1>2 DEF CrashDataServer
  <2>. QED BY <1>1, <1>2, <2>1, ServersStaySteady DEF nsVars
<1>3. ASSUME NEW s, Listen(s), UNCHANGED clVars PROVE Steady'
  <2>1. UNCHANGED nsVars /\ calls' = calls
    BY <1>3, Zenon DEF Listen
  <2>. QED BY <1>1, <1>3, <2>1, ServersStaySteady DEF nsVars
<1>4. ASSUME NEW s, RegisterDataServer(s), UNCHANGED clVars PROVE Steady'
  <2>1. startServer(s, ServerHash(s)) /\ calls' = calls
    BY <1>4, Zenon DEF RegisterDataServer
  <2>2. UNCHANGED <<up, fileList, tempList>> /\ serverList' # <<>>
    BY <1>1, <2>1, RingGrows
  <2>. QED BY <1>4, <2>1, <2>2, ServersStaySteady
<1>5. Crashes => \E s \in Servers : CrashDataServer(s) /\ UNCHANGED clVars
  <2>1. "client" \notin Faults /\ "name" \notin Faults
    BY DEF OnlyServersFail
  <2>. QED BY <2>1, Zenon DEF Crashes
<1>6. Restarts => \E s \in Servers : (RegisterDataServer(s) \/ Listen(s)) /\ UNCHANGED clVars
  BY <1>1, Zenon DEF Restarts
<1>. QED BY <1>2, <1>3, <1>4, <1>5, <1>6

\* Every step keeps the file system steady.
LEMMA StaysSteady ==
  ASSUME Sound, OneWriter, OnlyServersFail, [Next]_dfsVars
  PROVE  Steady'
<1>1. ASSUME NEW c \in Clients, Begin(c) \/ Step(c) PROVE Steady'
  <2>1. CASE Begin(c)
    BY <2>1, BeginIsSteady
  <2>2. CASE Step(c)
    <3>1. CASE BeginRm(c) \/ RmBlock(c) \/ RmBlockDone(c) \/ AbortRm(c) \/ CommitRm(c)
      BY <2>2, <3>1, BeginRmIsSteady, RmBlockIsSteady, RmBlockDoneIsSteady, RmEndsSteady
    <3>2. CASE BeginPut(c) \/ PutBlock(c) \/ PutBlockDone(c) \/ AbortPut(c) \/ CommitPut(c)
      BY <2>2, <3>2, BeginPutIsSteady, PutBlockIsSteady, PutBlockDoneIsSteady, PutEndsSteady
    <3>3. CASE BeginGet(c) \/ GetBlock(c) \/ GetUnit(c) \/ GetBlockDone(c) \/ CommitGet(c)
      BY <2>2, <3>3, BeginGetIsSteady, GetBlockIsSteady, GetUnitIsSteady, GetBlockDoneIsSteady,
         CommitGetIsSteady
    <3>4. CASE CallFails(c)
      BY <2>2, <3>4, CallFailsIsSteady
    <3>. QED BY <2>2, <3>1, <3>2, <3>3, <3>4, Zenon DEF Step
  <2>. QED BY <1>1, <2>1, <2>2
<1>2. CASE UserEdits
  <2>1. PICK c \in Users, f \in Files, content \in Contents : Edit(c, f, content)
    BY <1>2, Zenon DEF UserEdits
  <2>2. c \in Clients
    BY DFSAssumption DEF DFSAssumption
  <2>. QED BY <2>1, <2>2, EditIsSteady
<1>3. CASE UNCHANGED dfsVars
  <2>1. UNCHANGED <<clVars, up, fileList, tempList, serverList, calls>>
    BY <1>3 DEF dfsVars, vars, nsVars, dsVars
  <2>. QED BY <2>1, ServersStaySteady DEF Sound, Steady, NameServerRuns
<1>. QED BY <1>1, <1>2, <1>3, ServeIsSteady, ServersAreSteady, Zenon DEF Next

\* Nothing is stored or under way at first.
LEMMA InitSteady ==
  ASSUME Init, Servers # {}, BlockIndices = Nat
  PROVE  Steady
<1>1. up /\ serverList # <<>>
  BY InitQuiet DEF Quiet, AllRun
<1>2. calls = {} /\ fileList = <<>> /\ tempList = <<>>
  BY DEF Init
<1>3. ToSet(<<>>) = {} /\ NamesOf(<<>>) = {}
  BY EmptyKnown DEF ToSet
<1>4. ASSUME NEW c \in Clients PROVE ClientSteady(c)
  <2>1. pc[c] = "idle" /\ \A f \in Files : bak[c][f] = Absent
    BY DEF Init
  <2>. QED BY <2>1 DEF ClientSteady, Withdrawn, Arriving, CopySafe, SettingAside, Reading,
                       Removal, RmPhase, PutPhase, Downloading
<1>. QED BY <1>1, <1>2, <1>3, <1>4
         DEF Steady, NameServerRuns, ListedWhole, CallsAwait, EachOwned

\* With one client that writes, and servers that fail: the invariant.
THEOREM SteadyHolds ==
  OneWriter /\ OnlyServersFail /\ Servers # {} /\ BlockIndices = Nat => (Spec => []Sound)
<1>. SUFFICES ASSUME OneWriter, OnlyServersFail, Servers # {}, BlockIndices = Nat
              PROVE  Spec => []Sound
  OBVIOUS
<1>1. Init => Steady
  BY InitSteady
<1>2. Steady /\ DInv /\ NamesInv /\ [Next]_dfsVars => Steady'
  BY StaysSteady DEF Sound
<1>3. Spec => []DInv
  BY TypesKept
<1>4. Spec => []NamesInv
  BY NamesHold
<1>5. Steady /\ DInv /\ NamesInv => Sound
  BY DEF Sound
<1>. QED BY <1>1, <1>2, <1>3, <1>4, <1>5, PTL DEF Spec

-----------------------------------------------------------------------------
(***************************************************************************)
(* FileStore, as DFSRefinement reads it off the state. What a client or a  *)
(* file shows is looked at one at a time: a step of a client changes its   *)
(* own part.                                                               *)
(***************************************************************************)
\* A step of the file system is one of FileStore, or none.
Shown == [Store!Next]_(Store!storeVars)

\* The actions of FileStore, each with its variables as they are here.
LEMMA StutterShown ==
  ASSUME UNCHANGED <<storedFiles, withdrawnFiles, chosenFiles, copies>>
  PROVE  Shown
BY DEF Shown, Store!storeVars

\* Edit is what a user's change of a copy shows as ...
LEMMA EditShown ==
  ASSUME NEW c \in Users, NEW f \in Files, NEW content \in Contents,
         copies' = [copies EXCEPT ![c][f] = content],
         UNCHANGED <<storedFiles, withdrawnFiles, chosenFiles>>
  PROVE  Shown
<1>1. Store!Edit(c, f)
  BY Zenon DEF Store!Edit
<1>. QED BY <1>1, Zenon DEF Shown, Store!Next

\* ... Withdraw what the begin of an rm does, ...
LEMMA WithdrawShown ==
  ASSUME NEW c \in Users, NEW f \in Files, storedFiles[f] # Absent,
         withdrawnFiles' = [withdrawnFiles EXCEPT ![f] = storedFiles[f]],
         storedFiles' = [storedFiles EXCEPT ![f] = Absent],
         UNCHANGED <<chosenFiles, copies>>
  PROVE  Shown
<1>1. Store!Withdraw(f)
  BY Zenon DEF Store!Withdraw
<1>. QED BY <1>1, Zenon DEF Shown, Store!Next

\* ... Discard an rm that is committed or given up for good, ...
LEMMA DiscardShown ==
  ASSUME NEW c \in Users, NEW f \in Files, storedFiles[f] = Absent,
         withdrawnFiles' = [withdrawnFiles EXCEPT ![f] = Absent],
         \/ copies' = [copies EXCEPT ![c][f] = Absent]
         \/ copies' = [copies EXCEPT ![c][f] = Store!Owned(c, f)],
         UNCHANGED <<storedFiles, chosenFiles>>
  PROVE  Shown
<1>1. Store!Discard(c, f)
  BY Zenon DEF Store!Discard
<1>. QED BY <1>1, Zenon DEF Shown, Store!Next

\* ... Reinstate one that is undone, ...
LEMMA ReinstateShown ==
  ASSUME NEW c \in Users, NEW f \in Files, storedFiles[f] = Absent, withdrawnFiles[f] # Absent,
         storedFiles' = [storedFiles EXCEPT ![f] = withdrawnFiles[f]],
         withdrawnFiles' = [withdrawnFiles EXCEPT ![f] = Absent],
         copies' = copies \/ copies' = [copies EXCEPT ![c][f] = Store!Owned(c, f)],
         UNCHANGED chosenFiles
  PROVE  Shown
<1>1. Store!Reinstate(c, f)
  BY Zenon DEF Store!Reinstate
<1>. QED BY <1>1, Zenon DEF Shown, Store!Next

\* ... Publish a put that commits, ...
LEMMA PublishShown ==
  ASSUME NEW c \in Users, NEW f \in Files, storedFiles[f] = Absent, withdrawnFiles[f] = Absent,
         copies[c][f] # Absent,
         storedFiles' = [storedFiles EXCEPT ![f] = copies[c][f]],
         UNCHANGED <<withdrawnFiles, chosenFiles, copies>>
  PROVE  Shown
<1>1. Store!Publish(c, f)
  BY Zenon DEF Store!Publish
<1>. QED BY <1>1, Zenon DEF Shown, Store!Next

\* ... Choose the begin of a get, ...
LEMMA ChooseShown ==
  ASSUME NEW c \in Clients, NEW f \in Files, chosenFiles[c] = Absent,
         chosenFiles' = [chosenFiles EXCEPT ![c] =
           [file |-> f, content |-> IF storedFiles[f] = Absent THEN <<>> ELSE storedFiles[f]]],
         UNCHANGED <<storedFiles, withdrawnFiles, copies>>
  PROVE  Shown
<1>1. Store!Choose(c, f)
  BY Zenon DEF Store!Choose
<1>. QED BY <1>1, Zenon DEF Shown, Store!Next

\* ... Deliver its end, ...
LEMMA DeliverShown ==
  ASSUME NEW c \in Clients, chosenFiles[c] # Absent,
         NEW content \in Store!Delivered(chosenFiles[c].content),
         copies' = [copies EXCEPT ![c][chosenFiles[c].file] = content],
         chosenFiles' = [chosenFiles EXCEPT ![c] = Absent],
         UNCHANGED <<storedFiles, withdrawnFiles>>
  PROVE  Shown
<1>1. Store!Deliver(c)
  BY Zenon DEF Store!Deliver
<1>. QED BY <1>1, Zenon DEF Shown, Store!Next

\* ... and GiveUp a get that fails.
LEMMA GiveUpShown ==
  ASSUME NEW c \in Clients, chosenFiles[c] # Absent,
         chosenFiles' = [chosenFiles EXCEPT ![c] = Absent],
         UNCHANGED <<storedFiles, withdrawnFiles, copies>>
  PROVE  Shown
<1>1. Store!GiveUp(c)
  BY Zenon DEF Store!GiveUp
<1>. QED BY <1>1, Zenon DEF Shown, Store!Next

-----------------------------------------------------------------------------
\* What a client shows of itself, and what it shows of a file.
Chosen(c) ==
  IF pc[c] \in Downloading THEN [file |-> File(c), content |-> ContentOf(list[c])] ELSE Absent

Copy(c) == [f \in Files |-> IF bak[c][f] # Absent THEN bak[c][f] ELSE local[c][f]]

StoredAs(f) == IF Listed(f) THEN ContentOf(beginGetReply(f)) ELSE Absent

\* The mapping, in these terms.
LEMMA Views ==
  /\ storedFiles = [f \in Files |-> StoredAs(f)]
  /\ chosenFiles = [c \in Clients |-> Chosen(c)]
  /\ copies = [c \in Clients |-> Copy(c)]
BY Zenon DEF storedFiles, chosenFiles, copies, Chosen, Copy, Downloading, StoredAs

\* A step of a client shows in its own part.
LEMMA OwnViews ==
  ASSUME Sound, NEW c \in Clients, Own(c)
  PROVE  /\ chosenFiles' = [chosenFiles EXCEPT ![c] = Chosen(c)']
         /\ copies' = [copies EXCEPT ![c] = Copy(c)']
         /\ chosenFiles[c] = Chosen(c) /\ copies[c] = Copy(c)
<1>1. ASSUME NEW d \in Clients, d # c PROVE Chosen(d)' = Chosen(d) /\ Copy(d)' = Copy(d)
  <2>1. /\ pc'[d] = pc[d] /\ list'[d] = list[d] /\ local'[d] = local[d] /\ File(d)' = File(d)
    BY <1>1, OthersSame DEF Sound, DInv
  <2>2. bak'[d] = bak[d]
    BY <1>1, OtherValue DEF Sound, DInv, ClientsInv, Domains, Own
  <2>. QED BY <2>1, <2>2 DEF Chosen, Copy
<1>2. chosenFiles' = [d \in Clients |-> Chosen(d)'] /\ copies' = [d \in Clients |-> Copy(d)']
  BY Zenon DEF chosenFiles, copies, Chosen, Copy, Downloading
<1>. QED BY <1>1, <1>2, Views

\* As long as fileList is the same, so are the files it stands for.
LEMMA StoredStay ==
  ASSUME fileList' = fileList
  PROVE  storedFiles' = storedFiles
BY DEF storedFiles, Listed, beginGetReply

\* Where a client writes, what is being removed is its file.
LEMMA RemovingIs ==
  ASSUME Sound, OneWriter, NEW c \in Clients, Own(c), pc[c] \in Writing, NEW f
  PROVE  /\ Removing(f) <=> pc[c] \in Removal /\ File(c) = f
         /\ Removing(f)' <=> pc'[c] \in Removal /\ File(c)' = f
<1>1. c \in Users /\ Users \subseteq Clients
  BY DFSAssumption DEF DFSAssumption, Sound, NamesInv, Controls
<1>2. Removal = {"rmBlock", "rmWait", "abortRm"}
  BY DEF Removal, RmPhase
<1>3. \A d \in Users : d = c
  BY <1>1 DEF OneWriter
<1>. QED BY <1>1, <1>2, <1>3, Zenon DEF Removing

\* Other steps remove nothing new.
LEMMA RemovingStays ==
  ASSUME Sound, NEW c \in Clients, Own(c), pc[c] \notin Removal, pc'[c] \notin Removal, NEW f
  PROVE  Removing(f)' <=> Removing(f)
<1>1. Removal = {"rmBlock", "rmWait", "abortRm"} /\ Users \subseteq Clients
  BY DFSAssumption DEF DFSAssumption, Removal, RmPhase
<1>2. \A d \in Clients : d # c => pc'[d] = pc[d] /\ File(d)' = File(d)
  BY OthersSame DEF Sound, DInv
<1>. QED BY <1>1, <1>2, Zenon DEF Removing

\* What is set aside stays, or is nothing.
LEMMA WithdrawnStay ==
  ASSUME \A f \in Files : Removing(f)' <=> Removing(f),
         tempList' = tempList \/ \A f \in Files : ~Removing(f)
  PROVE  withdrawnFiles' = withdrawnFiles
<1>1. CASE tempList' = tempList
  BY <1>1 DEF withdrawnFiles, Pending
<1>2. CASE \A f \in Files : ~Removing(f)
  BY <1>2 DEF withdrawnFiles
<1>. QED BY <1>1, <1>2

-----------------------------------------------------------------------------
(***************************************************************************)
(* The steps that show nothing.                                            *)
(***************************************************************************)
\* The steps of a client that nothing shows of.
LEMMA UnseenShown ==
  ASSUME Sound, OneWriter, NEW c \in Clients, Own(c), fileList' = fileList,
         tempList' = tempList \/ pc[c] \in Writing \ Removal,
         pc[c] \in Removal <=> pc'[c] \in Removal,
         pc[c] \in Downloading <=> pc'[c] \in Downloading,
         pc[c] \in Removal \cup Downloading => UNCHANGED <<op, list>>,
         Copy(c)' = Copy(c)
  PROVE  Shown
<1>1. storedFiles' = storedFiles
  BY StoredStay
<1>2. withdrawnFiles' = withdrawnFiles
  <2>1. CASE pc[c] \in Removal
    <3>1. pc[c] \in Writing
      BY <2>1 DEF Removal, RmPhase, Writing
    <3>2. File(c)' = File(c)
      BY <2>1 DEF File
    <3>3. \A f \in Files : Removing(f)' <=> Removing(f)
      BY <2>1, <3>1, <3>2, RemovingIs
    <3>. QED BY <2>1, <3>3, WithdrawnStay
  <2>2. CASE pc[c] \notin Removal
    <3>1. \A f \in Files : Removing(f)' <=> Removing(f)
      BY <2>2, RemovingStays
    <3>2. pc[c] \in Writing => \A f \in Files : ~Removing(f)
      BY <2>2, RemovingIs
    <3>. QED BY <3>1, <3>2, WithdrawnStay
  <2>. QED BY <2>1, <2>2
<1>3. Chosen(c)' = Chosen(c)
  BY DEF Chosen, File
<1>4. chosenFiles' = chosenFiles /\ copies' = copies
  <2>1. /\ chosenFiles' = [chosenFiles EXCEPT ![c] = chosenFiles[c]]
        /\ copies' = [copies EXCEPT ![c] = copies[c]]
    BY <1>3, OwnViews
  <2>2. DOMAIN chosenFiles = Clients /\ DOMAIN copies = Clients
        /\ chosenFiles = [d \in Clients |-> chosenFiles[d]] /\ copies = [d \in Clients |-> copies[d]]
    BY Views
  <2>. QED BY <2>1, <2>2
<1>. QED BY <1>1, <1>2, <1>4, StutterShown

\* The beginnings of operations: put renames the copy.
LEMMA BeginShown ==
  ASSUME Sound, OneWriter, NEW c \in Clients, Begin(c)
  PROVE  Shown
<1>1. PICK f \in Files : StartPut(c, f) \/ StartRm(c, f) \/ StartGet(c, f)
  BY Zenon DEF Begin
<1>2. pc[c] = "idle" /\ UNCHANGED nsVars /\ Own(c)
  BY <1>1, StepsAreOwn DEF StartPut, StartRm, StartGet, Start
<1>3. Domains /\ CopySafe(c) /\ DOMAIN local[c] = Files /\ DOMAIN bak[c] = Files
  BY OwnParts DEF ClientSteady
<1>4. pc'[c] \in {"beginRm", "beginGet"}
  BY <1>1, <1>3 DEF StartPut, StartRm, StartGet, Goto, Domains
<1>5. Copy(c)' = Copy(c)
  <2>1. CASE UNCHANGED <<local, bak>>
    BY <2>1 DEF Copy
  <2>2. CASE /\ local[c][f] # Absent
             /\ bak' = [bak EXCEPT ![c][f] = local[c][f]]
             /\ local' = [local EXCEPT ![c][f] = Absent]
    <3>1. /\ bak'[c] = [bak[c] EXCEPT ![f] = local[c][f]]
          /\ local'[c] = [local[c] EXCEPT ![f] = Absent]
      BY <1>3, <2>2 DEF Domains
    <3>2. \A g \in Files : bak[c][g] = Absent
      BY <1>2, <1>3 DEF CopySafe, SettingAside, Removal, RmPhase
    <3>. QED BY <1>3, <2>2, <3>1, <3>2 DEF Copy
  <2>. QED BY <1>1, <2>1, <2>2, Zenon DEF StartPut, StartRm, StartGet
<1>6. pc[c] \notin Removal \cup Downloading /\ pc'[c] \notin Removal \cup Downloading
  BY <1>2, <1>4 DEF Removal, RmPhase, Downloading
<1>. QED BY <1>2, <1>5, <1>6, UnseenShown DEF nsVars

\* The calls to the data servers, and their ends.
LEMMA BlockStepsShown ==
  ASSUME Sound, OneWriter, NEW c \in Clients, Step(c),
         \/ RmBlock(c) \/ RmBlockDone(c) \/ PutBlock(c) \/ PutBlockDone(c) \/ CallFails(c)
         \/ GetUnit(c) \/ GetBlockDone(c)
  PROVE  Shown
<1>1. Domains /\ Own(c)
  BY OwnParts, StepsAreOwn
<1>2. UNCHANGED <<nsVars, op, list, local, bak>>
  BY Zenon DEF RmBlock, RmBlockDone, RmRemoves, PutBlock, PutBlockDone, PutCloses, CallFails,
               GetUnit, GetBlockDone
<1>3. \/ pc[c] \in Removal /\ pc'[c] \in Removal
      \/ pc[c] \in Writing \ Removal /\ pc'[c] \in Writing \ Removal
      \/ pc[c] \in Downloading /\ pc'[c] \in Downloading
  <2>1. CASE RmBlock(c) \/ RmBlockDone(c)
    BY <1>1, <2>1 DEF RmBlock, RmBlockDone, Goto, Domains, Removal, RmPhase
  <2>2. CASE PutBlock(c) \/ PutBlockDone(c)
    BY <1>1, <2>2 DEF PutBlock, PutBlockDone, Goto, Domains, Removal, RmPhase, Writing
  <2>3. CASE CallFails(c)
    BY <1>1, <2>3 DEF CallFails, Goto, Domains, Removal, RmPhase, Writing, Downloading
  <2>4. CASE GetUnit(c) \/ GetBlockDone(c)
    BY <1>1, <2>4 DEF GetUnit, GetBlockDone, Goto, Domains, Downloading
  <2>. QED BY <2>1, <2>2, <2>3, <2>4
<1>4. Removal \cap Downloading = {} /\ Writing \cap Downloading = {}
  BY DEF Removal, RmPhase, Writing, Downloading
<1>5. Copy(c)' = Copy(c)
  BY <1>2 DEF Copy
<1>6. UNCHANGED <<fileList, tempList, op, list>>
  BY <1>2 DEF nsVars
<1>. QED BY <1>1, <1>3, <1>4, <1>5, <1>6, UnseenShown

\* A put that begins, is refused, or is given up.
LEMMA BeginPutShown ==
  ASSUME Sound, OneWriter, NEW c \in Clients, Step(c), BeginPut(c)
  PROVE  Shown
<1>1. pc[c] = "beginPut" /\ pc'[c] = "putBlock" /\ UNCHANGED <<fileList, op, local, bak>>
  BY BeginPutMoves
<1>2. Own(c) /\ Copy(c)' = Copy(c)
  BY <1>1, StepsAreOwn DEF Copy
<1>3. /\ pc[c] \in Writing \ Removal /\ pc'[c] \notin Removal
      /\ pc[c] \notin Downloading /\ pc'[c] \notin Downloading
  BY <1>1 DEF Removal, RmPhase, Writing, Downloading
<1>. QED BY <1>1, <1>2, <1>3, UnseenShown

\* Where there is a name on its way, the name is not listed.
LEMMA NotListed ==
  ASSUME KnownOnce, NEW f, f \notin NamesOf(fileList) \/ f \in NamesOf(tempList)
  PROVE  ~Listed(f) /\ StoredAs(f) = Absent
<1>1. f \notin NamesOf(fileList)
  BY DEF KnownOnce
<1>2. ~Listed(f)
  BY <1>1, NameFound DEF KnownOnce, NameList, Listed
<1>. QED BY <1>2 DEF StoredAs

\* Another file's entry comes or goes.
LEMMA OthersFound ==
  ASSUME NEW l, NEW m, NameList(l), NameList(m), NEW f, NEW g, g # f,
         \A e : e.fileName # f => (e \in ToSet(l) <=> e \in ToSet(m))
  PROVE  /\ Find(l, g) # 0 <=> Find(m, g) # 0
         /\ Find(l, g) # 0 => l[Find(l, g)] = m[Find(m, g)]
<1>1. ASSUME NEW x, NEW y, NameList(x), NameList(y), Find(x, g) # 0,
             \A e : e.fileName # f => (e \in ToSet(x) <=> e \in ToSet(y))
      PROVE  Find(y, g) # 0 /\ x[Find(x, g)] = y[Find(y, g)]
  <2>. PICK e : e = x[Find(x, g)]
    OBVIOUS
  <2>1. Find(x, g) \in 1 .. Len(x) /\ e.fileName = g
    BY <1>1, NameFound DEF NameList
  <2>2. e \in ToSet(x)
    BY <1>1, <2>1, NameListElements DEF NameList
  <2>3. e \in ToSet(y)
    BY <1>1, <2>1, <2>2
  <2>4. PICK k \in 1 .. Len(y) : e = y[k]
    <3>1. y \in Seq(ToSet(y))
      BY <1>1 DEF NameList
    <3>2. \A z : z \in ToSet(y) <=> \E k \in 1 .. Len(y) : z = y[k]
      BY ONLY <3>1, NameListElements
    <3>. QED BY <2>3, <3>2
  <2>5. g \in NamesOf(y)
    BY <2>1, <2>3 DEF NamesOf
  <2>6. Find(y, g) # 0 /\ Find(y, g) \in 1 .. Len(y) /\ y[Find(y, g)].fileName = g
    BY <1>1, <2>5, NameFound DEF NameList
  <2>7. k = Find(y, g)
    BY <1>1, <2>1, <2>4, <2>6 DEF NameList
  <2>. QED BY <2>4, <2>6, <2>7
<1>. QED BY <1>1

-----------------------------------------------------------------------------
(***************************************************************************)
(* Removals: a file is withdrawn, then discarded or reinstated.            *)
(***************************************************************************)
\* One file more, or less.
LEMMA StoredMoves ==
  ASSUME KnownOnce, KnownOnce', NEW f \in Files, NEW x, StoredAs(f)' = x,
         \A e : e.fileName # f => (e \in ToSet(fileList) <=> e \in ToSet(fileList'))
  PROVE  storedFiles' = [storedFiles EXCEPT ![f] = x]
<1>1. ASSUME NEW g \in Files, g # f PROVE StoredAs(g)' = StoredAs(g)
  <2>1. /\ Find(fileList, g) # 0 <=> Find(fileList', g) # 0
        /\ Find(fileList, g) # 0 => fileList[Find(fileList, g)] = fileList'[Find(fileList', g)]
    BY <1>1, OthersFound DEF KnownOnce
  <2>. QED BY <2>1 DEF StoredAs, Listed, beginGetReply
<1>2. storedFiles' = [g \in Files |-> StoredAs(g)']
  BY Zenon DEF storedFiles, StoredAs
<1>. QED BY <1>1, <1>2, Views

\* What is set aside where a client writes.
LEMMA WithdrawnIs ==
  ASSUME Sound, OneWriter, NEW c \in Clients, Own(c), pc[c] \in Writing
  PROVE  /\ \A g \in Files : pc[c] \notin Removal \/ File(c) # g \/ ~Pending(g) =>
                               withdrawnFiles[g] = Absent
         /\ \A g \in Files : pc'[c] \notin Removal \/ File(c)' # g \/ ~Pending(g)' =>
                               withdrawnFiles'[g] = Absent
         /\ \A g \in Files : pc[c] \in Removal /\ File(c) = g /\ Pending(g) =>
              withdrawnFiles[g] = ContentOf(tempList[Find(tempList, g)].storeList)
         /\ \A g \in Files : pc'[c] \in Removal /\ File(c)' = g /\ Pending(g)' =>
              withdrawnFiles'[g] = ContentOf(tempList'[Find(tempList', g)].storeList)
         /\ withdrawnFiles = [g \in Files |-> withdrawnFiles[g]]
         /\ withdrawnFiles' = [g \in Files |-> withdrawnFiles'[g]]
<1>1. \A f : /\ Removing(f) <=> pc[c] \in Removal /\ File(c) = f
             /\ Removing(f)' <=> pc'[c] \in Removal /\ File(c)' = f
  BY RemovingIs
<1>. QED BY <1>1 DEF withdrawnFiles

\* A content is not the sign of there being none.
LEMMA WholeIsThere ==
  ASSUME NEW stores, Whole(stores)
  PROVE  ContentOf(stores) # Absent
BY AbsentAssumption DEF Whole, StandsFor

\* An rm begins: the file is withdrawn.
LEMMA BeginRmShown ==
  ASSUME Sound, KnownOnce', OneWriter, NEW c \in Clients, Step(c), BeginRm(c)
  PROVE  Shown
<1>. PICK f : f = File(c)
  OBVIOUS
<1>. PICK i, e : i = Find(fileList, f) /\ e = fileList[i]
  OBVIOUS
<1>1. /\ pc[c] = "beginRm" /\ pc'[c] = "rmBlock" /\ tempList = <<>>
      /\ UNCHANGED <<op, local, bak>>
      /\ \/ Listed(f) /\ tempList' = <<e>> /\ fileList' = RemoveAt(fileList, i)
         \/ ~Listed(f) /\ UNCHANGED <<fileList, tempList>>
  BY BeginRmMoves
<1>2. Own(c) /\ ListsInv /\ KnownOnce /\ c \in Users /\ f \in Files
  BY <1>1, OwnParts, StepsAreOwn DEF Sound, NamesInv, Controls, Writing
<1>3. /\ pc[c] \in Writing /\ pc[c] \notin Removal /\ pc'[c] \in Removal
      /\ pc[c] \notin Downloading /\ pc'[c] \notin Downloading
  BY <1>1 DEF Removal, RmPhase, Writing, Downloading
<1>4. File(c)' = f
  BY <1>1 DEF File
<1>5. UNCHANGED <<chosenFiles, copies>>
  <2>1. Chosen(c)' = Chosen(c) /\ Copy(c)' = Copy(c)
    BY <1>1, <1>3 DEF Chosen, Copy
  <2>2. /\ chosenFiles' = [chosenFiles EXCEPT ![c] = chosenFiles[c]]
        /\ copies' = [copies EXCEPT ![c] = copies[c]]
    BY <1>2, <2>1, OwnViews
  <2>3. /\ chosenFiles = [d \in Clients |-> chosenFiles[d]]
        /\ copies = [d \in Clients |-> copies[d]]
    BY Views
  <2>. QED BY <2>2, <2>3
<1>6. CASE Listed(f) /\ tempList' = <<e>> /\ fileList' = RemoveAt(fileList, i)
  <2>1. /\ e \in ToSet(fileList) /\ e.fileName = f
        /\ ToSet(fileList') \subseteq ToSet(fileList)
        /\ ToSet(fileList) \subseteq ToSet(fileList') \cup {e}
    BY <1>2, <1>6, Unlisted
  <2>2. storedFiles[f] = ContentOf(e.storeList) /\ storedFiles[f] # Absent
    <3>1. beginGetReply(f) = e.storeList
      BY <1>6 DEF beginGetReply
    <3>2. StoredAs(f) = ContentOf(e.storeList)
      BY <1>6, <3>1 DEF StoredAs
    <3>3. Whole(e.storeList)
      BY <3>1, RepliesWhole
    <3>. QED BY <1>2, <3>2, <3>3, Views, WholeIsThere
  <2>3. f \in NamesOf(tempList')
    <3>1. e \in ToSet(<<e>>)
      BY DEF ToSet
    <3>. QED BY <1>6, <2>1, <3>1 DEF NamesOf
  <2>4. storedFiles' = [storedFiles EXCEPT ![f] = Absent]
    <3>1. f \notin NamesOf(fileList')
      BY <2>3 DEF KnownOnce
    <3>2. StoredAs(f)' = Absent
      BY <3>1, NameFound DEF KnownOnce, NameList, Listed, StoredAs
    <3>3. \A x : x.fileName # f => (x \in ToSet(fileList) <=> x \in ToSet(fileList'))
      BY <2>1
    <3>. QED BY <1>2, <3>2, <3>3, StoredMoves
  <2>5. withdrawnFiles' = [withdrawnFiles EXCEPT ![f] = storedFiles[f]]
    <3>1. \A g \in Files : withdrawnFiles[g] = Absent
      BY <1>2, <1>3, WithdrawnIs
    <3>2. \A g \in Files : g # f => withdrawnFiles'[g] = Absent
      BY <1>2, <1>3, <1>4, WithdrawnIs
    <3>3. Find(tempList', f) = 1 /\ tempList'[1] = e
      <4>1. Find(tempList', f) \in 1 .. Len(tempList')
        BY <2>3, NameFound DEF KnownOnce, NameList
      <4>2. Len(tempList') = 1 /\ tempList'[1] = e
        BY <1>6
      <4>. QED BY <4>1, <4>2
    <3>4. Pending(f)'
      BY <3>3 DEF Pending
    <3>5. withdrawnFiles'[f] = ContentOf(e.storeList)
      BY <1>2, <1>3, <1>4, <3>3, <3>4, WithdrawnIs
    <3>6. /\ withdrawnFiles = [g \in Files |-> withdrawnFiles[g]]
          /\ withdrawnFiles' = [g \in Files |-> withdrawnFiles'[g]]
      BY <1>2, <1>3, WithdrawnIs
    <3>. QED BY <2>2, <3>1, <3>2, <3>5, <3>6
  <2>. QED BY <1>2, <1>5, <2>2, <2>4, <2>5, WithdrawShown
<1>7. CASE ~Listed(f) /\ UNCHANGED <<fileList, tempList>>
  <2>1. storedFiles' = storedFiles
    BY <1>7, StoredStay
  <2>2. \A g : ~Pending(g) /\ ~Pending(g)'
    <3>1. \A g : g \notin NamesOf(tempList)
      BY <1>1, EmptyKnown
    <3>2. \A g : Find(tempList, g) = 0
      BY <1>2, <3>1, NameFound DEF KnownOnce, NameList
    <3>. QED BY <1>7, <3>2 DEF Pending
  <2>3. withdrawnFiles' = withdrawnFiles
    <3>1. \A g \in Files : withdrawnFiles[g] = Absent /\ withdrawnFiles'[g] = Absent
      BY <1>2, <1>3, <2>2, WithdrawnIs
    <3>2. /\ withdrawnFiles = [g \in Files |-> withdrawnFiles[g]]
          /\ withdrawnFiles' = [g \in Files |-> withdrawnFiles'[g]]
      BY <1>2, <1>3, WithdrawnIs
    <3>. QED BY <3>1, <3>2
  <2>. QED BY <1>5, <2>1, <2>3, StutterShown
<1>. QED BY <1>1, <1>6, <1>7

\* The client's own copy after an rm, and after the rm a put begins with.
LEMMA EndRmShows ==
  ASSUME Sound, NEW c \in Clients, Own(c), pc[c] \in Removal, UNCHANGED op, NEW f, f = File(c),
         NEW result, NEW copy, EndRm(c, result, copy)
  PROVE  /\ pc'[c] \notin Removal /\ UNCHANGED chosenFiles
         /\ \/ /\ copies' = [copies EXCEPT ![c][f] = copy]
               /\ copies[c][f] = local[c][f] /\ op[c].name = "rm"
            \/ copies' = [copies EXCEPT ![c][f] = Store!Owned(c, f)] /\ op[c].name = "put"
         /\ copies = [copies EXCEPT ![c][f] = copies[c][f]]
<1>1. /\ Domains /\ CopySafe(c) /\ DOMAIN local[c] = Files /\ DOMAIN bak[c] = Files
      /\ pc[c] # "idle" => f \in Files
  BY OwnParts DEF ClientSteady
<1>2. f \in Files
  BY <1>1 DEF Removal, RmPhase
<1>3. /\ copies = [d \in Clients |-> Copy(d)] /\ copies[c] = Copy(c)
      /\ copies' = [copies EXCEPT ![c] = Copy(c)']
      /\ copies[c][f] = IF bak[c][f] # Absent THEN bak[c][f] ELSE local[c][f]
  <2>1. /\ copies = [d \in Clients |-> Copy(d)] /\ copies[c] = Copy(c)
        /\ copies' = [copies EXCEPT ![c] = Copy(c)']
    BY OwnViews, Views
  <2>2. Copy(c)[f] = IF bak[c][f] # Absent THEN bak[c][f] ELSE local[c][f]
    BY <1>2 DEF Copy
  <2>. QED BY <2>1, <2>2
<1>4. pc'[c] \in {"idle", "beginPut"}
  BY <1>1 DEF EndRm, Return, Goto, Domains
<1>5. pc'[c] \notin Removal /\ pc[c] \notin Downloading /\ pc'[c] \notin Downloading
  BY <1>4 DEF Removal, RmPhase, Downloading
<1>6. chosenFiles' = chosenFiles
  <2>1. Chosen(c)' = Chosen(c)
    BY <1>5 DEF Chosen
  <2>2. chosenFiles' = [chosenFiles EXCEPT ![c] = chosenFiles[c]]
        /\ chosenFiles = [d \in Clients |-> chosenFiles[d]]
    BY <2>1, OwnViews, Views
  <2>. QED BY <2>2
<1>7. copies = [copies EXCEPT ![c][f] = copies[c][f]]
  <2>1. Copy(c) = [Copy(c) EXCEPT ![f] = Copy(c)[f]]
    BY DEF Copy
  <2>. QED BY <1>3, <2>1
<1>8. \A g \in Files : g # f => bak[c][g] = Absent
  BY <1>1 DEF CopySafe
<1>9. CASE /\ op[c].name = "rm" /\ local' = [local EXCEPT ![c][f] = copy] /\ UNCHANGED bak
  <2>1. bak[c][f] = Absent
    BY <1>1, <1>2, <1>9 DEF CopySafe, SettingAside
  <2>2. local'[c] = [local[c] EXCEPT ![f] = copy] /\ bak'[c] = bak[c]
    BY <1>1, <1>9 DEF Domains
  <2>3. Copy(c)' = [Copy(c) EXCEPT ![f] = copy]
    BY <1>1, <1>2, <1>8, <2>1, <2>2 DEF Copy
  <2>4. copies' = [copies EXCEPT ![c][f] = copy]
    BY <1>3, <2>3
  <2>. QED BY <1>3, <1>5, <1>6, <1>7, <1>9, <2>1, <2>4
<1>10. CASE /\ op[c].name = "put"
            /\ local' = [local EXCEPT ![c][f] = IF bak[c][f] # Absent THEN bak[c][f] ELSE <<>>]
            /\ bak' = [bak EXCEPT ![c][f] = Absent]
  <2>. PICK x : x = IF bak[c][f] # Absent THEN bak[c][f] ELSE <<>>
    OBVIOUS
  <2>1. local[c][f] = Absent
    BY <1>1, <1>10 DEF CopySafe, SettingAside
  <2>2. local'[c] = [local[c] EXCEPT ![f] = x] /\ bak'[c] = [bak[c] EXCEPT ![f] = Absent]
    BY <1>1, <1>10 DEF Domains
  <2>3. Copy(c)' = [Copy(c) EXCEPT ![f] = x]
    BY <1>1, <1>2, <1>8, <2>2 DEF Copy
  <2>4. Store!Owned(c, f) = x
    BY <1>3, <2>1 DEF Store!Owned
  <2>5. copies' = [copies EXCEPT ![c][f] = x]
    BY <1>3, <2>3
  <2>. QED BY <1>5, <1>6, <1>7, <1>10, <2>4, <2>5
<1>. QED BY <1>9, <1>10, Zenon DEF EndRm

\* What ends with the rm: nothing is set aside any more.
LEMMA RmEndsViews ==
  ASSUME Sound, OneWriter, NEW c \in Clients, Own(c), pc[c] \in Removal, pc'[c] \notin Removal,
         NEW f, f = File(c)
  PROVE  /\ f \in Files /\ c \in Users /\ f \notin NamesOf(fileList) /\ storedFiles[f] = Absent
         /\ withdrawnFiles' = [withdrawnFiles EXCEPT ![f] = Absent]
         /\ withdrawnFiles = [withdrawnFiles EXCEPT ![f] = withdrawnFiles[f]]
         /\ withdrawnFiles[f] = IF Pending(f) THEN ContentOf(tempList[Find(tempList, f)].storeList)
                                ELSE Absent
<1>1. pc[c] \in Writing /\ pc[c] # "idle"
  BY DEF Removal, RmPhase, Writing
<1>2. f \in Files /\ c \in Users /\ KnownOnce /\ Withdrawn(c)
  BY <1>1, OwnParts DEF Sound, NamesInv, Controls, ClientSteady
<1>3. f \notin NamesOf(fileList)
  BY <1>2 DEF Withdrawn
<1>4. storedFiles[f] = Absent
  BY <1>2, <1>3, NotListed, Views
<1>5. /\ \A g \in Files : g # f => withdrawnFiles[g] = Absent
      /\ \A g \in Files : withdrawnFiles'[g] = Absent
      /\ withdrawnFiles = [g \in Files |-> withdrawnFiles[g]]
      /\ withdrawnFiles' = [g \in Files |-> withdrawnFiles'[g]]
      /\ withdrawnFiles[f] = IF Pending(f) THEN ContentOf(tempList[Find(tempList, f)].storeList)
                             ELSE Absent
  BY <1>1, <1>2, WithdrawnIs
<1>6. /\ withdrawnFiles' = [withdrawnFiles EXCEPT ![f] = Absent]
      /\ withdrawnFiles = [withdrawnFiles EXCEPT ![f] = withdrawnFiles[f]]
  <2>. PICK w, v : w = withdrawnFiles /\ v = withdrawnFiles'
    OBVIOUS
  <2>1. /\ \A g \in Files : g # f => w[g] = Absent
        /\ \A g \in Files : v[g] = Absent
        /\ w = [g \in Files |-> w[g]] /\ v = [g \in Files |-> v[g]]
    BY <1>5
  <2>2. v = [w EXCEPT ![f] = Absent] /\ w = [w EXCEPT ![f] = w[f]]
    BY ONLY <1>2, <2>1
  <2>. QED BY <2>2
<1>. QED BY <1>2, <1>3, <1>4, <1>5, <1>6

\* The entry of a name comes to fileList.
LEMMA PublishedIs ==
  ASSUME Sound, KnownOnce', NEW f \in Files, Pending(f), Find(tempList, f) = 1,
         tempList[1].fileName = f, fileList' = Append(fileList, tempList[1]),
         ToSet(fileList') = ToSet(fileList) \cup {tempList[1]}
  PROVE  storedFiles' = [storedFiles EXCEPT ![f] = ContentOf(tempList[1].storeList)]
<1>. PICK e : e = tempList[1]
  OBVIOUS
<1>1. KnownOnce
  BY DEF Sound, NamesInv
<1>2. e \in ToSet(fileList') /\ f \in NamesOf(fileList')
  BY DEF NamesOf
<1>3. PICK k \in 1 .. Len(fileList') : e = fileList'[k]
  <2>1. fileList' \in Seq(ToSet(fileList'))
    BY DEF KnownOnce, NameList
  <2>2. \A z : z \in ToSet(fileList') <=> \E k \in 1 .. Len(fileList') : z = fileList'[k]
    BY ONLY <2>1, NameListElements
  <2>. QED BY <1>2, <2>2
<1>4. /\ Find(fileList', f) # 0 /\ Find(fileList', f) \in 1 .. Len(fileList')
      /\ fileList'[Find(fileList', f)].fileName = f
  <2>1. fileList' \in Seq(ToSet(fileList'))
    BY DEF KnownOnce, NameList
  <2>. PICK l : l = fileList'
    OBVIOUS
  <2>2. Find(l, f) # 0 /\ Find(l, f) \in 1 .. Len(l) /\ l[Find(l, f)].fileName = f
    BY <1>2, <2>1, NameFound
  <2>. QED BY <2>2
<1>5. fileList'[Find(fileList', f)] = e
  BY <1>3, <1>4 DEF KnownOnce, NameList
<1>6. StoredAs(f)' = ContentOf(e.storeList)
  <2>. PICK l, x : l = fileList' /\ x = fileList'[Find(fileList', f)].storeList
    OBVIOUS
  <2>1. x = e.storeList
    BY <1>5
  <2>2. StoredAs(f)' = ContentOf(x)
    BY <1>4 DEF StoredAs, Listed, beginGetReply
  <2>. QED BY <2>1, <2>2
<1>7. \A x : x.fileName # f => (x \in ToSet(fileList) <=> x \in ToSet(fileList'))
  BY DEF NamesOf
<1>. QED BY <1>1, <1>6, <1>7, StoredMoves

\* An rm ends: the file is gone, or back.
LEMMA RmEndsShown ==
  ASSUME Sound, KnownOnce', OneWriter, NEW c \in Clients, Step(c), CommitRm(c) \/ AbortRm(c)
  PROVE  Shown
<1>. PICK f : f = File(c)
  OBVIOUS
<1>1. /\ pc[c] \in Removal /\ pc[c] \in Writing /\ UNCHANGED op /\ Own(c) /\ Withdrawn(c)
      /\ CommitRm(c) => Drop(f) \/ Refuse(f)
      /\ AbortRm(c) => Publish(f) \/ Refuse(f)
  BY RmEndsAre, OwnParts, StepsAreOwn DEF ClientSteady
<1>2. PICK copy : /\ \E result : EndRm(c, result, copy)
                  /\ (CommitRm(c) /\ copy = Absent) \/ (AbortRm(c) /\ copy = local[c][f])
  <2>1. CommitRm(c) => EndRm(c, "OK", Absent)
    BY Zenon DEF CommitRm
  <2>2. AbortRm(c) => EndRm(c, "CANCELLED", local[c][f])
    BY Zenon DEF AbortRm
  <2>. QED BY <2>1, <2>2
<1>3. /\ pc'[c] \notin Removal /\ UNCHANGED chosenFiles
      /\ \/ copies' = [copies EXCEPT ![c][f] = copy] /\ copies[c][f] = local[c][f]
         \/ copies' = [copies EXCEPT ![c][f] = Store!Owned(c, f)]
      /\ copies = [copies EXCEPT ![c][f] = copies[c][f]]
  BY <1>1, <1>2, EndRmShows
<1>4. /\ f \in Files /\ c \in Users /\ storedFiles[f] = Absent
      /\ withdrawnFiles' = [withdrawnFiles EXCEPT ![f] = Absent]
      /\ withdrawnFiles = [withdrawnFiles EXCEPT ![f] = withdrawnFiles[f]]
      /\ withdrawnFiles[f] = IF Pending(f) THEN ContentOf(tempList[Find(tempList, f)].storeList)
                             ELSE Absent
  BY <1>1, <1>3, RmEndsViews
<1>5. Publish(f) \/ Drop(f) \/ Refuse(f)
  BY <1>1, <1>2
<1>6. Drop(f) \/ Refuse(f) => storedFiles' = storedFiles
  BY StoredStay, Zenon DEF Drop, Refuse
<1>7. CASE CommitRm(c) /\ copy = Absent
  <2>1. storedFiles' = storedFiles
    BY <1>1, <1>6, <1>7
  <2>. QED BY <1>3, <1>4, <1>7, <2>1, DiscardShown
<1>8. CASE AbortRm(c) /\ copy = local[c][f] /\ Publish(f)
  <2>1. /\ Pending(f) /\ Find(tempList, f) = 1 /\ tempList[1].fileName = f
        /\ tempList[1] \in ToSet(tempList) /\ fileList' = Append(fileList, tempList[1])
        /\ ToSet(fileList') = ToSet(fileList) \cup {tempList[1]}
    BY <1>1, <1>5, <1>8, EntryEnds
  <2>2. withdrawnFiles[f] = ContentOf(tempList[1].storeList)
    BY <1>4, <2>1
  <2>3. withdrawnFiles[f] # Absent
    BY <1>1, <2>1, <2>2, WholeIsThere DEF Withdrawn
  <2>4. storedFiles' = [storedFiles EXCEPT ![f] = withdrawnFiles[f]]
    BY <1>4, <2>1, <2>2, PublishedIs
  <2>5. copies' = copies \/ copies' = [copies EXCEPT ![c][f] = Store!Owned(c, f)]
    BY <1>3, <1>8
  <2>. QED BY <1>3, <1>4, <2>3, <2>4, <2>5, ReinstateShown
<1>9. CASE AbortRm(c) /\ copy = local[c][f] /\ Refuse(f)
  <2>1. storedFiles' = storedFiles
    BY <1>6, <1>9
  <2>2. CASE copies' = [copies EXCEPT ![c][f] = Store!Owned(c, f)]
    BY <1>3, <1>4, <2>1, <2>2, DiscardShown
  <2>3. CASE copies' = [copies EXCEPT ![c][f] = copy] /\ copies[c][f] = local[c][f]
    <3>1. copies' = copies
      BY <1>3, <1>9, <2>3
    <3>2. withdrawnFiles' = withdrawnFiles
      <4>1. ~Pending(f)
        BY <1>9, Zenon DEF Refuse
      <4>. QED BY <1>4, <4>1
    <3>. QED BY <1>3, <2>1, <3>1, <3>2, StutterShown
  <2>. QED BY <1>3, <2>2, <2>3
<1>. QED BY <1>1, <1>2, <1>7, <1>8, <1>9

-----------------------------------------------------------------------------
(***************************************************************************)
(* Puts and gets: a file is published, a version is chosen.                *)
(***************************************************************************)
\* A put ends: the file is published, or nothing is.
LEMMA PutEndsShown ==
  ASSUME Sound, KnownOnce', OneWriter, NEW c \in Clients, Step(c), CommitPut(c) \/ AbortPut(c)
  PROVE  Shown
<1>. PICK f : f = File(c)
  OBVIOUS
<1>1. /\ pc[c] \in Writing /\ pc'[c] = "idle" /\ UNCHANGED <<op, local, bak>>
      /\ pc[c] \in {"putBlock", "abortPut"} /\ Own(c)
      /\ \/ Drop(f) \/ Refuse(f)
         \/ pc[c] = "putBlock" /\ AtEnd(c) /\ Publish(f)
  <2>1. CommitPut(c) => pc[c] = "putBlock"
    BY Zenon DEF CommitPut
  <2>2. AbortPut(c) => pc[c] = "abortPut"
    BY Zenon DEF AbortPut
  <2>. QED BY <2>1, <2>2, PutEndsAre, StepsAreOwn
<1>2. /\ pc[c] \notin Removal /\ pc'[c] \notin Removal
      /\ pc[c] \notin Downloading /\ pc'[c] \notin Downloading
  BY <1>1 DEF Removal, RmPhase, Downloading
<1>3. Copy(c)' = Copy(c) /\ Chosen(c)' = Chosen(c)
  BY <1>1, <1>2 DEF Copy, Chosen
<1>4. CASE Drop(f) \/ Refuse(f)
  <2>1. fileList' = fileList
    BY <1>4, Zenon DEF Drop, Refuse
  <2>. QED BY <1>1, <1>2, <1>3, <2>1, UnseenShown
<1>5. CASE pc[c] = "putBlock" /\ AtEnd(c) /\ Publish(f)
  <2>1. /\ ClientInv(c) /\ CopySafe(c) /\ KnownOnce /\ f \in Files /\ c \in Users
        /\ ListsInv
    BY <1>1, <1>5, OwnParts DEF ClientSteady, Sound, NamesInv, Controls
  <2>2. /\ Pending(f) /\ Find(tempList, f) = 1 /\ tempList[1].fileName = f
        /\ tempList[1] \in ToSet(tempList) /\ fileList' = Append(fileList, tempList[1])
        /\ ToSet(fileList') = ToSet(fileList) \cup {tempList[1]} /\ Len(tempList) = 1
    BY <1>1, <1>5, EntryEnds
  <2>3. /\ tempList[1].storeList = Sending /\ ContentOf(Sending) = local[c][f]
    <3>1. tempList # <<>>
      BY <2>2, EmptySeq
    <3>. QED BY <1>5, <3>1, SentIsWhole
  <2>4. local[c][f] # Absent /\ bak[c][f] = Absent
    <3>1. local[c][f] \in Seq(Units)
      BY <1>5, <2>1 DEF ClientInv
    <3>2. ~SettingAside(c)
      BY <1>2, <1>5 DEF SettingAside
    <3>. QED BY <2>1, <3>1, <3>2, AbsentAssumption DEF CopySafe
  <2>5. copies[c][f] = local[c][f] /\ copies[c][f] # Absent
    <3>1. copies[c] = Copy(c)
      BY Views
    <3>2. Copy(c)[f] = local[c][f]
      BY <2>1, <2>4 DEF Copy
    <3>. QED BY <2>4, <3>1, <3>2
  <2>6. storedFiles[f] = Absent
    <3>1. f \in NamesOf(tempList)
      BY <2>2 DEF NamesOf
    <3>. QED BY <2>1, <3>1, NotListed, Views
  <2>7. storedFiles' = [storedFiles EXCEPT ![f] = copies[c][f]]
    BY <2>1, <2>2, <2>3, <2>5, PublishedIs
  <2>8. withdrawnFiles[f] = Absent /\ withdrawnFiles' = withdrawnFiles
    <3>1. \A g \in Files : withdrawnFiles[g] = Absent /\ withdrawnFiles'[g] = Absent
      BY <1>1, <1>2, WithdrawnIs
    <3>2. /\ withdrawnFiles = [g \in Files |-> withdrawnFiles[g]]
          /\ withdrawnFiles' = [g \in Files |-> withdrawnFiles'[g]]
      BY <1>1, WithdrawnIs
    <3>. QED BY <2>1, <3>1, <3>2
  <2>9. UNCHANGED <<chosenFiles, copies>>
    <3>1. /\ chosenFiles' = [chosenFiles EXCEPT ![c] = chosenFiles[c]]
          /\ copies' = [copies EXCEPT ![c] = copies[c]]
      BY <1>1, <1>3, OwnViews
    <3>2. /\ chosenFiles = [d \in Clients |-> chosenFiles[d]]
          /\ copies = [d \in Clients |-> copies[d]]
      BY Views
    <3>. QED BY <3>1, <3>2
  <2>. QED BY <2>1, <2>5, <2>6, <2>7, <2>8, <2>9, PublishShown
<1>. QED BY <1>1, <1>4, <1>5

\* What the steps of a reader leave alone.
LEMMA ReaderLeaves ==
  ASSUME Sound, NEW c \in Clients, Own(c), UNCHANGED nsVars,
         pc[c] \notin Removal, pc'[c] \notin Removal
  PROVE  UNCHANGED <<storedFiles, withdrawnFiles>>
<1>1. \A f \in Files : Removing(f)' <=> Removing(f)
  BY RemovingStays
<1>. QED BY <1>1, StoredStay, WithdrawnStay DEF nsVars

\* The version a get brings is settled as it begins.
LEMMA BeginGetShown ==
  ASSUME Sound, OneWriter, NEW c \in Clients, Step(c), BeginGet(c)
  PROVE  Shown
<1>. PICK f, stores : f = File(c) /\ stores = beginGetReply(f)
  OBVIOUS
<1>1. Domains /\ Own(c)
  BY OwnParts, StepsAreOwn
<1>2. /\ pc[c] = "beginGet" /\ UNCHANGED <<nsVars, op, local, bak>>
      /\ \/ \E result : Return(c, result)
         \/ Walk(c, stores) /\ Goto(c, "getBlock")
  BY Zenon DEF BeginGet, GetGoesOn, Die, dsVars
<1>3. f \in Files /\ pc[c] \notin Removal /\ pc[c] \notin Downloading /\ Copy(c)' = Copy(c)
      /\ File(c)' = f
  BY <1>2, OwnParts DEF Removal, RmPhase, Downloading, Copy, File
<1>4. CASE \E result : Return(c, result)
  <2>1. pc'[c] = "idle"
    BY <1>1, <1>4 DEF Return, Goto, Domains
  <2>2. pc'[c] \notin Removal /\ pc'[c] \notin Downloading
    BY <2>1 DEF Removal, RmPhase, Downloading
  <2>. QED BY <1>1, <1>2, <1>3, <2>2, UnseenShown DEF nsVars
<1>5. CASE Walk(c, stores) /\ Goto(c, "getBlock")
  <2>1. pc'[c] = "getBlock" /\ list'[c] = stores
    BY <1>1, <1>5 DEF Walk, Goto, Domains
  <2>2. pc'[c] \notin Removal /\ pc'[c] \in Downloading
    BY <2>1 DEF Removal, RmPhase, Downloading
  <2>3. UNCHANGED <<storedFiles, withdrawnFiles>>
    BY <1>1, <1>2, <1>3, <2>2, ReaderLeaves
  <2>4. ContentOf(stores) = IF storedFiles[f] = Absent THEN <<>> ELSE storedFiles[f]
    <3>1. storedFiles[f] = StoredAs(f)
      BY <1>3, Views
    <3>2. CASE Listed(f)
      <4>1. StoredAs(f) = ContentOf(stores)
        BY <3>2 DEF StoredAs
      <4>2. ContentOf(stores) # Absent
        BY RepliesWhole, WholeIsThere
      <4>. QED BY <3>1, <4>1, <4>2
    <3>3. CASE ~Listed(f)
      <4>1. StoredAs(f) = Absent /\ stores = <<>>
        BY <3>3 DEF StoredAs, beginGetReply
      <4>. QED BY <3>1, <4>1, EmptyContent
    <3>. QED BY <3>2, <3>3
  <2>5. chosenFiles[c] = Absent
    BY <1>1, <1>3, OwnViews DEF Chosen
  <2>6. Chosen(c)' = [file |-> f, content |-> ContentOf(stores)]
    BY <1>3, <2>1, <2>2 DEF Chosen
  <2>7. /\ chosenFiles' = [chosenFiles EXCEPT ![c] =
                [file |-> f, content |-> IF storedFiles[f] = Absent THEN <<>> ELSE storedFiles[f]]]
        /\ copies' = copies
    <3>1. /\ chosenFiles' = [chosenFiles EXCEPT ![c] = Chosen(c)']
          /\ copies' = [copies EXCEPT ![c] = copies[c]]
      BY <1>1, <1>3, OwnViews
    <3>2. copies = [d \in Clients |-> copies[d]]
      BY Views
    <3>. QED BY <2>4, <2>6, <3>1, <3>2
  <2>. QED BY <1>3, <2>3, <2>5, <2>7, ChooseShown
<1>. QED BY <1>2, <1>4, <1>5

\* A download has a file that is something.
LEMMA ChosenIsThere ==
  ASSUME Sound, NEW c \in Clients, pc[c] \in Downloading
  PROVE  /\ chosenFiles[c] = [file |-> File(c), content |-> ContentOf(list[c])]
         /\ chosenFiles[c] # Absent /\ File(c) \in Files /\ ContentOf(list[c]) \in Seq(Units)
<1>1. File(c) \in Files /\ Whole(list[c])
  <2>1. pc[c] # "idle"
    BY DEF Downloading
  <2>. QED BY <2>1, OwnParts, GetIsAt
<1>2. ContentOf(list[c]) \in Seq(Units)
  BY <1>1 DEF Whole, StandsFor
<1>3. chosenFiles[c] = [file |-> File(c), content |-> ContentOf(list[c])]
  BY Views DEF Chosen
<1>. QED BY <1>1, <1>2, <1>3, AbsentAssumption

\* A block comes up: the download goes on or is given up.
LEMMA GetBlockShown ==
  ASSUME Sound, OneWriter, NEW c \in Clients, Step(c), GetBlock(c)
  PROVE  Shown
<1>1. Domains /\ Own(c)
  BY OwnParts, StepsAreOwn
<1>2. /\ pc[c] = "getBlock" /\ UNCHANGED <<nsVars, op, local, bak>>
      /\ \/ UNCHANGED <<pc, list>>
         \/ Goto(c, "getWait") /\ UNCHANGED list
         \/ Return(c, "CANCELLED")
  BY Zenon DEF GetBlock
<1>3. pc[c] \notin Removal /\ pc[c] \in Downloading /\ Copy(c)' = Copy(c)
  BY <1>2 DEF Removal, RmPhase, Downloading, Copy
<1>4. CASE UNCHANGED list /\ (UNCHANGED pc \/ Goto(c, "getWait"))
  <2>1. pc'[c] \notin Removal /\ pc'[c] \in Downloading
    BY <1>1, <1>2, <1>4 DEF Goto, Domains, Removal, RmPhase, Downloading
  <2>. QED BY <1>1, <1>2, <1>3, <1>4, <2>1, UnseenShown DEF nsVars
<1>5. CASE Return(c, "CANCELLED")
  <2>1. pc'[c] = "idle"
    BY <1>1, <1>5 DEF Return, Goto, Domains
  <2>2. pc'[c] \notin Removal /\ pc'[c] \notin Downloading
    BY <2>1 DEF Removal, RmPhase, Downloading
  <2>3. UNCHANGED <<storedFiles, withdrawnFiles>>
    BY <1>1, <1>2, <1>3, <2>2, ReaderLeaves
  <2>4. chosenFiles' = [chosenFiles EXCEPT ![c] = Absent] /\ copies' = copies
    <3>1. /\ chosenFiles' = [chosenFiles EXCEPT ![c] = Chosen(c)']
          /\ copies' = [copies EXCEPT ![c] = copies[c]]
      BY <1>1, <1>3, OwnViews
    <3>2. copies = [d \in Clients |-> copies[d]]
      BY Views
    <3>3. Chosen(c)' = Absent
      BY <2>2 DEF Chosen
    <3>. QED BY <3>1, <3>2, <3>3
  <2>. QED BY <1>3, <2>3, <2>4, ChosenIsThere, GiveUpShown
<1>. QED BY <1>2, <1>4, <1>5

-----------------------------------------------------------------------------
(***************************************************************************)
(* The content a get delivers is the version it chose, up to the last      *)
(* block.                                                                  *)
(***************************************************************************)
\* The number of the last block.
LEMMA LastBlock ==
  ASSUME NEW size \in Nat \ {0}, NEW m \in Nat \ {0}
  PROVE  \E q \in Nat :
           /\ q = (size - 1) \div m
           /\ q * m \in Nat /\ q * m < size /\ size <= q * m + m
           /\ \A i \in Nat : i * m < size => i <= q
           /\ \A i \in Nat : i < q => i * m \in Nat /\ i * m + m <= q * m
<1>1. \A x \in Nat, y \in Nat \ {0} :
        (x \div y) \in Nat /\ (x \div y) * y <= x /\ x < (x \div y) * y + y
  OBVIOUS
<1>2. PICK q \in Nat : q = (size - 1) \div m /\ q * m <= size - 1 /\ size - 1 < q * m + m
  <2>1. size - 1 \in Nat
    OBVIOUS
  <2>. QED BY <1>1, <2>1
<1>3. \A x, y, z \in Nat : x < y => x * z + z <= y * z
  <2>1. \A x, d, z \in Nat : x * z + z <= (x + 1 + d) * z
    OBVIOUS
  <2>2. \A x, y \in Nat : x < y => y - x - 1 \in Nat /\ x + 1 + (y - x - 1) = y
    OBVIOUS
  <2>. QED BY <2>1, <2>2
<1>4. q * m \in Nat /\ \A i \in Nat : i * m \in Nat
  <2>1. \A x, y \in Nat : x * y \in Nat
    OBVIOUS
  <2>. QED BY <2>1
<1>5. ASSUME NEW i \in Nat, i * m < size PROVE i <= q
  <2>1. q < i => q * m + m <= i * m
    BY <1>3
  <2>. PICK a, b : a = q * m /\ b = i * m
    OBVIOUS
  <2>2. q < i => size - 1 < b
    BY <1>2, <1>4, <2>1
  <2>. QED BY <1>4, <1>5, <2>2
<1>6. \A i \in Nat : i < q => i * m \in Nat /\ i * m + m <= q * m
  BY <1>3, <1>4
<1>7. q * m < size /\ size <= q * m + m
  BY <1>2, <1>4
<1>. QED BY <1>2, <1>4, <1>5, <1>6, <1>7

\* What is composed of a block is a sequence of units.
LEMMA BlockIsList ==
  ASSUME NEW n \in Nat, NEW last \in [1 .. n -> Units]
  PROVE  last \in Seq(Units) /\ Len(last) = n
<1>1. last \in Seq(Units) /\ DOMAIN last = 1 .. n
  BY SeqDef
<1>. QED BY <1>1, LenProperties

\* A content with another last block.
Replaced(content, p, last) == SubSeq(content, 1, p) \o last

IsReplaced(new, content, size, p, last) ==
  /\ new \in Seq(Units) /\ Len(new) = size /\ SubSeq(new, p + 1, size) = last
  /\ \A b \in 1 .. p : \A a \in 1 .. b : SubSeq(new, a, b) = SubSeq(content, a, b)

\* Its units are those of the content before its last block.
LEMMA LastReplaced ==
  ASSUME NEW content \in Seq(Units), NEW size \in Nat, size = Len(content),
         NEW p \in Nat, p < size, NEW last \in Seq(Units), Len(last) = size - p
  PROVE  IsReplaced(Replaced(content, p, last), content, size, p, last)
<1>. PICK new : new = SubSeq(content, 1, p) \o last
  OBVIOUS
<1>. PICK s : s = SubSeq(content, 1, p)
  OBVIOUS
<1>1. s \in Seq(Units) /\ Len(s) = p
  <2>1. \A k \in 1 .. p : content[k] \in Units
    BY ElementOfSeq
  <2>2. /\ SubSeq(content, 1, p) \in Seq(Units)
        /\ Len(SubSeq(content, 1, p)) = IF 1 <= p THEN p - 1 + 1 ELSE 0
    BY ONLY <2>1, SubSeqProperties, p \in Int, 1 \in Int
  <2>. QED BY <2>2
<1>2. last \in Seq(Units) /\ Len(last) = size - p
  OBVIOUS
<1>3. new \in Seq(Units) /\ Len(new) = size
  <2>1. new = s \o last
    OBVIOUS
  <2>2. s \o last \in Seq(Units) /\ Len(s \o last) = Len(s) + Len(last)
    BY ONLY <1>1, <1>2, ConcatProperties
  <2>3. Len(s) + Len(last) = size
    BY <1>1, <1>2
  <2>. QED BY <2>1, <2>2, <2>3
<1>4. SubSeq(new, p + 1, size) = last
  <2>1. /\ p + 1 \in Len(s) + 1 .. Len(s) + Len(last)
        /\ size \in Len(s) + 1 .. Len(s) + Len(last)
    BY <1>1, <1>2
  <2>2. SubSeq(s \o last, p + 1, size) = SubSeq(last, p + 1 - Len(s), size - Len(s))
    BY ONLY <1>1, <1>2, <2>1, SubSeqOfConcat2
  <2>3. SubSeq(last, 1, Len(last)) = last
    BY ONLY <1>2, SubSeqFull
  <2>4. p + 1 - Len(s) = 1 /\ size - Len(s) = Len(last)
    BY <1>1, <1>2
  <2>. QED BY <2>2, <2>3, <2>4
<1>5. ASSUME NEW b \in 1 .. p, NEW a \in 1 .. b PROVE SubSeq(new, a, b) = SubSeq(content, a, b)
  <2>1. a \in 1 .. Len(s) /\ b \in 1 .. Len(s)
    BY <1>1
  <2>2. SubSeq(s \o last, a, b) = SubSeq(s, a, b)
    BY ONLY <1>1, <1>2, <2>1, SubSeqOfConcat1
  <2>3. SubSeq(SubSeq(content, 1, p), a, b) = SubSeq(content, 1 + a - 1, 1 + b - 1)
    <3>1. /\ 1 \in 1 .. Len(content) /\ p \in 1 .. Len(content)
          /\ a \in 1 .. p - 1 + 1 /\ b \in 1 .. p - 1 + 1 /\ content \in Seq(Units)
      OBVIOUS
    <3>. QED BY ONLY <3>1, SubSeqOfSubSeq
  <2>4. 1 + a - 1 = a /\ 1 + b - 1 = b
    OBVIOUS
  <2>. QED BY <2>2, <2>3, <2>4
<1>. QED BY <1>3, <1>4, <1>5 DEF IsReplaced, Replaced

\* The blocks a get composes at its end: all but the last one came.
LEMMA ComposedAtEnd ==
  ASSUME Sound, NEW c \in Clients, Matching(c), pc[c] = "getBlock", AtEnd(c),
         NEW q \in Nat, NEW K \in 1 .. Len(list[c]), list[c][K].blockIdx = q,
         NEW k \in 1 .. Len(list[c])
  PROVE  /\ Composed(c, list[c][k]) \in [1 .. list[c][k].blockSize -> Units]
         /\ list[c][k].blockIdx < q => Composed(c, list[c][k]) = list[c][k].blockHash
         /\ list[c][k].blockIdx = q /\ list[c][k].blockSize = list[c][K].blockSize =>
              Composed(c, list[c][k]) = Composed(c, list[c][K])
<1>. DEFINE b == list[c][k]
            data == got[c][b.blockIdx].data
            u(j) == IF j <= Len(data) THEN data[j] ELSE Garbage
<1>1. ClientInv(c) /\ pc[c] \in Downloading
  BY OwnParts DEF Downloading
<1>2. /\ Len(list[c]) \in Nat /\ b.blockIdx \in Nat /\ b.blockSize \in Nat
      /\ list[c][K].blockIdx \in Nat
  BY <1>1, EntriesAreStores
<1>3. at[c] - 1 = Len(list[c])
  <2>. PICK n, m : n = at[c] /\ m = Len(list[c])
    OBVIOUS
  <2>1. n \in 1 .. m + 1
    BY <1>1 DEF ClientInv
  <2>2. n > m
    BY DEF AtEnd
  <2>3. n - 1 = m
    BY ONLY <1>2, <2>1, <2>2, m = Len(list[c])
  <2>. QED BY <2>3
<1>4. b.blockIdx \in DOMAIN got[c] /\ \A i \in DOMAIN got[c] : got[c][i].data \in Seq(Units)
  <2>1. DOMAIN got[c] = Tried(c, Len(list[c]))
    BY <1>1, <1>3 DEF ClientInv
  <2>. QED BY <1>1, <2>1 DEF ClientInv, Tried
<1>5. data \in Seq(Units) /\ Len(data) \in Nat
  BY <1>4, LenProperties
<1>6. Composed(c, b) = [j \in 1 .. b.blockSize |-> u(j)]
  BY Zenon DEF Composed
<1>7. Composed(c, b) \in [1 .. b.blockSize -> Units]
  <2>. HIDE DEF data
  <2>1. \A j \in 1 .. b.blockSize : u(j) \in Units
    <3>1. Garbage \in Units
      BY Zenon DEF Units
    <3>2. \A j \in 1 .. b.blockSize : j <= Len(data) => data[j] \in Units
      BY <1>2, <1>5, ElementOfSeq
    <3>. QED BY <3>1, <3>2
  <2>. HIDE DEF u
  <2>. QED BY <1>6, <2>1
<1>8. ASSUME b.blockIdx < q PROVE Composed(c, b) = b.blockHash
  <2>1. PICK n \in Nat : /\ Downloaded(c) = 0 .. n - 1
                         /\ \A j \in 1 .. at[c] - 1 : list[c][j].blockIdx <= n
    BY <1>1, GetIsAt
  <2>2. q <= n
    BY <1>3, <2>1
  <2>3. b.blockIdx \in Downloaded(c)
    BY <1>2, <1>8, <2>1, <2>2
  <2>4. got[c][b.blockIdx].ok
    BY <2>3 DEF Downloaded
  <2>5. data = b.blockHash /\ Len(data) = b.blockSize
    BY <1>1, <1>4, <2>4 DEF Matching, Fits
  <2>. HIDE DEF data
  <2>6. data = [j \in 1 .. Len(data) |-> data[j]]
    BY <1>5, LenProperties
  <2>7. \A j \in 1 .. Len(data) : u(j) = data[j]
    BY <1>5
  <2>. HIDE DEF u
  <2>. QED BY <1>6, <2>5, <2>6, <2>7
<1>9. b.blockIdx = q /\ b.blockSize = list[c][K].blockSize => Composed(c, b) = Composed(c, list[c][K])
  BY Zenon DEF Composed
<1>. QED BY <1>7, <1>8, <1>9

\* The size of the blocks of a content: all are full but the last one.
LEMMA PieceSizes ==
  ASSUME NEW size \in Nat, NEW q \in Nat, NEW p \in Nat, p = q * maxBlockSize,
         p < size, size <= p + maxBlockSize,
         NEW i \in Nat, i <= q,
         i < q => i * maxBlockSize \in Nat /\ i * maxBlockSize + maxBlockSize <= p
  PROVE  /\ i = q => PieceSize(size, i) = size - p
         /\ i < q => PieceSize(size, i) = maxBlockSize
         /\ PieceSize(size, i) \in 1 .. maxBlockSize
<1>. PICK m, x : m = maxBlockSize /\ x = i * maxBlockSize
  OBVIOUS
<1>1. PieceSize(size, i) = IF size - x > m THEN m ELSE size - x
  BY DEF PieceSize
<1>2. m \in Nat \ {0}
  BY PlacementAssumption
<1>3. (i = q => x = p) /\ (i < q => x \in Nat /\ x + m <= p)
  OBVIOUS
<1>4. i = q \/ i < q
  OBVIOUS
<1>. QED BY ONLY <1>1, <1>2, <1>3, <1>4, p \in Nat, size \in Nat, p < size, size <= p + m,
            m = maxBlockSize

\* A get brings the version it was answered, up to the last block.
LEMMA CompositionDelivered ==
  ASSUME Sound, NEW c \in Clients, Matching(c), pc[c] = "getBlock", AtEnd(c)
  PROVE  Composition(c) \in Store!Delivered(ContentOf(list[c]))
<1>. PICK l, content, size : /\ l = list[c] /\ content = ContentOf(list[c])
                             /\ size = Len(ContentOf(list[c]))
  OBVIOUS
<1>1. ClientInv(c) /\ pc[c] \in Downloading /\ Whole(l) /\ l \in Seq(BlockStore) /\ Contiguous(l)
  <2>1. ClientInv(c) /\ pc[c] \in Downloading
    BY OwnParts DEF Downloading
  <2>. QED BY <2>1, GetIsAt DEF ClientInv, Downloading
<1>2. /\ Len(l) \in Nat /\ DOMAIN l = 1 .. Len(l)
      /\ \A k \in 1 .. Len(l) : l[k] \in BlockStore /\ l[k].blockIdx \in Nat
  BY <1>1, EntriesAreStores
<1>3. /\ content \in Seq(Units) /\ size \in Nat /\ size = Len(content)
      /\ \A k \in 1 .. Len(l) : /\ l[k].blockIdx * maxBlockSize < size
                                /\ l[k].blockSize = PieceSize(size, l[k].blockIdx)
                                /\ l[k].blockHash = BlockOf(content, l[k])
      /\ \A i \in Nat : i * maxBlockSize < size => \E k \in 1 .. Len(l) : l[k].blockIdx = i
  <2>1. StandsFor(l, content)
    BY <1>1 DEF Whole
  <2>. QED BY <2>1, LenProperties DEF StandsFor, Cuts, Covers
<1>4. CASE size = 0
  <2>1. content = <<>>
    BY <1>3, <1>4, EmptySeq
  <2>2. \A k \in 1 .. Len(l) : l[k].blockIdx * maxBlockSize \in Nat
    <3>1. \A x, y \in Nat : x * y \in Nat
      OBVIOUS
    <3>. QED BY <1>2, <3>1, PlacementAssumption
  <2>3. Len(l) = 0
    <3>1. Len(l) # 0 => 1 \in 1 .. Len(l)
      BY <1>2
    <3>2. \A k \in 1 .. Len(l) : FALSE
      BY <1>3, <1>4, <2>2
    <3>. QED BY <3>1, <3>2
  <2>4. DOMAIN l = {}
    BY <1>2, <2>3
  <2>5. Composition(c) = ContentOf(l)
    <3>. DEFINE e(k) == IF FirstOfBlock(l, k) THEN Composed(c, l[k]) ELSE <<>>
                h(k) == IF FirstOfBlock(l, k) THEN l[k].blockHash ELSE <<>>
    <3>1. Composition(c) = FlattenSeq([k \in DOMAIN l |-> e(k)])
      BY Zenon DEF Composition
    <3>2. ContentOf(l) = FlattenSeq([k \in DOMAIN l |-> h(k)])
      BY Zenon DEF ContentOf
    <3>. HIDE DEF e, h
    <3>3. [k \in DOMAIN l |-> e(k)] = [k \in DOMAIN l |-> h(k)]
      BY <2>4
    <3>. QED BY <3>1, <3>2, <3>3
  <2>. QED BY <2>1, <2>5 DEF Store!Delivered
<1>5. CASE size # 0
  <2>. PICK m : m = maxBlockSize
    OBVIOUS
  <2>1. m \in Nat \ {0} /\ size \in Nat \ {0}
    BY <1>3, <1>5, PlacementAssumption
  <2>2. PICK q \in Nat :
          /\ q = (size - 1) \div m /\ q * m \in Nat /\ q * m < size /\ size <= q * m + m
          /\ \A i \in Nat : i * m < size => i <= q
          /\ \A i \in Nat : i < q => i * m \in Nat /\ i * m + m <= q * m
    BY <2>1, LastBlock
  <2>. PICK p : p = q * m
    OBVIOUS
  <2>3. p \in Nat /\ p < size /\ size <= p + m
    BY <2>2
  <2>4. PICK K \in 1 .. Len(l) : l[K].blockIdx = q
    BY <1>3, <2>2
  <2>5. ASSUME NEW k \in 1 .. Len(l)
        PROVE  LET i == l[k].blockIdx
               IN  /\ i \in Nat /\ i <= q
                   /\ i = q => l[k].blockSize = size - p
                   /\ i < q => l[k].blockSize = m /\ i * m \in Nat /\ i * m + m <= p
                   /\ l[k].blockSize \in 1 .. m /\ l[k].blockSize = PieceSize(size, i)
    <3>. PICK i : i = l[k].blockIdx
      OBVIOUS
    <3>1. i \in Nat /\ i * m < size /\ l[k].blockSize = PieceSize(size, i)
      BY <1>2, <1>3
    <3>2. i <= q
      BY <2>2, <3>1
    <3>3. i < q => i * m \in Nat /\ i * m + m <= p
      BY <2>2, <3>1
    <3>4. /\ i = q => PieceSize(size, i) = size - p
          /\ i < q => PieceSize(size, i) = m
          /\ PieceSize(size, i) \in 1 .. m
      <4>1. /\ size \in Nat /\ q \in Nat /\ p \in Nat /\ p = q * maxBlockSize
            /\ p < size /\ size <= p + maxBlockSize /\ i \in Nat /\ i <= q
            /\ i < q => i * maxBlockSize \in Nat /\ i * maxBlockSize + maxBlockSize <= p
        BY <1>3, <2>3, <3>1, <3>2, <3>3
      <4>2. /\ i = q => PieceSize(size, i) = size - p
            /\ i < q => PieceSize(size, i) = maxBlockSize
            /\ PieceSize(size, i) \in 1 .. maxBlockSize
        BY ONLY <4>1, PieceSizes
      <4>. QED BY <4>2
    <3>. QED BY <3>1, <3>2, <3>3, <3>4
  <2>. PICK last, new : last = Composed(c, l[K]) /\ new = SubSeq(content, 1, p) \o last
    OBVIOUS
  <2>6. ASSUME NEW k \in 1 .. Len(l)
        PROVE  /\ Composed(c, l[k]) \in [1 .. l[k].blockSize -> Units]
               /\ l[k].blockIdx < q => Composed(c, l[k]) = l[k].blockHash
               /\ l[k].blockIdx = q => Composed(c, l[k]) = last
    <3>1. l[k].blockIdx = q => l[k].blockSize = l[K].blockSize
      BY <2>4, <2>5
    <3>. QED BY <2>4, <3>1, ComposedAtEnd
  <2>7. last \in [1 .. size - p -> Units]
    BY <2>4, <2>5, <2>6
  <2>8. /\ new \in Seq(Units) /\ Len(new) = size /\ SubSeq(new, p + 1, size) = last
        /\ \A b \in 1 .. p : \A a \in 1 .. b : SubSeq(new, a, b) = SubSeq(content, a, b)
    <3>1. /\ content \in Seq(Units) /\ size \in Nat /\ size = Len(content) /\ p \in Nat /\ p < size
          /\ new = SubSeq(content, 1, p) \o last
      BY <1>3, <2>3
    <3>. PICK n : n = size - p
      OBVIOUS
    <3>6. n \in Nat /\ last \in [1 .. n -> Units]
      BY <2>7, <3>1
    <3>4. last \in Seq(Units) /\ Len(last) = n
      BY ONLY <3>6, BlockIsList
    <3>5. last \in Seq(Units) /\ Len(last) = size - p
      BY <3>4
    <3>2. IsReplaced(Replaced(content, p, last), content, size, p, last)
      BY ONLY <3>1, <3>5, LastReplaced
    <3>3. new = Replaced(content, p, last)
      BY <3>1 DEF Replaced
    <3>. QED BY <3>2, <3>3 DEF IsReplaced
  <2>9. ASSUME NEW k \in 1 .. Len(l)
        PROVE  LET i == l[k].blockIdx
               IN  Composed(c, l[k]) = SubSeq(new, i * m + 1, i * m + PieceSize(size, i))
    <3>. PICK i, x, h : i = l[k].blockIdx /\ x = i * m /\ h = Composed(c, l[k])
      OBVIOUS
    <3>1. (i = q \/ i < q) /\ l[k].blockSize = PieceSize(size, i)
      BY <2>5
    <3>2. CASE i = q
      <4>1. h = last /\ x = p /\ PieceSize(size, i) = size - p
        BY <2>5, <2>6, <3>2
      <4>2. p + PieceSize(size, i) = size
        BY <1>3, <2>3, <4>1
      <4>3. h = SubSeq(new, x + 1, x + PieceSize(size, i))
        BY <2>8, <4>1, <4>2
      <4>. QED BY <4>3
    <3>3. CASE i < q
      <4>1. /\ h = l[k].blockHash /\ PieceSize(size, i) = m /\ x \in Nat /\ x + m <= p
            /\ l[k].blockSize = m
        BY <2>5, <2>6, <3>3
      <4>2. h = SubSeq(content, x + 1, x + m)
        <5>1. l[k].blockHash = BlockOf(content, l[k])
          BY <1>3
        <5>. QED BY <4>1, <5>1 DEF BlockOf
      <4>3. x + m \in 1 .. p /\ x + 1 \in 1 .. x + m
        BY ONLY <2>1, <2>3, <4>1
      <4>4. h = SubSeq(new, x + 1, x + PieceSize(size, i))
        <5>1. SubSeq(new, x + 1, x + m) = SubSeq(content, x + 1, x + m)
          BY ONLY <2>8, <4>3
        <5>. QED BY <4>1, <4>2, <5>1
      <4>. QED BY <4>4
    <3>. QED BY <3>1, <3>2, <3>3
  <2>10. PICK stores : stores = [k \in 1 .. Len(l) |-> [l[k] EXCEPT !.blockHash = Composed(c, l[k])]]
    OBVIOUS
  <2>11. \A k \in 1 .. Len(l) : /\ stores[k] \in BlockStore
                                /\ stores[k].blockIdx = l[k].blockIdx
                                /\ stores[k].blockHash = Composed(c, l[k])
    <3>1. ASSUME NEW k \in 1 .. Len(l) PROVE Composed(c, l[k]) \in BlockHashes
      BY <2>5, <2>6, DFSAssumption DEF DFSAssumption
    <3>. QED BY <1>2, <2>10, <3>1 DEF BlockStore
  <2>12. stores \in Seq(BlockStore) /\ Len(stores) = Len(l) /\ DOMAIN stores = DOMAIN l
    <3>1. stores \in [1 .. Len(l) -> BlockStore]
      BY <2>10, <2>11
    <3>2. stores \in Seq(BlockStore) /\ DOMAIN stores = 1 .. Len(l)
      BY ONLY <1>2, <3>1, SeqDef
    <3>3. Len(stores) = Len(l)
      BY ONLY <1>2, <3>2, LenProperties
    <3>. QED BY <1>2, <3>2, <3>3
  <2>13. Contiguous(stores)
    <3>1. stores # <<>> => Len(l) # 0 /\ l # <<>> /\ 1 \in 1 .. Len(l)
      BY <1>2, <2>12, EmptySeq
    <3>2. \A k \in 1 .. Len(l) - 1 : k \in 1 .. Len(l) /\ k + 1 \in 1 .. Len(l)
      BY <1>2
    <3>. QED BY <1>1, <2>11, <2>12, <3>1, <3>2 DEF Contiguous
  <2>14. ContentOf(stores) = new
    <3>1. \A k \in 1 .. Len(stores) :
            LET i == stores[k].blockIdx
            IN  /\ i * maxBlockSize < Len(new)
                /\ stores[k].blockHash =
                     SubSeq(new, i * maxBlockSize + 1, i * maxBlockSize + PieceSize(Len(new), i))
      <4>. SUFFICES ASSUME NEW k \in 1 .. Len(stores)
                    PROVE  LET i == stores[k].blockIdx
                           IN  /\ i * maxBlockSize < Len(new)
                               /\ stores[k].blockHash =
                                    SubSeq(new, i * maxBlockSize + 1,
                                           i * maxBlockSize + PieceSize(Len(new), i))
        OBVIOUS
      <4>. PICK i : i = l[k].blockIdx
        OBVIOUS
      <4>1. k \in 1 .. Len(l)
        BY <2>12
      <4>2. stores[k].blockIdx = i /\ stores[k].blockHash = Composed(c, l[k])
        BY <2>11, <4>1
      <4>3. i * maxBlockSize < size
        BY <1>3, <4>1
      <4>4. Composed(c, l[k]) = SubSeq(new, i * maxBlockSize + 1,
                                       i * maxBlockSize + PieceSize(size, i))
        BY <2>9, <4>1
      <4>5. Len(new) = size
        BY <2>8
      <4>. QED BY <4>2, <4>3, <4>4, <4>5
    <3>2. \A i \in Nat : i * maxBlockSize < Len(new) =>
            \E k \in 1 .. Len(stores) : stores[k].blockIdx = i
      <4>. SUFFICES ASSUME NEW i \in Nat, i * maxBlockSize < Len(new)
                    PROVE  \E k \in 1 .. Len(stores) : stores[k].blockIdx = i
        OBVIOUS
      <4>1. PICK k \in 1 .. Len(l) : l[k].blockIdx = i
        BY <1>3, <2>8
      <4>. QED BY <2>11, <2>12, <4>1
    <3>. QED BY ONLY <2>8, <2>12, <2>13, <3>1, <3>2, PiecesMakeFile
  <2>15. Composition(c) = ContentOf(stores)
    <3>. DEFINE e(k) == IF FirstOfBlock(l, k) THEN Composed(c, l[k]) ELSE <<>>
                h(k) == IF FirstOfBlock(stores, k) THEN stores[k].blockHash ELSE <<>>
    <3>1. Composition(c) = FlattenSeq([k \in 1 .. Len(l) |-> e(k)])
      BY <1>2, Zenon DEF Composition
    <3>2. ContentOf(stores) = FlattenSeq([k \in 1 .. Len(l) |-> h(k)])
      BY <1>2, <2>12, Zenon DEF ContentOf
    <3>3. ASSUME NEW k \in 1 .. Len(l) PROVE e(k) = h(k)
      <4>1. FirstOfBlock(stores, k) <=> FirstOfBlock(l, k)
        <5>1. k # 1 => k - 1 \in 1 .. Len(l)
          BY <1>2
        <5>. QED BY <2>11, <5>1 DEF FirstOfBlock
      <4>. QED BY <2>11, <4>1
    <3>. HIDE DEF e, h
    <3>4. [k \in 1 .. Len(l) |-> e(k)] = [k \in 1 .. Len(l) |-> h(k)]
      BY <3>3
    <3>. QED BY <3>1, <3>2, <3>4
  <2>16. content # <<>>
    <3>1. content = <<>> => Len(content) = 0
      OBVIOUS
    <3>. QED BY <1>3, <1>5, <3>1
  <2>17. Store!Body(content) = p
    BY <1>3, <2>2 DEF Store!Body
  <2>18. new \in Store!Delivered(content)
    BY <1>3, <2>7, <2>16, <2>17 DEF Store!Delivered
  <2>. QED BY <2>14, <2>15, <2>18
<1>. QED BY <1>4, <1>5

-----------------------------------------------------------------------------
(***************************************************************************)
(* Every step of the file system is one of FileStore, or none.             *)
(***************************************************************************)
\* A get ends: the copy is the version it was answered, up to the last block.
LEMMA CommitGetShown ==
  ASSUME Sound, OneWriter, NEW c \in Clients, Matching(c), Step(c), CommitGet(c)
  PROVE  Shown
<1>. PICK f, new : f = File(c) /\ new = Composition(c)
  OBVIOUS
<1>1. Domains /\ Own(c) /\ CopySafe(c) /\ DOMAIN local[c] = Files /\ DOMAIN bak[c] = Files
  BY OwnParts, StepsAreOwn DEF ClientSteady
<1>2. /\ pc[c] = "getBlock" /\ AtEnd(c) /\ UNCHANGED <<nsVars, op, bak>>
      /\ local' = [local EXCEPT ![c][f] = new] /\ Return(c, "OK")
  BY Zenon DEF CommitGet
<1>3. pc'[c] = "idle"
  BY <1>1, <1>2 DEF Return, Goto, Domains
<1>4. /\ pc[c] \notin Removal /\ pc'[c] \notin Removal
      /\ pc[c] \in Downloading /\ pc'[c] \notin Downloading
  BY <1>2, <1>3 DEF Removal, RmPhase, Downloading
<1>5. UNCHANGED <<storedFiles, withdrawnFiles>>
  BY <1>1, <1>2, <1>4, ReaderLeaves
<1>6. /\ chosenFiles[c] # Absent /\ f \in Files
      /\ chosenFiles[c].file = f /\ chosenFiles[c].content = ContentOf(list[c])
  <2>. PICK content, x : content = ContentOf(list[c]) /\ x = chosenFiles[c]
    OBVIOUS
  <2>1. x = [file |-> f, content |-> content] /\ x # Absent /\ f \in Files
    BY <1>4, ChosenIsThere
  <2>2. x.file = f /\ x.content = content
    BY ONLY <2>1
  <2>. QED BY <2>1, <2>2
<1>7. new \in Store!Delivered(chosenFiles[c].content)
  <2>1. Composition(c) \in Store!Delivered(ContentOf(list[c]))
    BY <1>2, CompositionDelivered
  <2>. QED BY <1>6, <2>1
<1>8. chosenFiles' = [chosenFiles EXCEPT ![c] = Absent]
  <2>1. Chosen(c)' = Absent
    BY <1>4 DEF Chosen
  <2>2. chosenFiles' = [chosenFiles EXCEPT ![c] = Chosen(c)']
    BY <1>1, OwnViews
  <2>. QED BY <2>1, <2>2
<1>9. copies' = [copies EXCEPT ![c][chosenFiles[c].file] = new]
  <2>1. \A g \in Files : bak[c][g] = Absent
    BY <1>1, <1>2 DEF CopySafe, SettingAside, Removal, RmPhase
  <2>2. local'[c] = [local[c] EXCEPT ![f] = new] /\ bak'[c] = bak[c]
    BY <1>1, <1>2 DEF Domains
  <2>3. Copy(c)' = [Copy(c) EXCEPT ![f] = new]
    BY <1>1, <1>6, <2>1, <2>2 DEF Copy
  <2>4. copies' = [copies EXCEPT ![c] = Copy(c)'] /\ copies[c] = Copy(c)
    BY <1>1, OwnViews
  <2>5. copies' = [copies EXCEPT ![c] = [copies[c] EXCEPT ![f] = new]]
    BY <2>3, <2>4
  <2>. QED BY <1>6, <2>5
<1>. QED BY ONLY <1>5, <1>6, <1>7, <1>8, <1>9, DeliverShown, c \in Clients

\* The user edits a file.
LEMMA EditsShown ==
  ASSUME Sound, OneWriter, UserEdits
  PROVE  Shown
<1>1. PICK c \in Users, f \in Files, content \in Contents : Edit(c, f, content)
  BY Zenon DEF UserEdits
<1>2. c \in Clients
  BY DFSAssumption DEF DFSAssumption
<1>3. Domains /\ CopySafe(c) /\ DOMAIN local[c] = Files /\ DOMAIN bak[c] = Files
  BY <1>2, OwnParts DEF ClientSteady
<1>4. /\ pc[c] = "idle" /\ local' = [local EXCEPT ![c][f] = content]
      /\ UNCHANGED <<nsVars, pc, op, list, at, got, status, bak>>
  BY <1>1 DEF Edit
<1>5. Own(c)
  <2>1. local' = [local EXCEPT ![c] = [local[c] EXCEPT ![f] = content]]
    BY <1>4
  <2>. QED BY <1>4, <2>1, Zenon DEF Own
<1>6. pc[c] \notin Removal /\ pc'[c] \notin Removal /\ pc'[c] \notin Downloading
      /\ pc[c] \notin Downloading
  BY <1>4 DEF Removal, RmPhase, Downloading
<1>7. UNCHANGED <<storedFiles, withdrawnFiles>>
  BY <1>2, <1>4, <1>5, <1>6, ReaderLeaves
<1>8. chosenFiles' = chosenFiles
  <2>1. Chosen(c)' = Chosen(c)
    BY <1>6 DEF Chosen
  <2>2. chosenFiles' = [chosenFiles EXCEPT ![c] = chosenFiles[c]]
    BY <1>2, <1>5, <2>1, OwnViews
  <2>3. chosenFiles = [d \in Clients |-> chosenFiles[d]]
    BY Views
  <2>. QED BY <2>2, <2>3
<1>9. copies' = [copies EXCEPT ![c][f] = content]
  <2>1. \A g \in Files : bak[c][g] = Absent
    BY <1>3, <1>4 DEF CopySafe, SettingAside, Removal, RmPhase
  <2>2. local'[c] = [local[c] EXCEPT ![f] = content] /\ bak'[c] = bak[c]
    BY <1>2, <1>3, <1>4 DEF Domains
  <2>3. Copy(c)' = [Copy(c) EXCEPT ![f] = content]
    BY <1>3, <2>1, <2>2 DEF Copy
  <2>4. copies' = [copies EXCEPT ![c] = Copy(c)'] /\ copies[c] = Copy(c)
    BY <1>2, <1>5, OwnViews
  <2>. QED BY <2>3, <2>4
<1>. QED BY <1>7, <1>8, <1>9, EditShown

\* The servers and their calls: what a block server writes and reports of a put
\* does not show before the put commits.
LEMMA ServesShown ==
  ASSUME Sound, OneWriter, NEW call \in calls, Serve(call)
  PROVE  Shown
<1>. PICK c : c = call.caller
  OBVIOUS
<1>1. c \in Clients /\ c # Orphan
  BY CallersWait, DFSAssumption DEF DFSAssumption
<1>2. (PutWrites(call) \/ PutReports(call)) /\ UNCHANGED clVars
  BY <1>1, Zenon DEF Serve
<1>3. call.method = "putBlock"
  BY <1>2, Zenon DEF PutWrites, PutReports
<1>4. pc[c] = "putWait"
  BY <1>3, OwnParts DEF Sound, Steady, CallsAwait, Awaited, WaitsFor
<1>5. Own(c) /\ UNCHANGED <<pc, op, list, local, bak>>
  BY <1>2, ServesOwn
<1>6. fileList' = fileList
  <2>1. ASSUME UNCHANGED nsVars PROVE fileList' = fileList
    BY <2>1 DEF nsVars
  <2>2. ASSUME NEW f, NEW k, NEW n, NEW h, NameService(updateBlockInfo(f, k, n, h))
        PROVE  fileList' = fileList
    BY <2>1, <2>2, Zenon DEF NameService, updateBlockInfo
  <2>. QED BY <1>2, <2>1, <2>2, Zenon DEF PutWrites, PutReports
<1>7. pc[c] \in Writing \ Removal /\ pc[c] \notin Downloading
  BY <1>4 DEF Writing, Removal, RmPhase, Downloading
<1>8. Copy(c)' = Copy(c)
  BY <1>5 DEF Copy
<1>. QED BY <1>1, <1>5, <1>6, <1>7, <1>8, UnseenShown

\* Servers that fail and come back change nothing of what is stored.
LEMMA ServersShown ==
  ASSUME UNCHANGED <<clVars, fileList, tempList>>
  PROVE  Shown
<1>1. UNCHANGED <<pc, op, list, local, bak>>
  BY DEF clVars
<1>2. UNCHANGED <<storedFiles, withdrawnFiles>>
  BY <1>1 DEF storedFiles, withdrawnFiles, Listed, beginGetReply, Removing, Pending, File
<1>3. UNCHANGED <<chosenFiles, copies>>
  BY <1>1 DEF chosenFiles, copies, File
<1>. QED BY <1>2, <1>3, StutterShown

\* Only what data servers do is left of the failures.
LEMMA FailuresShown ==
  ASSUME Sound, OnlyServersFail, Crashes \/ Restarts
  PROVE  Shown
<1>1. IInv /\ ListsInv /\ up
  BY DEF Sound, DInv, IInv, Steady, NameServerRuns
<1>2. ASSUME NEW s, CrashDataServer(s) \/ Listen(s) PROVE UNCHANGED <<fileList, tempList>>
  <2>1. UNCHANGED nsVars
    BY <1>2, Zenon DEF CrashDataServer, Listen
  <2>. QED BY <2>1 DEF nsVars
<1>3. ASSUME NEW s, RegisterDataServer(s) PROVE UNCHANGED <<fileList, tempList>>
  <2>1. startServer(s, ServerHash(s))
    BY <1>3, Zenon DEF RegisterDataServer
  <2>. QED BY <1>1, <2>1, RingGrows
<1>4. Crashes => \E s \in Servers : CrashDataServer(s) /\ UNCHANGED clVars
  <2>1. "client" \notin Faults /\ "name" \notin Faults
    BY DEF OnlyServersFail
  <2>. QED BY <2>1, Zenon DEF Crashes
<1>5. Restarts => \E s \in Servers : (RegisterDataServer(s) \/ Listen(s)) /\ UNCHANGED clVars
  BY <1>1, Zenon DEF Restarts
<1>. QED BY <1>2, <1>3, <1>4, <1>5, ServersShown

\* Every step of the file system is a step of what it promises, or none.
LEMMA StepsShown ==
  ASSUME Sound, KnownOnce', OneWriter, OnlyServersFail, \A c \in Clients : Matching(c),
         [Next]_dfsVars
  PROVE  Shown
<1>1. ASSUME NEW c \in Clients, Step(c) PROVE Shown
  <2>1. CASE BeginRm(c) \/ AbortRm(c) \/ CommitRm(c)
    BY <1>1, <2>1, BeginRmShown, RmEndsShown
  <2>2. CASE BeginPut(c) \/ AbortPut(c) \/ CommitPut(c)
    BY <1>1, <2>2, BeginPutShown, PutEndsShown
  <2>3. CASE BeginGet(c) \/ GetBlock(c) \/ CommitGet(c)
    BY <1>1, <2>3, BeginGetShown, GetBlockShown, CommitGetShown
  <2>4. CASE \/ RmBlock(c) \/ RmBlockDone(c) \/ PutBlock(c) \/ PutBlockDone(c) \/ CallFails(c)
             \/ GetUnit(c) \/ GetBlockDone(c)
    BY <1>1, <2>4, BlockStepsShown
  <2>. QED BY <1>1, <2>1, <2>2, <2>3, <2>4, Zenon DEF Step
<1>2. CASE UNCHANGED dfsVars
  <2>1. UNCHANGED <<clVars, fileList, tempList>>
    BY <1>2 DEF dfsVars, vars, nsVars
  <2>. QED BY <2>1, ServersShown
<1>. QED BY <1>1, <1>2, BeginShown, EditsShown, ServesShown, FailuresShown, Zenon DEF Next

\* At first nothing is stored, withdrawn or chosen, and there are no copies.
LEMMA InitShown ==
  ASSUME Init
  PROVE  Store!Init
<1>1. fileList = <<>>
  BY DEF Init
<1>2. /\ pc = [c \in Clients |-> "idle"]
      /\ local = [c \in Clients |-> [f \in Files |-> Absent]]
      /\ bak = [c \in Clients |-> [f \in Files |-> Absent]]
  BY Zenon DEF Init
<1>3. \A f : ~Listed(f)
  <2>1. fileList \in Seq(ToSet(fileList)) /\ \A f : f \notin NamesOf(fileList)
    BY <1>1, EmptyKnown DEF NameList
  <2>2. \A f : Find(fileList, f) = 0
    BY ONLY <2>1, NameFound
  <2>. QED BY <2>2, Zenon DEF Listed
<1>4. \A f : ~Removing(f)
  BY <1>2, DFSAssumption DEF Removing, DFSAssumption
<1>5. storedFiles = [f \in Files |-> Absent]
  BY <1>3, Zenon DEF storedFiles
<1>6. withdrawnFiles = [f \in Files |-> Absent]
  BY <1>4, Zenon DEF withdrawnFiles
<1>7. chosenFiles = [c \in Clients |-> Absent]
  BY <1>2 DEF chosenFiles
<1>8. copies = [c \in Clients |-> [f \in Files |-> Absent]]
  BY <1>2 DEF copies
<1>. QED BY <1>5, <1>6, <1>7, <1>8 DEF Store!Init

\* One client that writes, and only data servers that fail, at any moment and as
\* often as they like: the file system does what FileStore promises. A put shows
\* whole at commitPutTransaction, a removal at beginRmTransaction for good or until
\* it is undone, and a get brings the version of its begin but for its last block.
THEOREM StoreImplemented ==
  OneWriter /\ OnlyServersFail /\ Servers # {} /\ BlockIndices = Nat
    => (Spec => ImplementsFileStore)
<1>. SUFFICES ASSUME OneWriter, OnlyServersFail, Servers # {}, BlockIndices = Nat
              PROVE  Spec => ImplementsFileStore
  OBVIOUS
<1>1. Init => Store!Init
  BY InitShown
<1>2. Init => \A c \in Clients : Matching(c)
  BY DEF Init, Matching, Downloading
<1>3. (\A c \in Clients : Matching(c)) /\ DInv /\ [Next]_dfsVars
        => (\A c \in Clients : Matching(c))'
  BY MatchingStays DEF MInv
<1>4. Sound /\ NamesInv' /\ (\A c \in Clients : Matching(c)) /\ [Next]_dfsVars
        => [Store!Next]_(Store!storeVars)
  BY StepsShown DEF NamesInv, Shown
<1>5. Spec => []DInv /\ []NamesInv /\ []Sound
  BY TypesKept, NamesHold, SteadyHolds
<1>. QED BY <1>1, <1>2, <1>3, <1>4, <1>5, PTL DEF Spec, ImplementsFileStore, Store!Spec
==============================================================================
