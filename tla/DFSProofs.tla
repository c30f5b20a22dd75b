------------------------------- MODULE DFSProofs -------------------------------
(***************************************************************************)
(* Theorems about the whole file system: type correctness first, then what *)
(* holds of names and versions whoever fails, then what holds until        *)
(* something crashes.                                                      *)
(***************************************************************************)
EXTENDS DFS, NameServerLemmas

-----------------------------------------------------------------------------
(***************************************************************************)
(* The data servers.  A block file holds at most maxBlockSize units, also  *)
(* when two calls write it at once; a file that a call has open and that   *)
(* still has its name is there.                                            *)
(***************************************************************************)

\* Contents of block files, a digest of all but the empty one.
Pieces == {b \in Seq(Units) : Len(b) <= maxBlockSize}

BlockCall ==
  [method : {"getBlock", "putBlock", "rmBlock"}, caller : Clients \cup {Orphan},
   server : Servers, file : Files, blockIdx : Nat, data : Pieces, left : Pieces,
   linked : BOOLEAN, reported : BOOLEAN, short : BOOLEAN]

CallInv(call) ==
  /\ call \in BlockCall /\ call.server \in running
  /\ call.method = "putBlock" => call.data # <<>> /\ Len(call.left) <= Len(call.data)
  /\ call.linked => disk[call.server][BlockName(call)] \in Pieces

ServersInv ==
  /\ starting \subseteq Servers /\ running \subseteq Servers \ starting
  /\ disk \in [Servers -> [Files \X Nat -> {Absent} \cup Pieces]]
  /\ \A call \in calls : CallInv(call)

\* What a put stores has a digest.
LEMMA PiecesHaveDigests ==
  ASSUME DFSAssumption, NEW b \in Pieces, b # <<>>
  PROVE  b \in BlockHashes /\ Len(b) \in 1 .. maxBlockSize
<1>1. Len(b) \in Nat /\ b \in [1 .. Len(b) -> Units] /\ Len(b) # 0
  BY LenProperties, EmptySeq DEF Pieces
<1>2. maxBlockSize \in Nat
  BY PlacementAssumption
<1>3. Len(b) \in 1 .. maxBlockSize
  BY <1>1, <1>2 DEF Pieces
<1>. QED BY <1>1, <1>3 DEF DFSAssumption

\* A file just opened to be written is a piece.
LEMMA EmptyPiece == <<>> \in Pieces
BY EmptySeq, PlacementAssumption DEF Pieces

\* New calls, and calls that end.
LEMMA CallsKeep ==
  ASSUME ServersInv, UNCHANGED <<processes, disk>>,
         \A call \in calls' : call \in calls \/ CallInv(call)
  PROVE  ServersInv'
BY DEF ServersInv, CallInv, processes

\* getBlock and rmBlock, begun on a file that is there.
LEMMA ReadersKeep ==
  ASSUME ServersInv, NEW c \in Clients, NEW file \in Files, NEW e \in BlockStore,
         getBlock(c, file, e) \/ rmBlock(c, file, e)
  PROVE  ServersInv'
<1>. PICK method \in {"getBlock", "rmBlock"} :
       /\ calls' = calls \cup {NewCall(method, c, file, e, <<>>)}
       /\ UNCHANGED <<processes, disk>>
  BY DEF getBlock, rmBlock
<1>. DEFINE call == NewCall(method, c, file, e, <<>>)
<1>1. /\ e.server.address \in running /\ e.blockIdx \in Nat
      /\ disk[e.server.address][<<file, e.blockIdx>>] # Absent
  BY DEF getBlock, rmBlock, BlockMatches, SizeMatches, Block, BlockStore
<1>2. disk[e.server.address][<<file, e.blockIdx>>] \in Pieces
  <2>1. disk[e.server.address] \in [Files \X Nat -> {Absent} \cup Pieces]
    BY <1>1 DEF ServersInv
  <2>. QED BY <1>1, <2>1
<1>3. CallInv(call)
  <2>1. call \in BlockCall
    BY <1>1, EmptyPiece DEF NewCall, BlockCall, ServersInv
  <2>. QED BY <1>1, <1>2, <2>1 DEF NewCall, CallInv, BlockName
<1>. HIDE DEF call
<1>. QED BY <1>3, CallsKeep DEF call

\* One block file of one server changes, the calls of other files do not mind.
LEMMA DiskKeeps ==
  ASSUME ServersInv, UNCHANGED processes,
         NEW s \in Servers, NEW b \in Files \X Nat, NEW x \in {Absent} \cup Pieces,
         disk' = [disk EXCEPT ![s][b] = x],
         \A call \in calls' :
           /\ call \in BlockCall /\ call.server \in running
           /\ call.method = "putBlock" => call.data # <<>> /\ Len(call.left) <= Len(call.data)
           /\ call.linked =>
                \/ call.server = s /\ BlockName(call) = b /\ x \in Pieces
                \/ /\ ~(call.server = s /\ BlockName(call) = b)
                   /\ disk[call.server][BlockName(call)] \in Pieces
  PROVE  ServersInv'
<1>1. disk' \in [Servers -> [Files \X Nat -> {Absent} \cup Pieces]]
  BY DEF ServersInv
<1>2. \A t \in Servers : \A d \in Files \X Nat :
        disk'[t][d] = IF t = s /\ d = b THEN x ELSE disk[t][d]
  BY DEF ServersInv
<1>3. ASSUME NEW call \in calls' PROVE CallInv(call)'
  <2>1. call.server \in Servers /\ BlockName(call) \in Files \X Nat
    BY DEF BlockCall, BlockName
  <2>. QED BY <1>2, <2>1 DEF CallInv, processes
<1>. QED BY <1>1, <1>3 DEF ServersInv, processes

\* putBlock, which opens its file.
LEMMA PutStartKeeps ==
  ASSUME ServersInv, NEW c \in Clients, NEW file \in Files, NEW e \in BlockStore,
         NEW data \in Pieces, data # <<>>, putBlock(c, file, e, data)
  PROVE  ServersInv'
<1>. DEFINE new == NewCall("putBlock", c, file, e, data)
            s == e.server.address
            b == <<file, e.blockIdx>>
<1>1. /\ s \in running /\ s \in Servers /\ b \in Files \X Nat
      /\ disk' = [disk EXCEPT ![s][b] = <<>>] /\ calls' = calls \cup {new}
      /\ UNCHANGED processes
  BY DEF putBlock, BlockStore, ServersInv
<1>2. /\ new \in BlockCall /\ new.server = s /\ BlockName(new) = b
      /\ new.method = "putBlock" => new.data # <<>> /\ Len(new.left) <= Len(new.data)
  <2>1. new \in BlockCall
    BY <1>1, EmptyPiece DEF NewCall, BlockCall
  <2>2. Len(data) \in Nat
    BY LenProperties DEF Pieces
  <2>. QED BY <2>1, <2>2 DEF NewCall, BlockName
<1>. HIDE DEF new, s, b
<1>3. \A call \in calls : CallInv(call)
  BY DEF ServersInv
<1>4. \A call \in calls' :
           /\ call \in BlockCall /\ call.server \in running
           /\ call.method = "putBlock" => call.data # <<>> /\ Len(call.left) <= Len(call.data)
           /\ call.linked =>
                \/ call.server = s /\ BlockName(call) = b /\ <<>> \in Pieces
                \/ /\ ~(call.server = s /\ BlockName(call) = b)
                   /\ disk[call.server][BlockName(call)] \in Pieces
  BY <1>1, <1>2, <1>3, EmptyPiece DEF CallInv
<1>. QED BY <1>1, <1>4, DiskKeeps, EmptyPiece

\* The larger of two positions.
LEMMA MaxOfTwo ==
  ASSUME NEW a \in Nat, NEW b \in Nat
  PROVE  Max({a, b}) \in {a, b} /\ Max({a, b}) >= a /\ Max({a, b}) >= b
<1>1. {a, b, b} = {a, b}
  OBVIOUS
<1>2. \A c \in Nat : /\ Max({a, b, c}) \in {a, b, c}
                     /\ Max({a, b, c}) >= a /\ Max({a, b, c}) >= b
  BY MaxOfThree
<1>. QED BY <1>1, <1>2

\* What a write leaves is a piece: no put writes beyond its own data.
LEMMA WritesPiece ==
  ASSUME NEW call, CallInv(call), call.method = "putBlock", call.linked, call.left # <<>>
  PROVE  AfterWrite(call) \in Pieces
<1>. DEFINE old == disk[call.server][BlockName(call)]
            n == Len(call.data) - Len(call.left) + 1
            m == Max({n, Len(old)})
            e(k) == IF k = n THEN Head(call.left) ELSE IF k <= Len(old) THEN old[k] ELSE Garbage
<1>1. /\ old \in Seq(Units) /\ Len(old) \in Nat /\ Len(old) <= maxBlockSize
      /\ call.data \in Seq(Units) /\ Len(call.data) \in Nat /\ Len(call.data) <= maxBlockSize
      /\ call.left \in Seq(Units) /\ Len(call.left) \in Nat /\ Len(call.left) # 0
      /\ Len(call.left) <= Len(call.data)
  <2>1. old \in Pieces /\ call.data \in Pieces /\ call.left \in Pieces
    BY DEF CallInv, BlockCall
  <2>2. Len(call.left) <= Len(call.data)
    BY DEF CallInv
  <2>. QED BY <2>1, <2>2, LenProperties, EmptySeq DEF Pieces
<1>2. n \in Nat /\ n <= maxBlockSize /\ maxBlockSize \in Nat
  BY <1>1, PlacementAssumption
<1>. HIDE DEF old, n
<1>3. m \in Nat /\ m <= maxBlockSize
  BY <1>1, <1>2, MaxOfTwo
<1>4. ASSUME NEW k \in 1 .. m PROVE e(k) \in Units
  <2>1. Head(call.left) \in Units
    BY <1>1, HeadTailProperties
  <2>2. Garbage \in Units
    BY Zenon DEF Units
  <2>3. k <= Len(old) => old[k] \in Units
    BY <1>1, <1>3, ElementOfSeq, k \in Nat
  <2>. QED BY <2>1, <2>2, <2>3
<1>5. AfterWrite(call) = [k \in 1 .. m |-> e(k)]
  BY Zenon DEF AfterWrite, old, n
<1>. HIDE DEF m, e
<1>6. [k \in 1 .. m |-> e(k)] \in Seq(Units)
  BY <1>3, <1>4, IsASeq
<1>7. Len([k \in 1 .. m |-> e(k)]) = m
  BY <1>3, <1>6, LenProperties
<1>. QED BY <1>3, <1>5, <1>6, <1>7 DEF Pieces

\* A unit written, or nothing, by a call that is under way.
LEMMA WriteKeeps ==
  ASSUME ServersInv, NEW call \in calls, call.method = "putBlock", WriteUnit(call),
         UNCHANGED processes,
         \A d \in calls' : d \in calls \/ (call.left # <<>> /\ d = [call EXCEPT !.left = Tail(@)])
  PROVE  ServersInv'
<1>. DEFINE s == call.server
            b == BlockName(call)
<1>1. /\ \A d \in calls : CallInv(d)
      /\ call \in BlockCall /\ s \in Servers /\ b \in Files \X Nat
  BY DEF ServersInv, CallInv, BlockCall, BlockName
<1>2. \A d \in calls' : /\ d \in BlockCall /\ d.server \in running
                        /\ d.method = "putBlock" => d.data # <<>> /\ Len(d.left) <= Len(d.data)
                        /\ d.linked => disk[d.server][BlockName(d)] \in Pieces
  <2>1. ASSUME NEW d, call.left # <<>>, d = [call EXCEPT !.left = Tail(@)]
        PROVE  /\ d \in BlockCall /\ d.server \in running
               /\ d.method = "putBlock" => d.data # <<>> /\ Len(d.left) <= Len(d.data)
               /\ d.linked => disk[d.server][BlockName(d)] \in Pieces
    <3>1. /\ call.left \in Seq(Units) /\ Len(call.left) \in Nat /\ Len(call.left) <= maxBlockSize
          /\ call.data # <<>> /\ Len(call.left) <= Len(call.data) /\ Len(call.data) \in Nat
          /\ maxBlockSize \in Nat
      BY <1>1, LenProperties, PlacementAssumption DEF BlockCall, Pieces, CallInv
    <3>2. Tail(call.left) \in Seq(Units) /\ Len(Tail(call.left)) = Len(call.left) - 1
      BY <2>1, <3>1, HeadTailProperties
    <3>3. Tail(call.left) \in Pieces
      BY <3>1, <3>2 DEF Pieces
    <3>4. d \in BlockCall /\ d.left = Tail(call.left)
      BY <1>1, <2>1, <3>3 DEF BlockCall
    <3>5. /\ d.server = call.server /\ BlockName(d) = BlockName(call)
          /\ d.method = call.method /\ d.data = call.data /\ d.linked = call.linked
      BY <1>1, <2>1 DEF BlockCall, BlockName
    <3>. QED BY <1>1, <3>1, <3>2, <3>4, <3>5 DEF CallInv
  <2>. QED BY <1>1, <2>1 DEF CallInv
<1>3. CASE call.linked /\ call.left # <<>>
  <2>1. AfterWrite(call) \in Pieces /\ disk' = [disk EXCEPT ![s][b] = AfterWrite(call)]
    BY <1>1, <1>3, WritesPiece DEF WriteUnit
  <2>. HIDE DEF s, b
  <2>. QED BY <1>1, <1>2, <2>1, DiskKeeps
<1>4. CASE ~(call.linked /\ call.left # <<>>)
  <2>1. UNCHANGED disk
    BY <1>4 DEF WriteUnit
  <2>. QED BY <1>2, <2>1, CallsKeep DEF CallInv
<1>. QED BY <1>3, <1>4

\* putBlock from its first unit to its last.
LEMMA PutStepsKeep ==
  ASSUME ServersInv, NEW call \in calls,
         PutWrites(call) \/ PutReports(call) \/ PutCloses(call)
  PROVE  ServersInv'
<1>1. CASE PutWrites(call)
  <2>. DEFINE next == [call EXCEPT !.left = Tail(@)]
  <2>1. /\ call.method = "putBlock" /\ WriteUnit(call) /\ UNCHANGED processes
        /\ call.left # <<>> /\ calls' = (calls \ {call}) \cup {next}
    BY <1>1, Zenon DEF PutWrites, Replace
  <2>. HIDE DEF next
  <2>2. \A d \in calls' : d \in calls \/ (call.left # <<>> /\ d = next)
    BY <2>1
  <2>. QED BY <2>1, <2>2, WriteKeeps DEF next
<1>2. CASE PutCloses(call)
  <2>1. /\ call.method = "putBlock" /\ WriteUnit(call) /\ UNCHANGED processes
        /\ calls' \subseteq calls
    BY <1>2, Zenon DEF PutCloses
  <2>. QED BY <2>1, WriteKeeps
<1>3. CASE PutReports(call)
  <2>. DEFINE next == [call EXCEPT !.reported = TRUE]
  <2>1. CallInv(call)
    BY DEF ServersInv
  <2>2. CallInv(next)
    BY <2>1 DEF CallInv, BlockCall, BlockName
  <2>. HIDE DEF next
  <2>3. UNCHANGED <<processes, disk>> /\ calls' = (calls \ {call}) \cup {next}
    BY <1>3, Zenon DEF PutReports, Replace, next
  <2>. QED BY <2>2, <2>3, CallsKeep
<1>. QED BY <1>1, <1>2, <1>3

\* rmBlock, which removes a file that others may have open.
LEMMA RemovalKeeps ==
  ASSUME ServersInv, NEW call \in calls, RmRemoves(call)
  PROVE  ServersInv'
<1>. DEFINE s == call.server
            b == BlockName(call)
<1>1. /\ \A d \in calls : CallInv(d)
      /\ call \in BlockCall /\ s \in Servers /\ b \in Files \X Nat
      /\ disk' = [disk EXCEPT ![s][b] = Absent] /\ UNCHANGED processes
  BY DEF ServersInv, CallInv, BlockCall, BlockName, RmRemoves
<1>2. CASE RmFinds(call)
  <2>1. ASSUME NEW o \in calls
        PROVE  LET d == Unlink(call, o)
               IN  /\ d \in BlockCall /\ d.server \in running
                   /\ d.method = "putBlock" => d.data # <<>> /\ Len(d.left) <= Len(d.data)
                   /\ d.linked => /\ ~(d.server = s /\ BlockName(d) = b)
                                  /\ disk[d.server][BlockName(d)] \in Pieces
    <3>1. CallInv(o) /\ o \in BlockCall
      BY <1>1 DEF CallInv
    <3>2. CASE o.linked /\ o.server = s /\ BlockName(o) = b
      <4>1. OpenFile(o) \in Pieces /\ o.left \in Pieces
        BY <3>1, <3>2 DEF OpenFile, CallInv, BlockCall
      <4>2. PICK x \in Pieces :
              /\ Unlink(call, o) = [o EXCEPT !.linked = FALSE, !.left = x]
              /\ o.method # "getBlock" => x = o.left
        BY <3>2, <4>1 DEF Unlink
      <4>. QED BY <3>1, <4>2 DEF CallInv, BlockCall
    <3>3. CASE ~(o.linked /\ o.server = s /\ BlockName(o) = b)
      <4>1. Unlink(call, o) = o
        BY <3>3, Zenon DEF Unlink
      <4>. QED BY <3>1, <3>3, <4>1 DEF CallInv
    <3>. QED BY <3>2, <3>3
  <2>2. calls' = {Unlink(call, o) : o \in calls \ {call}}
    BY <1>2, Zenon DEF RmRemoves
  <2>. HIDE DEF s, b
  <2>3. \A d \in calls' :
           /\ d \in BlockCall /\ d.server \in running
           /\ d.method = "putBlock" => d.data # <<>> /\ Len(d.left) <= Len(d.data)
           /\ d.linked =>
                \/ d.server = s /\ BlockName(d) = b /\ Absent \in Pieces
                \/ /\ ~(d.server = s /\ BlockName(d) = b)
                   /\ disk[d.server][BlockName(d)] \in Pieces
    BY <2>1, <2>2
  <2>. QED BY <1>1, <2>3, DiskKeeps
<1>3. CASE ~RmFinds(call)
  <2>1. calls' = calls \ {call}
    BY <1>3, Zenon DEF RmRemoves
  <2>2. disk' = disk
    BY <1>1, <1>3 DEF RmFinds, ServersInv
  <2>. QED BY <1>1, <2>1, <2>2, CallsKeep
<1>. QED BY <1>2, <1>3

\* A getBlock goes on, remembering that a read failed.
LEMMA ReadKeeps ==
  ASSUME ServersInv, NEW call \in calls, NEW k, GetReads(call, k)
  PROVE  ServersInv'
<1>. DEFINE next == [call EXCEPT !.short = @ \/ k > Len(OpenFile(call))]
<1>1. CallInv(call)
  BY DEF ServersInv
<1>2. CallInv(next)
  <2>1. \A x \in BOOLEAN : CallInv([call EXCEPT !.short = x])
    BY <1>1 DEF CallInv, BlockCall, BlockName
  <2>2. (call.short \/ k > Len(OpenFile(call))) \in BOOLEAN
    OBVIOUS
  <2>. QED BY <2>1, <2>2, Zenon
<1>3. UNCHANGED <<processes, disk>> /\ calls' = (calls \ {call}) \cup {next}
  BY Zenon DEF GetReads, Replace
<1>. HIDE DEF next
<1>. QED BY <1>2, <1>3, CallsKeep

\* A call whose client died goes on with what had arrived of its block.
LEMMA CutKeeps ==
  ASSUME ServersInv, NEW call \in calls, call.method # "getBlock",
         NEW n \in Max({1, Len(call.data) - Len(call.left)}) .. Max({1, Len(call.data)}),
         calls' = Replace(call, Cut(call, n)), UNCHANGED <<processes, disk>>
  PROVE  ServersInv'
<1>1. /\ CallInv(call) /\ call \in BlockCall /\ call.data \in Pieces /\ call.left \in Pieces
      /\ call.data \in Seq(Units) /\ Len(call.data) \in Nat /\ Len(call.data) <= maxBlockSize
      /\ call.left \in Seq(Units) /\ Len(call.left) \in Nat
      /\ maxBlockSize \in Nat
  BY LenProperties, PlacementAssumption DEF ServersInv, CallInv, BlockCall, Pieces
<1>2. CASE call.method = "putBlock" /\ ~call.reported
  <2>. DEFINE D == Len(call.data)
              L == Len(call.left)
              data == SubSeq(call.data, 1, n)
              left == SubSeq(call.data, D - L + 1, n)
              next == [call EXCEPT !.caller = Orphan, !.data = data, !.left = left]
  <2>1. D # 0 /\ L <= D
    BY <1>1, <1>2, EmptySeq DEF CallInv
  <2>2. n \in 1 .. D /\ n >= D - L
    <3>1. D \in Nat \ {0} /\ D - L \in Nat
      BY <1>1, <2>1
    <3>. HIDE DEF D, L
    <3>2. /\ Max({1, D - L}) \in {1, D - L}
          /\ Max({1, D - L}) >= 1 /\ Max({1, D - L}) >= D - L
          /\ Max({1, D}) \in {1, D}
      BY <3>1, MaxOfTwo
    <3>3. n \in Max({1, D - L}) .. Max({1, D})
      BY DEF D, L
    <3>. QED BY <3>1, <3>2, <3>3
  <2>3. data \in Seq(Units) /\ Len(data) = n
    <3>1. \A k \in 1 .. n : call.data[k] \in Units
      BY <1>1, <2>2, ElementOfSeq, \A k \in 1 .. n : k \in 1 .. D
    <3>. QED BY <2>2, <3>1, SubSeqProperties
  <2>4. left \in Seq(Units) /\ Len(left) <= n
    <3>1. \A k \in D - L + 1 .. n : call.data[k] \in Units
      BY <1>1, <2>1, <2>2, ElementOfSeq, \A k \in D - L + 1 .. n : k \in 1 .. D
    <3>2. D - L + 1 \in Int /\ n \in Int
      BY <1>1, <2>2
    <3>. HIDE DEF D, L
    <3>3. /\ left \in Seq(Units)
          /\ Len(left) = IF D - L + 1 <= n THEN n - (D - L + 1) + 1 ELSE 0
      BY <3>1, <3>2, SubSeqProperties
    <3>. QED BY <1>1, <2>1, <2>2, <3>3 DEF D, L
  <2>5. data \in Pieces /\ left \in Pieces /\ data # <<>> /\ Len(left) <= Len(data)
    <3>1. Len(left) \in Nat
      BY <2>4, LenProperties
    <3>. HIDE DEF data, left
    <3>. QED BY <1>1, <2>2, <2>3, <2>4, <3>1, EmptySeq DEF Pieces
  <2>. HIDE DEF data, left, D, L
  <2>6. CallInv(next)
    BY <1>1, <2>5 DEF CallInv, BlockCall, BlockName
  <2>7. Cut(call, n) = next
    BY <1>2, Zenon DEF Cut, data, left, D, L
  <2>. HIDE DEF next
  <2>. QED BY <2>6, <2>7, CallsKeep DEF Replace
<1>3. CASE ~(call.method = "putBlock" /\ ~call.reported)
  <2>. DEFINE next == [call EXCEPT !.caller = Orphan]
  <2>1. CallInv(next)
    BY <1>1 DEF CallInv, BlockCall, BlockName
  <2>2. Cut(call, n) = next
    BY <1>3, Zenon DEF Cut
  <2>. HIDE DEF next
  <2>. QED BY <2>1, <2>2, CallsKeep DEF Replace
<1>. QED BY <1>2, <1>3

\* Data servers that start and die.
LEMMA ProcessesKeep ==
  ASSUME ServersInv, NEW s \in Servers,
         RegisterDataServer(s) \/ Listen(s) \/ CrashDataServer(s)
  PROVE  ServersInv'
<1>1. /\ starting' \subseteq Servers /\ running' \subseteq Servers \ starting'
      /\ calls' \subseteq calls /\ \A call \in calls' : call.server \in running'
  BY DEF RegisterDataServer, Listen, CrashDataServer, ServersInv, CallInv
<1>2. /\ disk' \in [Servers -> [Files \X Nat -> {Absent} \cup Pieces]]
      /\ \A call \in calls' : disk'[call.server] = disk[call.server]
  <2>1. CASE RegisterDataServer(s) \/ Listen(s)
    BY <2>1 DEF RegisterDataServer, Listen, ServersInv
  <2>2. CASE CrashDataServer(s)
    <3>1. PICK removed :
            disk' = [disk EXCEPT ![s] =
                       [b \in DOMAIN @ |-> IF b \in removed THEN Absent ELSE @[b]]]
      BY <2>2, Zenon DEF CrashDataServer
    <3>2. disk[s] \in [Files \X Nat -> {Absent} \cup Pieces]
      BY DEF ServersInv
    <3>. DEFINE left == [b \in DOMAIN disk[s] |-> IF b \in removed THEN Absent ELSE disk[s][b]]
    <3>3. left \in [Files \X Nat -> {Absent} \cup Pieces]
      BY <3>2
    <3>4. disk' = [disk EXCEPT ![s] = left]
      BY <3>1
    <3>. HIDE DEF left
    <3>5. \A call \in calls' : call.server \in Servers /\ call.server # s
      BY <2>2 DEF CrashDataServer, ServersInv, CallInv
    <3>. QED BY <3>3, <3>4, <3>5 DEF ServersInv
  <2>. QED BY <2>1, <2>2
<1>3. \A call \in calls' : CallInv(call)'
  BY <1>1, <1>2 DEF ServersInv, CallInv
<1>. QED BY <1>1, <1>2, <1>3 DEF ServersInv

-----------------------------------------------------------------------------
(***************************************************************************)
(* The clients.  The iterator is at an entry while a block call is waited  *)
(* for; a put works from a list that cuts the copy it sends; a get has kept*)
(* something of each block it has passed.                                  *)
(***************************************************************************)
ControlPoints ==
  {"idle", "beginRm", "rmBlock", "rmWait", "abortRm", "beginPut", "putBlock", "putWait",
   "abortPut", "beginGet", "getBlock", "getWait"}

Results == {"none", "running", "OK", "CANCELLED", "crashed"}

Copies == [Files -> {Absent} \cup Seq(Units)]

\* A get's blocks up to the n-th entry of its list.
Tried(c, n) == {list[c][k].blockIdx : k \in 1 .. n}

\* An entry asks for a piece of a file of that size.
Cuts(e, size) ==
  e.blockIdx * maxBlockSize < size /\ e.blockSize = PieceSize(size, e.blockIdx)

ClientInv(c) ==
  /\ pc[c] \in ControlPoints /\ status[c] \in Results
  /\ list[c] \in Seq(BlockStore) /\ at[c] \in 1 .. Len(list[c]) + 1
  /\ local[c] \in Copies /\ bak[c] \in Copies
  /\ pc[c] # "idle" => File(c) \in Files
  /\ pc[c] \in {"rmWait", "putWait", "getWait"} => ~AtEnd(c)
  /\ pc[c] \in {"beginPut", "putBlock", "putWait"} => local[c][File(c)] \in Seq(Units)
  /\ pc[c] \in {"putBlock", "putWait"} =>
       \A e \in ToSet(list[c]) : Cuts(e, Len(local[c][File(c)]))
  /\ pc[c] \in {"getBlock", "getWait"} =>
       /\ Contiguous(list[c])
       /\ DOMAIN got[c] = Tried(c, IF pc[c] = "getWait" THEN at[c] ELSE at[c] - 1)
       /\ \A i \in DOMAIN got[c] : got[c][i].data \in Seq(Units)

Domains ==
  /\ DOMAIN pc = Clients /\ DOMAIN op = Clients /\ DOMAIN list = Clients
  /\ DOMAIN at = Clients /\ DOMAIN got = Clients /\ DOMAIN status = Clients
  /\ DOMAIN local = Clients /\ DOMAIN bak = Clients

ClientsInv == Domains /\ \A c \in Clients : ClientInv(c)

\* A step of a client changes nothing of another.
Own(c) ==
  /\ pc' = pc \/ \E x : pc' = [pc EXCEPT ![c] = x]
  /\ op' = op \/ \E x : op' = [op EXCEPT ![c] = x]
  /\ list' = list \/ \E x : list' = [list EXCEPT ![c] = x]
  /\ at' = at \/ \E x : at' = [at EXCEPT ![c] = x]
  /\ got' = got \/ \E x : got' = [got EXCEPT ![c] = x]
  /\ status' = status \/ \E x : status' = [status EXCEPT ![c] = x]
  /\ local' = local \/ \E x : local' = [local EXCEPT ![c] = x]
  /\ bak' = bak \/ \E x : bak' = [bak EXCEPT ![c] = x]

\* One value of a function changes.
LEMMA OtherValue ==
  ASSUME NEW f, NEW g, NEW c, NEW d \in DOMAIN f, d # c,
         g = f \/ \E x : g = [f EXCEPT ![c] = x]
  PROVE  g[d] = f[d]
OBVIOUS

\* So the others are where they were.
LEMMA OthersKeep ==
  ASSUME ClientsInv, NEW c \in Clients, Own(c), ClientInv(c)'
  PROVE  ClientsInv'
<1>1. Domains'
  BY Zenon DEF ClientsInv, Domains, Own
<1>2. ASSUME NEW d \in Clients, d # c PROVE ClientInv(d)'
  <2>1. /\ pc'[d] = pc[d] /\ op'[d] = op[d] /\ list'[d] = list[d] /\ at'[d] = at[d]
        /\ got'[d] = got[d] /\ status'[d] = status[d]
        /\ local'[d] = local[d] /\ bak'[d] = bak[d]
    BY <1>2, OtherValue DEF ClientsInv, Domains, Own
  <2>2. ClientInv(d)
    BY DEF ClientsInv
  <2>. QED BY <2>1, <2>2 DEF ClientInv, File, AtEnd, Tried
<1>. QED BY <1>1, <1>2 DEF ClientsInv

\* The beginnings of operations.
LEMMA StartsKeepClients ==
  ASSUME ClientsInv, NEW c \in Clients, NEW f \in Files,
         StartPut(c, f) \/ StartRm(c, f) \/ StartGet(c, f)
  PROVE  ClientsInv'
<1>1. ClientInv(c) /\ Domains
  BY DEF ClientsInv
<1>2. \/ UNCHANGED <<local, bak>>
      \/ /\ bak' = [bak EXCEPT ![c] = [bak[c] EXCEPT ![f] = local[c][f]]]
         /\ local' = [local EXCEPT ![c] = [local[c] EXCEPT ![f] = Absent]]
  BY DEF StartPut, StartRm, StartGet
<1>3. Own(c)
  BY <1>2, Zenon DEF Own, StartPut, StartRm, StartGet, Start, Goto
<1>4. /\ pc'[c] \in {"beginRm", "beginGet"} /\ File(c)' = f /\ status'[c] = "running"
      /\ list'[c] = list[c] /\ at'[c] = at[c]
  BY <1>1 DEF Domains, StartPut, StartRm, StartGet, Start, Goto, File
<1>5. local'[c] \in Copies /\ bak'[c] \in Copies
  <2>1. local[c] \in Copies /\ bak[c] \in Copies /\ local[c][f] \in {Absent} \cup Seq(Units)
    BY <1>1 DEF ClientInv, Copies
  <2>2. /\ local'[c] = local[c] \/ local'[c] = [local[c] EXCEPT ![f] = Absent]
        /\ bak'[c] = bak[c] \/ bak'[c] = [bak[c] EXCEPT ![f] = local[c][f]]
    BY <1>1, <1>2 DEF Domains
  <2>3. /\ [local[c] EXCEPT ![f] = Absent] \in Copies
        /\ [bak[c] EXCEPT ![f] = local[c][f]] \in Copies
    BY <2>1 DEF Copies
  <2>. QED BY <2>1, <2>2, <2>3, Zenon
<1>6. ClientInv(c)'
  BY <1>1, <1>4, <1>5 DEF ClientInv, ControlPoints, Results
<1>. QED BY <1>3, <1>6, OthersKeep

\* What beginGetTransaction and beginRmTransaction answer.
LEMMA RepliesAreLists ==
  ASSUME ListsInv, NEW f
  PROVE  /\ beginGetReply(f) \in Seq(BlockStore) /\ Contiguous(beginGetReply(f))
         /\ WellFormed(beginGetReply(f))
<1>1. CASE Listed(f)
  <2>1. Find(fileList, f) \in 1 .. Len(fileList)
    BY <1>1, FindInList DEF Listed, ListsInv
  <2>2. fileList[Find(fileList, f)] \in GoodEntry
    BY <2>1, ElementOfSeq DEF ListsInv
  <2>3. fileList[Find(fileList, f)].storeList \in Seq(BlockStore)
        /\ WellFormed(fileList[Find(fileList, f)].storeList)
    BY <2>2 DEF GoodEntry, FileMetaData
  <2>. QED BY <1>1, <2>3 DEF beginGetReply, WellFormed
<1>2. CASE ~Listed(f)
  <2>1. <<>> \in Seq(BlockStore) /\ Contiguous(<<>>) /\ WellFormed(<<>>)
    BY EmptySeq DEF WellFormed, Contiguous, DistinctReplicas, ReplicasAgree
  <2>. QED BY <1>2, <2>1 DEF beginGetReply
<1>. QED BY <1>1, <1>2

\* What has arrived of an answer that breaks off is a list as the whole is.
LEMMA BeginningsAreLists ==
  ASSUME NEW stores \in Seq(BlockStore), NEW part \in Beginnings(stores)
  PROVE  /\ part \in Seq(BlockStore) /\ ToSet(part) \subseteq ToSet(stores)
         /\ Contiguous(stores) => Contiguous(part)
         /\ ReplicasAgree(stores) => ReplicasAgree(part)
<1>1. PICK n \in 1 .. Len(stores) - 1 : part = SubSeq(stores, 1, n)
  BY DEF Beginnings
<1>2. Len(stores) \in Nat /\ DOMAIN stores = 1 .. Len(stores)
  BY LenProperties
<1>3. \A k \in 1 .. n : k \in 1 .. Len(stores) /\ stores[k] \in BlockStore
  BY <1>2, ElementOfSeq, \A k \in 1 .. n : k \in 1 .. Len(stores)
<1>4. /\ part \in Seq(BlockStore) /\ Len(part) = n
      /\ \A k \in 1 .. n : part[k] = stores[k]
  BY <1>1, <1>2, <1>3, SubSeqProperties
<1>5. DOMAIN part = 1 .. n
  BY <1>4, LenProperties
<1>6. ToSet(part) \subseteq ToSet(stores)
  BY <1>2, <1>3, <1>4, <1>5 DEF ToSet
<1>7. ASSUME Contiguous(stores) PROVE Contiguous(part)
  <2>1. stores # <<>>
    BY <1>2, EmptySeq
  <2>2. part[1] = stores[1]
    BY <1>2, <1>4
  <2>3. \A k \in 1 .. n - 1 : /\ k \in 1 .. Len(stores) - 1
                             /\ part[k] = stores[k] /\ part[k + 1] = stores[k + 1]
    BY <1>2, <1>4
  <2>. QED BY <1>4, <1>7, <2>1, <2>2, <2>3 DEF Contiguous
<1>8. ReplicasAgree(stores) => ReplicasAgree(part)
  BY <1>2, <1>3, <1>4, <1>5 DEF ReplicasAgree
<1>. QED BY <1>4, <1>6, <1>7, <1>8

\* An operation ends.
LEMMA ReturnKeeps ==
  ASSUME ClientsInv, NEW c \in Clients, NEW result \in Results, Return(c, result),
         UNCHANGED op,
         \/ UNCHANGED <<local, bak>>
         \/ /\ UNCHANGED bak
            /\ \E x \in {Absent} \cup Seq(Units) : local' = [local EXCEPT ![c][File(c)] = x]
  PROVE  ClientsInv'
<1>1. ClientInv(c) /\ Domains
  BY DEF ClientsInv
<1>2. \/ UNCHANGED <<local, bak>>
      \/ /\ UNCHANGED bak
         /\ \E x \in {Absent} \cup Seq(Units) :
              local' = [local EXCEPT ![c] = [local[c] EXCEPT ![File(c)] = x]]
  OBVIOUS
<1>3. Own(c)
  BY <1>2, Zenon DEF Own, Return, Forget, Goto
<1>4. /\ pc'[c] = "idle" /\ status'[c] = result /\ list'[c] = <<>> /\ at'[c] = 1
      /\ <<>> \in Seq(BlockStore) /\ Len(<<>>) = 0
  BY <1>1, EmptySeq DEF Domains, Return, Forget, Goto
<1>5. local'[c] \in Copies /\ bak'[c] \in Copies
  BY <1>1, <1>2 DEF Domains, ClientInv, Copies
<1>6. ClientInv(c)'
  BY <1>1, <1>4, <1>5 DEF ClientInv, ControlPoints
<1>. QED BY <1>3, <1>6, OthersKeep

\* An rm goes on with any list.
LEMMA RmGoesOnKeeps ==
  ASSUME ClientsInv, NEW c \in Clients, NEW stores \in Seq(BlockStore), pc[c] # "idle",
         RmGoesOn(c, stores)
  PROVE  ClientsInv'
<1>1. ClientInv(c) /\ Domains
  BY DEF ClientsInv
<1>2. Own(c)
  BY Zenon DEF RmGoesOn, Own, Walk, Goto
<1>3. /\ pc'[c] = "rmBlock" /\ list'[c] = stores /\ at'[c] = 1
      /\ status'[c] = status[c] /\ local'[c] = local[c] /\ bak'[c] = bak[c]
      /\ File(c)' = File(c)
  BY <1>1 DEF RmGoesOn, Domains, Walk, Goto, File
<1>4. Len(stores) \in Nat
  BY LenProperties
<1>5. ClientInv(c)'
  BY <1>1, <1>3, <1>4 DEF ClientInv, ControlPoints
<1>. QED BY <1>2, <1>5, OthersKeep

\* rm, from the answer of the name server to its end.
LEMMA RemovalKeepsClients ==
  ASSUME ClientsInv, ListsInv, NEW c \in Clients,
         \/ BeginRm(c) \/ RmBlock(c) \/ RmBlockDone(c) \/ AbortRm(c) \/ CommitRm(c)
  PROVE  ClientsInv'
<1>1. ClientInv(c) /\ Domains
  BY DEF ClientsInv
<1>2. CASE BeginRm(c)
  BY <1>2, RepliesAreLists, RmGoesOnKeeps DEF BeginRm
<1>3. CASE RmBlock(c) \/ RmBlockDone(c)
  <2>1. Own(c)
    BY <1>3, Zenon DEF RmBlock, RmBlockDone, Own, Advance, Goto
  <2>2. /\ pc'[c] \in {"rmBlock", "rmWait", "abortRm"} /\ list'[c] = list[c]
        /\ \/ at'[c] = at[c] /\ (~AtEnd(c) \/ pc'[c] = "abortRm")
           \/ at'[c] = at[c] + 1 /\ ~AtEnd(c) /\ pc'[c] = "rmBlock"
        /\ status'[c] = status[c] /\ local'[c] = local[c] /\ bak'[c] = bak[c]
        /\ pc[c] # "idle" /\ File(c)' = File(c)
    BY <1>1, <1>3 DEF RmBlock, RmBlockDone, Domains, ClientInv, Advance, Goto, File
  <2>3. Len(list[c]) \in Nat
    BY <1>1, LenProperties DEF ClientInv
  <2>4. ClientInv(c)'
    BY <1>1, <2>2, <2>3 DEF ClientInv, ControlPoints, AtEnd
  <2>. QED BY <2>1, <2>4, OthersKeep
<1>4. ASSUME NEW result \in Results, NEW copy \in {Absent, local[c][File(c)]},
             EndRm(c, result, copy), UNCHANGED op, pc[c] # "idle"
      PROVE  ClientsInv'
  <2>. DEFINE f == File(c)
  <2>1. f \in Files
    BY <1>1, <1>4 DEF ClientInv
  <2>2. CASE /\ Return(c, result) /\ local' = [local EXCEPT ![c][f] = copy] /\ UNCHANGED bak
    <3>1. copy \in {Absent} \cup Seq(Units)
      BY <1>1, <2>1 DEF ClientInv, Copies
    <3>. QED BY <1>4, <2>2, <3>1, ReturnKeeps
  <2>3. CASE /\ Goto(c, "beginPut") /\ Forget(c) /\ UNCHANGED status
             /\ local' = [local EXCEPT ![c] = [local[c] EXCEPT ![f] =
                            IF bak[c][f] # Absent THEN bak[c][f] ELSE <<>>]]
             /\ bak' = [bak EXCEPT ![c] = [bak[c] EXCEPT ![f] = Absent]]
    <3>1. Own(c)
      BY <1>4, <2>3, Zenon DEF Own, Goto, Forget
    <3>2. /\ pc'[c] = "beginPut" /\ list'[c] = <<>> /\ at'[c] = 1 /\ status'[c] = status[c]
          /\ <<>> \in Seq(BlockStore) /\ Len(<<>>) = 0 /\ File(c)' = f
      BY <1>1, <1>4, <2>3, EmptySeq DEF Domains, Goto, Forget, File
    <3>3. (IF bak[c][f] # Absent THEN bak[c][f] ELSE <<>>) \in Seq(Units)
      BY <1>1, <2>1, EmptySeq DEF ClientInv, Copies
    <3>4. local'[c] \in Copies /\ bak'[c] \in Copies /\ local'[c][f] \in Seq(Units)
      BY <1>1, <2>1, <2>3, <3>3 DEF Domains, ClientInv, Copies
    <3>5. ClientInv(c)'
      BY <1>1, <2>1, <3>2, <3>4 DEF ClientInv, ControlPoints
    <3>. QED BY <3>1, <3>5, OthersKeep
  <2>. QED BY <1>4, <2>2, <2>3 DEF EndRm
<1>5. AbortRm(c) \/ CommitRm(c) => ClientsInv'
  BY <1>4, Zenon DEF AbortRm, CommitRm, Results
<1>. QED BY <1>2, <1>3, <1>5

\* The storeList of a put: of whatever ring, its entries cut the copy that is put.
LEMMA RingsCut ==
  ASSUME IInv, NEW file, NEW size \in Nat, NEW ring \in {serverList, <<DeadServer>>},
         ring # <<>> \/ size = 0
  PROVE  /\ StoreList(ring, file, size) \in Seq(BlockStore)
         /\ \A e \in ToSet(StoreList(ring, file, size)) : Cuts(e, size)
<1>1. ring \in Seq(ServerInfo) /\ OneEach(ring)
  <2>1. serverList \in Seq(ServerInfo) /\ OneEach(serverList)
    BY InvTypes, RingHasOneEach DEF IInv, RingInv
  <2>. DEFINE dead == <<DeadServer>>
  <2>2. dead \in Seq(ServerInfo)
    BY DEF DeadServer, ServerInfo
  <2>3. ToSet(dead) = {DeadServer}
    BY DEF ToSet
  <2>4. OneEach(dead)
    BY <2>3 DEF OneEach
  <2>. HIDE DEF dead
  <2>. QED BY <2>1, <2>2, <2>4 DEF dead
<1>. DEFINE stores == StoreList(ring, file, size)
<1>2. stores \in Seq(BlockStore)
  BY <1>1, StoreListWellFormed
<1>3. ToSet(stores) = AskedFor(ring, file, size, size)
  BY <1>1, StoreListMembers
<1>. HIDE DEF stores
<1>. QED BY <1>2, <1>3 DEF AskedFor, Cuts, stores

\* So what a put is answered cuts it, be it the whole answer ...
LEMMA PutsCut ==
  ASSUME IInv, NEW file, NEW size \in Nat, beginPutTransaction(file, size),
         Len(tempList') > Len(tempList)
  PROVE  /\ Last(tempList').storeList \in Seq(BlockStore)
         /\ \A e \in ToSet(Last(tempList').storeList) : Cuts(e, size)
<1>1. \E ring \in {serverList, <<DeadServer>>} :
        /\ ring # <<>> \/ size = 0
        /\ tempList' = Append(tempList, NewEntry(ring, file, size))
  <2>1. ~(UNCHANGED tempList) /\ tempList' # <<>>
    <3>1. Len(<<>>) = 0 /\ Len(tempList) \in Nat
      BY LenProperties DEF IInv, ListsInv
    <3>. QED BY <3>1
  <2>2. <<DeadServer>> # <<>>
    OBVIOUS
  <2>3. \/ /\ ~ReadsDeadServer(size)
           /\ tempList' = Append(tempList, NewEntry(serverList, file, size))
        \/ tempList' = Append(tempList, NewEntry(<<DeadServer>>, file, size))
    BY <2>1, Zenon DEF beginPutTransaction, nsVars, Crash
  <2>. QED BY <2>2, <2>3 DEF ReadsDeadServer
<1>2. PICK ring \in {serverList, <<DeadServer>>} :
        /\ ring # <<>> \/ size = 0
        /\ tempList' = Append(tempList, NewEntry(ring, file, size))
  BY <1>1
<1>. DEFINE stores == StoreList(ring, file, size)
<1>3. Last(tempList').storeList = stores
  <2>. DEFINE new == NewEntry(ring, file, size)
              S == ToSet(tempList) \cup {new}
  <2>1. tempList \in Seq(GoodEntry)
    BY DEF IInv, ListsInv
  <2>2. tempList \in Seq(S)
    BY <2>1, NameListElements, SeqMonotonic
  <2>. HIDE DEF new
  <2>3. Last(Append(tempList, new)) = new
    <3>. HIDE DEF S
    <3>1. Len(Append(tempList, new)) = Len(tempList) + 1
          /\ Append(tempList, new)[Len(tempList) + 1] = new
      BY <2>2, AppendProperties, new \in S DEF S
    <3>. QED BY <3>1 DEF Last
  <2>4. new.storeList = stores
    BY DEF NewEntry, new
  <2>. QED BY <1>2, <2>3, <2>4 DEF new
<1>4. stores \in Seq(BlockStore) /\ \A e \in ToSet(stores) : Cuts(e, size)
  BY <1>2, RingsCut
<1>. HIDE DEF stores
<1>. QED BY <1>3, <1>4

\* ... or what the name server had to stream when it died.
LEMMA PutRepliesCut ==
  ASSUME IInv, NEW file, NEW size \in Nat
  PROVE  /\ beginPutReply(file, size) \in Seq(BlockStore)
         /\ \A e \in ToSet(beginPutReply(file, size)) : Cuts(e, size)
<1>1. <<>> \in Seq(BlockStore) /\ \A e \in ToSet(<<>>) : Cuts(e, size)
  BY EmptySeq DEF ToSet
<1>2. <<DeadServer>> # <<>>
  OBVIOUS
<1>3. PICK ring \in {serverList, <<DeadServer>>} :
        /\ ring # <<>> \/ size = 0
        /\ ring = IF ReadsDeadServer(size) THEN <<DeadServer>> ELSE serverList
  BY <1>2 DEF ReadsDeadServer
<1>4. /\ StoreList(ring, file, size) \in Seq(BlockStore)
      /\ \A e \in ToSet(StoreList(ring, file, size)) : Cuts(e, size)
  BY <1>3, RingsCut
<1>5. beginPutReply(file, size) \in {<<>>, StoreList(ring, file, size)}
  BY <1>3, Zenon DEF beginPutReply
<1>. QED BY <1>1, <1>4, <1>5

\* The block of an entry that cuts a file is not empty and not too large.
LEMMA PieceIsPiece ==
  ASSUME NEW c \in Clients, local[c][File(c)] \in Seq(Units), NEW e \in BlockStore,
         Cuts(e, Len(local[c][File(c)]))
  PROVE  Piece(c, e) \in Pieces /\ Piece(c, e) # <<>> /\ Len(Piece(c, e)) = e.blockSize
<1>. DEFINE copy == local[c][File(c)]
            i == e.blockIdx * maxBlockSize
            n == e.blockSize
            p == SubSeq(copy, i + 1, i + n)
<1>1. /\ Len(copy) \in Nat /\ maxBlockSize \in Nat \ {0}
      /\ e.blockIdx \in Nat /\ n \in Nat
  BY LenProperties, PlacementAssumption DEF BlockStore
<1>2. i \in Nat /\ n >= 1 /\ n <= maxBlockSize /\ i + n <= Len(copy)
  <2>. DEFINE size == Len(copy)
  <2>1. i \in Nat /\ i < size /\ n = PieceSize(size, e.blockIdx)
    BY <1>1 DEF Cuts
  <2>2. n = IF size - i > maxBlockSize THEN maxBlockSize ELSE size - i
    BY <2>1 DEF PieceSize
  <2>. HIDE DEF i, size, n
  <2>. QED BY <1>1, <2>1, <2>2 DEF size
<1>. HIDE DEF i, copy, n
<1>3. \A k \in i + 1 .. i + n : copy[k] \in Units
  BY <1>1, <1>2, ElementOfSeq, \A k \in i + 1 .. i + n : k \in 1 .. Len(copy) DEF copy
<1>4. p \in Seq(Units) /\ Len(p) = n
  <2>1. i + 1 \in Int /\ i + n \in Int /\ i + 1 <= i + n /\ (i + n) - (i + 1) + 1 = n
    BY <1>1, <1>2
  <2>. QED BY <1>3, <2>1, SubSeqProperties
<1>5. Piece(c, e) = p
  BY Zenon DEF Piece, p, i, copy, n
<1>. HIDE DEF p
<1>. QED BY <1>1, <1>2, <1>4, <1>5, EmptySeq DEF Pieces, n

\* A put goes on with any list that cuts its copy.
LEMMA PutGoesOnKeeps ==
  ASSUME ClientsInv, NEW c \in Clients, pc[c] = "beginPut", NEW stores \in Seq(BlockStore),
         \A e \in ToSet(stores) : Cuts(e, Len(local[c][File(c)])), PutGoesOn(c, stores)
  PROVE  ClientsInv'
<1>1. ClientInv(c) /\ Domains
  BY DEF ClientsInv
<1>2. Own(c)
  BY Zenon DEF PutGoesOn, Own, Walk, Goto
<1>3. /\ pc'[c] = "putBlock" /\ list'[c] = stores /\ at'[c] = 1
      /\ status'[c] = status[c] /\ local'[c] = local[c] /\ bak'[c] = bak[c]
      /\ File(c)' = File(c)
  BY <1>1 DEF PutGoesOn, Domains, Walk, Goto, File
<1>4. local[c][File(c)] \in Seq(Units) /\ Len(stores) \in Nat
  BY <1>1, LenProperties DEF ClientInv
<1>5. ClientInv(c)'
  BY <1>1, <1>3, <1>4 DEF ClientInv, ControlPoints
<1>. QED BY <1>2, <1>5, OthersKeep

\* put, from the answer of the name server to its end.
LEMMA PutKeepsClients ==
  ASSUME ClientsInv, IInv, NEW c \in Clients,
         \/ BeginPut(c) \/ PutBlock(c) \/ PutBlockDone(c) \/ AbortPut(c) \/ CommitPut(c)
         \/ (CallFails(c) /\ pc[c] # "getWait")
  PROVE  ClientsInv'
<1>1. ClientInv(c) /\ Domains
  BY DEF ClientsInv
<1>2. CASE BeginPut(c)
  <2>. DEFINE size == Len(local[c][File(c)])
              grown == Len(tempList') > Len(tempList)
              stores == IF grown THEN Last(tempList').storeList ELSE <<>>
  <2>1. pc[c] = "beginPut" /\ PutGoesOn(c, stores)
    BY <1>2, Zenon DEF BeginPut
  <2>2. local[c][File(c)] \in Seq(Units) /\ size \in Nat
    BY <1>1, <2>1, LenProperties DEF ClientInv
  <2>3. stores \in Seq(BlockStore) /\ \A e \in ToSet(stores) : Cuts(e, size)
    <3>1. CASE grown
      <4>1. tempList' # tempList
        <5>1. Len(tempList) \in Nat
          BY LenProperties DEF IInv, ListsInv
        <5>. QED BY <3>1, <5>1
      <4>2. beginPutTransaction(File(c), size)
        BY <1>2, <4>1, Zenon DEF BeginPut, NameService, nsVars
      <4>. QED BY <2>2, <3>1, <4>2, PutsCut
    <3>2. CASE ~grown
      BY <3>2, EmptySeq DEF ToSet
    <3>. QED BY <3>1, <3>2
  <2>. HIDE DEF stores
  <2>. QED BY <2>1, <2>3, PutGoesOnKeeps
<1>3. CASE PutBlock(c) \/ PutBlockDone(c) \/ (CallFails(c) /\ pc[c] # "getWait")
  <2>1. Own(c)
    BY <1>3, Zenon DEF PutBlock, PutBlockDone, CallFails, Own, Advance, Goto
  <2>2. /\ list'[c] = list[c] /\ pc'[c] \in ControlPoints
        /\ \/ at'[c] = at[c] /\ pc[c] = "putBlock" /\ pc'[c] = "putWait" /\ ~AtEnd(c)
           \/ at'[c] = at[c] /\ pc'[c] \in {"abortPut", "abortRm"}
           \/ at'[c] = at[c] + 1 /\ pc[c] = "putWait" /\ pc'[c] = "putBlock"
        /\ status'[c] = status[c] /\ local'[c] = local[c] /\ bak'[c] = bak[c]
        /\ pc[c] # "idle" /\ File(c)' = File(c)
    BY <1>1, <1>3 DEF PutBlock, PutBlockDone, CallFails, Domains, ControlPoints, Advance,
                      Goto, File
  <2>3. Len(list[c]) \in Nat
    BY <1>1, LenProperties DEF ClientInv
  <2>4. ClientInv(c)'
    BY <1>1, <2>2, <2>3 DEF ClientInv, AtEnd
  <2>. QED BY <2>1, <2>4, OthersKeep
<1>4. AbortPut(c) \/ CommitPut(c) => ClientsInv'
  BY ReturnKeeps, Zenon DEF AbortPut, CommitPut, Results
<1>. QED BY <1>2, <1>3, <1>4

\* The entries of a get's list have blocks with numbers.
LEMMA EntriesAreStores ==
  ASSUME NEW c \in Clients, ClientInv(c)
  PROVE  /\ Len(list[c]) \in Nat /\ DOMAIN list[c] = 1 .. Len(list[c])
         /\ \A k \in 1 .. Len(list[c]) :
              /\ list[c][k] \in BlockStore
              /\ list[c][k].blockIdx \in Nat /\ list[c][k].blockSize \in Nat
<1>1. list[c] \in Seq(BlockStore)
  BY DEF ClientInv
<1>2. \A k \in 1 .. Len(list[c]) : list[c][k] \in BlockStore
  BY <1>1, ElementOfSeq
<1>. QED BY <1>1, <1>2, LenProperties DEF BlockStore

\* A get passes over an entry only of a block it has something of: as many blocks
\* as it downloaded lie before the number of blocks downloaded.
LEMMA PassedOver ==
  ASSUME NEW c \in Clients, ClientInv(c), pc[c] = "getBlock", ~AtEnd(c),
         Entry(c).blockIdx < Cardinality(Downloaded(c))
  PROVE  Entry(c).blockIdx \in Tried(c, at[c] - 1)
<1>. DEFINE i == Entry(c).blockIdx
            D == Downloaded(c)
<1>1. /\ at[c] \in 1 .. Len(list[c]) /\ Len(list[c]) \in Nat
      /\ \A k \in 1 .. Len(list[c]) : list[c][k].blockIdx \in Nat
      /\ Contiguous(list[c]) /\ D \subseteq Tried(c, at[c] - 1)
  BY EntriesAreStores DEF ClientInv, AtEnd, Downloaded
<1>2. \A k \in 1 .. at[c] - 1 : list[c][k].blockIdx \in Nat /\ list[c][k].blockIdx <= i
  <2>1. list[c] \in Seq(BlockStore)
    BY DEF ClientInv
  <2>. QED BY <1>1, <2>1, IndicesRise, \A k \in 1 .. at[c] - 1 : k \in 1 .. Len(list[c]) /\ k <= at[c]
       DEF Entry
<1>3. i \in Nat
  BY <1>1 DEF Entry
<1>. SUFFICES ASSUME i \notin Tried(c, at[c] - 1) PROVE FALSE
  OBVIOUS
<1>4. D \subseteq 0 .. i - 1
  <2>1. ASSUME NEW j \in D PROVE j \in 0 .. i - 1
    <3>1. PICK k \in 1 .. at[c] - 1 : j = list[c][k].blockIdx
      BY <1>1 DEF Tried
    <3>2. j # i
      BY <3>1 DEF Tried
    <3>3. j \in Nat /\ j <= i
      BY <1>2, <3>1
    <3>. HIDE DEF i
    <3>. QED BY <1>3, <3>2, <3>3
  <2>. QED BY <2>1
<1>. HIDE DEF i, D
<1>5. IsFiniteSet(0 .. i - 1) /\ Cardinality(0 .. i - 1) = i
  BY <1>3, FS_Interval
<1>6. Cardinality(D) <= i /\ Cardinality(D) \in Nat
  BY <1>4, <1>5, FS_Subset, FS_CardinalityType
<1>7. i < Cardinality(D)
  BY DEF i, D
<1>. QED BY <1>3, <1>6, <1>7

\* What Receive does to the blocks a get has.
LEMMA ReceiveKeeps ==
  ASSUME ClientsInv, NEW c \in Clients, NEW e \in BlockStore, NEW ok, NEW data \in Seq(Units),
         Receive(c, e, ok, data), \A i \in DOMAIN got[c] : got[c][i].data \in Seq(Units)
  PROVE  /\ DOMAIN got'[c] = DOMAIN got[c] \cup {e.blockIdx}
         /\ \A i \in DOMAIN got'[c] : got'[c][i].data \in Seq(Units)
         /\ \E x : got' = [got EXCEPT ![c] = x]
<1>. DEFINE x == [ok |-> ok, data |-> data]
            new == [i \in DOMAIN got[c] \cup {e.blockIdx} |->
                      IF i = e.blockIdx THEN x ELSE got[c][i]]
<1>1. got' = [got EXCEPT ![c] = new] /\ got'[c] = new
  BY DEF Receive, ClientsInv, Domains
<1>2. x.data \in Seq(Units)
  OBVIOUS
<1>. HIDE DEF x
<1>3. \A i \in DOMAIN new : new[i].data \in Seq(Units)
  BY <1>2
<1>4. DOMAIN new = DOMAIN got[c] \cup {e.blockIdx}
  OBVIOUS
<1>. HIDE DEF new
<1>. QED BY <1>1, <1>3, <1>4

\* What a data server streams are units.
LEMMA ReadsAreUnits ==
  ASSUME ServersInv, NEW call \in calls, NEW k \in Nat \ {0}, NEW buffer \in Units
  PROVE  Reads(call, k, buffer) \subseteq Units
<1>1. OpenFile(call) \in Pieces
  BY DEF ServersInv, CallInv, BlockCall, OpenFile
<1>2. \A w \in RemovedWriters(call) : w.data \in Pieces
  BY DEF ServersInv, CallInv, BlockCall, RemovedWriters
<1>3. \A p \in Pieces : k <= Len(p) => p[k] \in Units
  <2>. SUFFICES ASSUME NEW p \in Pieces, k <= Len(p) PROVE p[k] \in Units
    OBVIOUS
  <2>1. p \in Seq(Units) /\ Len(p) \in Nat
    BY LenProperties DEF Pieces
  <2>. QED BY <2>1, ElementOfSeq
<1>4. CASE call.short \/ k > Len(OpenFile(call))
  BY <1>4 DEF Reads
<1>5. CASE ~(call.short \/ k > Len(OpenFile(call)))
  <2>1. Len(OpenFile(call)) \in Nat
    BY <1>1, LenProperties DEF Pieces
  <2>2. OpenFile(call)[k] \in Units
    BY <1>1, <1>3, <1>5, <2>1
  <2>. QED BY <1>2, <1>3, <1>5, <2>2 DEF Reads
<1>. QED BY <1>4, <1>5

\* What a get has of the block at hand.
LEMMA ReceivedAreUnits ==
  ASSUME NEW c \in Clients, ClientInv(c), pc[c] = "getWait"
  PROVE  /\ at[c] \in 1 .. Len(list[c]) /\ Entry(c) \in BlockStore
         /\ Entry(c).blockIdx \in DOMAIN got[c]
         /\ Received(c) \in Seq(Units) /\ Buffer(c) \in Units /\ Len(Received(c)) \in Nat
<1>1. at[c] \in 1 .. Len(list[c]) /\ Entry(c) \in BlockStore
  BY EntriesAreStores DEF ClientInv, AtEnd, Entry
<1>2. Entry(c).blockIdx \in Tried(c, at[c]) /\ DOMAIN got[c] = Tried(c, at[c])
  BY <1>1 DEF Tried, Entry, ClientInv
<1>3. Received(c) \in Seq(Units)
  BY <1>2 DEF ClientInv, Received
<1>4. Len(Received(c)) \in Nat
  BY <1>3, LenProperties
<1>5. Buffer(c) \in Units
  <2>. DEFINE r == Received(c)
  <2>1. Garbage \in Units
    BY Zenon DEF Units
  <2>2. r # <<>> => Len(r) \in 1 .. Len(r)
    BY <1>3, <1>4, EmptySeq
  <2>3. r # <<>> => Last(r) \in Units
    BY <1>3, <2>2, ElementOfSeq DEF Last
  <2>. QED BY <2>1, <2>3, Zenon DEF Buffer
<1>. QED BY <1>1, <1>2, <1>3, <1>4, <1>5

\* The file a get composes.
LEMMA CompositionIsContent ==
  ASSUME NEW c \in Clients, ClientInv(c), pc[c] = "getBlock", AtEnd(c)
  PROVE  Composition(c) \in Seq(Units)
<1>. DEFINE N == Len(list[c])
            e(k) == IF FirstOfBlock(list[c], k) THEN Composed(c, list[c][k]) ELSE <<>>
            s == [k \in 1 .. N |-> e(k)]
<1>1. /\ N \in Nat /\ DOMAIN list[c] = 1 .. N
      /\ \A k \in 1 .. N : list[c][k] \in BlockStore /\ list[c][k].blockSize \in Nat
  BY EntriesAreStores
<1>2. DOMAIN got[c] = Tried(c, N)
  <2>1. at[c] - 1 = N
    BY <1>1 DEF ClientInv, AtEnd
  <2>. QED BY <2>1 DEF ClientInv
<1>3. ASSUME NEW k \in 1 .. N PROVE e(k) \in Seq(Units)
  <2>. DEFINE b == list[c][k]
              data == got[c][b.blockIdx].data
              u(j) == IF j <= Len(data) THEN data[j] ELSE Garbage
  <2>1. b.blockIdx \in DOMAIN got[c] /\ b.blockSize \in Nat
    BY <1>1, <1>2 DEF Tried
  <2>2. data \in Seq(Units) /\ Len(data) \in Nat
    BY <2>1, LenProperties DEF ClientInv
  <2>3. Composed(c, b) = [j \in 1 .. b.blockSize |-> u(j)]
    BY Zenon DEF Composed
  <2>. HIDE DEF data
  <2>4. \A j \in 1 .. b.blockSize : u(j) \in Units
    <3>1. Garbage \in Units
      BY Zenon DEF Units
    <3>2. \A j \in 1 .. b.blockSize : j <= Len(data) => data[j] \in Units
      BY <2>1, <2>2, ElementOfSeq
    <3>. QED BY <3>1, <3>2
  <2>. HIDE DEF u
  <2>5. [j \in 1 .. b.blockSize |-> u(j)] \in Seq(Units)
    BY <2>1, <2>4, IsASeq
  <2>6. Composed(c, b) \in Seq(Units)
    BY <2>3, <2>5
  <2>. HIDE DEF b
  <2>7. <<>> \in Seq(Units)
    BY EmptySeq
  <2>. QED BY <2>6, <2>7, Zenon DEF b
<1>4. Composition(c) = FlattenSeq(s)
  BY <1>1, Zenon DEF Composition
<1>. HIDE DEF e
<1>5. s \in Seq(Seq(Units))
  BY <1>1, <1>3, IsASeq
<1>. HIDE DEF s
<1>. QED BY <1>4, <1>5, FlattenIsList

\* A get that goes on: from an entry to the next, or on at the same one.
LEMMA DownloadKeeps ==
  ASSUME ClientsInv, NEW c \in Clients, pc[c] \in {"getBlock", "getWait"}, Own(c),
         File(c)' = File(c), list'[c] = list[c], local'[c] = local[c], bak'[c] = bak[c],
         status'[c] = status[c], at[c] \in 1 .. Len(list[c]),
         \/ pc'[c] = "getBlock" /\ at'[c] = at[c] + 1
         \/ pc'[c] = "getWait" /\ at'[c] = at[c],
         DOMAIN got'[c] = Tried(c, at[c]),
         \A i \in DOMAIN got'[c] : got'[c][i].data \in Seq(Units)
  PROVE  ClientsInv'
<1>1. ClientInv(c) /\ Len(list[c]) \in Nat
  BY EntriesAreStores DEF ClientsInv
<1>2. ClientInv(c)'
  <2>1. /\ pc'[c] \in ControlPoints /\ at'[c] \in 1 .. Len(list[c]) + 1
        /\ pc'[c] = "getWait" => ~(at'[c] > Len(list[c]))
        /\ at[c] = IF pc'[c] = "getWait" THEN at'[c] ELSE at'[c] - 1
    BY <1>1 DEF ControlPoints
  <2>2. {list'[c][k].blockIdx : k \in 1 .. at[c]} = Tried(c, at[c])
    BY DEF Tried
  <2>. QED BY <1>1, <2>1, <2>2 DEF ClientInv, Tried, AtEnd
<1>. QED BY <1>2, OthersKeep

\* What getBlock asks next of the data servers.
LEMMA AsksKeep ==
  ASSUME ClientsInv, NEW c \in Clients, GetBlock(c)
  PROVE  ClientsInv'
<1>. DEFINE e == Entry(c)
<1>1. ClientInv(c) /\ Domains
  BY DEF ClientsInv
<1>2. /\ pc[c] = "getBlock" /\ ~AtEnd(c) /\ UNCHANGED <<op, local, bak>>
      /\ File(c)' = File(c)
  BY DEF GetBlock, File
<1>3. /\ at[c] \in 1 .. Len(list[c]) /\ e \in BlockStore /\ e.blockIdx \in Nat
      /\ DOMAIN got[c] = Tried(c, at[c] - 1)
      /\ \A i \in DOMAIN got[c] : got[c][i].data \in Seq(Units)
      /\ Tried(c, at[c]) = Tried(c, at[c] - 1) \cup {e.blockIdx}
  <2>1. at[c] \in 1 .. Len(list[c]) /\ Len(list[c]) \in Nat
    BY <1>1, <1>2, EntriesAreStores DEF ClientInv, AtEnd
  <2>2. 1 .. at[c] = (1 .. at[c] - 1) \cup {at[c]}
    BY <2>1
  <2>. QED BY <1>1, <1>2, <2>1, <2>2, EntriesAreStores DEF ClientInv, Tried, Entry
<1>4. CASE e.blockIdx < Cardinality(Downloaded(c)) /\ Advance(c) /\ UNCHANGED <<pc, status, list, got>>
  <2>1. e.blockIdx \in Tried(c, at[c] - 1)
    BY <1>1, <1>2, <1>4, PassedOver
  <2>2. Own(c)
    BY <1>2, <1>4, Zenon DEF Own, Advance
  <2>3. /\ list'[c] = list[c] /\ local'[c] = local[c] /\ bak'[c] = bak[c] /\ got'[c] = got[c]
        /\ status'[c] = status[c] /\ pc'[c] = "getBlock" /\ at'[c] = at[c] + 1
    BY <1>1, <1>2, <1>4 DEF Domains, Advance
  <2>4. DOMAIN got'[c] = Tried(c, at[c])
    BY <1>3, <2>1, <2>3
  <2>. QED BY <1>2, <1>3, <2>2, <2>3, <2>4, DownloadKeeps
<1>5. CASE /\ Receive(c, e, FALSE, <<>>) /\ UNCHANGED <<status, list>>
           /\ \/ Goto(c, "getWait") /\ UNCHANGED at
              \/ UNCHANGED pc /\ Advance(c)
  <2>1. /\ DOMAIN got'[c] = Tried(c, at[c])
        /\ \A i \in DOMAIN got'[c] : got'[c][i].data \in Seq(Units)
        /\ \E x : got' = [got EXCEPT ![c] = x]
    BY <1>3, <1>5, EmptySeq, ReceiveKeeps
  <2>2. Own(c)
    BY <1>2, <1>5, <2>1, Zenon DEF Own, Advance, Goto
  <2>3. /\ list'[c] = list[c] /\ local'[c] = local[c] /\ bak'[c] = bak[c]
        /\ status'[c] = status[c]
        /\ \/ pc'[c] = "getBlock" /\ at'[c] = at[c] + 1
           \/ pc'[c] = "getWait" /\ at'[c] = at[c]
    BY <1>1, <1>2, <1>5 DEF Domains, Advance, Goto
  <2>. QED BY <1>2, <1>3, <2>1, <2>2, <2>3, DownloadKeeps
<1>6. CASE Return(c, "CANCELLED")
  <2>1. "CANCELLED" \in Results
    BY DEF Results
  <2>. QED BY <1>2, <1>6, <2>1, ReturnKeeps
<1>. QED BY <1>4, <1>5, <1>6 DEF GetBlock

\* The client dies.
LEMMA DyingKeeps ==
  ASSUME ClientsInv, NEW c \in Clients, Die(c)
  PROVE  ClientsInv'
<1>1. "crashed" \in Results
  BY DEF Results
<1>. QED BY <1>1, ReturnKeeps DEF Die

\* A get goes on with any list of contiguous blocks.
LEMMA GetGoesOnKeeps ==
  ASSUME ClientsInv, NEW c \in Clients, pc[c] # "idle", NEW stores \in Seq(BlockStore),
         Contiguous(stores), GetGoesOn(c, stores)
  PROVE  ClientsInv'
<1>1. ClientInv(c) /\ Domains
  BY DEF ClientsInv
<1>2. "OK" \in Results
  BY DEF Results
<1>3. CASE Return(c, "OK") /\ UNCHANGED <<op, local, bak>>
  BY <1>2, <1>3, ReturnKeeps
<1>4. CASE /\ Walk(c, stores) /\ Goto(c, "getBlock") /\ got' = [got EXCEPT ![c] = <<>>]
           /\ UNCHANGED <<op, status, local, bak>>
  <2>1. Own(c)
    BY <1>4, Zenon DEF Own, Walk, Goto
  <2>2. /\ pc'[c] = "getBlock" /\ list'[c] = stores /\ at'[c] = 1 /\ got'[c] = <<>>
        /\ status'[c] = status[c] /\ local'[c] = local[c] /\ bak'[c] = bak[c]
        /\ File(c)' = File(c)
    BY <1>1, <1>4 DEF Domains, Walk, Goto, File
  <2>3. Len(stores) \in Nat
    BY LenProperties
  <2>4. DOMAIN got'[c] = {} /\ Tried(c, at[c] - 1)' = {}
    BY <2>2 DEF Tried
  <2>5. ClientInv(c)'
    BY <1>1, <2>2, <2>3, <2>4 DEF ClientInv, ControlPoints
  <2>. QED BY <2>1, <2>5, OthersKeep
<1>. QED BY <1>3, <1>4, DyingKeeps, Zenon DEF GetGoesOn

\* get, from the answer of the name server to its end.
LEMMA GetKeepsClients ==
  ASSUME ClientsInv, ServersInv, ListsInv, NEW c \in Clients,
         \/ BeginGet(c) \/ GetUnit(c) \/ GetBlockDone(c) \/ CommitGet(c)
         \/ (CallFails(c) /\ pc[c] = "getWait") \/ CrashClient(c)
  PROVE  ClientsInv'
<1>1. ClientInv(c) /\ Domains
  BY DEF ClientsInv
<1>2. "OK" \in Results
  BY DEF Results
<1>3. CASE CrashClient(c)
  BY <1>3, DyingKeeps DEF CrashClient
<1>4. CASE BeginGet(c)
  BY <1>4, RepliesAreLists, GetGoesOnKeeps DEF BeginGet
<1>5. CASE CommitGet(c)
  <2>1. Composition(c) \in Seq(Units)
    BY <1>1, <1>5, CompositionIsContent DEF CommitGet
  <2>. QED BY <1>2, <1>5, <2>1, ReturnKeeps DEF CommitGet
<1>6. CASE GetUnit(c) \/ GetBlockDone(c) \/ (CallFails(c) /\ pc[c] = "getWait")
  <2>. DEFINE r == Received(c)
  <2>1. pc[c] = "getWait"
    BY <1>6 DEF GetUnit, GetBlockDone
  <2>2. /\ at[c] \in 1 .. Len(list[c]) /\ Entry(c) \in BlockStore
        /\ Entry(c).blockIdx \in DOMAIN got[c]
        /\ r \in Seq(Units) /\ Buffer(c) \in Units /\ Len(r) \in Nat
    BY <1>1, <2>1, ReceivedAreUnits
  <2>3. /\ DOMAIN got[c] = Tried(c, at[c])
        /\ \A i \in DOMAIN got[c] : got[c][i].data \in Seq(Units)
    BY <1>1, <2>1 DEF ClientInv
  <2>4. UNCHANGED got \/ \E ok, data : data \in Seq(Units) /\ Receive(c, Entry(c), ok, data)
    <3>1. ASSUME NEW call \in calls, NEW unit \in Reads(call, Len(r) + 1, Buffer(c))
          PROVE  Append(r, unit) \in Seq(Units)
      <4>. HIDE DEF r
      <4>1. Len(r) + 1 \in Nat \ {0}
        BY <2>2
      <4>2. Reads(call, Len(r) + 1, Buffer(c)) \subseteq Units
        BY <2>2, <4>1, ReadsAreUnits
      <4>3. unit \in Units
        BY <4>2
      <4>. QED BY <2>2, <4>3, AppendProperties
    <3>. QED BY <1>6, <2>2, <3>1 DEF GetUnit, GetBlockDone, CallFails
  <2>5. /\ DOMAIN got'[c] = Tried(c, at[c])
        /\ \A i \in DOMAIN got'[c] : got'[c][i].data \in Seq(Units)
        /\ got' = got \/ \E x : got' = [got EXCEPT ![c] = x]
    <3>1. CASE UNCHANGED got
      BY <2>3, <3>1
    <3>2. CASE ~UNCHANGED got
      <4>1. PICK ok, data : data \in Seq(Units) /\ Receive(c, Entry(c), ok, data)
        BY <2>4, <3>2
      <4>. QED BY <2>2, <2>3, <4>1, ReceiveKeeps
    <3>. QED BY <3>1, <3>2
  <2>6. /\ UNCHANGED <<op, list, status, local, bak>>
        /\ \/ UNCHANGED <<pc, at>>
           \/ Goto(c, "getBlock") /\ Advance(c)
    BY <1>6, Zenon DEF GetUnit, GetBlockDone, CallFails
  <2>7. Own(c)
    BY <2>5, <2>6, Zenon DEF Own, Advance, Goto
  <2>8. /\ File(c)' = File(c) /\ list'[c] = list[c] /\ local'[c] = local[c]
        /\ bak'[c] = bak[c] /\ status'[c] = status[c]
        /\ \/ pc'[c] = "getBlock" /\ at'[c] = at[c] + 1
           \/ pc'[c] = "getWait" /\ at'[c] = at[c]
    BY <1>1, <2>1, <2>6 DEF Domains, Advance, Goto, File
  <2>. QED BY <2>1, <2>2, <2>5, <2>7, <2>8, DownloadKeeps
<1>. QED BY <1>3, <1>4, <1>5, <1>6, Zenon

-----------------------------------------------------------------------------
(***************************************************************************)
(* The whole file system.                                                  *)
(***************************************************************************)
DInv == IInv /\ ServersInv /\ ClientsInv

\* A handler of the name server, or a call to one that is down.
LEMMA ServiceKeeps ==
  ASSUME IInv, NEW f,
         \/ UNCHANGED nsVars
         \/ beginRmTransaction(f)
         \/ commitPutTransaction(f) \/ abortPutTransaction(f)
         \/ commitRmTransaction(f) \/ abortRmTransaction(f)
  PROVE  IInv'
<1>1. CASE UNCHANGED nsVars
  BY <1>1, Zenon DEF nsVars, IInv, RingInv, ListsInv, FlagsInv
<1>. QED BY <1>1, BeginRmKeeps, EndsKeep

\* What the steps of the clients leave of the name server.
LEMMA StepsKeepMetadata ==
  ASSUME DInv, NEW c \in Clients, Begin(c) \/ Step(c) \/ CrashClient(c)
  PROVE  IInv'
<1>. DEFINE f == File(c)
<1>1. CASE BeginPut(c)
  <2>1. f \in Files /\ Len(local[c][f]) \in Nat
    BY <1>1, LenProperties DEF BeginPut, PutGoesOn, DInv, ClientsInv, ClientInv
  <2>2. UNCHANGED nsVars \/ beginPutTransaction(f, Len(local[c][f]))
    BY <1>1, Zenon DEF BeginPut, PutGoesOn, NameService
  <2>. QED BY <2>1, <2>2, BeginPutKeeps, ServiceKeeps DEF DInv
<1>2. CASE ~BeginPut(c)
  <2>1. \/ UNCHANGED nsVars
        \/ beginRmTransaction(f)
        \/ commitPutTransaction(f) \/ abortPutTransaction(f)
        \/ commitRmTransaction(f) \/ abortRmTransaction(f)
    <3>1. Begin(c) => UNCHANGED nsVars
      BY DEF Begin, StartPut, StartRm, StartGet
    <3>2. BeginRm(c) \/ AbortRm(c) \/ CommitRm(c) \/ AbortPut(c) \/ CommitPut(c)
          => \/ UNCHANGED nsVars
             \/ beginRmTransaction(f)
             \/ commitPutTransaction(f) \/ abortPutTransaction(f)
             \/ commitRmTransaction(f) \/ abortRmTransaction(f)
      BY Zenon DEF BeginRm, RmGoesOn, AbortRm, CommitRm, AbortPut, CommitPut, NameService
    <3>3. RmBlock(c) \/ RmBlockDone(c) \/ PutBlock(c) \/ PutBlockDone(c) => UNCHANGED nsVars
      BY DEF RmBlock, RmBlockDone, RmRemoves, PutBlock, PutBlockDone, PutCloses
    <3>4. \/ BeginGet(c) \/ GetBlock(c) \/ GetUnit(c) \/ GetBlockDone(c) \/ CommitGet(c)
          \/ CallFails(c) \/ CrashClient(c)
          => UNCHANGED nsVars
      BY DEF BeginGet, GetGoesOn, GetBlock, GetUnit, GetBlockDone, CommitGet, CallFails, CrashClient
    <3>. QED BY <1>2, <3>1, <3>2, <3>3, <3>4, Zenon DEF Step
  <2>. QED BY <2>1, ServiceKeeps DEF DInv
<1>. QED BY <1>1, <1>2

\* What they leave of the calls and the disks.
LEMMA StepsKeepServers ==
  ASSUME DInv, NEW c \in Clients, Begin(c) \/ Step(c) \/ CrashClient(c)
  PROVE  ServersInv'
<1>1. ClientInv(c) /\ ServersInv
  BY DEF DInv, ClientsInv
<1>2. ~AtEnd(c) => Entry(c) \in BlockStore /\ Entry(c) \in ToSet(list[c])
  BY <1>1, EntriesAreStores DEF ClientInv, AtEnd, Entry, ToSet
<1>3. pc[c] # "idle" => File(c) \in Files
  BY <1>1 DEF ClientInv
<1>4. UNCHANGED dsVars => ServersInv'
  BY <1>1, CallsKeep DEF dsVars
<1>5. CASE Begin(c)
  BY <1>4, <1>5 DEF Begin, StartPut, StartRm, StartGet
<1>6. CASE \/ BeginRm(c) \/ AbortRm(c) \/ CommitRm(c) \/ BeginPut(c) \/ AbortPut(c)
           \/ CommitPut(c) \/ BeginGet(c) \/ CommitGet(c) \/ CallFails(c)
  BY <1>4, <1>6, Zenon DEF BeginRm, RmGoesOn, AbortRm, CommitRm, BeginPut, PutGoesOn, AbortPut, CommitPut, BeginGet, GetGoesOn,
                           CommitGet, CallFails
<1>7. CASE RmBlock(c)
  BY <1>1, <1>2, <1>3, <1>4, <1>7, ReadersKeep DEF RmBlock
<1>8. CASE GetBlock(c)
  <2>1. pc[c] # "idle" /\ ~AtEnd(c) /\ (UNCHANGED dsVars \/ getBlock(c, File(c), Entry(c)))
    BY <1>8 DEF GetBlock
  <2>. QED BY <1>1, <1>2, <1>3, <1>4, <2>1, ReadersKeep
<1>9. CASE PutBlock(c)
  <2>1. pc[c] = "putBlock" /\ ~AtEnd(c)
        /\ (UNCHANGED dsVars \/ putBlock(c, File(c), Entry(c), Piece(c, Entry(c))))
    BY <1>9 DEF PutBlock
  <2>2. Piece(c, Entry(c)) \in Pieces /\ Piece(c, Entry(c)) # <<>>
    BY <1>1, <1>2, <2>1, PieceIsPiece DEF ClientInv
  <2>. QED BY <1>1, <1>2, <1>3, <1>4, <2>1, <2>2, PutStartKeeps
<1>10. CASE RmBlockDone(c)
  BY <1>1, <1>10, RemovalKeeps DEF RmBlockDone
<1>11. CASE PutBlockDone(c)
  BY <1>1, <1>11, PutStepsKeep DEF PutBlockDone
<1>12. CASE GetUnit(c)
  BY <1>1, <1>12, ReadKeeps DEF GetUnit
<1>13. CASE GetBlockDone(c)
  BY <1>1, <1>13, CallsKeep DEF GetBlockDone
<1>14. CASE CrashClient(c)
  <2>1. CASE calls' = {call \in calls : call.caller # c}
    BY <1>1, <1>14, <2>1, CallsKeep DEF CrashClient
  <2>2. CASE \E call \in calls :
          /\ call.method # "getBlock"
          /\ \E n \in Max({1, Len(call.data) - Len(call.left)}) .. Max({1, Len(call.data)}) :
               calls' = Replace(call, Cut(call, n))
    BY <1>1, <1>14, <2>2, CutKeeps DEF CrashClient
  <2>. QED BY <1>14, <2>1, <2>2, Zenon DEF CrashClient
<1>. QED BY <1>5, <1>6, <1>7, <1>8, <1>9, <1>10, <1>11, <1>12, <1>13, <1>14, Zenon DEF Step

\* The steps of the clients.
LEMMA StepsKeep ==
  ASSUME DInv, NEW c \in Clients, Begin(c) \/ Step(c) \/ CrashClient(c)
  PROVE  DInv'
<1>1. IInv /\ ServersInv /\ ClientsInv /\ ListsInv
  BY DEF DInv, IInv
<1>2. ClientsInv'
  <2>1. CASE Begin(c)
    BY <1>1, <2>1, StartsKeepClients DEF Begin
  <2>2. CASE BeginRm(c) \/ RmBlock(c) \/ RmBlockDone(c) \/ AbortRm(c) \/ CommitRm(c)
    BY <1>1, <2>2, RemovalKeepsClients
  <2>3. CASE BeginPut(c) \/ PutBlock(c) \/ PutBlockDone(c) \/ AbortPut(c) \/ CommitPut(c)
    BY <1>1, <2>3, PutKeepsClients
  <2>4. CASE CallFails(c)
    BY <1>1, <2>4, PutKeepsClients, GetKeepsClients
  <2>5. CASE BeginGet(c) \/ GetUnit(c) \/ GetBlockDone(c) \/ CommitGet(c) \/ CrashClient(c)
    BY <1>1, <2>5, GetKeepsClients
  <2>6. CASE GetBlock(c)
    BY <1>1, <2>6, AsksKeep
  <2>. QED BY <2>1, <2>2, <2>3, <2>4, <2>5, <2>6, Zenon DEF Step
<1>. QED BY <1>2, StepsKeepMetadata, StepsKeepServers DEF DInv

\* An answer breaks off.
LEMMA BrokenAnswersKeep ==
  ASSUME DInv, NEW c \in Clients, AnswerBreaks(c)
  PROVE  DInv'
<1>1. ClientsInv /\ ServersInv /\ IInv /\ ListsInv /\ ClientInv(c)
  BY DEF DInv, IInv, ClientsInv
<1>2. IInv'
  BY Zenon, CrashKeeps DEF AnswerBreaks
<1>3. UNCHANGED dsVars
  BY Zenon DEF AnswerBreaks, RmGoesOn, PutGoesOn, GetGoesOn
<1>4. ServersInv'
  BY <1>1, <1>3, CallsKeep DEF dsVars
<1>5. ClientsInv'
  <2>. DEFINE reply == beginGetReply(File(c))
              size == Len(local[c][File(c)])
  <2>1. CASE pc[c] = "beginRm" /\ \E stores \in Beginnings(reply) : RmGoesOn(c, stores)
    BY <1>1, <2>1, RepliesAreLists, BeginningsAreLists, RmGoesOnKeeps
  <2>2. CASE pc[c] = "beginGet" /\ \E stores \in Beginnings(reply) : GetGoesOn(c, stores)
    BY <1>1, <2>2, RepliesAreLists, BeginningsAreLists, GetGoesOnKeeps
  <2>3. CASE /\ pc[c] = "beginPut"
             /\ \E stores \in Beginnings(beginPutReply(File(c), size)) : PutGoesOn(c, stores)
    <3>. DEFINE whole == beginPutReply(File(c), size)
    <3>1. size \in Nat
      BY <1>1, <2>3, LenProperties DEF ClientInv
    <3>2. whole \in Seq(BlockStore) /\ \A e \in ToSet(whole) : Cuts(e, size)
      BY <1>1, <3>1, PutRepliesCut
    <3>3. PICK stores \in Beginnings(whole) : PutGoesOn(c, stores)
      BY <2>3
    <3>. HIDE DEF whole
    <3>4. stores \in Seq(BlockStore) /\ \A e \in ToSet(stores) : Cuts(e, size)
      BY <3>2, BeginningsAreLists
    <3>. QED BY <1>1, <2>3, <3>3, <3>4, PutGoesOnKeeps
  <2>. QED BY <2>1, <2>2, <2>3, Zenon DEF AnswerBreaks
<1>. QED BY <1>2, <1>4, <1>5 DEF DInv

\* The steps of the servers, and what happens around the operations.
LEMMA ServersStepsKeep ==
  ASSUME DInv, DFSAssumption,
         \/ \E call \in calls : Serve(call)
         \/ UserEdits \/ Restarts \/ Crashes \/ UNCHANGED dfsVars
  PROVE  DInv'
<1>1. IInv /\ ServersInv /\ ClientsInv
  BY DEF DInv
<1>2. UNCHANGED clVars => ClientsInv'
  BY <1>1 DEF clVars, ClientsInv, Domains, ClientInv, File, AtEnd, Tried
<1>3. UNCHANGED dsVars => ServersInv'
  BY <1>1, CallsKeep DEF dsVars
<1>4. UNCHANGED nsVars => IInv'
  BY <1>1, ServiceKeeps
<1>5. ASSUME NEW call \in calls, Serve(call) PROVE DInv'
  <2>1. UNCHANGED clVars
    BY <1>5, Zenon DEF Serve
  <2>2. \/ PutWrites(call) \/ PutReports(call) \/ PutCloses(call) \/ RmRemoves(call)
    BY <1>5, Zenon DEF Serve
  <2>3. ServersInv'
    BY <1>1, <2>2, PutStepsKeep, RemovalKeeps
  <2>4. IInv'
    <3>1. CASE PutReports(call)
      <4>1. \/ UNCHANGED nsVars
            \/ updateBlockInfo(call.file, call.blockIdx, Len(call.data), call.data)
        BY <3>1, Zenon DEF PutReports, NameService
      <4>2. call.method = "putBlock" /\ CallInv(call)
        BY <1>1, <3>1 DEF PutReports, ServersInv
      <4>3. call.blockIdx \in Nat /\ call.data \in Pieces /\ call.data # <<>>
        BY <4>2 DEF CallInv, BlockCall
      <4>4. call.data \in BlockHashes /\ Len(call.data) \in Nat
        BY <4>3, PiecesHaveDigests, LenProperties DEF Pieces
      <4>. QED BY <1>1, <1>4, <4>1, <4>3, <4>4, ReportKeeps
    <3>2. CASE ~PutReports(call)
      <4>1. UNCHANGED nsVars
        BY <2>2, <3>2, Zenon DEF PutWrites, PutCloses, RmRemoves
      <4>. QED BY <1>4, <4>1
    <3>. QED BY <3>1, <3>2
  <2>. QED BY <1>2, <2>1, <2>3, <2>4 DEF DInv
<1>6. CASE UserEdits
  <2>1. PICK c \in Clients, f \in Files, content \in Contents : Edit(c, f, content)
    BY <1>6 DEF UserEdits, DFSAssumption
  <2>2. UNCHANGED <<nsVars, dsVars>>
    BY <2>1 DEF Edit
  <2>3. /\ pc[c] = "idle" /\ local' = [local EXCEPT ![c] = [local[c] EXCEPT ![f] = content]]
        /\ UNCHANGED <<pc, op, list, at, got, status, bak>>
    BY <2>1 DEF Edit
  <2>4. ClientInv(c) /\ Domains /\ content \in Seq(Units)
    BY <1>1 DEF ClientsInv, DFSAssumption
  <2>5. local'[c] \in Copies
    BY <2>3, <2>4 DEF Domains, ClientInv, Copies
  <2>6. ClientInv(c)'
    BY <2>3, <2>4, <2>5 DEF ClientInv
  <2>7. Own(c)
    BY <2>3, Zenon DEF Own
  <2>8. ClientsInv'
    BY <1>1, <2>6, <2>7, OthersKeep
  <2>. QED BY <1>3, <1>4, <2>2, <2>8 DEF DInv
<1>7. ASSUME NEW s \in Servers, RegisterDataServer(s) \/ Listen(s) \/ CrashDataServer(s),
             UNCHANGED clVars
      PROVE  DInv'
  <2>1. ServersInv'
    BY <1>1, <1>7, ProcessesKeep
  <2>2. UNCHANGED nsVars \/ startServer(s, ServerHash(s))
    BY <1>7, Zenon DEF RegisterDataServer, Listen, CrashDataServer
  <2>3. IInv'
    BY <1>1, <1>4, <2>2, RegistrationKeeps
  <2>. QED BY <1>2, <1>7, <2>1, <2>3 DEF DInv
<1>8. ASSUME Crash, UNCHANGED <<dsVars, clVars>> PROVE DInv'
  BY <1>2, <1>3, <1>8, CrashKeeps DEF DInv
<1>9. ASSUME up' = TRUE, UNCHANGED <<serverList, fileList, tempList, allocated, dsVars, clVars>>
      PROVE  DInv'
  <2>1. IInv'
    BY <1>1, <1>9, Zenon DEF IInv, RingInv, ListsInv, FlagsInv
  <2>. QED BY <1>2, <1>3, <1>9, <2>1 DEF DInv
<1>10. ASSUME UNCHANGED dfsVars PROVE DInv'
  BY <1>2, <1>3, <1>4, <1>10 DEF dfsVars, vars, DInv
<1>11. Restarts => DInv'
  BY <1>7, <1>9, Zenon DEF Restarts
<1>12. Crashes => DInv'
  BY <1>7, <1>8, StepsKeep, BrokenAnswersKeep, Zenon DEF Crashes
<1>. QED BY <1>5, <1>6, <1>10, <1>11, <1>12, Zenon

\* The first state: every data server has registered once.
LEMMA InitKeeps ==
  ASSUME Init, DFSAssumption, BlockIndices = Nat
  PROVE  DInv
<1>1. RingInv
  <2>. DEFINE N == Cardinality(Servers)
              order == SetToSeq(Servers)
              e(k) == LET s == order[k] IN [address |-> s, hash |-> ServerHash(s)]
              ring == [k \in 1 .. N |-> e(k)]
  <2>1. N \in Nat /\ Bijection(1 .. N, Servers) # {}
    BY FS_CardinalityType DEF ExistsBijection, DFSAssumption
  <2>2. \E f \in [1 .. N -> Servers] : IsInjective(f)
    BY <2>1 DEF Bijection, Injection
  <2>3. order \in [1 .. N -> Servers]
    BY <2>2 DEF SetToSeq
  <2>4. \A k \in 1 .. N : e(k) \in RingServer
    <3>. HIDE DEF order
    <3>. QED BY <2>3 DEF RingServer
  <2>5. serverList \in Sortings(ring)
    BY Zenon DEF Init
  <2>. HIDE DEF e, N
  <2>6. ring \in Seq(RingServer)
    BY <2>1, <2>4, IsASeq
  <2>. HIDE DEF ring
  <2>. QED BY <2>5, <2>6, SortingsProperties DEF RingInv
<1>2. ListsInv
  BY EmptySeq DEF Init, ListsInv
<1>3. FlagsInv
  BY Zenon DEF Init, FlagsInv
<1>4. ServersInv
  BY DEF Init, ServersInv
<1>5. ClientsInv
  <2>1. Domains
    BY DEF Init, Domains
  <2>2. ASSUME NEW c \in Clients PROVE ClientInv(c)
    <3>1. /\ pc[c] = "idle" /\ status[c] = "none" /\ list[c] = <<>> /\ at[c] = 1
          /\ local[c] \in Copies /\ bak[c] \in Copies
      BY DEF Init, Copies
    <3>2. <<>> \in Seq(BlockStore) /\ Len(<<>>) = 0
      BY EmptySeq
    <3>. QED BY <3>1, <3>2 DEF ClientInv, ControlPoints, Results
  <2>. QED BY <2>1, <2>2 DEF ClientsInv
<1>. QED BY <1>1, <1>2, <1>3, <1>4, <1>5 DEF DInv, IInv

\* Whatever runs at once and whoever crashes, no block file is left with more than
\* a block, no iterator beyond its list, and every list is of the entries that the
\* handlers and the clients expect.
THEOREM TypesKept == BlockIndices = Nat => (Spec => []DInv)
<1>. SUFFICES ASSUME BlockIndices = Nat PROVE Spec => []DInv
  OBVIOUS
<1>1. Init => DInv
  BY InitKeeps, DFSAssumption
<1>2. DInv /\ [Next]_dfsVars => DInv'
  <2>. SUFFICES ASSUME DInv, [Next]_dfsVars PROVE DInv'
    OBVIOUS
  <2>. QED BY StepsKeep, ServersStepsKeep, DFSAssumption, Zenon DEF Next
<1>. QED BY <1>1, <1>2, PTL DEF Spec

\* Type correctness, for every number of clients, servers, files, blocks and units.
THEOREM FileSystemTypes == BlockIndices = Nat => (Spec => []TypeOK)
<1>1. DInv => TypeOK
  <2>. SUFFICES ASSUME DInv PROVE TypeOK
    OBVIOUS
  <2>1. up \in BOOLEAN /\ allocated \in BOOLEAN
    BY Zenon DEF DInv, IInv, FlagsInv
  <2>2. /\ serverList \in Seq(ServerInfo)
        /\ fileList \in Seq(FileMetaData) /\ tempList \in Seq(FileMetaData)
    BY InvTypes, Zenon DEF DInv, IInv
  <2>3. starting \subseteq Servers /\ running \subseteq Servers \ starting
    BY DEF DInv, ServersInv
  <2>4. ASSUME NEW s \in Servers, NEW b \in DOMAIN disk[s]
        PROVE  disk[s][b] = Absent \/ disk[s][b] \in BlockHashes \cup {<<>>}
    <3>1. disk[s][b] \in {Absent} \cup Pieces
      BY DEF DInv, ServersInv
    <3>. QED BY <3>1, PiecesHaveDigests, DFSAssumption
  <2>5. ASSUME NEW call \in calls
        PROVE  /\ call.method \in {"getBlock", "putBlock", "rmBlock"}
               /\ call.caller \in Clients \cup {Orphan} /\ call.server \in running
               /\ call.method = "putBlock" => call.data \in BlockHashes
    <3>1. CallInv(call)
      BY DEF DInv, ServersInv
    <3>. QED BY <3>1, PiecesHaveDigests, DFSAssumption DEF CallInv, BlockCall
  <2>6. ASSUME NEW c \in Clients
        PROVE  /\ pc[c] \in ControlPoints
               /\ list[c] \in Seq(BlockStore) /\ at[c] \in 1 .. Len(list[c]) + 1
               /\ status[c] \in Results
    BY DEF DInv, ClientsInv, ClientInv
  <2>. QED BY <2>1, <2>2, <2>3, <2>4, <2>5, <2>6, Zenon DEF TypeOK, ControlPoints, Results
<1>. QED BY <1>1, TypesKept, PTL

-----------------------------------------------------------------------------
(***************************************************************************)
(* One client that writes.  A name server that is down knows nothing; a    *)
(* put that has made room for its file, and waits to begin, finds no entry *)
(* of the name on its way.                                                 *)
(***************************************************************************)
Writing == {"beginRm", "rmBlock", "rmWait", "abortRm", "beginPut", "putBlock", "putWait",
            "abortPut"}

Controls ==
  /\ DOMAIN pc = Clients /\ DOMAIN op = Clients
  /\ \A c \in Clients : pc[c] \in Writing => c \in Users

NamesInv ==
  /\ KnownOnce /\ Controls
  /\ ~up => fileList = <<>> /\ tempList = <<>>
  /\ \A c \in Clients : pc[c] = "beginPut" => File(c) \notin NamesOf(tempList)

\* What is to show of a step of a client ...
LEMMA ClientSteps ==
  ASSUME NamesInv, KnownOnce', ~up' => fileList' = <<>> /\ tempList' = <<>>,
         NEW c \in Clients, NEW next, pc' = [pc EXCEPT ![c] = next],
         next \in Writing => c \in Users,
         next = "beginPut" => File(c)' \notin NamesOf(tempList'),
         op' = op \/ \E x : op' = [op EXCEPT ![c] = x],
         \/ NamesOf(tempList') \subseteq NamesOf(tempList)
         \/ \A d \in Clients : pc[d] = "beginPut" => d = c
  PROVE  NamesInv'
<1>1. Controls'
  BY DEF NamesInv, Controls
<1>2. \A d \in Clients : d # c => pc'[d] = pc[d] /\ op'[d] = op[d]
  BY DEF NamesInv, Controls
<1>3. pc'[c] = next
  BY DEF NamesInv, Controls
<1>. QED BY <1>1, <1>2, <1>3 DEF NamesInv, File

\* ... and of a step of anyone else.
LEMMA OtherSteps ==
  ASSUME NamesInv, KnownOnce', ~up' => fileList' = <<>> /\ tempList' = <<>>,
         UNCHANGED <<pc, op>>, NamesOf(tempList') \subseteq NamesOf(tempList)
  PROVE  NamesInv'
BY DEF NamesInv, Controls, File

\* A call to the name server does nothing when it is down.
LEMMA ServiceDown ==
  ASSUME NamesInv, ~up, UNCHANGED nsVars
  PROVE  KnownOnce' /\ up' = up /\ fileList' = <<>> /\ tempList' = <<>>
         /\ NamesOf(tempList') = {}
BY EmptyKnown DEF NamesInv, KnownOnce, nsVars

OneWriter == \A c, d \in Users : c = d

\* The steps of a client that the name server has no part in.
LEMMA QuietSteps ==
  ASSUME NamesInv, NEW c \in Clients, UNCHANGED nsVars,
         \/ UNCHANGED <<pc, op>>
         \/ /\ \/ UNCHANGED op
               \/ \E x : op' = [op EXCEPT ![c] = x]
            /\ \E next :
                 /\ pc' = [pc EXCEPT ![c] = next]
                 /\ next # "beginPut" /\ (next \in Writing => c \in Users)
  PROVE  NamesInv'
<1>1. KnownOnce' /\ tempList' = tempList /\ (~up' => fileList' = <<>> /\ tempList' = <<>>)
  BY DEF NamesInv, KnownOnce, nsVars
<1>2. CASE UNCHANGED <<pc, op>>
  BY <1>1, <1>2, OtherSteps
<1>3. CASE ~UNCHANGED <<pc, op>>
  <2>1. PICK next : /\ pc' = [pc EXCEPT ![c] = next]
                    /\ next # "beginPut" /\ (next \in Writing => c \in Users)
    BY <1>3
  <2>2. op' = op \/ \E x : op' = [op EXCEPT ![c] = x]
    BY <1>3
  <2>. QED BY <1>1, <2>1, <2>2, ClientSteps
<1>. QED BY <1>2, <1>3

\* The beginnings of operations.
LEMMA StartsKeepNames ==
  ASSUME NamesInv, NEW c \in Clients, Begin(c)
  PROVE  NamesInv'
<1>1. PICK f \in Files : \/ c \in Users /\ StartPut(c, f)
                         \/ c \in Users /\ StartRm(c, f)
                         \/ StartGet(c, f)
  BY DEF Begin
<1>2. UNCHANGED nsVars /\ \E x : op' = [op EXCEPT ![c] = x]
  BY <1>1 DEF StartPut, StartRm, StartGet, Start
<1>3. \/ c \in Users /\ pc' = [pc EXCEPT ![c] = "beginRm"]
      \/ pc' = [pc EXCEPT ![c] = "beginGet"]
  BY <1>1 DEF StartPut, StartRm, StartGet, Goto
<1>4. CASE c \in Users /\ pc' = [pc EXCEPT ![c] = "beginRm"]
  BY <1>2, <1>4, QuietSteps
<1>5. CASE pc' = [pc EXCEPT ![c] = "beginGet"]
  <2>1. "beginGet" # "beginPut" /\ "beginGet" \notin Writing
    BY DEF Writing
  <2>. QED BY <1>2, <1>5, <2>1, QuietSteps
<1>. QED BY <1>3, <1>4, <1>5

\* The steps of a get, and of a put or an rm on the data servers.
LEMMA BlockStepsKeepNames ==
  ASSUME NamesInv, NEW c \in Clients,
         \/ RmBlock(c) \/ RmBlockDone(c) \/ PutBlock(c) \/ PutBlockDone(c)
         \/ BeginGet(c) \/ GetBlock(c) \/ GetUnit(c) \/ GetBlockDone(c) \/ CommitGet(c)
         \/ CallFails(c) \/ CrashClient(c)
  PROVE  NamesInv'
<1>1. UNCHANGED <<nsVars, op>>
  BY DEF RmBlock, RmBlockDone, RmRemoves, PutBlock, PutBlockDone, PutCloses, BeginGet, GetGoesOn,
         GetBlock, GetUnit, GetBlockDone, CommitGet, CallFails, CrashClient, Die
<1>2. CASE RmBlock(c) \/ RmBlockDone(c)
  <2>1. c \in Users
    BY <1>2 DEF RmBlock, RmBlockDone, NamesInv, Controls, Writing
  <2>2. \E next \in {"rmWait", "abortRm", "rmBlock"} : pc' = [pc EXCEPT ![c] = next]
    BY <1>2 DEF RmBlock, RmBlockDone, Goto
  <2>. QED BY <1>1, <2>1, <2>2, QuietSteps
<1>3. CASE PutBlock(c) \/ PutBlockDone(c)
  <2>1. c \in Users
    BY <1>3 DEF PutBlock, PutBlockDone, NamesInv, Controls, Writing
  <2>2. \E next \in {"putWait", "abortPut", "putBlock"} : pc' = [pc EXCEPT ![c] = next]
    BY <1>3 DEF PutBlock, PutBlockDone, Goto
  <2>. QED BY <1>1, <2>1, <2>2, QuietSteps
<1>4. CASE CallFails(c)
  <2>1. \E next \in {"abortPut", "abortRm", "getBlock"} :
          pc' = [pc EXCEPT ![c] = next] /\ (next \in Writing => c \in Users)
    BY <1>4 DEF CallFails, Goto, NamesInv, Controls, Writing
  <2>. QED BY <1>1, <2>1, QuietSteps
<1>5. CASE BeginGet(c) \/ GetBlock(c) \/ GetUnit(c) \/ GetBlockDone(c) \/ CommitGet(c)
           \/ CrashClient(c)
  <2>1. UNCHANGED pc \/ \E next \in {"getBlock", "getWait", "idle"} :
                          pc' = [pc EXCEPT ![c] = next]
    BY <1>5 DEF BeginGet, GetGoesOn, GetBlock, GetUnit, GetBlockDone, CommitGet, CrashClient, Die,
                Return, Goto
  <2>. QED BY <1>1, <2>1, QuietSteps DEF Writing
<1>. QED BY <1>2, <1>3, <1>4, <1>5

\* The steps of a put or an rm on the name server.
LEMMA TransactionsKeepNames ==
  ASSUME NamesInv, OneWriter, NEW c \in Clients,
         BeginRm(c) \/ AbortRm(c) \/ CommitRm(c) \/ BeginPut(c) \/ AbortPut(c) \/ CommitPut(c)
  PROVE  NamesInv'
<1>1. c \in Users /\ UNCHANGED op
  BY DEF BeginRm, RmGoesOn, AbortRm, CommitRm, BeginPut, PutGoesOn, AbortPut, CommitPut, NamesInv, Controls, Writing
<1>2. \A d \in Clients : pc[d] = "beginPut" => d = c
  BY <1>1 DEF NamesInv, Controls, Writing, OneWriter
<1>3. CASE BeginRm(c)
  <2>1. pc' = [pc EXCEPT ![c] = "rmBlock"]
    BY <1>3 DEF BeginRm, RmGoesOn, Goto
  <2>2. beginRmTransaction(File(c)) \/ (~up /\ UNCHANGED nsVars)
    BY <1>3 DEF BeginRm, RmGoesOn, NameService
  <2>3. beginRmTransaction(File(c)) => up
    BY Zenon DEF beginRmTransaction
  <2>4. KnownOnce' /\ (~up' => fileList' = <<>> /\ tempList' = <<>>)
    BY <2>2, <2>3, BeginRmKeepsNames, ServiceDown DEF NamesInv
  <2>. QED BY <1>1, <1>2, <2>1, <2>4, ClientSteps
<1>4. CASE BeginPut(c)
  <2>. DEFINE size == Len(local[c][File(c)])
  <2>1. pc' = [pc EXCEPT ![c] = "putBlock"] /\ File(c) \notin NamesOf(tempList)
    BY <1>4 DEF BeginPut, PutGoesOn, Goto, NamesInv
  <2>2. beginPutTransaction(File(c), size) \/ (~up /\ UNCHANGED nsVars)
    BY <1>4 DEF BeginPut, PutGoesOn, NameService
  <2>3. beginPutTransaction(File(c), size) => up
    BY Zenon DEF beginPutTransaction
  <2>4. ~Pending(File(c))
    BY <2>1, NameFound DEF NamesInv, KnownOnce, NameList, Pending
  <2>. HIDE DEF size
  <2>5. KnownOnce' /\ (~up' => fileList' = <<>> /\ tempList' = <<>>)
    BY <2>2, <2>3, <2>4, BeginPutKeepsNames, ServiceDown DEF NamesInv
  <2>. QED BY <1>1, <1>2, <2>1, <2>5, ClientSteps
<1>5. CASE AbortRm(c) \/ CommitRm(c) \/ AbortPut(c) \/ CommitPut(c)
  <2>1. \E next \in {"idle", "beginPut"} : pc' = [pc EXCEPT ![c] = next]
    BY <1>5 DEF AbortRm, CommitRm, AbortPut, CommitPut, EndRm, Return, Goto
  <2>2. \/ commitPutTransaction(File(c)) \/ abortPutTransaction(File(c))
        \/ commitRmTransaction(File(c)) \/ abortRmTransaction(File(c))
        \/ ~up /\ UNCHANGED nsVars
    BY <1>5, Zenon DEF AbortRm, CommitRm, AbortPut, CommitPut, NameService
  <2>3. \/ up
        \/ ~up /\ UNCHANGED nsVars
    BY <2>2, Zenon DEF commitPutTransaction, abortPutTransaction,
                       commitRmTransaction, abortRmTransaction
  <2>4. /\ KnownOnce' /\ (~up' => fileList' = <<>> /\ tempList' = <<>>)
        /\ File(c) \notin NamesOf(tempList')
    BY <2>2, <2>3, EndsKeepNames, ServiceDown DEF NamesInv
  <2>5. File(c)' = File(c)
    BY <1>1 DEF File
  <2>. QED BY <1>1, <1>2, <2>1, <2>4, <2>5, ClientSteps
<1>. QED BY <1>3, <1>4, <1>5

\* The steps of the data servers, and what happens around the operations.
LEMMA ServersKeepNames ==
  ASSUME NamesInv,
         \/ \E call \in calls : Serve(call)
         \/ UserEdits \/ Restarts
         \/ \E s \in Servers : CrashDataServer(s) /\ UNCHANGED clVars
         \/ Crash /\ UNCHANGED clVars
  PROVE  NamesInv'
<1>1. UNCHANGED <<pc, op>>
  BY DEF Serve, UserEdits, Edit, Restarts, clVars
<1>2. ASSUME NEW call \in calls, Serve(call) PROVE NamesInv'
  <2>1. UNCHANGED nsVars \/ PutReports(call)
    BY <1>2 DEF Serve, PutWrites, PutCloses, RmRemoves
  <2>2. PutReports(call) =>
          \/ updateBlockInfo(call.file, call.blockIdx, Len(call.data), call.data)
          \/ ~up /\ UNCHANGED nsVars
    BY Zenon DEF PutReports, NameService
  <2>3. ASSUME updateBlockInfo(call.file, call.blockIdx, Len(call.data), call.data)
        PROVE  NamesInv'
    <3>1. up
      BY <2>3, Zenon DEF updateBlockInfo
    <3>. QED BY <1>1, <2>3, <3>1, ReportKeepsNames, OtherSteps DEF NamesInv
  <2>4. ASSUME UNCHANGED nsVars PROVE NamesInv'
    BY <1>1, <2>4, OtherSteps DEF NamesInv, KnownOnce, nsVars
  <2>. QED BY <2>1, <2>2, <2>3, <2>4
<1>3. CASE UserEdits \/ Restarts \/ \E s \in Servers : CrashDataServer(s)
  <2>1. UNCHANGED nsVars => UNCHANGED <<fileList, tempList>> /\ (up => up')
    BY DEF nsVars
  <2>2. ASSUME NEW s, startServer(s, ServerHash(s))
        PROVE  UNCHANGED <<fileList, tempList>> /\ (up => up')
    BY <2>2, Zenon DEF startServer
  <2>3. UNCHANGED <<fileList, tempList>> /\ (up => up')
    BY <1>3, <2>1, <2>2 DEF UserEdits, Edit, Restarts, CrashDataServer, RegisterDataServer,
                            Listen
  <2>. QED BY <1>1, <2>3, OtherSteps DEF NamesInv, KnownOnce
<1>4. CASE Crash
  <2>1. fileList' = <<>> /\ tempList' = <<>> /\ KnownOnce' /\ NamesOf(tempList') = {}
    BY <1>4, EmptyKnown DEF Crash, KnownOnce
  <2>. QED BY <1>1, <2>1, OtherSteps
<1>. QED BY <1>2, <1>3, <1>4

\* An answer breaks off, and nothing is known any more.
LEMMA BrokenAnswersKeepNames ==
  ASSUME NamesInv, NEW c \in Clients, AnswerBreaks(c)
  PROVE  NamesInv'
<1>1. fileList' = <<>> /\ tempList' = <<>> /\ KnownOnce' /\ NamesOf(tempList') = {}
  BY EmptyKnown DEF AnswerBreaks, Crash, KnownOnce
<1>2. op' = op
  BY DEF AnswerBreaks, RmGoesOn, PutGoesOn, GetGoesOn, Die
<1>3. \E next \in {"rmBlock", "putBlock", "getBlock", "idle"} :
        pc' = [pc EXCEPT ![c] = next] /\ (next \in Writing => c \in Users)
  BY DEF AnswerBreaks, RmGoesOn, PutGoesOn, GetGoesOn, Die, Return, Goto, NamesInv, Controls,
         Writing
<1>. QED BY <1>1, <1>2, <1>3, ClientSteps

\* The invariant of one client that writes.
THEOREM NamesHold == OneWriter => (Spec => []NamesInv)
<1>. SUFFICES ASSUME OneWriter PROVE Spec => []NamesInv
  OBVIOUS
<1>1. Init => NamesInv
  BY EmptyKnown DEF Init, NamesInv, KnownOnce, Controls, Writing
<1>2. NamesInv /\ [Next]_dfsVars => NamesInv'
  <2>. SUFFICES ASSUME NamesInv, [Next]_dfsVars PROVE NamesInv'
    OBVIOUS
  <2>1. CASE UNCHANGED dfsVars
    BY <2>1, OtherSteps DEF dfsVars, vars, clVars, nsVars, NamesInv, KnownOnce
  <2>2. ASSUME NEW c \in Clients, Begin(c) PROVE NamesInv'
    BY <2>2, StartsKeepNames
  <2>3. ASSUME NEW c \in Clients, Step(c) PROVE NamesInv'
    BY <2>3, TransactionsKeepNames, BlockStepsKeepNames DEF Step
  <2>4. CASE Crashes
    BY <2>4, BlockStepsKeepNames, ServersKeepNames, BrokenAnswersKeepNames DEF Crashes
  <2>. QED BY <2>1, <2>2, <2>3, <2>4, ServersKeepNames DEF Next
<1>. QED BY <1>1, <1>2, PTL DEF Spec

\* With one client that writes, the name server never knows a name twice, whoever
\* crashes, and whenever.
THEOREM NamesUnique == OneWriter => (Spec => []UniqueNames)
<1>. SUFFICES ASSUME OneWriter PROVE Spec => []UniqueNames
  OBVIOUS
<1>1. Spec => []NamesInv
  BY NamesHold
<1>2. NamesInv => UniqueNames
  <2>. SUFFICES ASSUME NamesInv, NEW f \in Files
                PROVE  Cardinality({k \in DOMAIN fileList : fileList[k].fileName = f})
                         + Cardinality({k \in DOMAIN tempList : tempList[k].fileName = f}) <= 1
    BY DEF UniqueNames
  <2>1. ASSUME NEW l, NameList(l)
        PROVE  LET P == {k \in DOMAIN l : l[k].fileName = f}
               IN  Cardinality(P) = IF f \in NamesOf(l) THEN 1 ELSE 0
    <3>. DEFINE P == {k \in DOMAIN l : l[k].fileName = f}
    <3>1. /\ DOMAIN l = 1 .. Len(l)
          /\ f \in NamesOf(l) <=> \E k \in 1 .. Len(l) : f = l[k].fileName
      BY <2>1, NameListElements DEF NameList
    <3>2. CASE f \in NamesOf(l)
      <4>1. PICK k \in 1 .. Len(l) : f = l[k].fileName
        BY <3>1, <3>2
      <4>2. P = {k}
        BY <2>1, <3>1, <4>1 DEF NameList
      <4>. HIDE DEF P
      <4>3. Cardinality(P) = 1
        BY <4>2, FS_Singleton
      <4>. QED BY <3>2, <4>3 DEF P
    <3>3. CASE f \notin NamesOf(l)
      <4>1. P = {}
        BY <3>1, <3>3
      <4>. HIDE DEF P
      <4>2. Cardinality(P) = 0
        BY <4>1, FS_EmptySet
      <4>. QED BY <3>3, <4>2 DEF P
    <3>. QED BY <3>2, <3>3
  <2>2. ~(f \in NamesOf(fileList) /\ f \in NamesOf(tempList))
    BY DEF NamesInv, KnownOnce
  <2>. QED BY <2>1, <2>2 DEF NamesInv, KnownOnce
<1>. QED BY <1>1, <1>2, PTL

-----------------------------------------------------------------------------
(***************************************************************************)
(* A get does not mix versions.                                            *)
(***************************************************************************)

\* A client's steps are its own: they leave the other clients where they are.
LEMMA StepsAreOwn ==
  ASSUME NEW c \in Clients, Begin(c) \/ Step(c) \/ CrashClient(c)
  PROVE  Own(c)
<1>1. ASSUME NEW f, NEW x, local' = [local EXCEPT ![c][f] = x]
      PROVE  local' = [local EXCEPT ![c] = [local[c] EXCEPT ![f] = x]]
  BY <1>1
<1>2. ASSUME NEW f, NEW x, bak' = [bak EXCEPT ![c][f] = x]
      PROVE  bak' = [bak EXCEPT ![c] = [bak[c] EXCEPT ![f] = x]]
  BY <1>2
<1>3. ASSUME NEW e, NEW ok, NEW data, Receive(c, e, ok, data)
      PROVE  \E x : got' = [got EXCEPT ![c] = x]
  BY <1>3 DEF Receive
<1>4. ASSUME NEW result, Return(c, result), UNCHANGED <<op, bak>>,
             local' = local \/ \E f, x : local' = [local EXCEPT ![c][f] = x]
      PROVE  Own(c)
  BY <1>1, <1>4, Zenon DEF Return, Goto, Forget, Own
<1>5. CASE Begin(c)
  BY <1>1, <1>2, <1>5, Zenon DEF Begin, StartPut, StartRm, StartGet, Start, Goto, Own
<1>6. CASE BeginRm(c) \/ RmBlock(c) \/ RmBlockDone(c) \/ BeginPut(c) \/ PutBlock(c)
           \/ PutBlockDone(c) \/ CallFails(c)
  BY <1>6, Zenon DEF BeginRm, RmGoesOn, RmBlock, RmBlockDone, BeginPut, PutGoesOn, PutBlock, PutBlockDone, CallFails,
                     Goto, Walk, Advance, Own
<1>7. ASSUME NEW result, NEW copy, EndRm(c, result, copy), UNCHANGED op PROVE Own(c)
  <2>1. CASE /\ Return(c, result) /\ UNCHANGED bak
             /\ local' = [local EXCEPT ![c][File(c)] = copy]
    BY <1>4, <1>7, <2>1
  <2>2. CASE /\ Goto(c, "beginPut") /\ Forget(c) /\ UNCHANGED status
             /\ \E x, y : /\ local' = [local EXCEPT ![c][File(c)] = x]
                         /\ bak' = [bak EXCEPT ![c][File(c)] = y]
    BY <1>1, <1>2, <1>7, <2>2, Zenon DEF Goto, Forget, Own
  <2>. QED BY <1>7, <2>1, <2>2, Zenon DEF EndRm
<1>8. CASE AbortRm(c) \/ CommitRm(c) \/ AbortPut(c) \/ CommitPut(c) \/ CommitGet(c)
           \/ CrashClient(c)
  BY <1>4, <1>7, <1>8, Zenon
     DEF AbortRm, CommitRm, AbortPut, CommitPut, CommitGet, CrashClient, Die
<1>9. CASE BeginGet(c)
  BY <1>4, <1>9, Zenon DEF BeginGet, GetGoesOn, Die, Walk, Goto, Own
<1>10. CASE GetBlock(c) \/ GetUnit(c) \/ GetBlockDone(c)
  BY <1>3, <1>4, <1>10, Zenon DEF GetBlock, GetUnit, GetBlockDone, Goto, Advance, Own
<1>. QED BY <1>5, <1>6, <1>8, <1>9, <1>10, Zenon DEF Step

\* So do the answers that break off.
LEMMA BreaksAreOwn ==
  ASSUME NEW c \in Clients, AnswerBreaks(c)
  PROVE  Own(c)
<1>1. ASSUME NEW result, Return(c, result), UNCHANGED <<op, local, bak>> PROVE Own(c)
  BY <1>1, Zenon DEF Return, Goto, Forget, Own
<1>2. ASSUME NEW stores, RmGoesOn(c, stores) \/ PutGoesOn(c, stores) PROVE Own(c)
  BY <1>2, Zenon DEF RmGoesOn, PutGoesOn, Walk, Goto, Own
<1>3. ASSUME NEW stores, GetGoesOn(c, stores) PROVE Own(c)
  BY <1>1, <1>3, Zenon DEF GetGoesOn, Die, Walk, Goto, Own
<1>. QED BY <1>2, <1>3, Zenon DEF AnswerBreaks

Downloading == {"getBlock", "getWait"}

\* A block downloaded without an error is the one every entry of its number asks
\* for.
Fits(stores, i, block) ==
  block.ok => \A k \in 1 .. Len(stores) : stores[k].blockIdx = i =>
    block.data = stores[k].blockHash /\ Len(block.data) = stores[k].blockSize

Matching(c) ==
  pc[c] \in Downloading =>
    ReplicasAgree(list[c]) /\ \A i \in DOMAIN got[c] : Fits(list[c], i, got[c][i])

MInv == DInv /\ \A c \in Clients : Matching(c)

\* A block received that fits keeps the blocks of a get fitting.
LEMMA ReceiveFits ==
  ASSUME ClientsInv, NEW c \in Clients, NEW e, NEW ok, NEW data, Receive(c, e, ok, data),
         UNCHANGED list, Fits(list[c], e.blockIdx, [ok |-> ok, data |-> data]),
         \A i \in DOMAIN got[c] : Fits(list[c], i, got[c][i])
  PROVE  \A i \in DOMAIN got'[c] : Fits(list'[c], i, got'[c][i])
<1>. DEFINE x == [ok |-> ok, data |-> data]
            new == [i \in DOMAIN got[c] \cup {e.blockIdx} |->
                      IF i = e.blockIdx THEN x ELSE got[c][i]]
<1>1. got'[c] = new
  BY DEF Receive, ClientsInv, Domains
<1>. HIDE DEF x
<1>2. \A i \in DOMAIN new : Fits(list[c], i, new[i])
  BY Zenon DEF x
<1>. HIDE DEF new
<1>. QED BY <1>1, <1>2

\* A get goes on with nothing downloaded yet.
LEMMA GetGoesOnMatches ==
  ASSUME ClientsInv, NEW c \in Clients, NEW stores, ReplicasAgree(stores), GetGoesOn(c, stores)
  PROVE  Matching(c)'
<1>1. Domains
  BY DEF ClientsInv
<1>2. ASSUME NEW result, Return(c, result) PROVE Matching(c)'
  <2>1. pc'[c] = "idle"
    BY <1>1, <1>2 DEF Return, Goto, Domains
  <2>. QED BY <2>1 DEF Matching, Downloading
<1>3. CASE Walk(c, stores) /\ got' = [got EXCEPT ![c] = <<>>]
  <2>1. list'[c] = stores /\ got'[c] = <<>> /\ DOMAIN got'[c] = {}
    BY <1>1, <1>3 DEF Domains, Walk
  <2>. QED BY <2>1 DEF Matching
<1>. QED BY <1>2, <1>3, Zenon DEF GetGoesOn, Die

\* What is streamed is taken only when it has the digest and the size of its
\* entry, and of the other replicas of the block then.
LEMMA GetsKeepMatching ==
  ASSUME ClientsInv, ListsInv, NEW c \in Clients, Matching(c),
         \/ BeginGet(c) \/ GetBlock(c) \/ GetUnit(c) \/ GetBlockDone(c)
         \/ CallFails(c) /\ pc[c] = "getWait"
  PROVE  Matching(c)'
<1>1. ClientInv(c) /\ Domains
  BY DEF ClientsInv
<1>2. ASSUME NEW result, Return(c, result) PROVE Matching(c)'
  <2>1. pc'[c] = "idle"
    BY <1>1, <1>2 DEF Return, Goto, Domains
  <2>. QED BY <2>1 DEF Matching, Downloading
<1>3. ASSUME NEW ok, NEW data, Receive(c, Entry(c), ok, data), UNCHANGED list,
             pc[c] \in Downloading, ~AtEnd(c),
             ok => data = Entry(c).blockHash /\ Len(data) = Entry(c).blockSize
      PROVE  Matching(c)'
  <2>1. /\ at[c] \in 1 .. Len(list[c]) /\ DOMAIN list[c] = 1 .. Len(list[c])
        /\ ReplicasAgree(list[c]) /\ \A i \in DOMAIN got[c] : Fits(list[c], i, got[c][i])
    BY <1>1, <1>3, EntriesAreStores DEF ClientInv, AtEnd, Matching
  <2>2. Fits(list[c], Entry(c).blockIdx, [ok |-> ok, data |-> data])
    BY <1>3, <2>1 DEF Fits, ReplicasAgree, Entry
  <2>3. \A i \in DOMAIN got'[c] : Fits(list'[c], i, got'[c][i])
    BY <1>3, <2>1, <2>2, ReceiveFits
  <2>. QED BY <1>3, <2>1, <2>3 DEF Matching
<1>4. ASSUME UNCHANGED <<list, got>>, pc[c] \in Downloading PROVE Matching(c)'
  BY <1>4 DEF Matching
<1>5. CASE BeginGet(c)
  <2>1. ReplicasAgree(beginGetReply(File(c)))
    BY RepliesAreLists DEF WellFormed
  <2>. QED BY <1>5, <2>1, GetGoesOnMatches DEF BeginGet
<1>6. CASE GetBlock(c)
  BY <1>2, <1>3, <1>4, <1>6, Zenon DEF GetBlock, Downloading
<1>7. CASE GetUnit(c) \/ GetBlockDone(c)
  <2>1. ~AtEnd(c) /\ pc[c] \in Downloading /\ UNCHANGED list
    BY <1>1, <1>7 DEF GetUnit, GetBlockDone, ClientInv, Downloading
  <2>. QED BY <1>3, <1>7, <2>1, Zenon DEF GetUnit, GetBlockDone
<1>8. CASE CallFails(c) /\ pc[c] = "getWait"
  BY <1>4, <1>8 DEF CallFails, Downloading
<1>. QED BY <1>5, <1>6, <1>7, <1>8

\* Only gets download.
LEMMA OnlyGetsDownload ==
  ASSUME ClientsInv, NEW c \in Clients, Begin(c) \/ Step(c) \/ CrashClient(c),
         pc'[c] \in Downloading
  PROVE  \/ BeginGet(c) \/ GetBlock(c) \/ GetUnit(c) \/ GetBlockDone(c)
         \/ CallFails(c) /\ pc[c] = "getWait"
<1>1. Domains
  BY DEF ClientsInv
<1>2. ASSUME NEW result, Return(c, result) PROVE FALSE
  <2>1. pc'[c] = "idle"
    BY <1>1, <1>2 DEF Return, Goto, Domains
  <2>. QED BY <2>1 DEF Downloading
<1>3. ASSUME NEW result, NEW copy, EndRm(c, result, copy) PROVE FALSE
  <2>1. CASE Goto(c, "beginPut")
    <3>1. pc'[c] = "beginPut"
      BY <1>1, <2>1 DEF Goto, Domains
    <3>. QED BY <3>1 DEF Downloading
  <2>. QED BY <1>2, <1>3, <2>1, Zenon DEF EndRm
<1>4. ~Begin(c)
  <2>1. Begin(c) => pc'[c] \in {"beginRm", "beginGet"}
    BY <1>1 DEF Begin, StartPut, StartRm, StartGet, Goto, Domains
  <2>. QED BY <2>1 DEF Downloading
<1>5. ~(BeginRm(c) \/ RmBlock(c) \/ RmBlockDone(c) \/ BeginPut(c) \/ PutBlock(c)
        \/ PutBlockDone(c) \/ (CallFails(c) /\ pc[c] # "getWait"))
  <2>1. BeginRm(c) \/ RmBlock(c) \/ RmBlockDone(c) \/ BeginPut(c) \/ PutBlock(c)
        \/ PutBlockDone(c) \/ (CallFails(c) /\ pc[c] # "getWait")
        => pc'[c] \in {"rmBlock", "rmWait", "abortRm", "putBlock", "putWait", "abortPut"}
    BY <1>1 DEF BeginRm, RmGoesOn, RmBlock, RmBlockDone, BeginPut, PutGoesOn, PutBlock,
                PutBlockDone, CallFails, Goto, Domains
  <2>. QED BY <2>1 DEF Downloading
<1>6. ~(AbortRm(c) \/ CommitRm(c) \/ AbortPut(c) \/ CommitPut(c) \/ CommitGet(c)
        \/ CrashClient(c))
  BY <1>2, <1>3, Zenon DEF AbortRm, CommitRm, AbortPut, CommitPut, CommitGet, CrashClient, Die
<1>. QED BY <1>4, <1>5, <1>6, Zenon DEF Step

\* The steps of the clients.
LEMMA StepsKeepMatching ==
  ASSUME MInv, NEW c \in Clients, NEW d \in Clients,
         Begin(c) \/ Step(c) \/ CrashClient(c) \/ AnswerBreaks(c)
  PROVE  Matching(d)'
<1>1. ClientsInv /\ ListsInv /\ Domains /\ Matching(c) /\ Matching(d)
  BY DEF MInv, DInv, IInv, ClientsInv
<1>2. CASE d # c
  <2>1. pc'[d] = pc[d] /\ list'[d] = list[d] /\ got'[d] = got[d]
    BY <1>1, <1>2, StepsAreOwn, BreaksAreOwn, OtherValue DEF Domains, Own
  <2>. QED BY <1>1, <2>1 DEF Matching
<1>3. Matching(c)'
  <2>1. CASE pc'[c] \notin Downloading
    BY <2>1 DEF Matching
  <2>2. CASE pc'[c] \in Downloading /\ ~AnswerBreaks(c)
    BY <1>1, <2>2, OnlyGetsDownload, GetsKeepMatching
  <2>3. CASE AnswerBreaks(c) /\ pc'[c] \in Downloading
    <3>1. ASSUME NEW stores, RmGoesOn(c, stores) \/ PutGoesOn(c, stores) PROVE FALSE
      <4>1. pc'[c] \in {"rmBlock", "putBlock"}
        BY <1>1, <3>1 DEF RmGoesOn, PutGoesOn, Goto, Domains
      <4>. QED BY <2>3, <4>1 DEF Downloading
    <3>2. PICK stores \in Beginnings(beginGetReply(File(c))) : GetGoesOn(c, stores)
      BY <2>3, <3>1, Zenon DEF AnswerBreaks
    <3>3. ReplicasAgree(stores)
      BY <1>1, <3>2, RepliesAreLists, BeginningsAreLists DEF WellFormed
    <3>. QED BY <1>1, <3>2, <3>3, GetGoesOnMatches
  <2>. QED BY <2>1, <2>2, <2>3
<1>. QED BY <1>2, <1>3, Zenon

\* The blocks of a get that all came without an error make up the file of the
\* digests it was answered.
LEMMA MatchingComposes ==
  ASSUME NEW c \in Clients, ClientInv(c), Matching(c), pc[c] = "getBlock",
         {e.blockIdx : e \in ToSet(list[c])} = Downloaded(c)
  PROVE  Composition(c) = ContentOf(list[c])
<1>. DEFINE N == Len(list[c])
            composed(k) == IF FirstOfBlock(list[c], k) THEN Composed(c, list[c][k]) ELSE <<>>
            content(k) == IF FirstOfBlock(list[c], k) THEN list[c][k].blockHash ELSE <<>>
<1>1. DOMAIN list[c] = 1 .. N /\ \A k \in 1 .. N : list[c][k] \in ToSet(list[c])
  BY EntriesAreStores DEF ToSet
<1>2. ASSUME NEW k \in 1 .. N PROVE Composed(c, list[c][k]) = list[c][k].blockHash
  <2>. DEFINE b == list[c][k]
              data == got[c][b.blockIdx].data
              u(j) == IF j <= Len(data) THEN data[j] ELSE Garbage
  <2>1. b.blockIdx \in DOMAIN got[c] /\ got[c][b.blockIdx].ok
    BY <1>1 DEF Downloaded
  <2>2. data = b.blockHash /\ Len(data) = b.blockSize /\ data \in Seq(Units)
    BY <2>1 DEF Matching, Fits, Downloading, ClientInv
  <2>3. Composed(c, b) = [j \in 1 .. b.blockSize |-> u(j)]
    BY Zenon DEF Composed
  <2>. HIDE DEF data
  <2>4. Len(data) \in Nat /\ data = [j \in 1 .. Len(data) |-> data[j]]
    BY <2>2, LenProperties
  <2>5. \A j \in 1 .. Len(data) : u(j) = data[j]
    BY <2>4
  <2>. HIDE DEF u
  <2>. QED BY <2>2, <2>3, <2>4, <2>5
<1>3. \A k \in 1 .. N : composed(k) = content(k)
  BY <1>2, Zenon
<1>4. Composition(c) = FlattenSeq([k \in 1 .. N |-> composed(k)])
  BY <1>1, Zenon DEF Composition
<1>5. ContentOf(list[c]) = FlattenSeq([k \in 1 .. N |-> content(k)])
  BY <1>1, Zenon DEF ContentOf
<1>. HIDE DEF composed, content
<1>6. [k \in 1 .. N |-> composed(k)] = [k \in 1 .. N |-> content(k)]
  BY <1>3
<1>. QED BY <1>4, <1>5, <1>6

\* A step of anyone keeps what has been downloaded fitting.
LEMMA MatchingStays ==
  ASSUME MInv, [Next]_dfsVars, NEW d \in Clients
  PROVE  Matching(d)'
<1>1. UNCHANGED <<pc, list, got>> => Matching(d)'
  BY DEF MInv, Matching
<1>2. CASE \/ \E call \in calls : Serve(call)
           \/ UserEdits \/ Restarts \/ UNCHANGED dfsVars
  <2>1. UNCHANGED <<pc, list, got>>
    BY <1>2 DEF Serve, UserEdits, Edit, Restarts, dfsVars, vars, clVars
  <2>. QED BY <1>1, <2>1
<1>3. CASE Crashes
  <2>1. UNCHANGED clVars => UNCHANGED <<pc, list, got>>
    BY DEF clVars
  <2>. QED BY <1>1, <1>3, <2>1, StepsKeepMatching, Zenon DEF Crashes
<1>. QED BY <1>2, <1>3, StepsKeepMatching, Zenon DEF Next

\* The list a get works from, to its end: what the name server answered its
\* begin, or the beginning of the answer that arrived when the name server died.
AnswerKept(c) ==
  LET whole == beginGetReply(File(c))
  IN  pc'[c] \in Downloading =>
        \/ pc[c] \in Downloading /\ list'[c] = list[c]
        \/ pc[c] = "beginGet" /\ list'[c] = whole
        \/ pc[c] = "beginGet" /\ ~up' /\ list'[c] \in Beginnings(whole)

\* The client that makes a step.
LEMMA StepsKeepAnswer ==
  ASSUME ClientsInv, NEW c \in Clients,
         Begin(c) \/ Step(c) \/ CrashClient(c) \/ AnswerBreaks(c)
  PROVE  AnswerKept(c)
<1>. SUFFICES ASSUME pc'[c] \in Downloading PROVE AnswerKept(c)
  BY DEF AnswerKept
<1>1. Domains
  BY DEF ClientsInv
<1>2. ASSUME NEW stores, GetGoesOn(c, stores) PROVE list'[c] = stores
  <2>1. ASSUME NEW result, Return(c, result) PROVE FALSE
    <3>1. pc'[c] = "idle"
      BY <1>1, <2>1 DEF Return, Goto, Domains
    <3>. QED BY <3>1 DEF Downloading
  <2>2. Walk(c, stores)
    BY <1>2, <2>1, Zenon DEF GetGoesOn, Die
  <2>. QED BY <1>1, <2>2 DEF Walk, Domains
<1>3. CASE AnswerBreaks(c)
  <2>1. ASSUME NEW stores, RmGoesOn(c, stores) \/ PutGoesOn(c, stores) PROVE FALSE
    <3>1. pc'[c] \in {"rmBlock", "putBlock"}
      BY <1>1, <2>1 DEF RmGoesOn, PutGoesOn, Goto, Domains
    <3>. QED BY <3>1 DEF Downloading
  <2>2. PICK stores \in Beginnings(beginGetReply(File(c))) :
          pc[c] = "beginGet" /\ GetGoesOn(c, stores)
    BY <1>3, <2>1, Zenon DEF AnswerBreaks
  <2>3. ~up'
    BY <1>3, Zenon DEF AnswerBreaks, Crash
  <2>. QED BY <1>2, <2>2, <2>3 DEF AnswerKept
<1>4. CASE BeginGet(c)
  BY <1>2, <1>4 DEF BeginGet, AnswerKept
<1>5. CASE GetBlock(c) \/ GetUnit(c) \/ GetBlockDone(c) \/ (CallFails(c) /\ pc[c] = "getWait")
  <2>1. pc[c] \in Downloading
    BY <1>5 DEF GetBlock, GetUnit, GetBlockDone, Downloading
  <2>2. UNCHANGED list \/ \E result : Return(c, result)
    BY <1>5, Zenon DEF GetBlock, GetUnit, GetBlockDone, CallFails
  <2>3. (\E result : Return(c, result)) => pc'[c] = "idle"
    BY <1>1 DEF Return, Goto, Domains
  <2>. QED BY <2>1, <2>2, <2>3 DEF AnswerKept, Downloading
<1>. QED BY <1>3, <1>4, <1>5, OnlyGetsDownload

\* The steps of anyone.
LEMMA AnswersStay ==
  ASSUME ClientsInv, [Next]_dfsVars, NEW d \in Clients
  PROVE  AnswerKept(d)
<1>1. pc'[d] = pc[d] /\ list'[d] = list[d] => AnswerKept(d)
  BY DEF AnswerKept
<1>2. UNCHANGED <<pc, list>> => AnswerKept(d)
  BY <1>1
<1>3. ASSUME NEW c \in Clients, Begin(c) \/ Step(c) \/ CrashClient(c) \/ AnswerBreaks(c)
      PROVE  AnswerKept(d)
  <2>1. CASE d = c
    BY <1>3, <2>1, StepsKeepAnswer
  <2>2. CASE d # c
    BY <1>1, <1>3, <2>2, StepsAreOwn, BreaksAreOwn, OtherValue DEF ClientsInv, Domains, Own
  <2>. QED BY <2>1, <2>2
<1>4. CASE \/ \E call \in calls : Serve(call)
           \/ UserEdits \/ Restarts \/ UNCHANGED dfsVars
  <2>1. UNCHANGED <<pc, list>>
    BY <1>4 DEF Serve, UserEdits, Edit, Restarts, dfsVars, vars, clVars
  <2>. QED BY <1>2, <2>1
<1>5. CASE Crashes
  <2>1. UNCHANGED clVars => UNCHANGED <<pc, list>>
    BY DEF clVars
  <2>. QED BY <1>2, <1>3, <1>5, <2>1, Zenon DEF Crashes
<1>. QED BY <1>3, <1>4, <1>5, Zenon DEF Next

\* Whatever puts and removals run meanwhile, whatever calls of dead clients still
\* write, and whoever crashes: a get all of whose blocks came without an error
\* composes, block by block, the content its list names, and that list is, from
\* its begin to its end, the one the name server answered: the whole storeList of
\* the file listed then, or, when the name server died while it answered, the
\* beginning of it that arrived. In that last case the file composed is a version
\* cut short.
THEOREM VersionsUnmixed ==
  BlockIndices = Nat =>
    (Spec => []NoMixedVersions /\ [][\A c \in Clients : AnswerKept(c)]_dfsVars)
<1>. SUFFICES ASSUME BlockIndices = Nat
              PROVE  Spec => []NoMixedVersions /\ [][\A c \in Clients : AnswerKept(c)]_dfsVars
  OBVIOUS
<1>1. Init => \A c \in Clients : Matching(c)
  BY DEF Init, Matching, Downloading
<1>2. (\A c \in Clients : Matching(c)) /\ DInv /\ [Next]_dfsVars
        => (\A c \in Clients : Matching(c))'
  BY MatchingStays DEF MInv
<1>3. (\A c \in Clients : Matching(c)) /\ DInv => NoMixedVersions
  BY MatchingComposes DEF NoMixedVersions, DInv, ClientsInv
<1>4. Spec => []DInv
  BY TypesKept
<1>5. DInv /\ [Next]_dfsVars => [\A c \in Clients : AnswerKept(c)]_dfsVars
  BY AnswersStay DEF DInv
<1>. QED BY <1>1, <1>2, <1>3, <1>4, <1>5, PTL DEF Spec

-----------------------------------------------------------------------------
(***************************************************************************)
(* Until something crashes.  With one client that writes, the state is     *)
(* then quiet: every process runs, every call is the call its client waits *)
(* for, an entry is in tempList only while its put or rm runs, and every   *)
(* block file is a replica that the metadata or the put or rm at hand has. *)
(***************************************************************************)

\* A replica is on its disk, with the content its digest was taken of.
OnDisk(f, s) ==
  /\ s.server.address \in Servers
  /\ s.blockHash \in Pieces /\ s.blockHash # <<>> /\ s.blockSize = Len(s.blockHash)
  /\ disk[s.server.address][<<f, s.blockIdx>>] = s.blockHash

AllRun == up /\ starting = {} /\ running = Servers /\ serverList # <<>>

ListedStored ==
  \A e \in ToSet(fileList) : \A s \in ToSet(e.storeList) : OnDisk(e.fileName, s)

\* Where a client waits for a call, and for which entry of its list.
WaitsFor == [getBlock |-> "getWait", putBlock |-> "putWait", rmBlock |-> "rmWait"]

Awaited(call) ==
  LET c == call.caller
  IN  /\ c \in Clients /\ pc[c] = WaitsFor[call.method]
      /\ call.file = File(c) /\ call.server = Entry(c).server.address
      /\ call.blockIdx = Entry(c).blockIdx

OneCallEach ==
  /\ \A call \in calls : Awaited(call)
  /\ \A a, b \in calls : a.caller = b.caller => a = b
  /\ \A c \in Clients : pc[c] \in {"getWait", "putWait", "rmWait"} =>
       \E call \in calls : call.caller = c

RmPhase == {"rmBlock", "rmWait"}
PutPhase == {"putBlock", "putWait"}
Busy == RmPhase \cup PutPhase \cup {"beginPut", "abortRm", "abortPut"}

OnTheWay ==
  \A f \in NamesOf(tempList) :
    \E c \in Clients : pc[c] \in RmPhase \cup PutPhase /\ File(c) = f

\* An rm still has its entries from the iterator on.
RemovalInv(c) ==
  pc[c] \in RmPhase =>
    /\ DistinctReplicas(list[c])
    /\ \A k \in at[c] .. Len(list[c]) : OnDisk(File(c), list[c][k])

\* The entry of a put, as the name server has it by now: the reports have filled
\* it in up to the iterator.
Sending == tempList[1].storeList

PutInv(c) ==
  pc[c] \in PutPhase =>
    /\ Len(tempList) = 1 /\ tempList[1].fileName = File(c)
    /\ WellFormed(list[c]) /\ Len(Sending) = Len(list[c])
    /\ \A k \in 1 .. Len(list[c]) :
         /\ list[c][k].server.address \in Servers
         /\ Sending[k].blockIdx = list[c][k].blockIdx
         /\ Sending[k].server = list[c][k].server
    /\ \A k \in 1 .. at[c] - 1 :
         OnDisk(File(c), Sending[k]) /\ Sending[k].blockHash = Piece(c, list[c][k])

\* A running putBlock has written what is not left to write, and the report comes
\* first for the last unit.
SendInv(call) ==
  call.method = "putBlock" =>
    LET c == call.caller
    IN  /\ call.linked /\ call.data = Piece(c, Entry(c))
        /\ disk[call.server][BlockName(call)] \o call.left = call.data
        /\ call.reported =>
             /\ Len(call.left) <= 1
             /\ Sending[at[c]].blockHash = call.data
             /\ Sending[at[c]].blockSize = Len(call.data)

\* The entries of the list of a put or an rm whose blocks are on the disks.
Held(c) ==
  IF pc[c] \in RmPhase THEN at[c] .. Len(list[c])
  ELSE IF pc[c] = "putBlock" THEN 1 .. at[c] - 1
  ELSE IF pc[c] = "putWait" THEN 1 .. at[c]
  ELSE {}

Names(s, b, f, store) == b = <<f, store.blockIdx>> /\ s = store.server.address

ListedHas(s, b) ==
  \E e \in ToSet(fileList) : \E store \in ToSet(e.storeList) : Names(s, b, e.fileName, store)

HeldHas(c, s, b) == \E k \in Held(c) : Names(s, b, File(c), list[c][k])

Accounted(s, b) == ListedHas(s, b) \/ \E c \in Clients : HeldHas(c, s, b)

DisksAccounted ==
  \A s \in Servers : \A b \in Files \X Nat : disk[s][b] # Absent => Accounted(s, b)

ClientQuiet(c) ==
  /\ pc[c] \notin {"abortRm", "abortPut"} /\ RemovalInv(c) /\ PutInv(c)
  /\ pc[c] \in RmPhase \cup {"beginPut"} \cup PutPhase => File(c) \notin NamesOf(fileList)

Quiet ==
  /\ AllRun /\ ListedStored /\ OneCallEach /\ OnTheWay /\ DisksAccounted
  /\ \A c \in Clients : ClientQuiet(c)
  /\ \A call \in calls : SendInv(call)

Calm == DInv /\ NamesInv /\ Quiet

\* A client that neither puts nor removes holds nothing.
LEMMA RestIsQuiet ==
  ASSUME NEW c, pc[c] \notin Busy
  PROVE  ClientQuiet(c) /\ Held(c) = {}
BY DEF Busy, RmPhase, PutPhase, ClientQuiet, RemovalInv, PutInv, Held

\* The other clients while a client makes a step ...
LEMMA OthersSame ==
  ASSUME ClientsInv, NEW c \in Clients, Own(c), NEW d \in Clients, d # c
  PROVE  /\ pc'[d] = pc[d] /\ op'[d] = op[d] /\ list'[d] = list[d] /\ at'[d] = at[d]
         /\ got'[d] = got[d] /\ local'[d] = local[d]
         /\ File(d)' = File(d) /\ Entry(d)' = Entry(d)
BY OtherValue DEF ClientsInv, Domains, Own, File, Entry

\* ... and a step of the one that writes.
LEMMA OthersRest ==
  ASSUME Calm, OneWriter, NEW c \in Clients, Own(c), pc[c] \in Writing, NEW d \in Clients, d # c
  PROVE  pc[d] \notin Busy /\ pc'[d] \notin Busy /\ ClientQuiet(d)' /\ Held(d)' = {}
<1>1. pc'[d] = pc[d]
  BY OthersSame DEF Calm, DInv
<1>2. pc[d] \notin Writing
  BY DEF Calm, NamesInv, Controls, OneWriter
<1>3. pc[d] \notin Busy
  BY <1>2 DEF Writing, Busy, RmPhase, PutPhase
<1>4. pc'[d] \notin Busy
  BY <1>1, <1>3
<1>5. ClientQuiet(d)' /\ Held(d)' = {}
  BY <1>4 DEF Busy, RmPhase, PutPhase, ClientQuiet, RemovalInv, PutInv, Held
<1>. QED BY <1>3, <1>4, <1>5

\* A call, up to how far it has come.
SameCall(a, b) ==
  /\ a.caller = b.caller /\ a.method = b.method /\ a.server = b.server
  /\ a.file = b.file /\ a.blockIdx = b.blockIdx

\* The calls of the other clients stay, up to what they have read.
LEMMA CallsStay ==
  ASSUME ClientsInv, OneCallEach, NEW c \in Clients, Own(c),
         \A call \in calls' : call.caller # c => \E old \in calls : SameCall(old, call),
         \A old \in calls : old.caller # c => \E call \in calls' : SameCall(old, call),
         \A a, b \in calls' : a.caller = b.caller => a = b,
         \A call \in calls' : call.caller = c => Awaited(call)',
         pc'[c] \in {"getWait", "putWait", "rmWait"} => \E call \in calls' : call.caller = c
  PROVE  OneCallEach'
<1>1. ASSUME NEW call \in calls' PROVE Awaited(call)'
  <2>1. CASE call.caller # c
    <3>1. PICK old \in calls : SameCall(old, call)
      BY <2>1
    <3>2. Awaited(old)
      BY DEF OneCallEach
    <3>3. call.caller \in Clients
      BY <3>1, <3>2 DEF SameCall, Awaited
    <3>4. /\ pc'[call.caller] = pc[call.caller] /\ File(call.caller)' = File(call.caller)
          /\ Entry(call.caller)' = Entry(call.caller)
      BY <2>1, <3>3, OthersSame
    <3>. QED BY <3>1, <3>2, <3>3, <3>4 DEF SameCall, Awaited
  <2>. QED BY <2>1
<1>2. ASSUME NEW d \in Clients, pc'[d] \in {"getWait", "putWait", "rmWait"}
      PROVE  \E call \in calls' : call.caller = d
  <2>1. CASE d # c
    <3>1. pc'[d] = pc[d]
      BY <2>1, OthersSame
    <3>2. PICK old \in calls : old.caller = d
      BY <1>2, <3>1 DEF OneCallEach
    <3>. QED BY <2>1, <3>2 DEF SameCall
  <2>. QED BY <1>2, <2>1
<1>. QED BY <1>1, <1>2 DEF OneCallEach

\* A client has a call only where it waits, and then of that kind.
LEMMA CallsAwaited ==
  ASSUME Calm, NEW call \in calls
  PROVE  /\ call.caller \in Clients
         /\ pc[call.caller] \in {"getWait", "putWait", "rmWait"}
         /\ pc[call.caller] = "getWait" <=> call.method = "getBlock"
         /\ pc[call.caller] = "putWait" <=> call.method = "putBlock"
         /\ pc[call.caller] = "rmWait" <=> call.method = "rmBlock"
<1>1. Awaited(call) /\ call.method \in {"getBlock", "putBlock", "rmBlock"}
  BY DEF Calm, Quiet, OneCallEach, DInv, ServersInv, CallInv, BlockCall
<1>. QED BY <1>1 DEF Awaited, WaitsFor

\* A step of a client that neither puts nor removes, before it and after.
LEMMA OutsideKeeps ==
  ASSUME Calm, NEW c \in Clients, Own(c), UNCHANGED <<nsVars, processes, disk>>,
         pc[c] \notin Busy, pc'[c] \notin Busy, OneCallEach',
         \A call \in calls' : call.method = "putBlock" => call \in calls /\ call.caller # c
  PROVE  Quiet'
<1>. USE DEF Calm, Quiet
<1>1. /\ UNCHANGED <<up, serverList, fileList, tempList, starting, running, disk>>
      /\ ClientsInv
  BY DEF nsVars, processes, DInv
<1>2. AllRun' /\ ListedStored'
  BY <1>1 DEF AllRun, ListedStored, OnDisk
<1>3. ASSUME NEW d \in Clients, d # c
      PROVE  /\ pc'[d] = pc[d] /\ list'[d] = list[d] /\ at'[d] = at[d] /\ local'[d] = local[d]
             /\ File(d)' = File(d) /\ Entry(d)' = Entry(d) /\ Held(d)' = Held(d)
             /\ \A e : Piece(d, e)' = Piece(d, e)
  <2>1. /\ pc'[d] = pc[d] /\ list'[d] = list[d] /\ at'[d] = at[d] /\ local'[d] = local[d]
        /\ File(d)' = File(d) /\ Entry(d)' = Entry(d)
    BY <1>1, <1>3, OthersSame
  <2>. QED BY <2>1 DEF Held, Piece
<1>4. OnTheWay'
  <2>. SUFFICES ASSUME NEW f \in NamesOf(tempList)
                PROVE  \E d \in Clients : pc'[d] \in RmPhase \cup PutPhase /\ File(d)' = f
    BY <1>1 DEF OnTheWay
  <2>1. PICK d \in Clients : pc[d] \in RmPhase \cup PutPhase /\ File(d) = f
    BY DEF OnTheWay
  <2>2. d # c
    BY <2>1 DEF Busy
  <2>. QED BY <1>3, <2>1, <2>2
<1>5. ASSUME NEW d \in Clients PROVE ClientQuiet(d)'
  <2>1. CASE d = c
    <3>1. pc'[d] \notin Busy
      BY <2>1
    <3>. QED BY <3>1 DEF Busy, RmPhase, PutPhase, ClientQuiet, RemovalInv, PutInv
  <2>2. CASE d # c
    <3>1. \A f, s : OnDisk(f, s)' = OnDisk(f, s)
      BY <1>1, Zenon DEF OnDisk
    <3>2. ClientQuiet(d)
      OBVIOUS
    <3>3. RemovalInv(d)'
      BY <1>3, <2>2, <3>1, <3>2 DEF ClientQuiet, RemovalInv
    <3>4. PutInv(d)'
      BY <1>1, <1>3, <2>2, <3>1, <3>2 DEF ClientQuiet, PutInv, Sending
    <3>. QED BY <1>1, <1>3, <2>2, <3>2, <3>3, <3>4 DEF ClientQuiet
  <2>. QED BY <2>1, <2>2
<1>6. ASSUME NEW call \in calls' PROVE SendInv(call)'
  <2>. SUFFICES ASSUME call.method = "putBlock" PROVE SendInv(call)'
    BY DEF SendInv
  <2>1. call \in calls /\ call.caller # c /\ call.caller \in Clients
    BY DEF OneCallEach, Awaited
  <2>2. SendInv(call)
    BY <2>1
  <2>3. /\ at'[call.caller] = at[call.caller] /\ Entry(call.caller)' = Entry(call.caller)
        /\ \A e : Piece(call.caller, e)' = Piece(call.caller, e)
    BY <1>3, <2>1
  <2>. QED BY <1>1, <2>2, <2>3 DEF SendInv, Sending
<1>7. DisksAccounted'
  <2>. SUFFICES ASSUME NEW s \in Servers, NEW b \in Files \X Nat, disk[s][b] # Absent
                PROVE  Accounted(s, b)'
    BY <1>1 DEF DisksAccounted
  <2>1. Accounted(s, b)
    BY DEF DisksAccounted
  <2>2. CASE ListedHas(s, b)
    BY <1>1, <2>2 DEF Accounted, ListedHas, Names
  <2>3. CASE \E d \in Clients : HeldHas(d, s, b)
    <3>1. PICK d \in Clients : HeldHas(d, s, b)
      BY <2>3
    <3>2. d # c
      BY <3>1, RestIsQuiet DEF HeldHas
    <3>. QED BY <1>3, <3>1, <3>2 DEF Accounted, HeldHas, Names
  <2>. QED BY <2>1, <2>2, <2>3 DEF Accounted
<1>. QED BY <1>2, <1>4, <1>5, <1>6, <1>7

\* The beginnings of operations, and edits.
LEMMA StartsKeepQuiet ==
  ASSUME Calm, \/ UserEdits
               \/ \E c \in Clients : Begin(c)
  PROVE  Quiet'
<1>1. PICK c \in Clients :
        /\ pc[c] = "idle" /\ pc'[c] \in {"idle", "beginRm", "beginGet"} /\ Own(c)
        /\ UNCHANGED <<nsVars, dsVars>>
  <2>1. CASE UserEdits
    <3>1. PICK c \in Users, f \in Files, content \in Contents : Edit(c, f, content)
      BY <2>1 DEF UserEdits
    <3>2. /\ local' = [local EXCEPT ![c] = [local[c] EXCEPT ![f] = content]] /\ pc[c] = "idle"
          /\ UNCHANGED <<nsVars, dsVars, pc, op, list, at, got, status, bak>>
      BY <3>1 DEF Edit
    <3>3. Own(c) /\ c \in Clients
      BY <3>2, Zenon, DFSAssumption DEF Own, DFSAssumption
    <3>. QED BY <3>2, <3>3
  <2>2. ASSUME NEW c \in Clients, Begin(c)
        PROVE  /\ pc[c] = "idle" /\ pc'[c] \in {"idle", "beginRm", "beginGet"} /\ Own(c)
               /\ UNCHANGED <<nsVars, dsVars>>
    <3>1. Domains
      BY DEF Calm, DInv, ClientsInv
    <3>2. pc[c] = "idle" /\ pc'[c] \in {"idle", "beginRm", "beginGet"}
      BY <2>2, <3>1 DEF Begin, StartPut, StartRm, StartGet, Start, Goto, Domains
    <3>3. UNCHANGED <<nsVars, dsVars>>
      BY <2>2 DEF Begin, StartPut, StartRm, StartGet
    <3>. QED BY <2>2, <3>2, <3>3, StepsAreOwn
  <2>. QED BY <2>1, <2>2
<1>2. UNCHANGED <<nsVars, processes, disk, calls>> /\ pc[c] \notin Busy /\ pc'[c] \notin Busy
  BY <1>1 DEF dsVars, processes, Busy, RmPhase, PutPhase
<1>3. \A call \in calls : call.caller # c
  BY <1>1, CallsAwaited
<1>4. OneCallEach'
  <2>1. \A call \in calls : SameCall(call, call)
    BY DEF SameCall
  <2>. QED BY <1>1, <1>2, <1>3, <2>1, CallsStay DEF Calm, DInv, Quiet, OneCallEach
<1>. QED BY <1>1, <1>2, <1>3, <1>4, OutsideKeeps

\* The steps of a get.
LEMMA GetsKeepQuiet ==
  ASSUME Calm, NEW c \in Clients, Step(c),
         BeginGet(c) \/ GetBlock(c) \/ GetUnit(c) \/ GetBlockDone(c) \/ CommitGet(c)
  PROVE  Quiet'
<1>1. Domains /\ ClientsInv /\ OneCallEach
  BY DEF Calm, Quiet, DInv, ClientsInv
<1>2. UNCHANGED <<nsVars, processes, disk>> /\ Own(c)
  <2>1. Own(c)
    BY StepsAreOwn
  <2>2. UNCHANGED <<nsVars, processes, disk>>
    BY DEF BeginGet, GetGoesOn, GetBlock, GetUnit, GetBlockDone, CommitGet, getBlock, GetReads, dsVars,
           processes
  <2>. QED BY <2>1, <2>2
<1>3. /\ pc[c] \in {"beginGet", "getBlock", "getWait"}
      /\ pc'[c] \in {"idle", "getBlock", "getWait"}
  BY <1>1 DEF BeginGet, GetGoesOn, GetBlock, GetUnit, GetBlockDone, CommitGet, Die, Return, Goto, Domains
<1>4. pc[c] \notin Busy /\ pc'[c] \notin Busy
  BY <1>3 DEF Busy, RmPhase, PutPhase
<1>5. \A call \in calls : call.caller = c => call.method = "getBlock" /\ pc[c] = "getWait"
  BY <1>3, CallsAwaited
<1>6. \A call : SameCall(call, call)
  BY DEF SameCall
<1>7. CASE UNCHANGED calls /\ pc[c] # "getWait" /\ pc'[c] # "getWait"
  <2>1. \A call \in calls : call.caller # c
    BY <1>5, <1>7
  <2>2. OneCallEach'
    BY <1>1, <1>2, <1>3, <1>6, <1>7, <2>1, CallsStay DEF OneCallEach
  <2>. QED BY <1>2, <1>4, <1>7, <2>1, <2>2, OutsideKeeps
<1>8. CASE /\ getBlock(c, File(c), Entry(c)) /\ pc[c] # "getWait" /\ pc'[c] = "getWait"
           /\ UNCHANGED <<op, list, at>>
  <2>. PICK new : new = NewCall("getBlock", c, File(c), Entry(c), <<>>)
    OBVIOUS
  <2>1. \A call \in calls : call.caller # c
    BY <1>5, <1>8
  <2>2. new.caller = c /\ new.method = "getBlock" /\ Awaited(new)'
    BY <1>8 DEF NewCall, Awaited, WaitsFor, File, Entry
  <2>3. calls' = calls \cup {new}
    BY <1>8 DEF getBlock
  <2>4. OneCallEach'
    BY <1>1, <1>2, <1>6, <2>1, <2>2, <2>3, CallsStay DEF OneCallEach
  <2>. QED BY <1>2, <1>4, <2>1, <2>2, <2>3, <2>4, OutsideKeeps
<1>9. CASE GetUnit(c)
  <2>1. PICK call \in calls : call.caller = c /\ GetReads(call, Len(Received(c)) + 1)
    BY <1>9 DEF GetUnit
  <2>. PICK new : new = [call EXCEPT !.short = @ \/ Len(Received(c)) + 1 > Len(OpenFile(call))]
    OBVIOUS
  <2>2. calls' = (calls \ {call}) \cup {new}
    BY <2>1 DEF GetReads, Replace
  <2>3. call \in BlockCall
    BY DEF Calm, DInv, ServersInv, CallInv
  <2>4. SameCall(call, new) /\ new.caller = c /\ new.method = "getBlock"
    BY <1>5, <2>1, <2>3 DEF SameCall, BlockCall
  <2>5. \A old \in calls : old.caller = c => old = call
    BY <1>1, <2>1 DEF OneCallEach
  <2>6. Awaited(new)'
    <3>1. Awaited(call) /\ pc'[c] = pc[c] /\ UNCHANGED <<op, list, at>>
      BY <1>1, <1>9 DEF OneCallEach, GetUnit
    <3>. QED BY <2>1, <2>4, <3>1 DEF SameCall, Awaited, File, Entry
  <2>7. OneCallEach'
    <3>1. \A x \in calls' : (x \in calls /\ x.caller # c) \/ x = new
      BY <2>2, <2>5
    <3>2. \A x \in calls : x.caller # c => x \in calls'
      BY <2>1, <2>2
    <3>3. new \in calls'
      BY <2>2
    <3>4. \A a, b \in calls' : a.caller = b.caller => a = b
      BY <1>1, <2>4, <3>1 DEF OneCallEach
    <3>. QED BY <1>1, <1>2, <1>6, <2>4, <2>6, <3>1, <3>2, <3>3, <3>4, CallsStay
  <2>8. \A x \in calls' : x.method = "putBlock" => x \in calls /\ x.caller # c
    BY <1>5, <2>2, <2>4
  <2>. QED BY <1>2, <1>4, <2>7, <2>8, OutsideKeeps
<1>10. CASE GetBlockDone(c)
  <2>1. calls' = {call \in calls : call.caller # c} /\ pc'[c] = "getBlock"
    BY <1>1, <1>10 DEF GetBlockDone, Goto, Domains
  <2>2. OneCallEach'
    BY <1>1, <1>2, <1>6, <2>1, CallsStay DEF OneCallEach
  <2>. QED BY <1>2, <1>4, <2>1, <2>2, OutsideKeeps
<1>11. CASE BeginGet(c) \/ CommitGet(c)
  <2>1. pc[c] # "getWait" /\ pc'[c] # "getWait" /\ UNCHANGED calls
    BY <1>1, <1>11 DEF BeginGet, GetGoesOn, CommitGet, Die, Return, Goto, Domains, dsVars
  <2>. QED BY <1>7, <2>1
<1>12. CASE GetBlock(c)
  <2>1. pc[c] = "getBlock" /\ UNCHANGED op
    BY <1>12 DEF GetBlock
  <2>2. \/ UNCHANGED calls /\ pc'[c] # "getWait"
        \/ getBlock(c, File(c), Entry(c)) /\ pc'[c] = "getWait" /\ UNCHANGED <<list, at>>
    BY <1>1, <1>12, <2>1 DEF GetBlock, Return, Goto, Domains, dsVars
  <2>. QED BY <1>7, <1>8, <2>1, <2>2
<1>. QED BY <1>9, <1>10, <1>11, <1>12

\* While a client writes it alone has something in tempList or on its way to or
\* from the disks.
LEMMA WriterHas ==
  ASSUME Calm, OneWriter, NEW c \in Clients, pc[c] \in Writing
  PROVE  /\ pc[c] \notin RmPhase \cup PutPhase => NamesOf(tempList) = {}
         /\ NamesOf(tempList) \subseteq {File(c)}
         /\ \A s \in Servers : \A b \in Files \X Nat :
              disk[s][b] # Absent => ListedHas(s, b) \/ HeldHas(c, s, b)
         /\ \A call \in calls : call.method \in {"putBlock", "rmBlock"} => call.caller = c
<1>1. ASSUME NEW d \in Clients, d # c PROVE pc[d] \notin Busy
  <2>1. pc[d] \notin Writing
    BY <1>1 DEF Calm, NamesInv, Controls, OneWriter
  <2>. QED BY <2>1 DEF Writing, Busy, RmPhase, PutPhase
<1>2. \A f \in NamesOf(tempList) : pc[c] \in RmPhase \cup PutPhase /\ File(c) = f
  BY <1>1 DEF Calm, Quiet, OnTheWay, Busy
<1>3. ASSUME NEW s \in Servers, NEW b \in Files \X Nat, disk[s][b] # Absent
      PROVE  ListedHas(s, b) \/ HeldHas(c, s, b)
  <2>1. Accounted(s, b)
    BY <1>3 DEF Calm, Quiet, DisksAccounted
  <2>. QED BY <1>1, <2>1, RestIsQuiet DEF Accounted, HeldHas
<1>4. \A call \in calls : call.method \in {"putBlock", "rmBlock"} => call.caller = c
  BY <1>1, CallsAwaited DEF Busy, RmPhase, PutPhase
<1>. QED BY <1>2, <1>3, <1>4

\* So what is to show of its step is about itself.
LEMMA WriterKeeps ==
  ASSUME Calm, OneWriter, NEW c \in Clients, Own(c), pc[c] \in Writing,
         AllRun', ListedStored', OneCallEach', ClientQuiet(c)',
         \A f \in NamesOf(tempList') : pc'[c] \in RmPhase \cup PutPhase /\ File(c)' = f,
         \A call \in calls' : call.method = "putBlock" => SendInv(call)',
         \A s \in Servers : \A b \in Files \X Nat :
           disk'[s][b] # Absent => ListedHas(s, b)' \/ HeldHas(c, s, b)'
  PROVE  Quiet'
<1>1. OnTheWay'
  BY DEF OnTheWay
<1>2. \A d \in Clients : ClientQuiet(d)'
  BY OthersRest
<1>3. \A call \in calls' : SendInv(call)'
  BY DEF SendInv
<1>4. DisksAccounted'
  BY DEF DisksAccounted, Accounted
<1>. QED BY <1>1, <1>2, <1>3, <1>4 DEF Quiet

\* A step from one call of the name server to the next.
LEMMA CallsAsTheyAre ==
  ASSUME Calm, NEW c \in Clients, Own(c), UNCHANGED calls,
         pc[c] \notin {"getWait", "putWait", "rmWait"},
         pc'[c] \notin {"getWait", "putWait", "rmWait"}
  PROVE  OneCallEach' /\ \A call \in calls' : call.caller # c
<1>1. \A call \in calls : call.caller # c
  BY CallsAwaited
<1>2. \A call \in calls : SameCall(call, call)
  BY DEF SameCall
<1>. QED BY <1>1, <1>2, CallsStay DEF Calm, Quiet, DInv, OneCallEach

\* The lists of the name server, a file that leaves fileList.
LEMMA Unlisted ==
  ASSUME ListsInv, NEW f, Listed(f)
  PROVE  LET i == Find(fileList, f)
             e == fileList[i]
         IN  /\ i \in 1 .. Len(fileList) /\ e \in ToSet(fileList) /\ e.fileName = f
             /\ e \in GoodEntry /\ e.storeList \in Seq(BlockStore) /\ "fileName" \in DOMAIN e
             /\ ToSet(RemoveAt(fileList, i)) \subseteq ToSet(fileList)
             /\ ToSet(fileList) \subseteq ToSet(RemoveAt(fileList, i)) \cup {e}
<1>. DEFINE i == Find(fileList, f)
            e == fileList[i]
<1>1. i \in 1 .. Len(fileList) /\ e.fileName = f
  BY FindInList DEF ListsInv, Listed
<1>. HIDE DEF i
<1>2. /\ e \in ToSet(fileList)
      /\ ToSet(RemoveAt(fileList, i)) \subseteq ToSet(fileList)
      /\ ToSet(fileList) \subseteq ToSet(RemoveAt(fileList, i)) \cup {e}
  BY <1>1, ListMembers DEF ListsInv
<1>3. e \in GoodEntry
  BY <1>1, ElementOfSeq DEF ListsInv
<1>4. e.storeList \in Seq(BlockStore) /\ "fileName" \in DOMAIN e
  BY <1>3 DEF GoodEntry, FileMetaData
<1>. QED BY <1>1, <1>2, <1>3, <1>4 DEF i

\* An rm takes its file off fileList, and the blocks of the entry are then its own.
LEMMA BeginRmKeepsQuiet ==
  ASSUME Calm, NamesInv', OneWriter, NEW c \in Clients, Step(c), BeginRm(c)
  PROVE  Quiet'
<1>. DEFINE f == File(c)
            i == Find(fileList, f)
            e == fileList[i]
<1>1. Domains /\ ListsInv /\ up
  BY DEF Calm, DInv, ClientsInv, IInv, Quiet, AllRun
<1>2. Own(c)
  BY StepsAreOwn
<1>3. /\ pc[c] = "beginRm" /\ pc[c] \in Writing /\ pc'[c] = "rmBlock" /\ File(c)' = f
      /\ list'[c] = beginGetReply(f) /\ at'[c] = 1
      /\ UNCHANGED <<calls, disk, starting, running>>
  <2>1. pc[c] = "beginRm" /\ Walk(c, beginGetReply(f)) /\ Goto(c, "rmBlock")
        /\ UNCHANGED <<dsVars, op>>
    BY Zenon DEF BeginRm, RmGoesOn
  <2>2. list'[c] = beginGetReply(f) /\ at'[c] = 1 /\ pc'[c] = "rmBlock"
    BY <1>1, <2>1 DEF Walk, Goto, Domains
  <2>. QED BY <2>1, <2>2 DEF Writing, dsVars, processes, File
<1>4. beginRmTransaction(f) /\ UNCHANGED <<up, serverList>>
  BY <1>1, Zenon DEF BeginRm, RmGoesOn, NameService, beginRmTransaction
<1>5. NamesOf(tempList) = {}
  BY <1>3, WriterHas DEF RmPhase, PutPhase
<1>6. /\ ToSet(fileList') \subseteq ToSet(fileList)
      /\ \A x \in ToSet(fileList) : x \in ToSet(fileList') \/ (Listed(f) /\ x = e)
      /\ Listed(f) => e \in ToSet(fileList) /\ e.fileName = f /\ e.storeList = list'[c]
      /\ NamesOf(tempList') \subseteq {f} /\ f \notin NamesOf(fileList')
  <2>1. CASE Listed(f)
    <3>1. /\ e \in ToSet(fileList) /\ e.fileName = f /\ "fileName" \in DOMAIN e
          /\ ToSet(RemoveAt(fileList, i)) \subseteq ToSet(fileList)
          /\ ToSet(fileList) \subseteq ToSet(RemoveAt(fileList, i)) \cup {e}
      BY <1>1, <2>1, Unlisted
    <3>2. fileList' = RemoveAt(fileList, i) /\ tempList' = Append(tempList, e)
      BY <1>4, <2>1 DEF beginRmTransaction
    <3>3. NamesOf(tempList') = {f}
      BY <1>5, <3>1, <3>2, NameAdded DEF Calm, NamesInv, KnownOnce
    <3>4. f \notin NamesOf(fileList')
      BY <3>3 DEF NamesInv, KnownOnce
    <3>. QED BY <1>3, <2>1, <3>1, <3>2, <3>3, <3>4 DEF beginGetReply
  <2>2. CASE ~Listed(f)
    <3>1. UNCHANGED <<fileList, tempList>>
      BY <1>4, <2>2 DEF beginRmTransaction
    <3>2. f \notin NamesOf(fileList)
      BY <2>2, NameFound DEF Calm, NamesInv, KnownOnce, NameList, Listed
    <3>. QED BY <1>5, <2>2, <3>1, <3>2
  <2>. QED BY <2>1, <2>2
<1>. HIDE DEF i, e
<1>7. AllRun'
  BY <1>3, <1>4 DEF Calm, Quiet, AllRun
<1>8. \A g, s : OnDisk(g, s)' = OnDisk(g, s)
  BY <1>3, Zenon DEF OnDisk
<1>9. ListedStored'
  BY <1>6, <1>8 DEF Calm, Quiet, ListedStored
<1>10. OneCallEach' /\ \A call \in calls' : call.method # "putBlock"
  <2>1. OneCallEach'
    BY <1>2, <1>3, CallsAsTheyAre
  <2>. QED BY <1>3, <2>1, WriterHas, CallsAwaited
<1>11. list'[c] \in Seq(BlockStore) /\ DistinctReplicas(list'[c])
  BY <1>1, <1>3, RepliesAreLists DEF WellFormed
<1>12. Len(list'[c]) \in Nat /\ DOMAIN list'[c] = 1 .. Len(list'[c])
       /\ (~Listed(f) => Len(list'[c]) = 0)
  BY <1>3, <1>11, LenProperties, EmptySeq DEF beginGetReply
<1>13. ClientQuiet(c)'
  <2>1. ASSUME NEW k \in 1 .. Len(list'[c]) PROVE OnDisk(f, list'[c][k])
    <3>1. Listed(f)
      BY <1>12
    <3>2. list'[c][k] \in ToSet(e.storeList)
      BY <1>6, <1>12, <3>1 DEF ToSet
    <3>. QED BY <1>6, <3>1, <3>2 DEF Calm, Quiet, ListedStored
  <2>. QED BY <1>3, <1>6, <1>8, <1>11, <2>1
       DEF ClientQuiet, RemovalInv, PutInv, RmPhase, PutPhase
<1>14. ASSUME NEW s \in Servers, NEW b \in Files \X Nat, disk'[s][b] # Absent
       PROVE  ListedHas(s, b)' \/ HeldHas(c, s, b)'
  <2>1. ListedHas(s, b)
    BY <1>3, <1>14, WriterHas DEF HeldHas, Held, RmPhase
  <2>2. PICK x \in ToSet(fileList) : \E store \in ToSet(x.storeList) : Names(s, b, x.fileName, store)
    BY <2>1 DEF ListedHas
  <2>3. CASE x \in ToSet(fileList')
    BY <2>2, <2>3 DEF ListedHas, Names
  <2>4. CASE Listed(f) /\ x = e
    <3>1. PICK store \in ToSet(list'[c]) : Names(s, b, f, store)
      BY <1>6, <2>2, <2>4
    <3>2. PICK k \in 1 .. Len(list'[c]) : store = list'[c][k]
      BY <1>12, <3>1 DEF ToSet
    <3>. QED BY <1>3, <3>1, <3>2 DEF HeldHas, Held, RmPhase, Names
  <2>. QED BY <1>6, <2>3, <2>4
<1>. QED BY <1>2, <1>3, <1>6, <1>7, <1>9, <1>10, <1>13, <1>14, WriterKeeps DEF RmPhase

\* An rmBlock is asked for a replica that is there.
LEMMA RmBlockKeepsQuiet ==
  ASSUME Calm, OneWriter, NEW c \in Clients, Step(c), RmBlock(c)
  PROVE  Quiet'
<1>. DEFINE f == File(c)
<1>1. Domains /\ ClientInv(c) /\ OneCallEach /\ ClientsInv
  BY DEF Calm, DInv, ClientsInv, Quiet
<1>2. Own(c)
  BY StepsAreOwn
<1>3. /\ pc[c] = "rmBlock" /\ pc[c] \in Writing /\ ~AtEnd(c)
      /\ UNCHANGED <<nsVars, op, list, at>>
  BY DEF RmBlock, Writing
<1>4. at[c] \in at[c] .. Len(list[c]) /\ at[c] \in Nat /\ Len(list[c]) \in Nat
  BY <1>1, <1>3, EntriesAreStores DEF ClientInv, AtEnd
<1>5. OnDisk(f, Entry(c)) /\ AllRun
  BY <1>3, <1>4 DEF Calm, Quiet, ClientQuiet, RemovalInv, RmPhase, Entry
<1>6. BlockMatches(f, Entry(c))
  <2>1. Absent \notin BlockHashes /\ Entry(c).blockHash \in BlockHashes
    BY <1>5, PiecesHaveDigests, DFSAssumption DEF OnDisk, DFSAssumption
  <2>. QED BY <1>5, <2>1 DEF BlockMatches, SizeMatches, Block, OnDisk, AllRun
<1>7. rmBlock(c, f, Entry(c)) /\ pc'[c] = "rmWait"
  <2>1. rmBlock(c, f, Entry(c)) /\ Goto(c, "rmWait")
    BY <1>6, Zenon DEF RmBlock
  <2>. QED BY <1>1, <2>1 DEF Goto, Domains
<1>. PICK new : new = NewCall("rmBlock", c, f, Entry(c), <<>>)
  OBVIOUS
<1>8. calls' = calls \cup {new} /\ UNCHANGED <<starting, running, disk>>
  BY <1>7 DEF rmBlock, processes
<1>9. new.caller = c /\ new.method = "rmBlock" /\ Awaited(new)'
  BY <1>3, <1>7 DEF NewCall, Awaited, WaitsFor, File, Entry
<1>10. \A call \in calls : call.caller # c
  BY <1>3, CallsAwaited
<1>11. OneCallEach'
  <2>1. \A call \in calls : SameCall(call, call)
    BY DEF SameCall
  <2>. QED BY <1>1, <1>2, <1>8, <1>9, <1>10, <2>1, CallsStay DEF OneCallEach
<1>12. \A call \in calls' : call.method # "putBlock"
  BY <1>3, <1>8, <1>9, <1>10, WriterHas
<1>13. UNCHANGED <<up, serverList, fileList, tempList>>
  BY <1>3 DEF nsVars
<1>14. \A g, s : OnDisk(g, s)' = OnDisk(g, s)
  BY <1>8, Zenon DEF OnDisk
<1>15. AllRun' /\ ListedStored'
  BY <1>8, <1>13, <1>14 DEF Calm, Quiet, AllRun, ListedStored
<1>16. ClientQuiet(c)'
  <2>1. ClientQuiet(c)
    BY DEF Calm, Quiet
  <2>. QED BY <1>3, <1>7, <1>13, <1>14, <2>1
       DEF ClientQuiet, RemovalInv, PutInv, RmPhase, PutPhase, File
<1>17. ASSUME NEW s \in Servers, NEW b \in Files \X Nat, disk'[s][b] # Absent
       PROVE  ListedHas(s, b)' \/ HeldHas(c, s, b)'
  <2>1. ListedHas(s, b) \/ HeldHas(c, s, b)
    BY <1>3, <1>8, <1>17, WriterHas
  <2>. QED BY <1>3, <1>7, <1>13, <2>1 DEF ListedHas, HeldHas, Held, RmPhase, Names, File
<1>18. \A g \in NamesOf(tempList') : pc'[c] \in RmPhase \cup PutPhase /\ File(c)' = g
  BY <1>3, <1>7, <1>13, WriterHas DEF RmPhase, File
<1>. QED BY <1>2, <1>3, <1>11, <1>12, <1>15, <1>16, <1>17, <1>18, WriterKeeps

\* It is removed, and the iterator moves on.
LEMMA RmBlockDoneKeepsQuiet ==
  ASSUME Calm, OneWriter, NEW c \in Clients, Step(c), RmBlockDone(c)
  PROVE  Quiet'
<1>. PICK f : f = File(c)
  OBVIOUS
<1>1. Domains /\ ClientInv(c) /\ OneCallEach /\ ClientsInv /\ ServersInv /\ ListsInv
  BY DEF Calm, DInv, ClientsInv, Quiet, IInv
<1>2. Own(c)
  BY StepsAreOwn
<1>3. pc[c] = "rmWait" /\ pc[c] \in Writing /\ UNCHANGED <<op, list>> /\ f \in Files
  BY <1>1 DEF RmBlockDone, Writing, ClientInv
<1>4. /\ at[c] \in 1 .. Len(list[c]) /\ Len(list[c]) \in Nat /\ DOMAIN list[c] = 1 .. Len(list[c])
      /\ \A k \in 1 .. Len(list[c]) : list[c][k] \in BlockStore /\ list[c][k].blockIdx \in Nat
  BY <1>1, <1>3, EntriesAreStores DEF ClientInv, AtEnd
<1>5. /\ AllRun /\ DistinctReplicas(list[c]) /\ f \notin NamesOf(fileList)
      /\ \A k \in at[c] .. Len(list[c]) : OnDisk(f, list[c][k])
  BY <1>3 DEF Calm, Quiet, ClientQuiet, RemovalInv, RmPhase
<1>. PICK call \in calls : /\ call.caller = c /\ RmRemoves(call)
                           /\ \/ RmFinds(call) /\ Goto(c, "rmBlock") /\ Advance(c)
                              \/ ~RmFinds(call) /\ Goto(c, "abortRm") /\ UNCHANGED at
  BY DEF RmBlockDone
<1>. PICK s0, b0 : s0 = Entry(c).server.address /\ b0 = <<f, Entry(c).blockIdx>>
  OBVIOUS
<1>6. call.server = s0 /\ BlockName(call) = b0 /\ call \in BlockCall
  BY <1>1 DEF OneCallEach, Awaited, BlockName, ServersInv, CallInv
<1>7. s0 \in Servers /\ b0 \in Files \X Nat /\ OnDisk(f, Entry(c))
  <2>1. at[c] \in at[c] .. Len(list[c])
    BY <1>4
  <2>2. OnDisk(f, Entry(c))
    BY <1>5, <2>1 DEF Entry
  <2>3. Entry(c).blockIdx \in Nat
    BY <1>4 DEF Entry
  <2>. QED BY <1>3, <2>2, <2>3 DEF OnDisk
<1>8. RmFinds(call)
  <2>1. Absent \notin BlockHashes /\ Entry(c).blockHash \in BlockHashes
    BY <1>7, PiecesHaveDigests, DFSAssumption DEF OnDisk, DFSAssumption
  <2>. QED BY <1>6, <1>7, <2>1 DEF RmFinds, OnDisk
<1>9. pc'[c] = "rmBlock" /\ at'[c] = at[c] + 1
  BY <1>1, <1>8 DEF Goto, Advance, Domains
<1>10. /\ \A t \in Servers : \A d \in Files \X Nat :
            disk'[t][d] = IF t = s0 /\ d = b0 THEN Absent ELSE disk[t][d]
       /\ calls' = {Unlink(call, other) : other \in calls \ {call}}
       /\ UNCHANGED <<starting, running, up, serverList, fileList, tempList>>
  <2>1. disk' = [disk EXCEPT ![s0][b0] = Absent] /\ UNCHANGED <<processes, nsVars>>
        /\ calls' = {Unlink(call, other) : other \in calls \ {call}}
    BY <1>6, <1>8 DEF RmRemoves
  <2>2. UNCHANGED <<starting, running, up, serverList, fileList, tempList>>
    BY <2>1 DEF processes, nsVars
  <2>3. \A t \in Servers : \A d \in Files \X Nat :
          disk'[t][d] = IF t = s0 /\ d = b0 THEN Absent ELSE disk[t][d]
    <3>1. ServersInv /\ s0 \in Servers /\ b0 \in Files \X Nat
      BY <1>1, <1>7
    <3>. QED BY <2>1, <3>1 DEF ServersInv
  <2>. QED BY <2>1, <2>2, <2>3
<1>11. \A other \in calls : SameCall(other, Unlink(call, other))
  BY <1>1 DEF SameCall, Unlink, ServersInv, CallInv, BlockCall
<1>12. \A other \in calls \ {call} : other.caller # c
  BY <1>1 DEF OneCallEach
<1>13. \A x \in calls' : \E other \in calls \ {call} : x = Unlink(call, other)
  BY <1>10
<1>14. OneCallEach'
  <2>1. \A x \in calls' : x.caller # c
    BY <1>11, <1>12, <1>13 DEF SameCall
  <2>2. \A old \in calls : old.caller # c => \E x \in calls' : SameCall(old, x)
    BY <1>10, <1>11
  <2>3. ASSUME NEW x \in calls', NEW y \in calls', x.caller = y.caller PROVE x = y
    <3>1. PICK p, q \in calls : x = Unlink(call, p) /\ y = Unlink(call, q)
      BY <1>13
    <3>2. p = q
      BY <1>1, <1>11, <2>3, <3>1 DEF OneCallEach, SameCall
    <3>. QED BY <3>1, <3>2
  <2>. QED BY <1>1, <1>2, <1>9, <1>11, <1>13, <2>1, <2>2, <2>3, CallsStay
<1>15. \A x \in calls' : x.method # "putBlock"
  BY <1>3, <1>11, <1>12, <1>13, WriterHas DEF SameCall
<1>16. AllRun'
  BY <1>5, <1>10 DEF AllRun
<1>17. ASSUME NEW g \in Files, NEW st \in BlockStore, OnDisk(g, st),
              ~(st.server.address = s0 /\ <<g, st.blockIdx>> = b0)
       PROVE  OnDisk(g, st)'
  BY <1>10, <1>17 DEF OnDisk, BlockStore
<1>18. ListedStored'
  <2>. SUFFICES ASSUME NEW e \in ToSet(fileList), NEW st \in ToSet(e.storeList)
                PROVE  OnDisk(e.fileName, st)'
    BY <1>10 DEF ListedStored
  <2>1. OnDisk(e.fileName, st)
    BY DEF Calm, Quiet, ListedStored
  <2>2. e.fileName # f
    BY <1>5 DEF NamesOf
  <2>3. e \in GoodEntry
    <3>1. PICK k \in DOMAIN fileList : e = fileList[k]
      BY DEF ToSet
    <3>. QED BY <1>1, <3>1, ElementOfSeq, LenProperties DEF ListsInv
  <2>4. e.fileName \in Files /\ e.storeList \in Seq(BlockStore)
    BY <2>3 DEF GoodEntry, FileMetaData
  <2>5. st \in BlockStore
    <3>1. PICK k \in DOMAIN e.storeList : st = e.storeList[k]
      BY DEF ToSet
    <3>. QED BY <2>4, <3>1, ElementOfSeq, LenProperties
  <2>. QED BY <1>17, <2>1, <2>2, <2>4, <2>5
<1>19. ClientQuiet(c)'
  <2>1. ASSUME NEW k \in at'[c] .. Len(list'[c]) PROVE OnDisk(f, list[c][k])'
    <3>1. k \in at[c] .. Len(list[c]) /\ k \in 1 .. Len(list[c]) /\ k # at[c]
      BY <1>3, <1>4, <1>9
    <3>2. ~(list[c][k].server.address = s0 /\ list[c][k].blockIdx = Entry(c).blockIdx)
      BY <1>4, <1>5, <3>1 DEF DistinctReplicas, Entry
    <3>3. list[c][k] \in BlockStore /\ OnDisk(f, list[c][k]) /\ UNCHANGED list
      BY <1>3, <1>4, <1>5, <3>1
    <3>. QED BY <1>3, <1>17, <3>2, <3>3
  <2>2. File(c)' = f
    BY <1>3 DEF File
  <2>3. RemovalInv(c)' /\ PutInv(c)'
    BY <1>3, <1>5, <1>9, <2>1, <2>2 DEF RemovalInv, PutInv, RmPhase, PutPhase
  <2>. QED BY <1>5, <1>9, <1>10, <2>2, <2>3 DEF ClientQuiet
<1>20. ASSUME NEW s \in Servers, NEW b \in Files \X Nat, disk'[s][b] # Absent
       PROVE  ListedHas(s, b)' \/ HeldHas(c, s, b)'
  <2>1. disk[s][b] # Absent /\ ~(s = s0 /\ b = b0)
    BY <1>10, <1>20
  <2>2. ListedHas(s, b) \/ HeldHas(c, s, b)
    BY <1>3, <2>1, WriterHas
  <2>3. CASE HeldHas(c, s, b)
    <3>1. PICK k \in at[c] .. Len(list[c]) : Names(s, b, f, list[c][k])
      BY <1>3, <2>3 DEF HeldHas, Held, RmPhase
    <3>2. k # at[c]
      BY <2>1, <3>1 DEF Names, Entry
    <3>3. k \in at'[c] .. Len(list'[c])
      BY <1>3, <1>4, <1>9, <3>1, <3>2
    <3>. QED BY <1>3, <1>9, <3>1, <3>3 DEF HeldHas, Held, RmPhase, Names, File
  <2>4. CASE ListedHas(s, b)
    BY <1>10, <2>4 DEF ListedHas, Names
  <2>. QED BY <2>2, <2>3, <2>4
<1>21. \A g \in NamesOf(tempList') : pc'[c] \in RmPhase \cup PutPhase /\ File(c)' = g
  BY <1>3, <1>9, <1>10, WriterHas DEF RmPhase, File
<1>. QED BY <1>2, <1>3, <1>14, <1>15, <1>16, <1>18, <1>19, <1>20, <1>21, WriterKeeps

\* All is removed, and the name server forgets the file.
LEMMA CommitRmKeepsQuiet ==
  ASSUME Calm, OneWriter, NEW c \in Clients, Step(c), CommitRm(c)
  PROVE  Quiet'
<1>. PICK f : f = File(c)
  OBVIOUS
<1>1. Domains /\ up /\ KnownOnce
  BY DEF Calm, DInv, ClientsInv, Quiet, AllRun, NamesInv
<1>2. Own(c)
  BY StepsAreOwn
<1>3. /\ pc[c] = "rmBlock" /\ pc[c] \in Writing /\ AtEnd(c) /\ File(c)' = f
      /\ UNCHANGED <<calls, disk, starting, running>> /\ pc'[c] \in {"idle", "beginPut"}
  <2>1. /\ pc[c] = "rmBlock" /\ AtEnd(c) /\ EndRm(c, "OK", Absent) /\ UNCHANGED <<dsVars, op>>
    BY Zenon DEF CommitRm
  <2>2. Goto(c, "idle") \/ Goto(c, "beginPut")
    BY <2>1, Zenon DEF EndRm, Return
  <2>. QED BY <1>1, <2>1, <2>2 DEF Goto, Domains, Writing, dsVars, processes, File
<1>4. commitRmTransaction(f) /\ f \notin NamesOf(tempList')
  <2>1. commitRmTransaction(f)
    BY <1>1, Zenon DEF CommitRm, NameService
  <2>. QED BY <1>1, <2>1, EndsKeepNames
<1>5. UNCHANGED <<up, serverList, fileList>> /\ (Drop(f) \/ Refuse(f))
  BY <1>4, Zenon DEF commitRmTransaction, Drop, Refuse
<1>6. NamesOf(tempList') = {}
  <2>1. KnownOnce /\ NamesOf(tempList) \subseteq {f}
    BY <1>1, <1>3, WriterHas
  <2>2. NamesOf(tempList') \subseteq NamesOf(tempList)
    <3>1. CASE Drop(f)
      <4>. PICK i : i = Find(tempList, f)
        OBVIOUS
      <4>1. i \in 1 .. Len(tempList) /\ tempList' = RemoveAt(tempList, i)
        BY <2>1, <3>1, NameFound DEF Drop, Pending, KnownOnce, NameList
      <4>. QED BY <2>1, <4>1, NameRemoved DEF KnownOnce
    <3>2. CASE Refuse(f)
      BY <3>2 DEF Refuse
    <3>. QED BY <1>5, <3>1, <3>2
  <2>. QED BY <1>4, <2>1, <2>2
<1>7. \A g, s : OnDisk(g, s)' = OnDisk(g, s)
  BY <1>3, Zenon DEF OnDisk
<1>8. AllRun' /\ ListedStored'
  BY <1>3, <1>5, <1>7 DEF Calm, Quiet, AllRun, ListedStored
<1>9. OneCallEach' /\ \A call \in calls' : call.method # "putBlock"
  <2>1. OneCallEach'
    BY <1>2, <1>3, CallsAsTheyAre
  <2>. QED BY <1>3, <2>1, WriterHas, CallsAwaited
<1>10. ClientQuiet(c)'
  <2>1. f \notin NamesOf(fileList)
    BY <1>3 DEF Calm, Quiet, ClientQuiet, RmPhase
  <2>. QED BY <1>3, <1>5, <2>1 DEF ClientQuiet, RemovalInv, PutInv, RmPhase, PutPhase
<1>11. ASSUME NEW s \in Servers, NEW b \in Files \X Nat, disk'[s][b] # Absent
       PROVE  ListedHas(s, b)' \/ HeldHas(c, s, b)'
  <2>1. ListedHas(s, b) \/ HeldHas(c, s, b)
    BY <1>3, <1>11, WriterHas
  <2>2. at[c] \in Nat /\ Len(list[c]) \in Nat /\ at[c] > Len(list[c])
    BY <1>3, EntriesAreStores DEF AtEnd, Calm, DInv, ClientsInv, ClientInv
  <2>3. ~HeldHas(c, s, b)
    BY <1>3, <2>2 DEF HeldHas, Held, RmPhase
  <2>. QED BY <1>5, <2>1, <2>3 DEF ListedHas, Names
<1>. QED BY <1>2, <1>3, <1>6, <1>8, <1>9, <1>10, <1>11, WriterKeeps

\* The replicas of a new file are asked of servers that are registered.
LEMMA StoresOnRing ==
  ASSUME IInv, serverList # <<>>, NEW f, NEW size \in Nat
  PROVE  /\ StoreList(serverList, f, size) \in Seq(BlockStore)
         /\ WellFormed(StoreList(serverList, f, size))
         /\ \A e \in ToSet(StoreList(serverList, f, size)) : e.server.address \in Servers
<1>1. serverList \in Seq(ServerInfo) /\ serverList \in Seq(RingServer) /\ OneEach(serverList)
  BY InvTypes, RingHasOneEach DEF IInv, RingInv
<1>2. \A s \in ToSet(serverList) : s.address \in Servers
  <2>1. \A s \in ToSet(serverList) : s \in RingServer
    BY <1>1, ElementOfSeq, LenProperties DEF ToSet
  <2>. QED BY <2>1 DEF RingServer
<1>3. ToSet(StoreList(serverList, f, size)) = AskedFor(serverList, f, size, size)
  BY <1>1, StoreListMembers
<1>4. \A e \in AskedFor(serverList, f, size, size) : e.server \in ToSet(serverList)
  BY <1>1, LookupsAreServers DEF AskedFor, Lookups
<1>. QED BY <1>1, <1>2, <1>3, <1>4, StoreListWellFormed

\* Its entry is the only one on the way.
LEMMA BeginPutKeepsQuiet ==
  ASSUME Calm, NamesInv', OneWriter, NEW c \in Clients, Step(c), BeginPut(c)
  PROVE  Quiet'
<1>. PICK f : f = File(c)
  OBVIOUS
<1>. PICK size : size = Len(local[c][f])
  OBVIOUS
<1>. PICK new : new = NewEntry(serverList, f, size)
  OBVIOUS
<1>1. Domains /\ IInv /\ AllRun /\ KnownOnce /\ ClientInv(c)
  BY DEF Calm, DInv, ClientsInv, Quiet, NamesInv
<1>2. Own(c)
  BY StepsAreOwn
<1>3. /\ pc[c] = "beginPut" /\ pc[c] \in Writing /\ pc'[c] = "putBlock" /\ File(c)' = f
      /\ UNCHANGED <<calls, disk, starting, running>> /\ at'[c] = 1
      /\ list'[c] = IF Len(tempList') > Len(tempList) THEN Last(tempList').storeList ELSE <<>>
  <2>1. /\ pc[c] = "beginPut" /\ Goto(c, "putBlock") /\ UNCHANGED <<dsVars, op>>
        /\ Walk(c, IF Len(tempList') > Len(tempList) THEN Last(tempList').storeList ELSE <<>>)
    BY Zenon DEF BeginPut, PutGoesOn
  <2>2. pc'[c] = "putBlock" /\ at'[c] = 1
        /\ list'[c] = IF Len(tempList') > Len(tempList) THEN Last(tempList').storeList ELSE <<>>
    BY <1>1, <2>1 DEF Goto, Walk, Domains
  <2>. QED BY <2>1, <2>2 DEF Writing, dsVars, processes, File
<1>4. f \notin NamesOf(fileList) /\ NamesOf(tempList) = {}
  <2>1. f \notin NamesOf(fileList)
    BY <1>3 DEF Calm, Quiet, ClientQuiet
  <2>2. NamesOf(tempList) = {}
    BY <1>3, WriterHas DEF RmPhase, PutPhase
  <2>. QED BY <2>1, <2>2
<1>5. size \in Nat
  BY <1>1, <1>3, LenProperties DEF ClientInv
<1>6. ~Listed(f)
  BY <1>1, <1>4, NameFound DEF Listed, KnownOnce, NameList
<1>7. beginPutTransaction(f, size)
  <2>1. NameService(beginPutTransaction(File(c), Len(local[c][File(c)]))) /\ up
    BY <1>1, Zenon DEF BeginPut, PutGoesOn, AllRun
  <2>. QED BY <2>1, Zenon DEF NameService
<1>8. tempList' = Append(tempList, new) /\ UNCHANGED <<up, serverList, fileList>>
  <2>1. ~ReadsDeadServer(size)
    BY <1>1 DEF AllRun, ReadsDeadServer
  <2>. QED BY <1>6, <1>7, <2>1, Zenon DEF beginPutTransaction
<1>9. tempList = <<>>
  <2>1. tempList \in Seq(GoodEntry) /\ Len(tempList) \in Nat
    BY <1>1, LenProperties DEF IInv, ListsInv
  <2>2. \A k \in 1 .. Len(tempList) : FALSE
    BY <1>4, <2>1, NameListElements
  <2>3. Len(tempList) = 0
    BY <2>1, <2>2
  <2>. QED BY <2>1, <2>3, EmptySeq
<1>10. Len(tempList') = 1 /\ tempList'[1] = new /\ Len(tempList) = 0
  BY <1>8, <1>9
<1>11. new.fileName = f /\ new.storeList = StoreList(serverList, f, size)
  BY DEF NewEntry
<1>12. list'[c] = new.storeList /\ Sending' = new.storeList
  <2>1. Last(tempList') = new
    BY <1>10 DEF Last
  <2>. QED BY <1>3, <1>10, <2>1 DEF Sending
<1>13. /\ list'[c] \in Seq(BlockStore) /\ WellFormed(list'[c])
       /\ \A k \in 1 .. Len(list'[c]) : list'[c][k].server.address \in Servers
  <2>1. /\ list'[c] \in Seq(BlockStore) /\ WellFormed(list'[c])
        /\ \A e \in ToSet(list'[c]) : e.server.address \in Servers
    BY <1>1, <1>5, <1>11, <1>12, StoresOnRing DEF AllRun
  <2>. QED BY <2>1, LenProperties DEF ToSet
<1>14. \A g, s : OnDisk(g, s)' = OnDisk(g, s)
  BY <1>3, Zenon DEF OnDisk
<1>15. AllRun' /\ ListedStored'
  BY <1>3, <1>8, <1>14 DEF Calm, Quiet, AllRun, ListedStored
<1>16. OneCallEach' /\ \A call \in calls' : call.method # "putBlock"
  <2>1. OneCallEach'
    BY <1>2, <1>3, CallsAsTheyAre
  <2>. QED BY <1>3, <2>1, WriterHas, CallsAwaited
<1>17. ClientQuiet(c)'
  <2>1. PutInv(c)'
    BY <1>3, <1>10, <1>11, <1>12, <1>13 DEF PutInv, PutPhase
  <2>. QED BY <1>3, <1>4, <1>8, <2>1 DEF ClientQuiet, RemovalInv, RmPhase
<1>18. ASSUME NEW s \in Servers, NEW b \in Files \X Nat, disk'[s][b] # Absent
       PROVE  ListedHas(s, b)' \/ HeldHas(c, s, b)'
  <2>1. ListedHas(s, b)
    BY <1>3, <1>18, WriterHas DEF HeldHas, Held, RmPhase
  <2>. QED BY <1>8, <2>1 DEF ListedHas, Names
<1>19. NamesOf(tempList') = {f}
  <2>1. "fileName" \in DOMAIN new
    BY DEF NewEntry
  <2>. QED BY <1>1, <1>4, <1>8, <1>11, <2>1, NameAdded DEF KnownOnce
<1>. QED BY <1>2, <1>3, <1>15, <1>16, <1>17, <1>18, <1>19, WriterKeeps DEF PutPhase

\* No other block file changes.
OneBlockChanges(s0, f, i) ==
  \A t \in Servers : \A d \in Files \X Nat :
    ~(t = s0 /\ d = <<f, i>>) => disk'[t][d] = disk[t][d]

\* A change of one block file that no listed file has, seen from the others.
LEMMA OthersOnDisk ==
  ASSUME ListsInv, NEW s0, NEW f, NEW i, OneBlockChanges(s0, f, i),
         ListedStored, f \notin NamesOf(fileList), UNCHANGED fileList
  PROVE  /\ \A g \in Files : \A st \in BlockStore :
              OnDisk(g, st) /\ ~(st.server.address = s0 /\ st.blockIdx = i /\ g = f)
                => OnDisk(g, st)'
         /\ ListedStored'
<1>2. ASSUME NEW g \in Files, NEW st \in BlockStore, OnDisk(g, st),
             ~(st.server.address = s0 /\ st.blockIdx = i /\ g = f)
      PROVE  OnDisk(g, st)'
  BY <1>2 DEF OnDisk, BlockStore, OneBlockChanges
<1>3. ListedStored'
  <2>. SUFFICES ASSUME NEW e \in ToSet(fileList), NEW st \in ToSet(e.storeList)
                PROVE  OnDisk(e.fileName, st)'
    BY DEF ListedStored
  <2>1. OnDisk(e.fileName, st)
    BY DEF ListedStored
  <2>2. e.fileName # f
    BY DEF NamesOf
  <2>3. e \in GoodEntry
    <3>1. PICK k \in DOMAIN fileList : e = fileList[k]
      BY DEF ToSet
    <3>. QED BY <3>1, ElementOfSeq, LenProperties DEF ListsInv
  <2>4. e.fileName \in Files /\ e.storeList \in Seq(BlockStore)
    BY <2>3 DEF GoodEntry, FileMetaData
  <2>5. st \in BlockStore
    <3>1. PICK k \in DOMAIN e.storeList : st = e.storeList[k]
      BY DEF ToSet
    <3>. QED BY <2>4, <3>1, ElementOfSeq, LenProperties
  <2>. QED BY <1>2, <2>1, <2>2, <2>4, <2>5
<1>. QED BY <1>2, <1>3

\* The entry of a put, as the name server has it.
LEMMA SendingIsList ==
  ASSUME ListsInv, Len(tempList) = 1
  PROVE  /\ tempList[1] \in GoodEntry
         /\ Sending \in Seq(BlockStore) /\ WellFormed(Sending) /\ Len(Sending) \in Nat
         /\ \A k \in 1 .. Len(Sending) : Sending[k] \in BlockStore
<1>1. tempList[1] \in GoodEntry
  BY ElementOfSeq, 1 \in 1 .. 1 DEF ListsInv
<1>2. Sending \in Seq(BlockStore) /\ WellFormed(Sending)
  BY <1>1 DEF Sending, GoodEntry, FileMetaData
<1>. QED BY <1>1, <1>2, ElementOfSeq, LenProperties

\* A putBlock is sent to the server of its entry, which has not the block yet.
LEMMA PutBlockKeepsQuiet ==
  ASSUME Calm, OneWriter, NEW c \in Clients, Step(c), PutBlock(c)
  PROVE  Quiet'
<1>. PICK f : f = File(c)
  OBVIOUS
<1>. PICK s0, i : s0 = Entry(c).server.address /\ i = Entry(c).blockIdx
  OBVIOUS
<1>. PICK data : data = Piece(c, Entry(c))
  OBVIOUS
<1>. PICK new : new = NewCall("putBlock", c, f, Entry(c), data)
  OBVIOUS
<1>1. Domains /\ ClientInv(c) /\ OneCallEach /\ ClientsInv /\ ServersInv /\ ListsInv /\ AllRun
      /\ ListedStored
  BY DEF Calm, DInv, ClientsInv, Quiet, IInv
<1>2. Own(c)
  BY StepsAreOwn
<1>3. /\ pc[c] = "putBlock" /\ pc[c] \in Writing /\ ~AtEnd(c) /\ f \in Files
      /\ UNCHANGED <<nsVars, op, list, at, local>>
  BY <1>1 DEF PutBlock, Writing, ClientInv
<1>4. /\ at[c] \in 1 .. Len(list[c]) /\ Len(list[c]) \in Nat /\ DOMAIN list[c] = 1 .. Len(list[c])
      /\ \A k \in 1 .. Len(list[c]) : list[c][k] \in BlockStore /\ list[c][k].blockIdx \in Nat
  BY <1>1, <1>3, EntriesAreStores DEF ClientInv, AtEnd
<1>5. PutInv(c) /\ f \notin NamesOf(fileList) /\ DistinctReplicas(list[c])
  BY <1>3 DEF Calm, Quiet, ClientQuiet, PutInv, PutPhase, WellFormed
<1>6. s0 \in Servers /\ i \in Nat
  BY <1>3, <1>4, <1>5 DEF PutInv, PutPhase, Entry
<1>7. putBlock(c, f, Entry(c), data) /\ pc'[c] = "putWait"
  <2>1. Entry(c).server.address \in running
    BY <1>1, <1>6 DEF AllRun
  <2>2. putBlock(c, f, Entry(c), data) /\ Goto(c, "putWait")
    BY <2>1, Zenon DEF PutBlock
  <2>. QED BY <1>1, <2>2 DEF Goto, Domains
<1>8. /\ disk' = [disk EXCEPT ![s0][<<f, i>>] = <<>>]
      /\ calls' = calls \cup {new} /\ UNCHANGED <<starting, running>>
  BY <1>7 DEF putBlock, processes
<1>9. UNCHANGED <<up, serverList, fileList, tempList>>
  BY <1>3 DEF nsVars
<1>10. /\ new.caller = c /\ new.method = "putBlock" /\ Awaited(new)'
       /\ new.linked /\ new.data = data /\ new.left = data /\ new.server = s0
       /\ BlockName(new) = <<f, i>> /\ ~new.reported
  BY <1>3, <1>7 DEF NewCall, Awaited, WaitsFor, File, Entry, BlockName
<1>11. \A call \in calls : call.caller # c
  BY <1>3, CallsAwaited
<1>12. OneCallEach'
  <2>1. \A call \in calls : SameCall(call, call)
    BY DEF SameCall
  <2>. QED BY <1>1, <1>2, <1>8, <1>10, <1>11, <2>1, CallsStay DEF OneCallEach
<1>13. /\ \A t \in Servers : \A d \in Files \X Nat :
            disk'[t][d] = IF t = s0 /\ d = <<f, i>> THEN <<>> ELSE disk[t][d]
       /\ \A g \in Files : \A st \in BlockStore :
            OnDisk(g, st) /\ ~(st.server.address = s0 /\ st.blockIdx = i /\ g = f)
              => OnDisk(g, st)'
       /\ ListedStored'
  <2>. PICK b0 \in Files \X Nat : b0 = <<f, i>>
    BY <1>3, <1>6
  <2>1. \A t \in Servers : \A d \in Files \X Nat :
          disk'[t][d] = IF t = s0 /\ d = b0 THEN <<>> ELSE disk[t][d]
    <3>1. ServersInv /\ s0 \in Servers /\ disk' = [disk EXCEPT ![s0][b0] = <<>>]
      BY <1>1, <1>6, <1>8
    <3>. QED BY <3>1 DEF ServersInv
  <2>2. ~(f \in NamesOf(fileList)) /\ ListedStored /\ ListsInv /\ UNCHANGED fileList
    BY <1>1, <1>5, <1>9
  <2>3. OneBlockChanges(s0, f, i)
    BY <2>1 DEF OneBlockChanges
  <2>4. /\ \A g \in Files : \A st \in BlockStore :
             OnDisk(g, st) /\ ~(st.server.address = s0 /\ st.blockIdx = i /\ g = f)
               => OnDisk(g, st)'
        /\ ListedStored'
    BY <2>2, <2>3, OthersOnDisk
  <2>5. \A t \in Servers : \A d \in Files \X Nat :
          disk'[t][d] = IF t = s0 /\ d = <<f, i>> THEN <<>> ELSE disk[t][d]
    BY <2>1
  <2>. QED BY <2>4, <2>5, Zenon
<1>14. AllRun'
  BY <1>1, <1>8, <1>9 DEF AllRun
<1>15. ASSUME NEW call \in calls', call.method = "putBlock" PROVE SendInv(call)'
  <2>1. call = new
    BY <1>3, <1>8, <1>11, <1>15, WriterHas
  <2>2. Piece(c, Entry(c))' = data
    BY <1>3 DEF Piece, Entry, File
  <2>3. disk'[s0][<<f, i>>] = <<>>
    BY <1>3, <1>6, <1>13
  <2>4. <<>> \o data = data
    <3>1. data \in Seq(Units)
      BY <1>1, <1>3, <1>4, PieceIsPiece DEF ClientInv, Entry, Pieces, ToSet
    <3>. QED BY <3>1, ConcatEmptySeq
  <2>. QED BY <1>10, <2>1, <2>2, <2>3, <2>4 DEF SendInv, BlockName
<1>16. ClientQuiet(c)'
  <2>1. ASSUME NEW k \in 1 .. at[c] - 1 PROVE OnDisk(f, Sending[k])'
    <3>1. k \in 1 .. Len(list[c]) /\ k # at[c]
      BY <1>4
    <3>2. /\ OnDisk(f, Sending[k])
          /\ Sending[k].blockIdx = list[c][k].blockIdx /\ Sending[k].server = list[c][k].server
      BY <1>3, <1>5, <3>1 DEF PutInv, PutPhase
    <3>3. ~(list[c][k].server.address = s0 /\ list[c][k].blockIdx = i)
      BY <1>4, <1>5, <3>1 DEF DistinctReplicas, Entry
    <3>4. Sending[k] \in BlockStore
      BY <1>1, <1>3, <1>5, <3>1, SendingIsList DEF PutInv, PutPhase
    <3>. QED BY <1>3, <1>9, <1>13, <3>2, <3>3, <3>4 DEF Sending
  <2>2. /\ File(c)' = f /\ Sending' = Sending /\ pc'[c] = "putWait"
        /\ \A e : Piece(c, e)' = Piece(c, e)
    BY <1>3, <1>7, <1>9 DEF File, Sending, Piece
  <2>3. PutInv(c)'
    BY <1>3, <1>5, <1>9, <2>1, <2>2 DEF PutInv, PutPhase
  <2>. QED BY <1>5, <1>9, <2>2, <2>3 DEF ClientQuiet, RemovalInv, RmPhase
<1>17. ASSUME NEW s \in Servers, NEW b \in Files \X Nat, disk'[s][b] # Absent
       PROVE  ListedHas(s, b)' \/ HeldHas(c, s, b)'
  <2>1. Held(c)' = 1 .. at[c] /\ File(c)' = f /\ list'[c] = list[c]
    BY <1>3, <1>7 DEF Held, RmPhase, File
  <2>2. CASE s = s0 /\ b = <<f, i>>
    <3>1. Names(s, b, f, list[c][at[c]]) /\ at[c] \in 1 .. at[c]
      BY <1>4, <2>2 DEF Names, Entry
    <3>. QED BY <2>1, <3>1 DEF HeldHas, Names
  <2>3. CASE ~(s = s0 /\ b = <<f, i>>)
    <3>1. ListedHas(s, b) \/ HeldHas(c, s, b)
      BY <1>3, <1>13, <1>17, <2>3, WriterHas
    <3>2. Held(c) \subseteq 1 .. at[c]
      BY <1>3, <1>4 DEF Held, RmPhase
    <3>. QED BY <1>9, <2>1, <3>1, <3>2 DEF ListedHas, HeldHas, Names
  <2>. QED BY <2>2, <2>3
<1>18. \A g \in NamesOf(tempList') : pc'[c] \in RmPhase \cup PutPhase /\ File(c)' = g
  BY <1>3, <1>7, <1>9, WriterHas DEF PutPhase, File
<1>. QED BY <1>2, <1>3, <1>12, <1>13, <1>14, <1>15, <1>16, <1>17, <1>18, WriterKeeps

\* A unit moves from what is left to the end of what is there.
LEMMA UnitMoves ==
  ASSUME NEW U, NEW old \in Seq(U), NEW left \in Seq(U), left # <<>>
  PROVE  /\ Append(old, Head(left)) \in Seq(U)
         /\ Append(old, Head(left)) \o Tail(left) = old \o left
         /\ Len(left) <= 1 => Append(old, Head(left)) = old \o left
<1>. PICK n, m, l : n = Len(old) /\ m = Len(left) /\ l = n + 1
  OBVIOUS
<1>. PICK next, right, data :
       next = Append(old, Head(left)) /\ right = Tail(left) /\ data = old \o left
  OBVIOUS
<1>1. n \in Nat /\ m \in Nat \ {0} /\ l \in Nat
  BY EmptySeq, LenProperties
<1>2. /\ data \in Seq(U) /\ Len(data) = n + m
      /\ \A k \in 1 .. n + m : data[k] = IF k <= n THEN old[k] ELSE left[k - n]
  BY ConcatProperties
<1>3. /\ Head(left) = left[1] /\ left[1] \in U /\ right \in Seq(U) /\ Len(right) = m - 1
      /\ \A k \in 1 .. m - 1 : right[k] = left[k + 1]
  <2>1. /\ right \in Seq(U) /\ Len(right) = m - 1
        /\ \A k \in 1 .. Len(right) : right[k] = left[k + 1]
    BY HeadTailProperties
  <2>2. Head(left) = left[1] /\ left[1] \in U
    BY <1>1, ElementOfSeq
  <2>. QED BY <2>1, <2>2
<1>4. /\ next \in Seq(U) /\ Len(next) = l
      /\ \A k \in 1 .. l : next[k] = IF k <= n THEN old[k] ELSE left[1]
  <2>1. /\ Append(old, left[1]) \in Seq(U) /\ Len(Append(old, left[1])) = l
        /\ \A k \in 1 .. n : Append(old, left[1])[k] = old[k]
        /\ Append(old, left[1])[l] = left[1]
    BY <1>3, AppendProperties
  <2>. QED BY <1>1, <1>3, <2>1
<1>5. next \o right = data
  <2>1. /\ next \o right \in Seq(U) /\ Len(next \o right) = l + (m - 1)
        /\ \A k \in 1 .. l + (m - 1) :
             (next \o right)[k] = IF k <= l THEN next[k] ELSE right[k - l]
    BY <1>3, <1>4, ConcatProperties
  <2>. PICK whole : whole = next \o right
    OBVIOUS
  <2>2. \A k \in 1 .. n + m : whole[k] = data[k]
    <3>. SUFFICES ASSUME NEW k \in 1 .. n + m PROVE whole[k] = data[k]
      OBVIOUS
    <3>1. k \in 1 .. l + (m - 1)
      BY <1>1
    <3>2. CASE k <= l
      <4>1. whole[k] = (IF k <= n THEN old[k] ELSE left[1]) /\ (~(k <= n) => k - n = 1)
        BY <1>1, <1>4, <2>1, <3>1, <3>2
      <4>. QED BY <1>2, <4>1
    <3>3. CASE ~(k <= l)
      <4>1. k - l \in 1 .. m - 1 /\ (k - l) + 1 = k - n /\ ~(k <= n)
        BY <1>1, <3>3
      <4>2. whole[k] = right[k - l] /\ right[k - l] = left[k - n]
        BY <1>3, <2>1, <3>1, <3>3, <4>1
      <4>3. data[k] = left[k - n]
        BY <1>2, <4>1
      <4>. QED BY <4>2, <4>3
    <3>. QED BY <3>2, <3>3
  <2>3. whole \in Seq(U) /\ Len(whole) = Len(data)
    BY <1>1, <1>2, <2>1
  <2>. QED BY <1>2, <2>2, <2>3, SeqEqual
<1>6. ASSUME m <= 1 PROVE next = data
  <2>1. Len(data) = l /\ \A k \in 1 .. l : next[k] = data[k]
    <3>1. m = 1 /\ n + m = l
      BY <1>1, <1>6
    <3>2. \A k \in 1 .. l : ~(k <= n) => k - n = 1
      BY <1>1
    <3>. QED BY <1>2, <1>4, <3>1, <3>2
  <2>. QED BY <1>2, <1>4, <2>1, SeqEqual
<1>. QED BY <1>4, <1>5, <1>6

\* A write of a putBlock that is alone with its file appends the unit.
LEMMA WriteAppends ==
  ASSUME NEW call, NEW old \in Seq(Units), old = disk[call.server][BlockName(call)],
         NEW left \in Seq(Units), left = call.left, left # <<>>, old \o left = call.data
  PROVE  AfterWrite(call) = Append(old, left[1])
<1>. PICK n : n = Len(old)
  OBVIOUS
<1>1. n \in Nat /\ Len(left) \in Nat
  BY LenProperties
<1>2. Len(call.data) - Len(left) + 1 = n + 1
  <2>1. Len(old \o left) = n + Len(left)
    BY ConcatProperties
  <2>. QED BY <1>1, <2>1
<1>3. Max({n + 1, n}) = n + 1
  <2>. PICK x : x = Max({n + 1, n})
    OBVIOUS
  <2>1. x \in {n + 1, n} /\ x >= n + 1
    BY <1>1, MaxOfTwo, n + 1 \in Nat
  <2>. QED BY <1>1, <2>1
<1>4. AfterWrite(call) = [k \in 1 .. n + 1 |->
        IF k = n + 1 THEN left[1] ELSE IF k <= n THEN old[k] ELSE Garbage]
  <2>1. Head(left) = left[1]
    OBVIOUS
  <2>. QED BY <1>2, <1>3, <2>1, Zenon DEF AfterWrite
<1>5. /\ Append(old, left[1]) \in Seq(Units) /\ Len(Append(old, left[1])) = n + 1
      /\ \A k \in 1 .. n : Append(old, left[1])[k] = old[k]
      /\ Append(old, left[1])[n + 1] = left[1]
  <2>1. left[1] \in Units
    BY EmptySeq, LenProperties, ElementOfSeq
  <2>. QED BY <2>1, AppendProperties
<1>. PICK s : s = Append(old, left[1])
  OBVIOUS
<1>6. s = [k \in 1 .. n + 1 |-> s[k]]
  BY <1>5, LenProperties
<1>7. \A k \in 1 .. n + 1 :
        s[k] = IF k = n + 1 THEN left[1] ELSE IF k <= n THEN old[k] ELSE Garbage
  BY <1>1, <1>5
<1>. QED BY <1>4, <1>6, <1>7

\* What holds while a putBlock runs.
LEMMA RunningPut ==
  ASSUME Calm, OneWriter, NEW call \in calls, call.method = "putBlock"
  PROVE  LET c == call.caller
         IN  /\ c \in Clients /\ pc[c] = "putWait" /\ pc[c] \in Writing
             /\ call.file = File(c) /\ File(c) \in Files /\ File(c) \notin NamesOf(fileList)
             /\ call.server = Entry(c).server.address /\ call.server \in Servers
             /\ call.blockIdx = Entry(c).blockIdx /\ call.blockIdx \in Nat
             /\ Len(list[c]) \in Nat /\ DOMAIN list[c] = 1 .. Len(list[c])
             /\ at[c] \in 1 .. Len(list[c])
             /\ PutInv(c) /\ SendInv(call) /\ WellFormed(list[c])
             /\ call.data \in Pieces /\ call.data # <<>> /\ call.left \in Seq(Units)
             /\ disk[call.server][BlockName(call)] \in Seq(Units)
             /\ \A x \in calls : x.method = "putBlock" => x = call
<1>. PICK c : c = call.caller
  OBVIOUS
<1>1. c \in Clients /\ pc[c] = "putWait"
  BY CallsAwaited
<1>2. ClientInv(c) /\ ClientQuiet(c) /\ SendInv(call) /\ CallInv(call) /\ Awaited(call)
  BY <1>1 DEF Calm, DInv, ClientsInv, ServersInv, Quiet, OneCallEach
<1>3. pc[c] \in Writing /\ File(c) \in Files /\ ~AtEnd(c)
  BY <1>1, <1>2 DEF Writing, ClientInv
<1>4. /\ Len(list[c]) \in Nat /\ DOMAIN list[c] = 1 .. Len(list[c])
      /\ at[c] \in 1 .. Len(list[c]) /\ Entry(c).blockIdx \in Nat
  BY <1>1, <1>2, <1>3, EntriesAreStores DEF ClientInv, AtEnd, Entry
<1>5. PutInv(c) /\ File(c) \notin NamesOf(fileList) /\ WellFormed(list[c])
  BY <1>1, <1>2 DEF ClientQuiet, PutInv, PutPhase
<1>6. /\ call.file = File(c) /\ call.server = Entry(c).server.address
      /\ call.blockIdx = Entry(c).blockIdx
  BY <1>2 DEF Awaited
<1>7. /\ call.data \in Pieces /\ call.data # <<>> /\ call.left \in Seq(Units)
      /\ disk[call.server][BlockName(call)] \in Seq(Units) /\ call.server \in Servers
  BY <1>2 DEF CallInv, SendInv, BlockCall, Pieces
<1>8. \A x \in calls : x.method = "putBlock" => x = call
  BY <1>1, <1>3, WriterHas DEF Calm, Quiet, OneCallEach
<1>. QED BY <1>1, <1>2, <1>3, <1>4, <1>5, <1>6, <1>7, <1>8

\* What a write leaves of the disks.
LEMMA WriteUnitAppends ==
  ASSUME Calm, OneWriter, NEW call \in calls, call.method = "putBlock", WriteUnit(call)
  PROVE  /\ OneBlockChanges(call.server, call.file, call.blockIdx)
         /\ call.left # <<>> =>
              disk'[call.server][BlockName(call)] \o Tail(call.left) = call.data
         /\ Len(call.left) <= 1 => disk'[call.server][BlockName(call)] = call.data
<1>. PICK s0, b0, left, old : /\ s0 = call.server /\ b0 = BlockName(call)
                              /\ left = call.left /\ old = disk[s0][b0]
  OBVIOUS
<1>1. /\ s0 \in Servers /\ b0 \in Files \X Nat /\ b0 = <<call.file, call.blockIdx>>
      /\ left \in Seq(Units) /\ old \in Seq(Units) /\ old \o left = call.data /\ call.linked
  BY RunningPut DEF SendInv, BlockName
<1>2. ServersInv
  BY DEF Calm, DInv
<1>3. CASE left = <<>>
  <2>1. UNCHANGED disk
    BY <1>3 DEF WriteUnit
  <2>2. old \o <<>> = old
    BY <1>1, ConcatEmptySeq
  <2>. QED BY <1>1, <1>3, <2>1, <2>2 DEF OneBlockChanges
<1>4. CASE left # <<>>
  <2>. PICK next : next = Append(old, left[1])
    OBVIOUS
  <2>1. disk' = [disk EXCEPT ![s0][b0] = next]
    <3>1. disk' = [disk EXCEPT ![s0][b0] = AfterWrite(call)]
      BY <1>1, <1>4 DEF WriteUnit
    <3>. QED BY <1>1, <1>4, <3>1, WriteAppends
  <2>2. \A t \in Servers : \A d \in Files \X Nat :
          disk'[t][d] = IF t = s0 /\ d = b0 THEN next ELSE disk[t][d]
    BY <1>1, <1>2, <2>1 DEF ServersInv
  <2>3. disk'[s0][b0] = next
    BY <1>1, <2>2
  <2>4. next \o Tail(left) = call.data /\ (Len(left) <= 1 => next = call.data)
    <3>1. Head(left) = left[1]
      OBVIOUS
    <3>2. /\ Append(old, Head(left)) \o Tail(left) = old \o left
          /\ Len(left) <= 1 => Append(old, Head(left)) = old \o left
      <4>1. old \in Seq(Units) /\ left \in Seq(Units) /\ left # <<>>
        BY <1>1, <1>4
      <4>2. /\ Append(old, Head(left)) \in Seq(Units)
            /\ Append(old, Head(left)) \o Tail(left) = old \o left
            /\ Len(left) <= 1 => Append(old, Head(left)) = old \o left
        BY <4>1, UnitMoves, Zenon
      <4>. QED BY <4>2, Zenon
    <3>3. next = Append(old, Head(left))
      BY <3>1, Zenon
    <3>. QED BY <1>1, <3>2, <3>3, Zenon
  <2>5. OneBlockChanges(call.server, call.file, call.blockIdx)
    BY <1>1, <2>2 DEF OneBlockChanges
  <2>. QED BY <1>1, <2>3, <2>4, <2>5
<1>. QED BY <1>3, <1>4

\* A step of a call that its client waits for.
LEMMA CallGoesOn ==
  ASSUME Calm, OneWriter, NEW call \in calls, call.method = "putBlock", NEW new,
         SameCall(call, new), calls' = Replace(call, new), UNCHANGED clVars
  PROVE  /\ OneCallEach' /\ Own(call.caller)
         /\ \A x \in calls' : x.method = "putBlock" => x = new
<1>1. /\ UNCHANGED <<pc, op, list, at>> /\ Own(call.caller)
  BY DEF clVars, Own
<1>2. OneCallEach /\ \A x \in calls : x.method = "putBlock" => x = call
  BY RunningPut DEF Calm, Quiet
<1>3. calls' = (calls \ {call}) \cup {new}
  BY DEF Replace
<1>4. ASSUME NEW x \in calls' PROVE Awaited(x)'
  <2>1. PICK old \in calls : SameCall(old, x)
    BY <1>3, \A y : SameCall(y, y) DEF SameCall
  <2>2. Awaited(old)
    BY <1>2 DEF OneCallEach
  <2>. QED BY <1>1, <2>1, <2>2 DEF SameCall, Awaited, File, Entry
<1>5. \A a, b \in calls' : a.caller = b.caller => a = b
  BY <1>2, <1>3 DEF OneCallEach, SameCall
<1>6. \A d \in Clients : pc'[d] \in {"getWait", "putWait", "rmWait"} =>
        \E x \in calls' : x.caller = d
  BY <1>1, <1>2, <1>3 DEF OneCallEach, SameCall
<1>7. \A x \in calls' : x.method = "putBlock" => x = new
  BY <1>2, <1>3
<1>. QED BY <1>1, <1>4, <1>5, <1>6, <1>7 DEF OneCallEach

\* A putBlock writes a unit.
LEMMA PutWritesKeepsQuiet ==
  ASSUME Calm, OneWriter, NEW call \in calls, PutWrites(call), UNCHANGED clVars
  PROVE  Quiet'
<1>. PICK c, f, s0, i : /\ c = call.caller /\ f = call.file /\ s0 = call.server
                        /\ i = call.blockIdx
  OBVIOUS
<1>. PICK new : new = [call EXCEPT !.left = Tail(@)]
  OBVIOUS
<1>1. /\ call.method = "putBlock" /\ ~call.reported /\ call.left # <<>>
      /\ WriteUnit(call) /\ calls' = Replace(call, new)
      /\ UNCHANGED <<starting, running, up, serverList, fileList, tempList>>
      /\ UNCHANGED <<pc, op, list, at, local>>
  BY DEF PutWrites, processes, nsVars, clVars
<1>2. /\ c \in Clients /\ pc[c] = "putWait" /\ pc[c] \in Writing /\ f = File(c) /\ f \in Files
      /\ f \notin NamesOf(fileList) /\ s0 = Entry(c).server.address /\ s0 \in Servers
      /\ i = Entry(c).blockIdx /\ i \in Nat
      /\ Len(list[c]) \in Nat /\ DOMAIN list[c] = 1 .. Len(list[c]) /\ at[c] \in 1 .. Len(list[c])
      /\ PutInv(c) /\ SendInv(call) /\ WellFormed(list[c])
  BY <1>1, RunningPut
<1>3. AllRun /\ ListedStored /\ ListsInv
  BY DEF Calm, Quiet, DInv, IInv
<1>4. /\ SameCall(call, new) /\ new.left = Tail(call.left) /\ ~new.reported
      /\ new.linked = call.linked /\ new.data = call.data /\ new.method = "putBlock"
      /\ BlockName(new) = BlockName(call) /\ new.server = s0 /\ new.caller = c
  <2>1. call \in BlockCall
    BY DEF Calm, DInv, ServersInv, CallInv
  <2>. QED BY <1>1, <2>1 DEF SameCall, BlockCall, BlockName
<1>5. /\ OneCallEach' /\ Own(c) /\ \A x \in calls' : x.method = "putBlock" => x = new
  BY <1>1, <1>4, CallGoesOn
<1>6. /\ OneBlockChanges(s0, f, i)
      /\ disk'[s0][BlockName(call)] \o Tail(call.left) = call.data
  BY <1>1, WriteUnitAppends
<1>7. /\ \A g \in Files : \A st \in BlockStore :
           OnDisk(g, st) /\ ~(st.server.address = s0 /\ st.blockIdx = i /\ g = f)
             => OnDisk(g, st)'
      /\ ListedStored'
  <2>1. ListsInv /\ ListedStored /\ f \notin NamesOf(fileList) /\ UNCHANGED fileList
    BY <1>1, <1>2, <1>3
  <2>. QED BY <1>6, <2>1, OthersOnDisk
<1>8. AllRun'
  BY <1>1, <1>3 DEF AllRun
<1>9. /\ File(c)' = f /\ Sending' = Sending /\ Entry(c)' = Entry(c)
      /\ \A e : Piece(c, e)' = Piece(c, e)
  BY <1>1, <1>2 DEF File, Sending, Piece, Entry
<1>10. ASSUME NEW x \in calls', x.method = "putBlock" PROVE SendInv(x)'
  <2>1. x = new
    BY <1>5, <1>10
  <2>2. call.linked /\ call.data = Piece(c, Entry(c))
    BY <1>1, <1>2 DEF SendInv
  <2>3. new.linked /\ new.data = Piece(c, Entry(c))'
    BY <1>4, <1>9, <2>2
  <2>4. disk'[new.server][BlockName(new)] \o new.left = new.data
    BY <1>4, <1>6
  <2>5. SendInv(new)'
    BY <1>4, <2>3, <2>4 DEF SendInv, BlockName
  <2>. QED BY <2>1, <2>5
<1>11. ClientQuiet(c)'
  <2>1. ASSUME NEW k \in 1 .. at[c] - 1 PROVE OnDisk(f, Sending[k])'
    <3>1. k \in 1 .. Len(list[c]) /\ k # at[c]
      BY <1>2
    <3>2. /\ OnDisk(f, Sending[k])
          /\ Sending[k].blockIdx = list[c][k].blockIdx /\ Sending[k].server = list[c][k].server
      BY <1>2, <3>1 DEF PutInv, PutPhase
    <3>3. ~(list[c][k].server.address = s0 /\ list[c][k].blockIdx = i)
      BY <1>2, <3>1 DEF WellFormed, DistinctReplicas, Entry
    <3>4. Sending[k] \in BlockStore
      BY <1>2, <1>3, <3>1, SendingIsList DEF PutInv, PutPhase
    <3>. QED BY <1>2, <1>7, <1>9, <3>2, <3>3, <3>4
  <2>2. PutInv(c)'
    BY <1>1, <1>2, <1>9, <2>1 DEF PutInv, PutPhase
  <2>. QED BY <1>1, <1>2, <1>9, <2>2 DEF ClientQuiet, RemovalInv, RmPhase
<1>12. ASSUME NEW s \in Servers, NEW b \in Files \X Nat, disk'[s][b] # Absent
       PROVE  ListedHas(s, b)' \/ HeldHas(c, s, b)'
  <2>1. Held(c)' = 1 .. at[c] /\ Held(c) = 1 .. at[c] /\ list'[c] = list[c]
    BY <1>1, <1>2 DEF Held, RmPhase
  <2>2. CASE s = s0 /\ b = <<f, i>>
    <3>1. Names(s, b, f, list[c][at[c]]) /\ at[c] \in 1 .. at[c]
      BY <1>2, <2>2 DEF Names, Entry
    <3>. QED BY <1>9, <2>1, <3>1 DEF HeldHas, Names
  <2>3. CASE ~(s = s0 /\ b = <<f, i>>)
    <3>1. ListedHas(s, b) \/ HeldHas(c, s, b)
      BY <1>2, <1>6, <1>12, <2>3, WriterHas DEF OneBlockChanges
    <3>. QED BY <1>1, <1>2, <1>9, <2>1, <3>1 DEF ListedHas, HeldHas, Names
  <2>. QED BY <2>2, <2>3
<1>13. \A g \in NamesOf(tempList') : pc'[c] \in RmPhase \cup PutPhase /\ File(c)' = g
  BY <1>1, <1>2, <1>9, WriterHas DEF PutPhase
<1>. QED BY <1>2, <1>5, <1>7, <1>8, <1>10, <1>11, <1>12, <1>13, WriterKeeps

\* What a report makes of the entries.
LEMMA ReportReaches ==
  ASSUME NEW l \in Seq(BlockStore), WellFormed(l), NEW i \in Nat,
         NEW k0 \in 1 .. Len(l), l[k0].blockIdx = i,
         NEW size \in Nat, NEW hash \in BlockHashes
  PROVE  /\ FindBlock(l, i) # 0
         /\ Report(l, i, size, hash) \in Seq(BlockStore)
         /\ Len(Report(l, i, size, hash)) = Len(l)
         /\ \A k \in 1 .. Len(l) :
              /\ Report(l, i, size, hash)[k].blockIdx = l[k].blockIdx
              /\ Report(l, i, size, hash)[k].server = l[k].server
              /\ l[k].blockIdx = i => /\ Report(l, i, size, hash)[k].blockSize = size
                                      /\ Report(l, i, size, hash)[k].blockHash = hash
              /\ l[k].blockIdx # i => Report(l, i, size, hash)[k] = l[k]
<1>. DEFINE r == Report(l, i, size, hash)
<1>1. FindBlock(l, i) # 0
  BY FindBlockIsFirst
<1>2. r \in Seq(BlockStore)
  BY <1>1, ReportKeepsShape
<1>3. Len(l) \in Nat /\ DOMAIN l = 1 .. Len(l) /\ \A k \in 1 .. Len(l) : l[k] \in BlockStore
  BY LenProperties, ElementOfSeq
<1>4. \A k \in 1 .. Len(l) : InRun(l, FindBlock(l, i), k) <=> l[k].blockIdx = i
  BY <1>1, RunIsBlock DEF WellFormed
<1>5. r = [k \in 1 .. Len(l) |->
             IF InRun(l, FindBlock(l, i), k)
             THEN [l[k] EXCEPT !.blockSize = size, !.blockHash = hash] ELSE l[k]]
  BY <1>3, Zenon DEF Report
<1>6. ASSUME NEW k \in 1 .. Len(l)
      PROVE  r[k] = IF l[k].blockIdx = i
                    THEN [l[k] EXCEPT !.blockSize = size, !.blockHash = hash] ELSE l[k]
  <2>. HIDE DEF r
  <2>. QED BY <1>4, <1>5
<1>7. Len(r) = Len(l)
  <2>1. DOMAIN r = 1 .. Len(l)
    <3>. HIDE DEF r
    <3>. QED BY <1>5
  <2>. HIDE DEF r
  <2>. QED BY <1>2, <1>3, <2>1, LenProperties
<1>8. ASSUME NEW k \in 1 .. Len(l)
      PROVE  /\ r[k].blockIdx = l[k].blockIdx /\ r[k].server = l[k].server
             /\ l[k].blockIdx = i => r[k].blockSize = size /\ r[k].blockHash = hash
             /\ l[k].blockIdx # i => r[k] = l[k]
  <2>1. l[k] \in BlockStore
    BY <1>3
  <2>. HIDE DEF r
  <2>. QED BY <1>6, <2>1 DEF BlockStore
<1>. QED BY <1>1, <1>2, <1>7, <1>8 DEF r

\* The report of a putBlock reaches the entries it was sent for.
LEMMA PutReportsKeepsQuiet ==
  ASSUME Calm, NamesInv', OneWriter, NEW call \in calls, PutReports(call), UNCHANGED clVars
  PROVE  Quiet'
<1>. PICK c, f, s0, i : /\ c = call.caller /\ f = call.file /\ s0 = call.server
                        /\ i = call.blockIdx
  OBVIOUS
<1>. PICK data : data = call.data
  OBVIOUS
<1>. PICK new : new = [call EXCEPT !.reported = TRUE]
  OBVIOUS
<1>. PICK sent : sent = Sending
  OBVIOUS
<1>. PICK next : next = Report(sent, i, Len(data), data)
  OBVIOUS
<1>1. /\ call.method = "putBlock" /\ Len(call.left) <= 1 /\ calls' = Replace(call, new)
      /\ UNCHANGED <<disk, starting, running>> /\ UNCHANGED <<pc, op, list, at, local>>
  BY DEF PutReports, processes, clVars
<1>2. /\ c \in Clients /\ pc[c] = "putWait" /\ pc[c] \in Writing /\ f = File(c) /\ f \in Files
      /\ f \notin NamesOf(fileList) /\ s0 = Entry(c).server.address /\ s0 \in Servers
      /\ i = Entry(c).blockIdx /\ i \in Nat
      /\ Len(list[c]) \in Nat /\ DOMAIN list[c] = 1 .. Len(list[c]) /\ at[c] \in 1 .. Len(list[c])
      /\ PutInv(c) /\ SendInv(call) /\ WellFormed(list[c])
      /\ data \in Pieces /\ data # <<>>
  BY <1>1, RunningPut
<1>3. AllRun /\ ListedStored /\ ListsInv /\ KnownOnce
  BY DEF Calm, Quiet, DInv, IInv, NamesInv
<1>4. /\ SameCall(call, new) /\ new.left = call.left /\ new.linked = call.linked
      /\ new.data = call.data /\ new.method = "putBlock"
      /\ BlockName(new) = BlockName(call) /\ new.server = s0 /\ new.caller = c
  <2>1. call \in BlockCall
    BY DEF Calm, DInv, ServersInv, CallInv
  <2>2. /\ new.caller = call.caller /\ new.method = call.method /\ new.server = call.server
        /\ new.file = call.file /\ new.blockIdx = call.blockIdx /\ new.data = call.data
        /\ new.left = call.left /\ new.linked = call.linked
    BY <2>1 DEF BlockCall
  <2>. QED BY <1>1, <2>2 DEF SameCall, BlockName
<1>5. /\ OneCallEach' /\ Own(c) /\ \A x \in calls' : x.method = "putBlock" => x = new
  BY <1>1, <1>4, CallGoesOn
<1>6. /\ Len(tempList) = 1 /\ tempList[1].fileName = f /\ Len(sent) = Len(list[c])
      /\ \A k \in 1 .. Len(list[c]) : /\ list[c][k].server.address \in Servers
                                      /\ sent[k].blockIdx = list[c][k].blockIdx
                                      /\ sent[k].server = list[c][k].server
      /\ \A k \in 1 .. at[c] - 1 : OnDisk(f, sent[k]) /\ sent[k].blockHash = Piece(c, list[c][k])
  BY <1>2 DEF PutInv, PutPhase
<1>7. /\ sent \in Seq(BlockStore) /\ WellFormed(sent) /\ tempList[1] \in GoodEntry
      /\ tempList \in Seq(GoodEntry)
  BY <1>3, <1>6, SendingIsList DEF ListsInv
<1>8. Len(data) \in Nat /\ data \in BlockHashes
  <2>1. data \in Seq(Units)
    BY <1>2 DEF Pieces
  <2>2. data \in BlockHashes
    BY <1>2, DFSAssumption, PiecesHaveDigests
  <2>. QED BY <2>1, <2>2, LenProperties
<1>9. /\ FindBlock(sent, i) # 0 /\ next \in Seq(BlockStore) /\ Len(next) = Len(sent)
      /\ \A k \in 1 .. Len(sent) :
           /\ next[k].blockIdx = sent[k].blockIdx /\ next[k].server = sent[k].server
           /\ sent[k].blockIdx = i => next[k].blockSize = Len(data) /\ next[k].blockHash = data
           /\ sent[k].blockIdx # i => next[k] = sent[k]
  <2>1. at[c] \in 1 .. Len(sent) /\ sent[at[c]].blockIdx = i
    BY <1>2, <1>6 DEF Entry
  <2>2. /\ sent \in Seq(BlockStore) /\ WellFormed(sent) /\ i \in Nat
        /\ Len(data) \in Nat /\ data \in BlockHashes
    BY <1>2, <1>7, <1>8
  <2>. QED BY <2>1, <2>2, ReportReaches
<1>10. /\ tempList' = [tempList EXCEPT ![1].storeList = next]
       /\ UNCHANGED <<up, serverList, fileList>>
  <2>1. updateBlockInfo(f, i, Len(data), data)
    <3>1. NameService(updateBlockInfo(f, i, Len(data), data)) /\ up
      BY <1>3, Zenon DEF PutReports, AllRun
    <3>. QED BY <3>1, Zenon DEF NameService
  <2>2. Find(tempList, f) = 1 /\ Pending(f)
    <3>1. f \in NamesOf(tempList)
      BY <1>6, <1>7, NameListElements, 1 \in 1 .. 1
    <3>2. Find(tempList, f) \in 1 .. 1 /\ Find(tempList, f) # 0
      BY <1>3, <1>6, <3>1, NameFound DEF KnownOnce, NameList
    <3>. QED BY <3>2 DEF Pending
  <2>3. KnowsBlock(f, i)
    BY <1>9, <2>2 DEF KnowsBlock, Sending
  <2>4. tempList' = [tempList EXCEPT ![Find(tempList, f)].storeList =
                       Report(@, i, Len(data), data)]
        /\ UNCHANGED <<up, serverList, fileList>>
    BY <2>1, <2>3, Zenon DEF updateBlockInfo
  <2>. QED BY <2>2, <2>4 DEF Sending
<1>11. /\ Len(tempList') = 1 /\ tempList'[1].fileName = f /\ Sending' = next
  <2>1. tempList' = [tempList EXCEPT ![1] = [tempList[1] EXCEPT !.storeList = next]]
    BY <1>10
  <2>. PICK e : e = [tempList[1] EXCEPT !.storeList = next]
    OBVIOUS
  <2>2. e.fileName = f /\ e.storeList = next
    BY <1>6, <1>7 DEF GoodEntry, FileMetaData
  <2>3. Len(tempList') = 1 /\ tempList'[1] = e
    <3>1. tempList \in Seq(GoodEntry \cup {e}) /\ e \in GoodEntry \cup {e} /\ 1 \in 1 .. Len(tempList)
      BY <1>6, <1>7, SeqMonotonic
    <3>2. tempList' = [tempList EXCEPT ![1] = e]
      BY <2>1
    <3>. QED BY <1>6, <3>1, <3>2, ExceptSeq
  <2>. QED BY <2>2, <2>3 DEF Sending
<1>12. \A g, s : OnDisk(g, s)' = OnDisk(g, s)
  BY <1>1, Zenon DEF OnDisk
<1>13. AllRun' /\ ListedStored'
  BY <1>1, <1>3, <1>10, <1>12 DEF AllRun, ListedStored
<1>14. /\ File(c)' = f /\ Entry(c)' = Entry(c) /\ \A e : Piece(c, e)' = Piece(c, e)
  BY <1>1, <1>2 DEF File, Piece, Entry
<1>15. data = Piece(c, Entry(c)) /\ call.linked
       /\ disk[s0][BlockName(call)] \o call.left = data
  BY <1>1, <1>2 DEF SendInv
<1>16. ASSUME NEW x \in calls', x.method = "putBlock" PROVE SendInv(x)'
  <2>1. x = new
    BY <1>5, <1>16
  <2>2. Sending'[at[c]].blockHash = data /\ Sending'[at[c]].blockSize = Len(data)
    <3>1. at[c] \in 1 .. Len(sent) /\ sent[at[c]].blockIdx = i
      BY <1>2, <1>6 DEF Entry
    <3>2. next[at[c]].blockHash = data /\ next[at[c]].blockSize = Len(data)
      BY <1>9, <3>1
    <3>3. at' = at /\ Sending' = next
      BY <1>1, <1>11
    <3>. QED BY <3>2, <3>3
  <2>3. disk'[new.server][BlockName(new)] \o new.left = new.data
    BY <1>1, <1>4, <1>15
  <2>4. SendInv(new)'
    BY <1>1, <1>4, <1>14, <1>15, <2>2, <2>3 DEF SendInv, BlockName
  <2>. QED BY <2>1, <2>4
<1>17. ClientQuiet(c)'
  <2>1. ASSUME NEW k \in 1 .. at[c] - 1
        PROVE  OnDisk(f, next[k]) /\ next[k].blockHash = Piece(c, list[c][k])
    <3>1. k \in 1 .. Len(list[c]) /\ OnDisk(f, sent[k]) /\ sent[k].blockHash = Piece(c, list[c][k])
      BY <1>2, <1>6
    <3>2. CASE sent[k].blockIdx # i
      BY <1>6, <1>9, <3>1, <3>2
    <3>3. CASE sent[k].blockIdx = i
      <4>1. list[c][k].blockIdx = Entry(c).blockIdx /\ list[c][k].blockSize = Entry(c).blockSize
        BY <1>2, <1>6, <3>1, <3>3 DEF WellFormed, ReplicasAgree, Entry
      <4>2. Piece(c, list[c][k]) = data
        BY <1>15, <4>1 DEF Piece
      <4>3. /\ next[k].blockIdx = i /\ next[k].server = sent[k].server
            /\ next[k].blockSize = Len(data) /\ next[k].blockHash = data
        BY <1>6, <1>9, <3>1, <3>3
      <4>4. sent[k].blockHash = data
        BY <3>1, <4>2
      <4>. QED BY <1>2, <3>1, <3>3, <4>2, <4>3, <4>4 DEF OnDisk
    <3>. QED BY <3>2, <3>3
  <2>2. \A k \in 1 .. at[c] - 1 : OnDisk(f, next[k])'
    BY <1>12, <2>1
  <2>3. \A k \in 1 .. Len(list[c]) :
          /\ list[c][k].server.address \in Servers
          /\ next[k].blockIdx = list[c][k].blockIdx /\ next[k].server = list[c][k].server
    BY <1>6, <1>9
  <2>4. /\ Len(tempList') = 1 /\ tempList'[1].fileName = f /\ Sending' = next
        /\ Len(next) = Len(list[c]) /\ list' = list /\ at' = at /\ File(c)' = f
        /\ \A k \in 1 .. at[c] - 1 : next[k].blockHash = Piece(c, list[c][k])'
    BY <1>1, <1>6, <1>9, <1>11, <1>14, <2>1
  <2>5. PutInv(c)'
    BY <1>2, <2>2, <2>3, <2>4 DEF PutInv
  <2>. QED BY <1>1, <1>2, <1>10, <1>14, <2>5 DEF ClientQuiet, RemovalInv, RmPhase
<1>18. ASSUME NEW s \in Servers, NEW b \in Files \X Nat, disk'[s][b] # Absent
       PROVE  ListedHas(s, b)' \/ HeldHas(c, s, b)'
  <2>1. Held(c)' = Held(c) /\ list'[c] = list[c]
    BY <1>1 DEF Held
  <2>2. ListedHas(s, b) \/ HeldHas(c, s, b)
    BY <1>1, <1>2, <1>18, WriterHas
  <2>. QED BY <1>2, <1>10, <1>14, <2>1, <2>2 DEF ListedHas, HeldHas, Names
<1>19. \A g \in NamesOf(tempList') : pc'[c] \in RmPhase \cup PutPhase /\ File(c)' = g
  <2>1. tempList' \in Seq(ToSet(tempList'))
    BY DEF NamesInv, KnownOnce, NameList
  <2>2. \A g \in NamesOf(tempList') : g = f
    BY <1>11, <2>1, NameListElements
  <2>. QED BY <1>1, <1>2, <1>14, <2>2 DEF PutPhase
<1>. QED BY <1>2, <1>5, <1>13, <1>16, <1>17, <1>18, <1>19, WriterKeeps

\* The file of a putBlock is closed and the reply goes to its client.
LEMMA PutBlockDoneKeepsQuiet ==
  ASSUME Calm, OneWriter, NEW c \in Clients, Step(c), PutBlockDone(c)
  PROVE  Quiet'
<1>1. PICK call \in calls : call.caller = c /\ PutCloses(call)
  BY DEF PutBlockDone
<1>. PICK f, s0, i, data : /\ f = call.file /\ s0 = call.server
                           /\ i = call.blockIdx /\ data = call.data
  OBVIOUS
<1>2. /\ Domains /\ ClientsInv /\ OneCallEach /\ AllRun /\ ListedStored /\ ListsInv
      /\ ClientInv(c)
  BY DEF Calm, Quiet, DInv, IInv, ClientsInv
<1>3. /\ call.method = "putBlock" /\ call.reported /\ WriteUnit(call) /\ calls' = calls \ {call}
      /\ UNCHANGED <<starting, running, up, serverList, fileList, tempList>>
  BY <1>1 DEF PutCloses, processes, nsVars
<1>4. /\ UNCHANGED <<op, list, local>> /\ at'[c] = at[c] + 1 /\ pc'[c] = "putBlock"
  BY <1>2 DEF PutBlockDone, Advance, Goto, Domains
<1>5. Own(c)
  BY StepsAreOwn
<1>6. /\ pc[c] = "putWait" /\ pc[c] \in Writing /\ f = File(c) /\ f \in Files
      /\ f \notin NamesOf(fileList) /\ s0 = Entry(c).server.address /\ s0 \in Servers
      /\ i = Entry(c).blockIdx /\ i \in Nat
      /\ Len(list[c]) \in Nat /\ DOMAIN list[c] = 1 .. Len(list[c]) /\ at[c] \in 1 .. Len(list[c])
      /\ PutInv(c) /\ SendInv(call) /\ WellFormed(list[c])
      /\ data \in Pieces /\ data # <<>>
      /\ \A x \in calls : x.method = "putBlock" => x = call
  BY <1>1, <1>3, RunningPut
<1>7. /\ OneBlockChanges(s0, f, i) /\ disk'[s0][<<f, i>>] = data
      /\ data = Piece(c, Entry(c))
      /\ Sending[at[c]].blockHash = data /\ Sending[at[c]].blockSize = Len(data)
  <2>1. /\ Len(call.left) <= 1 /\ data = Piece(c, Entry(c))
        /\ Sending[at[c]].blockHash = data /\ Sending[at[c]].blockSize = Len(data)
    BY <1>1, <1>3, <1>6 DEF SendInv
  <2>2. BlockName(call) = <<f, i>>
    BY DEF BlockName
  <2>. QED BY <1>3, <2>1, <2>2, WriteUnitAppends
<1>8. /\ \A g \in Files : \A st \in BlockStore :
           OnDisk(g, st) /\ ~(st.server.address = s0 /\ st.blockIdx = i /\ g = f)
             => OnDisk(g, st)'
      /\ ListedStored'
  <2>1. ListsInv /\ ListedStored /\ f \notin NamesOf(fileList) /\ UNCHANGED fileList
    BY <1>2, <1>3, <1>6
  <2>. QED BY <1>7, <2>1, OthersOnDisk
<1>9. AllRun'
  BY <1>2, <1>3 DEF AllRun
<1>10. OneCallEach' /\ \A x \in calls' : x.method # "putBlock"
  <2>1. \A x \in calls : SameCall(x, x)
    BY DEF SameCall
  <2>2. \A x \in calls : x.caller = c => x = call
    BY <1>1, <1>2 DEF OneCallEach
  <2>. QED BY <1>2, <1>3, <1>4, <1>5, <1>6, <2>1, <2>2, CallsStay DEF OneCallEach
<1>11. /\ File(c)' = f /\ Sending' = Sending /\ \A e : Piece(c, e)' = Piece(c, e)
       /\ list'[c] = list[c]
  BY <1>3, <1>4, <1>6 DEF File, Sending, Piece
<1>12. /\ Len(tempList) = 1 /\ tempList[1].fileName = f /\ Len(Sending) = Len(list[c])
       /\ \A k \in 1 .. Len(list[c]) : /\ list[c][k].server.address \in Servers
                                       /\ Sending[k].blockIdx = list[c][k].blockIdx
                                       /\ Sending[k].server = list[c][k].server
       /\ \A k \in 1 .. at[c] - 1 :
            OnDisk(f, Sending[k]) /\ Sending[k].blockHash = Piece(c, list[c][k])
  BY <1>6 DEF PutInv, PutPhase
<1>13. ASSUME NEW k \in 1 .. at[c]
       PROVE  OnDisk(f, Sending[k])' /\ Sending[k].blockHash = Piece(c, list[c][k])
  <2>1. CASE k = at[c]
    <3>1. /\ Sending[k].blockHash = data /\ Sending[k].blockSize = Len(data)
          /\ Sending[k].blockIdx = i /\ Sending[k].server.address = s0
          /\ list[c][k] = Entry(c)
      BY <1>6, <1>7, <1>12, <2>1 DEF Entry
    <3>. PICK st : st = Sending[k]
      OBVIOUS
    <3>2. OnDisk(f, st)'
      BY <1>6, <1>7, <3>1 DEF OnDisk
    <3>3. Sending[k]' = st
      BY <1>11
    <3>4. OnDisk(f, Sending[k])'
      BY <3>2, <3>3 DEF OnDisk
    <3>. QED BY <1>7, <3>1, <3>4
  <2>2. CASE k # at[c]
    <3>1. k \in 1 .. Len(list[c]) /\ k \in 1 .. at[c] - 1
      BY <1>6, <2>2
    <3>2. ~(list[c][k].server.address = s0 /\ list[c][k].blockIdx = i)
      BY <1>6, <2>2, <3>1 DEF WellFormed, DistinctReplicas, Entry
    <3>3. Sending[k] \in BlockStore
      BY <1>2, <1>12, <3>1, SendingIsList
    <3>. PICK st : st = Sending[k]
      OBVIOUS
    <3>4. st \in BlockStore /\ OnDisk(f, st) /\ ~(st.server.address = s0 /\ st.blockIdx = i)
      BY <1>12, <3>1, <3>2, <3>3
    <3>5. OnDisk(f, st)'
      BY <1>6, <1>8, <3>4
    <3>6. Sending[k]' = st
      BY <1>11
    <3>7. OnDisk(f, Sending[k])'
      BY <3>5, <3>6 DEF OnDisk
    <3>. QED BY <1>12, <3>1, <3>7
  <2>. QED BY <2>1, <2>2
<1>14. ClientQuiet(c)'
  <2>1. \A k \in 1 .. at'[c] - 1 : OnDisk(f, Sending[k])'
    BY <1>4, <1>6, <1>13
  <2>2. \A k \in 1 .. at'[c] - 1 : Sending'[k].blockHash = Piece(c, list[c][k])'
    BY <1>4, <1>6, <1>11, <1>13
  <2>3. /\ Len(tempList') = 1 /\ tempList'[1].fileName = f /\ Len(Sending') = Len(list[c])
        /\ \A k \in 1 .. Len(list[c]) : /\ list[c][k].server.address \in Servers
                                        /\ Sending'[k].blockIdx = list[c][k].blockIdx
                                        /\ Sending'[k].server = list[c][k].server
    BY <1>3, <1>11, <1>12
  <2>4. PutInv(c)'
    BY <1>6, <1>11, <1>4, <2>1, <2>2, <2>3 DEF PutInv
  <2>. QED BY <1>3, <1>4, <1>6, <1>11, <2>4 DEF ClientQuiet, RemovalInv, RmPhase
<1>15. ASSUME NEW s \in Servers, NEW b \in Files \X Nat, disk'[s][b] # Absent
       PROVE  ListedHas(s, b)' \/ HeldHas(c, s, b)'
  <2>1. Held(c)' = 1 .. at[c] /\ Held(c) = 1 .. at[c]
    BY <1>4, <1>6 DEF Held, RmPhase
  <2>2. CASE s = s0 /\ b = <<f, i>>
    <3>1. Names(s, b, f, list[c][at[c]]) /\ at[c] \in 1 .. at[c]
      BY <1>6, <2>2 DEF Names, Entry
    <3>. QED BY <1>11, <2>1, <3>1 DEF HeldHas, Names
  <2>3. CASE ~(s = s0 /\ b = <<f, i>>)
    <3>1. ListedHas(s, b) \/ HeldHas(c, s, b)
      BY <1>6, <1>7, <1>15, <2>3, WriterHas DEF OneBlockChanges
    <3>. QED BY <1>3, <1>6, <1>11, <2>1, <3>1 DEF ListedHas, HeldHas, Names
  <2>. QED BY <2>2, <2>3
<1>16. \A g \in NamesOf(tempList') : pc'[c] \in RmPhase \cup PutPhase /\ File(c)' = g
  BY <1>3, <1>4, <1>6, <1>11, WriterHas DEF PutPhase
<1>. QED BY <1>5, <1>6, <1>8, <1>9, <1>10, <1>14, <1>15, <1>16, WriterKeeps

\* What a put has stored becomes the last entry of fileList.
LEMMA CommitPublishes ==
  ASSUME Calm, NEW c \in Clients, CommitPut(c)
  PROVE  /\ at[c] = Len(list[c]) + 1 /\ Len(list[c]) \in Nat
         /\ Len(tempList) = 1 /\ Len(Sending) = Len(list[c])
         /\ tempList[1] \in GoodEntry /\ tempList[1].fileName = File(c)
         /\ tempList[1].storeList = Sending /\ Sending \in Seq(BlockStore)
         /\ fileList' = Append(fileList, tempList[1]) /\ tempList' = RemoveAt(tempList, 1)
         /\ UNCHANGED <<up, serverList>>
         /\ ToSet(fileList') = ToSet(fileList) \cup {tempList[1]}
<1>. PICK f, e : f = File(c) /\ e = tempList[1]
  OBVIOUS
<1>1. /\ KnownOnce /\ AllRun /\ ListsInv /\ ClientInv(c) /\ ClientQuiet(c)
  BY DEF Calm, DInv, ClientsInv, Quiet, NamesInv, IInv
<1>2. pc[c] = "putBlock" /\ AtEnd(c)
  BY DEF CommitPut
<1>3. at[c] = Len(list[c]) + 1 /\ Len(list[c]) \in Nat
  <2>1. at[c] \in 1 .. Len(list[c]) + 1 /\ Len(list[c]) \in Nat
    BY <1>1, EntriesAreStores DEF ClientInv
  <2>. QED BY <1>2, <2>1 DEF AtEnd
<1>4. Len(tempList) = 1 /\ e.fileName = f /\ Len(Sending) = Len(list[c])
  BY <1>1, <1>2 DEF ClientQuiet, PutInv, PutPhase
<1>5. e \in GoodEntry /\ e.storeList = Sending /\ Sending \in Seq(BlockStore)
  BY <1>1, <1>4, SendingIsList DEF Sending
<1>6. Find(tempList, f) = 1 /\ Pending(f)
  <2>1. f \in NamesOf(tempList)
    BY <1>1, <1>4, NameListElements, 1 \in 1 .. 1 DEF ListsInv
  <2>2. Find(tempList, f) \in 1 .. 1 /\ Find(tempList, f) # 0
    BY <1>1, <1>4, <2>1, NameFound DEF KnownOnce, NameList
  <2>. QED BY <2>2 DEF Pending
<1>7. /\ fileList' = Append(fileList, e) /\ tempList' = RemoveAt(tempList, 1)
      /\ UNCHANGED <<up, serverList>>
  <2>1. commitPutTransaction(f)
    <3>1. NameService(commitPutTransaction(f)) /\ up
      BY <1>1, Zenon DEF CommitPut, AllRun
    <3>. QED BY <3>1, Zenon DEF NameService
  <2>2. Publish(f) /\ UNCHANGED <<up, serverList, allocated>>
    BY <1>6, <2>1, Zenon DEF commitPutTransaction, Refuse
  <2>. QED BY <1>6, <2>2 DEF Publish
<1>8. ToSet(fileList') = ToSet(fileList) \cup {e}
  BY <1>1, <1>5, <1>7, ListMembers DEF ListsInv
<1>. QED BY <1>3, <1>4, <1>5, <1>7, <1>8

\* A put commits: every entry of the new file is on its disk.
LEMMA CommitPutKeepsQuiet ==
  ASSUME Calm, OneWriter, NEW c \in Clients, Step(c), CommitPut(c)
  PROVE  Quiet'
<1>. PICK f, e : f = File(c) /\ e = tempList[1]
  OBVIOUS
<1>1. /\ Domains /\ KnownOnce /\ ClientsInv /\ AllRun /\ ListedStored /\ ListsInv
      /\ ClientInv(c) /\ ClientQuiet(c)
  BY DEF Calm, DInv, ClientsInv, Quiet, NamesInv, IInv
<1>2. Own(c)
  BY StepsAreOwn
<1>3. /\ pc[c] = "putBlock" /\ pc[c] \in Writing /\ AtEnd(c) /\ pc'[c] = "idle"
      /\ UNCHANGED <<calls, disk, starting, running>>
  BY <1>1 DEF CommitPut, Return, Goto, Domains, Writing, dsVars, processes
<1>4. /\ at[c] = Len(list[c]) + 1 /\ Len(list[c]) \in Nat
      /\ Len(tempList) = 1 /\ e.fileName = f /\ Len(Sending) = Len(list[c])
      /\ e.storeList = Sending /\ Sending \in Seq(BlockStore)
      /\ tempList' = RemoveAt(tempList, 1) /\ UNCHANGED <<up, serverList>>
      /\ ToSet(fileList') = ToSet(fileList) \cup {e}
  BY CommitPublishes
<1>5. /\ \A k \in 1 .. Len(Sending) : OnDisk(f, Sending[k])
      /\ \A k \in 1 .. Len(list[c]) : /\ Sending[k].blockIdx = list[c][k].blockIdx
                                      /\ Sending[k].server = list[c][k].server
  BY <1>1, <1>3, <1>4 DEF ClientQuiet, PutInv, PutPhase
<1>6. NamesOf(tempList') = {}
  <2>1. NamesOf(tempList') = NamesOf(tempList) \ {f}
    BY <1>1, <1>4, NameRemoved, 1 \in 1 .. 1 DEF KnownOnce
  <2>. QED BY <1>3, <2>1, WriterHas
<1>7. ToSet(Sending) = {Sending[k] : k \in 1 .. Len(Sending)}
  BY <1>4, LenProperties DEF ToSet
<1>8. \A g, s : OnDisk(g, s)' = OnDisk(g, s)
  BY <1>3, Zenon DEF OnDisk
<1>9. ListedStored'
  <2>. SUFFICES ASSUME NEW x \in ToSet(fileList'), NEW s \in ToSet(x.storeList)
                PROVE  OnDisk(x.fileName, s)
    BY <1>8 DEF ListedStored
  <2>1. CASE x = e
    BY <1>4, <1>5, <1>7, <2>1
  <2>2. CASE x # e
    BY <1>1, <1>4, <2>2 DEF ListedStored
  <2>. QED BY <2>1, <2>2
<1>10. AllRun'
  BY <1>1, <1>3, <1>4 DEF AllRun
<1>11. OneCallEach' /\ \A call \in calls' : call.method # "putBlock"
  <2>1. OneCallEach'
    BY <1>2, <1>3, CallsAsTheyAre
  <2>. QED BY <1>3, <2>1, WriterHas, CallsAwaited
<1>12. ClientQuiet(c)'
  BY <1>3 DEF ClientQuiet, RemovalInv, PutInv, RmPhase, PutPhase
<1>13. ASSUME NEW s \in Servers, NEW b \in Files \X Nat, disk'[s][b] # Absent
       PROVE  ListedHas(s, b)'
  <2>1. CASE ListedHas(s, b)
    <3>1. PICK x \in ToSet(fileList) : \E st \in ToSet(x.storeList) : Names(s, b, x.fileName, st)
      BY <2>1 DEF ListedHas
    <3>. QED BY <1>4, <3>1 DEF ListedHas, Names
  <2>2. CASE HeldHas(c, s, b)
    <3>1. PICK k \in 1 .. Len(list[c]) : Names(s, b, f, list[c][k])
      BY <1>3, <1>4, <2>2 DEF HeldHas, Held, RmPhase
    <3>2. Names(s, b, e.fileName, Sending[k]) /\ Sending[k] \in ToSet(e.storeList)
      BY <1>4, <1>5, <1>7, <3>1 DEF Names
    <3>3. e \in ToSet(fileList')
      BY <1>4
    <3>. QED BY <3>2, <3>3 DEF ListedHas, Names
  <2>. QED BY <1>3, <1>13, <2>1, <2>2, WriterHas
<1>. QED BY <1>2, <1>3, <1>6, <1>9, <1>10, <1>11, <1>12, <1>13, WriterKeeps

\* Nothing fails and nothing is aborted.
LEMMA NothingFails ==
  ASSUME Calm, NEW c \in Clients
  PROVE  ~AbortRm(c) /\ ~AbortPut(c) /\ ~CallFails(c)
<1>1. pc[c] \notin {"abortRm", "abortPut"} /\ OneCallEach
  BY DEF Calm, Quiet, ClientQuiet
<1>2. CallFails(c) => pc[c] \in {"getWait", "putWait", "rmWait"} /\ \A call \in calls : call.caller # c
  BY Zenon DEF CallFails
<1>3. ~CallFails(c)
  BY <1>1, <1>2 DEF OneCallEach
<1>. QED BY <1>1, <1>3 DEF AbortRm, AbortPut

\* Until something crashes the state stays quiet.
LEMMA StaysQuiet ==
  ASSUME Calm, NamesInv', OneWriter, [Next]_dfsVars, ~Crashes
  PROVE  Quiet'
<1>1. ASSUME NEW c \in Clients, Step(c) PROVE Quiet'
  <2>1. \/ BeginRm(c) \/ RmBlock(c) \/ RmBlockDone(c) \/ CommitRm(c)
        \/ BeginPut(c) \/ PutBlock(c) \/ PutBlockDone(c) \/ CommitPut(c)
        \/ BeginGet(c) \/ GetBlock(c) \/ GetUnit(c) \/ GetBlockDone(c) \/ CommitGet(c)
    BY <1>1, NothingFails, Zenon DEF Step
  <2>2. CASE BeginRm(c) \/ RmBlock(c) \/ RmBlockDone(c) \/ CommitRm(c)
    BY <1>1, <2>2, BeginRmKeepsQuiet, RmBlockKeepsQuiet, RmBlockDoneKeepsQuiet,
       CommitRmKeepsQuiet
  <2>3. CASE BeginPut(c) \/ PutBlock(c) \/ PutBlockDone(c) \/ CommitPut(c)
    BY <1>1, <2>3, BeginPutKeepsQuiet, PutBlockKeepsQuiet, PutBlockDoneKeepsQuiet,
       CommitPutKeepsQuiet
  <2>4. CASE BeginGet(c) \/ GetBlock(c) \/ GetUnit(c) \/ GetBlockDone(c) \/ CommitGet(c)
    BY <1>1, <2>4, GetsKeepQuiet
  <2>. QED BY <2>1, <2>2, <2>3, <2>4
<1>2. ASSUME NEW call \in calls, Serve(call) PROVE Quiet'
  <2>1. call.caller # Orphan
    BY CallsAwaited, DFSAssumption DEF DFSAssumption
  <2>2. (PutWrites(call) \/ PutReports(call)) /\ UNCHANGED clVars
    BY <1>2, <2>1, Zenon DEF Serve
  <2>. QED BY <2>2, PutWritesKeepsQuiet, PutReportsKeepsQuiet
<1>3. ~Restarts
  <2>1. up /\ starting = {} /\ running = Servers
    BY DEF Calm, Quiet, AllRun
  <2>. QED BY <2>1 DEF Restarts, RegisterDataServer, Listen
<1>4. CASE UNCHANGED dfsVars
  <2>1. UNCHANGED <<up, serverList, fileList, tempList, starting, running, disk, calls>>
    BY <1>4 DEF dfsVars, vars, nsVars, dsVars, processes
  <2>2. UNCHANGED <<pc, op, list, at, local>>
    BY <1>4 DEF dfsVars, vars, clVars
  <2>3. \A f, s : OnDisk(f, s)' = OnDisk(f, s)
    BY <2>1, Zenon DEF OnDisk
  <2>4. AllRun' /\ ListedStored' /\ OneCallEach'
    BY <2>1, <2>2, <2>3 DEF Calm, Quiet, AllRun, ListedStored, OneCallEach, Awaited, File, Entry
  <2>5. OnTheWay'
    BY <2>1, <2>2 DEF Calm, Quiet, OnTheWay, File
  <2>6. DisksAccounted'
    BY <2>1, <2>2 DEF Calm, Quiet, DisksAccounted, Accounted, ListedHas, HeldHas, Held, Names, File
  <2>7. ASSUME NEW c \in Clients PROVE ClientQuiet(c)'
    <3>1. ClientQuiet(c) /\ File(c)' = File(c) /\ Sending' = Sending
          /\ \A e : Piece(c, e)' = Piece(c, e)
      BY <2>1, <2>2 DEF Calm, Quiet, File, Sending, Piece
    <3>. QED BY <2>1, <2>2, <2>3, <3>1 DEF ClientQuiet, RemovalInv, PutInv
  <2>8. ASSUME NEW call \in calls PROVE SendInv(call)'
    <3>1. SendInv(call) /\ Sending' = Sending
      BY <2>1 DEF Calm, Quiet, Sending
    <3>. QED BY <2>1, <2>2, <3>1 DEF SendInv, Piece, Entry, File
  <2>. QED BY <2>1, <2>4, <2>5, <2>6, <2>7, <2>8 DEF Quiet
<1>. QED BY <1>1, <1>2, <1>3, <1>4, StartsKeepQuiet DEF Next

\* The file system begins quiet, with a server to put blocks on.
LEMMA InitQuiet ==
  ASSUME Init, Servers # {}, BlockIndices = Nat
  PROVE  Quiet
<1>1. AllRun
  <2>. DEFINE N == Cardinality(Servers)
              e(k) == LET s == SetToSeq(Servers)[k] IN [address |-> s, hash |-> ServerHash(s)]
              ring == [k \in 1 .. N |-> e(k)]
  <2>1. N \in Nat /\ N # 0
    BY FS_CardinalityType, FS_EmptySet, DFSAssumption DEF DFSAssumption
  <2>2. serverList \in Sortings(ring)
    BY Zenon DEF Init
  <2>3. DOMAIN ring = 1 .. N
    OBVIOUS
  <2>. HIDE DEF N, ring
  <2>4. DOMAIN serverList = 1 .. N
    BY <2>2, <2>3 DEF Sortings
  <2>5. serverList # <<>>
    BY <2>1, <2>4
  <2>. QED BY <2>5 DEF Init, AllRun
<1>2. NamesOf(fileList) = {} /\ NamesOf(tempList) = {} /\ ToSet(fileList) = {}
  <2>1. fileList = <<>> /\ tempList = <<>>
    BY DEF Init
  <2>2. ToSet(<<>>) = {}
    <3>. PICK l : l = <<>>
      OBVIOUS
    <3>1. DOMAIN l = {}
      BY EmptySeq, LenProperties
    <3>. QED BY <3>1 DEF ToSet
  <2>. QED BY <2>1, <2>2, EmptyKnown
<1>3. calls = {} /\ \A c \in Clients : pc[c] = "idle"
  BY DEF Init
<1>4. \A s \in Servers : \A b \in Files \X Nat : disk[s][b] = Absent
  BY DEF Init
<1>5. \A c \in Clients : ClientQuiet(c)
  BY <1>3, RestIsQuiet DEF Busy, RmPhase, PutPhase
<1>. QED BY <1>1, <1>2, <1>3, <1>4, <1>5
         DEF Quiet, ListedStored, OneCallEach, OnTheWay, DisksAccounted

QuietInv == faults \in Nat /\ (NoFault => Quiet)

\* What the theorems about the contents of the disks rest on: the metadata, the
\* blocks and the operations agree until something crashes.
THEOREM QuietHolds ==
  OneWriter /\ Servers # {} /\ BlockIndices = Nat => (Spec => []QuietInv)
<1>. SUFFICES ASSUME OneWriter, Servers # {}, BlockIndices = Nat PROVE Spec => []QuietInv
  OBVIOUS
<1>1. Init => QuietInv
  BY InitQuiet DEF QuietInv, Init
<1>2. QuietInv /\ DInv /\ NamesInv /\ NamesInv' /\ [Next]_dfsVars => QuietInv'
  <2>. SUFFICES ASSUME QuietInv, DInv, NamesInv, NamesInv', [Next]_dfsVars PROVE QuietInv'
    OBVIOUS
  <2>1. CASE Crashes
    <3>1. faults' = faults + 1 /\ faults \in Nat
      BY <2>1 DEF Crashes, QuietInv
    <3>. QED BY <3>1 DEF QuietInv, NoFault
  <2>2. CASE ~Crashes
    <3>1. UNCHANGED faults
      BY <2>2 DEF Next, Begin, Step, Serve, UserEdits, Restarts, bounds, dfsVars
    <3>2. NoFault => Quiet'
      BY <2>2, StaysQuiet DEF QuietInv, Calm
    <3>. QED BY <3>1, <3>2 DEF QuietInv, NoFault
  <2>. QED BY <2>1, <2>2
<1>3. Spec => []DInv /\ []NamesInv
  BY TypesKept, NamesHold
<1>. QED BY <1>1, <1>2, <1>3, PTL DEF Spec

\* Until something crashes, a listed file is on the disks, every replica of every
\* block of it, with the content its digest was taken of.
THEOREM FilesStored ==
  OneWriter /\ Servers # {} /\ BlockIndices = Nat => (Spec => []CommittedIsStored)
<1>1. QuietInv => CommittedIsStored
  BY DEF QuietInv, CommittedIsStored, Quiet, ListedStored, OnDisk
<1>. QED BY <1>1, QuietHolds, PTL

\* Until something crashes, put and rm leave no block behind: when no operation
\* runs, every block on a disk belongs to a listed file that counts on it.
THEOREM NothingLeftBehind ==
  OneWriter /\ Servers # {} /\ BlockIndices = Nat
    => (Spec => [](NoFault => NoOrphanBlocks))
<1>1. QuietInv /\ DInv => (NoFault => NoOrphanBlocks)
  <2>. SUFFICES ASSUME Quiet, DInv, \A c \in Clients : pc[c] = "idle",
                       NEW s \in Servers, NEW b \in DOMAIN disk[s], disk[s][b] # Absent
                PROVE  \E e \in ToSet(fileList) : \E store \in ToSet(e.storeList) :
                         b = <<e.fileName, store.blockIdx>> /\ s = store.server.address
    BY DEF QuietInv, NoOrphanBlocks
  <2>1. b \in Files \X Nat
    BY DEF DInv, ServersInv
  <2>2. \A c \in Clients : Held(c) = {}
    BY RestIsQuiet DEF Busy, RmPhase, PutPhase
  <2>3. ListedHas(s, b)
    BY <2>1, <2>2 DEF Quiet, DisksAccounted, Accounted, HeldHas
  <2>. QED BY <2>3 DEF ListedHas, Names
<1>. QED BY <1>1, QuietHolds, TypesKept, PTL

\* So none ever is where nothing may crash.
THEOREM NoBlockLeft ==
  OneWriter /\ Servers # {} /\ BlockIndices = Nat /\ MaxFaults = 0
    => (Spec => []NoOrphanBlocks)
<1>. SUFFICES ASSUME OneWriter, Servers # {}, BlockIndices = Nat, MaxFaults = 0
              PROVE  Spec => []NoOrphanBlocks
  OBVIOUS
<1>1. Init => NoFault
  BY DEF Init, NoFault
<1>2. NoFault /\ [Next]_dfsVars => NoFault'
  <2>. SUFFICES ASSUME NoFault, [Next]_dfsVars PROVE NoFault'
    OBVIOUS
  <2>1. ~Crashes
    BY DEF Crashes, NoFault
  <2>. QED BY <2>1 DEF NoFault, Next, Begin, Step, Serve, UserEdits, Restarts, bounds, dfsVars
<1>. QED BY <1>1, <1>2, NothingLeftBehind, PTL DEF Spec

-----------------------------------------------------------------------------
(***************************************************************************)
(* The cache of the client that writes agrees with fileList, as long as    *)
(* nothing crashes, but for the file it is putting: of that it has the     *)
(* blocks sent, and the digests of those stored.                           *)
(***************************************************************************)
CacheStore == [blockIdx : Nat, blockHash : BlockHashes \cup {NoHash}]

Coherent(entry) ==
  \E e \in ToSet(fileList) :
    e.fileName = entry.fileName /\ Hashes(e.storeList) = Hashes(entry.storeList)

CachedPut(c) ==
  pc[c] \in PutPhase =>
    LET n == Len(cacheList[c])
        stores == cacheList[c][n].storeList
        m == IF pc[c] = "putBlock" THEN at[c] - 1 ELSE at[c]
    IN  /\ n # 0 /\ cacheList[c][n].fileName = File(c)
        /\ "storeList" \in DOMAIN cacheList[c][n]
        /\ stores \in Seq(CacheStore) /\ Len(stores) = m
        /\ \A k \in 1 .. m : stores[k].blockIdx = list[c][k].blockIdx
        /\ \A k \in 1 .. at[c] - 1 : stores[k].blockHash = Piece(c, list[c][k])

CacheSound(c) ==
  /\ NameList(cacheList[c])
  /\ \A e \in ToSet(cacheList[c]) :
       Coherent(e) \/ (pc[c] \in PutPhase /\ e.fileName = File(c))
  /\ CachedPut(c)

\* Neither the cache nor what it is about changes.
LEMMA CacheUntouched ==
  ASSUME NEW c, CacheSound(c), cacheList'[c] = cacheList[c], UNCHANGED fileList,
         \/ pc[c] \notin PutPhase /\ pc'[c] \notin PutPhase
         \/ /\ pc'[c] = pc[c] /\ list'[c] = list[c] /\ at'[c] = at[c]
            /\ local'[c] = local[c] /\ op'[c] = op[c]
  PROVE  CacheSound(c)'
<1>1. \A e : Coherent(e)' = Coherent(e)
  BY Zenon DEF Coherent
<1>2. CASE pc[c] \notin PutPhase /\ pc'[c] \notin PutPhase
  BY <1>1, <1>2 DEF CacheSound, CachedPut
<1>3. CASE /\ pc'[c] = pc[c] /\ list'[c] = list[c] /\ at'[c] = at[c]
           /\ local'[c] = local[c] /\ op'[c] = op[c]
  <2>1. File(c)' = File(c) /\ \A e : Piece(c, e)' = Piece(c, e)
    BY <1>3 DEF File, Piece
  <2>2. CachedPut(c)'
    BY <1>3, <2>1 DEF CacheSound, CachedPut
  <2>. QED BY <1>1, <1>3, <2>1, <2>2 DEF CacheSound
<1>. QED BY <1>2, <1>3

\* What is cached is listed but for the file of a put.
LEMMA CachedIsListed ==
  ASSUME NEW c, CacheSound(c), NEW e \in ToSet(cacheList[c]), e.fileName \notin NamesOf(fileList)
  PROVE  pc[c] \in PutPhase /\ e.fileName = File(c)
BY DEF CacheSound, Coherent, NamesOf

\* The entry an rm begins with goes from the cache and from fileList.
LEMMA BeginRmUncaches ==
  ASSUME Calm, NEW c \in Clients, DOMAIN cacheList = Clients, CacheSound(c), BeginRm(c)
  PROVE  CacheSound(c)'
<1>. PICK f, cache : f = File(c) /\ cache = cacheList[c]
  OBVIOUS
<1>. PICK i : i = Find(cache, f)
  OBVIOUS
<1>1. /\ Domains /\ up /\ KnownOnce /\ ListsInv
  BY DEF Calm, DInv, IInv, ClientsInv, Quiet, AllRun, NamesInv
<1>2. /\ pc[c] \notin PutPhase /\ pc'[c] \notin PutPhase
      /\ cacheList'[c] = IF i = 0 THEN cache ELSE RemoveAt(cache, i)
  <2>1. pc[c] = "beginRm" /\ pc'[c] = "rmBlock"
    BY <1>1 DEF BeginRm, RmGoesOn, Goto, Domains
  <2>2. cacheList' = [cacheList EXCEPT ![c] =
          IF FindCached(c, f) = 0 THEN @ ELSE RemoveAt(@, FindCached(c, f))]
    BY DEF BeginRm, RmGoesOn
  <2>3. FindCached(c, f) = i
    BY Zenon DEF FindCached, Find
  <2>. QED BY <2>1, <2>2, <2>3 DEF PutPhase
<1>3. NameList(cache) /\ \A e \in ToSet(cache) : Coherent(e)
  BY <1>2 DEF CacheSound
<1>4. /\ NameList(cacheList'[c]) /\ ToSet(cacheList'[c]) \subseteq ToSet(cache)
      /\ \A e \in ToSet(cacheList'[c]) : e.fileName # f
  <2>1. /\ i # 0 <=> f \in NamesOf(cache)
        /\ i # 0 => i \in 1 .. Len(cache) /\ cache[i].fileName = f
    BY <1>3, NameFound DEF NameList
  <2>2. CASE i = 0
    BY <1>2, <1>3, <2>1, <2>2 DEF NamesOf
  <2>3. CASE i # 0
    <3>1. /\ NameList(RemoveAt(cache, i)) /\ NamesOf(RemoveAt(cache, i)) = NamesOf(cache) \ {f}
      BY <1>3, <2>1, <2>3, NameRemoved
    <3>2. ToSet(RemoveAt(cache, i)) \subseteq ToSet(cache)
      BY <1>3, <2>1, <2>3, ListMembers DEF NameList
    <3>. QED BY <1>2, <2>3, <3>1, <3>2 DEF NamesOf
  <2>. QED BY <2>2, <2>3
<1>5. \A e \in ToSet(fileList) : e.fileName # f => e \in ToSet(fileList')
  <2>1. beginRmTransaction(f)
    BY <1>1, Zenon DEF BeginRm, RmGoesOn, NameService
  <2>2. CASE ~Listed(f)
    BY <2>1, <2>2, Zenon DEF beginRmTransaction
  <2>3. CASE Listed(f)
    <3>1. fileList' = RemoveAt(fileList, Find(fileList, f))
      BY <2>1, <2>3, Zenon DEF beginRmTransaction
    <3>. QED BY <1>1, <2>3, <3>1, Unlisted
  <2>. QED BY <2>2, <2>3
<1>6. \A e \in ToSet(cacheList'[c]) : Coherent(e)'
  BY <1>3, <1>4, <1>5 DEF Coherent
<1>. QED BY <1>2, <1>4, <1>6 DEF CacheSound, CachedPut

\* A put starts the entry of its file.
LEMMA BeginPutCaches ==
  ASSUME Calm, NEW c \in Clients, DOMAIN cacheList = Clients, CacheSound(c), BeginPut(c)
  PROVE  CacheSound(c)'
<1>. PICK f, cache : f = File(c) /\ cache = cacheList[c]
  OBVIOUS
<1>. PICK new : new = [fileName |-> f, storeList |-> <<>>]
  OBVIOUS
<1>1. /\ Domains /\ AllRun /\ ClientQuiet(c)
  BY DEF Calm, DInv, IInv, ClientsInv, Quiet, NamesInv
<1>2. /\ pc[c] = "beginPut" /\ pc'[c] = "putBlock" /\ at'[c] = 1 /\ File(c)' = f
      /\ cacheList'[c] = Append(cache, new)
  BY <1>1 DEF BeginPut, PutGoesOn, Goto, Walk, Domains, File
<1>3. UNCHANGED fileList
  <2>1. beginPutTransaction(f, Len(local[c][f]))
    BY <1>1, Zenon DEF BeginPut, PutGoesOn, NameService, AllRun
  <2>2. ~ReadsDeadServer(Len(local[c][f]))
    BY <1>1 DEF AllRun, ReadsDeadServer
  <2>. QED BY <2>1, <2>2, Zenon DEF beginPutTransaction, nsVars
<1>4. NameList(cache) /\ \A e \in ToSet(cache) : Coherent(e)
  BY <1>2 DEF CacheSound, PutPhase
<1>5. f \notin NamesOf(cache)
  <2>1. f \notin NamesOf(fileList)
    BY <1>1, <1>2 DEF ClientQuiet
  <2>. QED BY <1>4, <2>1 DEF Coherent, NamesOf
<1>6. "fileName" \in DOMAIN new /\ new.fileName = f /\ new.storeList = <<>>
  OBVIOUS
<1>7. NameList(Append(cache, new))
  BY <1>4, <1>5, <1>6, NameAdded
<1>8. /\ ToSet(Append(cache, new)) = ToSet(cache) \cup {new}
      /\ Len(Append(cache, new)) = Len(cache) + 1 /\ Len(cache) \in Nat
      /\ Append(cache, new)[Len(cache) + 1] = new
  <2>1. cache \in Seq(ToSet(cache) \cup {new})
    BY <1>4, SeqMonotonic DEF NameList
  <2>. QED BY <2>1, ListMembers, AppendProperties, LenProperties
<1>9. \A e \in ToSet(cache) : Coherent(e)'
  BY <1>3, <1>4 DEF Coherent
<1>10. CachedPut(c)'
  <2>1. <<>> \in Seq(CacheStore) /\ Len(<<>>) = 0
    BY EmptySeq
  <2>. QED BY <1>2, <1>6, <1>8, <2>1 DEF CachedPut
<1>. QED BY <1>2, <1>6, <1>7, <1>8, <1>9, <1>10 DEF CacheSound, PutPhase

\* While a put runs, the last entry is of its file, and only that one changes.
LEMMA CacheWritten ==
  ASSUME NEW c, CacheSound(c), pc[c] \in PutPhase, File(c) \notin NamesOf(fileList),
         NEW stores, cacheList'[c] = [cacheList[c] EXCEPT ![Len(cacheList[c])].storeList = stores],
         UNCHANGED fileList, pc'[c] \in PutPhase, File(c)' = File(c)
  PROVE  /\ NameList(cacheList'[c])
         /\ \A e \in ToSet(cacheList'[c]) : Coherent(e)' \/ e.fileName = File(c)
         /\ Len(cacheList'[c]) # 0
         /\ cacheList'[c][Len(cacheList'[c])].fileName = File(c)
         /\ "storeList" \in DOMAIN cacheList'[c][Len(cacheList'[c])]
         /\ cacheList'[c][Len(cacheList'[c])].storeList = stores
<1>. PICK f, old, new, n : f = File(c) /\ old = cacheList[c] /\ new = cacheList'[c] /\ n = Len(old)
  OBVIOUS
<1>1. /\ NameList(old) /\ n # 0 /\ old[n].fileName = f /\ "storeList" \in DOMAIN old[n]
      /\ \A e \in ToSet(old) : Coherent(e) \/ e.fileName = f
  BY DEF CacheSound, CachedPut
<1>2. n \in Nat /\ n \in 1 .. Len(old) /\ \A e : e \in ToSet(old) <=> \E k \in 1 .. n : e = old[k]
  <2>1. old \in Seq(ToSet(old))
    BY <1>1 DEF NameList
  <2>2. Len(old) \in Nat /\ \A e : e \in ToSet(old) <=> \E k \in 1 .. Len(old) : e = old[k]
    BY ONLY <2>1, NameListElements
  <2>. QED BY <1>1, <2>2
<1>. PICK x : x = [old[n] EXCEPT !.storeList = stores]
  OBVIOUS
<1>3. "fileName" \in DOMAIN x /\ "storeList" \in DOMAIN x /\ x.fileName = f /\ x.storeList = stores
  <2>1. "fileName" \in DOMAIN old[n]
    BY <1>1, <1>2 DEF NameList
  <2>. QED BY <1>1, <2>1
<1>4. new = [old EXCEPT ![n] = x]
  OBVIOUS
<1>5. NameList(new)
  <2>1. new = [old EXCEPT ![n].storeList = stores]
    OBVIOUS
  <2>. QED BY <1>1, <1>2, <2>1, NameKept
<1>6. Len(new) = n /\ \A k \in 1 .. n : new[k] = IF k = n THEN x ELSE old[k]
  <2>1. old \in Seq(ToSet(old) \cup {x}) /\ x \in ToSet(old) \cup {x}
    BY <1>1, SeqMonotonic DEF NameList
  <2>. QED BY <1>2, <1>4, <2>1, ExceptSeq
<1>7. \A e \in ToSet(new) : \E k \in 1 .. n : e = new[k]
  <2>1. new \in Seq(ToSet(new))
    BY <1>5 DEF NameList
  <2>2. \A e : e \in ToSet(new) <=> \E k \in 1 .. Len(new) : e = new[k]
    BY ONLY <2>1, NameListElements
  <2>. QED BY <1>6, <2>2
<1>8. ASSUME NEW e \in ToSet(new) PROVE Coherent(e)' \/ e.fileName = f
  <2>1. e = x \/ e \in ToSet(old)
    BY <1>2, <1>6, <1>7
  <2>2. Coherent(e) => Coherent(e)'
    BY DEF Coherent
  <2>. QED BY <1>1, <1>3, <2>1, <2>2
<1>. QED BY <1>2, <1>3, <1>5, <1>6, <1>8

\* Each entry is cached before its block is sent.
LEMMA PutBlockCaches ==
  ASSUME Calm, NEW c \in Clients, DOMAIN cacheList = Clients, CacheSound(c), PutBlock(c)
  PROVE  CacheSound(c)'
<1>. PICK n, i : n = Len(cacheList[c]) /\ i = Entry(c).blockIdx
  OBVIOUS
<1>. PICK stores, x : /\ stores = cacheList[c][n].storeList
                      /\ x = [blockIdx |-> i, blockHash |-> NoHash]
  OBVIOUS
<1>. PICK next : next = Append(stores, x)
  OBVIOUS
<1>1. /\ Domains /\ AllRun /\ ClientQuiet(c) /\ ClientInv(c)
  BY DEF Calm, DInv, ClientsInv, Quiet
<1>2. /\ pc[c] = "putBlock" /\ ~AtEnd(c) /\ UNCHANGED <<nsVars, op, list, at, local>>
      /\ CacheEntry(c, Entry(c))
  BY DEF PutBlock
<1>3. pc'[c] = "putWait"
  <2>1. pc'[c] \in {"putWait", "abortPut"}
    BY <1>1 DEF PutBlock, Goto, Domains
  <2>2. Entry(c).server.address \in running
    <3>1. /\ at[c] \in 1 .. Len(list[c])
      BY <1>1, <1>2, EntriesAreStores DEF ClientInv, AtEnd
    <3>2. list[c][at[c]].server.address \in Servers
      BY <1>1, <1>2, <3>1 DEF ClientQuiet, PutInv, PutPhase
    <3>. QED BY <1>1, <3>2 DEF AllRun, Entry
  <2>3. Goto(c, "putWait")
    BY <2>2, Zenon DEF PutBlock
  <2>. QED BY <1>1, <2>3 DEF Goto, Domains
<1>4. /\ at[c] \in 1 .. Len(list[c]) /\ i \in Nat
  BY <1>1, <1>2, EntriesAreStores DEF ClientInv, AtEnd, Entry
<1>5. /\ stores \in Seq(CacheStore) /\ Len(stores) = at[c] - 1
      /\ \A k \in 1 .. at[c] - 1 : stores[k].blockIdx = list[c][k].blockIdx
      /\ \A k \in 1 .. at[c] - 1 : stores[k].blockHash = Piece(c, list[c][k])
  BY <1>2 DEF CacheSound, CachedPut, PutPhase
<1>6. x \in CacheStore /\ x.blockIdx = i
  BY <1>4 DEF CacheStore
<1>7. /\ next \in Seq(CacheStore) /\ Len(next) = at[c]
      /\ \A k \in 1 .. at[c] - 1 : next[k] = stores[k]
      /\ next[at[c]] = x
  BY <1>4, <1>5, <1>6, AppendProperties
<1>8. cacheList'[c] = [cacheList[c] EXCEPT ![n].storeList = next]
  <2>1. cacheList' = [cacheList EXCEPT ![c] = [cacheList[c] EXCEPT ![n].storeList = next]]
    BY <1>2 DEF CacheEntry
  <2>. QED BY <2>1
<1>9. /\ UNCHANGED fileList /\ pc[c] \in PutPhase /\ pc'[c] \in PutPhase /\ File(c)' = File(c)
      /\ File(c) \notin NamesOf(fileList) /\ \A e : Piece(c, e)' = Piece(c, e)
  BY <1>1, <1>2, <1>3 DEF nsVars, PutPhase, File, ClientQuiet, Piece
<1>15. cacheList'[c] = [cacheList[c] EXCEPT ![Len(cacheList[c])].storeList = next]
  BY <1>8
<1>10. /\ NameList(cacheList'[c])
       /\ \A e \in ToSet(cacheList'[c]) : Coherent(e)' \/ e.fileName = File(c)
       /\ Len(cacheList'[c]) # 0
       /\ cacheList'[c][Len(cacheList'[c])].fileName = File(c)
       /\ "storeList" \in DOMAIN cacheList'[c][Len(cacheList'[c])]
       /\ cacheList'[c][Len(cacheList'[c])].storeList = next
  BY ONLY CacheSound(c), <1>15, <1>9, CacheWritten
<1>11. /\ \A k \in 1 .. at[c] : next[k].blockIdx = list[c][k].blockIdx
       /\ \A k \in 1 .. at[c] - 1 : next[k].blockHash = Piece(c, list[c][k])
  BY <1>4, <1>5, <1>6, <1>7 DEF Entry
<1>12. CachedPut(c)'
  BY <1>2, <1>3, <1>7, <1>9, <1>10, <1>11 DEF CachedPut
<1>. QED BY <1>9, <1>10, <1>12 DEF CacheSound

\* Their digest is set when the block is stored.
LEMMA PutBlockDoneCaches ==
  ASSUME Calm, OneWriter, NEW c \in Clients, DOMAIN cacheList = Clients, CacheSound(c),
         PutBlockDone(c)
  PROVE  CacheSound(c)'
<1>. PICK f, n : f = File(c) /\ n = Len(cacheList[c])
  OBVIOUS
<1>1. PICK call \in calls :
        /\ call.caller = c /\ PutCloses(call)
        /\ cacheList' = [cacheList EXCEPT ![c][FindCached(c, f)].storeList =
                           Digested(@, call.blockIdx, call.data)]
  BY DEF PutBlockDone
<1>. PICK i, data, stores : /\ i = call.blockIdx /\ data = call.data
                            /\ stores = cacheList[c][n].storeList
  OBVIOUS
<1>. PICK next : next = Digested(stores, i, data)
  OBVIOUS
<1>2. Domains
  BY DEF Calm, DInv, ClientsInv
<1>3. call.method = "putBlock" /\ UNCHANGED fileList
  BY <1>1 DEF PutCloses, nsVars
<1>4. /\ UNCHANGED <<op, list, local>> /\ at'[c] = at[c] + 1 /\ pc'[c] = "putBlock"
  BY <1>2 DEF PutBlockDone, Advance, Goto, Domains
<1>5. /\ pc[c] = "putWait" /\ f \notin NamesOf(fileList) /\ i = Entry(c).blockIdx
      /\ at[c] \in 1 .. Len(list[c]) /\ Len(list[c]) \in Nat /\ WellFormed(list[c])
      /\ data \in Pieces /\ data # <<>> /\ data = Piece(c, Entry(c))
  <2>1. SendInv(call)
    BY <1>1, <1>3, RunningPut
  <2>2. data = Piece(c, Entry(c))
    BY <1>1, <1>3, <2>1 DEF SendInv
  <2>. QED BY <1>1, <1>3, <2>2, RunningPut
<1>6. /\ NameList(cacheList[c]) /\ n # 0 /\ cacheList[c][n].fileName = f
      /\ stores \in Seq(CacheStore) /\ Len(stores) = at[c]
      /\ \A k \in 1 .. at[c] : stores[k].blockIdx = list[c][k].blockIdx
      /\ \A k \in 1 .. at[c] - 1 : stores[k].blockHash = Piece(c, list[c][k])
  BY <1>5 DEF CacheSound, CachedPut, PutPhase
<1>7. FindCached(c, f) = n
  <2>1. FindCached(c, f) = Find(cacheList[c], f)
    BY Zenon DEF FindCached, Find
  <2>2. n \in 1 .. n /\ f \in NamesOf(cacheList[c])
    BY <1>6, NameListElements DEF NameList
  <2>3. Find(cacheList[c], f) \in 1 .. n /\ cacheList[c][Find(cacheList[c], f)].fileName = f
    BY <1>6, <2>2, NameFound DEF NameList
  <2>. QED BY <1>6, <2>1, <2>2, <2>3 DEF NameList
<1>8. cacheList'[c] = [cacheList[c] EXCEPT ![n].storeList = next]
  <2>1. cacheList' = [cacheList EXCEPT ![c] = [cacheList[c] EXCEPT ![n].storeList = next]]
    BY <1>1, <1>7
  <2>. QED BY <2>1
<1>9. data \in BlockHashes
  BY <1>5, DFSAssumption, PiecesHaveDigests
<1>10. /\ next \in Seq(CacheStore) /\ Len(next) = at[c]
       /\ \A k \in 1 .. at[c] : /\ next[k].blockIdx = list[c][k].blockIdx
                                /\ next[k].blockHash = IF list[c][k].blockIdx = i THEN data
                                                       ELSE stores[k].blockHash
  <2>. DEFINE e(k) == IF stores[k].blockIdx = i THEN [stores[k] EXCEPT !.blockHash = data]
                      ELSE stores[k]
  <2>1. at[c] \in Nat /\ DOMAIN stores = 1 .. at[c] /\ \A k \in 1 .. at[c] : stores[k] \in CacheStore
    BY <1>5, <1>6, ElementOfSeq, LenProperties
  <2>2. next = [k \in 1 .. at[c] |-> e(k)]
    BY <2>1, Zenon DEF Digested
  <2>3. \A k \in 1 .. at[c] :
          /\ e(k) \in CacheStore /\ e(k).blockIdx = list[c][k].blockIdx
          /\ e(k).blockHash = IF list[c][k].blockIdx = i THEN data ELSE stores[k].blockHash
    BY <1>6, <1>9, <2>1 DEF CacheStore
  <2>. HIDE DEF e
  <2>4. next \in Seq(CacheStore)
    BY <2>1, <2>2, <2>3, IsASeq
  <2>5. Len(next) = at[c]
    BY <2>1, <2>2, <2>4, LenProperties
  <2>. QED BY <2>2, <2>3, <2>4, <2>5
<1>11. /\ pc[c] \in PutPhase /\ pc'[c] \in PutPhase /\ File(c)' = File(c)
       /\ \A e : Piece(c, e)' = Piece(c, e)
  BY <1>4, <1>5 DEF PutPhase, File, Piece
<1>15. cacheList'[c] = [cacheList[c] EXCEPT ![Len(cacheList[c])].storeList = next]
  BY <1>8
<1>16. File(c) \notin NamesOf(fileList)
  BY <1>5
<1>12. /\ NameList(cacheList'[c])
       /\ \A e \in ToSet(cacheList'[c]) : Coherent(e)' \/ e.fileName = File(c)
       /\ Len(cacheList'[c]) # 0
       /\ cacheList'[c][Len(cacheList'[c])].fileName = File(c)
       /\ "storeList" \in DOMAIN cacheList'[c][Len(cacheList'[c])]
       /\ cacheList'[c][Len(cacheList'[c])].storeList = next
  BY ONLY CacheSound(c), <1>3, <1>15, <1>16, <1>11, CacheWritten
<1>13. \A k \in 1 .. at[c] : next[k].blockHash = Piece(c, list[c][k])
  <2>. SUFFICES ASSUME NEW k \in 1 .. at[c] PROVE next[k].blockHash = Piece(c, list[c][k])
    OBVIOUS
  <2>1. CASE list[c][k].blockIdx = i
    <3>1. k \in 1 .. Len(list[c])
      BY <1>5
    <3>2. list[c][k].blockIdx = Entry(c).blockIdx /\ list[c][k].blockSize = Entry(c).blockSize
      BY <1>5, <2>1, <3>1 DEF WellFormed, ReplicasAgree, Entry
    <3>3. Piece(c, list[c][k]) = data
      BY <1>5, <3>2 DEF Piece
    <3>. QED BY <1>10, <2>1, <3>3
  <2>2. CASE list[c][k].blockIdx # i
    <3>1. k \in 1 .. at[c] - 1
      BY <1>5, <2>2 DEF Entry
    <3>. QED BY <1>6, <1>10, <2>2, <3>1
  <2>. QED BY <2>1, <2>2
<1>14. CachedPut(c)'
  <2>1. at'[c] - 1 = at[c] /\ list' = list /\ pc'[c] = "putBlock"
    BY <1>4, <1>5
  <2>2. /\ Len(next) = at'[c] - 1
        /\ \A k \in 1 .. at'[c] - 1 : next[k].blockIdx = list'[c][k].blockIdx
    BY <1>10, <2>1
  <2>3. \A k \in 1 .. at'[c] - 1 : next[k].blockHash = (Piece(c, list[c][k]))'
    <3>1. \A k : list[c][k]' = list[c][k]
      BY <2>1
    <3>2. \A k : (Piece(c, list[c][k]))' = Piece(c, list[c][k])
      BY <1>4, <1>11 DEF Piece, File
    <3>. QED BY <1>13, <2>1, <3>2
  <2>. QED BY <1>10, <1>11, <1>12, <2>1, <2>2, <2>3 DEF CachedPut
<1>. QED BY <1>11, <1>12, <1>14 DEF CacheSound

\* The file a put commits is listed as it is cached.
LEMMA CommitPutCaches ==
  ASSUME Calm, NEW c \in Clients, CacheSound(c), CommitPut(c)
  PROVE  CacheSound(c)'
<1>. PICK f, e, n : f = File(c) /\ e = tempList[1] /\ n = Len(cacheList[c])
  OBVIOUS
<1>. PICK stores : stores = cacheList[c][n].storeList
  OBVIOUS
<1>1. /\ Domains /\ ClientQuiet(c)
  BY DEF Calm, DInv, ClientsInv, Quiet
<1>2. /\ pc[c] = "putBlock" /\ pc'[c] = "idle" /\ UNCHANGED cacheList
  BY <1>1 DEF CommitPut, Return, Goto, Domains
<1>3. /\ at[c] = Len(list[c]) + 1 /\ Len(list[c]) \in Nat /\ Len(Sending) = Len(list[c])
      /\ e.fileName = f /\ e.storeList = Sending /\ Sending \in Seq(BlockStore)
      /\ ToSet(fileList') = ToSet(fileList) \cup {e}
  BY CommitPublishes
<1>4. /\ NameList(cacheList[c]) /\ n # 0 /\ cacheList[c][n].fileName = f
      /\ stores \in Seq(CacheStore) /\ Len(stores) = Len(list[c])
      /\ \A k \in 1 .. Len(list[c]) : stores[k].blockHash = Piece(c, list[c][k])
  BY <1>2, <1>3 DEF CacheSound, CachedPut, PutPhase
<1>5. \A k \in 1 .. Len(list[c]) : Sending[k].blockHash = Piece(c, list[c][k])
  BY <1>1, <1>2, <1>3 DEF ClientQuiet, PutInv, PutPhase
<1>6. Hashes(e.storeList) = Hashes(stores)
  <2>1. DOMAIN Sending = 1 .. Len(list[c]) /\ DOMAIN stores = 1 .. Len(list[c])
    BY <1>3, <1>4, LenProperties
  <2>2. \A k \in 1 .. Len(list[c]) : Sending[k].blockHash = stores[k].blockHash
    BY <1>4, <1>5
  <2>3. Hashes(Sending) = Hashes(stores)
    BY <2>1, <2>2 DEF Hashes
  <2>. QED BY <1>3, <2>3
<1>7. ASSUME NEW x \in ToSet(cacheList[c]) PROVE Coherent(x)'
  <2>1. CASE Coherent(x)
    BY <1>3, <2>1 DEF Coherent
  <2>2. CASE x.fileName = f
    <3>1. PICK k \in 1 .. n : x = cacheList[c][k]
      BY <1>4, NameListElements DEF NameList
    <3>2. n \in 1 .. n
      BY <1>4, NameListElements DEF NameList
    <3>3. k = n
      BY <1>4, <2>2, <3>1, <3>2 DEF NameList
    <3>. QED BY <1>3, <1>6, <2>2, <3>1, <3>3 DEF Coherent
  <2>. QED BY <2>1, <2>2 DEF CacheSound
<1>. QED BY <1>2, <1>4, <1>7 DEF CacheSound, CachedPut, PutPhase

\* A process that ended has cached nothing.
LEMMA EmptyCache ==
  ASSUME NEW c, cacheList'[c] = <<>>, pc'[c] \notin PutPhase
  PROVE  CacheSound(c)'
<1>1. NameList(<<>>) /\ NamesOf(<<>>) = {}
  BY EmptyKnown
<1>2. ToSet(cacheList'[c]) = {}
  BY <1>1 DEF NamesOf
<1>. QED BY <1>1, <1>2 DEF CacheSound, CachedPut

\* The steps of a client that leave fileList and its cache alone, or end its
\* process.
LEMMA OtherStepsKeepCache ==
  ASSUME Calm, NEW c \in Clients, DOMAIN cacheList = Clients, CacheSound(c),
         \/ Begin(c) \/ RmBlock(c) \/ RmBlockDone(c) \/ CommitRm(c)
         \/ BeginGet(c) \/ GetBlock(c) \/ GetUnit(c) \/ GetBlockDone(c) \/ CommitGet(c)
  PROVE  CacheSound(c)'
<1>1. Domains /\ up
  BY DEF Calm, DInv, ClientsInv, Quiet, AllRun
<1>2. CASE Begin(c)
  BY <1>1, <1>2, CacheUntouched
     DEF Begin, StartPut, StartRm, StartGet, Start, Goto, Domains, PutPhase, nsVars
<1>3. CASE RmBlock(c)
  BY <1>1, <1>3, CacheUntouched DEF RmBlock, Goto, Domains, PutPhase, nsVars
<1>4. CASE RmBlockDone(c)
  <2>1. /\ pc[c] = "rmWait" /\ UNCHANGED <<nsVars, cacheList>>
        /\ Goto(c, "rmBlock") \/ Goto(c, "abortRm")
    BY <1>4, Zenon DEF RmBlockDone, RmRemoves
  <2>. QED BY <1>1, <2>1, CacheUntouched DEF Goto, Domains, PutPhase, nsVars
<1>5. CASE CommitRm(c)
  <2>1. pc[c] = "rmBlock" /\ EndRm(c, "OK", Absent) /\ UNCHANGED cacheList
    BY <1>5, Zenon DEF CommitRm
  <2>2. Goto(c, "idle") \/ Goto(c, "beginPut")
    BY <2>1, Zenon DEF EndRm, Return
  <2>3. UNCHANGED fileList
    <3>1. commitRmTransaction(File(c))
      BY <1>1, <1>5, Zenon DEF CommitRm, NameService
    <3>. QED BY <3>1, Zenon DEF commitRmTransaction, Drop, Refuse
  <2>. QED BY <1>1, <2>1, <2>2, <2>3, CacheUntouched DEF Goto, Domains, PutPhase
<1>6. CASE BeginGet(c)
  <2>1. CASE Die(c)
    <3>1. pc'[c] = "idle" /\ cacheList'[c] = <<>>
      BY <1>1, <2>1 DEF Die, Return, Goto, Domains
    <3>. QED BY <3>1, EmptyCache DEF PutPhase
  <2>2. CASE ~Die(c)
    <3>1. /\ pc[c] = "beginGet" /\ UNCHANGED <<nsVars, cacheList>>
          /\ Goto(c, "idle") \/ Goto(c, "getBlock")
      BY <1>6, <2>2, Zenon DEF BeginGet, GetGoesOn, Return
    <3>. QED BY <1>1, <3>1, CacheUntouched DEF Goto, Domains, PutPhase, nsVars
  <2>. QED BY <2>1, <2>2
<1>7. CASE GetBlock(c) \/ GetUnit(c) \/ GetBlockDone(c) \/ CommitGet(c)
  <2>1. /\ pc[c] \in {"getBlock", "getWait"} /\ UNCHANGED <<nsVars, cacheList>>
        /\ UNCHANGED pc \/ Goto(c, "idle") \/ Goto(c, "getBlock") \/ Goto(c, "getWait")
    BY <1>7, Zenon DEF GetBlock, GetUnit, GetBlockDone, CommitGet, Return
  <2>. QED BY <1>1, <2>1, CacheUntouched DEF Goto, Domains, PutPhase, nsVars
<1>. QED BY <1>2, <1>3, <1>4, <1>5, <1>6, <1>7

CachesSound == DOMAIN cacheList = Clients /\ \A c \in Users : CacheSound(c)

\* A step of a client changes no other client's cache.
LEMMA OwnCache ==
  ASSUME NEW c \in Clients, DOMAIN cacheList = Clients, Begin(c) \/ Step(c)
  PROVE  /\ DOMAIN cacheList' = Clients
         /\ \A d \in Clients : d # c => cacheList'[d] = cacheList[d]
<1>1. ASSUME NEW i, NEW x, cacheList' = [cacheList EXCEPT ![c][i].storeList = x]
      PROVE  cacheList' = [cacheList EXCEPT ![c] = [cacheList[c] EXCEPT ![i].storeList = x]]
  BY <1>1
<1>2. CASE Begin(c)
  BY <1>2 DEF Begin, StartPut, StartRm, StartGet
<1>3. CASE BeginRm(c) \/ BeginPut(c)
  BY <1>3 DEF BeginRm, RmGoesOn, BeginPut, PutGoesOn
<1>4. CASE PutBlock(c)
  <2>1. \E x : cacheList' = [cacheList EXCEPT ![c] = x]
    BY <1>1, <1>4 DEF PutBlock, CacheEntry
  <2>. QED BY <2>1
<1>5. CASE PutBlockDone(c)
  <2>1. \E x : cacheList' = [cacheList EXCEPT ![c] = x]
    BY <1>1, <1>5 DEF PutBlockDone
  <2>. QED BY <2>1
<1>6. CASE \/ RmBlock(c) \/ RmBlockDone(c) \/ AbortRm(c) \/ CommitRm(c) \/ AbortPut(c) \/ CommitPut(c)
           \/ GetBlock(c) \/ GetUnit(c) \/ GetBlockDone(c) \/ CommitGet(c) \/ CallFails(c)
  <2>1. UNCHANGED cacheList
    BY <1>6, Zenon DEF RmBlock, RmBlockDone, AbortRm, CommitRm, AbortPut, CommitPut,
                       GetBlock, GetUnit, GetBlockDone, CommitGet, CallFails
  <2>. QED BY <2>1
<1>7. CASE BeginGet(c)
  <2>1. UNCHANGED cacheList \/ cacheList' = [cacheList EXCEPT ![c] = <<>>]
    BY <1>7, Zenon DEF BeginGet, GetGoesOn, Die
  <2>. QED BY <2>1
<1>. QED BY <1>2, <1>3, <1>4, <1>5, <1>6, <1>7, Zenon DEF Step

\* A client that does not write leaves fileList alone.
LEMMA ReadersLeaveFiles ==
  ASSUME Calm, NEW c \in Clients, c \notin Users, Begin(c) \/ Step(c)
  PROVE  UNCHANGED fileList
<1>1. pc[c] \notin Writing
  BY DEF Calm, NamesInv, Controls
<1>2. CASE Begin(c)
  BY <1>2 DEF Begin, StartPut, StartRm, StartGet, nsVars
<1>3. CASE Step(c)
  <2>1. BeginGet(c) \/ GetBlock(c) \/ GetUnit(c) \/ GetBlockDone(c) \/ CommitGet(c) \/ CallFails(c)
    BY <1>1, <1>3, Zenon
       DEF Step, Writing, BeginRm, RmGoesOn, RmBlock, RmBlockDone, AbortRm, CommitRm,
           BeginPut, PutGoesOn, PutBlock, PutBlockDone, AbortPut, CommitPut
  <2>2. UNCHANGED nsVars
    BY <2>1, Zenon DEF BeginGet, GetGoesOn, GetBlock, GetUnit, GetBlockDone, CommitGet, CallFails
  <2>. QED BY <2>2 DEF nsVars
<1>. QED BY <1>2, <1>3

\* Until something crashes the cache stays as it should be.
LEMMA CachesStaySound ==
  ASSUME Calm, OneWriter, CachesSound, [Next]_dfsVars, ~Crashes
  PROVE  CachesSound'
<1>1. Users \subseteq Clients /\ ClientsInv /\ Domains
  BY DFSAssumption DEF DFSAssumption, Calm, DInv, ClientsInv
<1>2. ASSUME NEW c \in Clients, Begin(c) \/ Step(c) PROVE CachesSound'
  <2>1. /\ DOMAIN cacheList' = Clients
        /\ \A d \in Clients : d # c => cacheList'[d] = cacheList[d]
    BY <1>2, OwnCache DEF CachesSound
  <2>2. CASE c \in Users
    <3>1. CacheSound(c) /\ DOMAIN cacheList = Clients /\ \A d \in Users : d = c
      BY <2>2 DEF CachesSound, OneWriter
    <3>2. \/ Begin(c) \/ RmBlock(c) \/ RmBlockDone(c) \/ CommitRm(c)
          \/ BeginGet(c) \/ GetBlock(c) \/ GetUnit(c) \/ GetBlockDone(c) \/ CommitGet(c)
          \/ BeginRm(c) \/ BeginPut(c) \/ PutBlock(c) \/ PutBlockDone(c) \/ CommitPut(c)
      BY <1>2, NothingFails, Zenon DEF Step
    <3>3. CacheSound(c)'
      BY <3>1, <3>2, OtherStepsKeepCache, BeginRmUncaches, BeginPutCaches, PutBlockCaches,
         PutBlockDoneCaches, CommitPutCaches
    <3>. QED BY <2>1, <3>1, <3>3 DEF CachesSound
  <2>3. CASE c \notin Users
    <3>1. UNCHANGED fileList
      BY <1>2, <2>3, ReadersLeaveFiles
    <3>2. ASSUME NEW u \in Users PROVE CacheSound(u)'
      <4>1. u # c /\ u \in Clients /\ CacheSound(u) /\ cacheList'[u] = cacheList[u]
        BY <1>1, <2>1, <2>3 DEF CachesSound
      <4>2. /\ pc'[u] = pc[u] /\ list'[u] = list[u] /\ at'[u] = at[u]
            /\ local'[u] = local[u] /\ op'[u] = op[u]
        BY <1>1, <1>2, <4>1, StepsAreOwn, OthersSame
      <4>. QED BY <3>1, <4>1, <4>2, CacheUntouched
    <3>. QED BY <2>1, <3>2 DEF CachesSound
  <2>. QED BY <2>2, <2>3
<1>3. CASE UNCHANGED <<fileList, clVars>>
  <2>1. UNCHANGED <<fileList, pc, op, list, at, local, cacheList>>
    BY <1>3 DEF clVars
  <2>. QED BY <2>1, CacheUntouched DEF CachesSound
<1>4. CASE UserEdits
  <2>1. PICK c \in Users, f \in Files, content \in Contents : Edit(c, f, content)
    BY <1>4 DEF UserEdits
  <2>2. /\ UNCHANGED <<fileList, pc, cacheList>> /\ pc[c] \notin PutPhase
        /\ \A d \in Users : d = c
    BY <2>1 DEF Edit, nsVars, PutPhase, OneWriter
  <2>. QED BY <2>2, CacheUntouched DEF CachesSound
<1>5. ASSUME NEW call \in calls, Serve(call) PROVE UNCHANGED <<fileList, clVars>>
  <2>1. UNCHANGED clVars
    BY <1>5 DEF Serve
  <2>2. CASE PutReports(call)
    <3>1. NameService(updateBlockInfo(call.file, call.blockIdx, Len(call.data), call.data))
      BY <2>2, Zenon DEF PutReports
    <3>2. UNCHANGED fileList
      BY <3>1, Zenon DEF NameService, updateBlockInfo, nsVars
    <3>. QED BY <2>1, <3>2
  <2>3. CASE PutWrites(call) \/ PutCloses(call) \/ RmRemoves(call)
    BY <2>1, <2>3 DEF PutWrites, PutCloses, RmRemoves, nsVars
  <2>. QED BY <1>5, <2>2, <2>3, Zenon DEF Serve
<1>6. ~Restarts
  <2>1. up /\ starting = {} /\ running = Servers
    BY DEF Calm, Quiet, AllRun
  <2>. QED BY <2>1 DEF Restarts, RegisterDataServer, Listen
<1>7. UNCHANGED dfsVars => UNCHANGED <<fileList, clVars>>
  BY DEF dfsVars, vars, nsVars
<1>. QED BY <1>2, <1>3, <1>4, <1>5, <1>6, <1>7 DEF Next

CacheInv == faults \in Nat /\ (NoFault => CachesSound)

\* Until something crashes, whatever else clients do, every entry a lone user has
\* cached names a listed file and has its digests.
THEOREM CacheAgrees ==
  OneWriter /\ Servers # {} /\ BlockIndices = Nat => (Spec => []CacheIsListed)
<1>. SUFFICES ASSUME OneWriter, Servers # {}, BlockIndices = Nat PROVE Spec => []CacheIsListed
  OBVIOUS
<1>1. Init => CacheInv
  <2>. SUFFICES ASSUME Init PROVE CacheInv
    OBVIOUS
  <2>1. faults = 0 /\ \A c \in Clients : cacheList[c] = <<>> /\ pc[c] = "idle"
    BY DEF Init
  <2>2. DOMAIN cacheList = Clients
    BY DEF Init
  <2>3. NameList(<<>>) /\ NamesOf(<<>>) = {}
    BY EmptyKnown
  <2>4. \A c \in Clients : CacheSound(c)
    BY <2>1, <2>3 DEF CacheSound, CachedPut, NamesOf, PutPhase
  <2>5. Users \subseteq Clients
    BY DFSAssumption DEF DFSAssumption
  <2>. QED BY <2>1, <2>2, <2>4, <2>5 DEF CacheInv, CachesSound
<1>2. CacheInv /\ QuietInv /\ DInv /\ NamesInv /\ [Next]_dfsVars => CacheInv'
  <2>. SUFFICES ASSUME CacheInv, QuietInv, DInv, NamesInv, [Next]_dfsVars PROVE CacheInv'
    OBVIOUS
  <2>1. CASE Crashes
    <3>1. faults' = faults + 1 /\ faults \in Nat
      BY <2>1 DEF Crashes, CacheInv
    <3>. QED BY <3>1 DEF CacheInv, NoFault
  <2>2. CASE ~Crashes
    <3>1. UNCHANGED faults
      BY <2>2 DEF Next, Begin, Step, Serve, UserEdits, Restarts, bounds, dfsVars
    <3>2. NoFault => CachesSound'
      BY <2>2, CachesStaySound DEF CacheInv, QuietInv, Calm
    <3>. QED BY <3>1, <3>2 DEF CacheInv, NoFault
  <2>. QED BY <2>1, <2>2
<1>3. CacheInv /\ DInv /\ NamesInv => CacheIsListed
  <2>. SUFFICES ASSUME CachesSound, ListsInv, KnownOnce, NEW c \in Users, pc[c] = "idle",
                       NEW x \in ToSet(cacheList[c])
                PROVE  /\ Listed(x.fileName)
                       /\ Hashes(x.storeList) = Hashes(beginGetReply(x.fileName))
    BY DEF CacheInv, CacheIsListed, DInv, IInv, NamesInv
  <2>. PICK g, i : g = x.fileName /\ i = Find(fileList, g)
    OBVIOUS
  <2>1. Coherent(x)
    BY DEF CachesSound, CacheSound, PutPhase
  <2>2. PICK e \in ToSet(fileList) : e.fileName = g /\ Hashes(e.storeList) = Hashes(x.storeList)
    BY <2>1 DEF Coherent
  <2>3. NameList(fileList) /\ g \in NamesOf(fileList)
    BY <2>2 DEF KnownOnce, NamesOf
  <2>4. i # 0 /\ i \in 1 .. Len(fileList) /\ fileList[i].fileName = g
    BY <2>3, NameFound DEF NameList
  <2>5. PICK k \in 1 .. Len(fileList) : e = fileList[k]
    BY <2>2, <2>3, NameListElements DEF NameList
  <2>6. k = i
    BY <2>2, <2>3, <2>4, <2>5 DEF NameList
  <2>. QED BY <2>2, <2>4, <2>5, <2>6 DEF Listed, beginGetReply
<1>4. Spec => []DInv /\ []NamesInv /\ []QuietInv
  BY TypesKept, NamesHold, QuietHolds
<1>. QED BY <1>1, <1>2, <1>3, <1>4, PTL DEF Spec

-----------------------------------------------------------------------------
(***************************************************************************)
(* A put that returns OK has stored the whole file.                        *)
(***************************************************************************)

\* Two parts of a list that follow each other.
LEMMA PartsJoin ==
  ASSUME NEW S, NEW l \in Seq(S), NEW a \in 0 .. Len(l), NEW b \in a .. Len(l)
  PROVE  SubSeq(l, 1, a) \o SubSeq(l, a + 1, b) = SubSeq(l, 1, b)
<1>. PICK x, y, z : x = SubSeq(l, 1, a) /\ y = SubSeq(l, a + 1, b) /\ z = SubSeq(l, 1, b)
  OBVIOUS
<1>1. Len(l) \in Nat /\ \A k \in 1 .. Len(l) : l[k] \in S
  BY LenProperties, ElementOfSeq
<1>2. x \in Seq(S) /\ Len(x) = a /\ \A k \in 1 .. a : x[k] = l[k]
  BY <1>1, SubSeqProperties
<1>3. y \in Seq(S) /\ Len(y) = b - a /\ \A k \in 1 .. b - a : y[k] = l[a + k]
  <2>1. \A k \in a + 1 .. b : l[k] \in S
    BY <1>1
  <2>2. /\ y \in Seq(S) /\ Len(y) = IF a + 1 <= b THEN b - (a + 1) + 1 ELSE 0
        /\ \A k \in 1 .. b - (a + 1) + 1 : y[k] = l[a + 1 + k - 1]
    BY <1>1, <2>1, SubSeqProperties
  <2>. QED BY <1>1, <2>2
<1>4. z \in Seq(S) /\ Len(z) = b /\ \A k \in 1 .. b : z[k] = l[k]
  BY <1>1, SubSeqProperties
<1>5. /\ x \o y \in Seq(S) /\ Len(x \o y) = b
      /\ \A k \in 1 .. b : (x \o y)[k] = IF k <= a THEN x[k] ELSE y[k - a]
  <2>1. /\ x \o y \in Seq(S) /\ Len(x \o y) = Len(x) + Len(y)
        /\ \A k \in 1 .. Len(x) + Len(y) : (x \o y)[k] = IF k <= Len(x) THEN x[k] ELSE y[k - Len(x)]
    BY <1>2, <1>3, ConcatProperties
  <2>2. Len(x) + Len(y) = b
    BY <1>1, <1>2, <1>3
  <2>. QED BY <1>2, <2>1, <2>2
<1>6. \A k \in 1 .. b : (x \o y)[k] = z[k]
  BY <1>1, <1>2, <1>3, <1>4, <1>5
<1>. QED BY <1>4, <1>5, <1>6, SeqEqual

\* The pieces of a file, each taken once, are the file.
LEMMA PiecesMakeFile ==
  ASSUME NEW content \in Seq(Units), NEW stores \in Seq(BlockStore), Contiguous(stores),
         \A k \in 1 .. Len(stores) :
           LET i == stores[k].blockIdx
           IN  /\ i * maxBlockSize < Len(content)
               /\ stores[k].blockHash =
                    SubSeq(content, i * maxBlockSize + 1,
                           i * maxBlockSize + PieceSize(Len(content), i)),
         \A i \in Nat : i * maxBlockSize < Len(content) =>
           \E k \in 1 .. Len(stores) : stores[k].blockIdx = i
  PROVE  ContentOf(stores) = content
<1>. DEFINE M == maxBlockSize
            last(i) == i * M + PieceSize(Len(content), i)
            part(k) == IF FirstOfBlock(stores, k) THEN stores[k].blockHash ELSE <<>>
<1>1. PICK size, N : size = Len(content) /\ N = Len(stores) /\ size \in Nat /\ N \in Nat
  BY LenProperties
<1>2. PICK idx : \A k \in 1 .. N : idx[k] = stores[k].blockIdx /\ idx[k] \in Nat
  <2>1. \A k \in 1 .. N : stores[k].blockIdx \in Nat
    <3>1. \A k \in 1 .. Len(stores) : stores[k] \in BlockStore
      BY ElementOfSeq
    <3>. QED BY <1>1, <3>1 DEF BlockStore
  <2>. DEFINE f == [k \in 1 .. N |-> stores[k].blockIdx]
  <2>2. \A k \in 1 .. N : f[k] = stores[k].blockIdx /\ f[k] \in Nat
    BY <2>1
  <2>. HIDE DEF f
  <2>. QED BY ONLY <2>2
<1>3. PICK start : start = [i \in Nat |-> i * M]
  OBVIOUS
<1>4. PICK end : end = [i \in Nat |-> last(i)]
  OBVIOUS
<1>5. /\ start[0] = 0
      /\ \A i \in Nat : /\ start[i] \in Nat /\ start[i + 1] = start[i] + M
                        /\ start[i] = i * M /\ end[i] = last(i)
                        /\ start[i] < size =>
                             end[i] = IF start[i + 1] < size THEN start[i + 1] ELSE size
  <2>3. M \in Nat
    BY PlacementAssumption
  <2>. HIDE DEF M
  <2>4. start[0] = 0 /\ \A i \in Nat : start[i] \in Nat /\ start[i + 1] = start[i] + M
    BY <1>3, <2>3
  <2>5. ASSUME NEW i \in Nat
        PROVE  start[i] = i * M /\ end[i] = start[i] + PieceSize(size, i)
    BY <1>1, <1>3, <1>4 DEF M
  <2>6. ASSUME NEW i \in Nat
        PROVE  PieceSize(size, i) = IF size - start[i] > M THEN M ELSE size - start[i]
    BY <1>1, <2>5 DEF PieceSize, M
  <2>7. ASSUME NEW i \in Nat, start[i] < size
        PROVE  end[i] = IF start[i + 1] < size THEN start[i + 1] ELSE size
    <3>. PICK x, e, p : x = start[i] /\ e = end[i] /\ p = PieceSize(size, i)
      OBVIOUS
    <3>1. /\ x \in Nat /\ start[i + 1] = x + M /\ e = x + p
          /\ p = IF size - x > M THEN M ELSE size - x
      BY <2>4, <2>5, <2>6
    <3>. QED BY ONLY <1>1, <2>3, <3>1, e = end[i]
  <2>8. \A i \in Nat : end[i] = last(i)
    BY <1>4
  <2>. HIDE DEF last
  <2>. QED BY ONLY <2>4, <2>5, <2>7, <2>8
<1>. HIDE DEF last
<1>6. /\ \A k \in 1 .. N : /\ start[idx[k]] < size
                           /\ stores[k].blockHash = SubSeq(content, start[idx[k]] + 1, end[idx[k]])
      /\ \A i \in Nat : start[i] < size => \E k \in 1 .. N : idx[k] = i
  <2>1. ASSUME NEW k \in 1 .. N
        PROVE  /\ start[idx[k]] < size
               /\ stores[k].blockHash = SubSeq(content, start[idx[k]] + 1, end[idx[k]])
    <3>1. /\ stores[k].blockIdx * M < size
          /\ stores[k].blockHash =
               SubSeq(content, stores[k].blockIdx * M + 1, last(stores[k].blockIdx))
      BY <1>1 DEF last
    <3>. HIDE DEF M
    <3>2. /\ stores[k].blockIdx = idx[k] /\ idx[k] \in Nat
          /\ start[idx[k]] = idx[k] * M /\ end[idx[k]] = last(idx[k])
      BY <1>2, <1>5
    <3>. QED BY <3>1, <3>2
  <2>2. ASSUME NEW i \in Nat, start[i] < size PROVE \E k \in 1 .. N : idx[k] = i
    <3>1. i * M < Len(content)
      <4>. HIDE DEF M
      <4>. QED BY <1>1, <1>5, <2>2
    <3>2. PICK k \in 1 .. Len(stores) : stores[k].blockIdx = i
      BY <3>1
    <3>. QED BY <1>1, <1>2, <3>2
  <2>. QED BY <2>1, <2>2
<1>7. M \in Nat \ {0}
  BY PlacementAssumption
<1>. HIDE DEF M
<1>8. ASSUME NEW k \in 1 .. N
      PROVE  end[idx[k]] \in 0 .. size /\ start[idx[k]] \in Nat /\ start[idx[k]] <= end[idx[k]]
  <2>. PICK i : i = idx[k]
    OBVIOUS
  <2>1. /\ i \in Nat /\ start[i] \in Nat /\ start[i + 1] = start[i] + M /\ start[i] < size
        /\ end[i] = IF start[i + 1] < size THEN start[i + 1] ELSE size
    BY <1>2, <1>5, <1>6
  <2>. QED BY <1>1, <1>7, <2>1
<1>. DEFINE upto(n) == IF n = 0 THEN 0 ELSE end[idx[n]]
<1>9. PICK parts :
        /\ ContentOf(stores) = FlattenSeq(parts)
        /\ parts \in Seq(Seq(Units)) /\ Len(parts) = N /\ \A k \in 1 .. N : parts[k] = part(k)
  <2>1. PICK parts : parts = [k \in 1 .. N |-> part(k)]
    OBVIOUS
  <2>2. ContentOf(stores) = FlattenSeq(parts)
    <3>1. DOMAIN stores = 1 .. N
      BY <1>1, LenProperties
    <3>. QED BY <2>1, <3>1, Zenon DEF ContentOf
  <2>3. ASSUME NEW k \in 1 .. N PROVE part(k) \in Seq(Units)
    <3>1. stores[k].blockHash \in Seq(Units)
      <4>. PICK a, b : a = start[idx[k]] + 1 /\ b = end[idx[k]]
        OBVIOUS
      <4>1. a \in Int /\ b \in Int /\ 1 <= a /\ b <= size
        BY <1>1, <1>8
      <4>2. \A j \in a .. b : content[j] \in Units
        BY <1>1, <4>1, ElementOfSeq
      <4>3. SubSeq(content, a, b) \in Seq(Units)
        BY ONLY <4>1, <4>2, SubSeqProperties
      <4>. QED BY <1>6, <4>3
    <3>. QED BY <3>1, EmptySeq
  <2>. HIDE DEF part
  <2>4. parts \in Seq(Seq(Units))
    BY <1>1, <2>1, <2>3, IsASeq
  <2>5. Len(parts) = N
    BY <1>1, <2>1, <2>4, LenProperties
  <2>6. \A k \in 1 .. N : parts[k] = part(k)
    BY <2>1
  <2>. QED BY ONLY <2>2, <2>4, <2>5, <2>6, Zenon
<1>10. PICK g : /\ FlattenSeq(parts) = g[N] /\ g[0] = <<>>
               /\ \A n \in 1 .. N : g[n] = g[n - 1] \o parts[n]
  <2>1. \E g : /\ FlattenSeq(parts) = g[Len(parts)] /\ g[0] = <<>>
               /\ \A n \in 1 .. Len(parts) : g[n] = g[n - 1] \o parts[n]
               /\ \A n \in 0 .. Len(parts) : g[n] \in Seq(Units)
    BY ONLY <1>9, FlattenByList
  <2>. QED BY ONLY <1>9, <2>1
<1>. DEFINE Good == {n \in 0 .. N : g[n] = SubSeq(content, 1, upto(n))}
<1>11. 0 \in Good
  <2>1. SubSeq(content, 1, 0) = <<>>
    BY SubSeqEmpty
  <2>2. upto(0) = 0 /\ 0 \in 0 .. N
    BY <1>1
  <2>. HIDE DEF upto
  <2>. QED BY <1>10, <2>1, <2>2
<1>12. ASSUME NEW n \in 1 .. N, n - 1 \in Good PROVE n \in Good
  <2>. PICK m : m = n - 1
    OBVIOUS
  <2>1. /\ m \in 0 .. N /\ n \in 0 .. N /\ m + 1 = n /\ n # 0
        /\ m # 0 => m \in 1 .. N /\ m \in 1 .. N - 1
    BY <1>1
  <2>2. g[m] = SubSeq(content, 1, upto(m)) /\ g[n] = g[m] \o part(n)
    <3>. HIDE DEF part, upto
    <3>. QED BY <1>9, <1>10, <1>12
  <2>3. upto(n) = end[idx[n]] /\ upto(m) \in 0 .. size /\ upto(n) \in 0 .. size
    BY <1>1, <1>8, <2>1
  <2>4. CASE FirstOfBlock(stores, n)
    <3>1. upto(m) = start[idx[n]]
      <4>1. CASE m = 0
        <5>1. stores # <<>>
          BY <1>1, <2>1, EmptySeq
        <5>2. idx[n] = 0
          BY <1>2, <2>1, <4>1, <5>1 DEF Contiguous
        <5>. QED BY <1>5, <4>1, <5>2
      <4>2. CASE m # 0
        <5>1. idx[n] \in {idx[m], idx[m] + 1}
          BY <1>1, <1>2, <2>1, <4>2 DEF Contiguous
        <5>2. idx[n] # idx[m]
          <6>1. stores[n].blockIdx # stores[n - 1].blockIdx
            BY <2>1, <2>4, <4>2 DEF FirstOfBlock
          <6>. QED BY <1>2, <2>1, <4>2, <6>1
        <5>. PICK i : i = idx[m]
          OBVIOUS
        <5>3. i \in Nat /\ idx[n] = i + 1 /\ start[i] < size /\ start[i + 1] < size
          BY <1>2, <1>6, <2>1, <4>2, <5>1, <5>2
        <5>4. end[i] = start[i + 1]
          BY <1>5, <5>3
        <5>. QED BY <4>2, <5>3, <5>4
      <4>. QED BY <4>1, <4>2
    <3>2. part(n) = SubSeq(content, upto(m) + 1, upto(n))
      <4>. HIDE DEF upto
      <4>. QED BY <1>6, <2>3, <2>4, <3>1
    <3>3. upto(n) \in upto(m) .. size
      <4>. HIDE DEF upto
      <4>. QED BY <1>1, <1>8, <2>3, <3>1
    <3>. HIDE DEF upto, part
    <3>4. SubSeq(content, 1, upto(m)) \o SubSeq(content, upto(m) + 1, upto(n))
            = SubSeq(content, 1, upto(n))
      BY <1>1, <2>3, <3>3, PartsJoin
    <3>. QED BY <2>1, <2>2, <3>2, <3>4
  <2>5. CASE ~FirstOfBlock(stores, n)
    <3>1. upto(n) = upto(m)
      <4>1. n # 1 /\ stores[n].blockIdx = stores[n - 1].blockIdx
        BY <2>5 DEF FirstOfBlock
      <4>2. m # 0 /\ idx[n] = idx[m]
        BY <1>2, <2>1, <4>1
      <4>. QED BY <2>1, <4>2
    <3>2. part(n) = <<>>
      BY <2>5
    <3>. HIDE DEF upto, part
    <3>3. SubSeq(content, 1, upto(m)) \in Seq(Units)
      <4>. PICK b : b = upto(m)
        OBVIOUS
      <4>1. b \in Int /\ \A j \in 1 .. b : content[j] \in Units
        BY <1>1, <2>3, ElementOfSeq
      <4>2. SubSeq(content, 1, b) \in Seq(Units)
        BY ONLY <4>1, SubSeqProperties
      <4>. QED BY <4>2
    <3>4. SubSeq(content, 1, upto(m)) \o <<>> = SubSeq(content, 1, upto(m))
      BY <3>3, ConcatEmptySeq
    <3>. QED BY <2>1, <2>2, <3>1, <3>2, <3>4
  <2>. QED BY <2>4, <2>5
<1>13. g[N] = SubSeq(content, 1, upto(N))
  <2>1. N \in Good
    <3>. HIDE DEF Good
    <3>. QED BY <1>1, <1>11, <1>12, UpTo, N \in 0 .. N
  <2>. QED BY <2>1
<1>14. upto(N) = size
  <2>1. CASE N = 0
    <3>1. ~(start[0] < size)
      BY <1>6, <2>1
    <3>. QED BY <1>1, <1>5, <2>1, <3>1
  <2>2. CASE N # 0
    <3>. PICK i : i = idx[N]
      OBVIOUS
    <3>1. N \in 1 .. N /\ i \in Nat /\ start[i] < size
      BY <1>1, <1>2, <1>6, <2>2
    <3>2. ASSUME start[i + 1] < size PROVE FALSE
      <4>1. PICK k \in 1 .. N : idx[k] = i + 1
        BY <1>6, <3>1, <3>2
      <4>2. stores[k].blockIdx <= stores[N].blockIdx
        BY <1>1, <3>1, IndicesRise
      <4>. QED BY <1>2, <3>1, <4>1, <4>2
    <3>3. end[i] = size
      BY <1>5, <3>1, <3>2
    <3>. QED BY <2>2, <3>3
  <2>. QED BY <2>1, <2>2
<1>15. SubSeq(content, 1, size) = content
  BY <1>1, SubSeqFull
<1>. QED BY <1>9, <1>10, <1>13, <1>14, <1>15

\* No block of a new file is left out.
LEMMA StoreListCovers ==
  ASSUME IInv, serverList # <<>>, NEW f, NEW size \in Nat,
         NEW i \in Nat, i * maxBlockSize < size
  PROVE  \E e \in ToSet(StoreList(serverList, f, size)) : e.blockIdx = i
<1>1. serverList \in Seq(ServerInfo) /\ OneEach(serverList)
  BY InvTypes, RingHasOneEach DEF IInv, RingInv
<1>2. PICK s : s \in Lookups(serverList, f, i) /\ s \in ServerInfo
  <2>1. 0 \in 0 .. backupNum - 1
    BY PlacementAssumption
  <2>2. Lookup(serverList, ReplicaHash(f, i, 0)) \in ServerInfo
    BY <1>1, LookupsAreServers
  <2>. QED BY <2>1, <2>2 DEF Lookups
<1>3. PieceSize(size, i) \in Nat /\ i < size
  <2>. PICK before, m : before = i * maxBlockSize /\ m = maxBlockSize
    OBVIOUS
  <2>1. m \in Nat \ {0} /\ before < size /\ before = i * m
    BY PlacementAssumption
  <2>2. before = i + i * (m - 1) /\ i * (m - 1) \in Nat /\ before \in Nat
    BY <2>1
  <2>3. PieceSize(size, i) = IF size - before > m THEN m ELSE size - before
    BY DEF PieceSize
  <2>. QED BY <2>1, <2>2, <2>3
<1>4. PICK e : e = [blockIdx |-> i, blockSize |-> PieceSize(size, i), blockHash |-> NoHash,
                    server |-> s]
  OBVIOUS
<1>5. e \in AskedFor(serverList, f, size, size) /\ e.blockIdx = i
  BY <1>2, <1>3, <1>4 DEF AskedFor, BlockStore
<1>. QED BY <1>1, <1>5, StoreListMembers

\* A put has an entry for every block of its copy.  What a get returns is not
\* what a put returns.
WholePut(c) ==
  /\ pc[c] \in PutPhase =>
       \A i \in Nat : i * maxBlockSize < Len(local[c][File(c)]) =>
         \E k \in 1 .. Len(list[c]) : list[c][k].blockIdx = i
  /\ pc[c] \in Downloading \cup {"beginGet"} => op[c].name = "get"

\* The list of a put is made when it begins.
LEMMA BeginPutIsWhole ==
  ASSUME Calm, OneWriter, NEW c \in Clients, Step(c), BeginPut(c)
  PROVE  WholePut(c)'
<1>. PICK f : f = File(c)
  OBVIOUS
<1>. PICK size : size = Len(local[c][f])
  OBVIOUS
<1>. PICK stores : stores = StoreList(serverList, f, size)
  OBVIOUS
<1>. PICK new : new = NewEntry(serverList, f, size)
  OBVIOUS
<1>1. Domains /\ IInv /\ AllRun /\ KnownOnce /\ ClientInv(c)
  BY DEF Calm, DInv, ClientsInv, Quiet, NamesInv
<1>2. /\ pc[c] = "beginPut" /\ pc'[c] = "putBlock" /\ File(c)' = f /\ local'[c] = local[c]
      /\ list'[c] = IF Len(tempList') > Len(tempList) THEN Last(tempList').storeList ELSE <<>>
  <2>1. /\ pc[c] = "beginPut" /\ Goto(c, "putBlock") /\ UNCHANGED <<op, local>>
        /\ Walk(c, IF Len(tempList') > Len(tempList) THEN Last(tempList').storeList ELSE <<>>)
    BY Zenon DEF BeginPut, PutGoesOn
  <2>. QED BY <1>1, <2>1 DEF Goto, Walk, Domains, File
<1>3. size \in Nat
  BY <1>1, <1>2, LenProperties DEF ClientInv
<1>4. ~Listed(f)
  <2>1. f \notin NamesOf(fileList)
    BY <1>2 DEF Calm, Quiet, ClientQuiet
  <2>. QED BY <1>1, <2>1, NameFound DEF Listed, KnownOnce, NameList
<1>5. tempList' = Append(tempList, new)
  <2>1. beginPutTransaction(f, size)
    <3>1. NameService(beginPutTransaction(File(c), Len(local[c][File(c)]))) /\ up
      BY <1>1, Zenon DEF BeginPut, PutGoesOn, AllRun
    <3>. QED BY <3>1, Zenon DEF NameService
  <2>2. ~ReadsDeadServer(size)
    BY <1>1 DEF AllRun, ReadsDeadServer
  <2>. QED BY <1>4, <2>1, <2>2, Zenon DEF beginPutTransaction
<1>6. list'[c] = stores
  <2>1. new.storeList = stores
    BY DEF NewEntry
  <2>2. tempList \in Seq(GoodEntry \cup {new})
    BY <1>1, SeqMonotonic DEF IInv, ListsInv
  <2>3. Len(tempList') = Len(tempList) + 1 /\ Len(tempList) \in Nat
        /\ tempList'[Len(tempList) + 1] = new
    BY <1>5, <2>2, AppendProperties, LenProperties
  <2>. QED BY <1>2, <2>1, <2>3 DEF Last
<1>7. \A i \in Nat : i * maxBlockSize < size => \E e \in ToSet(stores) : e.blockIdx = i
  BY <1>1, <1>3, StoreListCovers DEF AllRun
<1>8. stores \in Seq(BlockStore)
  BY <1>1, <1>3, StoresOnRing DEF AllRun
<1>9. \A e \in ToSet(stores) : \E k \in 1 .. Len(stores) : e = stores[k]
  BY <1>8, LenProperties DEF ToSet
<1>10. ASSUME NEW i \in Nat, i * maxBlockSize < size
       PROVE  \E k \in 1 .. Len(stores) : stores[k].blockIdx = i
  BY <1>7, <1>9, <1>10
<1>11. local'[c][File(c)'] = local[c][f]
  BY <1>2
<1>. QED BY <1>2, <1>6, <1>10, <1>11 DEF WholePut, PutPhase, Downloading

\* The steps of a put that runs leave its list and its copy alone.
LEMMA StaysWhole ==
  ASSUME DInv, NEW c \in Clients, WholePut(c),
         \/ pc'[c] \notin PutPhase \/ (pc[c] \in PutPhase /\ UNCHANGED <<list, local>>),
         \/ pc'[c] \notin Downloading \cup {"beginGet"}
         \/ pc[c] \in Downloading \cup {"beginGet"},
         UNCHANGED op
  PROVE  WholePut(c)'
BY DEF WholePut, File

\* So does every step of its client: only beginPutTransaction brings a new list.
LEMMA StepsStayWhole ==
  ASSUME Calm, OneWriter, NEW c \in Clients, Step(c), WholePut(c)
  PROVE  WholePut(c)'
<1>1. Domains /\ DInv
  BY DEF Calm, DInv, ClientsInv
<1>2. CASE BeginPut(c)
  BY <1>2, BeginPutIsWhole
<1>3. CASE BeginRm(c) \/ RmBlock(c) \/ RmBlockDone(c)
  <2>1. UNCHANGED op /\ pc'[c] \in {"rmBlock", "rmWait", "abortRm"}
    BY <1>1, <1>3 DEF BeginRm, RmGoesOn, RmBlock, RmBlockDone, Goto, Domains
  <2>. QED BY <1>1, <2>1, StaysWhole DEF PutPhase, Downloading
<1>4. CASE CommitRm(c)
  <2>1. UNCHANGED op /\ pc'[c] \in {"idle", "beginPut"}
    BY <1>1, <1>4 DEF CommitRm, EndRm, Return, Goto, Domains
  <2>. QED BY <1>1, <2>1, StaysWhole DEF PutPhase, Downloading
<1>5. CASE PutBlock(c) \/ PutBlockDone(c)
  <2>1. /\ UNCHANGED <<op, list, local>> /\ pc[c] \in PutPhase
        /\ pc'[c] \in {"putBlock", "putWait", "abortPut"}
    BY <1>1, <1>5 DEF PutBlock, PutBlockDone, Goto, Domains, PutPhase
  <2>. QED BY <1>1, <2>1, StaysWhole DEF PutPhase, Downloading
<1>6. CASE CommitPut(c) \/ CommitGet(c)
  <2>1. UNCHANGED op /\ pc'[c] = "idle"
    BY <1>1, <1>6 DEF CommitPut, CommitGet, Return, Goto, Domains
  <2>. QED BY <1>1, <2>1, StaysWhole DEF PutPhase, Downloading
<1>7. CASE BeginGet(c) \/ GetBlock(c) \/ GetUnit(c) \/ GetBlockDone(c)
  <2>1. pc[c] \in Downloading \cup {"beginGet"} /\ UNCHANGED op
    BY <1>7, Zenon DEF BeginGet, GetGoesOn, GetBlock, GetUnit, GetBlockDone, Downloading, Die
  <2>2. pc'[c] \in Downloading \cup {"idle"}
    <3>. PICK D, D0 : D = Downloading /\ D0 = D \cup {"idle"}
      OBVIOUS
    <3>1. "getBlock" \in D /\ "getWait" \in D
          /\ "getBlock" \in D0 /\ "getWait" \in D0 /\ "idle" \in D0
      BY DEF Downloading
    <3>2. \/ pc' = pc /\ pc[c] \in D
          \/ \E next \in D0 : pc' = [pc EXCEPT ![c] = next]
      <4>1. CASE BeginGet(c)
        BY <3>1, <4>1, Zenon DEF BeginGet, GetGoesOn, Die, Return, Goto
      <4>2. CASE GetBlock(c)
        BY <3>1, <4>2, Zenon DEF GetBlock, Return, Goto
      <4>3. CASE GetUnit(c)
        BY <3>1, <4>3, Zenon DEF GetUnit
      <4>4. CASE GetBlockDone(c)
        BY <3>1, <4>4, Zenon DEF GetBlockDone, Goto
      <4>. QED BY <1>7, <4>1, <4>2, <4>3, <4>4
    <3>. QED BY <1>1, <3>2 DEF Domains
  <2>. QED BY <1>1, <2>1, <2>2, StaysWhole DEF PutPhase, Downloading
<1>. QED BY <1>2, <1>3, <1>4, <1>5, <1>6, <1>7, NothingFails, Zenon DEF Step

PutsWhole == \A c \in Clients : WholePut(c)

\* Until something crashes every put that runs has its whole list.
LEMMA PutsStayWhole ==
  ASSUME Calm, OneWriter, PutsWhole, [Next]_dfsVars, ~Crashes
  PROVE  PutsWhole'
<1>1. Domains /\ DInv /\ \A c \in Clients : WholePut(c)
  BY DEF Calm, DInv, ClientsInv, PutsWhole
<1>2. ASSUME NEW c \in Clients, Begin(c) \/ Step(c), WholePut(c)' PROVE PutsWhole'
  <2>1. Own(c)
    BY <1>2, StepsAreOwn
  <2>2. ASSUME NEW d \in Clients, d # c PROVE WholePut(d)'
    <3>1. /\ pc'[d] = pc[d] /\ op'[d] = op[d] /\ list'[d] = list[d] /\ local'[d] = local[d]
      BY <1>1, <2>1, <2>2 DEF Own, Domains
    <3>. QED BY <1>1, <3>1 DEF WholePut, File
  <2>. QED BY <1>2, <2>2 DEF PutsWhole
<1>3. ASSUME NEW c \in Clients, Step(c) PROVE PutsWhole'
  BY <1>1, <1>2, <1>3, StepsStayWhole
<1>4. ASSUME NEW c \in Clients, Begin(c) PROVE PutsWhole'
  <2>1. \E name \in {"put", "rm", "get"} : \E f :
          /\ op' = [op EXCEPT ![c] = [name |-> name, file |-> f]]
          /\ pc' = [pc EXCEPT ![c] = IF name = "get" THEN "beginGet" ELSE "beginRm"]
    <3>1. \E f : StartPut(c, f) \/ StartRm(c, f) \/ StartGet(c, f)
      BY <1>4, Zenon DEF Begin
    <3>. QED BY <3>1 DEF StartPut, StartRm, StartGet, Start, Goto
  <2>2. WholePut(c)'
    BY <1>1, <2>1 DEF WholePut, Domains, PutPhase, Downloading
  <2>. QED BY <1>2, <1>4, <2>2
<1>5. CASE UserEdits
  <2>1. PICK c \in Users, f \in Files, content \in Contents : Edit(c, f, content)
    BY <1>5, Zenon DEF UserEdits
  <2>2. ASSUME NEW d \in Clients PROVE WholePut(d)'
    <3>1. pc[c] = "idle" /\ UNCHANGED <<pc, op, list>> /\ (d # c => local'[d] = local[d])
      BY <2>1 DEF Edit
    <3>. QED BY <1>1, <3>1 DEF WholePut, File, PutPhase
  <2>. QED BY <2>2 DEF PutsWhole
<1>6. ASSUME UNCHANGED clVars PROVE PutsWhole'
  BY <1>1, <1>6 DEF PutsWhole, WholePut, File, clVars
<1>7. CASE Restarts \/ \E call \in calls : Serve(call)
  BY <1>6, <1>7, Zenon DEF Restarts, Serve
<1>8. CASE UNCHANGED dfsVars
  BY <1>6, <1>8 DEF dfsVars, vars
<1>. QED BY <1>3, <1>4, <1>5, <1>7, <1>8, Zenon DEF Next

\* What a commit lists is the user's copy, block by block.
LEMMA CommitIsWhole ==
  ASSUME Calm, PutsWhole, NEW c \in Clients, CommitPut(c)
  PROVE  Listed(File(c))' /\ ContentOf(beginGetReply(File(c)))' = local'[c][File(c)]
<1>. PICK f, e : f = File(c) /\ e = tempList[1]
  OBVIOUS
<1>. PICK content : content = local[c][f]
  OBVIOUS
<1>1. /\ KnownOnce /\ ListsInv /\ ClientInv(c) /\ ClientQuiet(c) /\ WholePut(c)
  BY DEF Calm, DInv, ClientsInv, Quiet, NamesInv, IInv, PutsWhole
<1>2. pc[c] = "putBlock" /\ UNCHANGED <<op, local>>
  BY DEF CommitPut
<1>3. /\ at[c] = Len(list[c]) + 1 /\ Len(list[c]) \in Nat
      /\ Len(tempList) = 1 /\ Len(Sending) = Len(list[c])
      /\ e \in GoodEntry /\ e.fileName = f /\ e.storeList = Sending
      /\ Sending \in Seq(BlockStore) /\ fileList' = Append(fileList, e)
  BY CommitPublishes
<1>4. Listed(f)' /\ beginGetReply(f)' = Sending
  <2>1. NameList(fileList) /\ f \notin NamesOf(fileList)
    BY <1>1, <1>2 DEF KnownOnce, ClientQuiet, PutPhase
  <2>2. "fileName" \in DOMAIN e
    BY <1>3 DEF GoodEntry, FileMetaData
  <2>3. NameList(fileList') /\ f \in NamesOf(fileList')
    BY <1>3, <2>1, <2>2, NameAdded
  <2>. PICK i : i = Find(fileList', f)
    OBVIOUS
  <2>4. i # 0 /\ i \in 1 .. Len(fileList') /\ fileList'[i].fileName = f
    BY <2>3, NameFound DEF NameList
  <2>5. /\ Len(fileList) \in Nat /\ Len(fileList') = Len(fileList) + 1
        /\ fileList'[Len(fileList) + 1] = e
        /\ \A k \in 1 .. Len(fileList) : fileList'[k] = fileList[k]
    BY <1>1, <1>3, AppendProperties, LenProperties DEF ListsInv
  <2>6. ~(i \in 1 .. Len(fileList))
    BY <1>1, <2>1, <2>4, <2>5, NameListElements DEF ListsInv
  <2>7. fileList'[i] = e
    BY <2>4, <2>5, <2>6
  <2>. QED BY <1>3, <2>4, <2>7 DEF Listed, beginGetReply
<1>5. /\ content \in Seq(Units)
      /\ \A k \in 1 .. Len(list[c]) : Cuts(list[c][k], Len(content))
  <2>1. content \in Seq(Units) /\ \A x \in ToSet(list[c]) : Cuts(x, Len(content))
    BY <1>1, <1>2 DEF ClientInv
  <2>. QED BY <1>1, <2>1, EntriesAreStores DEF ToSet
<1>6. Contiguous(Sending)
  BY <1>3 DEF GoodEntry, WellFormed
<1>7. ASSUME NEW k \in 1 .. Len(list[c])
      PROVE  /\ Sending[k].blockIdx = list[c][k].blockIdx
             /\ Sending[k].blockIdx * maxBlockSize < Len(content)
             /\ Sending[k].blockHash =
                  SubSeq(content, Sending[k].blockIdx * maxBlockSize + 1,
                         Sending[k].blockIdx * maxBlockSize
                           + PieceSize(Len(content), Sending[k].blockIdx))
  <2>1. Sending[k].blockIdx = list[c][k].blockIdx /\ Sending[k].blockHash = Piece(c, list[c][k])
    BY <1>1, <1>2, <1>3 DEF ClientQuiet, PutInv, PutPhase
  <2>. QED BY <1>5, <2>1 DEF Cuts, Piece
<1>8. ASSUME NEW i \in Nat, i * maxBlockSize < Len(content)
      PROVE  \E k \in 1 .. Len(Sending) : Sending[k].blockIdx = i
  <2>1. i * maxBlockSize < Len(local[c][File(c)]) =>
          \E k \in 1 .. Len(list[c]) : list[c][k].blockIdx = i
    BY <1>1, <1>2 DEF WholePut, PutPhase
  <2>2. PICK k \in 1 .. Len(list[c]) : list[c][k].blockIdx = i
    BY <1>8, <2>1
  <2>. QED BY <1>3, <1>7, <2>2
<1>9. ContentOf(Sending) = content
  <2>1. \A k \in 1 .. Len(Sending) :
          LET i == Sending[k].blockIdx
          IN  /\ i * maxBlockSize < Len(content)
              /\ Sending[k].blockHash =
                   SubSeq(content, i * maxBlockSize + 1,
                          i * maxBlockSize + PieceSize(Len(content), i))
    BY <1>3, <1>7, Zenon
  <2>. QED BY <1>3, <1>5, <1>6, <1>8, <2>1, PiecesMakeFile
<1>10. File(c)' = f /\ local'[c][f] = content
  BY <1>2 DEF File
<1>. QED BY <1>4, <1>9, <1>10 DEF ContentOf

\* An operation returns by a step of its client.
LEMMA OnlySteps ==
  ASSUME Domains, faults = 0, MaxFaults = 0, [Next]_dfsVars,
         NEW c \in Clients, pc[c] # "idle", pc'[c] = "idle"
  PROVE  Step(c)
<1>1. ASSUME NEW d \in Clients, Begin(d) \/ Step(d) PROVE d = c
  BY <1>1, StepsAreOwn DEF Own, Domains
<1>2. ~Begin(c)
  BY DEF Begin, StartPut, StartRm, StartGet, Start
<1>3. ~(UNCHANGED clVars) /\ ~(UNCHANGED dfsVars) /\ ~UserEdits
  BY DEF clVars, dfsVars, vars, UserEdits, Edit
<1>4. ~Crashes
  BY DEF Crashes
<1>5. ~Restarts /\ ~\E call \in calls : Serve(call)
  BY <1>3, Zenon DEF Restarts, Serve
<1>. QED BY <1>1, <1>2, <1>3, <1>4, <1>5, Zenon DEF Next

WholeInv == faults = 0 /\ PutsWhole

\* As long as nothing crashes, a put that returns OK has done its work: the file is
\* listed, and the blocks its entry counts on, put together, are the user's copy.
THEOREM PutsAreListed ==
  OneWriter /\ Servers # {} /\ BlockIndices = Nat /\ MaxFaults = 0 => (Spec => PutIsListed)
<1>. SUFFICES ASSUME OneWriter, Servers # {}, BlockIndices = Nat, MaxFaults = 0
              PROVE  Spec => PutIsListed
  OBVIOUS
<1>1. Init => WholeInv
  BY DEF Init, WholeInv, PutsWhole, WholePut, PutPhase, Downloading
<1>2. WholeInv /\ QuietInv /\ DInv /\ NamesInv /\ [Next]_dfsVars => WholeInv'
  <2>. SUFFICES ASSUME WholeInv, QuietInv, DInv, NamesInv, [Next]_dfsVars PROVE WholeInv'
    OBVIOUS
  <2>1. ~Crashes
    BY DEF Crashes, WholeInv
  <2>2. UNCHANGED faults
    BY <2>1 DEF Next, Begin, Step, Serve, UserEdits, Restarts, bounds, dfsVars
  <2>3. Calm
    BY DEF WholeInv, QuietInv, NoFault, Calm
  <2>. QED BY <2>1, <2>2, <2>3, PutsStayWhole DEF WholeInv
<1>3. ASSUME WholeInv, QuietInv, DInv, NamesInv, [Next]_dfsVars,
             NEW c \in Clients, Returns(c, "put", "OK")
      PROVE  Listed(File(c))' /\ ContentOf(beginGetReply(File(c)))' = local'[c][File(c)]
  <2>1. Calm /\ Domains /\ WholePut(c) /\ PutsWhole
    BY <1>3 DEF WholeInv, QuietInv, NoFault, Calm, PutsWhole, DInv, ClientsInv
  <2>2. pc[c] # "idle" /\ pc'[c] = "idle" /\ op[c].name = "put" /\ status'[c] = "OK"
    BY <1>3 DEF Returns
  <2>3. CommitPut(c)
    <3>1. Step(c)
      BY <1>3, <2>1, <2>2, OnlySteps DEF WholeInv
    <3>2. ~BeginRm(c) /\ ~RmBlock(c) /\ ~RmBlockDone(c) /\ ~BeginPut(c) /\ ~PutBlock(c)
          /\ ~PutBlockDone(c)
      BY <2>1, <2>2 DEF BeginRm, RmGoesOn, RmBlock, RmBlockDone, BeginPut, PutGoesOn, PutBlock, PutBlockDone, Goto,
                        Domains
    <3>3. ~CommitRm(c)
      BY <2>1, <2>2 DEF CommitRm, EndRm, Goto, Domains
    <3>4. pc[c] \notin Downloading \cup {"beginGet"}
      BY <2>1, <2>2 DEF WholePut
    <3>5. ~BeginGet(c) /\ ~GetBlock(c) /\ ~GetUnit(c) /\ ~GetBlockDone(c) /\ ~CommitGet(c)
      BY <3>4, Zenon DEF BeginGet, GetGoesOn, GetBlock, GetUnit, GetBlockDone, CommitGet, Downloading
    <3>. QED BY <2>1, <3>1, <3>2, <3>3, <3>5, NothingFails, Zenon DEF Step
  <2>. QED BY <2>1, <2>3, CommitIsWhole
<1>4. WholeInv /\ QuietInv /\ DInv /\ NamesInv /\ [Next]_dfsVars =>
        [\A c \in Clients : Returns(c, "put", "OK") =>
           Listed(File(c))' /\ ContentOf(beginGetReply(File(c)))' = local'[c][File(c)]]_dfsVars
  BY <1>3
<1>5. Spec => []DInv /\ []NamesInv /\ []QuietInv
  BY TypesKept, NamesHold, QuietHolds
<1>. QED BY <1>1, <1>2, <1>4, <1>5, PTL DEF Spec, PutIsListed

-----------------------------------------------------------------------------
(***************************************************************************)
(* The gets of a client that is alone.  Until something crashes every      *)
(* replica it asks for is there, so that the first replica of each block   *)
(* is taken and the blocks arrive in order, none of them in error.         *)
(***************************************************************************)
Alone == \A c, d \in Clients : c = d

Fetched(c) ==
  pc[c] \in Downloading =>
    /\ \A k \in 1 .. Len(list[c]) : OnDisk(File(c), list[c][k])
    /\ \A k \in 1 .. at[c] - 1 : list[c][k].blockIdx \in Downloaded(c)
    /\ \E n \in Nat : /\ Downloaded(c) = 0 .. n - 1
                      /\ pc[c] = "getWait" => Entry(c).blockIdx = n

\* What has been streamed is the beginning of the block.
Streaming(call) ==
  call.method = "getBlock" =>
    LET c == call.caller
    IN  /\ call.linked /\ ~call.short
        /\ Len(Received(c)) <= Entry(c).blockSize
        /\ Received(c) = SubSeq(Entry(c).blockHash, 1, Len(Received(c)))

FetchInv ==
  (\A c \in Clients : Fetched(c)) /\ (\A call \in calls : Streaming(call))

\* What is to show of a step of the client.
LEMMA FetchGoesOn ==
  ASSUME Alone, Calm', NEW c \in Clients, Fetched(c)',
         pc'[c] = "getWait" => \A call \in calls' : Streaming(call)'
  PROVE  FetchInv'
<1>1. ASSUME NEW d \in Clients PROVE Fetched(d)'
  BY d = c DEF Alone
<1>2. ASSUME NEW call \in calls' PROVE Streaming(call)'
  <2>1. Awaited(call)'
    BY DEF Calm, Quiet, OneCallEach
  <2>2. call.caller = c /\ pc'[c] = WaitsFor[call.method]
    BY <2>1 DEF Awaited, Alone
  <2>3. call.method = "getBlock" => pc'[c] = "getWait"
    BY <2>2 DEF WaitsFor
  <2>. QED BY <2>3 DEF Streaming
<1>. QED BY <1>1, <1>2 DEF FetchInv

\* The blocks downloaded without an error, after one more of them came.
LEMMA ReceivedIs ==
  ASSUME Domains, NEW c \in Clients, NEW e, NEW ok \in BOOLEAN, NEW data, Receive(c, e, ok, data)
  PROVE  /\ Downloaded(c)' = IF ok THEN Downloaded(c) \cup {e.blockIdx}
                             ELSE Downloaded(c) \ {e.blockIdx}
         /\ got'[c][e.blockIdx].data = data
<1>. PICK i, x : i = e.blockIdx /\ x = [ok |-> ok, data |-> data]
  OBVIOUS
<1>1. /\ DOMAIN got'[c] = DOMAIN got[c] \cup {i}
      /\ \A j \in DOMAIN got[c] \cup {i} : got'[c][j] = IF j = i THEN x ELSE got[c][j]
  BY DEF Receive, Domains
<1>2. got'[c][i] = x /\ x.ok = ok /\ x.data = data
  BY <1>1
<1>3. \A j : j \in Downloaded(c)' <=> j \in DOMAIN got'[c] /\ got'[c][j].ok
  BY DEF Downloaded
<1>4. \A j : j \in Downloaded(c) <=> j \in DOMAIN got[c] /\ got[c][j].ok
  BY DEF Downloaded
<1>5. \A j : j \in Downloaded(c)' <=> IF j = i THEN ok ELSE j \in Downloaded(c)
  BY <1>1, <1>2, <1>3, <1>4
<1>. QED BY <1>2, <1>5

\* A get begins with the list of a listed file, or with none.
LEMMA BeginGetFetches ==
  ASSUME Calm, NEW c \in Clients, BeginGet(c), pc'[c] \in Downloading
  PROVE  Fetched(c)' /\ pc'[c] # "getWait"
<1>. PICK f : f = File(c)
  OBVIOUS
<1>1. Domains /\ ListsInv /\ KnownOnce /\ ListedStored
  BY DEF Calm, DInv, ClientsInv, IInv, Quiet, NamesInv
<1>2. ASSUME NEW result, Return(c, result) PROVE FALSE
  BY <1>1, <1>2 DEF Return, Goto, Domains, Downloading
<1>3. /\ Walk(c, beginGetReply(f)) /\ Goto(c, "getBlock") /\ got' = [got EXCEPT ![c] = <<>>]
      /\ UNCHANGED <<op, nsVars, dsVars>>
  BY <1>2, Zenon DEF BeginGet, GetGoesOn, Die
<1>4. /\ list'[c] = beginGetReply(f) /\ at'[c] = 1 /\ got'[c] = <<>> /\ pc'[c] = "getBlock"
      /\ File(c)' = f /\ UNCHANGED disk
  BY <1>1, <1>3 DEF Walk, Goto, Domains, File, dsVars
<1>5. ASSUME NEW k \in 1 .. Len(beginGetReply(f)) PROVE OnDisk(f, beginGetReply(f)[k])
  <2>1. beginGetReply(f) \in Seq(BlockStore)
    BY <1>1, RepliesAreLists
  <2>2. beginGetReply(f)[k] \in ToSet(beginGetReply(f))
    BY <2>1, LenProperties DEF ToSet
  <2>3. Listed(f)
    <3>1. ASSUME beginGetReply(f) = <<>> PROVE FALSE
      BY <3>1
    <3>. QED BY <3>1 DEF beginGetReply
  <2>. PICK i : i = Find(fileList, f)
    OBVIOUS
  <2>4. i \in 1 .. Len(fileList) /\ fileList[i].fileName = f
    BY <1>1, <2>3, NameFound DEF Listed, KnownOnce, NameList
  <2>5. fileList[i] \in ToSet(fileList) /\ beginGetReply(f) = fileList[i].storeList
    BY <1>1, <2>3, <2>4, NameListElements DEF beginGetReply, ListsInv
  <2>. QED BY <1>1, <2>2, <2>4, <2>5 DEF ListedStored
<1>6. \A s : OnDisk(f, s)' = OnDisk(f, s)
  BY <1>4, Zenon DEF OnDisk
<1>7. Downloaded(c)' = 0 .. 0 - 1
  <2>1. DOMAIN got'[c] = {}
    BY <1>4
  <2>. QED BY <2>1 DEF Downloaded
<1>8. \A k \in 1 .. at'[c] - 1 : FALSE
  BY <1>4
<1>9. PICK stores : stores = beginGetReply(f)
  OBVIOUS
<1>10. \A k \in 1 .. Len(stores) : OnDisk(f, stores[k])'
  BY <1>5, <1>6, <1>9
<1>. QED BY <1>4, <1>7, <1>8, <1>9, <1>10 DEF Fetched

\* A replica that is on its disk has the size asked for.
LEMMA DiskMatches ==
  ASSUME DFSAssumption, AllRun, NEW f, NEW e, OnDisk(f, e)
  PROVE  SizeMatches(f, e) /\ Block(f, e) = e.blockHash
<1>1. Absent \notin BlockHashes /\ e.blockHash \in BlockHashes
  BY PiecesHaveDigests DEF OnDisk, DFSAssumption
<1>. QED BY <1>1 DEF SizeMatches, Block, OnDisk, AllRun

\* Each entry is passed over or asked for, never in vain.
LEMMA GetBlockFetches ==
  ASSUME Calm, Alone, FetchInv, NEW c \in Clients, GetBlock(c), pc'[c] \in Downloading
  PROVE  /\ Fetched(c)'
         /\ pc'[c] = "getWait" => \A call \in calls' : Streaming(call)'
<1>. PICK e, f : e = Entry(c) /\ f = File(c)
  OBVIOUS
<1>. PICK stores : stores = list[c]
  OBVIOUS
<1>1. Domains /\ ClientInv(c) /\ AllRun /\ Fetched(c)
  BY DEF Calm, DInv, ClientsInv, Quiet, FetchInv
<1>2. pc[c] = "getBlock" /\ ~AtEnd(c) /\ UNCHANGED <<op, nsVars>>
  BY DEF GetBlock
<1>3. /\ at[c] \in 1 .. Len(list[c]) /\ Len(list[c]) \in Nat /\ e = list[c][at[c]]
      /\ e.blockIdx \in Nat /\ e.blockSize \in Nat
  BY <1>1, <1>2, EntriesAreStores DEF ClientInv, AtEnd, Entry
<1>4. PICK n \in Nat : Downloaded(c) = 0 .. n - 1
  BY <1>1, <1>2 DEF Fetched, Downloading
<1>5. Cardinality(Downloaded(c)) = n
  <2>1. n \in Nat /\ 0 \in Int /\ n - 1 \in Int
    BY <1>4
  <2>2. Cardinality(0 .. n - 1) = IF 0 > n - 1 THEN 0 ELSE n - 1 - 0 + 1
    BY ONLY <2>1, FS_Interval
  <2>. QED BY ONLY <1>4, <2>1, <2>2
<1>6. /\ \A k \in 1 .. Len(list[c]) : OnDisk(f, list[c][k])
      /\ \A k \in 1 .. at[c] - 1 : list[c][k].blockIdx \in Downloaded(c)
  BY <1>1, <1>2 DEF Fetched, Downloading
<1>7. SizeMatches(f, e)
  BY <1>1, <1>3, <1>6, DiskMatches, DFSAssumption
<1>8. \/ e.blockIdx < n /\ Advance(c) /\ UNCHANGED <<dsVars, pc, list, got>>
      \/ /\ e.blockIdx = n /\ getBlock(c, f, e) /\ Goto(c, "getWait")
         /\ Receive(c, e, FALSE, <<>>) /\ UNCHANGED <<list, at>>
  <2>1. ~Return(c, "CANCELLED")
    BY <1>1 DEF Return, Goto, Domains, Downloading
  <2>. QED BY <1>5, <1>7, <2>1, Zenon DEF GetBlock
<1>9. CASE e.blockIdx < n /\ Advance(c) /\ UNCHANGED <<dsVars, pc, list, got>>
  <2>1. /\ at'[c] = at[c] + 1 /\ File(c)' = f /\ Downloaded(c)' = Downloaded(c)
        /\ UNCHANGED <<pc, list, disk>>
    BY <1>1, <1>2, <1>9 DEF Advance, Domains, File, Downloaded, dsVars
  <2>2. \A s : OnDisk(f, s)' = OnDisk(f, s)
    BY <2>1, Zenon DEF OnDisk
  <2>3. \A k \in 1 .. at'[c] - 1 : list[c][k].blockIdx \in Downloaded(c)
    <3>1. e.blockIdx \in Downloaded(c)
      BY <1>3, <1>4, <1>9
    <3>. QED BY <1>3, <1>6, <2>1, <3>1
  <2>4. pc'[c] = "getBlock"
    BY <1>2, <2>1
  <2>5. \A k \in 1 .. Len(stores) : OnDisk(f, stores[k])'
    BY <1>6, <2>2
  <2>. QED BY <1>4, <2>1, <2>3, <2>4, <2>5 DEF Fetched
<1>10. CASE /\ e.blockIdx = n /\ getBlock(c, f, e) /\ Goto(c, "getWait")
            /\ Receive(c, e, FALSE, <<>>) /\ UNCHANGED <<list, at>>
  <2>1. pc'[c] = "getWait" /\ File(c)' = f /\ Entry(c)' = e /\ UNCHANGED <<list, at, disk>>
    BY <1>1, <1>2, <1>10 DEF Goto, Domains, File, Entry, getBlock
  <2>2. Downloaded(c)' = 0 .. n - 1 /\ got'[c][n].data = <<>>
    <3>1. Downloaded(c)' = Downloaded(c) \ {n} /\ got'[c][n].data = <<>>
      BY <1>1, <1>10, ReceivedIs, FALSE \in BOOLEAN
    <3>. QED BY <1>4, <3>1
  <2>3. \A s : OnDisk(f, s)' = OnDisk(f, s)
    BY <2>1, Zenon DEF OnDisk
  <2>4. Fetched(c)'
    <3>1. \A k \in 1 .. Len(stores) : OnDisk(f, stores[k])'
      BY <1>6, <2>3
    <3>. QED BY <1>4, <1>6, <1>10, <2>1, <2>2, <3>1 DEF Fetched
  <2>5. calls' = {NewCall("getBlock", c, f, e, <<>>)}
    <3>1. calls = {}
      BY <1>2, CallsAwaited DEF Alone
    <3>. QED BY <1>10, <3>1 DEF getBlock
  <2>6. Streaming(NewCall("getBlock", c, f, e, <<>>))'
    <3>1. Received(c)' = <<>>
      BY <1>10, <2>1, <2>2 DEF Received
    <3>2. SubSeq(e.blockHash, 1, 0) = <<>> /\ Len(<<>>) = 0
      BY SubSeqEmpty, EmptySeq
    <3>. PICK new : new = NewCall("getBlock", c, f, e, <<>>)
      OBVIOUS
    <3>3. new.linked /\ ~new.short /\ new.caller = c
      BY DEF NewCall
    <3>4. Streaming(new)'
      <4>1. /\ new.linked /\ ~new.short /\ Len(Received(c)') <= e.blockSize
            /\ Received(c)' = SubSeq(e.blockHash, 1, Len(Received(c)'))
        BY <1>3, <3>1, <3>2, <3>3
      <4>. QED BY <2>1, <3>3, <4>1 DEF Streaming
    <3>. QED BY <3>4
  <2>. QED BY <2>4, <2>5, <2>6
<1>. QED BY <1>8, <1>9, <1>10

\* The beginning of a block with one more unit.
LEMMA OneMore ==
  ASSUME NEW S, NEW l \in Seq(S), NEW n \in 0 .. Len(l) - 1
  PROVE  Append(SubSeq(l, 1, n), l[n + 1]) = SubSeq(l, 1, n + 1)
<1>. PICK x, z : x = SubSeq(l, 1, n) /\ z = SubSeq(l, 1, n + 1)
  OBVIOUS
<1>1. Len(l) \in Nat /\ \A k \in 1 .. Len(l) : l[k] \in S
  BY LenProperties, ElementOfSeq
<1>2. x \in Seq(S) /\ Len(x) = n /\ \A k \in 1 .. n : x[k] = l[k]
  BY <1>1, SubSeqProperties
<1>3. z \in Seq(S) /\ Len(z) = n + 1 /\ \A k \in 1 .. n + 1 : z[k] = l[k]
  BY <1>1, SubSeqProperties
<1>4. l[n + 1] \in S
  BY <1>1
<1>5. /\ Append(x, l[n + 1]) \in Seq(S) /\ Len(Append(x, l[n + 1])) = n + 1
      /\ \A k \in 1 .. n : Append(x, l[n + 1])[k] = x[k]
      /\ Append(x, l[n + 1])[n + 1] = l[n + 1]
  BY <1>2, <1>4, AppendProperties
<1>6. \A k \in 1 .. n + 1 : Append(x, l[n + 1])[k] = z[k]
  BY <1>1, <1>2, <1>3, <1>5
<1>. QED BY <1>3, <1>5, <1>6, SeqEqual

\* The next unit is the one that comes next in the block.
LEMMA GetUnitFetches ==
  ASSUME Calm, Alone, FetchInv, NEW c \in Clients, GetUnit(c)
  PROVE  Fetched(c)' /\ \A call \in calls' : Streaming(call)'
<1>. PICK e, f, r : e = Entry(c) /\ f = File(c) /\ r = Received(c)
  OBVIOUS
<1>. PICK stores : stores = list[c]
  OBVIOUS
<1>. PICK k : k = Len(r) + 1
  OBVIOUS
<1>. PICK h : h = e.blockHash
  OBVIOUS
<1>1. Domains /\ ClientInv(c) /\ AllRun /\ Fetched(c) /\ OneCallEach
  BY DEF Calm, DInv, ClientsInv, Quiet, FetchInv
<1>2. /\ pc[c] = "getWait" /\ Len(r) < e.blockSize
      /\ UNCHANGED <<nsVars, pc, op, list, at>>
  BY DEF GetUnit
<1>3. /\ at[c] \in 1 .. Len(list[c]) /\ Len(list[c]) \in Nat /\ e = list[c][at[c]]
      /\ e.blockIdx \in Nat /\ e.blockSize \in Nat
  BY <1>1, <1>2, EntriesAreStores DEF ClientInv, AtEnd, Entry
<1>4. PICK n \in Nat : Downloaded(c) = 0 .. n - 1 /\ e.blockIdx = n
  BY <1>1, <1>2 DEF Fetched, Downloading
<1>5. /\ \A j \in 1 .. Len(stores) : OnDisk(f, stores[j])
      /\ \A j \in 1 .. at[c] - 1 : list[c][j].blockIdx \in Downloaded(c)
  BY <1>1, <1>2 DEF Fetched, Downloading
<1>6. /\ h \in Seq(Units) /\ Len(h) = e.blockSize
      /\ disk[e.server.address][<<f, e.blockIdx>>] = h
  <2>1. OnDisk(f, e)
    BY <1>3, <1>5
  <2>. QED BY <2>1 DEF OnDisk, Pieces
<1>7. PICK call \in calls :
        /\ call.caller = c
        /\ \E unit \in Reads(call, k, Buffer(c)) : Receive(c, e, FALSE, Append(r, unit))
        /\ GetReads(call, k)
  BY Zenon DEF GetUnit
<1>8. /\ call.method = "getBlock" /\ call.linked /\ ~call.short
      /\ OpenFile(call) = h
  <2>1. call.method = "getBlock"
    BY <1>2, <1>7, CallsAwaited
  <2>2. call.linked /\ ~call.short
    BY <1>7, <2>1 DEF FetchInv, Streaming
  <2>3. Awaited(call)
    BY <1>1 DEF OneCallEach
  <2>. QED BY <1>6, <1>7, <2>1, <2>2, <2>3 DEF Awaited, OpenFile, BlockName
<1>9. r = SubSeq(h, 1, Len(r)) /\ Len(r) \in Nat /\ k \in 1 .. Len(h)
  <2>1. r = SubSeq(h, 1, Len(r))
    BY <1>7, <1>8 DEF FetchInv, Streaming
  <2>2. Len(r) \in Nat
    <3>1. e.blockIdx \in DOMAIN got[c]
      BY <1>1, <1>2, <1>3 DEF ClientInv, Tried
    <3>2. r \in Seq(Units)
      BY <1>1, <1>2, <3>1 DEF ClientInv, Received
    <3>. QED BY <3>2, LenProperties
  <2>. QED BY <1>2, <1>3, <1>6, <2>1, <2>2
<1>10. Receive(c, e, FALSE, SubSeq(h, 1, k))
  <2>1. Reads(call, k, Buffer(c)) = {h[k]}
    BY <1>8, <1>9 DEF Reads
  <2>2. Append(r, h[k]) = SubSeq(h, 1, k)
    <3>1. Len(r) \in 0 .. Len(h) - 1
      BY <1>6, <1>9, LenProperties
    <3>2. Append(SubSeq(h, 1, Len(r)), h[Len(r) + 1]) = SubSeq(h, 1, Len(r) + 1)
      BY <1>6, <3>1, OneMore
    <3>. QED BY <1>9, <3>2
  <2>. QED BY <1>7, <2>1, <2>2
<1>11. Len(SubSeq(h, 1, k)) = k
  BY <1>6, <1>9, SubSeqProperties, ElementOfSeq
<1>12. /\ File(c)' = f /\ Entry(c)' = e /\ UNCHANGED <<pc, list, at, disk>>
  BY <1>2, <1>7 DEF File, Entry, GetReads
<1>13. Downloaded(c)' = 0 .. n - 1 /\ got'[c][n].data = SubSeq(h, 1, k)
  <2>1. Downloaded(c)' = Downloaded(c) \ {n} /\ got'[c][n].data = SubSeq(h, 1, k)
    BY <1>1, <1>4, <1>10, ReceivedIs, FALSE \in BOOLEAN
  <2>. QED BY <1>4, <2>1
<1>14. Fetched(c)'
  <2>1. \A s : OnDisk(f, s)' = OnDisk(f, s)
    BY <1>12, Zenon DEF OnDisk
  <2>2. \A j \in 1 .. Len(stores) : OnDisk(f, stores[j])'
    BY <1>5, <2>1
  <2>. QED BY <1>4, <1>5, <1>12, <1>13, <2>2 DEF Fetched
<1>. PICK new : new = [call EXCEPT !.short = @ \/ k > Len(OpenFile(call))]
  OBVIOUS
<1>15. calls' = {new}
  <2>1. calls = {call}
    <3>1. \A x \in calls : x.caller = c
      BY CallsAwaited DEF Alone
    <3>. QED BY <1>1, <1>7, <3>1 DEF OneCallEach
  <2>2. calls' = (calls \ {call}) \cup {new}
    BY <1>7 DEF GetReads, Replace
  <2>. QED BY <2>1, <2>2
<1>16. /\ new.caller = c /\ new.linked /\ ~new.short
  <2>1. call \in BlockCall
    BY DEF Calm, DInv, ServersInv, CallInv
  <2>2. ~(k > Len(OpenFile(call)))
    BY <1>6, <1>8, <1>9, LenProperties
  <2>. QED BY <1>7, <1>8, <2>1, <2>2 DEF BlockCall
<1>17. Streaming(new)'
  <2>1. Received(c)' = SubSeq(h, 1, k)
    BY <1>4, <1>12, <1>13 DEF Received
  <2>2. Len(Received(c)') = k /\ k <= e.blockSize
    BY <1>6, <1>9, <1>11, <2>1
  <2>. QED BY <1>12, <1>16, <2>1, <2>2 DEF Streaming
<1>. QED BY <1>14, <1>15, <1>17

\* A block that has come to its end has its digest.
LEMMA GetBlockDoneFetches ==
  ASSUME Calm, Alone, FetchInv, NEW c \in Clients, GetBlockDone(c)
  PROVE  Fetched(c)' /\ pc'[c] # "getWait"
<1>. PICK e, f, r : e = Entry(c) /\ f = File(c) /\ r = Received(c)
  OBVIOUS
<1>. PICK stores : stores = list[c]
  OBVIOUS
<1>. PICK h : h = e.blockHash
  OBVIOUS
<1>1. Domains /\ ClientInv(c) /\ Fetched(c)
  BY DEF Calm, DInv, ClientsInv, FetchInv
<1>2. /\ pc[c] = "getWait" /\ Len(r) = e.blockSize /\ UNCHANGED <<op, list, disk>>
      /\ pc'[c] = "getBlock" /\ at'[c] = at[c] + 1 /\ File(c)' = f
  BY <1>1 DEF GetBlockDone, Goto, Advance, Domains, File
<1>3. /\ at[c] \in 1 .. Len(list[c]) /\ Len(list[c]) \in Nat /\ e = list[c][at[c]]
  BY <1>1, <1>2, EntriesAreStores DEF ClientInv, AtEnd, Entry
<1>4. PICK n \in Nat : Downloaded(c) = 0 .. n - 1 /\ e.blockIdx = n
  BY <1>1, <1>2 DEF Fetched, Downloading
<1>5. /\ \A j \in 1 .. Len(stores) : OnDisk(f, stores[j])
      /\ \A j \in 1 .. at[c] - 1 : stores[j].blockIdx \in Downloaded(c)
  BY <1>1, <1>2 DEF Fetched, Downloading
<1>6. h \in Seq(Units) /\ Len(h) = e.blockSize
  <2>1. OnDisk(f, e)
    BY <1>3, <1>5
  <2>. QED BY <2>1 DEF OnDisk, Pieces
<1>7. r = h
  <2>1. PICK call \in calls : call.caller = c
    BY Zenon DEF GetBlockDone
  <2>2. call.method = "getBlock"
    BY <1>2, <2>1, CallsAwaited
  <2>3. r = SubSeq(h, 1, Len(r))
    BY <2>1, <2>2 DEF FetchInv, Streaming
  <2>4. SubSeq(h, 1, Len(h)) = h
    BY <1>6, SubSeqFull
  <2>. QED BY <1>2, <1>6, <2>3, <2>4
<1>8. Downloaded(c)' = 0 .. n
  <2>1. Receive(c, e, TRUE, r)
    BY <1>7, Zenon DEF GetBlockDone
  <2>2. Downloaded(c)' = Downloaded(c) \cup {n}
    BY <1>1, <1>4, <2>1, ReceivedIs, TRUE \in BOOLEAN
  <2>. QED BY <1>4, <2>2
<1>9. \A j \in 1 .. at'[c] - 1 : stores[j].blockIdx \in Downloaded(c)'
  <2>1. \A j \in 1 .. at[c] - 1 : stores[j].blockIdx \in 0 .. n
    BY <1>4, <1>5
  <2>2. stores[at[c]].blockIdx \in 0 .. n
    BY <1>3, <1>4
  <2>. QED BY <1>2, <1>3, <1>8, <2>1, <2>2
<1>10. \A j \in 1 .. Len(stores) : OnDisk(f, stores[j])'
  <2>1. \A s : OnDisk(f, s)' = OnDisk(f, s)
    BY <1>2, Zenon DEF OnDisk
  <2>. QED BY <1>5, <2>1
<1>11. \E m \in Nat : Downloaded(c)' = 0 .. m - 1
  BY <1>4, <1>8, n = (n + 1) - 1, n + 1 \in Nat
<1>. QED BY <1>2, <1>9, <1>10, <1>11 DEF Fetched

\* Nobody else takes a step that a get could notice.
LEMMA FetchStays ==
  ASSUME Calm, Calm', Alone, FetchInv, [Next]_dfsVars, ~Crashes
  PROVE  FetchInv'
<1>1. Domains /\ Domains'
  BY DEF Calm, DInv, ClientsInv
<1>2. ASSUME NEW c \in Clients, pc'[c] \notin Downloading PROVE FetchInv'
  BY <1>2, FetchGoesOn DEF Fetched, Downloading
<1>3. ASSUME NEW c \in Clients, Step(c), pc'[c] \in Downloading PROVE FetchInv'
  <2>1. CASE BeginGet(c)
    BY <1>3, <2>1, BeginGetFetches, FetchGoesOn
  <2>2. CASE GetBlock(c)
    BY <1>3, <2>2, GetBlockFetches, FetchGoesOn
  <2>3. CASE GetUnit(c)
    BY <2>3, GetUnitFetches, FetchGoesOn
  <2>4. CASE GetBlockDone(c)
    BY <2>4, GetBlockDoneFetches, FetchGoesOn
  <2>5. ASSUME NEW label, Goto(c, label) PROVE label \in Downloading
    BY <1>1, <1>3, <2>5 DEF Goto, Domains
  <2>6. ~BeginRm(c) /\ ~RmBlock(c) /\ ~RmBlockDone(c) /\ ~CommitRm(c) /\ ~BeginPut(c)
        /\ ~PutBlock(c) /\ ~PutBlockDone(c) /\ ~CommitPut(c) /\ ~CommitGet(c)
    <3>1. \A label \in {"idle", "rmBlock", "rmWait", "abortRm", "beginPut", "putBlock", "putWait",
                        "abortPut"} : ~Goto(c, label)
      BY <2>5 DEF Downloading
    <3>. QED BY <3>1 DEF BeginRm, RmGoesOn, RmBlock, RmBlockDone, CommitRm, EndRm, BeginPut, PutGoesOn, PutBlock,
                         PutBlockDone, CommitPut, CommitGet, Return
  <2>. QED BY <1>3, <2>1, <2>2, <2>3, <2>4, <2>6, NothingFails, Zenon DEF Step
<1>4. ASSUME NEW c \in Clients, Begin(c) PROVE FetchInv'
  <2>1. pc'[c] \in {"beginRm", "beginGet"}
    BY <1>1, <1>4 DEF Begin, StartPut, StartRm, StartGet, Goto, Domains
  <2>. QED BY <1>2, <2>1 DEF Downloading
<1>5. ASSUME UNCHANGED <<pc, op, list, at, got, disk, calls>> PROVE FetchInv'
  <2>1. \A f, s : OnDisk(f, s)' = OnDisk(f, s)
    BY <1>5, Zenon DEF OnDisk
  <2>2. ASSUME NEW c \in Clients PROVE Fetched(c)'
    <3>1. Fetched(c) /\ File(c)' = File(c) /\ Entry(c)' = Entry(c)
          /\ Downloaded(c)' = Downloaded(c)
      BY <1>5 DEF FetchInv, File, Entry, Downloaded
    <3>. QED BY <1>5, <2>1, <3>1 DEF Fetched
  <2>3. ASSUME NEW call \in calls PROVE Streaming(call)'
    BY <1>5 DEF FetchInv, Streaming, Received, Entry
  <2>. QED BY <1>5, <2>2, <2>3 DEF FetchInv
<1>6. CASE UserEdits
  <2>1. UNCHANGED <<pc, op, list, at, got, disk, calls>>
    BY <1>6 DEF UserEdits, Edit, dsVars
  <2>. QED BY <1>5, <2>1
<1>7. ASSUME NEW call \in calls, Serve(call) PROVE FetchInv'
  <2>1. call.caller \in Clients /\ call.caller # Orphan
    BY CallsAwaited, DFSAssumption DEF DFSAssumption
  <2>2. call.method = "putBlock" /\ UNCHANGED clVars
    BY <1>7, <2>1, Zenon DEF Serve, PutWrites, PutReports
  <2>3. pc[call.caller] = "putWait" /\ pc'[call.caller] = pc[call.caller]
    BY <2>2, CallsAwaited DEF clVars
  <2>. QED BY <1>2, <2>1, <2>3 DEF Downloading
<1>8. ~Restarts
  <2>1. up /\ starting = {} /\ running = Servers
    BY DEF Calm, Quiet, AllRun
  <2>. QED BY <2>1 DEF Restarts, RegisterDataServer, Listen
<1>9. CASE UNCHANGED dfsVars
  <2>1. UNCHANGED <<pc, op, list, at, got, disk, calls>>
    BY <1>9 DEF dfsVars, vars, dsVars, clVars
  <2>. QED BY <1>5, <2>1
<1>. QED BY <1>2, <1>3, <1>4, <1>6, <1>7, <1>8, <1>9, Zenon DEF Next

\* At the end of its list a get has every block.
LEMMA CommitGetComposes ==
  ASSUME Calm, Alone, FetchInv, NEW c \in Clients, Matching(c), CommitGet(c)
  PROVE  local'[c][File(c)] = ContentOf(list[c])
<1>1. Domains /\ ClientInv(c) /\ Fetched(c)
  BY DEF Calm, DInv, ClientsInv, FetchInv
<1>2. pc[c] = "getBlock" /\ AtEnd(c)
  BY DEF CommitGet
<1>. PICK N : N = Len(list[c])
  OBVIOUS
<1>3. /\ N \in Nat /\ at[c] - 1 = N /\ DOMAIN list[c] = 1 .. N
  BY <1>1, <1>2, EntriesAreStores DEF ClientInv, AtEnd
<1>4. /\ \A k \in 1 .. N : list[c][k].blockIdx \in Downloaded(c)
      /\ \A i \in Downloaded(c) : \E k \in 1 .. N : i = list[c][k].blockIdx
  BY <1>1, <1>2, <1>3 DEF Fetched, Downloading, ClientInv, Tried, Downloaded
<1>5. {e.blockIdx : e \in ToSet(list[c])} = Downloaded(c)
  BY <1>3, <1>4 DEF ToSet
<1>6. Composition(c) = ContentOf(list[c])
  BY <1>1, <1>2, <1>5, MatchingComposes
<1>7. local'[c][File(c)] = Composition(c)
  BY <1>1, <1>2 DEF CommitGet, ClientInv, Domains, Copies
<1>. QED BY <1>6, <1>7

AloneInv == faults = 0 /\ FetchInv /\ \A c \in Clients : Matching(c)

\* As long as nothing crashes, a get of a client that is alone and downloads what
\* it asked for ends with the version the name server answered for.
THEOREM GetsAreListed ==
  Alone /\ Servers # {} /\ BlockIndices = Nat /\ MaxFaults = 0 => (Spec => GetIsListed)
<1>. SUFFICES ASSUME Alone, Servers # {}, BlockIndices = Nat, MaxFaults = 0
              PROVE  Spec => GetIsListed
  OBVIOUS
<1>1. OneWriter
  BY DFSAssumption DEF Alone, OneWriter, DFSAssumption
<1>2. Init => AloneInv
  BY DEF Init, AloneInv, FetchInv, Fetched, Matching, Downloading
<1>3. AloneInv /\ QuietInv /\ QuietInv' /\ DInv /\ DInv' /\ NamesInv /\ NamesInv'
        /\ [Next]_dfsVars => AloneInv'
  <2>. SUFFICES ASSUME AloneInv, QuietInv, QuietInv', DInv, DInv', NamesInv, NamesInv',
                       [Next]_dfsVars
                PROVE  AloneInv'
    OBVIOUS
  <2>1. ~Crashes
    BY DEF Crashes, AloneInv
  <2>2. UNCHANGED faults
    BY <2>1 DEF Next, Begin, Step, Serve, UserEdits, Restarts, bounds, dfsVars
  <2>3. Calm /\ Calm'
    BY <2>2 DEF AloneInv, QuietInv, NoFault, Calm
  <2>4. FetchInv'
    BY <2>1, <2>3, FetchStays DEF AloneInv
  <2>5. ASSUME NEW c \in Clients PROVE Matching(c)'
    BY MatchingStays DEF AloneInv, MInv
  <2>. QED BY <2>2, <2>4, <2>5 DEF AloneInv
<1>4. ASSUME AloneInv, QuietInv, DInv, NamesInv, [Next]_dfsVars,
             NEW c \in Clients, pc[c] = "getBlock", Returns(c, "get", "OK")
      PROVE  local'[c][File(c)] = ContentOf(list[c])
  <2>1. Calm /\ FetchInv /\ Matching(c) /\ Domains
    BY <1>4 DEF AloneInv, QuietInv, NoFault, Calm, DInv, ClientsInv
  <2>2. pc[c] # "idle" /\ pc'[c] = "idle" /\ status'[c] = "OK"
    BY <1>4 DEF Returns
  <2>3. Step(c)
    BY <1>4, <2>1, <2>2, OnlySteps DEF AloneInv
  <2>4. GetBlock(c) \/ CommitGet(c)
    BY <1>4, <2>3, Zenon
       DEF Step, BeginRm, RmGoesOn, RmBlock, RmBlockDone, AbortRm, CommitRm, BeginPut, PutGoesOn, PutBlock,
           PutBlockDone, AbortPut, CommitPut, BeginGet, GetGoesOn, GetUnit, GetBlockDone, CallFails
  <2>5. ~GetBlock(c)
    <3>1. ASSUME GetBlock(c)
          PROVE  \/ UNCHANGED pc \/ Goto(c, "getWait")
                 \/ status' = [status EXCEPT ![c] = "CANCELLED"]
      BY <3>1, Zenon DEF GetBlock, Return
    <3>. QED BY <2>1, <2>2, <3>1 DEF Goto, Domains
  <2>. QED BY <2>1, <2>4, <2>5, CommitGetComposes
<1>5. AloneInv /\ QuietInv /\ DInv /\ NamesInv /\ [Next]_dfsVars =>
        [\A c \in Clients : pc[c] = "getBlock" /\ Returns(c, "get", "OK") =>
           local'[c][File(c)] = ContentOf(list[c])]_dfsVars
  BY <1>4
<1>6. Spec => []DInv /\ []NamesInv /\ []QuietInv
  BY <1>1, TypesKept, NamesHold, QuietHolds
<1>. QED BY <1>2, <1>3, <1>5, <1>6, PTL DEF Spec, GetIsListed
============================================================================
