-------------------------- MODULE GreetingProxyProofs --------------------------
(***************************************************************************)
(* Theorems about the proxy of MultipleRPC, for any number of greeting     *)
(* servers, clients, calls and kills: its types, the entries it keeps as   *)
(* long as no two changes race, and what a successful call has reached.    *)
(***************************************************************************)
EXTENDS GreetingProxy, ListProofs

-----------------------------------------------------------------------------
(***************************************************************************)
(* Types.                                                                  *)
(***************************************************************************)
Addresses == GreetingServers \cup {Garbage}

ChangeCall ==
  [method : {"SetServerInfo", "UnsetServerInfo"}, who : GreetingServers,
   run : Nat, at : Nat, end : Nat, present : SUBSET GreetingServers,
   disturbed : BOOLEAN, stale : BOOLEAN]

ReadCall ==
  [method : {"GetServerInfo", "SayHello"}, who : Clients,
   run : Nat, at : Nat \ {0}, end : Nat, present : SUBSET GreetingServers,
   disturbed : BOOLEAN, stale : BOOLEAN]

VectorTypes ==
  /\ server_list \in Seq(Addresses)
  /\ capacity \in Nat /\ Len(server_list) <= capacity

ProcessTypes ==
  /\ server \in [GreetingServers ->
                   {"down", "registering", "starting", "listening", "stopping"}]
  /\ starts \in [GreetingServers -> Nat] /\ left \in [GreetingServers -> Nat]
  /\ result \in [Clients -> {"none", "waiting", "OK", "CANCELLED", "failed"}]
  /\ heard \in [Clients -> Seq(Addresses)] /\ called \in [Clients -> Nat]

Types ==
  /\ proxyUp \in BOOLEAN /\ raced \in BOOLEAN
  /\ VectorTypes
  /\ handlers \subseteq ChangeCall \cup ReadCall
  /\ ProcessTypes

(***************************************************************************)
(* The inductive invariant.  A call waits for its handler, which is the    *)
(* only one of its client; and until two changes race, the vector is kept  *)
(* as a ledger.                                                            *)
(***************************************************************************)
Sets(s)   == {h \in handlers : h.method = "SetServerInfo" /\ h.who = s}
Unsets(s) == {h \in handlers : h.method = "UnsetServerInfo" /\ h.who = s}

One(condition) == IF condition THEN 1 ELSE 0

\* What the vector and the pending registrations come to: the runs that left
\* without a word, the run that is there, and those that are signing off.
Ledger(s) ==
  /\ IsFiniteSet(Sets(s)) /\ IsFiniteSet(Unsets(s))
  /\ Count(s) + Cardinality(Sets(s)) =
       left[s] + One(server[s] \in {"registering", "starting", "listening"})
         + Cardinality(Unsets(s))
  /\ Cardinality(Sets(s)) <= left[s] + One(server[s] = "registering")
  /\ server[s] = "registering" => \E h \in Sets(s) : h.run = starts[s]

\* A change under way has the vector before it that it began with.
Prepared(h) ==
  /\ ~h.disturbed /\ ~h.stale /\ h.run <= starts[h.who]
  /\ h.method = "UnsetServerInfo" =>
       /\ h.at \in 1 .. Len(server_list) /\ server_list[h.at] = h.who
       /\ h.run = starts[h.who] => server[h.who] \in {"stopping", "down"}

\* A call in whose time nothing changed has passed on what lies behind it.
Reading(h) ==
  /\ ~h.stale /\ h.end = Len(server_list) /\ h.at <= Len(server_list) + 1
  /\ \A k \in 1 .. h.at - 1 : server_list[k] \in ToSet(heard[h.who])
  /\ h.present \subseteq ToSet(server_list)

Orderly ==
  /\ \A s \in GreetingServers : Ledger(s)
  /\ \A h \in handlers : Changing(h) => Prepared(h)
  /\ \A h \in handlers : ~Changing(h) /\ ~h.disturbed => Reading(h)

CallsHeld ==
  /\ \A h \in handlers : ~Changing(h) => result[h.who] = "waiting"
  /\ \A g, h \in handlers : ~Changing(g) /\ ~Changing(h) /\ g.who = h.who => g = h
  /\ ~proxyUp => handlers = {}

PInv == Types /\ CallsHeld /\ (proxyUp /\ ~raced => Orderly)

-----------------------------------------------------------------------------
(***************************************************************************)
(* Every step keeps the types.                                             *)
(***************************************************************************)

\* The kind of a handler is told by its method.
LEMMA HandlerKinds ==
  /\ \A h \in ChangeCall : Changing(h) /\ h.who \in GreetingServers /\ h.at \in Nat
  /\ \A h \in ReadCall :
       ~Changing(h) /\ h.who \in Clients /\ h.at \in Nat /\ h.at # 0 /\ h.at >= 1
BY DEF ChangeCall, ReadCall, Changing

\* What becomes of the other handlers when a change ends.
LEMMA DisturbedHandlers ==
  ASSUME handlers \subseteq ChangeCall \cup ReadCall, raced \in BOOLEAN,
         NEW h, NEW reallocated \in BOOLEAN, Disturb(h, reallocated)
  PROVE  /\ handlers' \subseteq ChangeCall \cup ReadCall
         /\ raced' \in BOOLEAN
         /\ raced' <=> raced \/ \E g \in handlers \ {h} : Changing(g)
         /\ \A f \in handlers' :
              /\ f.disturbed
              /\ \E g \in handlers \ {h} : f.method = g.method /\ f.who = g.who
         /\ \A f1, f2 \in handlers' : \E g1, g2 \in handlers \ {h} :
              /\ f1.method = g1.method /\ f1.who = g1.who
              /\ f2.method = g2.method /\ f2.who = g2.who
              /\ g1 = g2 => f1 = f2
<1>. DEFINE After(g) == [g EXCEPT !.disturbed = TRUE, !.stale = @ \/ reallocated]
<1>1. handlers' = {After(g) : g \in handlers \ {h}}
  BY DEF Disturb
<1>2. raced' \in BOOLEAN /\ (raced' <=> raced \/ \E g \in handlers \ {h} : Changing(g))
  BY Zenon DEF Disturb
<1>3. ASSUME NEW g \in handlers \ {h}
      PROVE  /\ After(g) \in ChangeCall \cup ReadCall
             /\ After(g).disturbed
             /\ After(g).method = g.method /\ After(g).who = g.who
  <2>1. g \in ChangeCall \cup ReadCall
    BY <1>3
  <2>2. (g.stale \/ reallocated) \in BOOLEAN
    OBVIOUS
  <2>. DEFINE late == (g.stale \/ reallocated)
  <2>3. After(g) = [g EXCEPT !.disturbed = TRUE, !.stale = late]
    OBVIOUS
  <2>. HIDE DEF late
  <2>4. late \in BOOLEAN
    BY <2>2 DEF late
  <2>. HIDE DEF After
  <2>5. CASE g \in ChangeCall
    BY <2>3, <2>4, <2>5 DEF ChangeCall
  <2>6. CASE g \in ReadCall
    BY <2>3, <2>4, <2>6 DEF ReadCall
  <2>. QED BY <2>1, <2>5, <2>6
<1>. HIDE DEF After
<1>4. \A f1, f2 \in handlers' : \E g1, g2 \in handlers \ {h} :
        f1 = After(g1) /\ f2 = After(g2)
  BY <1>1
<1>5. \A f1, f2 \in handlers' : \E g1, g2 \in handlers \ {h} :
              /\ f1.method = g1.method /\ f1.who = g1.who
              /\ f2.method = g2.method /\ f2.who = g2.who
              /\ g1 = g2 => f1 = f2
  BY <1>3, <1>4
<1>. QED BY <1>1, <1>2, <1>3, <1>5

\* A handler that begins.
LEMMA NewHandlerType ==
  ASSUME Types, NEW run \in Nat, NEW start \in Nat
  PROVE  /\ \A s \in GreetingServers, m \in {"SetServerInfo", "UnsetServerInfo"} :
              NewHandler(m, s, run, start) \in ChangeCall
         /\ \A c \in Clients, m \in {"GetServerInfo", "SayHello"} :
              start # 0 => NewHandler(m, c, run, start) \in ReadCall
<1>1. Len(server_list) \in Nat /\ Listening \in SUBSET GreetingServers
  BY LenProperties DEF Types, VectorTypes, Listening
<1>. HIDE DEF Types, Listening
<1>. QED BY <1>1 DEF NewHandler, ChangeCall, ReadCall

\* Room is made for what is to be stored.
LEMMA RoomSuffices ==
  ASSUME capacity \in Nat, NEW n \in Nat
  PROVE  Room(n) \in Nat /\ n <= Room(n)
<1>1. CASE n <= capacity
  BY <1>1 DEF Room
<1>2. CASE ~(n <= capacity)
  <2>1. Room(n) = Max({1, 2 * capacity, n})
    BY <1>2 DEF Room
  <2>2. 2 * capacity \in Nat
    OBVIOUS
  <2>. QED BY <2>1, <2>2, MaxOfThree
<1>. QED BY <1>1, <1>2

\* The search of an address finds one, if it is there.
LEMMA SearchFinds ==
  ASSUME VectorTypes, NEW s
  PROVE  /\ Find(s) \in Nat
         /\ s \in ToSet(server_list) =>
              Find(s) \in 1 .. Len(server_list) /\ server_list[Find(s)] = s
<1>. DEFINE I == {i \in 1 .. Len(server_list) : server_list[i] = s}
<1>1. Find(s) = IF I # {} THEN Min(I) ELSE 0
  BY Zenon DEF Find, SelectInSeq
<1>2. I # {} => Min(I) \in I
  BY MinOfNats, I \in SUBSET Nat
<1>3. s \in ToSet(server_list) => I # {}
  BY LenProperties DEF ToSet, VectorTypes
<1>. QED BY <1>1, <1>2, <1>3

\* What Answer makes of the servers.
LEMMA AnswerTypes ==
  ASSUME ProcessTypes, NEW h, NEW waits,
         NEW next \in {"starting", "down"}, Answer(h, waits, next),
         UNCHANGED <<starts, left, clientVars>>
  PROVE  ProcessTypes'
BY DEF ProcessTypes, Answer, clientVars

\* A registration.
LEMMA SetTypes ==
  ASSUME Types, NEW h \in handlers, SetServerInfo(h)
  PROVE  Types'
<1>. USE DEF Types
<1>1. h \in ChangeCall /\ h.who \in Addresses /\ h.at \in Nat
  BY HandlerKinds DEF SetServerInfo, Changing, Addresses
<1>2. server_list' \in Seq(Addresses) /\ Len(server_list') \in Nat
  <2>. DEFINE e(k) == IF k = h.at THEN h.who
                      ELSE IF k <= Len(server_list) THEN server_list[k] ELSE Garbage
  <2>1. \A k \in 1 .. h.at : e(k) \in Addresses
    BY <1>1, ElementOfSeq, LenProperties DEF VectorTypes, Addresses
  <2>2. AppendedLate(h) \in Seq(Addresses)
    <3>1. AppendedLate(h) = [k \in 1 .. h.at |-> e(k)]
      BY DEF AppendedLate
    <3>. HIDE DEF e
    <3>. QED BY <1>1, <2>1, <3>1, IsASeq
  <2>3. Append(server_list, h.who) \in Seq(Addresses)
    BY <1>1, AppendProperties DEF VectorTypes
  <2>. QED BY <2>2, <2>3, LenProperties DEF SetServerInfo
<1>3. VectorTypes'
  BY <1>2, RoomSuffices DEF VectorTypes, SetServerInfo
<1>4. handlers' \subseteq ChangeCall \cup ReadCall /\ raced' \in BOOLEAN
  BY DisturbedHandlers, (capacity' # capacity) \in BOOLEAN DEF SetServerInfo
<1>5. ProcessTypes'
  BY AnswerTypes DEF SetServerInfo
<1>. QED BY <1>3, <1>4, <1>5 DEF SetServerInfo

\* What an erasure leaves.
LEMMA EraseShortens ==
  ASSUME VectorTypes, NEW h \in ChangeCall, h.at # 0, Erase(h)
  PROVE  server_list' \in Seq(Addresses) /\ Len(server_list') <= Len(server_list)
<1>1. server_list \in Seq(Addresses) /\ Len(server_list) \in Nat /\ Len(server_list) # 0
  BY LenProperties, EmptySeq DEF VectorTypes, Erase
<1>2. CASE ~h.stale /\ h.at <= Len(server_list)
  <2>1. h.at \in 1 .. Len(server_list)
    BY <1>1, <1>2, HandlerKinds
  <2>2. server_list' = RemoveAt(server_list, h.at)
    BY <1>2 DEF Erase
  <2>. QED BY <1>1, <2>1, <2>2, RemoveAtProperties
<1>3. CASE ~(~h.stale /\ h.at <= Len(server_list))
  <2>1. server_list' = SubSeq(server_list, 1, Len(server_list) - 1)
    BY <1>3, Zenon DEF Erase, Front
  <2>2. \A k \in 1 .. Len(server_list) - 1 : server_list[k] \in Addresses
    BY <1>1, ElementOfSeq
  <2>. QED BY <1>1, <2>1, <2>2, SubSeqProperties
<1>. QED BY <1>2, <1>3

\* A deregistration.
LEMMA UnsetTypes ==
  ASSUME Types, NEW h \in handlers, UnsetServerInfo(h)
  PROVE  Types'
<1>. USE DEF Types
<1>1. h \in ChangeCall
  BY HandlerKinds DEF UnsetServerInfo, Changing
<1>2. ProcessTypes'
  BY AnswerTypes DEF UnsetServerInfo
<1>3. CASE h.at # 0 /\ Erase(h) /\ Disturb(h, FALSE)
  <2>1. VectorTypes'
    BY <1>1, <1>3, EraseShortens, LenProperties DEF VectorTypes, UnsetServerInfo
  <2>2. handlers' \subseteq ChangeCall \cup ReadCall /\ raced' \in BOOLEAN
    BY <1>3, DisturbedHandlers
  <2>. QED BY <1>2, <2>1, <2>2 DEF UnsetServerInfo
<1>4. CASE handlers' = handlers \ {h} /\ UNCHANGED <<server_list, raced>>
  BY <1>2, <1>4 DEF UnsetServerInfo, VectorTypes
<1>. QED BY <1>3, <1>4 DEF UnsetServerInfo

\* A call that reads.
LEMMA ReadTypes ==
  ASSUME Types, NEW h \in handlers, GetServerInfo(h) \/ SayHello(h)
  PROVE  /\ Types'
         /\ h \in ReadCall
         /\ \/ /\ \E a \in Addresses : WriteReply(h, a)
               /\ [h EXCEPT !.at = @ + 1] \in ReadCall
            \/ Finish(h, "OK") \/ Finish(h, "CANCELLED")
<1>. USE DEF Types
<1>1. h \in ReadCall
  BY HandlerKinds DEF GetServerInfo, SayHello, Changing
<1>2. ASSUME h.at <= Len(server_list) PROVE server_list[h.at] \in Addresses
  BY <1>1, <1>2, HandlerKinds, ElementOfSeq, LenProperties DEF VectorTypes
<1>3. Element(h) \in Addresses
  BY <1>2 DEF Element, Addresses
<1>4. \/ \E a \in Addresses : WriteReply(h, a)
      \/ Finish(h, "OK") \/ Finish(h, "CANCELLED")
  BY <1>2, <1>3, Zenon DEF GetServerInfo, SayHello
<1>5. [h EXCEPT !.at = @ + 1] \in ReadCall
  BY <1>1 DEF ReadCall
<1>6. ASSUME NEW a \in Addresses, WriteReply(h, a) PROVE Types'
  <2>1. handlers' \subseteq ChangeCall \cup ReadCall
    BY <1>5, <1>6 DEF WriteReply
  <2>2. heard' \in [Clients -> Seq(Addresses)]
    <3>1. \A c \in Clients : Append(heard[c], a) \in Seq(Addresses)
      BY AppendProperties DEF ProcessTypes
    <3>. QED BY <1>6, <3>1 DEF ProcessTypes, WriteReply
  <2>3. ProcessTypes'
    BY <1>6, <2>2 DEF ProcessTypes, WriteReply, serverVars
  <2>4. VectorTypes'
    BY <1>6 DEF VectorTypes, WriteReply
  <2>. QED BY <1>6, <2>1, <2>3, <2>4 DEF WriteReply
<1>7. ASSUME NEW status \in {"OK", "CANCELLED"}, Finish(h, status) PROVE Types'
  <2>1. heard' \in [Clients -> Seq(Addresses)]
    BY <1>7, EmptySeq DEF ProcessTypes, Finish
  <2>2. ProcessTypes'
    BY <1>7, <2>1 DEF ProcessTypes, Finish, serverVars
  <2>3. VectorTypes'
    BY <1>7 DEF VectorTypes, Finish
  <2>. QED BY <1>7, <2>2, <2>3 DEF Finish
<1>. QED BY <1>1, <1>4, <1>5, <1>6, <1>7

\* The end of the proxy.
LEMMA StopTypes ==
  ASSUME Types, StopProxy
  PROVE  Types'
<1>. USE DEF Types
<1>1. VectorTypes'
  BY EmptySeq DEF VectorTypes, StopProxy
<1>2. ProcessTypes'
  BY EmptySeq DEF ProcessTypes, StopProxy
<1>. QED BY <1>1, <1>2 DEF StopProxy

\* The steps of the greeting servers.
LEMMA ServerTypes ==
  ASSUME Types, NEW s \in GreetingServers,
         StartServer(s) \/ BuildAndStart(s) \/ Shutdown(s) \/ KillServer(s)
  PROVE  Types'
<1>. USE DEF Types
<1>1. Len(server_list) \in Nat /\ starts[s] \in Nat /\ left[s] \in Nat
  BY LenProperties DEF VectorTypes, ProcessTypes
<1>2. UNCHANGED <<proxyUp, server_list, capacity, raced, clientVars>>
  BY Zenon DEF StartServer, BuildAndStart, Shutdown, KillServer, proxyVars
<1>3. VectorTypes'
  BY <1>2 DEF VectorTypes
<1>4. handlers' \subseteq ChangeCall \cup ReadCall
  <2>1. CASE StartServer(s)
    <3>. DEFINE n == NewHandler("SetServerInfo", s, starts[s] + 1, Len(server_list) + 1)
    <3>1. n \in ChangeCall
      BY <1>1, NewHandlerType
    <3>. HIDE DEF n
    <3>. QED BY <2>1, <3>1 DEF StartServer, n
  <2>2. CASE Shutdown(s)
    <3>. DEFINE n == NewHandler("UnsetServerInfo", s, starts[s], Find(s))
    <3>1. Find(s) \in Nat
      BY SearchFinds
    <3>2. n \in ChangeCall
      BY <1>1, <3>1, NewHandlerType
    <3>. HIDE DEF n
    <3>3. handlers' = handlers \cup {n} \/ handlers' = handlers
      BY <2>2, Zenon DEF Shutdown, n
    <3>. QED BY <3>2, <3>3
  <2>3. CASE BuildAndStart(s) \/ KillServer(s)
    BY <2>3 DEF BuildAndStart, KillServer, proxyVars
  <2>. QED BY <2>1, <2>2, <2>3
<1>5. ProcessTypes'
  <2>1. CASE StartServer(s)
    BY <1>1, <2>1 DEF StartServer, ProcessTypes, clientVars
  <2>2. CASE Shutdown(s)
    <3>1. /\ server' \in {[server EXCEPT ![s] = "stopping"], [server EXCEPT ![s] = "down"]}
          /\ UNCHANGED <<starts, left, clientVars>>
      BY <2>2, Zenon DEF Shutdown
    <3>. QED BY <3>1 DEF ProcessTypes, clientVars
  <2>3. CASE BuildAndStart(s)
    BY <2>3 DEF BuildAndStart, ProcessTypes, clientVars
  <2>4. CASE KillServer(s)
    BY <1>1, <2>4 DEF KillServer, ProcessTypes, clientVars
  <2>. QED BY <2>1, <2>2, <2>3, <2>4
<1>. QED BY <1>2, <1>3, <1>4, <1>5

\* A call of a client begins.
LEMMA CallTypes ==
  ASSUME Types, NEW c \in Clients, NEW method \in {"GetServerInfo", "SayHello"},
         Call(c, method)
  PROVE  /\ Types'
         /\ NewHandler(method, c, called[c], 1) \in ReadCall
<1>. USE DEF Types
<1>. DEFINE n == NewHandler(method, c, called[c], 1)
<1>1. n \in ReadCall
  BY NewHandlerType DEF ProcessTypes
<1>. HIDE DEF n
<1>2. handlers' = handlers \cup {n}
  BY DEF Call, n
<1>3. VectorTypes'
  BY DEF VectorTypes, Call
<1>4. ProcessTypes'
  BY DEF ProcessTypes, Call, serverVars
<1>. QED BY <1>1, <1>2, <1>3, <1>4 DEF Call, n

\* The steps, one by one.
LEMMA ProxySteps ==
  ASSUME Next
  PROVE  \/ \E h \in handlers : SetServerInfo(h) \/ UnsetServerInfo(h)
         \/ \E h \in handlers : GetServerInfo(h) \/ SayHello(h)
         \/ StopProxy
         \/ \E s \in GreetingServers :
              StartServer(s) \/ BuildAndStart(s) \/ Shutdown(s) \/ KillServer(s)
         \/ \E c \in Clients, method \in {"GetServerInfo", "SayHello"} : Call(c, method)
BY Zenon DEF Next, Serves, Serve, Undefined, Kills, KillProxy

\* The proxy as it comes up.
LEMMA InitTypes ==
  ASSUME Init
  PROVE  Types
<1>1. VectorTypes
  BY EmptySeq DEF Init, VectorTypes
<1>2. ProcessTypes
  BY EmptySeq DEF Init, ProcessTypes
<1>. QED BY <1>1, <1>2 DEF Init, Types

\* The vector never outgrows its storage and holds addresses only, or what was
\* read from a destroyed element; and every handler is one of the four.
THEOREM ProxyTypes == Spec => []TypeOK
<1>1. Init => Types
  BY InitTypes
<1>2. Types /\ [Next]_vars => Types'
  <2>. SUFFICES ASSUME Types, [Next]_vars PROVE Types'
    OBVIOUS
  <2>1. CASE UNCHANGED vars
    BY <2>1 DEF vars, proxyVars, serverVars, clientVars, Types, VectorTypes, ProcessTypes
  <2>2. CASE Next
    BY <2>2, ProxySteps, SetTypes, UnsetTypes, ReadTypes, StopTypes, ServerTypes, CallTypes
  <2>. QED BY <2>1, <2>2
<1>3. Types => TypeOK
  <2>. SUFFICES ASSUME Types PROVE TypeOK
    OBVIOUS
  <2>1. \A h \in handlers :
          /\ h.method \in {"SetServerInfo", "UnsetServerInfo", "GetServerInfo", "SayHello"}
          /\ h.who \in (IF Changing(h) THEN GreetingServers ELSE Clients)
          /\ h.at \in Nat
    BY DEF Types, ChangeCall, ReadCall, Changing
  <2>. QED BY <2>1 DEF Types, TypeOK, VectorTypes, ProcessTypes, Addresses
<1>. QED BY <1>1, <1>2, <1>3, PTL DEF Spec

-----------------------------------------------------------------------------
(***************************************************************************)
(* A call that waits has its handler, and a client has one at most.        *)
(***************************************************************************)

\* The change of server_list by a handler, or its end without one.
LEMMA ChangesHoldCalls ==
  ASSUME Types, CallsHeld, NEW h \in handlers, SetServerInfo(h) \/ UnsetServerInfo(h)
  PROVE  CallsHeld'
<1>1. UNCHANGED <<proxyUp, result>>
  BY DEF SetServerInfo, UnsetServerInfo, clientVars
<1>2. CASE \E reallocated \in BOOLEAN : Disturb(h, reallocated)
  <2>1. /\ \A f \in handlers' :
             \E g \in handlers \ {h} : f.method = g.method /\ f.who = g.who
        /\ \A f1, f2 \in handlers' : \E g1, g2 \in handlers \ {h} :
             /\ f1.method = g1.method /\ f1.who = g1.who
             /\ f2.method = g2.method /\ f2.who = g2.who
             /\ g1 = g2 => f1 = f2
    BY <1>2, DisturbedHandlers DEF Types
  <2>2. \A f \in handlers' : ~Changing(f) => result[f.who] = "waiting"
    BY <2>1 DEF CallsHeld, Changing
  <2>3. \A f1, f2 \in handlers' :
          ~Changing(f1) /\ ~Changing(f2) /\ f1.who = f2.who => f1 = f2
    BY <2>1 DEF CallsHeld, Changing
  <2>4. ~proxyUp => handlers' = {}
    BY <2>1 DEF CallsHeld
  <2>. QED BY <1>1, <2>2, <2>3, <2>4 DEF CallsHeld
<1>3. CASE handlers' = handlers \ {h}
  BY <1>1, <1>3 DEF CallsHeld
<1>. QED
  <2>1. SetServerInfo(h) => Disturb(h, capacity' # capacity)
    BY Zenon DEF SetServerInfo
  <2>2. UnsetServerInfo(h) => Disturb(h, FALSE) \/ handlers' = handlers \ {h}
    BY Zenon DEF UnsetServerInfo
  <2>3. (capacity' # capacity) \in BOOLEAN
    OBVIOUS
  <2>. QED BY <1>2, <1>3, <2>1, <2>2, <2>3

\* The calls of clients, from their begin to their end.
LEMMA ReadsHoldCalls ==
  ASSUME Types, CallsHeld, NEW h \in handlers, GetServerInfo(h) \/ SayHello(h)
  PROVE  CallsHeld'
<1>. DEFINE next == [h EXCEPT !.at = @ + 1]
<1>1. /\ h \in ReadCall
      /\ \/ next \in ReadCall /\ \E a \in Addresses : WriteReply(h, a)
         \/ Finish(h, "OK") \/ Finish(h, "CANCELLED")
  BY ReadTypes
<1>2. ~Changing(h) /\ h.who \in Clients
  BY <1>1, HandlerKinds
<1>3. next.who = h.who /\ proxyUp
  BY <1>1 DEF ReadCall, CallsHeld
<1>. HIDE DEF next
<1>4. ASSUME next \in ReadCall, NEW a \in Addresses, WriteReply(h, a) PROVE CallsHeld'
  <2>1. handlers' = (handlers \ {h}) \cup {next} /\ UNCHANGED <<proxyUp, result>>
    BY <1>4 DEF WriteReply, next
  <2>. QED BY <1>2, <1>3, <2>1 DEF CallsHeld
<1>5. ASSUME NEW status, Finish(h, status) PROVE CallsHeld'
  <2>1. /\ handlers' = handlers \ {h} /\ UNCHANGED proxyUp
        /\ result' = [result EXCEPT ![h.who] = status]
    BY <1>5 DEF Finish
  <2>2. \A g \in handlers' : ~Changing(g) => g.who # h.who /\ g.who \in Clients
    BY <1>2, <2>1, HandlerKinds DEF CallsHeld, Types
  <2>. QED BY <1>2, <2>1, <2>2 DEF CallsHeld, Types, ProcessTypes
<1>. QED BY <1>1, <1>4, <1>5

\* A client calls.
LEMMA CallHoldsCalls ==
  ASSUME Types, CallsHeld, NEW c \in Clients,
         NEW method \in {"GetServerInfo", "SayHello"}, Call(c, method)
  PROVE  CallsHeld'
<1>. DEFINE n == NewHandler(method, c, called[c], 1)
<1>1. n \in ReadCall /\ n.who = c
  BY CallTypes DEF NewHandler
<1>. HIDE DEF n
<1>2. /\ handlers' = handlers \cup {n} /\ proxyUp /\ proxyUp' = proxyUp
      /\ result' = [result EXCEPT ![c] = "waiting"] /\ result[c] # "waiting"
  BY DEF Call, n
<1>3. \A g \in handlers : ~Changing(g) => g.who # c /\ g.who \in Clients
  BY <1>2, HandlerKinds DEF CallsHeld, Types
<1>. QED BY <1>1, <1>2, <1>3 DEF CallsHeld, Types, ProcessTypes

\* A greeting server starts or ends.
LEMMA ServersHoldCalls ==
  ASSUME Types, CallsHeld, NEW s \in GreetingServers,
         StartServer(s) \/ BuildAndStart(s) \/ Shutdown(s) \/ KillServer(s)
  PROVE  CallsHeld'
<1>1. UNCHANGED <<proxyUp, result>>
  BY DEF StartServer, BuildAndStart, Shutdown, KillServer, proxyVars, clientVars
<1>2. \/ UNCHANGED handlers
      \/ proxyUp /\ \E n : Changing(n) /\ handlers' = handlers \cup {n}
  <2>1. CASE StartServer(s)
    <3>. DEFINE n == NewHandler("SetServerInfo", s, starts[s] + 1, Len(server_list) + 1)
    <3>1. Changing(n)
      BY DEF NewHandler, Changing
    <3>. HIDE DEF n
    <3>. QED BY <2>1, <3>1, Zenon DEF StartServer, n
  <2>2. CASE Shutdown(s)
    <3>. DEFINE n == NewHandler("UnsetServerInfo", s, starts[s], Find(s))
    <3>1. Changing(n)
      BY DEF NewHandler, Changing
    <3>. HIDE DEF n
    <3>. QED BY <2>2, <3>1, Zenon DEF Shutdown, n
  <2>3. CASE BuildAndStart(s) \/ KillServer(s)
    BY <2>3 DEF BuildAndStart, KillServer, proxyVars
  <2>. QED BY <2>1, <2>2, <2>3
<1>. QED BY <1>1, <1>2 DEF CallsHeld

-----------------------------------------------------------------------------
(***************************************************************************)
(* The ledger.                                                             *)
(***************************************************************************)

\* The counts are numbers.
LEMMA CountTypes ==
  ASSUME Types, NEW s
  PROVE  /\ Count(s) = Cardinality(Positions(server_list, s)) /\ Count(s) \in Nat
         /\ Count(s) = 0 <=> s \notin ToSet(server_list)
         /\ IsFiniteSet(Sets(s)) => Cardinality(Sets(s)) \in Nat
         /\ IsFiniteSet(Unsets(s)) => Cardinality(Unsets(s)) \in Nat
<1>1. Count(s) = Cardinality(Positions(server_list, s))
  BY Zenon DEF Count, Positions
<1>. QED BY <1>1, PositionsFinite, FS_CardinalityType DEF Types, VectorTypes

\* Who listens is listed.
LEMMA ListeningIsListed ==
  ASSUME Types, NEW s \in GreetingServers, Ledger(s), server[s] = "listening"
  PROVE  s \in ToSet(server_list)
<1>1. left[s] \in Nat
  BY DEF Types, ProcessTypes
<1>2. /\ Count(s) + Cardinality(Sets(s)) = left[s] + 1 + Cardinality(Unsets(s))
      /\ Cardinality(Sets(s)) <= left[s]
      /\ Cardinality(Sets(s)) \in Nat /\ Cardinality(Unsets(s)) \in Nat
  BY <1>1, CountTypes DEF Ledger, One
<1>. QED BY <1>1, <1>2, CountTypes

\* When a change ends and no race is on, it was the only one.
LEMMA OnlyChange ==
  ASSUME Types, NEW h \in handlers, NEW reallocated \in BOOLEAN,
         Disturb(h, reallocated), ~raced'
  PROVE  /\ ~raced /\ \A g \in handlers : Changing(g) => g = h
         /\ \A f \in handlers' : f.disturbed /\ ~Changing(f)
<1>1. ~raced /\ \A g \in handlers \ {h} : ~Changing(g)
  BY DisturbedHandlers DEF Types
<1>2. \A f \in handlers' :
        f.disturbed /\ \E g \in handlers \ {h} : f.method = g.method /\ f.who = g.who
  BY DisturbedHandlers DEF Types
<1>. QED BY <1>1, <1>2 DEF Changing

\* Then the order is that of the ledger.
LEMMA OrderAfterChange ==
  ASSUME Types, \A f \in handlers' : f.disturbed /\ ~Changing(f),
         \A s \in GreetingServers :
           /\ Count(s)' = left'[s] + One(server'[s] \in {"registering", "starting", "listening"})
           /\ server'[s] # "registering" /\ left'[s] \in Nat
  PROVE  Orderly'
<1>1. \A s : Sets(s)' = {} /\ Unsets(s)' = {}
  BY DEF Sets, Unsets, Changing
<1>2. ASSUME NEW s \in GreetingServers PROVE Ledger(s)'
  <2>1. IsFiniteSet(Sets(s)') /\ Cardinality(Sets(s)') = 0
    BY <1>1, FS_EmptySet
  <2>2. IsFiniteSet(Unsets(s)') /\ Cardinality(Unsets(s)') = 0
    BY <1>1, FS_EmptySet
  <2>3. One(server'[s] \in {"registering", "starting", "listening"}) \in Nat
        /\ One(server'[s] = "registering") \in Nat
    BY DEF One
  <2>. QED BY <2>1, <2>2, <2>3 DEF Ledger
<1>. QED BY <1>2 DEF Orderly

\* A registration that nothing came in between of.
LEMMA SetKeepsOrder ==
  ASSUME Types, Types', Orderly, NEW h \in handlers, SetServerInfo(h), ~raced'
  PROVE  Orderly'
<1>1. /\ \A g \in handlers : Changing(g) => g = h
      /\ \A f \in handlers' : f.disturbed /\ ~Changing(f)
  BY OnlyChange, (capacity' # capacity) \in BOOLEAN DEF SetServerInfo
<1>2. h.method = "SetServerInfo" /\ Changing(h) /\ Prepared(h) /\ h.who \in GreetingServers
  BY HandlerKinds DEF SetServerInfo, Changing, Orderly, Types
<1>3. server_list' = Append(server_list, h.who)
  BY <1>2 DEF SetServerInfo, Prepared
<1>4. left' = left /\ Answer(h, "registering", "starting")
  BY DEF SetServerInfo
<1>5. ASSUME NEW s \in GreetingServers
      PROVE  Count(s)' = Count(s) + One(s = h.who)
  <2>1. server_list \in Seq(Addresses) /\ h.who \in Addresses
    BY <1>2 DEF Types, VectorTypes, Addresses
  <2>2. Cardinality(Positions(server_list', s)) =
          Cardinality(Positions(server_list, s)) + (IF h.who = s THEN 1 ELSE 0)
    BY <1>3, <2>1, AppendCounts
  <2>3. Count(s)' = Cardinality(Positions(server_list', s))
    BY Zenon DEF Count, Positions
  <2>. QED BY <2>2, <2>3, CountTypes DEF One
<1>6. ASSUME NEW s \in GreetingServers
      PROVE  /\ Count(s)' = left'[s] + One(server'[s] \in {"registering", "starting", "listening"})
             /\ server'[s] # "registering" /\ left'[s] \in Nat
  <2>1. Ledger(s) /\ left[s] \in Nat /\ Count(s) \in Nat
    BY CountTypes DEF Orderly, Types, ProcessTypes
  <2>2. Unsets(s) = {} /\ Cardinality(Unsets(s)) = 0
    BY <1>1, <1>2, FS_EmptySet DEF Unsets, Changing
  <2>3. CASE s = h.who
    <3>1. Sets(s) = {h} /\ Cardinality(Sets(s)) = 1
      <4>1. Sets(s) = {h}
        BY <1>1, <1>2, <2>3 DEF Sets, Changing
      <4>. QED BY <4>1, FS_Singleton
    <3>2. server[s] = "registering" => server'[s] = "starting"
      <4>1. server[s] = "registering" => h.run = starts[s]
        BY <2>1, <3>1 DEF Ledger
      <4>. QED BY <1>2, <1>4, <2>3, <4>1 DEF Answer, Types, ProcessTypes
    <3>3. server[s] # "registering" => server'[s] = server[s]
      BY <1>2, <1>4, <2>3 DEF Answer, Types, ProcessTypes
    <3>4. /\ server'[s] # "registering"
          /\ One(server'[s] \in {"registering", "starting", "listening"}) =
               One(server[s] \in {"registering", "starting", "listening"})
      BY <3>2, <3>3 DEF One
    <3>5. One(server[s] \in {"registering", "starting", "listening"}) \in Nat
      BY DEF One
    <3>. QED BY <1>4, <1>5, <2>1, <2>2, <2>3, <3>1, <3>4, <3>5 DEF Ledger, One
  <2>4. CASE s # h.who
    <3>1. Sets(s) = {} /\ Cardinality(Sets(s)) = 0
      BY <1>1, <1>2, <2>4, FS_EmptySet DEF Sets, Changing
    <3>2. server'[s] = server[s] /\ server[s] # "registering"
      BY <1>4, <2>1, <2>4, <3>1 DEF Answer, Types, ProcessTypes, Ledger
    <3>3. One(server[s] \in {"registering", "starting", "listening"}) \in Nat
      BY DEF One
    <3>. QED BY <1>4, <1>5, <2>1, <2>2, <2>4, <3>1, <3>2, <3>3 DEF Ledger, One
  <2>. QED BY <2>3, <2>4
<1>. QED BY <1>1, <1>6, OrderAfterChange

\* A deregistration that nothing came in between of.
LEMMA UnsetKeepsOrder ==
  ASSUME Types, Types', Orderly, NEW h \in handlers, UnsetServerInfo(h), ~raced'
  PROVE  Orderly'
<1>1. /\ h.method = "UnsetServerInfo" /\ Changing(h) /\ Prepared(h)
      /\ h.who \in GreetingServers
  BY HandlerKinds DEF UnsetServerInfo, Changing, Orderly, Types
<1>2. /\ h.at \in 1 .. Len(server_list) /\ server_list[h.at] = h.who /\ ~h.stale
      /\ h.at # 0 /\ server_list \in Seq(Addresses)
  BY <1>1, LenProperties DEF Prepared, Types, VectorTypes
<1>3. /\ server_list' = RemoveAt(server_list, h.at) /\ Disturb(h, FALSE)
      /\ left' = left /\ Answer(h, "stopping", "down")
  <2>1. Erase(h) /\ Disturb(h, FALSE) /\ left' = left /\ Answer(h, "stopping", "down")
    BY <1>2, Zenon DEF UnsetServerInfo
  <2>2. h.at <= Len(server_list)
    BY <1>2, LenProperties
  <2>. QED BY <1>2, <2>1, <2>2 DEF Erase
<1>4. /\ \A g \in handlers : Changing(g) => g = h
      /\ \A f \in handlers' : f.disturbed /\ ~Changing(f)
  BY <1>3, OnlyChange
<1>5. ASSUME NEW s \in GreetingServers
      PROVE  Count(s)' = Count(s) - One(s = h.who)
  <2>1. Cardinality(Positions(server_list', s)) =
          Cardinality(Positions(server_list, s)) - (IF server_list[h.at] = s THEN 1 ELSE 0)
    BY <1>2, <1>3, RemoveAtCounts
  <2>2. Count(s)' = Cardinality(Positions(server_list', s))
    BY Zenon DEF Count, Positions
  <2>. QED BY <1>2, <2>1, <2>2, CountTypes DEF One
<1>6. ASSUME NEW s \in GreetingServers
      PROVE  /\ Count(s)' = left'[s] + One(server'[s] \in {"registering", "starting", "listening"})
             /\ server'[s] # "registering" /\ left'[s] \in Nat
  <2>1. Ledger(s) /\ left[s] \in Nat /\ Count(s) \in Nat
    BY CountTypes DEF Orderly, Types, ProcessTypes
  <2>2. Sets(s) = {} /\ Cardinality(Sets(s)) = 0
    BY <1>1, <1>4, FS_EmptySet DEF Sets, Changing
  <2>3. Cardinality(Unsets(s)) = One(s = h.who)
    <3>1. CASE s = h.who
      <4>1. Unsets(s) = {h}
        BY <1>1, <1>4, <3>1 DEF Unsets, Changing
      <4>. QED BY <3>1, <4>1, FS_Singleton DEF One
    <3>2. CASE s # h.who
      <4>1. Unsets(s) = {}
        BY <1>1, <1>4, <3>2 DEF Unsets, Changing
      <4>. QED BY <3>2, <4>1, FS_EmptySet DEF One
    <3>. QED BY <3>1, <3>2
  <2>4. server'[s] = server[s] \/ (server[s] = "stopping" /\ server'[s] = "down")
    BY <1>1, <1>3 DEF Answer, Types, ProcessTypes
  <2>5. server[s] # "registering"
    BY <2>1, <2>2 DEF Ledger
  <2>6. /\ One(server'[s] \in {"registering", "starting", "listening"}) =
             One(server[s] \in {"registering", "starting", "listening"})
        /\ One(server[s] \in {"registering", "starting", "listening"}) \in Nat
        /\ One(s = h.who) \in Nat
    BY <2>4 DEF One
  <2>. QED BY <1>3, <1>5, <2>1, <2>2, <2>3, <2>4, <2>5, <2>6 DEF Ledger
<1>. QED BY <1>4, <1>6, OrderAfterChange

\* A call that reads: it passes on the elements one by one.
LEMMA ReadKeepsOrder ==
  ASSUME Types, Types', CallsHeld, Orderly, NEW h \in handlers,
         GetServerInfo(h) \/ SayHello(h)
  PROVE  Orderly'
<1>. DEFINE next == [h EXCEPT !.at = @ + 1]
<1>1. /\ h \in ReadCall
      /\ \/ next \in ReadCall /\ \E a \in Addresses : WriteReply(h, a)
         \/ Finish(h, "OK") \/ Finish(h, "CANCELLED")
  BY ReadTypes
<1>2. /\ ~Changing(h) /\ h.who \in Clients /\ h.at \in Nat /\ h.at >= 1
      /\ h.end \in Nat /\ Len(server_list) \in Nat
  BY <1>1, HandlerKinds, LenProperties DEF ReadCall, Types, VectorTypes
<1>3. UNCHANGED <<server_list, server, starts, left>>
  BY <1>1 DEF WriteReply, Finish, serverVars
<1>4. handlers' = handlers \ {h} \/ (next \in ReadCall /\ handlers' = (handlers \ {h}) \cup {next})
  BY <1>1 DEF WriteReply, Finish
<1>5. \A g \in handlers : Changing(g) => g \in handlers'
  BY <1>2, <1>4
<1>6. \A g \in handlers' : g \in handlers \ {h} \/ (g = next /\ ~Changing(g))
  BY <1>4, HandlerKinds
<1>7. ASSUME NEW s \in GreetingServers PROVE Ledger(s)'
  <2>1. Sets(s)' = Sets(s) /\ Unsets(s)' = Unsets(s)
    <3>. HIDE DEF next
    <3>. QED BY <1>5, <1>6 DEF Sets, Unsets, Changing
  <2>2. Count(s)' = Count(s)
    BY <1>3 DEF Count
  <2>. QED BY <1>3, <2>1, <2>2 DEF Orderly, Ledger
<1>8. ASSUME NEW g \in handlers', Changing(g) PROVE Prepared(g)'
  <2>1. Prepared(g)
    BY <1>6, <1>8 DEF Orderly
  <2>. QED BY <1>3, <2>1 DEF Prepared
<1>9. ASSUME NEW g \in handlers \ {h}, ~Changing(g), ~g.disturbed PROVE Reading(g)'
  <2>1. g.who # h.who /\ g.who \in Clients /\ Reading(g)
    BY <1>2, <1>9, HandlerKinds DEF CallsHeld, Orderly, Types
  <2>2. heard'[g.who] = heard[g.who]
    BY <1>1, <2>1 DEF Types, ProcessTypes, WriteReply, Finish
  <2>. QED BY <1>3, <2>1, <2>2 DEF Reading
<1>10. ASSUME next \in handlers', next \notin handlers, ~next.disturbed PROVE Reading(next)'
  <2>1. /\ next.at = h.at + 1 /\ next.end = h.end /\ next.who = h.who
        /\ next.present = h.present /\ next.disturbed = h.disturbed /\ next.stale = h.stale
    BY <1>1 DEF ReadCall
  <2>2. Reading(h)
    BY <1>2, <1>10, <2>1 DEF Orderly
  <2>3. ~Finish(h, "OK") /\ ~Finish(h, "CANCELLED")
    <3>. HIDE DEF next
    <3>. QED BY <1>10 DEF Finish
  <2>4. h.at <= Len(server_list) /\ WriteReply(h, server_list[h.at])
    <3>1. GetServerInfo(h) => h.at <= Len(server_list) /\ WriteReply(h, server_list[h.at])
      BY <2>3, Zenon DEF GetServerInfo
    <3>2. SayHello(h) => h.at <= h.end /\ WriteReply(h, Element(h))
      BY <2>3, Zenon DEF SayHello
    <3>3. h.end = Len(server_list) /\ ~h.stale
      BY <2>2 DEF Reading
    <3>4. h.at <= Len(server_list) => Element(h) = server_list[h.at]
      BY <3>3 DEF Element
    <3>. QED BY <3>1, <3>2, <3>3, <3>4
  <2>5. heard'[h.who] = Append(heard[h.who], server_list[h.at])
    BY <1>2, <2>4 DEF WriteReply, Types, ProcessTypes
  <2>6. server_list[h.at] \in Addresses /\ heard[h.who] \in Seq(Addresses)
    BY <1>2, <2>4, ElementOfSeq DEF Types, VectorTypes, ProcessTypes
  <2>7. ToSet(heard'[h.who]) = ToSet(heard[h.who]) \cup {server_list[h.at]}
    BY <2>5, <2>6, ListMembers
  <2>8. \A k \in 1 .. h.at : server_list[k] \in ToSet(heard'[h.who])
    <3>1. \A k \in 1 .. h.at : k \in 1 .. h.at - 1 \/ k = h.at
      BY <1>2
    <3>. QED BY <2>2, <2>7, <3>1 DEF Reading
  <2>. HIDE DEF next
  <2>9. (h.at + 1) - 1 = h.at /\ h.at + 1 <= Len(server_list) + 1
    BY <1>2, <2>4
  <2>. QED BY <1>3, <2>1, <2>2, <2>8, <2>9 DEF Reading
<1>. HIDE DEF next
<1>11. \A g \in handlers' : ~Changing(g) /\ ~g.disturbed => Reading(g)'
  <2>. SUFFICES ASSUME NEW g \in handlers', ~Changing(g), ~g.disturbed PROVE Reading(g)'
    OBVIOUS
  <2>1. CASE g \in handlers \ {h}
    BY <1>9, <2>1
  <2>2. CASE g = next /\ g \notin handlers
    BY <1>10, <2>2
  <2>3. g # h
    <3>1. next.at # h.at
      BY <1>1 DEF next, ReadCall
    <3>. QED BY <1>6, <3>1
  <2>. QED BY <1>6, <2>1, <2>2, <2>3
<1>. QED BY <1>7, <1>8, <1>11 DEF Orderly

\* A call that begins: who listens is listed.
LEMMA CallKeepsOrder ==
  ASSUME Types, Orderly, NEW c \in Clients,
         NEW method \in {"GetServerInfo", "SayHello"}, Call(c, method)
  PROVE  Orderly'
<1>. PICK n : n = NewHandler(method, c, called[c], 1)
  OBVIOUS
<1>1. n \in ReadCall /\ ~Changing(n)
  BY CallTypes, HandlerKinds
<1>2. /\ n.end = Len(server_list) /\ n.at = 1 /\ ~n.stale /\ n.present = Listening
  BY DEF NewHandler
<1>3. /\ handlers' = handlers \cup {n}
      /\ UNCHANGED <<server_list, server, starts, left, heard>>
  BY DEF Call, serverVars
<1>4. ASSUME NEW s \in GreetingServers PROVE Ledger(s)'
  <2>1. Sets(s)' = Sets(s) /\ Unsets(s)' = Unsets(s)
    BY <1>1, <1>3 DEF Sets, Unsets, Changing
  <2>2. Count(s)' = Count(s)
    BY <1>3 DEF Count
  <2>. QED BY <1>3, <2>1, <2>2 DEF Orderly, Ledger
<1>5. \A g \in handlers' : Changing(g) => Prepared(g)'
  BY <1>1, <1>3 DEF Orderly, Prepared
<1>6. Reading(n)'
  <2>1. Len(server_list) \in Nat /\ 1 .. n.at - 1 = {}
    BY <1>2, LenProperties DEF Types, VectorTypes
  <2>2. Listening \subseteq ToSet(server_list)
    BY ListeningIsListed DEF Listening, Orderly
  <2>. QED BY <1>2, <1>3, <2>1, <2>2 DEF Reading
<1>7. \A g \in handlers' : ~Changing(g) /\ ~g.disturbed => Reading(g)'
  BY <1>3, <1>6 DEF Orderly, Reading
<1>. QED BY <1>4, <1>5, <1>7 DEF Orderly

\* The steps of a server touch its own account only.
LEMMA OtherAccounts ==
  ASSUME Types, NEW s \in GreetingServers, NEW t \in GreetingServers, t # s, Ledger(t),
         UNCHANGED server_list,
         server'[t] = server[t], starts'[t] = starts[t], left'[t] = left[t],
         \/ UNCHANGED handlers
         \/ \E n : n.who = s /\ handlers' = handlers \cup {n}
  PROVE  Ledger(t)'
<1>1. Sets(t)' = Sets(t) /\ Unsets(t)' = Unsets(t)
  BY DEF Sets, Unsets
<1>2. Count(t)' = Count(t)
  BY DEF Count
<1>. QED BY <1>1, <1>2 DEF Ledger

\* A greeting server is started, and calls SetServerInfo.
LEMMA StartKeepsOrder ==
  ASSUME Types, Types', Orderly, NEW s \in GreetingServers, StartServer(s)
  PROVE  Orderly'
<1>. DEFINE n == NewHandler("SetServerInfo", s, starts[s] + 1, Len(server_list) + 1)
<1>1. /\ n.method = "SetServerInfo" /\ n.who = s /\ n.run = starts[s] + 1
      /\ Changing(n) /\ ~n.disturbed /\ ~n.stale
  BY DEF NewHandler, Changing
<1>. HIDE DEF n
<1>2. /\ handlers' = handlers \cup {n} /\ server[s] = "down"
      /\ UNCHANGED <<server_list, left, heard>>
      /\ server' = [server EXCEPT ![s] = "registering"]
      /\ starts' = [starts EXCEPT ![s] = @ + 1]
  BY DEF StartServer, clientVars, n
<1>3. starts \in [GreetingServers -> Nat] /\ left[s] \in Nat
      /\ server'[s] = "registering" /\ starts'[s] = starts[s] + 1
      /\ \A t \in GreetingServers : t # s => server'[t] = server[t] /\ starts'[t] = starts[t]
  BY <1>2 DEF Types, ProcessTypes
<1>4. n \notin handlers
  <2>1. ASSUME n \in handlers PROVE FALSE
    <3>1. n.run <= starts[s]
      BY <1>1, <2>1 DEF Orderly, Prepared
    <3>. QED BY <1>1, <1>3, <3>1
  <2>. QED BY <2>1
<1>5. Ledger(s)'
  <2>1. Ledger(s) /\ Count(s) \in Nat
    BY CountTypes DEF Orderly
  <2>2. Sets(s)' = Sets(s) \cup {n} /\ n \notin Sets(s) /\ Unsets(s)' = Unsets(s)
    BY <1>1, <1>2, <1>4 DEF Sets, Unsets
  <2>3. IsFiniteSet(Sets(s)') /\ Cardinality(Sets(s)') = Cardinality(Sets(s)) + 1
    BY <2>1, <2>2, FS_AddElement DEF Ledger
  <2>4. Count(s)' = Count(s)
    BY <1>2 DEF Count
  <2>5. Cardinality(Sets(s)) \in Nat /\ Cardinality(Unsets(s)) \in Nat
    BY <2>1, CountTypes DEF Ledger
  <2>6. n \in Sets(s)' /\ n.run = starts'[s]
    BY <1>1, <1>3, <2>2
  <2>. QED BY <1>2, <1>3, <2>1, <2>2, <2>3, <2>4, <2>5, <2>6 DEF Ledger, One
<1>6. \A t \in GreetingServers : t # s => Ledger(t)'
  BY <1>1, <1>2, <1>3, OtherAccounts DEF Orderly
<1>7. ASSUME NEW g \in handlers', Changing(g) PROVE Prepared(g)'
  <2>1. CASE g = n
    BY <1>1, <1>3, <2>1 DEF Prepared
  <2>2. CASE g \in handlers
    <3>1. Prepared(g) /\ g.who \in GreetingServers /\ g.run \in Nat
      BY <1>7, <2>2 DEF Orderly, Types, ChangeCall, ReadCall, Changing
    <3>2. g.run <= starts'[g.who]
          /\ (g.run = starts'[g.who] => g.who # s /\ g.run = starts[g.who])
      BY <1>3, <3>1 DEF Prepared
    <3>. QED BY <1>2, <1>3, <3>1, <3>2 DEF Prepared
  <2>. QED BY <1>2, <2>1, <2>2
<1>8. \A g \in handlers' : ~Changing(g) /\ ~g.disturbed => Reading(g)'
  BY <1>1, <1>2 DEF Orderly, Reading
<1>. QED BY <1>5, <1>6, <1>7, <1>8 DEF Orderly

\* A greeting server shuts down, and calls UnsetServerInfo.
LEMMA ShutdownKeepsOrder ==
  ASSUME Types, Types', Orderly, proxyUp, NEW s \in GreetingServers, Shutdown(s)
  PROVE  Orderly'
<1>. DEFINE n == NewHandler("UnsetServerInfo", s, starts[s], Find(s))
<1>1. /\ n.method = "UnsetServerInfo" /\ n.who = s /\ n.run = starts[s] /\ n.at = Find(s)
      /\ Changing(n) /\ ~n.disturbed /\ ~n.stale
  BY DEF NewHandler, Changing
<1>2. /\ handlers' = handlers \cup {n} /\ server[s] = "listening"
      /\ UNCHANGED <<server_list, starts, left, heard>>
      /\ server' = [server EXCEPT ![s] = "stopping"]
  BY DEF Shutdown, clientVars
<1>. HIDE DEF n
<1>3. /\ starts[s] \in Nat /\ left[s] \in Nat /\ server'[s] = "stopping"
      /\ \A t \in GreetingServers : t # s => server'[t] = server[t]
  BY <1>2 DEF Types, ProcessTypes
<1>4. n \notin handlers
  <2>1. ASSUME n \in handlers PROVE FALSE
    <3>1. Prepared(n)
      BY <1>1, <2>1 DEF Orderly
    <3>. QED BY <1>1, <1>2, <3>1 DEF Prepared
  <2>. QED BY <2>1
<1>5. Ledger(s)'
  <2>1. Ledger(s) /\ Count(s) \in Nat
    BY CountTypes DEF Orderly
  <2>2. Unsets(s)' = Unsets(s) \cup {n} /\ n \notin Unsets(s) /\ Sets(s)' = Sets(s)
    BY <1>1, <1>2, <1>4 DEF Sets, Unsets
  <2>3. IsFiniteSet(Unsets(s)') /\ Cardinality(Unsets(s)') = Cardinality(Unsets(s)) + 1
    BY <2>1, <2>2, FS_AddElement DEF Ledger
  <2>4. Count(s)' = Count(s)
    BY <1>2 DEF Count
  <2>5. Cardinality(Sets(s)) \in Nat /\ Cardinality(Unsets(s)) \in Nat
    BY <2>1, CountTypes DEF Ledger
  <2>. QED BY <1>2, <1>3, <2>1, <2>2, <2>3, <2>4, <2>5 DEF Ledger, One
<1>6. \A t \in GreetingServers : t # s => Ledger(t)'
  BY <1>1, <1>2, <1>3, OtherAccounts DEF Orderly
<1>7. ASSUME NEW g \in handlers', Changing(g) PROVE Prepared(g)'
  <2>1. CASE g = n
    <3>1. Find(s) \in 1 .. Len(server_list) /\ server_list[Find(s)] = s
      BY <1>2, ListeningIsListed, SearchFinds DEF Orderly, Types
    <3>. QED BY <1>1, <1>2, <1>3, <2>1, <3>1 DEF Prepared
  <2>2. CASE g \in handlers
    <3>1. Prepared(g) /\ g.who \in GreetingServers
      BY <1>7, <2>2, HandlerKinds DEF Orderly, Types
    <3>. QED BY <1>2, <1>3, <3>1 DEF Prepared
  <2>. QED BY <1>2, <2>1, <2>2
<1>8. \A g \in handlers' : ~Changing(g) /\ ~g.disturbed => Reading(g)'
  BY <1>1, <1>2 DEF Orderly, Reading
<1>. QED BY <1>5, <1>6, <1>7, <1>8 DEF Orderly

\* A server begins to listen, or is killed.
LEMMA LifeKeepsOrder ==
  ASSUME Types, Types', Orderly, NEW s \in GreetingServers,
         BuildAndStart(s) \/ KillServer(s)
  PROVE  Orderly'
<1>1. UNCHANGED <<server_list, handlers, starts, heard>>
  BY DEF BuildAndStart, KillServer, proxyVars, clientVars
<1>2. /\ left[s] \in Nat
      /\ \A t \in GreetingServers : t # s => server'[t] = server[t] /\ left'[t] = left[t]
      /\ \/ server[s] = "starting" /\ server'[s] = "listening" /\ left'[s] = left[s]
         \/ server[s] = "stopping" /\ server'[s] = "down" /\ left'[s] = left[s]
         \/ /\ server[s] \in {"registering", "starting", "listening"}
            /\ server'[s] = "down" /\ left'[s] = left[s] + 1
  BY DEF BuildAndStart, KillServer, Types, ProcessTypes
<1>3. Ledger(s)'
  <2>1. Ledger(s) /\ Count(s) \in Nat
    BY CountTypes DEF Orderly
  <2>2. Unsets(s)' = Unsets(s) /\ Sets(s)' = Sets(s) /\ Count(s)' = Count(s)
    BY <1>1 DEF Sets, Unsets, Count
  <2>3. Cardinality(Sets(s)) \in Nat /\ Cardinality(Unsets(s)) \in Nat
    BY <2>1, CountTypes DEF Ledger
  <2>. QED BY <1>2, <2>1, <2>2, <2>3 DEF Ledger, One
<1>4. \A t \in GreetingServers : t # s => Ledger(t)'
  BY <1>1, <1>2, OtherAccounts DEF Orderly
<1>5. ASSUME NEW g \in handlers', Changing(g) PROVE Prepared(g)'
  <2>1. Prepared(g) /\ g.who \in GreetingServers
    BY <1>1, <1>5, HandlerKinds DEF Orderly, Types
  <2>. QED BY <1>1, <1>2, <2>1 DEF Prepared
<1>6. \A g \in handlers' : ~Changing(g) /\ ~g.disturbed => Reading(g)'
  BY <1>1 DEF Orderly, Reading
<1>. QED BY <1>3, <1>4, <1>5, <1>6 DEF Orderly

-----------------------------------------------------------------------------
(***************************************************************************)
(* The theorems.                                                           *)
(***************************************************************************)

\* The proxy keeps its inductive invariant.
THEOREM ProxyInductive == Spec => []PInv
<1>1. Init => PInv
  <2>. SUFFICES ASSUME Init PROVE PInv
    OBVIOUS
  <2>1. CallsHeld
    BY DEF Init, CallsHeld
  <2>2. ASSUME NEW s \in GreetingServers PROVE Ledger(s)
    <3>1. Sets(s) = {} /\ Unsets(s) = {} /\ Count(s) = Cardinality({})
      BY DEF Init, Sets, Unsets, Count
    <3>2. IsFiniteSet({}) /\ Cardinality({}) = 0
      BY FS_EmptySet
    <3>3. left[s] = 0 /\ server[s] = "down"
      BY DEF Init
    <3>. QED BY <3>1, <3>2, <3>3 DEF Ledger, One
  <2>3. Orderly
    BY <2>2 DEF Init, Orderly
  <2>. QED BY <2>1, <2>3, InitTypes DEF PInv
<1>2. PInv /\ [Next]_vars => PInv'
  <2>. SUFFICES ASSUME PInv, [Next]_vars PROVE PInv'
    OBVIOUS
  <2>. USE DEF PInv
  <2>1. CASE UNCHANGED vars
    BY <2>1 DEF vars, proxyVars, serverVars, clientVars, Types, VectorTypes, ProcessTypes,
                CallsHeld, Orderly, Ledger, Sets, Unsets, Count, Prepared, Reading
  <2>2. ASSUME NEW h \in handlers, SetServerInfo(h) \/ UnsetServerInfo(h) PROVE PInv'
    <3>1. Types' /\ CallsHeld'
      BY <2>2, SetTypes, UnsetTypes, ChangesHoldCalls
    <3>2. proxyUp' = proxyUp /\ (~raced' => ~raced)
      <4>1. SetServerInfo(h) => Disturb(h, capacity' # capacity)
        BY Zenon DEF SetServerInfo
      <4>2. UnsetServerInfo(h) => Disturb(h, FALSE) \/ raced' = raced
        BY Zenon DEF UnsetServerInfo
      <4>3. proxyUp' = proxyUp
        BY <2>2 DEF SetServerInfo, UnsetServerInfo
      <4>4. Disturb(h, capacity' # capacity) => (~raced' => ~raced)
        BY Zenon DEF Disturb
      <4>5. Disturb(h, FALSE) => (~raced' => ~raced)
        BY Zenon DEF Disturb
      <4>6. raced' = raced => (~raced' => ~raced)
        BY Zenon
      <4>. QED BY <2>2, <4>1, <4>2, <4>3, <4>4, <4>5, <4>6, Zenon
    <3>. QED BY <2>2, <3>1, <3>2, SetKeepsOrder, UnsetKeepsOrder
  <2>3. ASSUME NEW h \in handlers, GetServerInfo(h) \/ SayHello(h) PROVE PInv'
    <3>1. Types' /\ CallsHeld'
      BY <2>3, ReadTypes, ReadsHoldCalls
    <3>2. proxyUp' = proxyUp /\ raced' = raced
      BY <2>3, ReadTypes DEF WriteReply, Finish
    <3>. QED BY <2>3, <3>1, <3>2, ReadKeepsOrder
  <2>4. CASE StopProxy
    <3>1. Types'
      BY <2>4, StopTypes
    <3>. QED BY <2>4, <3>1 DEF StopProxy, CallsHeld
  <2>5. ASSUME NEW s \in GreetingServers,
               StartServer(s) \/ BuildAndStart(s) \/ Shutdown(s) \/ KillServer(s)
        PROVE  PInv'
    <3>1. Types' /\ CallsHeld'
      BY <2>5, ServerTypes, ServersHoldCalls
    <3>2. proxyUp' = proxyUp /\ raced' = raced
      BY <2>5 DEF StartServer, BuildAndStart, Shutdown, KillServer, proxyVars
    <3>. QED BY <2>5, <3>1, <3>2, StartKeepsOrder, ShutdownKeepsOrder, LifeKeepsOrder
  <2>6. ASSUME NEW c \in Clients, NEW method \in {"GetServerInfo", "SayHello"},
               Call(c, method)
        PROVE  PInv'
    <3>1. Types' /\ CallsHeld'
      BY <2>6, CallTypes, CallHoldsCalls
    <3>2. proxyUp' = proxyUp /\ raced' = raced
      BY <2>6 DEF Call
    <3>. QED BY <2>6, <3>1, <3>2, CallKeepsOrder
  <2>. HIDE DEF PInv
  <2>. QED BY <2>1, <2>2, <2>3, <2>4, <2>5, <2>6, ProxySteps
<1>. QED BY <1>1, <1>2, PTL DEF Spec

\* Until two changes race, between changes the proxy has one entry for each server
\* that is up and one for each run of it that was killed while it was registered.
THEOREM EntriesCounted == Spec => []EntriesAreRuns
<1>1. PInv => EntriesAreRuns
  <2>. SUFFICES ASSUME PInv, proxyUp, ~raced, \A h \in handlers : ~Changing(h),
                       NEW s \in GreetingServers
                PROVE  Count(s) =
                         left[s] + (IF server[s] \in {"starting", "listening"} THEN 1 ELSE 0)
    BY Zenon DEF EntriesAreRuns
  <2>1. Sets(s) = {} /\ Unsets(s) = {}
    BY DEF Sets, Unsets, Changing
  <2>2. Ledger(s) /\ Count(s) \in Nat /\ left[s] \in Nat
    BY CountTypes DEF PInv, Orderly, Types, ProcessTypes
  <2>3. Cardinality(Sets(s)) = 0 /\ Cardinality(Unsets(s)) = 0
    BY <2>1, FS_EmptySet
  <2>4. server[s] # "registering"
    BY <2>1, <2>2 DEF Ledger
  <2>. QED BY <2>2, <2>3, <2>4 DEF Ledger, One
<1>. QED BY <1>1, ProxyInductive, PTL

\* What HelloReachesAll says of one step.
ReachesAll ==
  \A h \in handlers :
    /\ ~Changing(h) /\ ~h.disturbed /\ ~raced
    /\ result[h.who] = "waiting" /\ result'[h.who] = "OK"
    => h.present \subseteq ToSet(heard[h.who])

\* A call that returns OK, and that nothing changed in the time of, has heard from
\* every server that listened when it began, however many there were.
THEOREM HelloReaches == Spec => HelloReachesAll
<1>1. PInv /\ [Next]_vars => [ReachesAll]_vars
  <2>. SUFFICES ASSUME PInv, Next, NEW h \in handlers,
                       ~Changing(h), ~h.disturbed, ~raced,
                       result[h.who] = "waiting", result'[h.who] = "OK"
                PROVE  h.present \subseteq ToSet(heard[h.who])
    BY Zenon DEF ReachesAll
  <2>1. h \in ReadCall /\ h.who \in Clients /\ h.at \in Nat /\ proxyUp
    BY HandlerKinds DEF PInv, Types, CallsHeld
  <2>2. Reading(h)
    BY <2>1 DEF PInv, Orderly
  <2>3. ASSUME UNCHANGED result PROVE FALSE
    BY <2>3
  <2>4. ASSUME NEW g \in handlers, SetServerInfo(g) \/ UnsetServerInfo(g) PROVE FALSE
    BY <2>3, <2>4 DEF SetServerInfo, UnsetServerInfo, clientVars
  <2>5. ~StopProxy
    BY <2>1 DEF StopProxy
  <2>6. ASSUME NEW s \in GreetingServers,
               StartServer(s) \/ BuildAndStart(s) \/ Shutdown(s) \/ KillServer(s)
        PROVE  FALSE
    BY <2>3, <2>6 DEF StartServer, BuildAndStart, Shutdown, KillServer, clientVars
  <2>7. ASSUME NEW c \in Clients, NEW method, Call(c, method) PROVE FALSE
    BY <2>1, <2>7 DEF Call, PInv, Types, ProcessTypes
  <2>8. PICK g \in handlers : GetServerInfo(g) \/ SayHello(g)
    BY <2>4, <2>5, <2>6, <2>7, ProxySteps
  <2>9. /\ g \in ReadCall /\ ~Changing(g) /\ ~(\E a \in Addresses : WriteReply(g, a))
        /\ Finish(g, "OK") \/ Finish(g, "CANCELLED")
    <3>1. ASSUME NEW a, WriteReply(g, a) PROVE FALSE
      BY <2>3, <3>1 DEF WriteReply
    <3>. QED BY <2>8, <3>1, ReadTypes, HandlerKinds DEF PInv
  <2>10. g.who = h.who /\ Finish(g, "OK")
    BY <2>1, <2>9 DEF Finish, PInv, Types, ProcessTypes
  <2>11. g = h
    BY <2>9, <2>10 DEF PInv, CallsHeld
  <2>12. h.at > Len(server_list)
    <3>1. ~WriteReply(h, server_list[h.at]) /\ ~WriteReply(h, Element(h))
      BY <2>3 DEF WriteReply
    <3>2. ~Finish(h, "CANCELLED")
      BY <2>1, <2>11 DEF Finish, PInv, Types, ProcessTypes
    <3>. QED BY <2>2, <2>8, <2>11, <3>1, <3>2 DEF GetServerInfo, SayHello, Reading
  <2>13. \A k \in 1 .. Len(server_list) : server_list[k] \in ToSet(heard[h.who])
    <3>1. Len(server_list) \in Nat
      BY LenProperties DEF PInv, Types, VectorTypes
    <3>2. h.at - 1 = Len(server_list)
      BY <2>1, <2>2, <2>12, <3>1 DEF Reading
    <3>. QED BY <2>2, <3>2 DEF Reading
  <2>14. ToSet(server_list) \subseteq ToSet(heard[h.who])
    <3>1. DOMAIN server_list = 1 .. Len(server_list)
      BY LenProperties DEF PInv, Types, VectorTypes
    <3>2. \A x \in ToSet(server_list) : \E k \in 1 .. Len(server_list) : x = server_list[k]
      BY <3>1, Zenon DEF ToSet
    <3>. QED BY <2>13, <3>2
  <2>. QED BY <2>2, <2>14 DEF Reading
<1>. QED BY <1>1, ProxyInductive, PTL DEF Spec, HelloReachesAll, ReachesAll
===============================================================================
