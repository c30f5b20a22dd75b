---------------------------- MODULE GreetingProxy ----------------------------
(***************************************************************************)
(* MultipleRPC: a proxy that knows greeting servers, ProxyServer.cc, the   *)
(* servers, GreetingServer.cc, and the clients that ask the proxy to greet *)
(* them from every server, Client.cc.  The proxy's handlers run on threads *)
(* of their own and read and change server_list without a lock.            *)
(*                                                                         *)
(* A change takes two steps, what it reads of the vector and what it then  *)
(* makes of it; a handler some change came in between of is disturbed, and *)
(* what a disturbed handler does is undefined: it may kill the process, go *)
(* on with what it has read, or do no harm.                                *)
(***************************************************************************)
EXTENDS Integers, SequencesExt

CONSTANTS
  GreetingServers, \* their addresses
  Clients,
  Garbage,         \* an address read from a destroyed element
  MaxStarts(_),    \* bound on the runs of a greeting server
  MaxCalls,        \* bound on the calls of each client
  MaxKills         \* bound on the servers and proxies killed

VARIABLES
  proxyUp,     \* the proxy runs
  server_list, \* its vector of addresses
  capacity,    \* the elements the vector's storage has room for
  handlers,    \* the calls the proxy serves
  raced,       \* a change of server_list came in between of another
  server,      \* server[s]: where a greeting server is in its life
  starts,      \* starts[s]: its runs so far
  left,        \* left[s]: those of them that were killed while registered
  result,      \* result[c]: what a client's call has returned
  heard,       \* heard[c]: the addresses a call under way was answered from
  called,      \* called[c]: the calls of the client so far
  kills        \* processes killed so far

proxyVars == <<proxyUp, server_list, capacity, handlers, raced>>
serverVars == <<server, starts, left>>
clientVars == <<result, heard, called>>
vars == <<proxyVars, serverVars, clientVars, kills>>

Init ==
  /\ proxyUp = TRUE /\ server_list = <<>> /\ capacity = 0
  /\ handlers = {} /\ raced = FALSE
  /\ server = [s \in GreetingServers |-> "down"]
  /\ starts = [s \in GreetingServers |-> 0]
  /\ left = [s \in GreetingServers |-> 0]
  /\ result = [c \in Clients |-> "none"]
  /\ heard = [c \in Clients |-> <<>>]
  /\ called = [c \in Clients |-> 0]
  /\ kills = 0

Listening == {s \in GreetingServers : server[s] = "listening"}

\* at: the element the handler is at; end: where its loop ends; present: who
\* listened when it began; stale: the storage it points into has been freed.
NewHandler(method, who, run, at) ==
  [method |-> method, who |-> who, run |-> run, at |-> at, end |-> Len(server_list),
   present |-> Listening, disturbed |-> FALSE, stale |-> FALSE]

Changing(h) == h.method \in {"SetServerInfo", "UnsetServerInfo"}

\* What the end of a change does to the other handlers.
Disturb(h, reallocated) ==
  /\ handlers' = {[g EXCEPT !.disturbed = TRUE, !.stale = @ \/ reallocated] :
                    g \in handlers \ {h}}
  /\ raced' = (raced \/ \E g \in handlers \ {h} : Changing(g))

\* The state of the server a handler was called by, unless that run is over.
Answer(h, waits, next) ==
  server' = [server EXCEPT ![h.who] =
               IF @ = waits /\ starts[h.who] = h.run THEN next ELSE @]

-----------------------------------------------------------------------------
(***************************************************************************)
(* The proxy.                                                              *)
(***************************************************************************)

\* Mutant: the storage never grows.
RoomUnchanged(n) == capacity

\* The capacity after room for n elements was made: push_back doubles it.
Room(n) == IF n <= capacity THEN capacity ELSE Max({1, 2 * capacity, n})

\* What the vector was when the handler read it, one element longer.
AppendedLate(h) ==
  [k \in 1 .. h.at |-> IF k = h.at THEN h.who
                       ELSE IF k <= Len(server_list) THEN server_list[k] ELSE Garbage]

SetServerInfo(h) ==
  /\ h.method = "SetServerInfo"
  /\ \/ server_list' = Append(server_list, h.who)
     \/ h.disturbed /\ server_list' = AppendedLate(h)
  /\ capacity' = Room(Len(server_list'))
  /\ Disturb(h, capacity' # capacity)
  /\ Answer(h, "registering", "starting")
  /\ UNCHANGED <<proxyUp, starts, left, clientVars>>

\* Mutant: the last element is erased in place of the one found.
EraseLast(h) ==
  /\ server_list # <<>>
  /\ server_list' = Front(server_list)

\* An iterator behind the end, or into other storage, moves nothing, and the
\* last element goes.
Erase(h) ==
  /\ server_list # <<>>
  /\ server_list' = IF ~h.stale /\ h.at <= Len(server_list)
                    THEN RemoveAt(server_list, h.at) ELSE Front(server_list)

UnsetServerInfo(h) ==
  /\ h.method = "UnsetServerInfo"
  /\ \/ /\ h.at # 0
        /\ Erase(h)
        /\ Disturb(h, FALSE)
     \/ /\ h.at = 0
        /\ handlers' = handlers \ {h}
        /\ UNCHANGED <<server_list, raced>>
  /\ Answer(h, "stopping", "down")
  /\ UNCHANGED <<proxyUp, capacity, starts, left, clientVars>>

Finish(h, status) ==
  /\ handlers' = handlers \ {h}
  /\ result' = [result EXCEPT ![h.who] = status]
  /\ heard' = [heard EXCEPT ![h.who] = <<>>]
  /\ UNCHANGED <<proxyUp, server_list, capacity, raced, serverVars, called>>

WriteReply(h, address) ==
  /\ heard' = [heard EXCEPT ![h.who] = Append(@, address)]
  /\ handlers' = (handlers \ {h}) \cup {[h EXCEPT !.at = @ + 1]}
  /\ UNCHANGED <<proxyUp, server_list, capacity, raced, serverVars, result, called>>

\* The loop asks for the size of the vector in every round.
GetServerInfo(h) ==
  /\ h.method = "GetServerInfo"
  /\ \/ h.at <= Len(server_list) /\ WriteReply(h, server_list[h.at])
     \/ h.at > Len(server_list) /\ Finish(h, "OK")

\* What the loop over begin() .. end() finds, both taken when it began.
Element(h) ==
  IF ~h.stale /\ h.at <= Len(server_list) THEN server_list[h.at] ELSE Garbage

\* Mutant: a server that does not answer is passed over.
SayHelloSkips(h) ==
  /\ h.method = "SayHello"
  /\ \/ h.at <= h.end /\ Element(h) \in Listening /\ WriteReply(h, Element(h))
     \/ /\ h.at <= h.end /\ Element(h) \notin Listening
        /\ handlers' = (handlers \ {h}) \cup {[h EXCEPT !.at = @ + 2]}
        /\ UNCHANGED <<proxyUp, server_list, capacity, raced, serverVars, clientVars>>
     \/ h.at > h.end /\ Finish(h, "OK")

\* Mutant: the call waits until the server answers.
SayHelloWaits(h) ==
  /\ h.method = "SayHello"
  /\ \/ h.at <= h.end /\ Element(h) \in Listening /\ WriteReply(h, Element(h))
     \/ h.at > h.end /\ Finish(h, "OK")

\* The servers are called one after the other; the first that does not answer
\* ends it.
SayHello(h) ==
  /\ h.method = "SayHello"
  /\ \/ h.at <= h.end /\ Element(h) \in Listening /\ WriteReply(h, Element(h))
     \/ h.at <= h.end /\ Element(h) \notin Listening /\ Finish(h, "CANCELLED")
     \/ h.at > h.end /\ Finish(h, "OK")

\* The calls of a proxy that died fail: a server that waits for it exits.
StopProxy ==
  /\ proxyUp' = FALSE
  /\ server_list' = <<>> /\ capacity' = 0 /\ handlers' = {}
  /\ server' = [s \in GreetingServers |->
                  IF server[s] \in {"registering", "stopping"} THEN "down" ELSE server[s]]
  /\ result' = [c \in Clients |->
                  IF result[c] = "waiting" THEN "failed" ELSE result[c]]
  /\ heard' = [c \in Clients |-> <<>>]
  /\ UNCHANGED <<raced, starts, left, called>>

Undefined(h) == h.disturbed /\ StopProxy

KillProxy == proxyUp /\ StopProxy

Serve(h) ==
  \/ SetServerInfo(h) \/ UnsetServerInfo(h)
  \/ GetServerInfo(h) \/ SayHello(h) \/ Undefined(h)

-----------------------------------------------------------------------------
(***************************************************************************)
(* The greeting servers: the constructor registers, then the server begins *)
(* to listen; "shutdown" ends that, then the destructor deregisters.       *)
(***************************************************************************)
StartServer(s) ==
  /\ server[s] = "down" /\ starts[s] < MaxStarts(s) /\ proxyUp
  /\ server' = [server EXCEPT ![s] = "registering"]
  /\ starts' = [starts EXCEPT ![s] = @ + 1]
  /\ handlers' = handlers \cup
       {NewHandler("SetServerInfo", s, starts[s] + 1, Len(server_list) + 1)}
  /\ UNCHANGED <<proxyUp, server_list, capacity, raced, left, clientVars>>

BuildAndStart(s) ==
  /\ server[s] = "starting"
  /\ server' = [server EXCEPT ![s] = "listening"]
  /\ UNCHANGED <<proxyVars, starts, left, clientVars>>

\* Where UnsetServerInfo's search of the address ends, or 0.
Find(s) == SelectInSeq(server_list, LAMBDA a : a = s)

Shutdown(s) ==
  /\ server[s] = "listening"
  /\ \/ /\ proxyUp
        /\ server' = [server EXCEPT ![s] = "stopping"]
        /\ handlers' = handlers \cup
             {NewHandler("UnsetServerInfo", s, starts[s], Find(s))}
     \/ /\ ~proxyUp
        /\ server' = [server EXCEPT ![s] = "down"]
        /\ UNCHANGED handlers
  /\ UNCHANGED <<proxyUp, server_list, capacity, raced, starts, left, clientVars>>

\* Killed, a server never gets to its destructor.
KillServer(s) ==
  /\ server[s] # "down"
  /\ server' = [server EXCEPT ![s] = "down"]
  /\ left' = [left EXCEPT ![s] = IF server[s] = "stopping" THEN @ ELSE @ + 1]
  /\ UNCHANGED <<proxyVars, starts, clientVars>>

-----------------------------------------------------------------------------
\* The client makes one call and prints what is streamed to it.
Call(c, method) ==
  /\ result[c] # "waiting" /\ called[c] < MaxCalls /\ proxyUp
  /\ result' = [result EXCEPT ![c] = "waiting"]
  /\ called' = [called EXCEPT ![c] = @ + 1]
  /\ handlers' = handlers \cup {NewHandler(method, c, called[c], 1)}
  /\ UNCHANGED <<proxyUp, server_list, capacity, raced, serverVars, heard>>

Kills ==
  /\ kills < MaxKills /\ kills' = kills + 1
  /\ KillProxy \/ \E s \in GreetingServers : KillServer(s)

Serves == \E h \in handlers : Serve(h) /\ UNCHANGED kills

Next ==
  \/ Serves
  \/ Kills
  \/ /\ UNCHANGED kills
     /\ \/ \E s \in GreetingServers : StartServer(s) \/ BuildAndStart(s) \/ Shutdown(s)
        \/ \E c \in Clients, method \in {"GetServerInfo", "SayHello"} : Call(c, method)

\* The threads that serve calls are scheduled; nothing else is assumed.
Spec == Init /\ [][Next]_vars /\ WF_vars(Serves)

-----------------------------------------------------------------------------
\* The type invariant: the vector never outgrows its storage.
TypeOK ==
  /\ proxyUp \in BOOLEAN /\ raced \in BOOLEAN
  /\ server_list \in Seq(GreetingServers \cup {Garbage})
  /\ capacity \in Nat /\ Len(server_list) <= capacity
  /\ \A h \in handlers :
       /\ h.method \in {"SetServerInfo", "UnsetServerInfo", "GetServerInfo", "SayHello"}
       /\ h.who \in (IF Changing(h) THEN GreetingServers ELSE Clients)
       /\ h.at \in Nat
  /\ \A s \in GreetingServers :
       server[s] \in {"down", "registering", "starting", "listening", "stopping"}
  /\ \A c \in Clients :
       result[c] \in {"none", "waiting", "OK", "CANCELLED", "failed"}

\* The entries the proxy has of a server.
Count(s) == Cardinality({k \in DOMAIN server_list : server_list[k] = s})

\* As long as no two changes of server_list overlap, "set successful" and "unset
\* successful" are true: between calls the proxy has one entry for each server
\* that is up and one for each run that was killed, which nothing removes.
EntriesAreRuns ==
  proxyUp /\ ~raced /\ (\A h \in handlers : ~Changing(h)) =>
    \A s \in GreetingServers :
      Count(s) = left[s] + (IF server[s] \in {"starting", "listening"} THEN 1 ELSE 0)

\* A call that returns OK, and that no change came in between of, has heard
\* from every server that was listening when it began: a listed server that is
\* gone makes it CANCELLED and never makes it leave another one out.
HelloReachesAll ==
  [][\A h \in handlers :
       /\ ~Changing(h) /\ ~h.disturbed /\ ~raced
       /\ result[h.who] = "waiting" /\ result'[h.who] = "OK"
       => h.present \subseteq ToSet(heard[h.who])]_vars

\* Every call returns, whatever server or proxy dies meanwhile and whatever the
\* races do.
CallsReturn == \A c \in Clients : result[c] = "waiting" ~> result[c] # "waiting"
=============================================================================
