# A verification of the distributed file system

`src/` holds two course projects over gRPC. *DistributedFileSystem* stores files as replicated blocks on data servers, with one name server that knows where each block is. *MultipleRPC* is a proxy that greets through a list of servers. This directory models both in TLA+, from the handlers down to the generated message code, checks them with TLC on small instances and proves with TLAPS, for every value of the constants, the safety of the name server, of the whole file system, of the messages and of the proxy, and that the whole file system implements an abstract store.

## 1. Inventory

Source paths are below `src/DistributedFileSystem/cpp/`, in the parts on generated code below `src/DistributedFileSystem/`, in those on *MultipleRPC* below `src/MultipleRPC/`.

### Name server (`NameServer.cpp`)
- **State**: `serverList`, the data servers sorted by the SHA-256 digest of their address; `fileList`, the metadata (name, size, `storeList`) of the files that exist; `tempList`, the metadata of the files being put or removed. All in memory.
- **Operations**: `startServer`, `terminateServer`, `updateBlockInfo`; `beginPut/commitPut/abortPutTransaction`; `beginRm/commitRm/abortRmTransaction`; `beginGet/commitGetTransaction`; `executeLsTransaction`.
- **Concurrency**: gRPC serves calls on many threads; every handler holds `atomicMutex` from its first line to each return, so handlers are atomic with respect to each other. Transactions are not: between begin and commit any other handler may run, and entries are found by name only.
- **Threads**: a handler may wait for the mutex; `beginGet`, `beginPut`, `beginRm` and `executeLs` write their answer to the stream while they hold it, `beginRm` with an iterator into `fileList` that it erases through at the end.
- **Hard**: a client that reads slowly or dies while its answer is streamed; a return that forgets the mutex; two transactions on one name, reports of data servers that arrive late, twice or for a later put, a ring with duplicates or with nobody on it, a restart with empty lists.
- **Correct when**: the linear scan of `serverList` is a consistent-hash lookup; a `storeList` has its blocks numbered without a gap, the replicas of a block adjacent, on distinct servers, and recorded alike; the blocks cut the file; the entry of a listed file changes only by moving to `tempList`.

### Data server (`DataServer.cpp`)
- **State**: block files `<name>.<index>` in its directory, which survive the process; nothing in memory but the calls being served.
- **Operations**: `getBlock`, `putBlock`, `rmBlock`; `startServer` from the constructor, which exits the process when it fails; `updateBlockInfo` to the name server at the end of `putBlock`.
- **Concurrency**: no lock at all. Calls interleave step by step, two calls may have one block file open, `getBlock` measures a file, streams it and compares the digest last, and a call whose client died goes on to its end.
- **Hard**: two `putBlock` of one block; `rmBlock` that compares a file and later removes whatever has that name; a broken stream, taken for the end of the block; a report sent before the file is closed; `terminateServer` sits in the destructor, which a process that is killed never runs.
- **Correct when**: what a data server holds under a block's name is what the name server says, whenever the file is listed.

### Client (`Client.cpp`) and `TestClient.cpp`
- **State**: the files of `cacheDirectory`, the `.bak` copy put makes, and `cacheList`, the digests of the blocks of the files put by this process. `TestClient` runs one operation at a time.
- **Operations**: `get`, `put` (which starts with an `rm` of the name), `rm`, `ls`; each a chain of calls with an abort when a data server fails.
- **Hard**: whatever the other clients, and its own dead predecessors, do between two calls; errors that are printed and not acted upon; a crash between the two renames of `put`.
- **Correct when**: an operation that returns OK did what it says; no operation hangs; the user's only copy is never lost; a download never mixes two versions of a file.

### Protocol and generated code (`protos/`, `proto-src/`)
- **State**: per call, the messages under way in each direction and the object each reader parses into, over and over.
- **Operations**: the five messages' constructors, `Clear`, parser, serializer, `ByteSizeLong`, `MergeFrom`; the stub's and the service's tables of methods and kinds.
- **Hard**: members with default values are not on the wire, so that a reader that does not clear its object keeps the last message's; most callers pass one object as request and reply; a string that is not UTF-8 is written but not read.
- **Correct when**: what is read is what was written, on every path from a stub's method to the handler it reaches.

### MultipleRPC (`ProxyServer.cc`, `GreetingServer.cc`, `Client.cc`)
- **State**: the proxy's vector `server_list` of addresses; a greeting server's place in its life.
- **Operations**: `SetServerInfo`, `UnsetServerInfo` (called by a greeting server's constructor and destructor), `GetServerInfo`, `SayHello`, which calls every server on the list in turn and streams the answers.
- **Concurrency**: handlers on threads of their own, no lock. `SayHello` iterates over the vector for as long as its calls take.
- **Hard**: two changes at once; a change under an iteration; a server that registers before it listens, has stopped listening before it deregisters, or dies without deregistering.
- **Correct when**: a call that returns OK heard everyone who was there; the list says who runs, or died; every call returns.

### Other parts
`electron/` opens an empty window; the CMake files have no behaviour.

### How they interact
```
 user edits --> Client --begin/commit/abort--> NameServer <--startServer, updateBlockInfo-- DataServer
                  |                                                                            ^
                  +------------------- getBlock / putBlock / rmBlock --------------------------+
```
```
 GreetingClient --GetServerInfo, SayHello--> Proxy <--Set/UnsetServerInfo-- GreetingServer
                                               +-----------SayHello----------->
```
Only calls connect the processes; there are no callbacks and no shared files. The hazards this gives rise to are listed, each at its line, in `PROJECT.json`.

## 2. Modules

| module | models | extends |
|---|---|---|
| `Placement` | the split of a file and the consistent-hash placement, as operators | |
| `NameServer` | the name server: variables, one action per handler | `Placement` |
| `NameServerSpec` | the name server open to any caller; its properties | `NameServer` |
| `DataServer` | block files, calls in service, data server crashes | `NameServer` |
| `Client` | get, put, rm, one action per call; cache, `.bak` copy, crash | `DataServer` |
| `DFS` | the whole system: composition, crashes, restarts, fairness; its properties | `Client` |
| `FileStore` | what the file system promises: a store of whole files, abstract | |
| `DFSRefinement` | the mapping under which `DFS` implements `FileStore` | `DFS` |
| `NameServerThreads` | mutex, iterators and streams below the name server's handlers | |
| `Messages` | the five messages as the generated code reads and writes them | |
| `Wire` | one call between stub and service, in every method | `Messages` |
| `GreetingProxy` | proxy, greeting servers and client of *MultipleRPC* | |
| `MCNameServer`, `MCDFS`, `MCNameServerThreads`, `MCWire`, `MCGreetingProxy` | values of the constants for TLC | the module of that name (`NameServerSpec`, `DFSRefinement`) |
| `ListProofs` | lemmas on lists, lists of lists, recursion and sums | `TLAPS` |
| `NameServerLemmas` | ring, replicas and split; what each handler preserves, whoever calls it; lists by name | `NameServer`, `ListProofs` |
| `NameServerProofs` | theorems about `NameServerSpec` | `NameServerSpec`, `NameServerLemmas` |
| `NameServerThreadsProofs` | theorems about `NameServerThreads` | `NameServerThreads`, `ListProofs` |
| `DFSProofs` | theorems about the whole system | `DFS`, `NameServerLemmas` |
| `RefinementProofs` | the whole system implements `FileStore` | `DFSRefinement`, `DFSProofs` |
| `WireProofs` | theorems about `Wire` | `Wire`, `ListProofs` |
| `GreetingProxyProofs` | theorems about `GreetingProxy` | `GreetingProxy`, `ListProofs` |

`DataServer`'s variables come on top of the name server's and `Client`'s on top of both, because a step of a client often is a step of a server too: a call to the name server *is* its handler (`NameService(handler)`, or a failed call when the server is down).

### Name server
A handler is one action of the same name; its disjuncts are its returns. `Find` is the loop over `fileInfo.filename()` and returns the first match, as the code does. `Publish`, `Drop` and `Refuse` are the three things a commit or abort does. `Sortings` allows every result of `std::sort`, which is unstable, so that servers registered twice lie in any order. Digests are numbers, because `memcmp` on SHA-256 output orders them as numbers, and the two hash functions are constants: nothing is assumed of them but that they are naturals.

With no server registered and a file that is not empty, `beginPutTransaction` reads `*serverList.begin()` of an empty vector. That is undefined: the model crashes the process, or, if the vector ever had storage (`allocated`), goes on with the `ServerInfo` that was destroyed there (`DeadServer`).

### Data server
`putBlock` truncates the file when the first unit arrives, then writes unit by unit at its own offset (`PutWrites`), reports to the name server (`PutReports`), and closes, which flushes the last unit (`PutCloses`). The report precedes the last flush, as in the code. `rmBlock` compares on arrival and removes by name in a later step (`RmRemoves`), which is also the answer the client gets; a data server that dies may have removed any of the blocks it was asked to and not answered (`CrashDataServer`). A file removed while another call has it open is written unseen (`linked`). `getBlock` answers an error unless the file has the size asked for, then streams it in as many reads (`Reads`, taken by the client's `GetUnit`) and says only after the last whether the digest was right. In between the file may be truncated (reads fail and leave the buffer as it was), rewritten (a mixture goes out) or removed (what is open is still read). A data server registers in its constructor (`RegisterDataServer`, `starting`) and only then listens (`Listen`, `running`). A digest is represented by the content it is taken of (no collisions), and a size is a number of stream units.

### Client
`pc[c]` names the call the client makes next. The error paths of `Client.cpp` that calls can take are there (those of its own files are not, section 6): a refused `beginRm` or `beginPut` leaves an empty list and the operation goes on (`RmGoesOn`, `PutGoesOn`, `GetGoesOn`); when the name server dies while it streams an answer, the operation goes on with the beginning of the list that has arrived (`AnswerBreaks`, a step in which the name server crashes); a failed block call leads to the abort; the commit statuses are dropped; `get` tries the replicas of a block in order, gives up when a later block's entry comes up, and does not notice that the last block is missing. `get` of an unlisted file with something cached reads `storeList[0]` of an empty vector and kills the process (`Die`). `Cut` is a client death in the middle of a `putBlock` stream: the server takes what arrived for the whole block.

### Whole system
`Crashes` kills a client, a data server or the name server at any point, `Restarts` starts servers again. `Init` is a system whose data servers have each started once and which holds no file; a data server that dies registers again when it comes back. `Users` are the clients that put and remove, the others only get.

### The abstract store
`FileStore` knows no blocks, servers or metadata: a file is stored, being withdrawn, or absent, and each operation takes effect in one step. It says what is *not* promised too: a put or rm may come to nothing when a data server fails, and the last block of a download may be anything (`Delivered`, the behaviour `lost_block` finds). `DFSRefinement` maps `fileList` to `stored`, the entry a removal has set aside to `withdrawn`, the `storeList` a get works from to `chosen`, and the local file or its `.bak` copy to `copy`. `ImplementsFileStore` then says: a put shows whole at `commitPutTransaction`, a removal at `beginRmTransaction` for good or until it is undone, a get brings the version of its begin, and no step of put loses the copy it renamed.

### Threads of the name server
`NameServer` takes a handler as one step. `NameServerThreads` justifies the part of that which the mutex gives, and checks what a single step cannot show: a handler waits (`Lock`), finds or refuses (`Refuse`, `Act`), or writes its answer message by message with the mutex held (`StartStream`, `Write`, `EndStream`). `Write` waits while `Window` messages are unread, which is gRPC's flow control with the smallest window; a dead client's stream accepts everything. Entries are names only. A client reads an answer to its end before its next call, and during `putBlock` it waits for a data server whose `updateBlockInfo` needs the mutex as well (the second thread of each client, `"report"`). An iterator into `fileList` is stale once another handler's return has changed the vector.

### Messages and calls
`Messages` has, for each message and each generated function, one listing of the members that function touches, with their numbers, tags and kinds; the operators after them say what is done with a member, which is the same everywhere. A listing that forgets a member, or a parser and serializer that disagree on a number, breaks a property of `Wire`. There, the stub's and service's tables of `grpc.pb.cc` decide which types the two sides of a method use; `Write` serializes into a channel of `Window` messages, `StartRead` clears the object and `ParseField` parses one member into it. `OneObject` are the calls that get their request as the reply to fill (`Client.cpp:211`, `:223`, `:260`, `:267`, `:338`, `:351`, `:357`, `:398`, `:406`, `DataServer.cpp:166`). A string is empty, not UTF-8, or a value; a number is a varint of its real length.

### MultipleRPC
A change of `server_list` is two steps: what the handler reads of the vector when the call comes in, and what it makes of it. When another change ended in between, the handler is `disturbed` and what it does is undefined; the model lets it kill the proxy (`Undefined`), go on with what it had read (an append that overwrites, `AppendedLate`; an erase that hits another element, `Erase`), or do no harm. `Room` is the growth of the vector, which decides whether iterators point into freed storage (`stale`, then `Garbage` is read). A `SayHello` calls one server per step. Greeting servers go through `registering`, `starting`, `listening`, `stopping`, and may be killed anywhere, the proxy too.

## 3. Runs

Bounds are the constants `MaxRegistrations`, `MaxEntries`, `MaxOps` (operations each user starts), `MaxGets` (gets of a client that only gets), `MaxEdits`, `MaxFaults`, `MaxCrashes`, `MaxStarts`, `MaxCalls` and `MaxKills`; they guard only the start of things, never a step of something begun. `MaxStream` bounds the length of a stream, `Window` what is under way in it.

| run | distinct states | question |
|---|---|---|
| `ring` | 13 549 | three servers come, go and come twice in every order: `LookupIsSuccessor`, `PutCutsFile`, `RingIsStable` |
| `transactions` | 167 048 | any interleaving of the handlers, arbitrary reports, a crash: `TypeOK`, `StoresWellFormed`, `CommittedIsStable` |
| `solo` | 45 561 | one client, two files, no crash: `TypeOK`; nothing is left over (`NoOrphanBlocks`), the cache agrees with the name server (`CacheIsListed`), a put that returns OK is listed (`PutIsListed`), get gives back what was put (`GetIsListed`) |
| `readers` | 283 359 | a reader races a writer while a data server may die and return: `CommittedIsStored` until it does, what is downloaded without an error is the version the name server answered for (`NoMixedVersions`), and the whole implements `FileStore` (`ImplementsFileStore`) |
| `faults` | 496 963 | two crashes of anything, in the middle of an answer too: every operation returns (`OpsTerminate`), no name is known twice (`UniqueNames`), and what is downloaded without an error is what its list names (`NoMixedVersions`), although calls of a dead client write and remove beside the next put's |
| `handlers` | 70 928 | two clients queue for the mutex, one may die: `TypeOK`; no iterator goes stale (`IteratorsValid`), no handler (`HandlersReturn`) and no operation (`OperationsReturn`) waits for ever |
| `wire` | 32 690 | every method, requests and replies of every shape: `TypeOK`; what is read was written (`ReadAsWritten`), a request that is also the reply survives (`RequestSurvives`), only names that are not UTF-8 fail (`OnlyBadNamesFail`), `SizeIsLength` |
| `proxy` | 445 601 | greeting servers come, go and die under a client's calls: `TypeOK`; the list is true as long as no two changes overlapped (`EntriesAreRuns`), OK means everyone was heard (`HelloReachesAll`), every call returns (`CallsReturn`) |

Four more runs find a violation; section 5 describes them.

**Why the bounds are enough.** Three servers at hashes 2, 4, 6 and replica keys in 0..7 give keys below, on, between and above the servers; four registrations allow one duplicate at any place. File sizes 0 to 4 with `maxBlockSize = 2` are nothing, part of a block, one block, one and a part, two. In the whole system two contents of different lengths, one of one block and one of two, with block 0 on both servers and both replicas of block 1 on one server, show replicas, their skipping, the last block and files that shrink and grow. In `faults` the second content is shorter than the first one's block, so that a put which meets a dead client's call in one block file leaves a mixture there, and a list has two entries or three, enough for an answer to break off between replicas and between blocks. Two entries in the metadata are the least with which transactions meet on one name. Each client that writes starts 3 to 5 operations: a put, another put over it, a get or rm, and what comes after; every disagreement found needs at most two. A reader gets once, at any moment of them. For the mutex, two clients with two operations each and a report thread are three at a time who wait for one holder, and a window of one message makes every stream of two block. For the wire, streams of two messages are the least in which a default follows another value, and the numbers 0 and 300 are one that is not sent and one of two bytes. For the proxy, three entries (one server twice) let the vector grow by reallocation and without, and an erase move elements; with one client, two changes and an iteration overlap.

**Fairness** of the whole system (`FairSpec`, run `faults` only): weak fairness of each client's next step, and of the calls being served. Client processes are loops that never wait for anything but an answer, and gRPC's threads are scheduled, so a step that stays possible is taken; a call to a dead server is answered by gRPC with an error. Nothing is assumed about starting an operation, editing, crashing or restarting: `OpsTerminate` holds with a server that stays down for ever.
In `NameServerThreads` each handler thread and each client that has begun something takes steps that stay possible (weak fairness). The mutex is handed over in no order; that nobody starves follows from the bounded number of operations, so `HandlersReturn` says that the mutex is always released, not that `std::mutex` is fair. In `GreetingProxy` the threads that serve calls are scheduled (`WF` of `Serves`), and nothing is assumed about servers, clients and deaths.

`CHECK_DEADLOCK FALSE` is set for the runs of the whole system, `handlers` and `proxy`, which stop when the bounds are used up and nobody does anything. `ring`, `transactions` and `wire` are checked for deadlock: in `wire` a call that has not returned can always go on.

## 4. Proofs

All are checked by `tlapm` to the last leaf, for every set of files and servers, every number of replicas, block size and pair of hash functions, and every sequence of calls. No invariant of the passing runs is left to TLC alone.

**Assumptions**: `PlacementAssumption` (`Placement`): digests of addresses are naturals, `maxBlockSize` and `backupNum` positive, `NoServer` and `NoHash` apart from the rest. `NameServerAssumption` (`NameServerSpec`): sizes, indices and replica digests are naturals, reports are a size and a digest. `ThreadsAssumption` (`NameServerThreads`): there is a file, `Free` is not a thread, block count and window are naturals, operations are among the four. `AbsentAssumption` (`DFSRefinement`): "no file" is told from a content and from what a download brings. `WireAssumption` (`Wire`): the window is a natural, the names the program gives and the empty string are UTF-8. TLC evaluates each in every run that extends the module. `NoCollision`, that two servers' addresses never have one digest, is a hypothesis of `RingStable` only.

`StoreListWellFormed` (`NameServerLemmas`): the split and placement loop produces a well formed `storeList` for every ring, file and size. It first shows that the recursive function of the loop is defined (`Steps`, `Solutions`, `Recursion`: a recursive function over `0 .. n` exists by taking the set of its partial solutions), then an invariant of the loop by induction on the blocks done.

The **inductive invariant** of the name server, `IInv`, has three parts:
- `RingInv`: `serverList` is a *sorted* sequence of servers that carry the digest of their address. Sortedness is what `LookupIsSuccessor` needs, and neither follows from the other for a step.
- `ListsInv`: every entry of *both* lists is a `GoodEntry`, typed and well formed. `StoresWellFormed` for `fileList` alone is not inductive, since entries come from `tempList`, where the reports are applied. The step that matters is `ReportKeepsShape`: in a well formed list the run of equal indices from the first match on *is* the whole block (`RunIsBlock`, from `IndicesRise`), so all replicas take the report and still agree.
- `FlagsInv`: the two flags are Booleans.

`Inductive` is `NSSpec => []IInv`, with one lemma per group of handlers; `TypeCorrect`, `LookupCorrect` and `StoresCorrect` follow. `CommittedStable` and `RingStable` are action properties: the first from what `RemoveAt` and `Append` do to the members of a list (`RemoveAtProperties`, `ListMembers`), the second from `LookupDependsOnMembers`: on a sorted ring without collisions the lookup is a function of the set of servers, whatever `std::sort` did with equals.

For the **threads of the name server** the inductive invariant (`ThreadsInductive`) is again called `IInv`, with five parts: `Typed`; `Exclusion`, that a handler between its search and its return holds the mutex; `Busy`, that the client of a handler under way is in a call, and so does not change the name the handler looks for; `Holding`, that the entry a `beginRm` streams is still in `fileList`; and `Fresh`, that no iterator is stale. `IteratorsValid` (`Fresh`) needs `Exclusion`; `TypeOK` needs `Holding`, without which the erase at the end of `beginRm` would not be of an element, and `Holding` needs the other two. `ThreadsTypeCorrect` and `NoStaleIterator` follow. All returns share one lemma (`ReturnKeeps`), all other steps of a handler another (`HandlerGoesOn`), and those of a client that enter a call a third (`EnterKeeps`).

**`PutCuts`** (`PutCutsFile`): `StoreListMembers` says what the loop of `beginPutTransaction` leaves in the `storeList`, as a set: exactly the entries asked for (`AskedFor`), by a second induction on the blocks done, next to the one of `StoreListWellFormed`. That they cut the file is arithmetic; that there are as many replicas as servers on their ring places needs the ring to carry one digest per address, which is part of `RingInv`.

### The whole file system

**Assumptions**: `DFSAssumption`: finitely many servers, the users are clients, contents are made of stream units, every block of units has a digest, and `Orphan` and `Absent` are neither clients nor digests. Each theorem names its hypotheses:
- `BlockIndices = Nat`: the code puts no bound on the number of blocks of a file; TLC's `{0, 1}` is where `MCDFS` stops.
- `OneWriter`, one client at most puts and removes, any number of others get: with two, the run `two_writers` finds two entries of one name.
- `Servers # {}`: with no data server `beginPutTransaction` is undefined.
- `OnlyServersFail`, data servers may die and return, as often as they like, clients and name server do not: for the refinement.
- `MaxFaults = 0`, nothing crashes: for the two properties of steps, `refused_put`, `orphan_call` and the failed downloads being what crashes lead to.
- `Alone`, there is one client: for the gets, because a get that races an rm may end with the failure of `lost_block`.

`MaxOps`, `MaxGets` and `MaxEdits` are arbitrary, and where no hypothesis says otherwise `MaxFaults` and what may crash (`Faults`) are, too.

| theorem | hypotheses | says |
|---|---|---|
| `TypesKept`, `FileSystemTypes` | `BlockIndices = Nat` | `DInv`, hence `TypeOK`, whatever crashes and whoever writes |
| `NamesHold`, `NamesUnique` | `OneWriter` | `NamesInv`, hence `UniqueNames`, whatever crashes |
| `VersionsUnmixed` | `BlockIndices = Nat` | `NoMixedVersions`, and `AnswerKept`: where the list of a get comes from; whatever crashes and whoever writes |
| `QuietHolds`, `FilesStored` | the first three | until something crashes: `Quiet`, hence `CommittedIsStored` |
| `NothingLeftBehind`, `NoBlockLeft` | the first three | `NoOrphanBlocks` until something crashes, and always where nothing may |
| `CacheAgrees` | the first three | until something crashes: `CacheIsListed` |
| `SteadyHolds`, `StoreImplemented` | the first three, `OnlyServersFail` | `Sound`, hence `ImplementsFileStore` |
| `PutsAreListed` | the first three, `MaxFaults = 0` | `PutIsListed` |
| `GetsAreListed` | as before, with `Alone` for `OneWriter` | `GetIsListed` |

`DInv` is `IInv` of the name server (its lemmas are about handlers, not about who calls them, so they serve here again), `ServersInv` (every block file holds a piece no longer than a block; a `putBlock` has received a piece and the rest it has to write is no longer) and `ClientsInv`. The last is more than types: while a put runs, the entries of its list cut the client's copy (`Cuts`), so that every `Piece` is a block; while a get runs, the blocks of its list are contiguous and `got` has exactly those tried.

`NamesInv` is what `UniqueNames` lacks to be inductive: between its `rm` and its `beginPut` the writer's name is not in `tempList`, and a name server that is down has nothing.

`VersionsUnmixed` rests on `Matching`: each block of `got` that came without an error has the digest of *every* entry of its index in the list, for `WellFormed` makes replicas agree; then `Composition` and `ContentOf` concatenate the same blocks (`MatchingComposes`). Nothing is assumed of the disks, which is why it holds whoever crashes. `NoMixedVersions` compares with the get's list; that the list is what the name server answered is the second half, the action property `AnswerKept`: it is set at the begin, to the whole `storeList` of the listed file, or, in the step in which the name server dies, to a beginning of it (`Beginnings`), and no step of anyone changes it until the get returns. With a beginning, the file composed is a version cut short, and the theorem says so.

`Quiet` is the invariant about the disks: all processes run (`AllRun`); every listed replica is there (`ListedStored`); a client waits for exactly one call, and each call is waited for (`OneCallEach`); what is in `tempList` is in the writer's hands (`OnTheWay`); the entries of an `rm` from its iterator on are still on the disks (`RemovalInv`), the entry of a put is filled in and stored up to its iterator (`PutInv`), what a `putBlock` has written and what it has left make its piece, and its report has reached the entry before its last unit is written (`SendInv`); and every block on a disk is listed or in the writer's hands (`DisksAccounted`). `CommittedIsStored` alone is not inductive: a commit lists what only `PutInv` knows to be stored, and a running `rm` would be free to remove a replica of a listed file.

`CacheAgrees` adds `CacheSound`: every cached entry agrees with `fileList` but for the one of the put under way, which has the blocks sent with the digests of those stored (`CachedPut`). The commit lists the same digests, those of the pieces, through `PutInv`.

`PutsAreListed` adds `PutsWhole` to `Quiet`: the list of a put has an entry for every block of its copy (`StoreListCovers`). At the commit `PutInv` says that each entry has the digest of its piece, and `PiecesMakeFile` that the pieces of a file in the order of their indices, each taken once however many replicas it has, are the file: an induction over the entries, with what is put together up to an entry being the file up to the end of its block (`PartsJoin`).

`GetsAreListed` adds `FetchInv`: every replica of the list is on its disk, the blocks that came without an error are those of the entries up to the iterator, numbered from 0, so that the number of them is the index asked for next, and what has been streamed of a block is its beginning. Each unit read then is the next one (`OneMore`), a block at its end has its digest, and at the end of the list no block is missing; the rest is `MatchingComposes`.

### The refinement

`StoreImplemented` is `Spec => ImplementsFileStore`: the initial states of `DFS` are initial states of `FileStore` under the mapping of `DFSRefinement` (`InitShown`), and each action is a step of the store or a stutter, with a lemma per action (`BeginRmShown`, `RmEndsShown`, `PutEndsShown`, `BeginGetShown`, `GetBlockShown`, `CommitGetShown`, ...). It holds while data servers fail, so it cannot rest on `Quiet`, which says what is on the disks and ends with the first failure. `Sound` is `DInv`, `NamesInv` and a fourth invariant, `Steady`, which says of metadata, calls and clients what stays true whatever is left on the disks:
- `ListedWhole`: every listed file has an entry for each of its blocks, with the digest of that piece of *one* content. This is why a listed file is mapped to a content although no disk may have it any more.
- `CallsAwait` and `Sent`: a call belongs to the client that waits for it and carries the piece of the entry at its iterator, so that a report fills in what belongs there. This fails when clients die (`orphan_call`), whence `OnlyServersFail`.
- `Withdrawn`, `Arriving`, `CopySafe`: what a removal has set aside is still whole and can be reinstated; the entry of a put is filled in up to its iterator and covers the copy, so that what the commit lists is what the copy holds; and `.bak` exists only until the `rm` a put begins with has ended.
- `Reading`: a get has the first blocks without a gap, and asks for the next at most.
- `NameServerRuns`: the name server is up with someone on its ring, `EachOwned`: what is in `tempList` is being removed or put.

The longest step is `CommitGetShown`. What a get composes is the blocks it has, each with the digest of its entry and therefore the piece itself, and after them, when the last block could not be downloaded, whatever the read buffer holds: `CompositionDelivered` shows that this is `Delivered` of the content, no more than the last block being replaced (`LastReplaced`). What is *not* in the theorem is what the store does not promise: crashes of clients and of the name server, and a second writer.

### Messages and calls

**`WireProofs`** is about every method, every message the types allow, streams of any length and any window. Two facts come first.
- *The listings agree* (`ListingsAgree`): for each message, `Clear`, `MergeFrom` and `ByteSizeLong` take all members, the serializers write each once, and the parser reads the tag of each into that member, with its kind, and no other. `StubMethods` and `ServedByItsHandler`: the stub's method and the handler registered under its path have the same types and kind. Both are finite and go listing by listing; everything after rests on `Agreed` and `Serves` only.
- *A round of the parser brings the object one field closer* (`PartialParse`): `Partial(T, o, r, m)` says that whatever of `m` the object does not have yet is in the rest `r`. It starts true because `Clear` leaves the default in exactly the members that are not on the wire (`PartialStart`), and with nothing left the object is the message (`PartialEnd`).

The invariant, again `IInv` (`InvariantHolds`), has `Call` (types), `Flows` (for each direction: what was sent is what was read, the message half read as in `Partial`, and the frames under way, in order), `ClientWrites`, `HandlerWrites` and `Ends` (what each side writes, and how a call ends). `ReadAsWritten` alone says nothing of frames under way and is not inductive; `RequestSurvives` needs `HandlerWrites`, for the reply is parsed into the request's own object and is the request again only because the handler copied what it had read, which is the request by `Flows`. `OnlyBadNamesFail` needs that no message but the request of a begin, or of the commit that follows one that failed, has a name that is not UTF-8 (`BuiltIsGood`, `RepliesAreGood`).

`SizeIsLengthHolds` compares two sums: the serializers write in the order of the field numbers, `ByteSizeLong` adds in its own. `SumRenamed` (`ListProofs`) says that a sum over a finite set does not depend on the names of its places; the renaming takes the position of a field on the wire to its member, and is one-to-one because no tag is written twice (`SerializeOnce`).

### The proxy

`ProxyInductive` is `Spec => []PInv`, for any servers, clients and bounds. `PInv` is the types, `CallsHeld` (a handler that reads belongs to a client that waits, and no client has two), and, as long as the proxy lives and no two changes overlapped, `Orderly`. Its core is a ledger for each server (`Ledger`): its entries and its registrations under way are the runs killed before they deregistered, one if it is up, and its deregistrations under way. `EntriesAreRuns` is the ledger with no change under way. `Prepared` says that until then every change finds the vector as it has read it, and a deregistration its own entry; `Reading` that an undisturbed `SayHello` has heard from everyone present before its iterator; from that follows `HelloReaches`, an action property.

### Only model-checked
- Liveness (`OpsTerminate`, `HandlersReturn`, `OperationsReturn`, `CallsReturn`), which is beyond the prover.

Each run lies within the hypotheses of the theorems about its properties, but for `BlockIndices`, which TLC has to bound.

## 5. What the checks show

The properties of the passing runs hold. Disagreements between what the program says and what it does, each with a run that finds it:

| run | what happens |
|---|---|
| `two_writers` | two overlapping puts of one name both pass the "already exists!" check, which looks only in `fileList`, and both are listed |
| `lost_block` | a get whose last block cannot be downloaded composes the file from its read buffer and returns OK |
| `refused_put` | a put whose `rm` was aborted (a data server is down) is refused by `beginPutTransaction`, and returns OK with nothing stored |
| `orphan_call` | a client dies in a `putBlock` and the file is put again; the old call's report changes the new entry, committed with the digest of a cut block |

Also visible in the model, and the reason some properties are checked with fewer faults:
- With crashes `CommittedIsStored` fails: a call without a client goes on writing (`orphan_call`), and after a data server's crash an aborted `rm` may list what is gone. So it has the premise that nothing has crashed. `NoMixedVersions` needs no such premise: the digest the name server answered catches whatever the disks hold, and `VersionsUnmixed` proves it for every crash. But it is about the blocks of the list, not about the file:
- When the name server dies while it streams a list, get prints "get block list fail!" and composes the blocks that arrived, put stores and rm removes only those, and each returns OK (`AnswerBreaks`).
- With a client crash between the two renames of `put`, `ImplementsFileStore` fails: a get then makes a new file and the next put renames it over the backup.
- The cache is compared with the name server, never with the local file: a get after the user edited the file says "already cached!" and leaves the edit in place; a second writer makes it stale. `CacheIsListed` is what it does guarantee.
- With two overlapping changes of `server_list` an entry may stay for a server that is gone, or one that runs may be missing; a change under a `SayHello` may make it skip a server and return OK. `EntriesAreRuns` and `HelloReachesAll` say what holds until then, `CallsReturn` what holds in any case.
- The entry of a greeting server that was killed is never removed: every later `SayHello` that reaches it is cancelled, until it runs again at that address.
- A file name that is not UTF-8 fails every operation with an error of the parser, before any handler sees it.
- An aborted `rm` lists the file again although some of its blocks are gone; no later `rm` of it succeeds while they are. A put that fails leaves its blocks behind. So `CommittedIsStored` and `NoOrphanBlocks` are checked as long as no data server has failed.
- A `get` of a file that is not listed truncates the user's copy when nothing is cached, and kills the process when something is.

## 6. Not modelled

- Pieces of files that get and put leave in `cacheDirectory` for a while: each is written before it is read. Name collisions with them (`f.0`, `f.bak` of a user) are left out, names being atomic.
- I/O errors of local files (`tellg` returning -1, a piece that cannot be created or removed, which aborts the put or get), integer widths (sizes are 64 bit and far from their limits), SHA-256 itself, logging, menus (at the end of input `TestClient` repeats its last operation for ever).
- Of the generated code: the asynchronous, generic and streamed-unary variants in `grpc.pb.h`, which nobody calls; descriptors and reflection; arenas and the ownership of strings; `SerializeWithCachedSizesToArray`, the serializer once more; unknown fields, which one version of the `.proto` never sends. The inline accessors of `pb.h` are reads and updates of a record.
- The comparison in `rmBlock` is one step, while the code reads the block unit by unit: that a `putBlock` of another client or of a dead one changes the file between two reads is left out; that one does between the comparison and the removal is not.
- In `NameServerThreads` a put stores one block, or fails at it, or has none; more would repeat the same wait. `startServer` and `terminateServer` hold the mutex for their whole length, stream nothing and touch neither list, and are not threads of that model.
- In `GreetingProxy` what undefined behaviour may do is limited: a vector change takes effect in one step, and a racing `GetServerInfo` streams an element that was there or dies, never a torn string. A proxy that died stays dead.
- Connections that fail between two processes that run: a call fails only when a process has died.
- Races of `SayHello` inside gRPC, and the order in which a `std::mutex` wakes threads.
- `electron/`, CMake files.

## 7. Plan

1. `GetIsListed` for a reader next to a writer, with the failures of `lost_block` as its premise, on top of `Steady`.
2. Recovery: what an aborted rm, a dead put or a restarted name server leaves, as properties of their own.
