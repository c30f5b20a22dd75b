SPECIFICATION Spec
CONSTANTS
  f1 = f1
  f2 = f2
  s1 = s1
  s2 = s2
  c1 = c1
  c2 = c2
  Files = {f1, f2}
  Servers = {s1, s2}
  NoServer = NoServer
  ServerHash <- MCServerHash
  ReplicaHash <- MCReplicaHash
  BlockHashes <- MCBlockHashes
  NoHash = NoHash
  maxBlockSize = 2
  backupNum = 2
  Absent = Absent
  Orphan = Orphan
  Garbage = 0
  BlockIndices = {0, 1}
  Contents <- MCContents
  Clients = {c1}
  Users = {c1}
  Operations = {"get", "put", "rm"}
  MaxOps = 5
  MaxGets = 2
  MaxEdits = 3
  Faults = {}
  MaxFaults = 0
INVARIANTS
  TypeOK
  NoOrphanBlocks
  CacheIsListed
PROPERTIES
  GetIsListed
  PutIsListed
CHECK_DEADLOCK FALSE
