SPECIFICATION Spec
CONSTANTS
  f1 = f1
  f2 = f2
  s1 = s1
  s2 = s2
  c1 = c1
  c2 = c2
  Files = {f1}
  Servers = {s1, s2}
  NoServer = NoServer
  ServerHash <- MCServerHash
  ReplicaHash <- MCReplicaHash
  BlockHashes <- MCBlockHashes
  NoHash = NoHash
  maxBlockSize = 2
  backupNum = 2
  Absent = Absent
  Orphan = Orphan
  Garbage = 0
  BlockIndices = {0, 1}
  Contents <- MCContents
  Clients = {c1, c2}
  Users = {c1, c2}
  Operations = {"put"}
  MaxOps = 1
  MaxGets = 2
  MaxEdits = 2
  Faults = {}
  MaxFaults = 0
INVARIANTS
  ListedOnce
CHECK_DEADLOCK FALSE
