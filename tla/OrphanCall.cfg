SPECIFICATION Spec
CONSTANTS
  f1 = f1
  f2 = f2
  s1 = s1
  s2 = s2
  c1 = c1
  c2 = c2
  Files = {f1}
  Servers = {s1, s2}
  NoServer = NoServer
  ServerHash <- MCServerHash
  ReplicaHash <- MCReplicaHash
  BlockHashes <- MCBlockHashes
  NoHash = NoHash
  maxBlockSize = 2
  backupNum = 2
  Absent = Absent
  Orphan = Orphan
  Garbage = 0
  BlockIndices = {0, 1}
  Contents <- MCContents
  Clients = {c1}
  Users = {c1}
  Operations = {"put"}
  MaxOps = 2
  MaxGets = 2
  MaxEdits = 1
  Faults = {"client"}
  MaxFaults = 1
PROPERTIES
  PutIsListed
CHECK_DEADLOCK FALSE
