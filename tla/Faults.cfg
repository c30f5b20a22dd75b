SPECIFICATION FairSpec
CONSTANTS
  f1 = f1
  f2 = f2
  s1 = s1
  s2 = s2
  c1 = c1
  c2 = c2
  Files = {f1}
  Servers = {s1, s2}
  NoServer = NoServer
  ServerHash <- MCServerHash
  ReplicaHash <- MCReplicaHash
  BlockHashes <- MCBlockHashes
  NoHash = NoHash
  maxBlockSize = 2
  backupNum = 2
  Absent = Absent
  Orphan = Orphan
  Garbage = 0
  BlockIndices = {0, 1}
  Contents <- MCShortContents
  Clients = {c1}
  Users = {c1}
  Operations = {"get", "put", "rm"}
  MaxOps = 3
  MaxGets = 2
  MaxEdits = 2
  Faults = {"client", "data", "name"}
  MaxFaults = 2
INVARIANTS
  UniqueNames
  NoMixedVersions
PROPERTIES
  OpsTerminate
CHECK_DEADLOCK FALSE
