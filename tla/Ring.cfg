SPECIFICATION NSSpec
CONSTANTS
  f1 = f1
  f2 = f2
  s1 = s1
  s2 = s2
  s3 = s3
  Files = {f1}
  Servers = {s1, s2, s3}
  NoServer = NoServer
  ServerHash <- MCServerHash
  ReplicaHash <- MCReplicaHash
  BlockHashes = {"h1", "h2"}
  NoHash = "none"
  maxBlockSize = 2
  backupNum = 3
  FileSizes = {0, 1, 2, 3, 4}
  BlockIndices = {0, 1}
  Reports <- MCReports
  MaxRegistrations = 4
  MaxEntries = 1
INVARIANTS
  LookupIsSuccessor
  PutCutsFile
PROPERTIES
  RingIsStable
