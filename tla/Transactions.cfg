SPECIFICATION NSSpec
CONSTANTS
  f1 = f1
  f2 = f2
  s1 = s1
  s2 = s2
  s3 = s3
  Files = {f1, f2}
  Servers = {s1, s2}
  NoServer = NoServer
  ServerHash <- MCServerHash
  ReplicaHash <- MCReplicaHash
  BlockHashes = {"h1", "h2"}
  NoHash = "none"
  maxBlockSize = 2
  backupNum = 2
  FileSizes = {1, 3}
  BlockIndices = {0, 1}
  Reports <- MCReports
  MaxRegistrations = 2
  MaxEntries = 2
INVARIANTS
  TypeOK
  StoresWellFormed
PROPERTIES
  CommittedIsStable
