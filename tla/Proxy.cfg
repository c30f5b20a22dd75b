SPECIFICATION Spec
CONSTANTS
  g1 = g1
  g2 = g2
  c1 = c1
  GreetingServers = {g1, g2}
  Clients = {c1}
  Garbage = Garbage
  MaxStarts <- MCMaxStarts
  MaxCalls = 1
  MaxKills = 2
INVARIANTS
  TypeOK
  EntriesAreRuns
PROPERTIES
  HelloReachesAll
  CallsReturn
CHECK_DEADLOCK FALSE
