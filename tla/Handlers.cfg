SPECIFICATION Spec
CONSTANTS
  f1 = f1
  c1 = c1
  c2 = c2
  Clients = {c1, c2}
  Files = {f1}
  Free = Free
  Blocks = 2
  Window = 1
  Operations = {"get", "put", "rm", "ls"}
  MaxOps = 2
  MaxCrashes = 1
INVARIANTS
  TypeOK
  IteratorsValid
PROPERTIES
  HandlersReturn
  OperationsReturn
CHECK_DEADLOCK FALSE
