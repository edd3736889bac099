SPECIFICATION LiveHostSpec
CONSTANTS
  r1 = r1
  a1 = a1
  a2 = a2
  b1 = b1
  m1 = m1
  m2 = m2
  pool = pool
  None = None
  Container <- TwoMachines
  Capacity <- OneEach
  Scope <- OneScope
  Recovery <- NoKits
  Runs = {r1}
  Hosts = {a1, a2}
  Pools = {pool}
  Epoch <- SameEpoch
  Declares <- OnePool
  WriterEpochs = {1}
  Workloads = {"agent"}
  Threshold = 1
  LeaseTicks = 1
  MaxToken = 1
  MaxVersion = 2
PROPERTIES RunsEnd
ACTION_CONSTRAINT InOrder
CHECK_DEADLOCK FALSE
