SPECIFICATION HostSpec
CONSTANTS
  r1 = r1
  a1 = a1
  a2 = a2
  b1 = b1
  m1 = m1
  m2 = m2
  pool = pool
  None = None
  Container <- TwoMachines
  Capacity <- OneEach
  Scope <- OneScope
  Recovery <- NoKits
  Runs = {r1}
  Hosts = {a1, a2, b1}
  Pools = {pool}
  Epoch <- SameEpoch
  Declares <- OnePool
  WriterEpochs = {1}
  Workloads = {"agent"}
  Threshold = 1
  LeaseTicks = 1
  MaxToken = 3
  MaxVersion = 3
INVARIANTS HostingTypeOK InterruptedIsTerminal RunsInOnePlace DoneIsGone
PROPERTIES OneTerminal ImplementsRun
ACTION_CONSTRAINT InOrder
CHECK_DEADLOCK FALSE
