SPECIFICATION Spec
CONSTANTS
  r1 = r1
  r2 = r2
  a1 = a1
  a2 = a2
  b1 = b1
  c1 = c1
  m1 = m1
  m2 = m2
  m3 = m3
  near = near
  mid = mid
  far = far
  None = None
  Container <- TwoMachines
  Capacity <- OneEach
  Scope <- OneScope
  Recovery <- NoKits
  Runs = {r1}
  Hosts = {a1, a2, b1}
  Pools = {near}
  Epoch <- SameEpoch
  Declares <- AllOnePool
  WriterEpochs = {1}
  Workloads = {"agent"}
  Threshold = 1
  LeaseTicks = 1
  MaxToken = 1
PROPERTIES MachineNeverShrinks
CONSTRAINT Calm
ACTION_CONSTRAINT Still
