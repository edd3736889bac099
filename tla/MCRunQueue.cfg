SPECIFICATION Spec
CONSTANTS
  r1 = r1
  r2 = r2
  a1 = a1
  a2 = a2
  b1 = b1
  c1 = c1
  m1 = m1
  m2 = m2
  m3 = m3
  near = near
  mid = mid
  far = far
  None = None
  Container <- TwoMachines
  Capacity <- Asked
  Scope <- OneScope
  Recovery <- NoKits
  Runs = {r1, r2}
  Hosts = {a1, a2, b1}
  Pools = {near}
  Epoch <- SameEpoch
  Declares <- AllOnePool
  WriterEpochs = {1}
  Workloads = {"agent"}
  Threshold = 1
  LeaseTicks = 2
  MaxToken = 2
INVARIANTS TypeOK ChargeConservation WithinCapacity OneClaimantPerMachine
PROPERTIES MachineNeverGrows HandoverBumpsToken FencedNeverRuns ReconcilerReplacedOnceLeft
SYMMETRY Symmetric
CONSTRAINT Calm
ACTION_CONSTRAINT Still
