SPECIFICATION ReconcilersSpec
CONSTANTS
  alice = alice
  bob = bob
  cloud = cloud
  p0 = p0
  Cloud = cloud
  Nobody = nobody
  NoStep = nostep
  LeaseTicks = 1
  Task = {t1}
  CrmTask = {t1}
  MaxSteps = 2
  Device = {}
  Worker = {w1}
  Actor = {alice, bob}
  Customer = {}
  Policy = {p0}
  IndependentPolicy = {}
  OwnerPolicy = {}
  Plans <- TwoWrites
  MaxPending = 1
  MaxChanges = 1
  ApprovalTicks = 1
INVARIANTS
  EvidenceIsOfThisStep
