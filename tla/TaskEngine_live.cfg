SPECIFICATION FairSpec
CONSTANTS
  alice = alice
  bob = bob
  d1 = d1
  cloud = cloud
  p0 = p0
  p1 = p1
  Cloud = cloud
  Nobody = nobody
  NoStep = nostep
  LeaseTicks = 1
  Task = {t1}
  MaxSteps = 2
  Device = {}
  Worker = {w1, w2}
  Actor = {alice, bob}
  Customer = {}
  Policy = {p0}
  IndependentPolicy = {}
  OwnerPolicy = {}
  Plans <- TwoSteps
  MaxPending = 1
  MaxChanges = 0
  ApprovalTicks = 1
PROPERTIES
  ClaimsEnd
  WaitsEnd
