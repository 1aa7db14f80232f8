SPECIFICATION FairSpec
CONSTANTS
  alice = alice
  bob = bob
  d1 = d1
  cloud = cloud
  p0 = p0
  p1 = p1
  Cloud = cloud
  Nobody = nobody
  NoStep = nostep
  LeaseTicks = 1
  Task = {t1, t2}
  MaxSteps = 1
  Device = {}
  Worker = {w1}
  Actor = {alice}
  Customer = {}
  Policy = {p0}
  IndependentPolicy = {}
  OwnerPolicy = {}
  Plans <- OneWrite
  MaxPending = 2
  MaxChanges = 0
  ApprovalTicks = 1
PROPERTIES
  TurnComes
