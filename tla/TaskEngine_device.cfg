SPECIFICATION Spec
CONSTANTS
  alice = alice
  bob = bob
  d1 = d1
  cloud = cloud
  p0 = p0
  p1 = p1
  Cloud = cloud
  Nobody = nobody
  NoStep = nostep
  LeaseTicks = 1
  Task = {t1}
  MaxSteps = 1
  Device = {d1}
  Worker = {w1}
  Actor = {alice, bob}
  Customer = {}
  Policy = {p0, p1}
  IndependentPolicy = {p0}
  OwnerPolicy = {}
  Plans <- OnDevice
  MaxPending = 1
  MaxChanges = 1
  ApprovalTicks = 2
INVARIANTS
  StoppedMeansStopped
  DecisionReachable
  IndependentApproval
  ApprovedBeforeEffect
