SPECIFICATION ReconcilersSpec
CONSTANTS
  alice = alice
  bob = bob
  cloud = cloud
  p0 = p0
  Cloud = cloud
  Nobody = nobody
  NoStep = nostep
  LeaseTicks = 1
  Task = {t1, t2}
  CrmTask = {t2}
  MaxSteps = 1
  Device = {}
  Worker = {w1}
  Actor = {alice}
  Customer = {}
  Policy = {p0}
  IndependentPolicy = {}
  OwnerPolicy = {}
  Plans <- OneAuto
  MaxPending = 2
  MaxChanges = 0
  ApprovalTicks = 1
INVARIANTS
  JournalAgrees
  TaskFollowsGoogle
PROPERTIES
  SettledStaysSettled
