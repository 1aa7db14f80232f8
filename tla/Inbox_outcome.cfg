SPECIFICATION Spec
CONSTANTS
  Event = {e1}
  Planner = {m1, m2}
  Plan = {a, b}
  Reply = reply
  Turn = turn
  NoPlan = noplan
  NoEvent = noevent
  MaxPending = 1
  DailyQuota = 1
  LeaseTicks = 1
  MaxUpsets = 2
  PlannerInTime = FALSE
INVARIANTS
  OneOutcome
