SPECIFICATION FairSpec
CONSTANTS
  Event = {e1, e2}
  Planner = {m1, m2}
  Plan = {a, b}
  Reply = reply
  Turn = turn
  NoPlan = noplan
  NoEvent = noevent
  MaxPending = 2
  DailyQuota = 1
  LeaseTicks = 1
  MaxUpsets = 2
  PlannerInTime = TRUE
INVARIANTS
  OneOutcome
  FailedIsUnanswered
PROPERTIES
  EventsSettle
