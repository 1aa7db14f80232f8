SPECIFICATION LoopsSpec
CHECK_DEADLOCK FALSE
CONSTANTS
  Run = {r1}
  Worker = {w1, w2}
  Slot = {s1, s2}
  NoRun = norun
  MaxSteps = 2
  MaxActive = 1
  RunTicks = 3
  LeaseTicks = 1
  Digest = {d1, d2}
  Clerk = {c1}
  Endings = {"succeeded", "failed"}
  MaxDeaths = 1
  Schedule = {sc1, sc2}
  Runner = {n1}
  Put = {p1, p2}
  MaxPeriod = 2
  MaxTroubles = 1
  MaxRunnerDeaths = 1
INVARIANTS
  WithinBudget
  OnePlanner
  NothingLeftBehind
  DoubtIsTold
PROPERTIES
  RunsEnd
  DueDigestComes
  DueScheduleRuns
