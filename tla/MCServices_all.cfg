SPECIFICATION ServicesSpec
VIEW ServicesView
CONSTRAINT ServicesBound
CHECK_DEADLOCK FALSE
INVARIANTS
  LedgerHonest TurnsInOrder NobodyForgotten ToldOnceUnlessInterrupted AckedIsKept TextOnlyInsideWindow
  PostedOnce ActiveTokenIsSound DuplicatesAreHeld ListedIsWhole WrittenAsApproved ApprovedIsOrdered CopyIsCurrent
  AccessIsCurrent
PROPERTIES
  SlotRefusalsExplained ClosedLeadsStayClosed PeriodsAreKept NothingOverwritten
CONSTANTS
  Call = {c1, c2} Process = {g1, g2} PerTenant = 2 MaxAttempts = 2 Estimate = 2 Receipts = {3} Limits = {4, 5} Parallel = {1, 2}
  Chat = {a} Desk = {de1} OperatorTask = {o1} MaxTurns = 3 MaxQueued = 2 MaxOpenTurns = 1
  Lead = {l1} Caller = {w1, w2} AttemptCaps = {2}
  Item = {i1} Ticker = {t1, t2} MaxDay = 2 MaxPerCycle = 2 MaxDeliveries = 2 MaxClaims = 2
  Schedule = {s1} Runner = {ru1, ru2} Put = {pu1, pu2} MaxPeriod = 2 MaxTroubles = 6 MaxRunnerDeaths = 1
  ShopA = {a1} ShopB = {b1} Hook = {h1}
  Phone = {n1, n2} RegisteredPhone = {n1} WindowTicks = 2 MaxScanned = 1 MaxNow = 3 MaxRows = 2 MaxWritten = 1
  Poster = {p1, p2} Searchable = TRUE MaxPostings = 2
  OAuthCall = {k1, k2} MaxConnGeneration = 3 MaxTokens = 2
  Invoice <- Invoices Paper <- Papers NoPaper = none DocClerk = {dc1, dc2} Tolerance = 0 Tolerances = {}
  OutlierRatio = 3 HistoryLimit = 2 MaxPlans = 1
  GraphSource = {"s1", "s2"} GraphEntry <- Entity Product = {1, 2} Cells <- CellPairs SourceLimit <- SourceLimits
  ItemLimit = 2 MaxFeed = 2 MaxScan = 5 MaxMatches = 2
  CrmHost = {"h1", "h2"} NoHost = "no" CrmDriver = {"r1", "r2"} CrmRequest <- CrmRequests CrmStep = {st1, st2} MaxMoves = 1
  DbTenant = {"a", "b"} DbKey = {"k"} DbStep = {"d1", "d2"} RequestOf <- DbRequests
  DbDriver = {"postgres_managed", "elasticsearch_managed"} DbTable <- Orders MaxEdits = 2 MaxDbGeneration = 2 MaxDbDeaths = 1
  Buy = {m1, m2} DailyLimit = 1 MinTasks = 2 MaxErr = 5 DemoteErr = 20 NoBuy = nobuy MaxRestarts = 2
  LastObject = 2 Content = {1} Syncer = {y1, y2} NoSyncer = nosyncer SyncPage = 1 MaxChanges = 2 MaxAccounts = 2 MaxRevision = 5
  Person = {f1, u1} Founder = f1 WebRequest = {q1} MaxInvitations = 2 MaxSessions = 3
