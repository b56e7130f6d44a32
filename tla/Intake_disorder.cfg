SPECIFICATION FairSpec
CONSTANTS
  c1 = c1 h1 = h1 h2 = h2 i1 = i1
  None = None
  Clients = {c1}
  Handlers = {h1, h2}
  Invoices = {i1}
  MaxVersions = 2
  FaultKinds = {"call", "lost", "reorder", "crash", "again"}
  MaxFaults = 1
INVARIANTS StatusIsEarned DashboardIsTrue
PROPERTIES FollowsLifecycle OutcomeIsShown
CHECK_DEADLOCK FALSE
