SPECIFICATION FairFlowSpec
CONSTANTS
  c1 = c1 h1 = h1 a1 = a1 i1 = i1
  None = None
  Clients = {c1}
  Handlers = {h1}
  Approvers = {a1}
  Invoices = {i1}
  MaxVersions = 2
  MaxVerdicts = 2
  Amount <- Amounts
  Ceiling = 3
  Budget = 2
  FaultKinds = {"call", "reorder", "again"}
  ReviewFaults = {"broker", "lost"}
  SagaFaults = {"call"}
  MaxFaults = 1
INVARIANTS PaidAsShown MoneyIsShown ServicesAgree
PROPERTY EveryStoryEnds
CONSTRAINT Bounded
CHECK_DEADLOCK FALSE
