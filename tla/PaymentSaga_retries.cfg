SPECIFICATION FairSpec
CONSTANTS
  h1 = h1 h2 = h2
  e1 = e1 e2 = e2 e3 = e3 e4 = e4
  i1 = i1 i2 = i2 i3 = i3
  marketing = marketing unknown = unknown
  NoBudget = NoBudget NoCeiling = NoCeiling NoSaga = NoSaga NoPayment = NoPayment NoCall = NoCall
  Handlers = {h1, h2}
  Events = {e1, e2, e3, e4}
  Invoices = {i1, i2, i3}
  Depts = {marketing, unknown}
  Payload <- RetriedPayload
  InitialBudget <- Budgets
  Declining = {e3}
  FaultKinds = {"call", "mark", "forget", "crash", "twice", "switch"}
  MaxFaults = 2
INVARIANTS PaymentIsReserved PaymentIsAuthorised ReportsAreTrue FailsSafe BooksBalance
PROPERTIES TerminalIsFinal EventuallyTerminal
CHECK_DEADLOCK FALSE
