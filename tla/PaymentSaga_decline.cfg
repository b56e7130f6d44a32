SPECIFICATION Spec
CONSTANTS
  h1 = h1 h2 = h2
  e1 = e1 e2 = e2 e3 = e3 e4 = e4
  i1 = i1 i2 = i2 i3 = i3
  marketing = marketing unknown = unknown
  NoBudget = NoBudget NoCeiling = NoCeiling NoSaga = NoSaga NoPayment = NoPayment NoCall = NoCall
  Handlers = {h1, h2}
  Events = {e1, e2, e3}
  Invoices = {i1, i2, i3}
  Depts = {marketing, unknown}
  Payload <- DeclinedPayload
  InitialBudget <- TightBudgets
  Declining = {e1}
  FaultKinds = {"call"}
  MaxFaults = 1
SYMMETRY Symmetry
INVARIANT NeverOverspend
CHECK_DEADLOCK FALSE
