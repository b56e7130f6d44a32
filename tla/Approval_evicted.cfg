SPECIFICATION Spec
CONSTANTS
  h1 = h1 h2 = h2 a1 = a1 a2 = a2 v1 = v1
  e1 = e1 e2 = e2 e3 = e3 i1 = i1 i2 = i2
  None = None
  Events = {e1, e2}
  Payload <- TwoPayload
  Invoices = {i1, i2}
  Handlers = {h1, h2}
  Approvers = {a1, a2}
  Viewers = {v1}
  Verdicts = {"approved", "rejected"}
  MaxVerdicts = 2
  MaxViews = 1
  FaultKinds = {"broker"}
  MaxFaults = 1
SYMMETRY Symmetry
INVARIANT NeverInvisible
CHECK_DEADLOCK FALSE
