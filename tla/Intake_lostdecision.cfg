SPECIFICATION FairSpec
CONSTANTS
  c1 = c1 h1 = h1 h2 = h2 i1 = i1
  None = None
  Clients = {c1}
  Handlers = {h1}
  Invoices = {i1}
  MaxVersions = 1
  FaultKinds = {"reorder"}
  MaxFaults = 1
PROPERTY AcceptedIsDecided
CHECK_DEADLOCK FALSE
