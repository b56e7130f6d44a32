SPECIFICATION FairSpec
CONSTANTS
  h1 = h1 h2 = h2 a1 = a1 a2 = a2 v1 = v1
  e1 = e1 e2 = e2 e3 = e3 i1 = i1 i2 = i2
  None = None
  Events = {e1, e2}
  Payload <- SentBackPayload
  Invoices = {i1}
  Handlers = {h1, h2}
  Approvers = {a1, a2}
  Viewers = {v1}
  Verdicts = {"approved", "rejected", "needs_info"}
  MaxVerdicts = 2
  MaxViews = 0
  FaultKinds = {"call", "broker", "lost", "miss", "twice", "rollback", "mark", "forget", "crash"}
  MaxFaults = 2
INVARIANT OneVerdictPerReview
PROPERTIES OnlyOwnRollback EventuallyReopened
CHECK_DEADLOCK FALSE
