SPECIFICATION FairSpec
CONSTANTS
  h1 = h1 h2 = h2 s1 = s1 s2 = s2 t1 = t1 i1 = i1 i2 = i2
  None = None
  Malformed = Malformed
  Rate <- Rates
  Handlers = {h1, h2}
  Events = {s1, s2, t1}
  Payload <- Submissions
  Invoices = {i1, i2}
  Vendors = {"Acme", "acme"}
  Lower <- LowerCase
  Recommendations <- Answers
  Tuned = {35000}
  MaxTunings = 1
  FaultKinds = {"call", "lost", "miss", "twice", "again", "mark", "forget", "crash"}
  MaxFaults = 1
INVARIANTS TypeOK OneOwner DuplicateOfAnother TrustIsEarned OneRoute
PROPERTY EventuallyDecided
CHECK_DEADLOCK FALSE
