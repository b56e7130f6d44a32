SPECIFICATION Spec
CONSTANTS
  h1 = h1 h2 = h2 a1 = a1
  d1 = d1 d2 = d2 d3 = d3 r1 = r1 i1 = i1 i2 = i2
  None = None
  Handlers = {h1, h2}
  Auditors = {a1}
  Events = {d1, d2, d3, r1}
  Invoices = {i1, i2}
  AuditStory <- Approvals
  NotificationStory <- Rejections
  MaxReports = 1
  MaxFaults = 2
  SegmentChars = 5
  LongestWord = 6
  MaxWords = 4
SYMMETRY Symmetry
INVARIANTS RecordedOnce NothingIsMissing ProofIsSound ToldOnce EndIsTold MessagesAreCut
CHECK_DEADLOCK FALSE
