SPECIFICATION Spec
CONSTANTS
  c1 = c1 c2 = c2 c3 = c3 c4 = c4 c5 = c5
  Clients = {c1, c2, c3, c4, c5}
  Absent = Absent
  Refused = Refused
  Op <- Ops
  InitialValues <- Values
  MaxRetries = 2
  MayRaise = TRUE
INVARIANTS NeverNegative ConflictMeansContention
PROPERTY IsAtomic
CHECK_DEADLOCK FALSE
