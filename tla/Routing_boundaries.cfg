SPECIFICATION Spec
CONSTANTS
  None = None
  Malformed = Malformed
  Rate <- Rates
  Submissions <- Samples
  Settings <- Tunings
  Recommendations <- Advice
  Flaky <- Unlucky
  MaxAttempts = 3
INVARIANTS AutonomyIsBounded ApprovingIsWorst TrustOnlyHelps OneBudget TextNeverApproves
CHECK_DEADLOCK FALSE
