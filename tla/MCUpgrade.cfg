SPECIFICATION LiveSpec
CONSTANTS
  None = None
  Releases <- TwoReleases
  First <- V1
  Mispackaged <- WrongBinary
  RetryAfter = 1
  CheckTTL = 2
  MaxBuilds = 2
  MaxAttempts = 2
  MaxFaults = 1
INVARIANTS StagedIsVerified ResultIsTrue
PROPERTIES SwapsAreSafe ChecksArePaced RequestsEnd
CHECK_DEADLOCK FALSE
