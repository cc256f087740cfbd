SPECIFICATION FairSpec
CONSTANTS
  q1 = q1
  q2 = q2
  c1 = c1
  c2 = c2
  Runs = {q1, q2}
  Chunks = {k1, k2}
  Unsafe = {k2}
  Retirable = {k1}
  ModeOf <- MCModeOf
  Cancels = {c1}
  TargetOf <- MCTargetOf
  Remote = {}
  Retries = 1
  FailureThreshold = 2
  RatePerMinute = 1
  ConcurrencyLimit = 1
  MaxFaults = 1
INVARIANTS TypeOK StoppedUnanswered EvidenceHeld OneAttemptPerAnswer
PROPERTIES RunEnds ImplementsLedger
CHECK_DEADLOCK FALSE
