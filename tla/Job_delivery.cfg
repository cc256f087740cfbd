SPECIFICATION FairSpec
CONSTANTS
  w1 = w1
  w2 = w2
  NoOne = NoOne
  Workers = {w1, w2}
  Crashable = {w1}
  CancelRequests = {c1}
  RetryRequests = {}
  Kinds = {"upload", "rebuild"}
  MaxAttempts = 2
  Expiry = {"blocked", "stalled"}
  MaxFaults = 2
INVARIANTS TypeOK OnlyClaimantWorks QueuedHasWakeup
PROPERTIES CancelSticks JobSettles
