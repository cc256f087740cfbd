SPECIFICATION Spec
CONSTANTS
  w1 = w1
  w2 = w2
  NoOne = NoOne
  Workers = {w1, w2}
  Crashable = {w1}
  CancelRequests = {c1}
  RetryRequests = {q1}
  Kinds = {"upload", "unchanged"}
  MaxAttempts = 2
  Expiry = {"stalled"}
  MaxFaults = 1
INVARIANT OneEffectPerRequest
