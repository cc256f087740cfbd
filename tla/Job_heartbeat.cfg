SPECIFICATION Spec
CONSTANTS
  w1 = w1
  w2 = w2
  NoOne = NoOne
  Workers = {w1, w2}
  Crashable = {}
  CancelRequests = {}
  RetryRequests = {}
  Kinds = {"upload"}
  MaxAttempts = 2
  Expiry = {"blocked"}
  MaxFaults = 1
INVARIANT HeartbeatKeepsLease
