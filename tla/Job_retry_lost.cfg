SPECIFICATION FairSpec
CONSTANTS
  w1 = w1
  w2 = w2
  NoOne = NoOne
  Workers = {w1, w2}
  Crashable = {}
  CancelRequests = {}
  RetryRequests = {q1}
  Kinds = {"upload"}
  MaxAttempts = 2
  Expiry = {}
  MaxFaults = 0
PROPERTY JobSettles
