SPECIFICATION Spec
CONSTANTS
  small = small
  large = large
  Configs = {small, large}
  QuotaOf <- MCQuotaOf
  SlotsOf <- MCSlotsOf
  RateOf <- MCRateOf
  FirstConfig = small
  MaxVersions = 2
  Writers = {w1, w2}
  Reservers = {x1, x2}
  Audits = {a1}
  Clients = {c1, c2}
  Stores = {"memory", "redis"}
  MaxFaults = 1
SYMMETRY Symmetry
INVARIANTS TypeOK AuthorSawCurrent QuotaHeld SlotsAccounted SlotsHeld
CHECK_DEADLOCK FALSE
