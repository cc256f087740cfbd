SPECIFICATION FairSpec
CONSTANTS
  r1 = r1
  r2 = r2
  t1 = t1
  NoOne = NoOne
  Records = {r1, r2}
  Dispatchers = {d1, d2}
  Tenants = {t1}
  WorkerTenants = {t1}
  TenantOf <- MCTenantOf
  PriorityOf <- MCPriorityOf
  BatchLimit = 2
  MaxAttempts = 2
  MaxOverruns = 2
  MaxCrashes = 2
INVARIANTS TypeOK AttemptAccounting
PROPERTIES ImplementsDelivery EveryEventSettles
CHECK_DEADLOCK FALSE
