SPECIFICATION Spec
CONSTANTS
  None = None
  Attempts = {a1, a2}
  Versions = {v1, v2}
  Kinds = {"upload"}
  Rollbacks = {q1}
  Deletes = {}
  Sweeps = {s1}
  Torn = {}
  Faults = {}
  MaxFaults = 0
  WorkerCount = 2
  MaxOpen = 2
SYMMETRY Symmetry
INVARIANT ActiveKept
CHECK_DEADLOCK FALSE
