SPECIFICATION Spec
CONSTANTS
  None = None
  Attempts = {a1, a2}
  Versions = {v1, v2}
  Kinds = {"upload"}
  Rollbacks = {}
  Deletes = {}
  Sweeps = {}
  Torn = {}
  Faults = {"abort"}
  MaxFaults = 1
  WorkerCount = 2
  MaxOpen = 1
SYMMETRY Symmetry
INVARIANT IndexesServeActive
CHECK_DEADLOCK FALSE
