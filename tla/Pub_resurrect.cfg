SPECIFICATION Spec
CONSTANTS
  None = None
  Attempts = {a1, a2}
  Versions = {v1}
  Kinds = {"upload", "rebuild"}
  Rollbacks = {}
  Deletes = {d1}
  Sweeps = {}
  Torn = {}
  Faults = {}
  MaxFaults = 0
  WorkerCount = 2
  MaxOpen = 1
SYMMETRY Symmetry
INVARIANT ErasedUnreadable
CHECK_DEADLOCK FALSE
