SPECIFICATION Spec
CONSTANTS
  None = None
  Attempts = {a1, a2, a3}
  Versions = {v1, v2, v3}
  Kinds = {"upload"}
  Rollbacks = {}
  Deletes = {d1}
  Sweeps = {}
  Torn = {a1, a2, a3}
  Faults = {"refuse", "undo", "abort"}
  MaxFaults = 2
  WorkerCount = 1
  MaxOpen = 3
SYMMETRY Symmetry
INVARIANT ErasedUnreadable
CHECK_DEADLOCK FALSE
