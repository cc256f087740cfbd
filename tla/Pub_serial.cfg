SPECIFICATION Spec
CONSTANTS
  None = None
  Attempts = {a1, a2, a3, a4}
  Versions = {v1, v2, v3}
  Kinds = {"upload", "rebuild"}
  Rollbacks = {q1}
  Deletes = {}
  Sweeps = {s1}
  Torn = {a1, a2, a3, a4, q1}
  Faults = {"refuse", "undo"}
  MaxFaults = 2
  WorkerCount = 2
  MaxOpen = 1
SYMMETRY Symmetry
INVARIANT IndexesServeActive
CHECK_DEADLOCK FALSE
