SPECIFICATION Spec
CONSTANTS
  None = None
  Attempts = {a1, a2, a3}
  Versions = {v1, v2}
  Kinds = {"upload", "rebuild"}
  Rollbacks = {q1}
  Deletes = {d1}
  Sweeps = {s1}
  Torn = {a1, a2, a3}
  Faults = {"refuse", "undo", "abort"}
  MaxFaults = 1
  WorkerCount = 2
  MaxOpen = 2
SYMMETRY Symmetry
INVARIANTS TypeOK OneReadable ActiveNotSwept
CHECK_DEADLOCK FALSE
