SPECIFICATION Spec
CONSTANTS
  g1 = g1
  g2 = g2
  v1 = v1
  v2 = v2
  None = None
  Generations = {g1, g2}
  Versions = {v1, v2}
  VersionOf <- TwoVersions
  Pieces = {p1, p2}
  Callers = {w1, w2}
  MaxEvents = 3
  MaxFaults = 1
  MaxEpoch = 2
SYMMETRY Symmetry
INVARIANTS TypeOK OneVersionShown PurgeFinal ReportSound
PROPERTIES PublishedExactly
CHECK_DEADLOCK FALSE
