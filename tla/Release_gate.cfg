SPECIFICATION Spec
CONSTANTS
  p1 = p1
  p2 = p2
  d1 = d1
  d2 = d2
  s1 = s1
  NoOne = NoOne
  Sessions = {p1, p2}
  Spaces = {s1}
  Documents = {d1, d2}
  ItemCount = 2
  ExpectedSources <- MCExpectedSources
  Answerable = {1}
  PolicyMenu <- MCPolicyMenu
  DraftMenu <- MCDraftMenu
  DatasetMenu <- MCDatasetMenu
  ObservationMenu <- MCObservationMenu
  GateMenu <- MCGateMenu
  Scale = 2
  Production = FALSE
  MaxVersions = 2
  MaxPolicies = 2
  MaxActivations = 2
  MaxDatasets = 1
  MaxRuns = 1
  MaxChanges = 1
SYMMETRY Symmetry
PROPERTY PromotedPassesGates
CHECK_DEADLOCK FALSE
