SPECIFICATION Spec
CONSTANTS
  Requests = {r1, r2, r3, r4}
  Names = {n1, n2}
  LocalProviders = {local1}
  Bitmovin = bitmovin
  Calls <- AliasCalls
  Faults = {}
  None = None
  NoId = NoId
  n1 = n1
  n2 = n2
  local1 = local1
  local2 = local2
SYMMETRY Symmetry
CHECK_DEADLOCK FALSE
INVARIANTS
  SummaryIntact
  RemovedOnce
