SPECIFICATION Spec
CONSTANTS
  Connectors = {n1, n2}
  NoConnector = NoConnector
  Calls = {p1}
  MaxCrashes = 1
  Faults <- CallFaultKinds
SYMMETRY CallSymmetry
INVARIANT CallTypeOK
INVARIANT OneDispatch
PROPERTY ClaimIsForLife
CHECK_DEADLOCK FALSE
