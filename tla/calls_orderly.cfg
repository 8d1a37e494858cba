SPECIFICATION Spec
CONSTANTS
  Connectors = {n1}
  NoConnector = NoConnector
  Calls = {p1}
  MaxCrashes = 1
  Faults <- AnswerFaults
SYMMETRY CallSymmetry
INVARIANT ClosedIsClean
INVARIANT ResourcesAreHeld
CHECK_DEADLOCK FALSE
