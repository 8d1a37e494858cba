SPECIFICATION Spec
CONSTANTS
  Connectors = {n1}
  NoConnector = NoConnector
  Calls = {p1}
  MaxCrashes = 0
  Faults = {"pbx"}
INVARIANT NobodyLeftInSilence
CHECK_DEADLOCK FALSE
