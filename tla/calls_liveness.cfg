SPECIFICATION FairSpec
CONSTANTS
  Connectors = {n1}
  NoConnector = NoConnector
  Calls = {p1}
  MaxCrashes = 0
  Faults <- CallerFaults
INVARIANT DrainedIsIdle
PROPERTY EndedCallIsClosed
PROPERTY ShutdownAnswers
CHECK_DEADLOCK FALSE
