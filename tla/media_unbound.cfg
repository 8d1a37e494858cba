SPECIFICATION ConnectorSpec
CONSTANTS
  Parts = {"media"}
  Tenants = {t1, t2}
  Runtimes = {r1, r2, r3}
  None = None
  MaxEdits = 2
  Tracks = {a1, a2}
  MaxPolls = 1
  MaxQueue = 1
INVARIANT EveryEndedCallIsQuiet
CHECK_DEADLOCK FALSE
