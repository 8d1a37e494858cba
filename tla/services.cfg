SPECIFICATION ServicesSpec
CONSTANTS
  Parts = {"reads", "agent", "sandbox", "hook", "notices", "card"}
  Keys = {k1}
  Writers = {w1, w2}
  Nobody = Nobody
  MaxWrites = 2
  MaxFaults = 1
  MaxEvents = 2
  Pages = {b1, b2}
  NoPage = NoPage
  MaxSessions = 2
  Reads = {q1, q2}
  MaxRequests = 2
  MaxChanges = 2
INVARIANT ServicesTypeOK
INVARIANT WritesAreSeen
INVARIANT EndedAgentIsQuiet
INVARIANT OneLiveVoice
INVARIANT SandboxHoldsWhatItShows
INVARIANT ScreensAreTrue
PROPERTY SilenceIsNotKept
PROPERTY NewsArrive
CHECK_DEADLOCK FALSE
