SPECIFICATION FairSpec
CONSTANTS
  Keys = {k1}
  NoKey = NoKey
  Slots = {s1}
  SlotOf <- MCSlotOf
  Offered = {s1}
  Execs = {e1, e2}
  Workers = {w1, w2}
  MaxAttempts = 2
  MaxCrashes = 1
  Faults <- OrderlyFaults
INVARIANT ExclusiveExecution
INVARIANT ExclusiveClaim
PROPERTY SettledIsFinal
PROPERTY QueuedBookingSettles
PROPERTY LockIsFreed
