SPECIFICATION Spec
CONSTANTS
  Keys = {k1}
  NoKey = NoKey
  Slots = {s1}
  SlotOf <- MCSlotOf
  Offered = {s1}
  Execs = {e1}
  Workers = {w1, w2}
  MaxAttempts = 2
  MaxCrashes = 0
  Faults <- StaleFaults
SYMMETRY Symmetry
INVARIANT TypeOK
INVARIANT TruthfulConfirmation
INVARIANT PromiseIsQueued
PROPERTY ImplementsPromise
