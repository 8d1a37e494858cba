SPECIFICATION RuntimeSpec
CONSTANTS
  Calls = {p1, p2}
  Ids = {i1, i2}
  None = None
  MaxDrops = 2
SYMMETRY RuntimeSymmetry
INVARIANT RuntimeTypeOK
INVARIANT IntakeIsTrue
INVARIANT ServedIsTracked
INVARIANT LeaseCoversCalls
CHECK_DEADLOCK FALSE
