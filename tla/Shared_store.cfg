\* The loop and a --once run on one database, under a clock that may be set back.
SPECIFICATION Spec
CONSTANTS
  Process = {loop, once}
  MaxCycles = 4
  MaxTime = 1
INVARIANTS
  SharedTypeOK
  ForksHaveACause
  TimeFollowsTheChain
  NumbersHaveNoGaps
