CONSTANTS
  Channel = {c1}
  MaxSnap = 2
  MaxFaults = 0
  Faults = {}
  MaxRestores = 1
SPECIFICATION Spec
INVARIANTS NeverOldState
CHECK_DEADLOCK FALSE
