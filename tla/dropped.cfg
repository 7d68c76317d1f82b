SPECIFICATION SweepSpec
CONSTANTS
  Outputs = {o1, o2}
  SweepKeys = {1, 2}
  SweepFaults = 1
PROPERTY PlainSweepSafe
CHECK_DEADLOCK FALSE
