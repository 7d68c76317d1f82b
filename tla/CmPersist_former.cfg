CONSTANTS
  MaxTabs = 2
  MaxChanges = 1
  MaxFaults = 0
  Faults = {}
SPECIFICATION Spec
PROPERTIES WinnerNotClobbered
CHECK_DEADLOCK FALSE
