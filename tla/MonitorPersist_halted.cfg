CONSTANTS
  Key = {k1}
  MaxSnap = 1
  MaxConflictRetries = 5
  MaxFaults = 6
  Faults = {"lost", "fetch"}
  Archivable = {}
SPECIFICATION FairSpec
PROPERTIES NoChannelHaltsForever
CHECK_DEADLOCK FALSE
