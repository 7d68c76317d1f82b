CONSTANTS
  MaxTabs = 2
  MaxChanges = 2
  MaxFaults = 1
  Faults = {"put", "lost", "late", "get", "idb", "seed"}
SPECIFICATION FairSpec
INVARIANTS SavedIsDurable CleanMeansStored
PROPERTIES ChangesGetSaved
CHECK_DEADLOCK FALSE
