CONSTANTS
  Key = {k1}
  MaxSnap = 3
  MaxConflictRetries = 4
  MaxFaults = 4
  Faults = {"put", "lost", "late", "fetch", "idb", "manifest", "seed", "crash"}
  Archivable = {}
SPECIFICATION FairSpec
INVARIANTS TypeOK AckedIsDurable BackupNotBehind
PROPERTIES NeverOlder ImplementsMonitorStore NoChannelHaltsForever
CHECK_DEADLOCK FALSE
