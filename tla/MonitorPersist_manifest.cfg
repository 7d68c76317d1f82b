CONSTANTS
  Key = {k1, k2}
  MaxSnap = 1
  MaxConflictRetries = 1
  MaxFaults = 2
  Faults = {"manifestLost", "late", "fetch", "put", "delete", "seed", "crash"}
  Archivable = {k1}
SPECIFICATION Spec
INVARIANTS QuietManifest
PROPERTIES ImplementsMonitorStore
CHECK_DEADLOCK FALSE
