CONSTANTS
  Channel = {c1, c2}
  MaxSnap = 2
  MaxFaults = 2
  Faults = {"fetch", "idb", "manifest", "crash", "wipe"}
  MaxRestores = 1
SPECIFICATION Spec
INVARIANTS TypeOK ComesBack OpensAgain
PROPERTIES BackupKept
CHECK_DEADLOCK FALSE
