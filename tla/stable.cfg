SPECIFICATION System
CONSTANTS
  Scopes <- StableScopes
  StartSats = 2
INVARIANTS AppliedOnce InFlightRemembered SignedIsSaved 
 
CHECK_DEADLOCK FALSE
