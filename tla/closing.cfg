SPECIFICATION ClosingSpec
CONSTANTS
  MaxBlocks = 3
  TipHashes = {h1, h2, h3, h4}
  SyncFaults = 1
  Reasons = {"localCoop", "localForce", "peerForce"}
  FinalityConfs = 2
  Timelock = 1
  MaxTimelock = 1
  MaxHeight = 5
  StoreFaults = 2
  StuckChannels = {c1, c2}
  MaxSweeps = 1
  RecoveryFaults = 1
  Outputs = {o1, o2}
  SweepKeys = {1, 2}
  SweepFaults = 1
INVARIANTS
  IdleMeansBestChain  CloseNotForgotten 
PROPERTIES
  SpendReported RecordEnds StuckGetsAsked AskGoesAway SweptInTheEnd
CHECK_DEADLOCK FALSE
