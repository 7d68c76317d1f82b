SPECIFICATION PagesSpec
CONSTANTS
  Caller = {c1, c2}
  MaxChanges = 3
  MaxFailures = 2
  MaxCoins = 4
  MaxDeltas = 2
  WalletEvents = 4
  Commitments = {t1}
  Rebroadcasts = 2
  SendFaults = 2
  MaxAmount = 2
  StaticFloor = 1
  MaxLookups = 2
  MaxPayments = 2
  PageFaults = 1
INVARIANTS
  CleanMeansSaved  SentAsReviewed SendableUntilSent ReviewedAsAsked
  
PROPERTIES
  ChangesGetSaved DeltaKept BalanceShown BuyEnds HistorySettles
CHECK_DEADLOCK FALSE
