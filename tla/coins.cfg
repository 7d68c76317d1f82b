SPECIFICATION System
CONSTANTS
  Scopes <- CoinScope
  StartSats = 2
INVARIANT OneSpender
CHECK_DEADLOCK FALSE
