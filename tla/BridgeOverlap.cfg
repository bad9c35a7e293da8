CONSTANTS
  None = None
  MaxIds = 4
  MaxEvents = 1
  MaxErrors = 1
SPECIFICATION BridgeSpec
INVARIANTS TeardownBeforeNextRound
CHECK_DEADLOCK FALSE
