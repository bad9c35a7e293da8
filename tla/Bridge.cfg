CONSTANTS
  None = None
  MaxIds = 4
  MaxEvents = 1
  MaxErrors = 1
SPECIFICATION FairBridgeSpec
INVARIANTS BridgeTypeOK RoundsAreSerial AnswersAreTrue
PROPERTIES BridgeSettles
CHECK_DEADLOCK FALSE
