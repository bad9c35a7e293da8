CONSTANTS
  g1 = g1
  g2 = g2
  Gens = {g1, g2}
  None = None
  MaxCalls = 3
  Options <- SafetyOptions
CONSTRAINT Instance
SPECIFICATION NarrowSpec
INVARIANTS LanguageTypeOK ReportsAreTrue ToolsAreScheduled EndingsAreTrue
PROPERTIES BackendIsSerial GenerationsEnd
CHECK_DEADLOCK FALSE
