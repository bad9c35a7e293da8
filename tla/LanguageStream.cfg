CONSTANTS
  t1 = t1
  t2 = t2
  s1 = s1
  s2 = s2
  None = None
  Threads = {t1, t2}
  Streams = {s1, s2}
  MaxCalls = 2
  Options <- StreamOptions
SPECIFICATION FairStreamSpec
CHECK_DEADLOCK FALSE
CONSTRAINT OneWithTools
INVARIANTS StreamTypeOK NativeIsExclusive ToolsAreAccounted
PROPERTY CallsReturn
