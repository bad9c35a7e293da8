CONSTANTS
  None = None
  ChunkLength = 2
  Ahead = 2
  MaxJobs = 3
  MaxSpeeches = 2
  UnitCounts = {1, 2}
  StartBuffers = {2}
  Options <- SpeechOptions
CONSTRAINT WideAlone
SPECIFICATION OneSpeechSpec
INVARIANTS SpeechTypeOK OneVoice WorkIsOrdered
PROPERTIES PositionHonest SpeechesSettle
CHECK_DEADLOCK FALSE
