CONSTANTS
  Step = 2
  Window = 3
  Overlap = 1
  MinWindow = 2
  Cadence = 1
  Quiet = 2
  MaxBuffered = 3
  FileLengths = {4}
  Chunks = {1, 2}
  MaxAudio = 4
  MaxOps = 2
SPECIFICATION FairRecognitionSpec
INVARIANTS RecognitionTypeOK RecognizerIsObeyed
PROPERTIES SessionsAreTrue WorkEnds
CHECK_DEADLOCK FALSE
