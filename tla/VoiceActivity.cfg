CONSTANTS
  FrameSize = 2
  FileLengths = {9}
  Chunks = {1, 2}
  MaxAudio = 3
  MaxOps = 2
  MinSpeech = 3
  MinSilence = 2
  Padding = 1
SPECIFICATION FairListeningSpec
INVARIANTS ListeningTypeOK ScorerIsReset RangesAreTrue MicrophoneIsShared
PROPERTY ListeningEnds
CHECK_DEADLOCK FALSE
