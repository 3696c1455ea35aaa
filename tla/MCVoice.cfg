CONSTANTS
  MaxFrames <- MCFrames
  MaxSwitches = 2
  CaptureBacklog = 1
  PrerollFrames = 2
  HoldFrames = 2
  VoiceBacklog = 1
  Cushion = 2
  QueueMax = 2
SPECIFICATION VoiceSpec
CHECK_DEADLOCK FALSE
INVARIANTS UtterancesAreWhole MixIsTheLatest
PROPERTIES TheMixIsPlayedOut
