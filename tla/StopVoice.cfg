SPECIFICATION VoiceFair
CONSTANTS
  Speeches = {}
  Loop = loop
  NoTurn = noTurn
  Slots = 1
  AudioEnds = FALSE
PROPERTY StopEndsLoop
CHECK_DEADLOCK FALSE
