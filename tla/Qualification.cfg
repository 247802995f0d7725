SPECIFICATION QualificationSpec
CONSTANTS
  Physical = physical
  NoSpeech = nospeech
  LastGate = 2
  MaxUnits = 1
  Turns = {1, 2}
  MaxNoise = 1
INVARIANT StopWasHeededFirst
PROPERTY HandoffIsAnswered
CHECK_DEADLOCK FALSE
