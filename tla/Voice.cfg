SPECIFICATION VoicePartsSpec
CONSTANTS
  MaxStreams = 3
  MaxTurns = 2
  MaxChunks = 1
  QueueSize = 1
  MaxRequests = 3
  MaxWorkers = 2
  MaxAudio = 1
  QueueItems = 1
  PipeItems = 1
  MaxUtterances = 2
  MaxLines = 2
  MaxStarts = 2
  Tasks = {t1, t2}
  MaxQuestions = 2
  None = None
INVARIANT SilentAfterTurn
INVARIANT ChannelIsClean
INVARIANT VerdictIsOfTheUtterance
INVARIANT OnlyTheSaidIsRecorded
PROPERTY TurnsGiveBackTheMicrophone
CHECK_DEADLOCK FALSE
