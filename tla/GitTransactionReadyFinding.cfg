SPECIFICATION GTSpec
CONSTANTS
  Contents = {start, work}
  Start = start
  MaxWrites = 0
  MaxTimeouts = 0
INVARIANT ReadyIsTheReviewedWork
CHECK_DEADLOCK FALSE
