SPECIFICATION Spec
CONSTANTS
  Tasks = {t1}
  MaxQuestions = 1
  None = None
INVARIANT SuccessIsHeardToTheEnd
CHECK_DEADLOCK FALSE
