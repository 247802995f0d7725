SPECIFICATION DRSpec
CONSTANTS
 MaxRaw = 2
 MaxRequired = 2
 PlanLimit = 3
 MaxRows = 6
 DirectSteps = {"navigate", "form", "native_plan", "text_file"}
INVARIANT SuccessIsEarned
PROPERTY NothingStartsAfterDoubtOrStop
CHECK_DEADLOCK FALSE
