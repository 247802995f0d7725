SPECIFICATION Spec
CONSTANTS
  Tasks = {t1}
  Callers = {c1, c2}
  Budget = 2
  ActionSpecs <- MixedSpecs
  PlanSteps = 1
  MaxActions = 2
  MaxClarifications = 1
  None = None
SYMMETRY CallerSymmetry
INVARIANT UncertaintyIsVisible
INVARIANT NotExecutedMeansNotStarted
PROPERTY NoReplay
PROPERTY StopIsBinding
PROPERTY OutcomeIsNotRevised
CHECK_DEADLOCK FALSE
