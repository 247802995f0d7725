SPECIFICATION Spec
CONSTANTS
    Callers = {c1, c2}
    Plans = {p1, p2}
    AutoPlans = {p2}
    Keys = {k1, k2}
    None = None
    MaxAttempts = 3
    MaxEvents = 6
    MaxRestarts = 1
    MaxLapses = 1
SYMMETRY Symmetric
INVARIANT LiveWorkerHoldsClaim
INVARIANT OnlyApprovedPlansAreEdited
INVARIANT RolledBackIsRestored
PROPERTY RetryStartsFromRollback
CHECK_DEADLOCK FALSE
