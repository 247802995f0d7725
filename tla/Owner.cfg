SPECIFICATION OwnerSpec
CONSTANTS
  Documents = {d1, d2}
  MaxWrites = 3
  MaxDeaths = 1
  ChunkSize = 2
  Overlap = 1
  TopK = 1
  Files = {f1, f2}
  SymbolNames = {n}
  MaxEdits = 1
  MaxRefreshDeaths = 1
  ProjectHandlers = {h1, h2}
  Submissions = {s1, s2}
  CompetencyCount = 2
  MaxMissions = 1
  MaxEnds = 1
  Callers = {m1}
  Subjects = {j1}
  WorkingLimit = 1
  MaxRecords = 2
  Handlers = {a1, a2}
  MaxTasks = 2
  MaxPlans = 2
  MaxKills = 1
  Changes = {w1}
  StateWatches = {w2}
  PerHour = 1
  MaxFact = 1
  MaxStarts = 2
  MaxPolls = 2
SYMMETRY Interchangeable
INVARIANT ReusedIndexIsCurrent
INVARIANT LoadedGenerationIsWhole
INVARIANT CompletedProvesEveryCompetency
INVARIANT OneTextPerCorrection
INVARIANT CancelledLeavesNothingRunnable
INVARIANT ToldOnce
CHECK_DEADLOCK FALSE
