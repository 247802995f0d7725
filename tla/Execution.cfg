SPECIFICATION ExecutionSpec
CONSTANTS
  Processes = {p, q}
  RepositoryIds = {r}
  Target = r
  MaxCommits = 2
  MaxSwaps = 1
  MaxEdits = 1
  MaxLoads = 2
  Edits = {e1, e2}
  OwnerTests = {e1}
  NewFiles = {e2}
  Prints = {f1, f2}
  MaxSteps = 4
  MaxMutations = 2
  MaxRepairs = 2
  MaxReplans = 1
  MaxLines = 2
  MaxSymbolCount = 2
  Contents = {start, work, other}
  Start = start
  MaxWrites = 2
  MaxTimeouts = 1
  Publishers = {p1, p2}
  MaxFaults = 1
  MaxPublish = 3
INVARIANT RunStartsFromOneCommit
INVARIANT PassIsOfTheTree
INVARIANT InsertedLinesAreApproved
INVARIANT CommittedIsReviewed
INVARIANT PublishedIsReal
CHECK_DEADLOCK FALSE
