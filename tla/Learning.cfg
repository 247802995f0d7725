SPECIFICATION LearningSpec
CONSTANTS
  Loop = Loop
  Threads = {t1, t2}
  MaxAttempts = 2
  MaxSubjects = 1
  Fixed = 1
  Dynamic = {d1, d2}
  NoMission = NoMission
  Questions = {q1, q2}
  Top = 3
  Independent = 3
  Required = 1
  Openers = {o1}
  MaxAnswers = 2
  MaxCrashes = 1
  Requests = {r1, r2}
  Commits = {c1, c2, c3}
  Blob <- BlobOf
  NoCommit = NoCommit
  MaxObjectives = 3
  MaxMoves = 2
  Learners = {l1}
  Topics = 3
  MaxPathVersions = 3
  MaxPathEdits = 1
  MaxSignals = 2
  LessonQuestions = 2
  Texts = {x, y}
  MaxMissions = 2
  MaxLearningTurns = 4
  MaxDrafts = 2
INVARIANT OneRungPerResult
INVARIANT PublishedArtifactIsApproved
INVARIANT ReplanKeepsOrder
INVARIANT StoppedReviewDecidesNothing
PROPERTY AnswersAndVerdictsStand
CHECK_DEADLOCK FALSE
