SPECIFICATION MCSpec
CONSTANTS
  Processes = {p1, p2}
  Admins = {c1, c2}
  None = None
  BaselineRunnable = TRUE
  MaxEdits = 2
  MaxVersion = 2
  MaxRestarts = 1
  RowIds = {1, 2}
  Invented = 9
  Histories <- MCHistories
  Alerts = {x, y}
  Background = Background
  Manual = Manual
  Lookback = 1
  Retention = 2
  PageSize = 1
  PollTime = 1
  MaxTime = 3
  MaxSwitches = 1
  Queries = {q1, q2}
  Rates = {q2}
  Metrics = {m1, m2}
  MaxCalls = 2
  Calls = {k1, k2}
  MaxReplies = 2
  MaxStarts = 2
  Protocols = {"chat", "responses"}
  MaxItems = 2
  MaxRepairs = 1
  Rows = {r1, r2}
  MaxStumbles = 1
  Deliveries = {d1, d2}
  Invalid = {d2}
  Workers = {w1, w2}
  BatchLimit = 2
  AttemptLimit = 2
  MaxRetries = 1
SYMMETRY Symmetry
INVARIANTS
  CompletedReportIsBound
  StoredOnce
  FactsHaveOneSource
  NoDataWasAsked
  CheckpointsCanBeResumed
  AnswerIsTheOutput
  EvidenceIsJudgedInParts
  DuplicatesAreExplained
  OutcomesAreEarned
PROPERTIES
  EditsBuildOnWhatWasSeen
  ResumesThePauseItProbed
  
  SuccessIsComplete
  KeptAnswersAreNotAskedAgain
CHECK_DEADLOCK FALSE
