SPECIFICATION MCSpec
CONSTANTS
  Analyses = {a1, a2}
  Reanalyses = {r1}
  MaxGeneration = 3
  Tasks = {t1, t2}
  Generations = {g1}
  RunAttempts = 1
  MaxToken = 2
  Deliveries = {d1}
  Invalid = {}
  Workers = {w1, w2}
  BatchLimit = 1
  AttemptLimit = 3
  MaxRetries = 0
  Alerts = {x, y}
  MaxWorkers = 2
  MaxRequests = 2
  MaxChanges = 2
  Tools = {t1, t2}
  MaxRounds = 2
  MaxCrashes = 1
  Callers = {c1, c2}
  CallToken = 2
  None = None
  Texts = {a, b}
  Masked = {}
  Streaming = TRUE
  MaxDecisions = 1
  MaxDeltas = 2
  MaxLosses = 1
  PageLimit = 1
INVARIANTS
  OneWorkerPerAlert
  RoundsAreTakenOver
  CompletedIsGrounded
  OutageIsRemembered
  RunSurvivesItsTrace
PROPERTIES
  EveryAlertSettles
  EveryIntentSettles
  QueuedIsAnalysed
  ReplacedAdaptersAreClosed
  EveryRunEnds
  EveryCallEnds
  PageCatchesUp
CHECK_DEADLOCK FALSE
