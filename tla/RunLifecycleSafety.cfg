SPECIFICATION MCSpec
CONSTANTS
  Tasks = {t1, t2}
  Callers = {c1, c2, c3}
  Generations = {g1, g2}
  MaxAttempts = 2
  MaxToken = 2
  MaxEpoch = 2
  MaxAlert = 2
  Workers = {w1}
  MaxMessages = 2
  PageSize = 1
  MaxTries = 2
  MaxSurprises = 1
SYMMETRY Symmetry
INVARIANTS
  AlertMirrorsLatestRun
  RunsUnderFrozenManifest
  CancellationWins
  OneNotificationPerRun
  EvidenceIsTrue
  QueuedIsTracked
PROPERTIES
  OnlyHolderRecordsVerdict
  ImplementsContract
  ImplementsAtMostOnce
