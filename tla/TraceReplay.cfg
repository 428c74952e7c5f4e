SPECIFICATION TraceSpec
CONSTANTS
  None = None
  Texts = {a, b}
  Masked = {}
  Streaming = FALSE
  MaxDecisions = 1
  MaxDeltas = 1
  MaxLosses = 1
  PageLimit = 1
INVARIANT RunSurvivesItsTrace
CHECK_DEADLOCK FALSE
