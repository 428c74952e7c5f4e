SPECIFICATION MetricsSpec
CONSTANTS
  None = None
  Queries = {q1, q2}
  Rates = {q2}
  Metrics = {m1}
  MaxCalls = 2
INVARIANT PartialIsNotSupport
CHECK_DEADLOCK FALSE
