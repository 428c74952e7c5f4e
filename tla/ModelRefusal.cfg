SPECIFICATION ClientSpec
CONSTANTS
  None = None
  Protocols = {"chat", "responses"}
  MaxItems = 1
  MaxRepairs = 1
INVARIANT
  ConfirmedRefusalsPause
CHECK_DEADLOCK FALSE
