SPECIFICATION QueueSpec
CONSTANTS
  MaxAlert = 2
  Workers = {w1}
  MaxMessages = 1
  PageSize = 1
  MaxTries = 1
  MaxSurprises = 0
INVARIANTS
  QueuedIsRepublished
