SPECIFICATION FairQueueSpec
CONSTANTS
  MaxAlert = 2
  Workers = {w1}
  MaxMessages = 2
  PageSize = 1
  MaxTries = 1
  MaxSurprises = 0
PROPERTIES
  ExpiredRunsAreHandled
