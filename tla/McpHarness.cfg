SPECIFICATION FairSpec
CONSTANTS
  None = None
  Calls = {c1}
  RetriesOnce = TRUE
  MaxInvocations = 5
  MaxRepairs = 1
  MaxResumes = 2
INVARIANTS
  CallsArePaidOnce
  AnswersAreKept
PROPERTIES
  EveryInvestigationEnds
CHECK_DEADLOCK FALSE
