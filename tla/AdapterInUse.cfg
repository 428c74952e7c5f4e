SPECIFICATION RetirementSpec
CONSTANTS
  Analyses = {a1, a2}
  Reanalyses = {r1}
  MaxGeneration = 3
CHECK_DEADLOCK FALSE
INVARIANT ClaimedRunsKeepTheirAdapter
