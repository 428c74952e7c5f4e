SPECIFICATION Spec
CONSTANTS
  MaxId = 2
  Lengths = {1, 3}
  PageSize = 2
  DirectLimit = 2
  ChunkSize = 2
  MinChunk = 1
  Targets = {t1, t2}
INVARIANTS
  CompleteIsExplained
PROPERTIES
  PipelineSettles
CHECK_DEADLOCK FALSE
