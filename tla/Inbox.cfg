SPECIFICATION MCSpec
CONSTANTS
  a = a  b = b  c = c  None = None
  Items = {a, b, c}
  Kind <- OneOfEach
  Attached = {a}
  MaxStepBatch = 2
  MaxAttempts = 2
  MaxGeneration = 9
  MaxFaults = 1
INVARIANTS InputKept FilesRespected
PROPERTY SettledOnce
CHECK_DEADLOCK FALSE
