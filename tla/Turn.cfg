CONSTANTS
  PendingTTL = 1
  MaxRuns = 3
  Mine = 2
  N = 3
  MaxParallel = 2
SPECIFICATION TurnSpec
INVARIANTS NewestReachable StepIsSound
PROPERTIES NoAmbush StopHalts StepEnds
