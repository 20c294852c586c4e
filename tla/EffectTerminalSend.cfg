CONSTANTS
  EffectLease = 2
  PreparedGrace = 1
  MaxDelay = 1
  MaxReconcile = 1
  MaxDispatchClaims = 1
  MaxFailures = 1
  MaxGeneration = 2
SPECIFICATION Spec
PROPERTY TerminalNeverSends
