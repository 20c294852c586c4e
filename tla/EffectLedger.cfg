CONSTANTS
  EffectLease = 2
  PreparedGrace = 1
  MaxDelay = 1
  MaxReconcile = 2
  MaxDispatchClaims = 2
  MaxFailures = 1
  MaxGeneration = 2
SPECIFICATION FairSpec
INVARIANTS SendSafe RecoveryInBounds
PROPERTIES TerminalKept Concluded
