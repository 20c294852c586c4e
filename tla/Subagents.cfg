SPECIFICATION MCSpec
CONSTANTS
    Activations = 2
    Workers = {w1, w2}
    None = None
    MaxInterrupts = 1
    MaxCrashes = 1
    MaxStalls = 1
    MaxFailures = 1
INVARIANT ReportIsTrue
PROPERTIES NoStartAfterOutcome Completes
CHECK_DEADLOCK FALSE
