CONSTANTS
    w1 = w1
    w2 = w2
    Turns = 2
    Workers = {w1, w2}
    None = None
    MaxAttempts = 2
    MaxEdits = 1
    MaxErrors = 1
    MaxStops = 1
    MaxPauses = 1
    MaxReplays = 1
    MaxRev = 3
    MaxRows = 3
    MaxSwitches = 1
SPECIFICATION MCSpec
CHECK_DEADLOCK FALSE
INVARIANTS CursorSound IndexSound
PROPERTIES LateIsHarmless SettlesInTheEnd
