CONSTANTS
  Replicas = {r1, r2}
  Jobs = {j1, j2}
  spare = j2
  victim = r1
  Stuck = 1
  Timeout = 1
  Interval = 2
  Backoff = 1
  MaxConcurrent = 1
  DisableAfter = 2
  MaxRetries = 1
  MaxEdits = 2
  MaxCrashes = 1
  MaxFaults = 1
  Runs = {x1, x2}
  MaxInterrupts = 1
SPECIFICATION MCSpec
INVARIANTS  ResultsPostedOnce
PROPERTIES StaysOff NothingWaits
