CONSTANTS
  Sessions = {s1}
  Workers = {w1, w2}
  Messages = {m1}
  Stoppers = {p1}
  NoWorker = NoWorker
  NoMessage = NoMessage
  NoSession = NoSession
  LeaseSeconds = 3
  HeartbeatSeconds = 1
  MaxConcurrent = 1
  MaxGeneration = 2
  MaxCrashes = 1
SPECIFICATION MCSpec
INVARIANT LeaseKept
PROPERTIES ImplementsRunFence RecoveredOnce RunsEnd
