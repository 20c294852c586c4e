CONSTANTS
  Sessions = {s1, s2}
  Workers = {w1, w2}
  Messages = {}
  Stoppers = {p1}
  NoWorker = NoWorker
  NoMessage = NoMessage
  NoSession = NoSession
  LeaseSeconds = 1
  HeartbeatSeconds = 0
  MaxConcurrent = 1
  MaxGeneration = 3
  MaxCrashes = 1
SPECIFICATION Spec
CONSTRAINT Corners
SYMMETRY SessionSymmetry
INVARIANTS QuotaHolds StopHitsItsRun
PROPERTY SettlementFollowsItsRun
