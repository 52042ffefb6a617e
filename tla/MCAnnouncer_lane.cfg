CONSTANTS
  Caller = {door, bell}
  Key = {k1, k2}
  Ttl = {1}
  Output = {"portal", "speaker"}
  Native = {"portal"}
  Configs <- EitherOutput
  AppResult = {"completed_unconfirmed"}
  QueueLimit = 1
  RateLimit = 1
  RateWindow = 2
  TotalLimit = 3
  LaneGuard = 1
  Retention = 5
  MediaLimit = 1
  HandlerSpan = 0
  MaxJobs = 2
  MaxTime = 5
  MaxRestarts = 1
SYMMETRY Interchangeable
SPECIFICATION Spec
INVARIANTS AtMostOnce LaneExclusive AdmissionBounded
