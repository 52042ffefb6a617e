CONSTANTS
  Caller = {door}
  Key = {k1}
  Ttl = {1, 2}
  Output = {"portal", "speaker"}
  Native = {"portal"}
  Configs <- ShrinkingConfig
  AppResult = {"completed_unconfirmed", "failed"}
  QueueLimit = 1
  RateLimit = 1
  RateWindow = 1
  TotalLimit = 1
  LaneGuard = 1
  Retention = 4
  MediaLimit = 2
  HandlerSpan = 1
  MaxJobs = 1
  MaxTime = 6
  MaxRestarts = 2
SPECIFICATION Spec
INVARIANTS TypeOK ReadyIsComplete NothingStaysInLimbo NoFalseFailure
PROPERTIES SettledStays SendsAreAuthorized KeepsPromise
