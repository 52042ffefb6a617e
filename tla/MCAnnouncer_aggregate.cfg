CONSTANTS
  Caller = {door}
  Key = {k1}
  Ttl = {1}
  Output = {"hall", "kitchen"}
  Native = {}
  Configs <- OneConfig
  AppResult = {"completed_unconfirmed"}
  QueueLimit = 1
  RateLimit = 1
  RateWindow = 1
  TotalLimit = 1
  LaneGuard = 1
  Retention = 4
  MediaLimit = 1
  HandlerSpan = 0
  MaxJobs = 1
  MaxTime = 4
  MaxRestarts = 1
SPECIFICATION Spec
INVARIANTS AggregateIsCurrent
