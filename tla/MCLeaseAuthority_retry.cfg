CONSTANTS
  radio = radio  voice = voice  call = call  alert = alert
  fm = fm  chime = chime  idle = idle
  id1 = id1  id2 = id2  k1 = k1
  Source <- TwoSources
  Policy <- TwoPolicies
  LeaseId = {id1, id2}
  Key = {k1}
  Route = {fm, idle}
  IdleRoute = idle
  Ttl = {0, 2}
  OnlineEligibility = 1
  AdvertisementWithdraw = 2
  CacheCapacity = 2
  NoLease = NoLease
  HandlerSpan = 0
  MaxTime = 3
  MaxVersion = 5
SPECIFICATION FairSpec
INVARIANTS TokenStaysPrivate RetryFindsLiveLease
PROPERTIES ImplementsIntent EventuallyIdle
