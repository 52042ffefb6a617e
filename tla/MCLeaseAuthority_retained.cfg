CONSTANTS
  radio = radio  voice = voice  call = call  alert = alert
  fm = fm  chime = chime  idle = idle
  id1 = id1  id2 = id2  k1 = k1
  Source <- FourSources
  Policy <- FourPolicies
  LeaseId = {id1, id2}
  Key = {k1}
  Route = {fm, chime, idle}
  IdleRoute = idle
  Ttl = {1, 2}
  OnlineEligibility = 1
  AdvertisementWithdraw = 2
  CacheCapacity = 1
  NoLease = NoLease
  HandlerSpan = 1
  MaxTime = 3
  MaxVersion = 5
SPECIFICATION Spec
INVARIANT RetainedOnlyIfResumable
