SPECIFICATION FairSpec
CONSTANTS
  h1 = h1  h2 = h2  m = m  x = x  zi = zi  zo = zo  t = t  c = c  https = https
  Nil = Nil
  Host = {h1, h2, m, x}
  Zone = {zi, zo}
  ZonesOf <- InnerAndOuter
  Target = t
  TargetType = "CNAME"
  OtherContent = {c}
  FilterWords = {https}
  Services <- Containers
  InitRecords <- Found
  ByHand <- Hand
  FirstId = 4
  Modes <- Deployments
  MaxChanges = 1
  MaxFaults = 2
CHECK_DEADLOCK FALSE
INVARIANTS
  TypeOK
  LockHolds
  CacheIsTruth
  IdleInStep
PROPERTIES
  Converges
