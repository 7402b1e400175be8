SPECIFICATION FairSpec
CONSTANTS
  n1 = n1  n2 = n2  h1 = h1  h2 = h2  k1 = k1  s = s  x = x  y = y
  z1 = z1  z2 = z2  t1 = t1  t2 = t2  c = c  Nil = Nil
  Node = {n1, n2}
  Host = {h1, h2, k1, s, x, y}
  Zone = {z1, z2}
  ZonesOf <- FlatZonesOf
  Target <- TwoTargets
  OtherContent = {c}
  Cleanup <- Off
  DryRun <- Off
  Services <- Single
  InitRecords <- Nothing
  FirstId = 1
  MaxChanges = 1
  MaxFailures = 1
  MaxRestarts = 0
CHECK_DEADLOCK FALSE
PROPERTY
  Converges
