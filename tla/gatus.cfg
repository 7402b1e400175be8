SPECIFICATION FairSpec
CONSTANTS
  r1 = r1  r2 = r2  r3 = r3  a = a  b = b  x = x  s = s  and = and  cut = cut
  Router = {r1, r2, r3}
  Segment = {a, b, x, s, and, cut}
  Endpoint <- AllEndpoints
  EndpointOf <- Made
  ReadAs <- Readings
  Refused = Refused
  InitEndpoints <- Leftovers
  MaxChanges = 1
  MaxFailures = 1
  MaxLost = 1
  MaxOthers = 1
  MaxRestarts = 1
INVARIANTS
  TypeOK
  WantedSpared
  OthersSpared
  CacheMatchesBridge
PROPERTIES
  EndpointsAppear
  OrphansGo
