SPECIFICATION Spec
CONSTANTS
  p1 = p1  m1 = m1  m2 = m2  g1 = g1  g2 = g2  d = d  None = None
  Page = {p1}
  Monitor = {m1, m2}
  Group = {g1, g2}
  Domain = {d}
  GlobalPage = None
  GlobalDomain = None
  LocalRouters <- WithBinding
  Remote <- FromClient
  InitPages <- MissingOrOld
  Cap = 1
  MaxResets = 0
  MaxFailures = 0
  MaxChanges = 0
  MaxRestarts = 0
PROPERTY
  NoWipeOut
