SPECIFICATION FaultsSpec
CONSTANTS
  p1 = p1  m1 = m1  m2 = m2  g1 = g1  g2 = g2  d = d  None = None
  Page = {p1}
  Monitor = {m1, m2}
  Group = {g1, g2}
  Domain = {d}
  GlobalPage = p1
  GlobalDomain = d
  LocalRouters <- OneAttach
  Remote <- FromClient
  InitPages <- MissingOrOld
  Cap = 1
  MaxResets = 1
  MaxFailures = 1
  MaxChanges = 1
  MaxRestarts = 1
INVARIANTS
  TypeOK
  OneGroupPerPage
  NoNilManager
  CachesHonest
PROPERTIES
  CyclesEnd
  AttachesLand
