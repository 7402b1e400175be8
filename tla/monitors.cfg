SPECIFICATION FairSpec
CONSTANTS
  a = a  b = b  url = url  t = t  Nil = Nil
  Containers <- All
  Found <- SiteKey
  AbsoluteURLs = {url}
  AutoEnable = FALSE
  Tag = {t}
  MaxCopies = 2
  MaxChanges = 1
  MaxFaults = 1
CHECK_DEADLOCK FALSE
INVARIANTS
  TypeOK
  CacheMatchesKuma
  AttachedIsTrue
PROPERTIES
  NoDuplicateMonitors
  MonitorsAppear
  TagsLand
