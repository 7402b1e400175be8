SPECIFICATION FairSpec
CONSTANTS
  a = a  b = b  url = url  t = t  Nil = Nil
  Containers <- All
  Found <- SiteKey
  AbsoluteURLs = {url}
  AutoEnable = FALSE
  Tag = {t}
  MaxCopies = 1
  MaxChanges = 0
  MaxFaults = 0
CHECK_DEADLOCK FALSE
PROPERTY
  DryRunAltersNothing
