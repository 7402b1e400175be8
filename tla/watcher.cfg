SPECIFICATION FairSpec
CONSTANTS
  Processors = 2
  MaxChanges = 2
  MaxOutages = 1
  MaxFailures = 1
  MaxFaults = 1
INVARIANTS
  TypeOK
  FreshOrUnhealthy
  RunsWhatIsSetUp
PROPERTIES
  CatchesUp
  HealthFollowsDocker
  ComesUp
CHECK_DEADLOCK FALSE
