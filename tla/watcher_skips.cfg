SPECIFICATION FairSpec
CONSTANTS
  Processors = 2
  MaxChanges = 1
  MaxOutages = 0
  MaxFailures = 0
  MaxFaults = 0
PROPERTY MonitorSkipped
CHECK_DEADLOCK FALSE
