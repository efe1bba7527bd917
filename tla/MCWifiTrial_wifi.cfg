SPECIFICATION FairSpec
CONSTANTS
  Configs = {home, fixed, wrong}
  None = none
  Static = {fixed}
  Reachable = {home, fixed}
  Initial = fixed
  Threads = {1, 2}
  Faults <- AllFaults
  MaxFaults = 1
INVARIANTS
  Restorable
PROPERTIES
  RunsWhatIsSaved
  DhcpTrialReverts
CHECK_DEADLOCK FALSE
