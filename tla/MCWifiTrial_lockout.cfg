SPECIFICATION FairSpec
CONSTANTS
  Configs = {home, stray}
  None = none
  Static = {stray}
  Reachable = {home}
  Initial = home
  Threads = {1, 2}
  Faults <- NoFaults
  MaxFaults = 0
PROPERTIES
  EveryTrialReverts
CHECK_DEADLOCK FALSE
