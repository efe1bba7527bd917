SPECIFICATION FairSpec
CONSTANTS
  BootLimit = 2
  MaxOps = 3
  MaxLosses = 1
  HistoryLimit = 3
  Requests <- Patient
  Faults <- NoFaults
INVARIANTS
  HistoryTruthful
PROPERTIES
  TrialSettled
