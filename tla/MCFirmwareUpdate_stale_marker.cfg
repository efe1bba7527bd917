SPECIFICATION Spec
CONSTANTS
  BootLimit = 2
  MaxOps = 3
  MaxLosses = 2
  HistoryLimit = 3
  Requests <- Patient
  Faults <- NoFaults
INVARIANTS
  RollbackTruthfully
