SPECIFICATION Spec
CONSTANTS
  BootLimit = 3
  MaxOps = 2
  MaxLosses = 3
  HistoryLimit = 3
  Requests <- EarlyRequests
  Faults <- AllFaults
INVARIANTS
  IInv
PROPERTIES
  RunningSlotUntouched
  AcceptsWhatItTested
  KeepsPromise
