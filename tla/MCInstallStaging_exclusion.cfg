SPECIFICATION PartSpec
CONSTANTS
  Threads = {t1, t2}
  Uploads = {p1, p2}
  NoPackage = NoPackage
  Requests <- AllRequests
  Faults <- AllFaults
  MaxLosses = 1
  WebThreads = {t1, t2}
  WebFaults <- UploadFaults
  Clients = {"phone"}
  MaxAttempts = 2
  MaxTokens = 2
  MaxFailures = 4
  Overtakes = FALSE
  Addresses = {"a", "b"}
  MaxChanges = 3
  MaxRefusals = 2
  Options <- SomeRuns
  Breaks <- AllBreaks
  MaxRuns = 3
  MaxCommits = 1
  MaxBreaks = 1
INVARIANTS
  OneAtATime
  ClaimedOnce
  
  TrackedUpload
PROPERTIES
  LockComesBack
  ListenerFollows
  ReleaseKept
CHECK_DEADLOCK FALSE
