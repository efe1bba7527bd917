SPECIFICATION PartSpec
CONSTANTS
  Tracks = {a, b, c}
  None = none
  Covered = {a, b}
  MaxPositive = 1
  MaxNegative = 2
  Faults <- AllFaults
  MaxFaults = 2
  ControlFaults <- Transfers
  MaxChanges = 3
  MaxCovers = 2
  MaxEvents = 2
  SlowFrames = FALSE
  Metadata <- Played
  Volumes <- OneVolume
  Toasts <- Pills
  Backends = {"airplay", "spotify"}
  MaxTroubles = 2
  MaxScripts = 3
  Cap = 32
  MixerMax = 50
  SharedBus = FALSE
  EarlyTouch = FALSE
  MaxTouches = 3
  MaxNoise = 2
  Albums = {"", "this"}
  Answers <- UpToThree
  MaxReleases = 2
  MaxRedirects = 1
  RetryAfters = {0, 60, 100000}
INVARIANTS
  ResolverKept
  LookupRight
  
  OneOwner
  Obeyed
PROPERTIES
  ShowsLatestCover
  AsksInTime
  CoverArrives
  
  RadioComesBack
  ControlsFollowed
CHECK_DEADLOCK FALSE
