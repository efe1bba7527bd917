SPECIFICATION Spec
CONSTANTS
  Enabled <- AllSources
  Faults <- NoFaults
  SlowKeeper = FALSE
  Paced = TRUE
  Presets = {1, 2}
  Repeats = FALSE
  MaxEvents = 5
INVARIANTS
  LastStartedPlays
  PresetHeard
PROPERTIES
  MpdStaysAway
