SPECIFICATION Spec
CONSTANTS
  Drivers <- AllDrivers
  Resources <- AllResources
  Probe <- ProbeOf
  Remove <- RemoveOf
  Touch <- TouchOf
  Removable <- CanUnbind
  Exclusive <- OneOnly
  Absent <- Missing
  Once <- AskedOnce
  Loads <- LoadSets
  Tidy <- TidyDrivers
  Sound <- SoundDrivers
INVARIANTS NothingLost HandlesLive
CHECK_DEADLOCK FALSE
