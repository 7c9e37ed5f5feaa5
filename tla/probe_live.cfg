SPECIFICATION FairSpec
CONSTANTS
  a = a
  b = b
  c = c
  ra = ra
  rb = rb
  rc = rc
  rx = rx
  Worker = Worker
  InitCall = InitCall
  None = None
  Devices <- ChainDevices
  Drivers <- ChainDrivers
  DriversOf <- ChainDriversOf
  Needs <- ChainNeeds
  Rejects = {rx}
  Deletes = {b}
INVARIANTS NoRetryLost BoundMatchesDriver OneProbe ListedOnce
PROPERTY EveryDeviceBinds
CHECK_DEADLOCK FALSE
