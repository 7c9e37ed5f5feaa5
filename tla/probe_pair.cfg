SPECIFICATION Spec
CONSTANTS
  a = a
  b = b
  c = c
  ra = ra
  rb = rb
  rc = rc
  rx = rx
  Worker = Worker
  InitCall = InitCall
  None = None
  Devices <- PairDevices
  Drivers <- PairDrivers
  DriversOf <- PairDriversOf
  Needs <- PairNeeds
  Rejects = {}
  Deletes = {}
INVARIANT BoundNotDeferred
CHECK_DEADLOCK FALSE
