SPECIFICATION FairSpec
CONSTANTS
  Frames = {f1, f2}
  None = None
  MaxLate = 1
INVARIANTS RefusedOnlyAfterFailures NmiRestored SuccessMeansServed
PROPERTY BootCompletes
CHECK_DEADLOCK FALSE
