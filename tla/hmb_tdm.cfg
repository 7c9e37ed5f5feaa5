SPECIFICATION Spec
CONSTANTS
  Frames = {f1, f2}
  None = None
  MaxLate = 0
INVARIANT TdmKept
CHECK_DEADLOCK FALSE
