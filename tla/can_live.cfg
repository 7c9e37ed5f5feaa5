SPECIFICATION FairSpec
CONSTANTS
  f1 = f1
  f2 = f2
  Frames <- OneFrameOnly
  None = None
  Levels = {"ok", "off"}
  RestartMs = FALSE
  PromptRestart = FALSE
  Suspends = FALSE
  PowerEnable = FALSE
  OpenFails = TRUE
INVARIANTS CarrierRecoverable TxCountsFrame LockHeld
PROPERTIES QueueWakes StopReturns RestartCompletes
