SPECIFICATION Spec
CONSTANTS
  f1 = f1
  f2 = f2
  Frames <- TwoFrames
  None = None
  Levels = {"ok", "off"}
  RestartMs = FALSE
  PromptRestart = FALSE
  Suspends = TRUE
  PowerEnable = FALSE
  OpenFails = TRUE
  StandardIds <- ElevenBits
  ExtendedIds <- TwentyNineBits
  Lengths = {0, 1, 7, 8}
  Data <- Bytes
  Left <- LeftOver
SYMMETRY FrameSymmetry
INVARIANTS   EchoIsSent StopLeavesNothing SentFrameArrives 
