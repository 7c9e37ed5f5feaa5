CONSTANTS
  m1 = m1
  m2 = m2
  Files <- OneFile
  Bauds <- OneRate
  TxFifoSize = 2
  XmitSize = 4
  ReadSizes <- FullReads
  Preempt = FALSE
  Toggles = TRUE
  Wrap = 16
  MaxBytes = 3
SPECIFICATION FairSpec
PROPERTIES CallsReturn IsByteChannel
