CONSTANTS
  m1 = m1
  m2 = m2
  Files <- OneFile
  Bauds <- TwoRates
  TxFifoSize = 2
  XmitSize = 4
  ReadSizes <- FullReads
  Preempt = TRUE
  Toggles = FALSE
  Wrap = 16
  MaxBytes = 4
SPECIFICATION Spec
INVARIANTS TypeOK WriterReturnsDrained DeliveredInOrder ResetMeansNobody 
