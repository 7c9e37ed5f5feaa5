SPECIFICATION SmiSpec
CONSTANTS
  Preamble = 32
  AddrBits = 5
  RegBits = 5
  DataBits = 16
  Registers <- SwitchRegisters
  SerdesRegs <- InnerRegisters
  Menu <- Sessions
  Polls = 2
  Wrapped = 3
  MaxGiveUps = 1
INVARIANTS OneDriver SerdesInOrder SerdesReadRight
PROPERTIES IsRegisterBus Completes
CHECK_DEADLOCK FALSE
