SPECIFICATION Spec
CONSTANTS
  bridge = bridge
  a = a
  b = b
  c = c
  None = None
  Devices <- Family
  Parent <- FamilyParent
  HasClass = {a, b, c}
  HasType = {a}
  HasDevt = {a, b}
  OnBus = {bridge, b}
INVARIANTS AddIsAllOrNothing  
CHECK_DEADLOCK FALSE
