SPECIFICATION Spec
CONSTANTS
  a = a
  b = b
  i1 = i1
  i2 = i2
  p1 = p1
  r1 = r1
  NoInstance = NoInstance
  NoPort = NoPort
  Commands <- TwoCommands
  Instances <- TwoInstances
  Ports <- OnePort
  Receipts <- OneReceipt
  MaxDeaths = 1
INVARIANTS
  FailedStartLeavesNoChild
  FailedStartRestores
  ServingIsNamed
  ReceiptsCarryOver
SYMMETRY Symmetry
CHECK_DEADLOCK FALSE
