SPECIFICATION Spec
CONSTANTS
  Nodes <- MCNodes
  NoNode = NoNode
  MaxJobs = 2
  Bufs <- MCBufs
  NoBuf = NoBuf
  NumFe = 2
  MaxFrame = 3
  MaxStart = 2
  MaxSwitch = 1
CONSTRAINTS ShortAfterLoss SwitchWhole
CHECK_DEADLOCK FALSE
INVARIANTS TypeOK BuffersAccounted HeldConfigStays NewestHanded BufferForNextFrame
PROPERTIES StatPaired HeldStatStable SeenInOrder
