SPECIFICATION RunSpec
CONSTANTS
  Bodies <- LoopFirstBodies
  FieldType <- MCFieldType
INVARIANT EveryReachableBlockWalked
CHECK_DEADLOCK FALSE
