\* Violated; likewise with INVARIANT NoReadAfterFieldMove.
SPECIFICATION RunSpec
CONSTANTS
  Bodies <- MCBodies
  FieldType <- MCFieldType
INVARIANT NoReadAfterPass
CHECK_DEADLOCK FALSE
