\* Violated; likewise with Bodies <- TailBodies, and with Bodies <- CopyBodies.
SPECIFICATION RunSpec
CONSTANTS
  Bodies <- JoinBodies
  FieldType <- MCFieldType
INVARIANT NoDanglingRead
CHECK_DEADLOCK FALSE
