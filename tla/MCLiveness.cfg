\* The whole of LivenessResult::compute over every body of MCBodies.
SPECIFICATION FairSpec
CONSTANTS
  Bodies <- MCBodies
  FieldType <- MCFieldType
INVARIANTS
  ExactWhenDone
PROPERTIES
  Converges
\* compute returns: the program stops.
CHECK_DEADLOCK FALSE
