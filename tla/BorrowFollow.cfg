\* The hypotheses of the theorems about references: they suffice, and the
\* accepted bodies of borrow_check meet them.
SPECIFICATION RunSpec
CONSTANTS
  Bodies <- AllBodies
  FieldType <- MCFieldType
INVARIANTS
  FollowedReadNothingBad
  AcceptedAreFollowed
CHECK_DEADLOCK FALSE
