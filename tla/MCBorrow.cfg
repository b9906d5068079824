\* The checker and, for every body it accepts, every run of it.
SPECIFICATION RunSpec
CONSTANTS
  Bodies <- MCBodies
  FieldType <- MCFieldType
INVARIANTS
  AtFixpoint
  NoErrorLost
  VerdictIsFinal
  NoUseAfterMove
  NoDanglingRead
  NoAliasedRead
PROPERTIES
  Converges
\* A rejected body is not run, and a run ends.
CHECK_DEADLOCK FALSE
