SPECIFICATION Spec
CONSTANTS
  x = x
  y = y
  Names = {x, y}
  Kinds = {"string", "record"}
  Forms = {}
  MaxSource = 3
  MaxOpen = 3
  Objects = {1, 2, 3, 4}
\* A program that has returned, or that was refused, has no next step.
CHECK_DEADLOCK FALSE
INVARIANTS
  TypeOK
  FreedOnce
  InitedIsLive
  AllFreed
