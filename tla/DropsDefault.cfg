SPECIFICATION Spec
CONSTANTS
  x = x
  y = y
  Names = {x, y}
  Kinds = {"string"}
  Forms = {"default"}
  MaxSource = 2
  MaxOpen = 2
  Objects = {1, 2, 3, 4}
CHECK_DEADLOCK FALSE
INVARIANT
  FreedOnce
