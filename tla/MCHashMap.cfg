\* Scalar values: searches, updates, removals, drains and the growth of the table.
SPECIFICATION FairSpec
CONSTANTS
  a = a  b = b  c = c  d = d  v = v  w = w
  Keys = {a, b, c, d}
  Values = {v, w}
  Inserts <- MCInserts
  Hash <- MCHash
  HeapValues = FALSE
  MaxHeld = 0
  Empty = Empty
  Tomb = Tomb
  Null = Null
INVARIANTS
  KeysOwned
PROPERTIES
  ImplementsMap
  ReturnsIfRoom
