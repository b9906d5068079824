\* Values that own heap memory, two of them handed over at most.
SPECIFICATION Spec
CONSTANTS
  a = a  b = b  c = c  d = d  v = v  w = w
  Keys = {a, b, c, d}
  Values = {v, w}
  Inserts <- MCInserts
  Hash <- MCHash
  HeapValues = TRUE
  MaxHeld = 2
  Empty = Empty
  Tomb = Tomb
  Null = Null
INVARIANTS
  ValuesOwned
