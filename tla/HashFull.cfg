\* An operation on a table whose slots are all taken by tombstones and entries.
SPECIFICATION FairSpec
CONSTANTS
  a = a  b = b  c = c  d = d  v = v  w = w
  Keys = {a, b, c, d}
  Values = {v, w}
  Inserts <- MCInserts
  Hash <- MCHash
  HeapValues = FALSE
  MaxHeld = 0
  Empty = Empty
  Tomb = Tomb
  Null = Null
PROPERTIES
  Returns
