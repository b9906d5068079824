\* The collector may be killed in the middle of removing a directory.
CONSTANTS
  p1 = p1  p2 = p2  m1 = m1  m2 = m2  t1 = t1  n1 = n1  n2 = n2
  Packs = {p1, p2}
  Mods = {m1, m2}
  Terms = {t1}
  Compiled = {m1}
  Parts <- MCParts
  NameOf <- MCNameOf
  Installers = {i1, i2}
  Projects = {j1}
  MaxCrashes = 2
  MaxDamage = 1
  TornRemovals = TRUE
  Absent = Absent
  Malformed = Malformed
SPECIFICATION Spec
INVARIANTS ReturnsComplete
SYMMETRY Symmetry
