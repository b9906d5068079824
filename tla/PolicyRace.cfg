\* Two sessions that save at once.
\* With a policy that does not parse no session starts, and the last edit is spent.
CHECK_DEADLOCK FALSE
CONSTANTS
  c1 = c1  a = a  b = b
  Caps = {c1}
  Pkgs = {a, b}
  Savers = {s1, s2}
  Absent = Absent
  None = None
  Broken = Broken
  Blank <- MCBlank
  Policies <- MCPolicies
  Trees <- MCTrees
  MaxEdits = 1
  MaxAnswers = 2
SPECIFICATION Spec
INVARIANT NeverHalfWritten
