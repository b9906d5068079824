\* One project whose builds meet a changing store.
\* The last change may leave a lockfile that does not parse: no build starts.
CHECK_DEADLOCK FALSE
CONSTANTS
  p1 = p1  p2 = p2  p3 = p3  q1 = q1  m = m  n = n  f = f  g = g
  Packs = {p1, p2, p3, q1}
  PkgNames = {m, n}
  NameOf <- MCNameOf
  VersionOf <- MCVersionOf
  IfaceOf <- MCIfaceOf
  Versions = {10, 11}
  Savers = {b1, b2}
  Blank <- MCBlank
  Broken = Broken
  Absent = Absent
  None = None
  Manifests <- MCManifests
  MaxChanges = 3
  MaxBuilds = 3
SPECIFICATION Spec
INVARIANTS LockedStays ResolvedFits LinkerAgrees WholeLocks
