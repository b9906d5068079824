------------------------------ MODULE Packages ------------------------------
(***************************************************************************)
(* Versions, ranges and the linker's decision table                        *)
(* (crates/triet-pack/src/linker.rs, and the range test resolver.rs has of *)
(* its own).  A version is one number, Major and Minor its parts.          *)
(***************************************************************************)
EXTENDS Naturals

CONSTANTS
  Packs,      \* hashes of packages
  PkgNames,
  NameOf, VersionOf, IfaceOf,  \* what the manifest of a pack says
  Versions,   \* the versions in use
  None        \* no pin, no entry, no pack

Minor(v) == v % 10
Major(v) == v \div 10

\* A declared dependency: a name, a half-open range whose upper end 0 (0.0.0)
\* means none, and the hash of an interface, or None.
Deps == [name : PkgNames, min : Nat, max : Nat,
         pin : {IfaceOf[p] : p \in Packs} \cup {None}]

ASSUME PackagesAssumption ==
  /\ Versions \subseteq Nat \ {0}
  /\ NameOf \in [Packs -> PkgNames]
  /\ VersionOf \in [Packs -> Versions]
  /\ None \notin Packs
  /\ \A p \in Packs : IfaceOf[p] # None

\* Seeded defect: the upper end belongs to the range.
InRangeClosed(v, d) == v >= d.min /\ (d.max = 0 \/ v <= d.max)

\* Resolver: in_range.
InRange(v, d) == v >= d.min /\ (d.max = 0 \/ v < d.max)

\* Linker: classify_version.
VersionClass(v, d) ==
  IF v < d.min THEN "below"
  ELSE IF d.max = 0 \/ v < d.max THEN "in_range" ELSE "major_mismatch"

\* Linker: resolve_one over the packs at hand; what it selects or reports.
Candidates(d, available) == {p \in available : NameOf[p] = d.name}
OfClass(d, available, c) ==
  {p \in Candidates(d, available) : VersionClass(VersionOf[p], d) = c}

LinkFailure(d, available) ==
  IF Candidates(d, available) = {} THEN "not_found"
  ELSE IF OfClass(d, available, "in_range") # {} THEN "none"
  ELSE IF OfClass(d, available, "major_mismatch") # {} THEN "major_mismatch"
  ELSE "below"

\* The first of those with the highest version in range.
Selected(d, available) ==
  {p \in OfClass(d, available, "in_range") :
     \A q \in OfClass(d, available, "in_range") : VersionOf[q] <= VersionOf[p]}

LinkWarning(d, p) ==
  IF d.pin # None /\ d.pin # IfaceOf[p] THEN "pin_mismatch"
  ELSE IF VersionOf[p] > d.min /\ Minor(VersionOf[p]) > Minor(d.min) THEN "drift" ELSE "none"
=============================================================================
