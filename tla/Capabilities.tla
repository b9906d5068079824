---------------------------- MODULE Capabilities ----------------------------
(***************************************************************************)
(* What crates/triet-pack/src/capability_link.rs decides at link time.  A  *)
(* tree is the root package and its dependencies, each with the modules it *)
(* exports and the capabilities it claims; a capability is claimed by the  *)
(* path of a module.                                                       *)
(***************************************************************************)
EXTENDS FiniteSets

CONSTANTS Caps, Pkgs

Levels == {"grant", "deny", "ambient", "defer"}

\* claims[p] is a set of [cap, level] records; of two for one path the root's
\* first one counts, so a path is claimed once.
IsTree(t) ==
  /\ t.root \in Pkgs
  /\ t.modules \in [Pkgs -> SUBSET Caps]
  /\ t.claims \in [Pkgs -> SUBSET [cap : Caps, level : Levels]]
  /\ \A a, b \in t.claims[t.root] : a.cap = b.cap => a = b

ModulePaths(t)   == UNION {t.modules[p] : p \in Pkgs}
Requesters(t, c) == {p \in Pkgs : \E a \in t.claims[p] : a.cap = c}
Requested(t)     == {c \in Caps : Requesters(t, c) # {}}

\* Seeded defect: any package's claim has the authority of the root's.
AnyLevel(t, c) == {a.level : a \in {b \in UNION {t.claims[p] : p \in Pkgs} : b.cap = c}}

\* The levels the root claims for a path: none or one.
RootLevel(t, c) == {a.level : a \in {b \in t.claims[t.root] : b.cap = c}}

\* check_link_capabilities: the error codes with their paths.
LinkErrors(t) ==
  {<<"E2202", c>> : c \in Requested(t) \ ModulePaths(t)}
  \cup {<<"E2200", c>> : c \in {d \in Requested(t) \cap ModulePaths(t) :
                                  RootLevel(t, d) = {}}}
  \cup {<<"E2203", c>> : c \in {d \in Requested(t) \cap ModulePaths(t) :
                                  RootLevel(t, d) \cap {"deny", "ambient"} # {}}}

\* Its deferrals: what the resolver is asked, for every requester.
Deferrals(t) ==
  {k \in Caps \X Pkgs : /\ k[1] \in ModulePaths(t)
                        /\ RootLevel(t, k[1]) = {"defer"}
                        /\ k[2] \in Requesters(t, k[1])}
=============================================================================
