------------------------------ MODULE MCPolicy ------------------------------
(***************************************************************************)
(* Two sessions, one path two packages want, policies that prompt, rule or *)
(* do not parse, and trees the root defers, grants or refuses in.          *)
(***************************************************************************)
EXTENDS Policy, TLC

CONSTANTS c1, a, b

Rules(fresh, locked, any, default) ==
  [rule |-> [k \in {c1} \X (Origins \cup {"any"}) |->
               CASE k[2] = "fresh" -> fresh [] k[2] = "lockfile" -> locked
                 [] OTHER -> any],
   default |-> default]

MCBlank    == Rules(None, None, None, None)
MCPolicies == {Broken, Rules(None, None, "prompt", None),
               Rules(None, "prompt", None, "grant")}

\* a is the root, b exports the path.
Tree(root, dep, asks) ==
  [root |-> a, modules |-> (a :> {} @@ b :> {c1}),
   claims |-> (a :> {[cap |-> c1, level |-> l] : l \in root} @@
               b :> {[cap |-> c1, level |-> l] : l \in dep}),
   asks |-> asks]

\* In the first the root defers its own claim, and its program asks again as
\* the locked package and for the other one; in the second, b asks.  The root
\* refuses in the third and has no claim in the fourth.
MCTrees == {Tree({"defer"}, {}, {<<c1, a, "lockfile">>, <<c1, b, "lockfile">>}),
            Tree({}, {}, {<<c1, b, "lockfile">>}),
            Tree({"ambient"}, {"grant"}, {}), Tree({}, {"defer"}, {})}
=============================================================================
