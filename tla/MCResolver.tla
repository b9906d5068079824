----------------------------- MODULE MCResolver -----------------------------
(***************************************************************************)
(* Three packs of one package, two of which share an interface and two a   *)
(* version, and one of another package.                                    *)
(***************************************************************************)
EXTENDS Resolver, TLC

CONSTANTS p1, p2, p3, q1, m, n, f, g

MCNameOf    == p1 :> m @@ p2 :> m @@ p3 :> m @@ q1 :> n
MCVersionOf == p1 :> 10 @@ p2 :> 11 @@ p3 :> 11 @@ q1 :> 10
MCIfaceOf   == p1 :> f @@ p2 :> f @@ p3 :> g @@ q1 :> g
MCBlank     == [k \in PkgNames |-> None]

On(name, min, max, pin) == [name |-> name, min |-> min, max |-> max, pin |-> pin]

\* Any version; the first only, with another dependency before it; one that
\* pins an interface, with another after it.
MCManifests == {<<On(m, 10, 0, None)>>,
                <<On(n, 0, 20, None), On(m, 10, 11, None)>>,
                <<On(m, 10, 20, f), On(n, 10, 0, None)>>}
=============================================================================
