----------------------------- MODULE MCPackStore -----------------------------
(***************************************************************************)
(* The store on a small instance: two packs that share a term and have a   *)
(* module each, two installers that may install the same pack or           *)
(* different ones, one project, and few enough kills and damaged files to  *)
(* let every step be interrupted.                                          *)
(***************************************************************************)
EXTENDS PackStore, TLC

CONSTANTS p1, p2, m1, m2, t1, n1, n2

MCParts  == (p1 :> <<m1, t1>>) @@ (p2 :> <<m2, t1>>)
MCNameOf == (p1 :> n1) @@ (p2 :> n2)
Symmetry == Permutations(Installers)
=============================================================================
