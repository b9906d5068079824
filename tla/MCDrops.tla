------------------------------- MODULE MCDrops -------------------------------
(***************************************************************************)
(* Programs of a few constructs over two variables, and their runs.        *)
(***************************************************************************)
EXTENDS Drops

CONSTANTS x, y
=============================================================================
