------------------------------ MODULE MCScalars ------------------------------
(* Integer of three trits, Tryte of two, a word of seven bits. *)
EXTENDS Scalars

MCLongs == {40, 63}

==============================================================================
