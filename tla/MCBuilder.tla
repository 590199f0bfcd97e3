----------------------------- MODULE MCBuilder ------------------------------
(***************************************************************************)
(* An instance of Builder for TLC: all names of up to five characters.     *)
(***************************************************************************)
EXTENDS Builder

MCNames == UNION {[1 .. n -> Characters] : n \in 0 .. 5}
=============================================================================
