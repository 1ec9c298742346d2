------------------------------- MODULE MCWand -------------------------------
(* Small instances of Wand. *)
EXTENDS Wand
=============================================================================
