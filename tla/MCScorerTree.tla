---------------------------- MODULE MCScorerTree ----------------------------
(* Small instances of ScorerTree: two MUST clauses and
   one or two MUST_NOTs, some of them inner ORs. *)
EXTENDS ScorerTree

CONSTANTS a, b

TwoMain == {a, b}
OrsBoth == {b, 1}
OrsNot  == {1}
=============================================================================
