---------------------------- MODULE MCSegmentStore ----------------------------
(* SegmentStore on small instances, for TLC.                               *)
EXTENDS SegmentStore, TLC

DocSymmetry == Permutations(Docs)
=============================================================================
