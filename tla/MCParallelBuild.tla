---------------------------- MODULE MCParallelBuild ----------------------------
(* ParallelBuild on small instances, for TLC.                              *)
EXTENDS ParallelBuild
=============================================================================
