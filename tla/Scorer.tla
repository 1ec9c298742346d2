-------------------------------- MODULE Scorer --------------------------------
(***************************************************************************)
(* What the scorers of one query on one segment have in common             *)
(* (query/scorer.h): cursors over the segment's local doc_ids, and the     *)
(* documents that may be hits.                                             *)
(***************************************************************************)
EXTENDS Naturals, FiniteSets

CONSTANTS
  MaxDoc,    \* local ids are 1 .. MaxDoc
  TopK       \* top_k of the search

Docs == 1 .. MaxDoc
End  == MaxDoc + 1     \* INVALID_DOC

VARIABLES
  alive,     \* the documents that are alive and pass the numeric filter
  pos,       \* scorer -> its docId()
  pc
=============================================================================
