--------------------------- MODULE MCPostingIterator ---------------------------
(* PostingIterator on small instances, for TLC.                            *)
EXTENDS PostingIterator
=============================================================================
