--------------------------- MODULE MCRealtimeIndex ---------------------------
(* RealtimeIndexProps on a small instance, for TLC. *)
EXTENDS RealtimeIndexProps
=============================================================================
