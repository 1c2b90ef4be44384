------------------------- MODULE MCObservedExecutor -------------------------
(* ObservedExecutor for TLC: attempts of one node, and a buffer that fills. *)
EXTENDS ObservedExecutor
=============================================================================
