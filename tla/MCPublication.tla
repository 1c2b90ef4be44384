--------------------------- MODULE MCPublication ---------------------------
(* Publication for TLC: two processes, and two Runs of one pair of branches. *)
EXTENDS Publication
=============================================================================
