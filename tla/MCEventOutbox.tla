--------------------------- MODULE MCEventOutbox ---------------------------
(***************************************************************************)
(* Instances of EventOutbox for TLC: the threads of one process.           *)
(***************************************************************************)
EXTENDS EventOutbox

CONSTANTS t1, t2, t3, p1

OneProcess == [f \in Flushers |-> p1]
=============================================================================
