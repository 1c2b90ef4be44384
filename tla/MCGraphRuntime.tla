--------------------------- MODULE MCGraphRuntime ---------------------------
(***************************************************************************)
(* Instances of GraphRuntime for TLC: "impl" is implemented by an agent,   *)
(* "ci" verifies it outside, and a failed verification goes back to        *)
(* "impl" a bounded number of times, as the compiled product graphs do.    *)
(***************************************************************************)
EXTENDS GraphRuntime

CONSTANTS impl, lint, ci

RepairLoop ==
  << [from |-> impl, to |-> ci,   on |-> {"succeeded"}, cap |-> 0],
     [from |-> ci,   to |-> impl, on |-> {"failed"},    cap |-> 2] >>

(* "lint" is a verifier of this process: it runs before "ci".             *)
CheckedLoop ==
  << [from |-> impl, to |-> lint, on |-> {"succeeded"}, cap |-> 0],
     [from |-> lint, to |-> ci,   on |-> {"passed"},    cap |-> 0],
     [from |-> lint, to |-> impl, on |-> {"failed"},    cap |-> 1],
     [from |-> ci,   to |-> impl, on |-> {"failed"},    cap |-> 1] >>

(* The limits of CheckedLoop: "ci" may be called once, the others twice.   *)
OneCiCall == [n \in Nodes |-> IF n = ci THEN 1 ELSE 2]

Unlimited == [n \in Nodes |-> MaxCalls]

OneRepairPerNode == [n \in Nodes |-> 1]
=============================================================================
