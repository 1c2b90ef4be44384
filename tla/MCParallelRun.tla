--------------------------- MODULE MCParallelRun ---------------------------
(***************************************************************************)
(* Instances of ParallelRun for TLC: two or three branches that implement  *)
(* something and, in some instances, have it verified.                     *)
(***************************************************************************)
EXTENDS ParallelRun

CONSTANTS work, check, alpha, beta, gamma

TwoBranches == <<alpha, beta>>
ThreeBranches == <<alpha, beta, gamma>>

OneNode == <<>>

(* "check" verifies "work" and sends it back once.                         *)
CheckedWork ==
  << [from |-> work,  to |-> check, on |-> {"succeeded"}, cap |-> 0],
     [from |-> check, to |-> work,  on |-> {"failed"},    cap |-> 1] >>

TwoCalls == [n \in Nodes |-> 2]
OneRepair == [n \in Nodes |-> 1]
=============================================================================
