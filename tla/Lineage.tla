------------------------------ MODULE Lineage ------------------------------
(***************************************************************************)
(* What a decision on a finished Run promises (delivery/control.py,        *)
(* delivery/coordinator.py): its Contract has at most one successor, which *)
(* one message froze and nothing changes afterwards; a decision that names *)
(* the successor was made by that message, and a revision has its Run      *)
(* planned first; decisions are append-only; and the project's control     *)
(* database learns of the successor only after the decision is on record,  *)
(* so that nobody starts a successor that no decision accounts for.        *)
(***************************************************************************)
CONSTANTS Messages, None

VARIABLES
  successor,  (* the message that froze the next revision, or None         *)
  planned,    (* the Run of the next revision is prepared                  *)
  record,     (* of each message the action decided by it, or None         *)
  published,  (* the revision in the control database, likewise            *)
  offered     (* the prepared Run in the control database                  *)

vars == <<successor, planned, record, published, offered>>

Init ==
  /\ successor = None /\ published = None
  /\ planned = FALSE /\ offered = FALSE
  /\ record = [m \in Messages |-> None]

Freeze(m) ==
  /\ successor = None
  /\ successor' = m
  /\ UNCHANGED <<planned, record, published, offered>>

Plan ==
  /\ successor # None /\ ~planned
  /\ planned' = TRUE
  /\ UNCHANGED <<successor, record, published, offered>>

Decide(m, action) ==
  /\ record[m] = None
  /\ action # "accept" => successor = m
  /\ action = "revise" => planned
  /\ record' = [record EXCEPT ![m] = action]
  /\ UNCHANGED <<successor, planned, published, offered>>

Publish(m) ==
  /\ successor = m /\ record[m] \in {"reject", "revise"}
  /\ published' = m
  /\ offered' = (offered \/ record[m] = "revise")
  /\ UNCHANGED <<successor, planned, record>>

Next ==
  \/ Plan
  \/ \E m \in Messages :
       \/ Freeze(m)
       \/ Publish(m)
       \/ \E action \in {"accept", "reject", "revise"} : Decide(m, action)

Spec == Init /\ [][Next]_vars

=============================================================================
