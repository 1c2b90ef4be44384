------------------------------ MODULE StartOnce ------------------------------
(***************************************************************************)
(* What the explicit start promises (docs/adr/037): each Run goes through  *)
(* its phases once.  A start that is lost stays where it was and is never  *)
(* begun again.                                                            *)
(***************************************************************************)
CONSTANT Runs

VARIABLE phase

Init == phase = [r \in Runs |-> "new"]

Advance(r, from, to) ==
  /\ phase[r] = from
  /\ phase' = [phase EXCEPT ![r] = to]

Next ==
  \E r \in Runs :
    \/ Advance(r, "new", "claimed")
    \/ Advance(r, "claimed", "begun")
    \/ Advance(r, "begun", "done")

Spec == Init /\ [][Next]_phase
=============================================================================
