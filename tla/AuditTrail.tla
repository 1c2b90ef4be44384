----------------------------- MODULE AuditTrail -----------------------------
(***************************************************************************)
(* What the event store promises (docs/adr/005): every state change is     *)
(* committed with its event, and the published log is the committed        *)
(* events, in the order of their commits, each once.  Published is how     *)
(* many of them the log has; lost are those that a torn write made         *)
(* unreadable, which no fault can do to any but the newest, and to that    *)
(* only once.                                                              *)
(***************************************************************************)
EXTENDS Naturals

CONSTANTS MaxEvents, Tears

VARIABLES committed, published, lost

vars == <<committed, published, lost>>

Init == committed = 0 /\ published = 0 /\ lost = {}

Change ==
  /\ committed < MaxEvents
  /\ committed' = committed + 1
  /\ UNCHANGED <<published, lost>>

Publish ==
  /\ published < committed
  /\ published' = published + 1
  /\ UNCHANGED <<committed, lost>>

(* The newest event was written without its end, and what was written next *)
(* spoils it: a part of the next event, or that event, which is then lost  *)
(* with it.                                                                *)
Spoil ==
  /\ Tears /\ lost = {} /\ published \in 1..committed - 1
  /\ published' \in {published, published + 1}
  /\ lost' = published..published'
  /\ UNCHANGED committed

Next == Change \/ Publish \/ Spoil

Spec == Init /\ [][Next]_vars
=============================================================================
