----------------------------- MODULE GraphWalk -----------------------------
(***************************************************************************)
(* What a serial Run is (DESIGN.md, runtime/engine.py): a walk of one      *)
(* token through the Graph.  The node that holds it is started, returns an *)
(* outcome, and passes it on along an edge that accepts the outcome; the   *)
(* Run ends once, succeeds only where a good outcome has nowhere to go,    *)
(* and is reported as it ended.  After the end no node is started: what    *)
(* was under way may return, and be routed, but goes no further.           *)
(***************************************************************************)
EXTENDS Naturals, Sequences

CONSTANTS Entry, Edges, MaxCalls, None

VARIABLES
  place,    (* the node that holds the token                               *)
  phase,    (* what it is to this node: "ready", "running" or "returned"   *)
  outcome,  (* what the node returned, or None                             *)
  starts,   (* attempts started so far                                     *)
  end,      (* how the Run ended, or None                                  *)
  report    (* how it was reported to have ended, or None                  *)

vars == <<place, phase, outcome, starts, end, report>>

Good == {"succeeded", "passed"}
Outcomes == Good \cup {"failed", "error", "cancelled"}
Ends == {"succeeded", "failed", "error", "interrupted", "cancelled"}

Init ==
  /\ place = Entry /\ phase = "ready" /\ outcome = None
  /\ starts = 0 /\ end = None /\ report = None

(* Edge i may take the outcome; if it has no limit it always does.         *)
Accepts(i) == Edges[i].from = place /\ outcome \in Edges[i].on
Always(i) == Accepts(i) /\ Edges[i].cap = 0

Start ==
  /\ end = None /\ phase = "ready" /\ starts < MaxCalls
  /\ phase' = "running"
  /\ starts' = starts + 1
  /\ UNCHANGED <<place, outcome, end, report>>

Return ==
  /\ phase = "running"
  /\ phase' = "returned"
  /\ outcome' \in Outcomes
  /\ UNCHANGED <<place, starts, end, report>>

(* The first edge that accepts; an earlier one is passed over only when    *)
(* its limit is reached.                                                   *)
Move ==
  /\ phase = "returned"
  /\ \E i \in DOMAIN Edges :
       /\ Accepts(i)
       /\ \A j \in DOMAIN Edges : Always(j) => i <= j
       /\ place' = Edges[i].to
  /\ phase' = "ready" /\ outcome' = None
  /\ UNCHANGED <<starts, end, report>>

End(e) ==
  /\ end = None
  /\ e = "succeeded" =>
       /\ phase = "returned" /\ outcome \in Good
       /\ \A i \in DOMAIN Edges : ~Always(i)
  /\ end' = e
  /\ UNCHANGED <<place, phase, outcome, starts, report>>

Report ==
  /\ end # None /\ report = None
  /\ report' = end
  /\ UNCHANGED <<place, phase, outcome, starts, end>>

Next == Start \/ Return \/ Move \/ Report \/ \E e \in Ends : End(e)

Spec == Init /\ [][Next]_vars
=============================================================================
