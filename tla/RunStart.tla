------------------------------ MODULE RunStart ------------------------------
(***************************************************************************)
(* The explicit start of a prepared Run (delivery/coordinator.py).  The    *)
(* CLI and the Runtime Service call run() with an idempotency key; any     *)
(* number of processes may call it, with the same or other keys, crash and *)
(* call again.  The claim lives in the control database of the project,    *)
(* the Run in a database of its own.                                       *)
(*                                                                         *)
(* The Run is reduced to what its coordinator sees of GraphRuntime: it is  *)
(* executed, may be paused, resumed, interrupted, cancelled or recovered   *)
(* by others, and ends.                                                    *)
(* The fingerprint of a start is its Run (graph and Contract are frozen).  *)
(***************************************************************************)
EXTENDS Naturals, FiniteSets

CONSTANTS
  Runs,         (* planned Runs                                            *)
  Keys,         (* idempotency keys                                        *)
  Callers,      (* processes that call run()                               *)
  Actions,      (* what others may ask of a Run by control()               *)
  MaxFaults,    (* bound: crashes and failed operations                    *)
  MaxControls,  (* bound: controls of each Run                             *)
  None

Answers == {"result", "uncertain", "refused", "failed"}
Planned == {"prepared", "start_claimed", "started"}
RunStatuses == {"running", "pause_requested", "quiescing", "paused", "ended"}
States == {"executing", "completed"}
Steps == {"idle", "claim", "copy", "create", "execute", "report", "complete"}

ASSUME StartAssumption ==
  /\ Actions \subseteq {"pause", "resume", "interrupt", "cancel", "recover"}
  /\ MaxFaults \in Nat /\ MaxControls \in Nat
  /\ None \notin Runs \cup RunStatuses \cup Answers \cup States

VARIABLES
  planned,   (* planned_runs.status                                        *)
  claimRun,  (* run_start_requests: the run_id of each key                 *)
  claim,     (* ... and its state                                          *)
  run,       (* runs.status in the database of the Run, None before        *)
  reported,  (* the Runs with a delivery report                            *)
  pc, calledRun, calledKey, answer,   (* the calls of run()                *)
  starts,    (* history: how often runtime.run was entered for each Run    *)
  faults,
  controls   (* how often others have acted on each Run                    *)

control == <<planned, claimRun, claim>>
calls == <<pc, calledRun, calledKey, answer>>
bounds == <<faults, controls>>
vars == <<control, run, reported, calls, starts, bounds>>

TypeOK ==
  /\ planned \in [Runs -> Planned]
  /\ claimRun \in [Keys -> Runs \cup {None}]
  /\ claim \in [Keys -> States \cup {None}]
  /\ run \in [Runs -> RunStatuses \cup {None}]
  /\ reported \subseteq Runs
  /\ pc \in [Callers -> Steps]
  /\ calledRun \in [Callers -> Runs] /\ calledKey \in [Callers -> Keys]
  /\ answer \in [Callers -> Answers \cup {None}]
  /\ starts \in [Runs -> Nat]
  /\ faults \in 0..MaxFaults /\ controls \in [Runs -> 0..MaxControls]

Init ==
  /\ planned = [r \in Runs |-> "prepared"]
  /\ claimRun = [k \in Keys |-> None] /\ claim = [k \in Keys |-> None]
  /\ run = [r \in Runs |-> None]
  /\ reported = {}
  /\ pc = [c \in Callers |-> "idle"]
  /\ calledRun \in [Callers -> Runs] /\ calledKey \in [Callers -> Keys]
  /\ answer = [c \in Callers |-> None]
  /\ starts = [r \in Runs |-> 0]
  /\ faults = 0 /\ controls = [r \in Runs |-> 0]

----------------------------------------------------------------------------
Goto(c, step) ==
  /\ pc' = [pc EXCEPT ![c] = step]
  /\ UNCHANGED <<calledRun, calledKey, answer>>

Answer(c, what) ==
  /\ pc' = [pc EXCEPT ![c] = "idle"]
  /\ answer' = [answer EXCEPT ![c] = what]
  /\ UNCHANGED <<calledRun, calledKey>>

(* run() is called and the frozen inputs are verified.                     *)
Call(c, r, k) ==
  /\ pc[c] = "idle"
  /\ pc' = [pc EXCEPT ![c] = "claim"]
  /\ calledRun' = [calledRun EXCEPT ![c] = r]
  /\ calledKey' = [calledKey EXCEPT ![c] = k]
  /\ answer' = [answer EXCEPT ![c] = None]
  /\ UNCHANGED <<control, run, reported, starts, bounds>>

(* What _claim raises, or None.                                            *)
Refusal(r, k) ==
  CASE claimRun[k] \notin {None, r}        -> "refused"
    [] claimRun[k] = r                     -> "uncertain"
    [] planned[r] = "start_claimed"        -> "uncertain"
    [] planned[r] = "started"              -> "refused"
    [] OTHER                               -> None

(* One transaction of the control database.                                *)
Claim(c) ==
  LET r == calledRun[c]
      k == calledKey[c]
  IN /\ pc[c] = "claim"
     /\ \/ /\ claimRun[k] = r /\ claim[k] = "completed"
           /\ Answer(c, "result")
           /\ UNCHANGED control
        \/ /\ ~(claimRun[k] = r /\ claim[k] = "completed")
           /\ Refusal(r, k) # None
           /\ Answer(c, Refusal(r, k))
           /\ UNCHANGED control
        \/ /\ ~(claimRun[k] = r /\ claim[k] = "completed")
           /\ Refusal(r, k) = None
           /\ claimRun' = [claimRun EXCEPT ![k] = r]
           /\ claim' = [claim EXCEPT ![k] = "executing"]
           /\ planned' = [planned EXCEPT ![r] = "start_claimed"]
           /\ Goto(c, "copy")
     /\ UNCHANGED <<run, reported, starts, bounds>>

(* The Contract and its lock are inserted into the database of the Run     *)
(* unless they are there; then the coordinator looks for the Run.          *)
CopyFrozenInputs(c) ==
  /\ pc[c] = "copy"
  /\ Goto(c, "create")
  /\ UNCHANGED <<control, run, reported, starts, bounds>>

(* create_run, or recover() of a Run that is there.                        *)
Materialize(c) ==
  LET r == calledRun[c]
  IN /\ pc[c] = "create"
     /\ run' = [run EXCEPT ![r] = IF @ = None THEN "running" ELSE @]
     /\ starts' = [starts EXCEPT ![r] = @ + 1]
     /\ Goto(c, "execute")
     /\ UNCHANGED <<control, reported, bounds>>

(* runtime.run works until the Run ends or pauses; for a status that is    *)
(* not terminal the start raises RunStartError.  A status or barrier set   *)
(* by others between the reads of the loop and the transaction that starts *)
(* the attempt makes runtime.run raise, with the Run as the others left    *)
(* it; so does the barrier of a cancel that is not finished.               *)
Execute(c) ==
  LET r == calledRun[c]
  IN /\ pc[c] = "execute"
     /\ \/ /\ run[r] \in {"running", "quiescing", "ended"}
           /\ run' = [run EXCEPT ![r] = "ended"]
           /\ Goto(c, "report")
        \/ /\ run[r] \in {"pause_requested", "paused"}
           /\ run' = [run EXCEPT ![r] = "paused"]
           /\ Answer(c, "failed")
        \/ /\ run[r] # "running"
           /\ Answer(c, "failed")
           /\ UNCHANGED run
     /\ UNCHANGED <<control, reported, starts, bounds>>

(* Mutant: the report is left to the next call.                            *)
ReportLater(c) ==
  /\ pc[c] = "report"
  /\ Goto(c, "complete")
  /\ UNCHANGED <<control, run, reported, starts, bounds>>

(* The latest delivery report, or a new one.                               *)
Report(c) ==
  /\ pc[c] = "report"
  /\ reported' = reported \cup {calledRun[c]}
  /\ Goto(c, "complete")
  /\ UNCHANGED <<control, run, starts, bounds>>

(* Mutant: the planned Run keeps its status.                               *)
CompleteClaim(c) ==
  /\ pc[c] = "complete"
  /\ claim' = [claim EXCEPT ![calledKey[c]] = "completed"]
  /\ Answer(c, "result")
  /\ UNCHANGED <<planned, claimRun, run, reported, starts, bounds>>

(* One transaction.                                                        *)
Complete(c) ==
  LET r == calledRun[c]
      k == calledKey[c]
  IN /\ pc[c] = "complete"
     /\ claim' = [claim EXCEPT ![k] = IF @ = "executing" THEN "completed" ELSE @]
     /\ planned' = [planned EXCEPT ![r] = "started"]
     /\ Answer(c, "result")
     /\ UNCHANGED <<claimRun, run, reported, starts, bounds>>

----------------------------------------------------------------------------
(* control() or cancel() of another process.  A cancel ends the Run in a   *)
(* second transaction; the recover() that precedes a control of another    *)
(* process may end it, too, when it finds an attempt under way: both are   *)
(* "recover".                                                              *)
Allowed(action, status) ==
  \/ action = "pause" /\ status = "running"
  \/ action = "resume" /\ status = "paused"
  \/ action = "interrupt" /\ status \in {"running", "pause_requested", "paused"}
  \/ action \in {"cancel", "recover"} /\ status \notin {None, "ended"}

Effect == [pause |-> "pause_requested", resume |-> "running",
           interrupt |-> "quiescing", cancel |-> "quiescing", recover |-> "ended"]

Control(r, action) ==
  /\ controls[r] < MaxControls
  /\ Allowed(action, run[r])
  /\ run' = [run EXCEPT ![r] = Effect[action]]
  /\ controls' = [controls EXCEPT ![r] = @ + 1]
  /\ UNCHANGED <<control, reported, calls, starts, faults>>

(* Mutant: a failed start gives its claim back.                            *)
ReleaseClaim ==
  /\ planned' = [r \in Runs |-> IF planned[r] = "start_claimed" THEN "prepared" ELSE planned[r]]
  /\ claim' = [k \in Keys |-> IF claim[k] = "executing" THEN None ELSE claim[k]]
  /\ claimRun' = [k \in Keys |-> IF claim[k] = "executing" THEN None ELSE claimRun[k]]

(* Whatever fails after the claim, run() raises and leaves the claim.      *)
LeaveClaim == UNCHANGED control

Fail(c) ==
  /\ faults < MaxFaults
  /\ pc[c] \notin {"idle", "claim"}
  /\ faults' = faults + 1
  /\ LeaveClaim
  /\ Answer(c, "failed")
  /\ UNCHANGED <<run, reported, starts, controls>>

Crash(c) ==
  /\ faults < MaxFaults
  /\ pc[c] # "idle"
  /\ faults' = faults + 1
  /\ pc' = [pc EXCEPT ![c] = "idle"]
  /\ UNCHANGED <<control, run, reported, calledRun, calledKey, answer, starts, controls>>

Work(c) ==
  \/ Claim(c) \/ CopyFrozenInputs(c) \/ Materialize(c)
  \/ Execute(c) \/ Report(c) \/ Complete(c)

Next ==
  \/ \E c \in Callers, r \in Runs, k \in Keys : Call(c, r, k)
  \/ \E c \in Callers : Work(c) \/ Fail(c) \/ Crash(c)
  \/ \E r \in Runs, action \in Actions : Control(r, action)

Spec == Init /\ [][Next]_vars

(* Processes run, and somebody asks for each Run again and again, with     *)
(* every key.                                                              *)
Fairness ==
  /\ \A c \in Callers : WF_vars(Work(c))
  /\ \A r \in Runs, k \in Keys : SF_vars(\E c \in Callers : Call(c, r, k))

FairSpec == Spec /\ Fairness

----------------------------------------------------------------------------
(* The effects of a Run are set off at most once, whoever calls with       *)
(* whatever key, crashes and calls again: what a lost caller may have done *)
(* is never done over.                                                     *)
StartedOnce == \A r \in Runs : starts[r] <= 1

(* A Run has at most one claim, and exists only after it.                  *)
ClaimedFirst ==
  \A r \in Runs :
    /\ \A k1, k2 \in Keys : claimRun[k1] = r /\ claimRun[k2] = r => k1 = k2
    /\ run[r] # None => \E k \in Keys : claimRun[k] = r

(* A caller that is given a result, its own or a replayed one, is told of  *)
(* a Run that has ended and has its report.                                *)
ResultsAreReal ==
  \A c \in Callers :
    answer[c] = "result" => run[calledRun[c]] = "ended" /\ calledRun[c] \in reported

(* A start that is claimed is completed, unless something fails or others  *)
(* act on the Run before it has ended.  Whoever acts on it may leave the   *)
(* claim executing for ever.                                               *)
StartsFinish ==
  \A r \in Runs :
    (planned[r] = "start_claimed" /\ run[r] = None)
    ~> (planned[r] = "started" \/ controls[r] > 0 \/ faults > 0)

(* What an at-most-once start looks like from outside.                     *)
Phase(r) ==
  IF planned[r] = "prepared" THEN "new"
  ELSE IF planned[r] = "started" THEN "done"
  ELSE IF starts[r] = 0 THEN "claimed" ELSE "begun"

Once == INSTANCE StartOnce WITH phase <- [r \in Runs |-> Phase(r)]
StartsOnce == Once!Spec
=============================================================================
