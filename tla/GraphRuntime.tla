---------------------------- MODULE GraphRuntime ----------------------------
(***************************************************************************)
(* One serial Run of the Graph Runtime (runtime/engine.py): the process    *)
(* that executes run(), the processes that execute control() and cancel()  *)
(* on the same state.db, their crashes, and the restart that calls         *)
(* recover().                                                              *)
(*                                                                         *)
(* Every `with state.transaction()` is one step (BEGIN IMMEDIATE), and so  *)
(* is every group of reads whose rows no other process writes.  Between    *)
(* two steps of a process any other process may step: this is the whole    *)
(* concurrency of the code, which keeps no lock across its transactions.   *)
(*                                                                         *)
(* Simplifications: edge conditions look at result.status only; wall clock *)
(* and cost are one fact, `expired`; max_steps is not given; nodes are     *)
(* serial (containers are not modelled here); events, checkpoints and      *)
(* telemetry rows are written in the same transactions and left out.       *)
(***************************************************************************)
EXTENDS Naturals, Sequences, FiniteSets

CONSTANTS
  Nodes,        (* node_ids of the Graph                                   *)
  Verifiers,    (* the nodes of type "verifier"                            *)
  External,     (* the verifiers with config {"external": true}            *)
  Entry,        (* graph.entry_node_id                                     *)
  Edges,        (* graph.edges in order: [from, to, on, cap], cap = 0 when *)
                (* max_iterations is None                                  *)
  MaxCalls,     (* budget.max_executor_calls                               *)
  MaxRepairs,   (* budget.max_repair_iterations                            *)
  NodeCalls,    (* node budget: max_executor_calls                         *)
  NodeRepairs,  (* node budget: max_repair_iterations                      *)
  Expirable,    (* which limits may run out of time or cost: RunLimit and  *)
  RunLimit,     (* nodes                                                   *)
  Runner,       (* the process that executes run()                         *)
  Controllers,  (* processes that execute control() or cancel()            *)
  Recovers,     (* those that recover() first, as the CLI and the gateway  *)
  Actions,      (* what they may ask for                                   *)
  MaxIntents,   (* bound: control operations in a behaviour                *)
  MaxCrashes,   (* bound: process crashes in a behaviour                   *)
  None

Results == {"succeeded", "passed", "failed", "error", "cancelled", "pending"}
Terminal == {"succeeded", "failed", "error", "interrupted", "cancelled"}
RunStatuses == Terminal \cup {"running", "pause_requested", "quiescing", "paused"}
Barriers == {None, "pause", "interrupt", "cancel"}
Reasons == {"completed", "acceptance_failed", "execution_error",
            "human_interrupted", "human_cancelled", "budget_exhausted"}
NodeStatuses == {"pending", "ready", "running", "succeeded", "failed", "error", "cancelled"}
EdgeRecords == [from : Nodes, to : Nodes, on : SUBSET Results, cap : Nat]
Verdicts == [status : Terminal, reason : Reasons]
Reports == [status : Terminal, reason : Reasons, disclosed : Nodes \cup {None}]
Procs == {Runner} \cup Controllers

ASSUME GraphAssumption ==
  /\ Entry \in Nodes
  /\ External \subseteq Verifiers
  /\ Verifiers \subseteq Nodes
  /\ Edges \in Seq(EdgeRecords)
  /\ \A i \in DOMAIN Edges : Edges[i].from # Edges[i].to
ASSUME BudgetAssumption ==
  /\ MaxCalls \in Nat /\ MaxRepairs \in Nat
  /\ NodeCalls \in [Nodes -> Nat] /\ NodeRepairs \in [Nodes -> Nat]
  /\ RunLimit \notin Nodes
  /\ Expirable \subseteq Nodes \cup {RunLimit}
ASSUME ProcessAssumption ==
  /\ Runner \notin Controllers
  /\ Recovers \subseteq Controllers
  /\ Actions \subseteq {"pause", "resume", "interrupt", "cancel"}
  /\ MaxIntents \in Nat /\ MaxCrashes \in Nat
  /\ None \notin Nodes \cup Results \cup Actions
  /\ None \notin {"pause", "interrupt", "cancel"}
  /\ None \notin Reports
ASSUME EndAssumption == None \notin Terminal

VARIABLES
  status, barrier, current, reason, disclosed,    \* the row of `runs`
  node, result, resolved, attempts, nodeRepairs,  \* the rows of `nodes`
  finished,        \* per node, the rows of `attempts` with a final result
  traversals,      \* `edge_traversals`, keyed by <<from, to>>
  calls, repairs,  \* the row of `budgets`
  handle, cancelState,  \* `external_handles`: trigger_state, cancel_state
  report,          \* the row of `reports`
  expired,         \* limits whose time or cost has run out
  pc,              \* where each process is
  at, got, edge,   \* the Runner's locals: node_id, result, selected edge
  suspect, verdict, ret,  \* arguments of the finishing calls, and their return point
  op, rows,        \* a controller's action, and the handles it has read
  intents, crashes,  \* what the two bounds count
  issued           \* history: boundary calls made per node

run == <<status, barrier, current, reason, disclosed>>
nodes == <<node, result, resolved, attempts, nodeRepairs, finished>>
ledger == <<traversals, calls, repairs>>
handles == <<handle, cancelState>>
runnerLocals == <<at, got, edge>>
finishing == <<suspect, verdict, ret>>
asking == <<op, rows, intents>>
vars == <<run, nodes, ledger, handles, report, expired, pc, runnerLocals,
          finishing, asking, crashes, issued>>

-----------------------------------------------------------------------------

(* create_run: the entry node is ready, every other one pending, the       *)
(* budgets are untouched, and the process that created the Run can run it. *)
Init ==
  /\ status = "running" /\ barrier = None /\ current = Entry
  /\ reason = None /\ disclosed = None
  /\ node = [n \in Nodes |-> IF n = Entry THEN "ready" ELSE "pending"]
  /\ result = [n \in Nodes |-> None]
  /\ resolved = [n \in Nodes |-> FALSE]
  /\ attempts = [n \in Nodes |-> 0]
  /\ nodeRepairs = [n \in Nodes |-> 0]
  /\ finished = [n \in Nodes |-> 0]
  /\ traversals = [e \in Nodes \X Nodes |-> 0]
  /\ calls = 0 /\ repairs = 0
  /\ handle = [n \in Nodes |-> "none"]
  /\ cancelState = [n \in Nodes |-> "none"]
  /\ report = None
  /\ expired = {}
  /\ pc = [p \in Procs |-> "idle"]
  /\ at = None /\ got = None /\ edge = 0
  /\ suspect = [p \in Procs |-> None]
  /\ verdict = [p \in Procs |-> None]
  /\ ret = [p \in Procs |-> "idle"]
  /\ op = [c \in Controllers |-> None]
  /\ rows = [c \in Controllers |-> {}]
  /\ intents = 0 /\ crashes = 0
  /\ issued = [n \in Nodes |-> 0]

Goto(p, label) == pc' = [pc EXCEPT ![p] = label]

(* Call _finish with these arguments and go on at `back` when it returns.  *)
CallFinish(p, s, r, back) ==
  /\ Goto(p, "finish")
  /\ verdict' = [verdict EXCEPT ![p] = [status |-> s, reason |-> r]]
  /\ ret' = [ret EXCEPT ![p] = back]
  /\ UNCHANGED suspect

(* _node_status, for the results that are not pending. *)
NodeStatus(r) == IF r = "passed" THEN "succeeded" ELSE r

Outcomes(n) ==
  IF n \in Verifiers THEN {"passed", "failed", "error", "cancelled", "pending"}
                     ELSE {"succeeded", "failed", "error", "cancelled"}

-----------------------------------------------------------------------------
(* The scheduler loop, _run.                                               *)

\* Mutant of PauseRequested: the status is not asked once the barrier is there.
PauseMissed == status = "pause_requested" /\ barrier # "pause"

(* run() is called by the process that holds the Graph in memory.          *)
CallRun ==
  /\ pc[Runner] \in {"idle", "raised"}
  /\ status \notin Terminal
  /\ Goto(Runner, "status")
  /\ UNCHANGED <<run, nodes, ledger, handles, report, expired, runnerLocals,
                 finishing, asking, crashes, issued>>

PauseRequested == status = "pause_requested"

(* The loop reads runs.status: it returns on a terminal or paused Run, and *)
(* pauses one that was asked to.                                           *)
ReadStatus ==
  /\ pc[Runner] = "status"
  /\ \/ /\ status \in Terminal \cup {"paused"}
        /\ Goto(Runner, "idle")
        /\ UNCHANGED ret
     \/ /\ PauseRequested
        /\ Goto(Runner, "safepoint")
        /\ ret' = [ret EXCEPT ![Runner] = "idle"]
     \/ /\ ~PauseRequested /\ status \notin Terminal \cup {"paused"}
        /\ Goto(Runner, "schedule")
        /\ UNCHANGED ret
  /\ UNCHANGED <<run, nodes, ledger, handles, report, expired, runnerLocals,
                 suspect, verdict, asking, crashes, issued>>

(* _next_node_row: a running node before a ready one.                      *)
Scheduled ==
  LET running == {n \in Nodes : node[n] = "running"}
  IN  IF running # {} THEN running ELSE {n \in Nodes : node[n] = "ready"}

(* _unresolved_result_row *)
Unresolved == {n \in Nodes : result[n] # None /\ ~resolved[n]}

(* What the loop works on next; None stands for the RuntimeInvariantError. *)
NextNode ==
  IF Scheduled # {} THEN Scheduled
  ELSE IF Unresolved # {} THEN Unresolved ELSE {None}

\* Mutant of LimitReached: the loop forgets the Run's duration and cost.
LimitForgotten == FALSE

(* _budget_limit_reached for the Run.                                      *)
LimitReached == RunLimit \in expired

(* The rest of the loop's reads.  The barrier is read once, the clock can  *)
(* only advance, and no other process writes `nodes`, so that nothing is   *)
(* lost by reading the three in one step.                                  *)
Schedule ==
  /\ pc[Runner] = "schedule"
  /\ \/ /\ barrier = "interrupt"
        /\ CallFinish(Runner, "interrupted", "human_interrupted", "idle")
        /\ UNCHANGED at
     \/ /\ barrier # "interrupt"
        /\ LimitReached
        /\ CallFinish(Runner, "failed", "budget_exhausted", "idle")
        /\ UNCHANGED at
     \/ /\ barrier # "interrupt"
        /\ ~LimitReached
        /\ UNCHANGED finishing
        /\ \E n \in NextNode :
             /\ at' = n
             /\ Goto(Runner, CASE n = None -> "raised"
                               [] n \in Nodes /\ n \notin Scheduled -> "route"
                               [] n \in Scheduled ->
                                    IF node[n] = "running" THEN "poll" ELSE "start")
  /\ UNCHANGED <<run, nodes, ledger, handles, report, expired, got, edge,
                 asking, crashes, issued>>

\* Mutants of the operators of _start_attempt: no barrier check, and an
\* off-by-one.
StartUnchecked == calls < MaxCalls /\ node[at] # "ready"
StartOneMore == calls > MaxCalls \/ attempts[at] >= NodeCalls[at] \/ at \in expired

\* Mutant of TriggerIntent: the row of the intent passes for a handle.
IntentIsHandle ==
  IF at \in External THEN [handle EXCEPT ![at] = "checkpointed"] ELSE handle

StartForbidden ==
  \/ status # "running" \/ barrier # None
  \/ calls < MaxCalls /\ node[at] # "ready"

StartExhausted ==
  \/ calls >= MaxCalls
  \/ attempts[at] >= NodeCalls[at]
  \/ at \in expired

(* What the reservation writes to `budgets` and `external_handles`: one    *)
(* more call; a trigger intent, without a handle, for an external verifier.*)
Charged == calls + 1

TriggerIntent ==
  IF at \in External THEN [handle EXCEPT ![at] = "triggering"] ELSE handle

(* _start_attempt: one transaction that checks the barrier, reserves the   *)
(* call and records the running attempt and, for an external verifier, the *)
(* trigger intent.                                                         *)
StartAttempt ==
  /\ pc[Runner] = "start"
  /\ \/ /\ StartForbidden
        /\ Goto(Runner, "raised")
        /\ UNCHANGED <<nodes, calls, handle, finishing>>
     \/ /\ ~StartForbidden
        /\ StartExhausted
        /\ CallFinish(Runner, "failed", "budget_exhausted", "idle")
        /\ UNCHANGED <<nodes, calls, handle>>
     \/ /\ ~StartForbidden
        /\ ~StartExhausted
        /\ node' = [node EXCEPT ![at] = "running"]
        /\ attempts' = [attempts EXCEPT ![at] = @ + 1]
        /\ result' = [result EXCEPT ![at] = None]
        /\ resolved' = [resolved EXCEPT ![at] = FALSE]
        /\ calls' = Charged
        /\ handle' = TriggerIntent
        /\ Goto(Runner, "invoke")
        /\ UNCHANGED <<nodeRepairs, finished, finishing>>
  /\ UNCHANGED <<run, traversals, repairs, cancelState, report, expired,
                 runnerLocals, asking, crashes, issued>>

(* _invoke: the Executor or the Verifier is called; an exception at the    *)
(* boundary becomes an "error" result.                                     *)
Invoke ==
  /\ pc[Runner] = "invoke"
  /\ issued' = [issued EXCEPT ![at] = @ + 1]
  /\ \E r \in Outcomes(at) : got' = r
  /\ ret' = [ret EXCEPT ![Runner] = "started"]
  /\ Goto(Runner, "persist")
  /\ UNCHANGED <<run, nodes, ledger, handles, report, expired, at, edge,
                 suspect, verdict, asking, crashes>>

(* _persist_result: the handle of a pending external verifier, or the final *)
(* result of the node and of its attempt.  The Run's status is not looked   *)
(* at: a result that arrives late is stored all the same.                   *)
PersistResult ==
  /\ pc[Runner] = "persist"
  /\ got' = None
  /\ \/ /\ got = "pending"
        /\ handle' = IF at \in External
                       THEN [handle EXCEPT ![at] = "checkpointed"]
                       ELSE handle
        /\ Goto(Runner, "status")
        /\ UNCHANGED nodes
     \/ /\ got # "pending"
        /\ node' = [node EXCEPT ![at] = NodeStatus(got)]
        /\ result' = [result EXCEPT ![at] = got]
        /\ resolved' = [resolved EXCEPT ![at] = FALSE]
        /\ finished' = [finished EXCEPT ![at] = @ + 1]
        /\ Goto(Runner, "honor")
        /\ UNCHANGED <<attempts, nodeRepairs, handle>>
  /\ UNCHANGED <<run, ledger, cancelState, report, expired, at, edge,
                 finishing, asking, crashes, issued>>

(* _continue_external: the handle is polled; a running node without one    *)
(* is an uncertain effect; a failing query leaves run() with its exception.*)
Poll ==
  /\ pc[Runner] = "poll"
  /\ \/ /\ handle[at] # "checkpointed"
        /\ suspect' = [suspect EXCEPT ![Runner] = at]
        /\ ret' = [ret EXCEPT ![Runner] = "status"]
        /\ Goto(Runner, "disclose")
        /\ UNCHANGED got
     \/ /\ handle[at] = "checkpointed"
        /\ UNCHANGED suspect
        /\ \/ /\ \E r \in Outcomes(at) : got' = r
              /\ ret' = [ret EXCEPT ![Runner] = "polled"]
              /\ Goto(Runner, "persist")
           \/ /\ Goto(Runner, "raised")
              /\ UNCHANGED <<got, ret>>
  /\ UNCHANGED <<run, nodes, ledger, handles, report, expired, at, edge,
                 verdict, asking, crashes, issued>>

(* _honor_barrier_after_result, on the way to ret[Runner].                 *)
HonorBarrier ==
  /\ pc[Runner] = "honor"
  /\ \/ /\ barrier = "pause"
        /\ Goto(Runner, "safepoint")
        /\ UNCHANGED finishing
     \/ /\ barrier = "interrupt"
        /\ CallFinish(Runner, "interrupted", "human_interrupted", ret[Runner])
     \/ /\ barrier \in {None, "cancel"}
        /\ Goto(Runner, ret[Runner])
        /\ UNCHANGED finishing
  /\ UNCHANGED <<run, nodes, ledger, handles, report, expired, runnerLocals,
                 asking, crashes, issued>>

(* _pause_at_safe_point: the transaction does not ask what became of the   *)
(* Run since the pause was read.                                           *)
PauseAtSafePoint ==
  /\ pc[Runner] = "safepoint"
  /\ status' = "paused"
  /\ Goto(Runner, ret[Runner])
  /\ UNCHANGED <<barrier, current, reason, disclosed, nodes, ledger, handles, report,
                 expired, runnerLocals, finishing, asking, crashes, issued>>

(* After a result, the loop reads the status again before it routes.       *)
AfterStarted ==
  /\ pc[Runner] = "started"
  /\ \/ /\ status \in Terminal \cup {"paused"}
        /\ Goto(Runner, "idle")
        /\ UNCHANGED finishing
     \/ /\ status \notin Terminal \cup {"paused"}
        /\ LimitReached \/ at \in expired
        /\ CallFinish(Runner, "failed", "budget_exhausted", "idle")
     \/ /\ status \notin Terminal \cup {"paused"}
        /\ ~(LimitReached \/ at \in expired)
        /\ Goto(Runner, "route")
        /\ UNCHANGED finishing
  /\ UNCHANGED <<run, nodes, ledger, handles, report, expired, runnerLocals,
                 asking, crashes, issued>>

AfterPolled ==
  /\ pc[Runner] = "polled"
  /\ Goto(Runner, IF status = "running" THEN "route" ELSE "status")
  /\ UNCHANGED <<run, nodes, ledger, handles, report, expired, runnerLocals,
                 finishing, asking, crashes, issued>>

-----------------------------------------------------------------------------
(* Routing, _route_result.                                                 *)

(* The edges a result of node n may take, in the order of graph.edges.     *)
Takes(n, i) ==
  /\ Edges[i].from = n
  /\ result[n] \in Edges[i].on
  /\ \/ Edges[i].cap = 0
     \/ traversals[<<Edges[i].from, Edges[i].to>>] < Edges[i].cap

Selected(n) ==
  {i \in DOMAIN Edges : Takes(n, i) /\ \A j \in DOMAIN Edges : Takes(n, j) => i <= j}

(* A result that no edge takes ends the Run.                               *)
EndStatus(r) ==
  CASE r \in {"succeeded", "passed"} -> "succeeded"
    [] r = "failed" -> "failed"
    [] r = "cancelled" -> "cancelled"
    [] OTHER -> "error"

EndReason(r) ==
  CASE r \in {"succeeded", "passed"} -> "completed"
    [] r = "failed" -> "acceptance_failed"
    [] r = "cancelled" -> "human_cancelled"
    [] OTHER -> "execution_error"

SelectRoute ==
  /\ pc[Runner] = "route"
  /\ \/ /\ barrier # None
        /\ ret' = [ret EXCEPT ![Runner] = "status"]
        /\ Goto(Runner, "honor")
        /\ UNCHANGED <<edge, suspect, verdict>>
     \/ /\ barrier = None
        /\ \E i \in Selected(at) : edge' = i
        /\ Goto(Runner, "traverse")
        /\ UNCHANGED finishing
     \/ /\ barrier = None
        /\ Selected(at) = {}
        /\ CallFinish(Runner, EndStatus(result[at]), EndReason(result[at]), "status")
        /\ UNCHANGED edge
  /\ UNCHANGED <<run, nodes, ledger, handles, report, expired, at, got,
                 asking, crashes, issued>>

IsRepair == Edges[edge].cap # 0 /\ result[at] = "failed"

RepairExhausted ==
  /\ IsRepair
  /\ repairs >= MaxRepairs \/ nodeRepairs[at] >= NodeRepairs[at]

(* route_resolved of the source, and its reset on the target.              *)
RouteResolved(e) == [resolved EXCEPT ![at] = TRUE, ![e.to] = FALSE]

(* The routing transaction: it rechecks the barrier, and nothing else of   *)
(* the Run, before it counts the traversal and readies the target.         *)
TraverseEdge ==
  LET e == Edges[edge]
      repair == IF IsRepair THEN 1 ELSE 0
  IN
  /\ pc[Runner] = "traverse"
  /\ edge' = 0
  /\ \/ /\ barrier # None
        /\ Goto(Runner, "status")
        /\ UNCHANGED <<current, nodes, ledger, finishing>>
     \/ /\ barrier = None
        /\ RepairExhausted
        /\ CallFinish(Runner, "failed", "budget_exhausted", "status")
        /\ UNCHANGED <<current, nodes, ledger>>
     \/ /\ barrier = None
        /\ ~RepairExhausted
        /\ traversals' = [traversals EXCEPT ![<<e.from, e.to>>] = @ + 1]
        /\ repairs' = repairs + repair
        /\ nodeRepairs' = [nodeRepairs EXCEPT ![at] = @ + repair]
        /\ node' = [node EXCEPT ![e.to] = "ready"]
        /\ result' = [result EXCEPT ![e.to] = None]
        /\ resolved' = RouteResolved(e)
        /\ current' = e.to
        /\ Goto(Runner, "status")
        /\ UNCHANGED <<attempts, finished, calls, finishing>>
  /\ UNCHANGED <<status, barrier, reason, disclosed, handles, report, expired, at, got,
                 asking, crashes, issued>>

-----------------------------------------------------------------------------
(* Finishing: shared by the Runner and the controllers.                    *)

\* Mutant of AlreadyFinished: the last verdict wins.
LastVerdictWins == FALSE
(* The first transaction of _finish_uncertain_external_effect writes the   *)
(* unverified item, whatever the status of the Run.                        *)
Disclose(p) ==
  /\ pc[p] = "disclose"
  /\ disclosed' = suspect[p]
  /\ suspect' = [suspect EXCEPT ![p] = None]
  /\ verdict' = [verdict EXCEPT ![p] = [status |-> "error", reason |-> "execution_error"]]
  /\ Goto(p, "finish")
  /\ UNCHANGED <<status, barrier, current, reason, nodes, ledger, handles, report, expired,
                 runnerLocals, ret, asking, crashes, issued>>

AlreadyFinished == status \in Terminal

(* The transaction of _finish: the first verdict wins.                     *)
Finish(p) ==
  /\ pc[p] = "finish"
  /\ verdict' = [verdict EXCEPT ![p] = None]
  /\ \/ /\ AlreadyFinished
        /\ Goto(p, ret[p])
        /\ UNCHANGED <<status, barrier, reason>>
     \/ /\ ~AlreadyFinished
        /\ status' = verdict[p].status
        /\ reason' = verdict[p].reason
        /\ barrier' = None
        /\ Goto(p, "freeze")
  /\ UNCHANGED <<current, disclosed, nodes, ledger, handles, report, expired,
                 runnerLocals, suspect, ret, asking, crashes, issued>>

(* Where an exception leaves a process.                                    *)
Raised(p) == IF p = Runner THEN "raised" ELSE "idle"

(* INSERT OR IGNORE INTO reports.                                          *)
ReportRow ==
  IF report = None
    THEN [status |-> status, reason |-> reason, disclosed |-> disclosed]
    ELSE report

(* _freeze_report: read the Run, then INSERT OR IGNORE.  No terminal       *)
(* status, no report: TerminalStatus() refuses it.                         *)
FreezeReport(p) ==
  /\ pc[p] = "freeze"
  /\ \/ /\ status \in Terminal
        /\ report' = ReportRow
        /\ Goto(p, ret[p])
     \/ /\ status \notin Terminal
        /\ Goto(p, Raised(p))
        /\ UNCHANGED report
  /\ UNCHANGED <<run, nodes, ledger, handles, expired, runnerLocals,
                 finishing, asking, crashes, issued>>

-----------------------------------------------------------------------------
(* Recovery, _recover: by the restarted Runner, and by every controller    *)
(* that is a process of its own (cli.py, service/gateway.py).              *)

(* A trigger intent without a handle, or else a running node without one.  *)
Uncertain ==
  LET triggering == {n \in External : handle[n] = "triggering"}
  IN  IF triggering # {} THEN triggering
      ELSE {n \in Nodes : node[n] = "running" /\ handle[n] # "checkpointed"}

Recover(p) ==
  /\ pc[p] = "recover"
  /\ \/ /\ Uncertain # {}
        /\ \E n \in Uncertain : suspect' = [suspect EXCEPT ![p] = n]
        /\ Goto(p, "disclose")
     \/ /\ Uncertain = {}
        /\ Goto(p, ret[p])
        /\ UNCHANGED suspect
  /\ UNCHANGED <<run, nodes, ledger, handles, report, expired, runnerLocals,
                 verdict, ret, asking, crashes, issued>>

-----------------------------------------------------------------------------
(* Control: `ge pause|resume|interrupt|cancel`, or a call in the process.  *)

(* Where the requested operation starts, once the Graph is recovered.      *)
OperationOf(a) == IF a = "cancel" THEN "cancel" ELSE "control"

Ask(c, a) ==
  /\ pc[c] = "idle"
  /\ intents < MaxIntents
  /\ intents' = intents + 1
  /\ op' = [op EXCEPT ![c] = a]
  /\ ret' = [ret EXCEPT ![c] = OperationOf(a)]
  /\ Goto(c, IF c \in Recovers THEN "recover" ELSE OperationOf(a))
  /\ UNCHANGED <<run, nodes, ledger, handles, report, expired, runnerLocals,
                 suspect, verdict, rows, crashes, issued>>

\* Mutant of Allowed: an interrupt is accepted whatever the status.
AllowedAnytime(a) ==
  \/ a = "pause" /\ status = "running"
  \/ a = "resume" /\ status = "paused"
  \/ a = "interrupt"

(* The transaction of control(): a transition of the Run's status and      *)
(* barrier, or a rejection.                                                *)
Allowed(a) ==
  \/ a = "pause" /\ status = "running"
  \/ a = "resume" /\ status = "paused"
  \/ a = "interrupt" /\ status \in {"running", "pause_requested", "paused"}

Control(c) ==
  /\ pc[c] = "control"
  /\ \/ /\ Allowed(op[c])
        /\ status' = CASE op[c] = "pause" -> "pause_requested"
                       [] op[c] = "resume" -> "running"
                       [] OTHER -> "quiescing"
        /\ barrier' = IF op[c] = "resume" THEN None ELSE op[c]
        /\ Goto(c, IF op[c] = "interrupt" THEN "handles" ELSE "idle")
     \/ /\ ~Allowed(op[c])
        /\ Goto(c, "idle")
        /\ UNCHANGED <<status, barrier>>
  /\ UNCHANGED <<current, reason, disclosed, nodes, ledger, handles, report, expired,
                 runnerLocals, finishing, asking, crashes, issued>>

(* The transaction of cancel().                                            *)
CancelRun(c) ==
  /\ pc[c] = "cancel"
  /\ \/ /\ status \in Terminal
        /\ Goto(c, "idle")
        /\ UNCHANGED <<status, barrier>>
     \/ /\ status \notin Terminal
        /\ status' = "quiescing"
        /\ barrier' = "cancel"
        /\ Goto(c, "handles")
  /\ UNCHANGED <<current, reason, disclosed, nodes, ledger, handles, report, expired,
                 runnerLocals, finishing, asking, crashes, issued>>

(* _cancel_external_handles: the handles that are checkpointed now, ...    *)
ReadHandles(c) ==
  /\ pc[c] = "handles"
  /\ rows' = [rows EXCEPT ![c] = {n \in External : handle[n] = "checkpointed"}]
  /\ Goto(c, "withdraw")
  /\ UNCHANGED <<run, nodes, ledger, handles, report, expired, runnerLocals,
                 finishing, op, intents, crashes, issued>>

(* ... then one cancel call and one transaction for each of them.          *)
WithdrawHandle(c) ==
  /\ pc[c] = "withdraw"
  /\ \E n \in rows[c], outcome \in {"cancelled", "residual"} :
       /\ cancelState' = [cancelState EXCEPT ![n] = outcome]
       /\ rows' = [rows EXCEPT ![c] = @ \ {n}]
  /\ UNCHANGED <<run, nodes, ledger, handle, report, expired, pc, runnerLocals,
                 finishing, op, intents, crashes, issued>>

(* control() returns; cancel() goes on to finish the Run.                  *)
HandlesWithdrawn(c) ==
  /\ pc[c] = "withdraw"
  /\ rows[c] = {}
  /\ IF op[c] = "cancel"
       THEN CallFinish(c, "cancelled", "human_cancelled", "idle")
       ELSE Goto(c, "idle") /\ UNCHANGED finishing
  /\ UNCHANGED <<run, nodes, ledger, handles, report, expired, runnerLocals,
                 asking, crashes, issued>>

-----------------------------------------------------------------------------
(* The environment.                                                        *)

(* Time passes and cost accrues: a limit is reached.  A node's clock runs  *)
(* from its first attempt.                                                 *)
Expire(x) ==
  /\ x \in Expirable \ expired
  /\ x \in Nodes => attempts[x] > 0
  /\ expired' = expired \cup {x}
  /\ UNCHANGED <<run, nodes, ledger, handles, report, pc, runnerLocals,
                 finishing, asking, crashes, issued>>

(* A process dies and its locals with it.                                  *)
Crash(p) ==
  /\ pc[p] \notin {"down"} \cup (IF p = Runner THEN {} ELSE {"idle"})
  /\ crashes < MaxCrashes
  /\ crashes' = crashes + 1
  /\ Goto(p, IF p = Runner THEN "down" ELSE "idle")
  /\ suspect' = [suspect EXCEPT ![p] = None]
  /\ verdict' = [verdict EXCEPT ![p] = None]
  /\ IF p = Runner
       THEN at' = None /\ got' = None /\ edge' = 0 /\ UNCHANGED rows
       ELSE rows' = [rows EXCEPT ![p] = {}] /\ UNCHANGED runnerLocals
  /\ UNCHANGED <<run, nodes, ledger, handles, report, expired, ret, op, intents, issued>>

(* A new process opens the same state.db and recovers the Run.             *)
Restart ==
  /\ pc[Runner] = "down"
  /\ Goto(Runner, "recover")
  /\ ret' = [ret EXCEPT ![Runner] = "idle"]
  /\ UNCHANGED <<run, nodes, ledger, handles, report, expired, runnerLocals,
                 suspect, verdict, asking, crashes, issued>>

-----------------------------------------------------------------------------

RunLoop ==
  \/ ReadStatus \/ Schedule \/ StartAttempt \/ Invoke \/ PersistResult
  \/ Poll \/ HonorBarrier \/ PauseAtSafePoint \/ AfterStarted \/ AfterPolled
  \/ SelectRoute \/ TraverseEdge

Shared(p) == Disclose(p) \/ Finish(p) \/ FreezeReport(p) \/ Recover(p)

Operation(c) ==
  Control(c) \/ CancelRun(c) \/ ReadHandles(c) \/ WithdrawHandle(c) \/ HandlesWithdrawn(c)

Next ==
  \/ CallRun \/ RunLoop \/ Restart
  \/ \E p \in Procs : Shared(p) \/ Crash(p)
  \/ \E c \in Controllers : Operation(c) \/ \E a \in Actions : Ask(c, a)
  \/ \E x \in Expirable : Expire(x)

Spec == Init /\ [][Next]_vars

(* A process that is alive goes on, a dead Runner is restarted, somebody   *)
(* calls run() on a Run that is not over, and the clock reaches every      *)
(* limit.  Nobody has to ask for anything, and nothing has to crash.       *)
Fairness ==
  /\ WF_vars(CallRun) /\ WF_vars(RunLoop) /\ WF_vars(Restart)
  /\ \A p \in Procs : WF_vars(Shared(p))
  /\ \A c \in Controllers : WF_vars(Operation(c))
  /\ \A x \in Expirable : WF_vars(Expire(x))

FairSpec == Spec /\ Fairness

-----------------------------------------------------------------------------
(* Properties.                                                             *)

Labels ==
  {"down", "idle", "raised", "recover", "status", "schedule", "start", "invoke",
   "persist", "poll", "honor", "safepoint", "started", "polled", "route", "traverse",
   "disclose", "finish", "freeze", "control", "cancel", "handles", "withdraw"}

(* Type correctness: every row and every local holds a value the code      *)
(* could have written there.                                               *)
TypeOK ==
  /\ status \in RunStatuses /\ barrier \in Barriers /\ current \in Nodes
  /\ reason \in Reasons \cup {None} /\ disclosed \in Nodes \cup {None}
  /\ node \in [Nodes -> NodeStatuses]
  /\ result \in [Nodes -> Results \cup {None}]
  /\ resolved \in [Nodes -> BOOLEAN]
  /\ attempts \in [Nodes -> Nat] /\ nodeRepairs \in [Nodes -> Nat]
  /\ finished \in [Nodes -> Nat] /\ issued \in [Nodes -> Nat]
  /\ traversals \in [Nodes \X Nodes -> Nat]
  /\ calls \in Nat /\ repairs \in Nat
  /\ handle \in [Nodes -> {"none", "triggering", "checkpointed"}]
  /\ cancelState \in [Nodes -> {"none", "cancelled", "residual"}]
  /\ report \in Reports \cup {None}
  /\ expired \subseteq Nodes \cup {RunLimit}
  /\ pc \in [Procs -> Labels]
  /\ at \in Nodes \cup {None} /\ got \in Results \cup {None} /\ edge \in Nat
  /\ suspect \in [Procs -> Nodes \cup {None}]
  /\ verdict \in [Procs -> Verdicts \cup {None}]
  /\ ret \in [Procs -> Labels]
  /\ op \in [Controllers -> Actions \cup {None}]
  /\ rows \in [Controllers -> SUBSET External]
  /\ intents \in Nat /\ crashes \in Nat

(* The Run has exactly one point of execution: the node that is ready,     *)
(* running or waiting to be routed is runs.current_node_id, whatever       *)
(* controls, crashes and late results did.  The loop then always finds     *)
(* something to do, and the order of the node_ids never decides what.      *)
Token(n) == node[n] \in {"ready", "running"} \/ (result[n] # None /\ ~resolved[n])

OneToken == \A n \in Nodes : Token(n) <=> n = current

(* No attempt is abandoned or repeated: a node gets a new attempt only     *)
(* when the result of the one before is stored, and each attempt calls the *)
(* Executor or the Verifier at most once and has no result without a call, *)
(* across crashes, recoveries and controls.                                *)
AttemptsSettled ==
  \A n \in Nodes :
    /\ attempts[n] = finished[n] + (IF node[n] = "running" THEN 1 ELSE 0)
    /\ finished[n] <= issued[n] /\ issued[n] <= attempts[n]

(* The shared budget, the node budgets and the edges' max_iterations hold  *)
(* although each is checked from rows read in an earlier step.             *)
BudgetsHeld ==
  /\ calls <= MaxCalls /\ repairs <= MaxRepairs
  /\ \A n \in Nodes : attempts[n] <= NodeCalls[n] /\ nodeRepairs[n] <= NodeRepairs[n]
  /\ \A i \in DOMAIN Edges :
       (Edges[i].cap # 0 /\ \A j \in DOMAIN Edges :
          (Edges[j].from = Edges[i].from /\ Edges[j].to = Edges[i].to) => j = i)
       => traversals[<<Edges[i].from, Edges[i].to>>] <= Edges[i].cap

(* A persisted barrier stops the Run where it is: no attempt starts and    *)
(* no route is taken until it is lifted, also when the Runner read the     *)
(* Run before the barrier was there (ADR-006, "the Scheduler rechecks").   *)
BarrierHolds ==
  [][barrier # None => /\ attempts' = attempts
                       /\ current' = current
                       /\ traversals' = traversals]_vars

(* A terminal status is final.                                             *)
TerminalIsFinal == [][(status \in Terminal) => status' = status]_vars

(* A Run is a walk of one token through the Graph: where it is, what the   *)
(* node there does, how the Run ended and how that was reported.           *)
WalkPhase ==
  IF node[current] \in {"ready", "running"} THEN node[current] ELSE "returned"

Walk == INSTANCE GraphWalk
          WITH place <- current, phase <- WalkPhase, outcome <- result[current],
               starts <- calls, end <- IF status \in Terminal THEN status ELSE None,
               report <- IF report = None THEN None ELSE report.status

(* If nobody pauses, the Run implements GraphWalk: starts, results, routes *)
(* and ends come in the order of the Graph and from one node at a time,    *)
(* whatever the transactions of the Runner, the controllers, recoveries    *)
(* and crashes do in between; a success has a good result that no edge     *)
(* leads on from; the end is final, told by the report, and nothing is     *)
(* started after it.                                                       *)
ImplementsWalk == Walk!Spec

(* Once an interrupt is accepted the Run can only end.                     *)
InterruptIsFinal ==
  [][barrier = "interrupt" => status' \in Terminal \cup {"quiescing"}]_vars

(* The frozen FinalReport tells how the Run ended.                         *)
ReportTellsEnd ==
  report # None => report.status = status /\ report.reason = reason

(* Every Run ends: by its results, or by its budget.                       *)
RunEnds == <>(status \in Terminal)

(* A requested pause is honoured, unless the Run ends or is interrupted.   *)
PauseSettles == (status = "pause_requested") ~> (status # "pause_requested")
=============================================================================
