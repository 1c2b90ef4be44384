----------------------------- MODULE ParallelRun -----------------------------
(***************************************************************************)
(* A Run whose Graph is one parallel container (runtime/parallel.py inside *)
(* the loop of runtime/engine.py): the scheduler thread admits waves of    *)
(* branches, a worker thread takes one durable step of each admitted       *)
(* branch, and processes of their own execute control() and cancel().      *)
(*                                                                         *)
(* As in GraphRuntime, every transaction and every group of reads is one   *)
(* step and any other thread or process may step between two of them.  A   *)
(* worker is named by its branch: a wave has at most one worker of each.   *)
(*                                                                         *)
(* Simplifications: all branches have the same Subgraph; edge conditions   *)
(* look at result.status only; the container has no budget of its own and  *)
(* no edges, so that its result ends the Run; reports, cancellation of     *)
(* handles and recovery by a controller are those of GraphRuntime and left *)
(* out; wall clock and cost of the Run are one fact, `expired`.            *)
(***************************************************************************)
EXTENDS Naturals, Sequences, FiniteSets

CONSTANTS
  Branches,        (* branch_ids                                           *)
  BranchOrder,     (* the branches by branch_order                         *)
  MaxConcurrency,  (* parallel.max_concurrency                             *)
  Nodes,           (* the nodes of the Subgraph                            *)
  Verifiers, External, Entry,  (* as in GraphRuntime                       *)
  Edges,           (* subgraph.edges: [from, to, on, cap], cap 0 for None  *)
  MaxCalls, MaxRepairs,        (* the shared budget                        *)
  UsedBefore,      (* calls that earlier nodes of the Graph may have made  *)
  NodeCalls, NodeRepairs,      (* the budget of each node of the Subgraph  *)
  Expires,         (* whether the Run's duration or cost may run out       *)
  Scheduler,       (* the thread that executes run()                       *)
  Controllers,     (* processes that execute control() or cancel()         *)
  Actions,         (* what they may ask for                                *)
  MaxIntents,      (* bound: control operations in a behaviour             *)
  MaxCrashes,      (* bound: crashes of the process of the scheduler       *)
  None

Results == {"succeeded", "passed", "failed", "error", "cancelled", "pending"}
Terminal == {"succeeded", "failed", "error", "interrupted", "cancelled"}
RunStatuses == Terminal \cup {"running", "pause_requested", "quiescing", "paused"}
Ended == {"succeeded", "failed", "blocked", "error", "cancelled"}
BranchStatuses == Ended \cup {"pending", "active"}
ContainerStatuses == Ended \cup {"ready", "running"}
Cells == Branches \X Nodes
Procs == {Scheduler} \cup Branches \cup Controllers

ASSUME ParallelAssumption ==
  /\ Branches # {} /\ BranchOrder \in Seq(Branches)
  /\ \A b \in Branches : \E i \in DOMAIN BranchOrder : BranchOrder[i] = b
  /\ MaxConcurrency \in Nat \ {0}
  /\ Entry \in Nodes /\ External \subseteq Verifiers /\ Verifiers \subseteq Nodes
  /\ Edges \in Seq([from : Nodes, to : Nodes, on : SUBSET Results, cap : Nat])
  /\ MaxCalls \in Nat /\ MaxRepairs \in Nat
  /\ UsedBefore \subseteq 0..MaxCalls
  /\ NodeCalls \in [Nodes -> Nat] /\ NodeRepairs \in [Nodes -> Nat]
  /\ Expires \in BOOLEAN
  /\ Scheduler \notin Branches \cup Controllers /\ Branches \cap Controllers = {}
  /\ Actions \subseteq {"pause", "resume", "interrupt", "cancel"}
  /\ MaxIntents \in Nat /\ MaxCrashes \in Nat
  /\ None \notin Nodes \cup Results \cup Ended \cup Terminal
  /\ None \notin {"pause", "interrupt", "cancel"}

VARIABLES
  status, barrier,     \* the row of `runs`
  container,           \* status of the container's row in `nodes`
  calls, repairs,      \* the row of `budgets`
  branch, current,     \* the rows of `parallel_branches`
  node, result, resolved, attempts, nodeRepairs,  \* `parallel_branch_nodes`
  finished,            \* the rows of `parallel_branch_attempts` that ended
  traversals,          \* `parallel_branch_edge_traversals`
  handle,              \* `external_handles`: trigger_state
  expired,
  pc,                  \* where each thread and process is
  first, got, back, verdict,  \* the scheduler's locals
  wave,                \* branches whose workers the scheduler waits for
  at, answer, edge,    \* the workers' locals: node, result, selected edge
  op,                  \* a controller's action
  intents, crashes,    \* what the bounds count
  issued               \* history: boundary calls made per node

run == <<status, barrier>>
budget == <<calls, repairs>>
rows == <<branch, current>>
cells == <<node, result, resolved, attempts, nodeRepairs, finished>>
schedulerLocals == <<first, got, back, verdict, wave>>
workerLocals == <<at, answer, edge>>
database == <<run, container, budget, rows, cells, traversals, handle>>
environment == <<op, intents, crashes>>
outside == <<environment, expired, issued>>
vars == <<database, pc, schedulerLocals, workerLocals, outside>>

-----------------------------------------------------------------------------

(* create_run and initialize: every branch is pending at its entry node.   *)
Init ==
  /\ status = "running" /\ barrier = None /\ container = "ready"
  /\ calls \in UsedBefore /\ repairs = 0
  /\ branch = [b \in Branches |-> "pending"]
  /\ current = [b \in Branches |-> Entry]
  /\ node = [c \in Cells |-> IF c[2] = Entry THEN "ready" ELSE "pending"]
  /\ result = [c \in Cells |-> None]
  /\ resolved = [c \in Cells |-> FALSE]
  /\ attempts = [c \in Cells |-> 0]
  /\ nodeRepairs = [c \in Cells |-> 0]
  /\ finished = [c \in Cells |-> 0]
  /\ traversals = [t \in Branches \X Nodes \X Nodes |-> 0]
  /\ handle = [c \in Cells |-> "none"]
  /\ expired = FALSE
  /\ pc = [p \in Procs |-> "idle"]
  /\ first = FALSE /\ got = None /\ back = "idle" /\ verdict = None /\ wave = {}
  /\ at = [b \in Branches |-> None]
  /\ answer = [b \in Branches |-> None]
  /\ edge = [b \in Branches |-> 0]
  /\ op = [c \in Controllers |-> None]
  /\ intents = 0 /\ crashes = 0
  /\ issued = [c \in Cells |-> 0]

Goto(p, label) == pc' = [pc EXCEPT ![p] = label]

(* The scheduler calls _finish with this status and goes on at `label`.    *)
CallFinish(s, label) ==
  /\ verdict' = s
  /\ back' = label
  /\ Goto(Scheduler, "finish")

-----------------------------------------------------------------------------
(* The scheduler thread: _run around step().                               *)

CallRun ==
  /\ pc[Scheduler] \in {"idle", "raised"}
  /\ status \notin Terminal
  /\ Goto(Scheduler, "status")
  /\ UNCHANGED <<database, schedulerLocals, workerLocals, outside>>

ReadStatus ==
  /\ pc[Scheduler] = "status"
  /\ \/ /\ status \in Terminal \cup {"paused"}
        /\ Goto(Scheduler, "idle")
        /\ UNCHANGED back
     \/ /\ status = "pause_requested"
        /\ Goto(Scheduler, "safepoint")
        /\ back' = "idle"
     \/ /\ status \in {"running", "quiescing"}
        /\ Goto(Scheduler, "schedule")
        /\ UNCHANGED back
  /\ UNCHANGED <<database, first, got, verdict, wave, workerLocals, outside>>

\* Mutant of LimitReached: the duration and cost of the Run are not looked at.
LimitForgotten == FALSE

(* _budget_limit_reached for the Run.                                      *)
LimitReached == expired

(* Barrier, budget, and then the container: it is started, stepped or, when *)
(* its result is stored, routed.                                           *)
Schedule ==
  /\ pc[Scheduler] = "schedule"
  /\ \/ /\ barrier = "interrupt"
        /\ Goto(Scheduler, "sweep")
        /\ UNCHANGED <<first, back, verdict>>
     \/ /\ barrier # "interrupt" /\ LimitReached
        /\ CallFinish("failed", "idle")
        /\ UNCHANGED first
     \/ /\ barrier # "interrupt" /\ ~LimitReached
        /\ first' = FALSE
        /\ Goto(Scheduler, CASE container = "ready" -> "start"
                             [] container = "running" -> "step"
                             [] OTHER -> "route")
        /\ UNCHANGED <<back, verdict>>
  /\ UNCHANGED <<database, got, wave, workerLocals, outside>>

(* _start_attempt for the container: it is no executor call (count_call is  *)
(* false for it), so it is started also when no call is left.              *)
StartContainer ==
  /\ pc[Scheduler] = "start"
  /\ \/ /\ status # "running" \/ barrier # None
        /\ Goto(Scheduler, "raised")
        /\ UNCHANGED <<container, first>>
     \/ /\ status = "running" /\ barrier = None
        /\ container' = "running"
        /\ first' = TRUE
        /\ Goto(Scheduler, "step")
  /\ UNCHANGED <<run, budget, rows, cells, traversals, handle, got, back, verdict, wave,
                 workerLocals, outside>>

(* step() admits nothing once there is a barrier.                          *)
Step ==
  /\ pc[Scheduler] = "step"
  /\ Goto(Scheduler, IF barrier = None THEN "admit" ELSE "status")
  /\ UNCHANGED <<database, schedulerLocals, workerLocals, outside>>

(* ORDER BY active first, then branch_order.                               *)
Precedes(i, j) ==
  LET active(k) == branch[BranchOrder[k]] = "active"
  IN  \/ active(i) /\ ~active(j)
      \/ active(i) = active(j) /\ i < j

Open == {i \in DOMAIN BranchOrder : branch[BranchOrder[i]] \notin Ended}

(* The first MaxConcurrency branches that have not ended.                  *)
Admitted ==
  {BranchOrder[i] : i \in
     {j \in Open : Cardinality({k \in Open : Precedes(k, j)}) < MaxConcurrency}}

(* A worker for each admitted branch.                                      *)
Admit ==
  /\ pc[Scheduler] = "admit"
  /\ wave' = Admitted
  /\ pc' = [p \in Procs |-> IF p = Scheduler THEN "wait"
                            ELSE IF p \in Admitted THEN "enter" ELSE pc[p]]
  /\ UNCHANGED <<database, first, got, back, verdict, workerLocals, outside>>

(* The pool is left when every worker has returned or raised.  The         *)
(* exception of a worker leaves run(), or becomes the container's result   *)
(* when step() was called by _invoke.                                      *)
JoinWave ==
  /\ pc[Scheduler] = "wait"
  /\ \A b \in wave : pc[b] \in {"idle", "raised"}
  /\ wave' = {}
  /\ IF \E b \in wave : pc[b] = "raised"
       THEN /\ got' = IF first THEN "error" ELSE None
            /\ pc' = [p \in Procs |-> IF p = Scheduler
                                        THEN IF first THEN "persist" ELSE "raised"
                                      ELSE IF p \in wave THEN "idle" ELSE pc[p]]
       ELSE /\ Goto(Scheduler, "settled")
            /\ UNCHANGED got
  /\ UNCHANGED <<database, first, back, verdict, workerLocals, outside>>

(* After a wave step() asks for the barrier again, ...                     *)
Settled ==
  /\ pc[Scheduler] = "settled"
  /\ Goto(Scheduler, IF barrier \in {"interrupt", "cancel"} THEN "sweepwave" ELSE "aggregate")
  /\ UNCHANGED <<database, schedulerLocals, workerLocals, outside>>

\* Mutant of CancelBranches: only what has begun is cancelled.
CancelBegun(statuses) ==
  branch' = [b \in Branches |-> IF branch[b] = "active" THEN "cancelled" ELSE branch[b]]

(* _cancel_branches *)
CancelBranches(statuses) ==
  branch' = [b \in Branches |-> IF branch[b] \in statuses THEN "cancelled" ELSE branch[b]]

(* ... cancels what is left and returns None, ...                          *)
SweepWave ==
  /\ pc[Scheduler] = "sweepwave"
  /\ CancelBranches({"pending", "active"})
  /\ Goto(Scheduler, "status")
  /\ UNCHANGED <<run, container, budget, current, cells, traversals, handle,
                 schedulerLocals, workerLocals, outside>>

AllEnded == \A b \in Branches : branch[b] \in Ended

(* The aggregate's precedence, ...                                         *)
Precedence == [succeeded |-> 0, cancelled |-> 1, failed |-> 2, blocked |-> 3, error |-> 4]

\* Mutant of Joined: the best branch decides.
BestOf(statuses) ==
  CHOOSE s \in statuses : \A t \in statuses : Precedence[s] <= Precedence[t]

(* ... of which the highest decides.                                       *)
Joined(statuses) ==
  CHOOSE s \in statuses : \A t \in statuses : Precedence[t] <= Precedence[s]

(* ... or joins the branches, if all of them have ended.                   *)
Aggregate ==
  /\ pc[Scheduler] = "aggregate"
  /\ IF AllEnded
       THEN /\ got' = Joined({branch[b] : b \in Branches})
            /\ Goto(Scheduler, "persist")
       ELSE /\ Goto(Scheduler, "status")
            /\ UNCHANGED got
  /\ UNCHANGED <<database, first, back, verdict, wave, workerLocals, outside>>

(* _persist_result for the container, whatever the status of the Run.      *)
PersistContainer ==
  /\ pc[Scheduler] = "persist"
  /\ container' = got
  /\ got' = None
  /\ back' = "honored"
  /\ Goto(Scheduler, "honor")
  /\ UNCHANGED <<run, budget, rows, cells, traversals, handle, first, verdict, wave,
                 workerLocals, outside>>

(* _honor_barrier_after_result *)
HonorBarrier ==
  /\ pc[Scheduler] = "honor"
  /\ \/ /\ barrier = "pause"
        /\ Goto(Scheduler, "safepoint")
        /\ UNCHANGED <<back, verdict>>
     \/ /\ barrier = "interrupt"
        /\ CallFinish("interrupted", back)
     \/ /\ barrier \in {None, "cancel"}
        /\ Goto(Scheduler, back)
        /\ UNCHANGED <<back, verdict>>
  /\ UNCHANGED <<database, first, got, wave, workerLocals, outside>>

PauseAtSafePoint ==
  /\ pc[Scheduler] = "safepoint"
  /\ status' = "paused"
  /\ Goto(Scheduler, back)
  /\ UNCHANGED <<barrier, container, budget, rows, cells, traversals, handle,
                 schedulerLocals, workerLocals, outside>>

(* What follows a result of _invoke, and what follows one of step().       *)
AfterResult ==
  /\ pc[Scheduler] = "honored"
  /\ \/ /\ first /\ status \in Terminal \cup {"paused"}
        /\ Goto(Scheduler, "idle")
        /\ UNCHANGED <<back, verdict>>
     \/ /\ first /\ status \notin Terminal \cup {"paused"} /\ LimitReached
        /\ CallFinish("failed", "idle")
     \/ /\ first /\ status \notin Terminal \cup {"paused"} /\ ~LimitReached
        /\ Goto(Scheduler, "route")
        /\ UNCHANGED <<back, verdict>>
     \/ /\ ~first
        /\ Goto(Scheduler, IF status = "running" THEN "route" ELSE "status")
        /\ UNCHANGED <<back, verdict>>
  /\ UNCHANGED <<database, first, got, wave, workerLocals, outside>>

(* _route_result: no edge leaves the container.                            *)
EndStatus(r) == IF r = "blocked" THEN "failed" ELSE r

Route ==
  /\ pc[Scheduler] = "route"
  /\ \/ /\ barrier # None
        /\ back' = "status"
        /\ Goto(Scheduler, "honor")
        /\ UNCHANGED verdict
     \/ /\ barrier = None
        /\ CallFinish(EndStatus(container), "status")
  /\ UNCHANGED <<database, first, got, wave, workerLocals, outside>>

(* The loop's cancel_incomplete, before it finishes an interrupted Run.    *)
SweepInterrupted ==
  /\ pc[Scheduler] = "sweep"
  /\ CancelBranches({"pending", "active"})
  /\ CallFinish("interrupted", "idle")
  /\ UNCHANGED <<run, container, budget, current, cells, traversals, handle, first, got,
                 wave, workerLocals, outside>>

AlreadyFinished == status \in Terminal

(* The transaction of _finish: the first verdict wins.                     *)
FinishRun(s) ==
  IF AlreadyFinished THEN UNCHANGED run
  ELSE status' = s /\ barrier' = None

Finish ==
  /\ pc[Scheduler] = "finish"
  /\ FinishRun(verdict)
  /\ verdict' = None
  /\ Goto(Scheduler, back)
  /\ UNCHANGED <<container, budget, rows, cells, traversals, handle, first, got, back,
                 wave, workerLocals, outside>>

-----------------------------------------------------------------------------
(* A worker: one durable step of its branch, _branch_step.                 *)

workerFrame == <<schedulerLocals, environment, expired>>

(* A worker returns to the pool.                                           *)
Return(b) == Goto(b, "idle")

Here(b) == <<b, at[b]>>

(* The barrier is asked for once more, then the current node is read.      *)
EnterBranch(b) ==
  /\ pc[b] = "enter"
  /\ Goto(b, IF barrier = None THEN "look" ELSE "idle")
  /\ UNCHANGED <<database, issued, workerLocals, workerFrame>>

(* What is left to do: poll a running node, route a stored result, start.  *)
LookAtNode(b) ==
  /\ pc[b] = "look"
  /\ at' = [at EXCEPT ![b] = current[b]]
  /\ LET c == <<b, current[b]>> IN
       Goto(b, CASE current[b] = None -> "idle"
                 [] current[b] # None /\ node[c] = "running" -> "poll"
                 [] OTHER -> IF result[c] # None /\ ~resolved[c] THEN "route" ELSE "start")
  /\ UNCHANGED <<database, issued, answer, edge, workerFrame>>

\* Mutants of StartForbidden and Charged: only the status is looked at; a
\* retry that costs nothing.
StatusOnly(b) == status \in Terminal

RetryIsFree(b) == IF attempts[Here(b)] = 0 THEN calls + 1 ELSE calls

StartForbidden(b) == status # "running" \/ barrier # None

StartExhausted(b) == calls >= MaxCalls \/ attempts[Here(b)] >= NodeCalls[at[b]]

Charged(b) == calls + 1

(* A node that is not ready is refused, unless the budget is refused first. *)
StartRefused(b) ==
  \/ StartForbidden(b)
  \/ calls < MaxCalls /\ node[Here(b)] # "ready"

(* _start_attempt of a branch: barrier, budget, attempt and trigger intent *)
(* in one transaction.                                                     *)
StartBranchAttempt(b) ==
  /\ pc[b] = "start"
  /\ \/ /\ StartRefused(b)
        /\ Goto(b, "raised")
        /\ UNCHANGED <<calls, branch, cells, handle, answer>>
     \/ /\ ~StartRefused(b) /\ StartExhausted(b)
        /\ answer' = [answer EXCEPT ![b] = "blocked"]
        /\ Goto(b, "block")
        /\ UNCHANGED <<calls, branch, cells, handle>>
     \/ /\ ~StartRefused(b) /\ ~StartExhausted(b)
        /\ calls' = Charged(b)
        /\ branch' = [branch EXCEPT ![b] = "active"]
        /\ node' = [node EXCEPT ![Here(b)] = "running"]
        /\ attempts' = [attempts EXCEPT ![Here(b)] = @ + 1]
        /\ result' = [result EXCEPT ![Here(b)] = None]
        /\ resolved' = [resolved EXCEPT ![Here(b)] = FALSE]
        /\ handle' = IF at[b] \in External
                       THEN [handle EXCEPT ![Here(b)] = "triggering"] ELSE handle
        /\ Goto(b, "invoke")
        /\ UNCHANGED <<nodeRepairs, finished, answer>>
  /\ UNCHANGED <<run, container, repairs, current, traversals, issued, at, edge,
                 workerFrame>>

Outcomes(n) ==
  IF n \in Verifiers THEN {"passed", "failed", "error", "cancelled", "pending"}
                     ELSE {"succeeded", "failed", "error", "cancelled"}

InvokeNode(b) ==
  /\ pc[b] = "invoke"
  /\ issued' = [issued EXCEPT ![Here(b)] = @ + 1]
  /\ \E r \in Outcomes(at[b]) : answer' = [answer EXCEPT ![b] = r]
  /\ Goto(b, "persist")
  /\ UNCHANGED <<database, at, edge, workerFrame>>

\* Mutant of Lost: a crash made the node ready again.
LostIsReady(b) == FALSE

(* A running node without a handle: its outcome is unknown.                *)
Lost(b) == handle[Here(b)] # "checkpointed"

(* _continue_external: poll, or end the branch in error, or raise.         *)
PollNode(b) ==
  /\ pc[b] = "poll"
  /\ \/ /\ Lost(b)
        /\ answer' = [answer EXCEPT ![b] = "error"]
        /\ Goto(b, "block")
     \/ /\ ~Lost(b)
        /\ \E r \in Outcomes(at[b]) : answer' = [answer EXCEPT ![b] = r]
        /\ Goto(b, "persist")
     \/ /\ ~Lost(b)
        /\ Goto(b, "raised")
        /\ UNCHANGED answer
  /\ UNCHANGED <<database, issued, at, edge, workerFrame>>

NodeStatus(r) == IF r = "passed" THEN "succeeded" ELSE r

(* _persist_result of a branch: a result for a Run that is over is dropped. *)
PersistNode(b) ==
  /\ pc[b] = "persist"
  /\ \/ /\ answer[b] = "pending"
        /\ handle' = IF at[b] \in External
                       THEN [handle EXCEPT ![Here(b)] = "checkpointed"] ELSE handle
        /\ Return(b)
        /\ UNCHANGED cells
     \/ /\ answer[b] # "pending" /\ status \in Terminal
        /\ Return(b)
        /\ UNCHANGED <<cells, handle>>
     \/ /\ answer[b] # "pending" /\ status \notin Terminal
        /\ node' = [node EXCEPT ![Here(b)] = NodeStatus(answer[b])]
        /\ result' = [result EXCEPT ![Here(b)] = answer[b]]
        /\ resolved' = [resolved EXCEPT ![Here(b)] = FALSE]
        /\ finished' = [finished EXCEPT ![Here(b)] = @ + 1]
        /\ Goto(b, "route")
        /\ UNCHANGED <<attempts, nodeRepairs, handle>>
  /\ UNCHANGED <<run, container, budget, rows, traversals, issued, workerLocals,
                 workerFrame>>

(* The edges a stored result may take, in the order of the Subgraph.       *)
Takes(b, i) ==
  /\ Edges[i].from = at[b]
  /\ result[Here(b)] \in Edges[i].on
  /\ \/ Edges[i].cap = 0
     \/ traversals[<<b, Edges[i].from, Edges[i].to>>] < Edges[i].cap

Selected(b) ==
  {i \in DOMAIN Edges : Takes(b, i) /\ \A j \in DOMAIN Edges : Takes(b, j) => i <= j}

SelectRoute(b) ==
  /\ pc[b] = "route"
  /\ \/ /\ \E i \in Selected(b) : edge' = [edge EXCEPT ![b] = i]
        /\ Goto(b, "traverse")
     \/ /\ Selected(b) = {}
        /\ Goto(b, "finish")
        /\ UNCHANGED edge
  /\ UNCHANGED <<database, issued, at, answer, workerFrame>>

IsRepair(b) == Edges[edge[b]].cap # 0 /\ result[Here(b)] = "failed"

(* Only the shared limit is looked at.                                     *)
RepairExhausted(b) == IsRepair(b) /\ repairs >= MaxRepairs

(* The routing transaction of a branch.                                    *)
TraverseEdge(b) ==
  LET e == Edges[edge[b]]
      target == <<b, e.to>>
      repair == IF IsRepair(b) THEN 1 ELSE 0
  IN
  /\ pc[b] = "traverse"
  /\ edge' = [edge EXCEPT ![b] = 0]
  /\ \/ /\ barrier # None
        /\ Return(b)
        /\ UNCHANGED <<repairs, current, cells, traversals, answer>>
     \/ /\ barrier = None /\ RepairExhausted(b)
        /\ answer' = [answer EXCEPT ![b] = "blocked"]
        /\ Goto(b, "block")
        /\ UNCHANGED <<repairs, current, cells, traversals>>
     \/ /\ barrier = None /\ ~RepairExhausted(b)
        /\ repairs' = repairs + repair
        /\ nodeRepairs' = [nodeRepairs EXCEPT ![Here(b)] = @ + repair]
        /\ traversals' = [traversals EXCEPT ![<<b, e.from, e.to>>] = @ + 1]
        /\ node' = [node EXCEPT ![target] = "ready"]
        /\ result' = [result EXCEPT ![target] = None]
        /\ resolved' = [resolved EXCEPT ![Here(b)] = TRUE, ![target] = FALSE]
        /\ current' = [current EXCEPT ![b] = e.to]
        /\ Return(b)
        /\ UNCHANGED <<attempts, finished, answer>>
  /\ UNCHANGED <<run, container, calls, branch, handle, issued, at, workerFrame>>

(* _finish_branch and _block_branch: the branch ends, whatever became of   *)
(* it or of the Run in the meantime.                                       *)
EndBranch(b, s) ==
  /\ branch' = [branch EXCEPT ![b] = s]
  /\ current' = [current EXCEPT ![b] = None]
  /\ Return(b)
  /\ UNCHANGED <<run, container, budget, cells, traversals, handle, issued, workerLocals,
                 workerFrame>>

(* _branch_status *)
BranchStatus(r) == IF r = "passed" THEN "succeeded" ELSE r

FinishBranch(b) == pc[b] = "finish" /\ EndBranch(b, BranchStatus(result[Here(b)]))

BlockBranch(b) == pc[b] = "block" /\ EndBranch(b, answer[b])

-----------------------------------------------------------------------------
(* control() and cancel(), in a process of their own.                      *)

controlFrame == <<container, budget, cells, traversals, handle, expired, issued,
                  schedulerLocals, workerLocals, crashes>>

Ask(c, a) ==
  /\ pc[c] = "idle"
  /\ intents < MaxIntents
  /\ intents' = intents + 1
  /\ op' = [op EXCEPT ![c] = a]
  /\ Goto(c, IF a = "cancel" THEN "cancel" ELSE "control")
  /\ UNCHANGED <<run, rows, controlFrame>>

Allowed(a) ==
  \/ a = "pause" /\ status = "running"
  \/ a = "resume" /\ status = "paused"
  \/ a = "interrupt" /\ status \in {"running", "pause_requested", "paused"}

(* The transaction of control().                                           *)
Control(c) ==
  /\ pc[c] = "control"
  /\ \/ /\ Allowed(op[c])
        /\ status' = CASE op[c] = "pause" -> "pause_requested"
                       [] op[c] = "resume" -> "running"
                       [] OTHER -> "quiescing"
        /\ barrier' = IF op[c] = "resume" THEN None ELSE op[c]
        /\ Goto(c, IF op[c] = "interrupt" THEN "pending" ELSE "idle")
     \/ /\ ~Allowed(op[c])
        /\ Goto(c, "idle")
        /\ UNCHANGED run
  /\ UNCHANGED <<rows, op, intents, controlFrame>>

(* An interrupt cancels the branches that are pending, ...                 *)
CancelPending(c) ==
  /\ pc[c] = "pending"
  /\ CancelBranches({"pending"})
  /\ Goto(c, "idle")
  /\ UNCHANGED <<run, current, op, intents, controlFrame>>

(* ... a cancel those that are active too, and then it ends the Run.       *)
CancelRun(c) ==
  /\ pc[c] = "cancel"
  /\ \/ /\ status \in Terminal
        /\ Goto(c, "idle")
        /\ UNCHANGED run
     \/ /\ status \notin Terminal
        /\ status' = "quiescing"
        /\ barrier' = "cancel"
        /\ Goto(c, "incomplete")
  /\ UNCHANGED <<rows, op, intents, controlFrame>>

CancelIncomplete(c) ==
  /\ pc[c] = "incomplete"
  /\ CancelBranches({"pending", "active"})
  /\ Goto(c, "cancelled")
  /\ UNCHANGED <<run, current, op, intents, controlFrame>>

FinishCancelled(c) ==
  /\ pc[c] = "cancelled"
  /\ FinishRun("cancelled")
  /\ Goto(c, "idle")
  /\ UNCHANGED <<rows, op, intents, controlFrame>>

-----------------------------------------------------------------------------
(* The environment.                                                        *)

Expire ==
  /\ Expires /\ ~expired
  /\ expired' = TRUE
  /\ UNCHANGED <<database, pc, schedulerLocals, workerLocals, environment, issued>>

(* The scheduler's process dies, and its workers with it.                  *)
Crash ==
  /\ pc[Scheduler] # "down"
  /\ crashes < MaxCrashes
  /\ crashes' = crashes + 1
  /\ pc' = [p \in Procs |-> IF p = Scheduler THEN "down"
                            ELSE IF p \in Branches THEN "idle" ELSE pc[p]]
  /\ first' = FALSE /\ got' = None /\ back' = "idle" /\ verdict' = None /\ wave' = {}
  /\ at' = [b \in Branches |-> None]
  /\ answer' = [b \in Branches |-> None]
  /\ edge' = [b \in Branches |-> 0]
  /\ UNCHANGED <<database, expired, op, intents, issued>>

(* recover(): an external trigger without a handle, also one of a branch,  *)
(* ends the Run; containers and their branches are not looked at.          *)
Restart ==
  /\ pc[Scheduler] = "down"
  /\ IF \E c \in Cells : handle[c] = "triggering"
       THEN CallFinish("error", "idle")
       ELSE Goto(Scheduler, "idle") /\ UNCHANGED <<back, verdict>>
  /\ UNCHANGED <<database, first, got, wave, workerLocals, outside>>

-----------------------------------------------------------------------------

RunLoop ==
  \/ ReadStatus \/ Schedule \/ StartContainer \/ Step \/ Admit \/ JoinWave \/ Settled
  \/ SweepWave \/ Aggregate \/ PersistContainer \/ HonorBarrier \/ PauseAtSafePoint
  \/ AfterResult \/ Route \/ SweepInterrupted \/ Finish

Worker(b) ==
  \/ EnterBranch(b) \/ LookAtNode(b) \/ StartBranchAttempt(b) \/ InvokeNode(b)
  \/ PollNode(b) \/ PersistNode(b) \/ SelectRoute(b) \/ TraverseEdge(b)
  \/ FinishBranch(b) \/ BlockBranch(b)

Operation(c) ==
  Control(c) \/ CancelPending(c) \/ CancelRun(c) \/ CancelIncomplete(c) \/ FinishCancelled(c)

Next ==
  \/ CallRun \/ RunLoop \/ Restart \/ Crash \/ Expire
  \/ \E b \in Branches : Worker(b)
  \/ \E c \in Controllers : Operation(c) \/ \E a \in Actions : Ask(c, a)

Spec == Init /\ [][Next]_vars

(* Threads that are alive go on, a dead process is restarted, somebody     *)
(* calls run() on a Run that is not over, and the clock reaches the limit. *)
Fairness ==
  /\ WF_vars(CallRun) /\ WF_vars(RunLoop) /\ WF_vars(Restart) /\ WF_vars(Expire)
  /\ \A b \in Branches : WF_vars(Worker(b))
  /\ \A c \in Controllers : WF_vars(Operation(c))

FairSpec == Spec /\ Fairness

-----------------------------------------------------------------------------
(* Properties.                                                             *)

Labels ==
  {"idle", "raised", "down", "status", "schedule", "start", "step", "admit", "wait",
   "settled", "sweepwave", "aggregate", "persist", "honor", "honored", "safepoint",
   "route", "sweep", "finish", "enter", "look", "invoke", "poll", "traverse", "block",
   "control", "pending", "cancel", "incomplete", "cancelled"}

NodeStatuses == {"pending", "ready", "running", "succeeded", "failed", "error", "cancelled"}

(* Type correctness of the rows and of the locals.                         *)
TypeOK ==
  /\ status \in RunStatuses /\ barrier \in {None, "pause", "interrupt", "cancel"}
  /\ container \in ContainerStatuses
  /\ calls \in Nat /\ repairs \in Nat
  /\ branch \in [Branches -> BranchStatuses]
  /\ current \in [Branches -> Nodes \cup {None}]
  /\ node \in [Cells -> NodeStatuses]
  /\ result \in [Cells -> Results \cup {None}]
  /\ resolved \in [Cells -> BOOLEAN]
  /\ attempts \in [Cells -> Nat] /\ nodeRepairs \in [Cells -> Nat]
  /\ finished \in [Cells -> Nat] /\ issued \in [Cells -> Nat]
  /\ traversals \in [Branches \X Nodes \X Nodes -> Nat]
  /\ handle \in [Cells -> {"none", "triggering", "checkpointed"}]
  /\ expired \in BOOLEAN
  /\ pc \in [Procs -> Labels]
  /\ first \in BOOLEAN /\ got \in Ended \cup {None}
  /\ back \in Labels /\ verdict \in Terminal \cup {None}
  /\ wave \in SUBSET Branches
  /\ at \in [Branches -> Nodes \cup {None}]
  /\ answer \in [Branches -> Results \cup {"blocked", None}]
  /\ edge \in [Branches -> Nat]
  /\ op \in [Controllers -> Actions \cup {None}]
  /\ intents \in Nat /\ crashes \in Nat

(* No attempt of a branch is lost or repeated: a node gets a new attempt   *)
(* only when the one before has its result, and each attempt makes at most *)
(* one call and has no result without one, although workers die and polls  *)
(* repeat.                                                                 *)
AttemptsSettled ==
  \A c \in Cells :
    /\ attempts[c] = finished[c] + (IF node[c] = "running" THEN 1 ELSE 0)
    /\ finished[c] <= issued[c] /\ issued[c] <= attempts[c]

(* The shared budget is never overspent, although all workers draw on it,  *)
(* and the limits of the branches hold.                                    *)
SharedBudgetHeld ==
  /\ calls <= MaxCalls /\ repairs <= MaxRepairs
  /\ \A c \in Cells : attempts[c] <= NodeCalls[c[2]]
  /\ \A b \in Branches, i \in DOMAIN Edges :
       (Edges[i].cap # 0 /\ \A j \in DOMAIN Edges :
          (Edges[j].from = Edges[i].from /\ Edges[j].to = Edges[i].to) => j = i)
       => traversals[<<b, Edges[i].from, Edges[i].to>>] <= Edges[i].cap

(* The rows that a column of counts stands for: of attempts, those of      *)
(* `parallel_branch_attempts`, which are numbered from 1.                  *)
RowsOf(count) == UNION {{c} \X (1 .. count[c]) : c \in Cells}

(* The row of `budgets` counts every attempt of every branch once, after   *)
(* the calls made before, and nothing else (the container is free); and    *)
(* every repair.                                                           *)
LedgerExact ==
  /\ \E before \in UsedBefore : calls = before + Cardinality(RowsOf(attempts))
  /\ repairs = Cardinality(RowsOf(nodeRepairs))

(* Behind a persisted barrier no branch starts an attempt or takes a route, *)
(* not even one whose worker was already admitted.                         *)
BarrierHolds ==
  [][barrier # None => attempts' = attempts /\ traversals' = traversals]_vars

(* Once the container has a result that is not an error, the branches it   *)
(* joins have all ended, with statuses that still join to that result: no  *)
(* worker and no cancellation changes a branch behind the join.            *)
JoinTellsBranches ==
  container \in Ended \ {"error"} =>
    /\ \A b \in Branches : branch[b] \in Ended /\ Precedence[branch[b]] <= Precedence[container]
    /\ \E b \in Branches : branch[b] = container

(* When an interrupted or cancelled Run is over and no control is under    *)
(* way, no branch is left that a restart would still admit.                *)
NonePending ==
  (status \in {"interrupted", "cancelled"} /\ \A c \in Controllers : pc[c] = "idle")
  => \A b \in Branches : branch[b] # "pending"

(* Every Run ends, by its branches or by its budget.                       *)
RunEnds == <>(status \in Terminal)

=============================================================================
