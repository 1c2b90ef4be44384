# A TLA+ development of the Graph Engineering runtime

This directory holds the formal models of `src/src/graph_engineering`: TLA+ modules
translated from the Python source, TLC configurations that check them on small
instances, and theorems with proofs for TLAPS. `PROJECT.json` maps every definition
to the lines it stands for, lists the runs, a mutant for every property, the hazards
of the code and the theorems.

Read it with the source open. Paths below are relative to `src/graph_engineering/`
of the repository unless they begin with `docs/`.

## 1. The system

A *Contract* describes the work, a *Graph* of executor and verifier nodes does it, and
a *Run* is one execution of a frozen Graph. Nearly everything is persisted in SQLite;
processes share nothing else, and hold no lock across two transactions. What is hard in
this code comes from there: several processes and threads act on the same rows, each
from what it read a transaction ago, and any of them may die between two transactions.

| Component | State | Operations | Talks to | What is hard | What makes it correct | Model |
|---|---|---|---|---|---|---|
| serial Run, `runtime/engine.py` | `runs`, `nodes`, `attempts`, `budgets`, `edge_traversals`, `external_handles`, `reports` | `create_run`, `run`, `control`, `cancel`, `recover` | executor, verifiers, event store | controls of other processes between the scheduler's reads and writes, crashes, uncertain effects, exhausted budgets | one point of execution, attempts neither lost nor repeated, budgets hold, barriers hold, ends are final and reported | `GraphRuntime`, `GraphWalk` |
| parallel Run, `runtime/parallel.py` | `parallel_branches`, `parallel_branch_nodes`, `_attempts`, `_edge_traversals`, the shared `budgets` | `initialize`, `step`, workers, joins, cancellation | the loop of the engine | worker threads on one budget; barriers and cancellation against workers already admitted | budget shared exactly, attempts settled, joins tell the branches, nothing left pending | `ParallelRun` |
| event delivery, `runtime/events.py`, `runtime/store.py` | `event_outbox`, `events.jsonl` | insert with a state change, `flush` | every writer | crash between append and mark, torn and joined lines, several flushers | each committed event once, in order, and in the end, as long as no line is spoiled | `EventOutbox`, `AuditTrail` |
| run start, `delivery/coordinator.py` | `planned_runs`, `run_start_requests` | `run` | control database, runtime, report | retries and crashes around a start whose effects cannot be undone | a Run is begun at most once, results are real | `RunStart`, `StartOnce` |
| runtime service, `service/server.py`, `client.py`, `gateway.py` | `endpoint.json`, the backlog, `ipc_mutation_replays` | start, serve, stop; `call` | clients over TCP, gateway | timeouts, repeated requests, crashes, two services | a mutation takes effect once and is answered as it was | `Service` |
| container verifier, `verifier/container.py` | `container_executions`, slots and handles of a process | `execute`, `poll`, `cancel`, clean up | engine, container runtime | polls, cancels and timeouts of one handle; calls whose effect is unknown; crashes around a start | one container per key, verdicts are real, what exists is on record, slots conserved, pending ones settle | `ContainerVerifier` |
| delivery decisions, `delivery/control.py`; control service, `control/service.py`; conversations; contract repository; delivery reports, `delivery/report.py` | messages, proposals, Contract revisions, planned Runs, acceptance records, report revisions and their directories, the copies in the control database | accept, reject, revise; propose, confirm | CLI, service, coordinator | a decision is several transactions of two databases and a directory; confirmations apply before they are marked | one successor per Contract, each decision that was answered is on record, published and reported | `Decisions`, `Lineage` |
| pull requests, `delivery/github.py` | `pull_request_intents`, `pull_request_handles` | `ensure`, `update` | GitHub | answers that are lost or fail, others who open and close, the barrier | one pull request created per Run, lost ones found, handles stay | `Publication` |
| verifier lifecycle, `verifier/lifecycle.py` | `verifier_revisions`, `contract_verifier_bindings` | stage, record evidence, freeze, `verify_frozen` | CLI, verifiers | files edited between hashing, staging and use; two commands at once | frozen for one Contract revision, what is staged stays | `VerifierLifecycle` |
| HTTP pipeline verifier, `verifier/http_pipeline.py`, `runtime.py` | handles, deadlines of a process | trigger, poll, cancel | CI, engine, lifecycle | lost triggers, deadlines across restarts, late answers, controls of other processes at any step | verdicts are backed by the job and a frozen revision, polls settle | `Verification` |
| executor sessions, `runtime/sessions.py`; executor, `executor/runtime.py` | `executor_sessions` | `execute`, `cancel`, rotation | engine, executor provider | an attempt executed again after a crash; cancellation against completion | an answered attempt is replayed, sessions wear out | `ExecutorSessions` |
| telemetry, `observability/provider.py` | a bounded buffer | span, `force_flush`, `shutdown` | exporter | drops, partial and hanging exports, flush against spans | never in the way of what it observes; only records the exporter has answered for leave | `Telemetry`, `ObservedExecutor` |
| checks of pull requests, reviews, discovery, compiler, models, context, adapters, workspace, UI, CLI reads, MCP, qualification | rows, documents | | | | | not modelled, see section 9 |

The components compose as follows. A client asks the service (`Service`), which makes a
mutation one effect. One such mutation is the explicit start of a Run (`RunStart`): the
coordinator claims it and calls `runtime.run`. That is the scheduler of `GraphRuntime`,
which hands a container node to the branches of `ParallelRun`, asks an executor
(`ObservedExecutor`, which is `ExecutorSessions` under `Telemetry`) and verifiers, two kinds
of which are `ContainerVerifier` and `Verification`, the latter on the revisions of
`VerifierLifecycle`. Every transaction of all of them ends in a flush of the outbox
(`EventOutbox`). A Run that has ended is published (`Publication`) and decided on
(`Decisions`); a revision makes a Contract whose Run is started in turn. Each module keeps
the part below it as the nondeterministic step it looks like from above: `Service` sees a
dispatch that takes effect or not, `RunStart` sees a Run that works, pauses and ends,
`GraphRuntime` sees an executor that returns any result and a verifier that may stay
pending, `ContainerVerifier` and `Verification` a Runtime that calls, polls and cancels.

## 2. How the code becomes steps

* One `with state.transaction()` (`BEGIN IMMEDIATE`) is one step, and so is each group of
  reads no other process can invalidate. Between two steps of a process every other may
  step. This is the granularity at which the code can be interleaved: SQLite serialises
  transactions, and the code keeps no lock around them except `_flush_lock` and the lock
  of the telemetry buffer.
* Every process has a program counter (`pc`), the locals that survive from one step to the
  next, and the return point of the finishing calls it shares with others.
* A crash drops the locals and the program counter, and keeps the database.
* Data is what guards can tell apart: a result is its status, an edge its endpoints, the
  statuses it accepts and its `max_iterations`, an event its rowid, a mutation a value, a
  message its id and the action its text names, a pull request its number, the files of a
  verifier their digest, a telemetry record whether the exporter has answered for it. Clock
  and cost are one fact (`expired`, `clock`), since the code only compares them with a limit.

## 3. The modules

**GraphRuntime** (`runtime/engine.py`). `status`, `barrier`, `current`, `reason` and
`disclosed` are the row of `runs`; `node`, `result`, `resolved`, `attempts`, `nodeRepairs`
those of `nodes`; `finished` counts the ended rows of `attempts`; `calls`, `repairs`,
`traversals`, `handle`, `cancelState`, `report` are the other tables; `issued` is a history
variable that counts boundary calls. The runner's actions are the pieces of `_run` between
its transactions: `ReadStatus`, `Schedule`, `StartAttempt` (`_start_attempt`), `Invoke`,
`PersistResult`, `Poll` (`_continue_external`), `HonorBarrier`, `PauseAtSafePoint`,
`SelectRoute` and `TraverseEdge` (`_route_result`). `Disclose`, `Finish`, `FreezeReport` and
`Recover` are taken by whoever finishes or recovers the Run. A controller's `Ask` is
followed by `Control` or `CancelRun` and by `ReadHandles`, `WithdrawHandle`,
`HandlesWithdrawn` (`_cancel_external_handles`); controllers in `Recovers` call `recover()`
first, as `cli.py` and the gateway do. **GraphWalk** is the abstract specification: one token
walks through the Graph by `Start`, `Return` and `Move`, the Run ends once (`End`) and is
reported as it ended (`Report`). The refinement mapping reads the token off
`runs.current_node_id` and the row of that node.

**ParallelRun** (`runtime/parallel.py` inside the loop of the engine). The scheduler admits
a wave of at most `MaxConcurrency` branches and waits for its workers; a worker enters its
branch, looks at its node, starts an attempt against the shared budget, invokes, polls,
persists, routes, finishes or blocks its branch. `Aggregate` and `PersistContainer` join.
The sweeps and the controllers' cancellations are actions of their own, as their
transactions are.

**EventOutbox** (`runtime/events.py`, `runtime/store.py`) has the flush step by step:
`Acquire` the process's lock, `ReadFile`, `ReadRows`, then `AppendEvent` and
`MarkDelivered` for each row, `EndFlush`. A fault within an append (`Crash`, `Fail`) may leave
nothing, part of the line, or the whole JSON without its newline (`Tear`): `json.loads` takes
the last for an event, and what is appended next is joined to it (`unended`, `Readable`).
**AuditTrail** is its abstract specification: a count of committed events, a count of
published ones that follows it, and the events that one torn write may cost (`Spoil`).
`Published` and `Unreadable` are the refinement mapping.

**RunStart** (`delivery/coordinator.py`) has `Call`, `Claim` (one transaction of the
control database), `CopyFrozenInputs`, `Materialize`, `Execute`, `Report` and `Complete`,
with failures and crashes between any two and controls of the Run from outside, a recovery by
a control command included. `Execute` ends the Run, meets its pause, or raises because of
whatever was committed since the loop of the engine had read status and barrier.
**StartOnce** is its abstract specification: new, claimed, begun, done, each once.

**Service** (`service/server.py`, `service/client.py`) has the life of a service (`Boot`,
`Check` of the old descriptor, `Publish`, ..., `Close`, `Remove`, `Unlink`), one connection
after the other (`Accept`, `Claim`, `Dispatch`, `Complete`, `Reply`), and the client with its
attempts (`Call`, `Connect`, `Timeout`, `Lose`). `applied` and `told` are history variables.

**ContainerVerifier** (`verifier/container.py`). `row` is the table, `slots` and `active`
are the semaphore and `_active_handles` of each process, `box` and `present` the container
as the runtime has it. One worker per key takes the steps of `execute()` (`Call`, the
lookups `ReplayResult`, `PollInstead`, `RefuseRetrigger`, then `Admit`, `Reserve`,
`Recheck`, `Start`, `Record`, `Tell`, with `Undo`, `Forget` and `Keep` for what fails, the
checkpoint of the handle included) and of
`poll()` (`Poll`, `LookDone`, `LookOn`, `Inspect`, `Stop`, `Cleanup`, `Settle`); a controller
takes those of `cancel()` (`Cancel`, then the same). `Start`, `Inspect`, `Stop` and
`CleanupReturns` are translated from `DockerCLIAdapter`, exit codes that nobody looks at
included. `told` is what the Runtime knows, `starts` and `blurred` are history: attempts
that called `adapter.start`, and keys for which a call had an effect and said it had none, or
whose handle could not be stored.
After a crash the Runtime itself gives up (`GraphRuntime!Recover`); the model lets
`execute()` be called again all the same, because that is what its lookup is there for.

**Decisions** (`delivery/control.py`, `control/service.py`, `delivery/report.py`,
`contracts/repository.py`, `conversation/repository.py`, `cli.py`, `service/gateway.py`).
One Run that has ended is decided on by processes of the CLI, each with an id of its own,
and by the thread of the service, whose clients choose the id. A call is the sequence of
its transactions: `Receive` and `Pend` of a proposal, `Look` of a confirmation, then
`Lookup` (`_by_message`), `Converse` and `Create` the conversation, `Append` the message,
`Delta` (`apply_delta`), `Plan`, `RecordDecision`, `Copy` to the control database, `Facts`,
`CompileReport` (`_compile`), and `Settle` of the confirmation. `CallFails` may take a call
at any step, and leaves the directory of a report behind if it takes it there. A command
that was given `--state-db` returns when its decision is on record (`ReturnDirect`). `told`
and `confirmed` are history. **Lineage** is the abstract specification: a Contract has one
successor, frozen by one message; a decision names the successor its message froze, a
revision has its Run planned first, and publication comes after the decision.

**Publication** (`delivery/github.py`). `intent` and `handle` are the two tables, `open` and
`author` the host. `Ensure` is `LookHandle`, `LookBarrier`, `WriteIntent`, `Discover`,
`LookAgain`, `Post`, and then `Keep` (`_checkpoint`) or `Settle` of an intent that failed;
`Update` is `LookOwn`, `LookPermit`, `Patch`. `DiscoverFails` and `PostFails` are answers that
do not come, or are errors although the host has acted. `Opened` and `Closed` are what
others do at the host, `Turn` what they do to the barrier. `seen` and `warned` are history.

**VerifierLifecycle** (`verifier/lifecycle.py`, the `ge verifier` commands). `disk` is what
is in the files; `Hash` and `Stage` are apart, because `stage()` hashes before its
transaction, and `Validate` follows in another; `Record` takes evidence, `Freeze` binds a
revision to a Contract revision, `Edit` changes the files. **Verification**
(`verifier/http_pipeline.py`, `verifier/runtime.py`) extends it with verifications that
`Execute` on a frozen revision, `Trigger` a job, `Query` and `Poll` it, and `Report` its
verdict. `Control` and `Cancel` are another thread or process and may come at any step: they
reach the jobs that have a checkpointed handle by then (`handles`), and what the host answers
(`answer`) need not be what becomes of the job (`JobCancelled`). The Runner goes on with what
it is at, and meets the barrier afterwards (`Stop`). Requests fail before or after the host has
heard them, the process restarts, jobs end or not, and deadlines pass.

**ExecutorSessions** (`executor/runtime.py`, `runtime/sessions.py`). `sessions` is the table
of one node. `Execute` of an attempt replays its outcome or goes on through `CheckBarrier`,
`ChooseSession` (`should_rotate`), `Invoke`, `Insert`, `RecordFailure` and `Complete`;
`Cancel` takes the latest row through `RequestCancel`, `Stop`, which may raise, and
`SettleCancel`. The
provider is external: `uses`, `losses` and `invoked` count what it was asked to do.
**Telemetry** (`observability/provider.py`) has the buffer with `Enqueue`, the spans
`EnterSpan` and `ExitSpan`, and a flush step by step: `TakeBatch`, `ExportAnswers` or
`ExportGivenUp`, `Pop`, `Close`. `ExportAnswers(n)` is the exporter saying that it accepted n,
which the flush believes. **ObservedExecutor** composes the two: an execution enters a
span when it is called and leaves it however it ends. `ExecutorSessions!SessionsSpec` is its
abstract specification: what is observed does what it does unobserved, its liveness included.

Modules named `MC...` give constants their values for TLC; modules named `...Proofs` hold
theorems.

## 4. Runs

All bounds are constants (`Max...`) and occur in guards, so that the models are finite and
the theorems hold for every value of them.

| Run | Instance | Shows |
|---|---|---|
| `GR_core` | implement, local verifier, external verifier with bounded repair edges; limits of the Run and of the nodes that bind; two controllers that ask twice for anything; one crash | `AttemptsSettled`, `BudgetsHeld`, `BarrierHolds`, `PauseSettles` |
| `GR_final` | two nodes, one CLI controller that recovers first; resume, interrupt and cancel; one crash; the Run may expire | `ReportTellsEnd`, `ImplementsWalk`, `RunEnds` |
| `PR_core` | two branches that work and verify, one repair, all controls, one crash | `AttemptsSettled`, `LedgerExact`, `JoinTellsBranches`, `BarrierHolds` |
| `PR_join` | three branches with an external verifier, two workers at a time, an interrupt, one crash, a budget that may be short and may expire | `NonePending`, `RunEnds` |
| `EO_core` | three threads of a process, three events, two crashes or failures, lines torn or without their newline | `ImplementsTrail`, `DeliveredUnlessTorn` |
| `RS_core` | two processes, two Runs, two keys, one fault, two controls or recoveries of each Run | `ResultsAreReal`, `StartsOnce`, `StartsFinish` |
| `SV_core` | two clients with one key and two mutations, two services, two attempts, one crash or failed reply | `AppliedOnce`, `SuccessIsReal`, `CallsReturn` |
| `CV_core` | two keys on one slot, one of them attempted twice; one controller in the same process; any two crashes or failing calls | `StartedOnce`, `SlotsConserved`, `ResultIsReal`, `ExistenceIsRecorded`, `PollsSettle` |
| `DE_core` | one process of the CLI and the service, three message ids, three calls, one crash or failed write; commands with and without `--state-db`; a Run with a report, with none, or with only its directory | `DecidedIsDelivered`, `ConfirmedOnce`, `ImplementsLineage`, `RecordedIsReported` |
| `PU_core` | two Runs of one pair of branches, two processes, three calls, two pull requests, two faults, one turn of the barrier | `CreatedOnce`, `LostOneIsFound`, `HandleStays` |
| `VE_core` | one `validate` at a time while others test and freeze, two revisions, two Contract revisions, two contents of the files, one edit; one verification with one retry, a control, two faults | `FrozenForOne`, `VerdictIsBacked`, `VerificationSettles` |
| `OE_core` | two attempts executed three times, one continuation, rotation after one failure, one cancellation, one fault; a buffer of two with batches of two and one flush | `SessionsWearOut`, `AnsweredIsReplayed`, `LeavesAnswered`, `TelemetryIsTransparent` |

*Why the bounds are enough.* The interesting cases are races of two: a runner and a
controller, two controllers, two workers on the last unit of a budget, two callers on a
claim, two services on a descriptor, two decisions on one Contract, two callers of one pull
request, and one crash at any point of those. The graphs have each kind of edge once:
unconditional, bounded repair, and none (the end of the Run). Two controls let one undo or
overtake the other (pause and resume, pause and cancel, interrupt and cancel). One crash
meets every program counter; a second one would have to meet what a recovery does, which is
one disclosure and one end. In `GR_core` budgets, node budgets and `max_iterations` each
bind in some behaviour, and a third node separates the reported node from both ends of a
repair edge. Three events and two faults let a second flush meet the remains of a first. In
`CV_core` two faults are a call with an unknown effect and the crash after it, and two keys
compete for the slot one of them may leave behind; a controller in another process would
only find `active` empty, which the restarted process shows. In `DE_core` three calls are a
decision that dies, its repetition and one that competes with them, or a proposal with two
confirmations. In `PU_core` two faults lose an answer and then kill the caller that
retries; the second pull request is one that others open when the first is closed, or the
duplicate that must not be. In `VE_core` a second revision competes for a Contract, and one
edit falls between any two reads of the files; two faults are a lost trigger and a restart, or
two restarts. Two `validate` at once are left to the theorems: they meet in the one transaction
of `Stage`. In `OE_core` three
executions are an attempt, its repetition after a crash, and the next attempt in the same
session; a span adds more records than the buffer holds. For the other direction, that no
larger instance behaves differently, see section 6.

`CHECK_DEADLOCK FALSE` is given where a behaviour may end: a Run ends, a client makes its
last call, all events are delivered. `RS_core` checks deadlock: somebody can always call.

## 5. Fairness

* `GraphRuntime`, `ParallelRun`: weak fairness of the runner's loop, of each worker and of
  each operation that has begun: a live thread goes on. A dead process is restarted and
  somebody calls `run()` on a Run that is not over; the code leaves that to its users, and
  without it nothing is promised. Limits that may expire do: time passes. Nobody has to
  ask for a control and nothing has to crash. `RunEnds` needs the expiry: an external
  verifier may stay pending for ever, and the budget is what ends such a Run.
* `EventOutbox`: weak fairness of each flush; strong fairness of taking the lock, since a
  lock given to waiting threads gets to each of them in the end; and a project with pending
  rows is opened again, which is what ADR-005 counts on.
* `RunStart`: weak fairness of a call that has begun; strong fairness of calling: somebody
  keeps asking for each Run. `StartsFinish` needs it only for a claim whose caller is alive, and
  promises nothing for a Run that was controlled or recovered (section 7).
* `Service`: services, clients and the client's clock run. Nobody has to start a service.
* `ContainerVerifier`: weak fairness of each worker and of its polls (`_continue_external`
  polls what is pending whenever `run()` is at work) and of the clock. A container need not
  end and nobody need cancel.
* `Decisions`: weak fairness of the steps of each call that has begun. Nobody has to call
  again: a decision whose caller was told of a failure is the caller's.
* `Verification`: weak fairness of what the engine does for each verification (execute,
  trigger, query, poll, report, stop) and of its clock. The job need not end, and nobody need
  control the Run or restore a file.
* `ObservedExecutor`: weak fairness of an execution and of a cancellation that have begun.
  Nothing is asked of the thread that flushes or of the exporter, which is the point of
  `TelemetryIsTransparent`: `SessionsSpec`, with its fairness, holds all the same.
* `Publication` has safety properties only; a host that never answers is bounded by the
  timeout of the request, which is one of its faults.

## 6. Theorems

Every theorem holds for all constants that satisfy the `ASSUME`s of its module: every
graph, all budgets, any number of processes, controls, crashes and events. The assumptions
say that constants have their types and that `None` is no value of another kind.

`GraphRuntimeProofs`. `TypeInv` is `TypeOK` with what each program counter needs of the
locals (a node to work on, a verdict to store). `OneToken` and `AttemptsSettled` are not
inductive: which node the runner works on, and how far its attempt has come, is known only
from its program counter. `ExecOK` says it, and `ExecInv` is the conjunction; the lemma
`OthersDoNotExecute` says that the other processes do not write what it speaks of. From it
follow `TypeCorrect`, `OneTokenHolds` and `AttemptsSettle`. `BudgetsAreHeld` adds that an
edge selected in one transaction is still open when it is traversed in another.
`BarriersHold` is about the two transactions that recheck the barrier. Four theorems,
`RunImplementsWalk`, `TerminalStays`, `InterruptStays` and `ReportTells`, assume `"pause"
\notin Actions`: with pauses they are false (section 7). They rest on `EndInv`: nobody is
on the way to the safe point, and a report is that of the end. `RunImplementsWalk` is the
refinement of `GraphWalk`. It needs `WalkInv`: what `SelectRoute` found out about a result,
that this edge is the first to take it or that no edge leads on from it, is still so when
`TraverseEdge` or `Finish` acts on it in another transaction (`WalkOK`), for only the
Runner touches the result of the node it works on (`OnlyTheRunnerWrites`), and only
`SelectRoute` claims a success (`NobodyElseClaims`). That some edge is selected whenever
one takes the result is the least-number principle (`FirstTaken`). Then there is one lemma
per kind of transaction (`StartWalks`, `PersistWalks`, `TraverseWalks`, `FinishWalks`,
`ReportWalks`, `ControlStutters`), and all other steps are stutters.

`ParallelRunProofs`. `TypeInv` as above, for the scheduler, the workers and the controllers.
The argument is that of a program with threads: `Stays(b)` says that nothing of branch `b`
changes, `BranchesStay` that the scheduler's other steps and the controllers leave all
branches alone, `OthersStay` that a worker leaves all others alone; then one worker is looked
at. `ExecInv` says what a worker knows of the node it is at (`KnowsNode`), that no other node
of its branch is running (`OneRuns`), that a handle belongs to a call that was made
(`HandleTells`), and gives `AttemptsSettle`. `LimitsInv` adds the limits of nodes and edges
and gives `BudgetIsHeld`. `JoinInv` says that workers live only while the scheduler waits for
their wave (`PoolOK`), and with `EndedStay` gives `JoinTells`. `SweepInv` says that once the
Run is stopped either nothing is pending (`Quiet`) or a controller is about to cancel what is
(`Sweeping`), and gives `NoneLeftPending`. `BarriersHold` needs only the two transactions.
`LedgerIsExact` says that the shared ledger counts the rows of attempts: it moves by one
exactly when one more attempt of one node of one branch begins, and never for the container
(`CallsMove`, `LedgerWorker`, `LedgerElsewhere`), likewise for repairs, and each time the rows
grow by one (`RowsGrow`).

`ObservabilityProofs` proves what `EventOutbox` and `ObservedExecutor` promise, each for its
own specification and from its own assumptions; they have no variable in common.

*Events.* `DeliveredInv` adds to the type what a thread has read at each step, and gives
`DeliveredInFile`: what is marked was written, by any number of processes, and where no write
is torn it can be read. `PrefixInv`, for one process, adds that a thread which has read the
file knows all of it, that it read no spoiled line and that only its own first append may have
gone on from the last one (`WholeFor`), and that nothing is missing before a row it is to mark.
From it, what was written is a prefix of the commits with at most one joint (`LogIsPrefix`), and
every step is a step of `AuditTrail`, of which a torn write or the append after one may be
`Spoil`, or stutters (`OutboxImplementsTrail`).

*Executions and telemetry.* `SessionsWearOut` is about what the provider has counted, and the
code decides by the counts in its own rows, which it reads in one step and writes in another.
`SessionsInv` relates the two: the newest row accounts for the uses and losses of its provider
session, but for what a fault has hidden and what has no row yet (`RowsOK`); what `execute()`
knows between its steps is what it read there (`StepOK`); sessions that were never opened were
never used (`ProviderOK`). `CancelOK` and `LengthOK` say that the row a cancellation works on
exists and that an execution inserts one at most; `AnswersOK` that an answered attempt which
no cancellation has touched still has its outcome. `TelemetryInv` bounds the buffer and says
what a flush knows of it (`FlusherOK`): its batch is still at the head, and what was accepted
of it the exporter has answered for. `ObservedInv` is both.
Proved are `ObservedTypeCorrect`, `SessionsAreWornOut`, `AnswersAreReplayed`,
`RecordsLeaveAnswered`, and `ObservedAsUnobserved`: every step is a step of the executions
without telemetry, or leaves them alone. That is the safety half of
`TelemetryIsTransparent`; its other half, that executions and cancellations still return, is
fairness and stays with TLC.

`RunStartProofs`. `StartInv` relates the claim of a key to its Run (`ClaimsOK`), a caller
past the claim to the only claim of its Run (`CallsOK`), and both to what was begun
(`RunsOK`): `StartedOnce` alone does not say that nobody else is about to begin.
`StartImplementsOnce` is the refinement of `StartOnce`, `ClaimsComeFirst` that a Run exists
only after its one claim. `RealInv` follows the result from the end of the Run through its
report to the completed claim, which gives `ResultsHold`.

`ServiceProofs`. `ServiceInv` is `TypeOK` with: calls and connections agree (`CallOK`,
`WaitOK`); a service between claim and completion owns an executing row (`HoldOK`), each
row accounts for what was applied (`RowsOK`), and what is being answered (`ReplyOK`) and was
told (`ToldOK`) is what the row says. `AppliedOnce` is not inductive, since whether a
dispatch may add an effect depends on nobody else holding that row. Proved are
`TypeCorrect`, `EffectsAreOnce`, `SuccessesAreReal`, `AnswersNeverDiffer` and
`LedgerIsForGood`, for any number of clients, services, keys and crashes.

`ContainerVerifierProofs`. `ContainerInv` is `TypeOK` with `ThreadsOK` (a thread before the
start works on its own key; afterwards on one with a handle, and the result it is about to
store is one the container bears out), `KeysOK` (a row precedes its container, no row means
no start, only a handle lets others in) and the properties, of which none is inductive
alone. `BoxSteps` says that a container which exists only ends, so that a verdict stays true
however late it is stored; `RowChanges`, `ResultStored` and `ResultTold` say who writes what;
`SlotSums` counts the slots. Proved are `TypeCorrect`, `StartsAreOnce`, `SlotsAreConserved`,
`ResultsAreReal` and `ExistenceHolds`, for any number of keys, attempts, processes,
controllers and faults.

`PublicationProofs`. `CreatedOnce` depends on who wrote the intent. `PublicationInv` says
that only the call which wrote the intent gets to create (`CallsOK`), that there is one such
call of a Run (`OneNew`), and that nothing of the Run exists while it may still create
(`NewOK`); that what the host created for a Run has an intent (`IntentOK`); and that what a
call has seen since it began is open still, and nothing was when it is past the discovery
(`SeenOK`). Proved are `TypeCorrect`,
`CreatesOnce`, `LostOnesAreFound`, `BarriersHold` and `HandlesStay`, for any number of Runs,
callers, faults and turns.

`AcceptanceProofs` proves what `Verification` and `Decisions` promise, again each for itself.

*Verdicts.* `VerificationInv` is `TypeOK` with `FrozenForOne`, and with what each phase of a
verification presumes of its revision, its job and its verdict (`PhasesOK`, `JobsOK`), and
with `JobsAreKnown`: a job that was started has a handle, is about to have one, or its
verification is an error. Nothing says that a job which was cancelled has ended. `Keeps`
says that no step takes a lifecycle back or changes the digest of a revision, so that a
revision checked once stays bound. Proved are `TypeCorrect`, `RevisionsAreFrozenForOne`,
`VerdictsAreBacked`, `JobsHaveHandles` and `StagedStays`.

*Decisions.* `DecidedIsDelivered` speaks of a call that has returned, and says nothing of
the transactions on the way. `DecisionsInv` says what a call relies on between two of them.
From `Append` to `RecordDecision` it owns its message: the message was received, is not
decided, and no other call has it (`OwnOK`, `OneDecides`), and the successor it froze is
its own. On record, a decision names its own successor, which alone may be published
(`LineageOK`). Afterwards the call depends on what others may do again but not undo
(`AfterOK`, `Grows`: records, successor, publication and reports only grow), so that a
repetition which finds the decision of a call that died may go on from there. `ProposalsOK`
says that a confirmation past its look has a proposal that is pending: the service serves
one request at a time, and with two such threads `ConfirmedOnce` would be false. One lemma
per action (`...Keeps`) shows what `StepKeeps` asks of a step; `OthersKeep` is what the
other calls keep. Proved are `DecisionsTypeCorrect`, `DecidedAreDelivered`,
`ConfirmedAtMostOnce`, the refinement `DecisionsImplementLineage` (only `Delta`, `Plan`,
`RecordDecision` and `Copy` are steps of `Lineage`, by `OnlyFourDecide`), and
`OwedAreUnderWay`, the safety half of `RecordedIsReported`: a decision that no report tells
of, and no failure either, and that was not made by a command with `--state-db`, has a call
on its way to the report. They hold for any number of processes, messages, calls and
failures.

*Only model-checked:* all liveness, and with it the fairness within `TelemetryIsTransparent`
(TLAPS has no `ENABLED` here). Every other property of the runs is a theorem.
*Only proved, in no run:* the `TypeOK` of the proved modules, `DecisionsTypeOK` and
`ObservedTypeOK`; `OneToken`, `TerminalIsFinal` and `InterruptIsFinal` of `GraphRuntime`;
`SharedBudgetHeld` of `ParallelRun`; `DeliveredIsInFile` and `AuditLogIsPrefix`;
`StartedOnce` of `RunStart`; `AnswersAgree` and `LedgerIsForGood` of `Service`; `BarrierHolds`
of `Publication`; `JobsAreKnown` and `StagedIsImmutable` of `Verification`;
`OwedIsUnderWay` of `Decisions`.

## 7. Where the code and its documents disagree

The models have the following behaviours. Each is a short trace of the module named; no run
is kept for them, and the properties that hold are stated so that they except exactly these.

* GraphRuntime. `_pause_at_safe_point` updates a Run of any status but paused: a pause the
  scheduler saw before a cancel ended the Run turns the cancelled Run into a paused one,
  and an accepted interrupt into a pause, though `DESIGN.md` says that an ended Run is
  immutable (`GR_final` has no pauses, and neither have the theorems on ends). The report
  is frozen after the transaction that ends the Run; after a crash between the two nothing
  takes the Run up again, and it has no report. A control command of the CLI recovers a Run
  that another process is executing, and ends it as uncertain. A trigger that returned its
  result without a handle leaves `triggering` behind, and a crash long after ends the Run
  as uncertain. `control()` reads the handles to cancel once; one checkpointed afterwards
  is neither cancelled nor recorded. A control committed between the read of the status and
  `_start_attempt` makes `run()` raise, and after a pause the Run stays `pause_requested`
  until somebody calls `run()` again (`PauseSettles` holds because somebody does).
  `_finish` lifts the barrier, and the routing transaction asks for nothing else: a route
  selected before another process ended the Run is still taken, and `runs.current_node_id`
  of the ended Run moves on, though nothing is started there (which is why `Move` of
  `GraphWalk` may come after `End`).
* ParallelRun. The transactions that store a result do not ask whether the Run is over, so
  that late answers change the branches of a cancelled Run (ADR-036). `_block_branch` writes
  blocked over cancelled. A pause between a worker's reads and its attempt raises in the
  worker and becomes an error of the container, with branches pending. A repair edge of a
  branch never asks the repair limit of its node, which is why `SharedBudgetHeld` bounds the
  calls of each node and the repairs of the Run.
* EventOutbox. After a crash within an append `json.loads` raises in every later flush, and
  in the constructor of `GraphRuntime` (`DeliveredUnlessTorn` excepts it). If only the newline
  is missing, the line is read as an event: its row is marked without another append, the next
  event is joined to it, neither can be read any more, and nothing is delivered afterwards
  (`Spoil` of `AuditTrail`). Two processes that
  flush the same row both append it, because `_flush_lock` is a thread lock: `EO_core` and
  the theorems on the order are about one process.
* RunStart. Any control or recovery of the Run that is committed after the loop of the engine
  has read status and barrier makes `_start_attempt` raise `RuntimeInvariantError`, which the
  coordinator raises again: the claim stays `start_claimed` for ever, every further start is
  refused, and the Run may stay `quiescing`. So it is with a Run that paused and is resumed
  (`StartsFinish` excepts a Run that was controlled).
* Service. A refusal need not mean that nothing was done: a `KeyError` or `ValueError`
  raised after the effect is answered as a refusal all the same. Exceptions that are none
  of the five kinds leave a claim executing, so that the same mutation is answered
  `uncertain_effect` even when it had no effect. Two services that start together both
  serve; what is proved of the ledger holds with any number of them. A service that stops
  may remove the descriptor of another that has just published.
* ContainerVerifier. Every attempt of an external verifier node has the idempotency key
  `run:node`, and `execute()` answers a key from its stored result: after a repair the
  verifier tells the verdict of the first attempt and runs nothing, though
  `docs/phases/phase-5.md` says that a fix reruns the affected verifiers. `docker inspect`
  failing for any reason is taken for a container that is gone, and a `create` or `start`
  that timed out for one that was never made: a container may then exist behind a row that
  ended (`blurred`, which `ExistenceIsRecorded` excepts; ADR-036 says that cleanup is never
  claimed when it is unknown). When the transaction that stores the handle fails, the row says
  `error` and the slot is released while the container runs, and nobody removes it (`blurred`
  as well). A poll and a cancel of one handle both store a result, and the
  later one stays: each is true of the container, but they differ. A row whose start was
  refused by the runtime or the mounts stays `starting` and counts against `max_concurrency`
  for ever. A restarted process has all its slots again while its containers run, and two
  processes count separately, so that `max_concurrency` is a limit of one process; the slot
  of a handle that another process finished is not given back (`SlotsConserved` counts it as
  held). A barrier committed between `Recheck` and `Start` does not stop the start; the handle
  is stored afterwards and is seen by whoever cancels then.
* Decisions. `ge accept`, `ge reject` and `ge revise` with `--state-db` record the decision
  and freeze the successor, but publish nothing to the control database and write no
  report: the next report of the Run tells of the decision, if there is one. A crash
  between `apply_delta` and the record of the decision leaves a successor that no decision
  accounts for; the id of the message was received, so that a repetition is refused, and
  any other decision on the Contract finds it no longer the latest. An acceptance that was
  confirmed may be recorded twice, under two messages, when its first report failed or its
  caller died: the proposal is pending still (`ConfirmedOnce` counts confirmations that
  returned). An id used again with another action is answered with the decision it has. A
  report may be compiled from facts read before a later decision, and be the latest all the
  same; that decision's own report follows. A directory left by a report that died makes
  every later report of the Run fail, and each decision with it, after it is on record.
  `report_revision` is kept as given, and not compared with the reports there are. The CLI
  gives each command a new message id, so that repeating it is a new decision.
* Publication. A discovery that fails before the first request leaves the intent `creating`,
  and no later call creates the pull request. Discovery goes by the branches and not by the
  Run: a Run may adopt the pull request of others, and two Runs may share one. Two callers
  that find different pull requests keep the first, and the second returns the one it found.
  A lost answer settled late writes `uncertain` over `checkpointed`; the handle is there, and
  is what later calls look at.
* Verification. A control that comes during a trigger finds no handle: the job runs on, and
  is neither cancelled nor named as a residual effect. Any status below 300 counts as
  cancelled, though the job may run on, and a request that was heard and not answered may
  have ended it. An answer that is late is stored over a Run that was stopped. Evidence is
  not tied to the hashes that were staged: files edited afterwards are tested and dry-run
  under the old hashes, and found out at the first use. A process that dies between `stage`
  and `validate` leaves a revision that no command takes further. An older revision may be
  frozen for a later Contract than a newer one. Files edited between `verify_frozen` and
  the trigger are not noticed, and files that differ keep a pending verification pending
  (`VerificationSettles` excepts it). The deadline starts again with the process. After a
  restart a handle is attributed to the only external implementation there is, and refused
  if there are several.
* ObservedExecutor. Two flushes of one provider at once would export the same batch twice,
  and pop records neither has exported: the model has one flusher, as the callers in this
  repository are. An export that was given up may still arrive, and is exported again.
  What the exporter says is believed: a success takes the whole batch off the buffer whatever
  it accepted, another answer as many records as it says, though the batch had fewer
  (`LeavesAnswered` excepts that), and the `InMemoryExporter` that fails says it accepted
  records it has not kept. An `executor.cancel` that raises leaves its row `cancel_requested`.
  A span that ends after `shutdown` stays in the buffer. A cancellation during the first
  execution of a node finds no session, and one after a completion takes the outcome off the
  record, so that the attempt is executed again (`AnsweredIsReplayed` excepts attempts that a
  cancellation has touched). Rotation overwrites the status of an earlier attempt's row.

## 8. Plan

1. *(done)* `GraphRuntime`, then its container (`ParallelRun`), its events (`EventOutbox`
   with `AuditTrail`), its start (`RunStart` with `StartOnce`), the service in front
   (`Service`) and the containers behind (`ContainerVerifier`), with their theorems.
2. *(done)* `Decisions` with `Lineage`; `Publication`; `VerifierLifecycle` and
   `Verification`; `ExecutorSessions` and `Telemetry` composed in `ObservedExecutor`; proofs
   of `ParallelRun`, `Publication` and `Verification`.
3. *(done)* Proofs of `Decisions`, with the refinement of `Lineage`, and of
   `ObservedExecutor`.
4. *(done)* `GraphWalk`, which `GraphRuntime` implements when nobody pauses.
   Still to do: a fork and join that `ParallelRun` implements; an abstract verification
   (asked, pending, settled) for `ContainerVerifier` and `Verification`.
5. The monitor of GitHub checks, and reviews.

## 9. Not modelled

* Within modelled parts: `create_run` from a checkpoint, containers inside longer graphs
  and the inheritance of branches; read-only queries; the Observer; schema migrations; the
  single operations of the gateway other than those of decisions; checkpoints and telemetry
  rows of the Run's database, which are written in the transactions of their state changes.
* The monitor of GitHub checks (`GitHubChecksMonitor`): two transactions around a read of the
  host. Two processes that poll one query may store the older answer last.
* Reviews (`review/`, `delivery/review.py`): four dimensions in sequence, an aggregate, and a
  count of fixes. What a reviewer's session does is in `ExecutorSessions`.
* Pure functions and documents: the compilers, the models and their validation, context and
  handoff, schema, qualification, the rendering of reports and of the UI, the capability
  matrix, the keyword compiler of conversations (which is what a text's action is). They have
  no state, and their tests reach them.
* Input and output: adapters and subprocesses, git, HTTP, the OTLP encoding, discovery's
  scans, artifacts and their files, and what executors do. They occur as calls with any
  outcome, or not at all. Barriers are part of `GraphRuntime`, `ParallelRun` and
  `Publication`; frozen inputs and fakes are comparisons of hashes and tests.
* Security: authentication, redaction and path policies are out of scope.
