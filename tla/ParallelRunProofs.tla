-------------------------- MODULE ParallelRunProofs -------------------------
(***************************************************************************)
(* Proofs about a parallel Run.  Each layer is inductive given the ones    *)
(* below it: the types with what a program counter says of the locals      *)
(* (TypeInv); what workers know of the node they are at (ExecInv), from    *)
(* which attempts and the shared budget follow; who is alive when the      *)
(* branches are joined (JoinInv); and who still has to cancel what is      *)
(* pending (SweepInv).                                                     *)
(***************************************************************************)
EXTENDS ParallelRun, FiniteSetTheorems, TLAPS

SchedulerLabels ==
  {"idle", "raised", "down", "status", "schedule", "start", "step", "admit", "wait",
   "settled", "sweepwave", "aggregate", "persist", "honor", "honored", "safepoint",
   "route", "sweep", "finish"}
WorkerLabels ==
  {"idle", "raised", "enter", "look", "start", "invoke", "poll", "persist", "route",
   "traverse", "finish", "block"}
ControlLabels == {"idle", "control", "pending", "cancel", "incomplete", "cancelled"}

(* Where a worker has a node in hand, and where that node has a result.    *)
Working == {"start", "invoke", "poll", "persist", "route", "traverse", "finish", "block"}
Routing == {"route", "traverse", "finish"}

SchedulerOK ==
  /\ pc[Scheduler] \in SchedulerLabels
  /\ back \in {"idle", "status", "honored"}
  /\ pc[Scheduler] = "finish" => verdict \in Terminal
  /\ pc[Scheduler] = "persist" => got \in Ended
  /\ pc[Scheduler] \in {"honored", "route"} => container \in Ended
  /\ (pc[Scheduler] \in {"honor", "safepoint", "finish"} /\ back = "honored")
       => container \in Ended

WorkerOK(b) ==
  /\ pc[b] \in WorkerLabels
  /\ pc[b] \in Working => at[b] \in Nodes /\ at[b] = current[b]
  /\ pc[b] = "persist" => answer[b] \in Results
  /\ pc[b] = "block" => answer[b] \in {"error", "blocked"}
  /\ pc[b] \in Routing => result[<<b, current[b]>>] # None
  /\ pc[b] = "traverse" => edge[b] \in DOMAIN Edges

WorkersOK == \A b \in Branches : WorkerOK(b)

ControllersOK ==
  \A c \in Controllers :
    /\ pc[c] \in ControlLabels
    /\ pc[c] = "control" => op[c] \in {"pause", "resume", "interrupt"}

ResultsOK == \A c \in Cells : result[c] # "pending"

TypeInv == TypeOK /\ SchedulerOK /\ WorkersOK /\ ControllersOK /\ ResultsOK

(* The steps that no worker takes.                                         *)
Elsewhere ==
  \/ CallRun \/ RunLoop \/ Restart \/ Crash \/ Expire
  \/ \E c \in Controllers : Operation(c) \/ \E a \in Actions : Ask(c, a)
  \/ UNCHANGED vars

(* A step that is not taken by the worker of `b` leaves the tables of `b`  *)
(* alone, and its worker where it is, unless it ends or begins.            *)
Stays(b) ==
  /\ \/ pc'[b] \in {"idle", "enter"}
     \/ /\ pc'[b] = pc[b] /\ at'[b] = at[b] /\ answer'[b] = answer[b] /\ edge'[b] = edge[b]
  /\ current'[b] = current[b]
  /\ \A n \in Nodes :
       LET c == <<b, n>> IN
       /\ node'[c] = node[c] /\ result'[c] = result[c] /\ attempts'[c] = attempts[c]
       /\ finished'[c] = finished[c] /\ issued'[c] = issued[c] /\ handle'[c] = handle[c]
       /\ \A m \in Nodes : traversals'[<<b, n, m>>] = traversals[<<b, n, m>>]

LEMMA ProcsAssumption ==
  /\ Scheduler \in Procs /\ Branches \subseteq Procs /\ Controllers \subseteq Procs
  /\ Procs = {Scheduler} \cup Branches \cup Controllers
  /\ \A b \in Branches : b \notin Controllers /\ b # Scheduler
  /\ \A c \in Controllers : c \notin Branches /\ c # Scheduler
BY ParallelAssumption DEF Procs

LEMMA EdgesAssumption ==
  /\ DOMAIN Edges \subseteq Nat
  /\ \A i \in DOMAIN Edges : /\ Edges[i].from \in Nodes /\ Edges[i].to \in Nodes
                             /\ Edges[i].cap \in Nat
<1> DEFINE Kind == [from : Nodes, to : Nodes, on : SUBSET Results, cap : Nat]
<1>1. Edges \in Seq(Kind)
  BY ParallelAssumption
<1>2. DOMAIN Edges = 1..Len(Edges) /\ Len(Edges) \in Nat
  BY <1>1
<1>3. \A i \in 1..Len(Edges) : Edges[i] \in Kind
  <2> HIDE DEF Kind
  <2>1. QED
    BY <1>1
<1>4. QED
  BY <1>2, <1>3

LEMMA OrderAssumption == \A i \in DOMAIN BranchOrder : BranchOrder[i] \in Branches
<1>1. BranchOrder \in Seq(Branches)
  BY ParallelAssumption
<1>2. QED
  BY <1>1

LEMMA AdmittedAreBranches == Admitted \subseteq Branches
BY OrderAssumption DEF Admitted, Open


LEMMA NamesAssumption ==
  /\ Branches # {} /\ Entry \in Nodes
  /\ Actions \subseteq {"pause", "resume", "interrupt", "cancel"}
  /\ None \notin Nodes \cup Results \cup Ended \cup Terminal
  /\ None \notin {"pause", "interrupt", "cancel"}
  /\ UsedBefore \subseteq Nat /\ MaxCalls \in Nat /\ MaxRepairs \in Nat
  /\ NodeCalls \in [Nodes -> Nat]
BY ParallelAssumption

----------------------------------------------------------------------------
(* Who leaves whom alone.                                                  *)

LEMMA BranchesStay == ASSUME TypeOK, Elsewhere PROVE \A b \in Branches : Stays(b)
<1> USE ProcsAssumption
<1>1. CASE CallRun \/ RunLoop \/ Restart
  BY <1>1 DEF RunLoop, CallRun, ReadStatus, Schedule, StartContainer, Step,
      Admit, JoinWave, Settled, SweepWave, Aggregate, PersistContainer,
      HonorBarrier, PauseAtSafePoint, AfterResult, Route, SweepInterrupted,
      Finish, Restart, CallFinish, Goto, vars, run, budget, rows, cells,
      schedulerLocals, workerLocals, database, environment, outside, TypeOK,
      Stays
<1>2. CASE Crash \/ Expire \/ UNCHANGED vars
  BY <1>2 DEF Crash, Expire, vars, run, budget, rows, cells, schedulerLocals,
      workerLocals, database, environment, outside, TypeOK, Stays
<1>3. ASSUME NEW c \in Controllers, Operation(c) \/ \E a \in Actions : Ask(c, a)
      PROVE  \A b \in Branches : Stays(b)
  BY <1>3 DEF Operation, Ask, Control, CancelPending, CancelRun,
      CancelIncomplete, FinishCancelled, Goto, controlFrame, vars, run,
      budget, rows, cells, schedulerLocals, workerLocals, database,
      environment, outside, TypeOK, Stays
<1>4. QED
  BY <1>1, <1>2, <1>3 DEF Elsewhere

LEMMA OthersStay == ASSUME TypeOK, NEW b \in Branches, Worker(b)
                    PROVE  \A a \in Branches \ {b} : Stays(a)
<1> USE ProcsAssumption
<1>1. CASE EnterBranch(b)
  BY <1>1 DEF EnterBranch, Goto, run, budget, rows, cells, schedulerLocals,
      workerLocals, database, environment, workerFrame, TypeOK, Stays, Cells
<1>2. CASE LookAtNode(b)
  BY <1>2 DEF LookAtNode, Goto, run, budget, rows, cells, schedulerLocals,
      database, environment, workerFrame, TypeOK, Stays, Cells
<1>3. CASE StartBranchAttempt(b)
  BY <1>3 DEF StartBranchAttempt, Goto, Here, Charged, StartRefused, run,
      cells, schedulerLocals, environment, workerFrame, TypeOK, Stays, Cells
<1>4. CASE InvokeNode(b)
  BY <1>4 DEF InvokeNode, Goto, Here, Outcomes, run, budget, rows, cells,
      schedulerLocals, database, environment, workerFrame, TypeOK, Stays,
      Cells
<1>5. CASE PollNode(b)
  BY <1>5 DEF PollNode, Goto, Here, Outcomes, run, budget, rows, cells,
      schedulerLocals, database, environment, workerFrame, TypeOK, Stays,
      Cells
<1>6. CASE PersistNode(b)
  BY <1>6 DEF PersistNode, Goto, Here, Return, NodeStatus, run, budget, rows,
      cells, schedulerLocals, workerLocals, environment, workerFrame, TypeOK,
      Stays, Cells
<1>7. CASE SelectRoute(b)
  BY <1>7 DEF SelectRoute, Goto, Selected, Takes, run, budget, rows, cells,
      schedulerLocals, database, environment, workerFrame, TypeOK, Stays,
      Cells
<1>8. CASE TraverseEdge(b)
  BY <1>8 DEF TraverseEdge, Goto, Here, Return, run, cells, schedulerLocals,
      environment, workerFrame, TypeOK, Stays, Cells
<1>9. CASE FinishBranch(b)
  BY <1>9 DEF FinishBranch, Goto, EndBranch, Return, BranchStatus, Here, run,
      budget, cells, schedulerLocals, workerLocals, environment, workerFrame,
      TypeOK, Stays, Cells
<1>10. CASE BlockBranch(b)
  BY <1>10 DEF BlockBranch, Goto, EndBranch, Return, run, budget, cells,
      schedulerLocals, workerLocals, environment, workerFrame, TypeOK, Stays,
      Cells
<1>11. QED
  BY <1>1, <1>2, <1>3, <1>4, <1>5, <1>6, <1>7, <1>8, <1>9, <1>10 DEF Worker

----------------------------------------------------------------------------
(* Types.                                                                  *)

LEMMA WorkerStays == ASSUME NEW b \in Branches, TypeOK, WorkerOK(b), Stays(b) PROVE WorkerOK(b)'
BY DEF TypeOK, Stays, WorkerOK, WorkerLabels, Working, Routing

LEMMA WorkerStep == ASSUME TypeInv, NEW b \in Branches, Worker(b) PROVE WorkerOK(b)'
<1> USE ProcsAssumption, EdgesAssumption, NamesAssumption
<1>1. CASE EnterBranch(b)
  BY <1>1 DEF EnterBranch, Goto, run, budget, rows, cells, schedulerLocals,
      workerLocals, database, environment, workerFrame, TypeInv, TypeOK,
      WorkersOK, ResultsOK, WorkerOK, WorkerLabels, Working, Routing, Cells,
      Results
<1>2. CASE LookAtNode(b)
  BY <1>2 DEF LookAtNode, Goto, run, budget, rows, cells, schedulerLocals,
      database, environment, workerFrame, TypeInv, TypeOK, WorkersOK,
      ResultsOK, WorkerOK, WorkerLabels, Working, Routing, Cells, Results
<1>3. CASE StartBranchAttempt(b)
  BY <1>3 DEF StartBranchAttempt, Goto, Here, Charged, StartRefused, run,
      cells, schedulerLocals, environment, workerFrame, TypeInv, TypeOK,
      WorkersOK, ResultsOK, WorkerOK, WorkerLabels, Working, Routing, Cells,
      Results
<1>4. CASE InvokeNode(b)
  <2>1. WorkerOK(b) /\ pc[b] = "invoke"
    BY <1>4 DEF TypeInv, WorkersOK, InvokeNode
  <2>2. UNCHANGED <<current, at, edge, result>> /\ pc'[b] = "persist" /\ answer'[b] \in Results
    BY <1>4 DEF InvokeNode, Outcomes, Results, Goto, database, rows, cells, TypeInv, TypeOK
  <2>3. QED
    BY <2>1, <2>2 DEF WorkerOK, WorkerLabels, Working, Routing
<1>5. CASE PollNode(b)
  BY <1>5 DEF PollNode, Goto, Here, Outcomes, run, budget, rows, cells,
      schedulerLocals, database, environment, workerFrame, TypeInv, TypeOK,
      WorkersOK, ResultsOK, WorkerOK, WorkerLabels, Working, Routing, Cells,
      Results
<1>6. CASE PersistNode(b)
  <2>1. WorkerOK(b) /\ at[b] \in Nodes /\ at[b] = current[b] /\ answer[b] \in Results
    BY <1>6 DEF TypeInv, WorkersOK, WorkerOK, Working, PersistNode
  <2>2. UNCHANGED <<current, at, answer, edge>> /\ pc'[b] \in {"idle", "route"}
    BY <1>6 DEF PersistNode, Goto, Return, rows, workerLocals, TypeInv, TypeOK
  <2>3. ASSUME pc'[b] = "route" PROVE result'[<<b, current[b]>>] # None
    BY <1>6, <2>1, <2>3 DEF PersistNode, Goto, Return, Here, TypeInv, TypeOK, Cells
  <2>4. QED
    BY <2>1, <2>2, <2>3 DEF WorkerOK, WorkerLabels, Working, Routing
<1>7. CASE SelectRoute(b)
  <2>1. WorkerOK(b) /\ pc[b] = "route"
    BY <1>7 DEF TypeInv, WorkersOK, SelectRoute
  <2>2. UNCHANGED <<current, at, answer, result>> /\ pc'[b] \in {"traverse", "finish"}
    BY <1>7 DEF SelectRoute, Goto, database, rows, cells, TypeInv, TypeOK
  <2>3. ASSUME pc'[b] = "traverse" PROVE edge'[b] \in DOMAIN Edges
    BY <1>7, <2>3 DEF SelectRoute, Goto, Selected, TypeInv, TypeOK
  <2>4. QED
    BY <2>1, <2>2, <2>3 DEF WorkerOK, WorkerLabels, Working, Routing
<1>8. CASE TraverseEdge(b)
  BY <1>8 DEF TraverseEdge, Goto, Here, Return, run, cells, schedulerLocals,
      environment, workerFrame, TypeInv, TypeOK, WorkersOK, ResultsOK,
      WorkerOK, WorkerLabels, Working, Routing, Cells, Results
<1>9. CASE FinishBranch(b)
  BY <1>9 DEF FinishBranch, Goto, EndBranch, Return, BranchStatus, Here, run,
      budget, cells, schedulerLocals, workerLocals, environment, workerFrame,
      TypeInv, TypeOK, WorkersOK, ResultsOK, WorkerOK, WorkerLabels, Working,
      Routing, Cells, Results
<1>10. CASE BlockBranch(b)
  BY <1>10 DEF BlockBranch, Goto, EndBranch, Return, run, budget, cells,
      schedulerLocals, workerLocals, environment, workerFrame, TypeInv,
      TypeOK, WorkersOK, ResultsOK, WorkerOK, WorkerLabels, Working, Routing,
      Cells, Results
<1>11. QED
  BY <1>1, <1>2, <1>3, <1>4, <1>5, <1>6, <1>7, <1>8, <1>9, <1>10 DEF Worker

LEMMA WorkersStep == ASSUME TypeInv, [Next]_vars PROVE WorkersOK'
<1>1. CASE Elsewhere
  BY <1>1, BranchesStay, WorkerStays DEF TypeInv, WorkersOK
<1>2. ASSUME NEW b \in Branches, Worker(b) PROVE WorkersOK'
  BY <1>2, OthersStay, WorkerStays, WorkerStep DEF TypeInv, WorkersOK
<1>3. QED
  BY <1>1, <1>2 DEF Next, Elsewhere

(* The status that decides is one of those it decides about, and none is   *)
(* before it.                                                              *)
LEMMA JoinedIsOne ==
  ASSUME NEW S, S \subseteq Ended, S # {}
  PROVE  Joined(S) \in S /\ \A t \in S : Precedence[t] <= Precedence[Joined(S)]
<1>1. \E s \in S : \A t \in S : Precedence[t] <= Precedence[s]
  <2>1. CASE "error" \in S
    BY <2>1 DEF Ended, Precedence
  <2>2. CASE "error" \notin S /\ "blocked" \in S
    BY <2>2 DEF Ended, Precedence
  <2>3. CASE "error" \notin S /\ "blocked" \notin S /\ "failed" \in S
    BY <2>3 DEF Ended, Precedence
  <2>4. CASE S \subseteq {"succeeded", "cancelled"} /\ "cancelled" \in S
    BY <2>4 DEF Precedence
  <2>5. CASE S = {"succeeded"}
    BY <2>5 DEF Precedence
  <2>6. QED
    BY <2>1, <2>2, <2>3, <2>4, <2>5 DEF Ended
<1>2. QED
  BY <1>1 DEF Joined

LEMMA SomeBranch == AllEnded => /\ {branch[b] : b \in Branches} \subseteq Ended
                                /\ {branch[b] : b \in Branches} # {}
                                /\ Joined({branch[b] : b \in Branches}) \in Ended
<1>1. ASSUME AllEnded PROVE {branch[b] : b \in Branches} \subseteq Ended /\ {branch[b] : b \in Branches} # {}
  BY <1>1, NamesAssumption DEF AllEnded
<1>2. QED
  BY <1>1, JoinedIsOne

LEMMA SchedulerStep == ASSUME TypeInv, [Next]_vars PROVE SchedulerOK'
<1> USE ProcsAssumption
<1>1. CASE CallRun
  BY <1>1 DEF CallRun, Goto, run, budget, rows, cells, schedulerLocals,
      workerLocals, database, environment, outside, TypeInv, TypeOK,
      SchedulerOK, SchedulerLabels, Ended, Terminal, ContainerStatuses,
      BranchStatuses
<1>2. CASE ReadStatus
  BY <1>2 DEF ReadStatus, Goto, run, budget, rows, cells, workerLocals,
      database, environment, outside, TypeInv, TypeOK, SchedulerOK,
      SchedulerLabels, Ended, Terminal, ContainerStatuses, BranchStatuses
<1>3. CASE Schedule
  BY <1>3 DEF Schedule, Goto, CallFinish, run, budget, rows, cells,
      workerLocals, database, environment, outside, TypeInv, TypeOK,
      SchedulerOK, SchedulerLabels, Ended, Terminal, ContainerStatuses,
      BranchStatuses
<1>4. CASE StartContainer
  BY <1>4 DEF StartContainer, Goto, CallFinish, run, rows, cells,
      workerLocals, environment, outside, TypeInv, TypeOK, SchedulerOK,
      SchedulerLabels, Ended, Terminal, ContainerStatuses, BranchStatuses
<1>5. CASE Step
  BY <1>5 DEF Step, Goto, run, budget, rows, cells, schedulerLocals,
      workerLocals, database, environment, outside, TypeInv, TypeOK,
      SchedulerOK, SchedulerLabels, Ended, Terminal, ContainerStatuses,
      BranchStatuses
<1>6. CASE Admit
  BY <1>6 DEF Admit, run, budget, rows, cells, workerLocals, database,
      environment, outside, TypeInv, TypeOK, SchedulerOK, SchedulerLabels,
      Ended, Terminal, ContainerStatuses, BranchStatuses
<1>7. CASE JoinWave
  BY <1>7 DEF JoinWave, Goto, run, budget, rows, cells, workerLocals,
      database, environment, outside, TypeInv, TypeOK, SchedulerOK,
      SchedulerLabels, Ended, Terminal, ContainerStatuses, BranchStatuses
<1>8. CASE Settled
  BY <1>8 DEF Settled, Goto, run, budget, rows, cells, schedulerLocals,
      workerLocals, database, environment, outside, TypeInv, TypeOK,
      SchedulerOK, SchedulerLabels, Ended, Terminal, ContainerStatuses,
      BranchStatuses
<1>9. CASE SweepWave
  BY <1>9 DEF SweepWave, Goto, CancelBranches, run, budget, cells,
      schedulerLocals, workerLocals, environment, outside, TypeInv, TypeOK,
      SchedulerOK, SchedulerLabels, Ended, Terminal, ContainerStatuses,
      BranchStatuses
<1>10. CASE Aggregate
  BY <1>10, SomeBranch DEF Aggregate, Goto, AllEnded, run, budget, rows,
      cells, workerLocals, database, environment, outside, TypeInv, TypeOK,
      SchedulerOK, SchedulerLabels, Ended, Terminal, ContainerStatuses,
      BranchStatuses
<1>11. CASE PersistContainer
  BY <1>11 DEF PersistContainer, Goto, run, budget, rows, cells, workerLocals,
      environment, outside, TypeInv, TypeOK, SchedulerOK, SchedulerLabels,
      Ended, Terminal, ContainerStatuses, BranchStatuses
<1>12. CASE HonorBarrier
  BY <1>12 DEF HonorBarrier, Goto, CallFinish, run, budget, rows, cells,
      workerLocals, database, environment, outside, TypeInv, TypeOK,
      SchedulerOK, SchedulerLabels, Ended, Terminal, ContainerStatuses,
      BranchStatuses
<1>13. CASE PauseAtSafePoint
  BY <1>13 DEF PauseAtSafePoint, Goto, budget, rows, cells, schedulerLocals,
      workerLocals, environment, outside, TypeInv, TypeOK, SchedulerOK,
      SchedulerLabels, Ended, Terminal, ContainerStatuses, BranchStatuses
<1>14. CASE AfterResult
  BY <1>14 DEF AfterResult, Goto, CallFinish, run, budget, rows, cells,
      workerLocals, database, environment, outside, TypeInv, TypeOK,
      SchedulerOK, SchedulerLabels, Ended, Terminal, ContainerStatuses,
      BranchStatuses
<1>15. CASE Route
  BY <1>15 DEF Route, Goto, CallFinish, EndStatus, run, budget, rows, cells,
      workerLocals, database, environment, outside, TypeInv, TypeOK,
      SchedulerOK, SchedulerLabels, Ended, Terminal, ContainerStatuses,
      BranchStatuses
<1>16. CASE SweepInterrupted
  BY <1>16 DEF SweepInterrupted, Goto, CallFinish, CancelBranches, run,
      budget, cells, workerLocals, environment, outside, TypeInv, TypeOK,
      SchedulerOK, SchedulerLabels, Ended, Terminal, ContainerStatuses,
      BranchStatuses
<1>17. CASE Finish
  BY <1>17 DEF Finish, Goto, FinishRun, AlreadyFinished, run, budget, rows,
      cells, workerLocals, environment, outside, TypeInv, TypeOK, SchedulerOK,
      SchedulerLabels, Ended, Terminal, ContainerStatuses, BranchStatuses
<1>18. CASE Restart
  BY <1>18 DEF Restart, Goto, CallFinish, run, budget, rows, cells,
      workerLocals, database, environment, outside, TypeInv, TypeOK,
      SchedulerOK, SchedulerLabels, Ended, Terminal, ContainerStatuses,
      BranchStatuses
<1>19. CASE Crash
  BY <1>19 DEF Crash, run, budget, rows, cells, database, TypeInv, TypeOK,
      SchedulerOK, SchedulerLabels, Ended, Terminal, ContainerStatuses,
      BranchStatuses
<1>20. CASE Expire
  BY <1>20 DEF Expire, run, budget, rows, cells, schedulerLocals,
      workerLocals, database, environment, TypeInv, TypeOK, SchedulerOK,
      SchedulerLabels, Ended, Terminal, ContainerStatuses, BranchStatuses
<1>21. ASSUME NEW b \in Branches, EnterBranch(b) PROVE SchedulerOK'
  BY <1>21 DEF EnterBranch, Goto, run, budget, rows, cells, schedulerLocals,
      workerLocals, database, environment, workerFrame, TypeInv, TypeOK,
      SchedulerOK, SchedulerLabels, Ended, Terminal, ContainerStatuses,
      BranchStatuses
<1>22. ASSUME NEW b \in Branches, LookAtNode(b) PROVE SchedulerOK'
  BY <1>22 DEF LookAtNode, Goto, run, budget, rows, cells, schedulerLocals,
      database, environment, workerFrame, TypeInv, TypeOK, SchedulerOK,
      SchedulerLabels, Ended, Terminal, ContainerStatuses, BranchStatuses
<1>23. ASSUME NEW b \in Branches, StartBranchAttempt(b) PROVE SchedulerOK'
  BY <1>23 DEF StartBranchAttempt, Goto, Here, Charged, StartRefused, run,
      cells, schedulerLocals, environment, workerFrame, TypeInv, TypeOK,
      SchedulerOK, SchedulerLabels, Ended, Terminal, ContainerStatuses,
      BranchStatuses
<1>24. ASSUME NEW b \in Branches, InvokeNode(b) PROVE SchedulerOK'
  BY <1>24 DEF InvokeNode, Goto, Here, Outcomes, run, budget, rows, cells,
      schedulerLocals, database, environment, workerFrame, TypeInv, TypeOK,
      SchedulerOK, SchedulerLabels, Ended, Terminal, ContainerStatuses,
      BranchStatuses
<1>25. ASSUME NEW b \in Branches, PollNode(b) PROVE SchedulerOK'
  BY <1>25 DEF PollNode, Goto, Here, Outcomes, run, budget, rows, cells,
      schedulerLocals, database, environment, workerFrame, TypeInv, TypeOK,
      SchedulerOK, SchedulerLabels, Ended, Terminal, ContainerStatuses,
      BranchStatuses
<1>26. ASSUME NEW b \in Branches, PersistNode(b) PROVE SchedulerOK'
  BY <1>26 DEF PersistNode, Goto, Here, Return, NodeStatus, run, budget, rows,
      cells, schedulerLocals, workerLocals, environment, workerFrame, TypeInv,
      TypeOK, SchedulerOK, SchedulerLabels, Ended, Terminal,
      ContainerStatuses, BranchStatuses
<1>27. ASSUME NEW b \in Branches, SelectRoute(b) PROVE SchedulerOK'
  BY <1>27 DEF SelectRoute, Goto, Selected, Takes, run, budget, rows, cells,
      schedulerLocals, database, environment, workerFrame, TypeInv, TypeOK,
      SchedulerOK, SchedulerLabels, Ended, Terminal, ContainerStatuses,
      BranchStatuses
<1>28. ASSUME NEW b \in Branches, TraverseEdge(b) PROVE SchedulerOK'
  BY <1>28 DEF TraverseEdge, Goto, Here, Return, run, cells, schedulerLocals,
      environment, workerFrame, TypeInv, TypeOK, SchedulerOK, SchedulerLabels,
      Ended, Terminal, ContainerStatuses, BranchStatuses
<1>29. ASSUME NEW b \in Branches, FinishBranch(b) PROVE SchedulerOK'
  BY <1>29 DEF FinishBranch, Goto, EndBranch, Return, BranchStatus, Here, run,
      budget, cells, schedulerLocals, workerLocals, environment, workerFrame,
      TypeInv, TypeOK, SchedulerOK, SchedulerLabels, Ended, Terminal,
      ContainerStatuses, BranchStatuses
<1>30. ASSUME NEW b \in Branches, BlockBranch(b) PROVE SchedulerOK'
  BY <1>30 DEF BlockBranch, Goto, EndBranch, Return, run, budget, cells,
      schedulerLocals, workerLocals, environment, workerFrame, TypeInv,
      TypeOK, SchedulerOK, SchedulerLabels, Ended, Terminal,
      ContainerStatuses, BranchStatuses
<1>31. ASSUME NEW c \in Controllers, Control(c) PROVE SchedulerOK'
  BY <1>31 DEF Control, Goto, Allowed, run, budget, rows, cells,
      schedulerLocals, workerLocals, controlFrame, TypeInv, TypeOK,
      SchedulerOK, SchedulerLabels, Ended, Terminal, ContainerStatuses,
      BranchStatuses
<1>32. ASSUME NEW c \in Controllers, CancelPending(c) PROVE SchedulerOK'
  BY <1>32 DEF CancelPending, Goto, CancelBranches, run, budget, cells,
      schedulerLocals, workerLocals, controlFrame, TypeInv, TypeOK,
      SchedulerOK, SchedulerLabels, Ended, Terminal, ContainerStatuses,
      BranchStatuses
<1>33. ASSUME NEW c \in Controllers, CancelRun(c) PROVE SchedulerOK'
  BY <1>33 DEF CancelRun, Goto, run, budget, rows, cells, schedulerLocals,
      workerLocals, controlFrame, TypeInv, TypeOK, SchedulerOK,
      SchedulerLabels, Ended, Terminal, ContainerStatuses, BranchStatuses
<1>34. ASSUME NEW c \in Controllers, CancelIncomplete(c) PROVE SchedulerOK'
  BY <1>34 DEF CancelIncomplete, Goto, CancelBranches, run, budget, cells,
      schedulerLocals, workerLocals, controlFrame, TypeInv, TypeOK,
      SchedulerOK, SchedulerLabels, Ended, Terminal, ContainerStatuses,
      BranchStatuses
<1>35. ASSUME NEW c \in Controllers, FinishCancelled(c) PROVE SchedulerOK'
  BY <1>35 DEF FinishCancelled, Goto, FinishRun, AlreadyFinished, run, budget,
      rows, cells, schedulerLocals, workerLocals, controlFrame, TypeInv,
      TypeOK, SchedulerOK, SchedulerLabels, Ended, Terminal,
      ContainerStatuses, BranchStatuses
<1>36. ASSUME NEW c \in Controllers, NEW x \in Actions, Ask(c, x) PROVE SchedulerOK'
  BY <1>36 DEF Ask, Goto, run, budget, rows, cells, schedulerLocals,
      workerLocals, controlFrame, TypeInv, TypeOK, SchedulerOK,
      SchedulerLabels, Ended, Terminal, ContainerStatuses, BranchStatuses
<1>37. CASE UNCHANGED vars
  BY <1>37 DEF vars, run, budget, rows, cells, schedulerLocals, workerLocals,
      database, environment, outside, TypeInv, TypeOK, SchedulerOK,
      SchedulerLabels, Ended, Terminal, ContainerStatuses, BranchStatuses
<1>38. QED
  BY <1>1, <1>2, <1>3, <1>4, <1>5, <1>6, <1>7, <1>8, <1>9, <1>10, <1>11,
      <1>12, <1>13, <1>14, <1>15, <1>16, <1>17, <1>18, <1>19, <1>20, <1>21,
      <1>22, <1>23, <1>24, <1>25, <1>26, <1>27, <1>28, <1>29, <1>30, <1>31,
      <1>32, <1>33, <1>34, <1>35, <1>36, <1>37 DEF Next, RunLoop, Worker,
      Operation

LEMMA ControllersStep == ASSUME TypeInv, [Next]_vars PROVE ControllersOK'
<1> USE ProcsAssumption, NamesAssumption
<1>1. CASE (\A c \in Controllers : pc'[c] = pc[c]) /\ op' = op
  BY <1>1 DEF TypeInv, ControllersOK
<1>2. RunLoop \/ CallRun \/ Restart \/ Crash \/ Expire \/ UNCHANGED vars
      => (\A c \in Controllers : pc'[c] = pc[c]) /\ op' = op
  BY AdmittedAreBranches DEF RunLoop, CallRun, ReadStatus, Schedule,
      StartContainer, Step, Admit, JoinWave, Settled, SweepWave, Aggregate,
      PersistContainer, HonorBarrier, PauseAtSafePoint, AfterResult, Route,
      SweepInterrupted, Finish, Restart, CallFinish, Goto, Crash, Expire,
      vars, outside, environment, TypeInv, TypeOK
<1>3. ASSUME NEW b \in Branches, Worker(b) PROVE (\A c \in Controllers : pc'[c] = pc[c]) /\ op' = op
  BY <1>3 DEF Worker, EnterBranch, LookAtNode, StartBranchAttempt, InvokeNode,
      PollNode, PersistNode, SelectRoute, TraverseEdge, FinishBranch,
      BlockBranch, EndBranch, Return, Goto, workerFrame, environment, TypeInv,
      TypeOK
<1>4. ASSUME NEW c \in Controllers, Operation(c) PROVE ControllersOK'
  BY <1>4 DEF Operation, Control, CancelPending, CancelRun, CancelIncomplete,
      FinishCancelled, Goto, controlFrame, TypeInv, TypeOK, ControllersOK,
      ControlLabels
<1>5. ASSUME NEW c \in Controllers, NEW x \in Actions, Ask(c, x) PROVE ControllersOK'
  BY <1>5 DEF Ask, Goto, TypeInv, TypeOK, ControllersOK, ControlLabels
<1>6. QED
  BY <1>1, <1>2, <1>3, <1>4, <1>5 DEF Next

LEMMA ResultsStep == ASSUME TypeInv, [Next]_vars PROVE ResultsOK'
<1> USE NamesAssumption DEF TypeInv, TypeOK, ResultsOK, Results
<1>1. ASSUME NEW b \in Branches, StartBranchAttempt(b) PROVE ResultsOK'
  BY <1>1 DEF StartBranchAttempt, cells
<1>2. ASSUME NEW b \in Branches, PersistNode(b) PROVE ResultsOK'
  BY <1>2 DEF PersistNode, cells
<1>3. ASSUME NEW b \in Branches, TraverseEdge(b) PROVE ResultsOK'
  BY <1>3 DEF TraverseEdge, cells
<1>4. CASE UNCHANGED result
  BY <1>4
<1>5. ASSUME NEW b \in Branches, Worker(b), ~StartBranchAttempt(b), ~PersistNode(b), ~TraverseEdge(b)
      PROVE  UNCHANGED result
  BY <1>5 DEF Worker, EnterBranch, LookAtNode, InvokeNode, PollNode, SelectRoute, FinishBranch,
    BlockBranch, EndBranch, database, cells
<1>6. RunLoop => UNCHANGED result
  BY DEF RunLoop, ReadStatus, Schedule, StartContainer, Step, Admit, JoinWave,
      Settled, SweepWave, Aggregate, PersistContainer, HonorBarrier,
      PauseAtSafePoint, AfterResult, Route, SweepInterrupted, Finish,
      database, cells
<1>7. ASSUME NEW c \in Controllers, Operation(c) \/ \E a \in Actions : Ask(c, a) PROVE UNCHANGED result
  BY <1>7 DEF Operation, Ask, Control, CancelPending, CancelRun,
      CancelIncomplete, FinishCancelled, controlFrame, cells
<1>8. CallRun \/ Restart \/ Crash \/ Expire \/ UNCHANGED vars => UNCHANGED result
  BY DEF CallRun, Restart, Crash, Expire, vars, database, cells
<1>9. QED
  BY <1>1, <1>2, <1>3, <1>4, <1>5, <1>6, <1>7, <1>8 DEF Next

LEMMA TypeOKStep == ASSUME TypeInv, [Next]_vars PROVE TypeOK'
<1> USE ProcsAssumption, NamesAssumption, EdgesAssumption
<1>1. CASE CallRun
  BY <1>1 DEF CallRun, Goto, run, budget, rows, cells, schedulerLocals,
      workerLocals, database, environment, outside, TypeInv, TypeOK, Labels,
      Results, Ended, Terminal, RunStatuses, BranchStatuses,
      ContainerStatuses, NodeStatuses, Cells, SchedulerOK, WorkersOK,
      WorkerOK, Working, Routing, ControllersOK, ResultsOK
<1>2. CASE ReadStatus
  BY <1>2 DEF ReadStatus, Goto, run, budget, rows, cells, workerLocals,
      database, environment, outside, TypeInv, TypeOK, Labels, Results, Ended,
      Terminal, RunStatuses, BranchStatuses, ContainerStatuses, NodeStatuses,
      Cells, SchedulerOK, WorkersOK, WorkerOK, Working, Routing,
      ControllersOK, ResultsOK
<1>3. CASE Schedule
  <2>1. (pc \in [Procs -> Labels])'
    BY <1>3 DEF Schedule, Goto, CallFinish, run, budget, rows, cells,
        workerLocals, database, environment, outside, TypeInv, TypeOK, Labels
  <2>2. (back \in Labels)'
    BY <1>3 DEF Schedule, Goto, CallFinish, run, budget, rows, cells,
        workerLocals, database, environment, outside, TypeInv, TypeOK, Labels
  <2>3. (verdict \in Terminal \cup {None})'
    BY <1>3 DEF Schedule, Goto, CallFinish, run, budget, rows, cells,
        workerLocals, database, environment, outside, TypeInv, TypeOK,
        Terminal
  <2>4. (first \in BOOLEAN)'
    BY <1>3 DEF Schedule, Goto, CallFinish, run, budget, rows, cells,
        workerLocals, database, environment, outside, TypeInv, TypeOK
  <2>5. QED
    BY <1>3, <2>1, <2>2, <2>3, <2>4 DEF Schedule, Goto, CallFinish, run, budget,
        rows, cells, workerLocals, database, environment, outside, TypeInv,
        TypeOK
<1>4. CASE StartContainer
  <2>1. (pc \in [Procs -> Labels])'
    BY <1>4 DEF StartContainer, Goto, budget, run, rows, cells, workerLocals,
        environment, outside, TypeInv, TypeOK, Labels
  <2>2. (back \in Labels)'
    BY <1>4 DEF StartContainer, Goto, budget, run, rows, cells, workerLocals,
        environment, outside, TypeInv, TypeOK, Labels
  <2>3. (verdict \in Terminal \cup {None})'
    BY <1>4 DEF StartContainer, Goto, budget, run, rows, cells, workerLocals,
        environment, outside, TypeInv, TypeOK, Terminal
  <2>4. (first \in BOOLEAN)'
    BY <1>4 DEF StartContainer, Goto, budget, run, rows, cells, workerLocals,
        environment, outside, TypeInv, TypeOK
  <2>5. (calls \in Nat)'
    BY <1>4 DEF StartContainer, Goto, budget, run, rows, cells, workerLocals,
        environment, outside, TypeInv, TypeOK
  <2>6. (container \in ContainerStatuses)'
    BY <1>4 DEF StartContainer, Goto, budget, run, rows, cells, workerLocals,
        environment, outside, TypeInv, TypeOK, ContainerStatuses, Ended
  <2>7. QED
    BY <1>4, <2>1, <2>2, <2>3, <2>4, <2>5, <2>6 DEF StartContainer, Goto,
        budget, run, rows, cells, workerLocals, environment, outside,
        TypeInv, TypeOK
<1>5. CASE Step
  BY <1>5 DEF Step, Goto, run, budget, rows, cells, schedulerLocals,
      workerLocals, database, environment, outside, TypeInv, TypeOK, Labels,
      Results, Ended, Terminal, RunStatuses, BranchStatuses,
      ContainerStatuses, NodeStatuses, Cells, SchedulerOK, WorkersOK,
      WorkerOK, Working, Routing, ControllersOK, ResultsOK
<1>6. CASE Admit
  BY <1>6, AdmittedAreBranches DEF Admit, run, budget, rows, cells,
      workerLocals, database, environment, outside, TypeInv, TypeOK, Labels,
      Results, Ended, Terminal, RunStatuses, BranchStatuses,
      ContainerStatuses, NodeStatuses, Cells, SchedulerOK, WorkersOK,
      WorkerOK, Working, Routing, ControllersOK, ResultsOK
<1>7. CASE JoinWave
  BY <1>7 DEF JoinWave, Goto, run, budget, rows, cells, workerLocals,
      database, environment, outside, TypeInv, TypeOK, Labels, Results, Ended,
      Terminal, RunStatuses, BranchStatuses, ContainerStatuses, NodeStatuses,
      Cells, SchedulerOK, WorkersOK, WorkerOK, Working, Routing,
      ControllersOK, ResultsOK
<1>8. CASE Settled
  BY <1>8 DEF Settled, Goto, run, budget, rows, cells, schedulerLocals,
      workerLocals, database, environment, outside, TypeInv, TypeOK, Labels,
      Results, Ended, Terminal, RunStatuses, BranchStatuses,
      ContainerStatuses, NodeStatuses, Cells, SchedulerOK, WorkersOK,
      WorkerOK, Working, Routing, ControllersOK, ResultsOK
<1>9. CASE SweepWave
  BY <1>9 DEF SweepWave, Goto, CancelBranches, run, budget, cells,
      schedulerLocals, workerLocals, environment, outside, TypeInv, TypeOK,
      Labels, Results, Ended, Terminal, RunStatuses, BranchStatuses,
      ContainerStatuses, NodeStatuses, Cells, SchedulerOK, WorkersOK,
      WorkerOK, Working, Routing, ControllersOK, ResultsOK
<1>10. CASE Aggregate
  BY <1>10, SomeBranch DEF Aggregate, Goto, AllEnded, run, budget, rows,
      cells, workerLocals, database, environment, outside, TypeInv, TypeOK,
      Labels, Results, Ended, Terminal, RunStatuses, BranchStatuses,
      ContainerStatuses, NodeStatuses, Cells, SchedulerOK, WorkersOK,
      WorkerOK, Working, Routing, ControllersOK, ResultsOK
<1>11. CASE PersistContainer
  BY <1>11 DEF PersistContainer, Goto, run, budget, rows, cells, workerLocals,
      environment, outside, TypeInv, TypeOK, Labels, Results, Ended, Terminal,
      RunStatuses, BranchStatuses, ContainerStatuses, NodeStatuses, Cells,
      SchedulerOK, WorkersOK, WorkerOK, Working, Routing, ControllersOK,
      ResultsOK
<1>12. CASE HonorBarrier
  BY <1>12 DEF HonorBarrier, Goto, CallFinish, run, budget, rows, cells,
      workerLocals, database, environment, outside, TypeInv, TypeOK, Labels,
      Results, Ended, Terminal, RunStatuses, BranchStatuses,
      ContainerStatuses, NodeStatuses, Cells, SchedulerOK, WorkersOK,
      WorkerOK, Working, Routing, ControllersOK, ResultsOK
<1>13. CASE PauseAtSafePoint
  BY <1>13 DEF PauseAtSafePoint, Goto, budget, rows, cells, schedulerLocals,
      workerLocals, environment, outside, TypeInv, TypeOK, Labels, Results,
      Ended, Terminal, RunStatuses, BranchStatuses, ContainerStatuses,
      NodeStatuses, Cells, SchedulerOK, WorkersOK, WorkerOK, Working, Routing,
      ControllersOK, ResultsOK
<1>14. CASE AfterResult
  BY <1>14 DEF AfterResult, Goto, CallFinish, run, budget, rows, cells,
      workerLocals, database, environment, outside, TypeInv, TypeOK, Labels,
      Results, Ended, Terminal, RunStatuses, BranchStatuses,
      ContainerStatuses, NodeStatuses, Cells, SchedulerOK, WorkersOK,
      WorkerOK, Working, Routing, ControllersOK, ResultsOK
<1>15. CASE Route
  BY <1>15 DEF Route, Goto, CallFinish, EndStatus, run, budget, rows, cells,
      workerLocals, database, environment, outside, TypeInv, TypeOK, Labels,
      Results, Ended, Terminal, RunStatuses, BranchStatuses,
      ContainerStatuses, NodeStatuses, Cells, SchedulerOK, WorkersOK,
      WorkerOK, Working, Routing, ControllersOK, ResultsOK
<1>16. CASE SweepInterrupted
  BY <1>16 DEF SweepInterrupted, Goto, CallFinish, CancelBranches, run,
      budget, cells, workerLocals, environment, outside, TypeInv, TypeOK,
      Labels, Results, Ended, Terminal, RunStatuses, BranchStatuses,
      ContainerStatuses, NodeStatuses, Cells, SchedulerOK, WorkersOK,
      WorkerOK, Working, Routing, ControllersOK, ResultsOK
<1>17. CASE Finish
  BY <1>17 DEF Finish, Goto, FinishRun, AlreadyFinished, run, budget, rows,
      cells, workerLocals, environment, outside, TypeInv, TypeOK, Labels,
      Results, Ended, Terminal, RunStatuses, BranchStatuses,
      ContainerStatuses, NodeStatuses, Cells, SchedulerOK, WorkersOK,
      WorkerOK, Working, Routing, ControllersOK, ResultsOK
<1>18. CASE Restart
  BY <1>18 DEF Restart, Goto, CallFinish, run, budget, rows, cells,
      workerLocals, database, environment, outside, TypeInv, TypeOK, Labels,
      Results, Ended, Terminal, RunStatuses, BranchStatuses,
      ContainerStatuses, NodeStatuses, Cells, SchedulerOK, WorkersOK,
      WorkerOK, Working, Routing, ControllersOK, ResultsOK
<1>19. CASE Crash
  <2>1. (pc \in [Procs -> Labels])'
    BY <1>19 DEF Crash, run, budget, rows, cells, database, TypeInv, TypeOK,
        Labels
  <2>2. (first \in BOOLEAN)'
    BY <1>19 DEF Crash, run, budget, rows, cells, database, TypeInv, TypeOK
  <2>3. (got \in Ended \cup {None})'
    BY <1>19 DEF Crash, run, budget, rows, cells, database, TypeInv, TypeOK
  <2>4. (back \in Labels)'
    BY <1>19 DEF Crash, run, budget, rows, cells, database, TypeInv, TypeOK,
        Labels
  <2>5. (verdict \in Terminal \cup {None})'
    BY <1>19 DEF Crash, run, budget, rows, cells, database, TypeInv, TypeOK,
        Terminal
  <2>6. (wave \in SUBSET Branches)'
    BY <1>19 DEF Crash, run, budget, rows, cells, database, TypeInv, TypeOK
  <2>7. (at \in [Branches -> Nodes \cup {None}])'
    BY <1>19 DEF Crash, run, budget, rows, cells, database, TypeInv, TypeOK
  <2>8. (answer \in [Branches -> Results \cup {"blocked", None}])'
    BY <1>19 DEF Crash, run, budget, rows, cells, database, TypeInv, TypeOK,
        Results
  <2>9. (edge \in [Branches -> Nat])'
    BY <1>19 DEF Crash, run, budget, rows, cells, database, TypeInv, TypeOK
  <2>10. (crashes \in Nat)'
    BY <1>19 DEF Crash, run, budget, rows, cells, database, TypeInv, TypeOK
  <2>11. QED
    BY <1>19, <2>1, <2>2, <2>3, <2>4, <2>5, <2>6, <2>7, <2>8, <2>9, <2>10 DEF
        Crash, run, budget, rows, cells, database, TypeInv, TypeOK
<1>20. CASE Expire
  BY <1>20 DEF Expire, run, budget, rows, cells, schedulerLocals,
      workerLocals, database, environment, TypeInv, TypeOK, Labels, Results,
      Ended, Terminal, RunStatuses, BranchStatuses, ContainerStatuses,
      NodeStatuses, Cells, SchedulerOK, WorkersOK, WorkerOK, Working, Routing,
      ControllersOK, ResultsOK
<1>21. ASSUME NEW b \in Branches, EnterBranch(b) PROVE TypeOK'
  BY <1>21 DEF EnterBranch, Goto, run, budget, rows, cells, schedulerLocals,
      workerLocals, database, environment, workerFrame, TypeInv, TypeOK,
      Labels, Results, Ended, Terminal, RunStatuses, BranchStatuses,
      ContainerStatuses, NodeStatuses, Cells, SchedulerOK, WorkersOK,
      WorkerOK, Working, Routing, ControllersOK, ResultsOK
<1>22. ASSUME NEW b \in Branches, LookAtNode(b) PROVE TypeOK'
  BY <1>22 DEF LookAtNode, Goto, run, budget, rows, cells, schedulerLocals,
      database, environment, workerFrame, TypeInv, TypeOK, Labels, Results,
      Ended, Terminal, RunStatuses, BranchStatuses, ContainerStatuses,
      NodeStatuses, Cells, SchedulerOK, WorkersOK, WorkerOK, Working, Routing,
      ControllersOK, ResultsOK
<1>23. ASSUME NEW b \in Branches, StartBranchAttempt(b) PROVE TypeOK'
  <2>1. at[b] \in Nodes /\ at[b] = current[b] /\ Here(b) \in Cells
    BY <1>23 DEF StartBranchAttempt, TypeInv, TypeOK, WorkersOK, WorkerOK,
        Working, Here, Cells
  <2>2. (pc \in [Procs -> Labels])'
    BY <1>23, <2>1 DEF StartBranchAttempt, Goto, Here, Charged, StartRefused, run,
        cells, schedulerLocals, environment, workerFrame, TypeInv, TypeOK,
        Labels
  <2>3. (calls \in Nat)'
    BY <1>23, <2>1 DEF StartBranchAttempt, Goto, Here, Charged, StartRefused, run,
        cells, schedulerLocals, environment, workerFrame, TypeInv, TypeOK
  <2>4. (branch \in [Branches -> BranchStatuses])'
    BY <1>23, <2>1 DEF StartBranchAttempt, Goto, Here, Charged, StartRefused, run,
        cells, schedulerLocals, environment, workerFrame, TypeInv, TypeOK,
        BranchStatuses, Ended, Results
  <2>5. (node \in [Cells -> NodeStatuses])'
    <3>1. node' \in {node, [node EXCEPT ![Here(b)] = "running"]}
      BY <1>23, <2>1 DEF StartBranchAttempt, cells
    <3>2. QED
      BY <2>1, <3>1 DEF TypeInv, TypeOK, NodeStatuses
  <2>6. (attempts \in [Cells -> Nat])'
    <3>1. attempts' \in {attempts, [attempts EXCEPT ![Here(b)] = @ + 1]}
      BY <1>23, <2>1 DEF StartBranchAttempt, cells
    <3>2. QED
      BY <2>1, <3>1 DEF TypeInv, TypeOK
  <2>7. (result \in [Cells -> Results \cup {None}])'
    BY <1>23, <2>1 DEF StartBranchAttempt, Goto, Here, Charged, StartRefused, run,
        cells, schedulerLocals, environment, workerFrame, TypeInv, TypeOK,
        Results, Cells
  <2>8. (resolved \in [Cells -> BOOLEAN])'
    BY <1>23, <2>1 DEF StartBranchAttempt, Goto, Here, Charged, StartRefused, run,
        cells, schedulerLocals, environment, workerFrame, TypeInv, TypeOK,
        Cells
  <2>9. (handle \in [Cells -> {"none", "triggering", "checkpointed"}])'
    <3>1. handle' \in {handle, [handle EXCEPT ![Here(b)] = "triggering"]}
      BY <1>23, <2>1 DEF StartBranchAttempt
    <3>2. QED
      BY <2>1, <3>1 DEF TypeInv, TypeOK
  <2>10. (answer \in [Branches -> Results \cup {"blocked", None}])'
    BY <1>23, <2>1 DEF StartBranchAttempt, Goto, Here, Charged, StartRefused, run,
        cells, schedulerLocals, environment, workerFrame, TypeInv, TypeOK,
        Results
  <2>11. QED
    BY <1>23, <2>2, <2>3, <2>4, <2>5, <2>6, <2>7, <2>8, <2>9, <2>10 DEF
        StartBranchAttempt, Goto, Here, Charged, StartRefused, run, cells,
        schedulerLocals, environment, workerFrame, TypeInv, TypeOK
<1>24. ASSUME NEW b \in Branches, InvokeNode(b) PROVE TypeOK'
  <2>1. at[b] \in Nodes /\ at[b] = current[b] /\ Here(b) \in Cells
    BY <1>24 DEF InvokeNode, TypeInv, TypeOK, WorkersOK, WorkerOK, Working, Here,
        Cells
  <2>2. (pc \in [Procs -> Labels])'
    BY <1>24, <2>1 DEF InvokeNode, Goto, Here, Outcomes, run, budget, rows, cells,
        schedulerLocals, database, environment, workerFrame, TypeInv, TypeOK,
        Labels
  <2>3. (issued \in [Cells -> Nat])'
    BY <1>24, <2>1 DEF InvokeNode, Goto, Here, Outcomes, run, budget, rows, cells,
        schedulerLocals, database, environment, workerFrame, TypeInv, TypeOK,
        Cells
  <2>4. (answer \in [Branches -> Results \cup {"blocked", None}])'
    BY <1>24, <2>1 DEF InvokeNode, Goto, Here, Outcomes, run, budget, rows, cells,
        schedulerLocals, database, environment, workerFrame, TypeInv, TypeOK,
        Results
  <2>5. QED
    BY <1>24, <2>2, <2>3, <2>4 DEF InvokeNode, Goto, Here, Outcomes, run, budget,
        rows, cells, schedulerLocals, database, environment, workerFrame,
        TypeInv, TypeOK
<1>25. ASSUME NEW b \in Branches, PollNode(b) PROVE TypeOK'
  BY <1>25 DEF PollNode, Goto, Here, Outcomes, run, budget, rows, cells,
      schedulerLocals, database, environment, workerFrame, TypeInv, TypeOK,
      Labels, Results, Ended, Terminal, RunStatuses, BranchStatuses,
      ContainerStatuses, NodeStatuses, Cells, SchedulerOK, WorkersOK,
      WorkerOK, Working, Routing, ControllersOK, ResultsOK
<1>26. ASSUME NEW b \in Branches, PersistNode(b) PROVE TypeOK'
  <2>1. at[b] \in Nodes /\ at[b] = current[b] /\ Here(b) \in Cells /\ answer[b] \in Results
    BY <1>26 DEF PersistNode, TypeInv, TypeOK, WorkersOK, WorkerOK, Working, Here,
        Cells
  <2>2. (pc \in [Procs -> Labels])'
    BY <1>26, <2>1 DEF PersistNode, Goto, Here, Return, NodeStatus, run, budget,
        rows, cells, schedulerLocals, workerLocals, environment, workerFrame,
        TypeInv, TypeOK, Labels
  <2>3. (handle \in [Cells -> {"none", "triggering", "checkpointed"}])'
    <3>1. handle' \in {handle, [handle EXCEPT ![Here(b)] = "checkpointed"]}
      BY <1>26, <2>1 DEF PersistNode
    <3>2. QED
      BY <2>1, <3>1 DEF TypeInv, TypeOK
  <2>4. (node \in [Cells -> NodeStatuses])'
    BY <1>26, <2>1 DEF PersistNode, Goto, Here, Return, NodeStatus, run, budget,
        rows, cells, schedulerLocals, workerLocals, environment, workerFrame,
        TypeInv, TypeOK, NodeStatuses, Results, Cells
  <2>5. (result \in [Cells -> Results \cup {None}])'
    BY <1>26, <2>1 DEF PersistNode, Goto, Here, Return, NodeStatus, run, budget,
        rows, cells, schedulerLocals, workerLocals, environment, workerFrame,
        TypeInv, TypeOK, Results, Cells
  <2>6. (resolved \in [Cells -> BOOLEAN])'
    BY <1>26, <2>1 DEF PersistNode, Goto, Here, Return, NodeStatus, run, budget,
        rows, cells, schedulerLocals, workerLocals, environment, workerFrame,
        TypeInv, TypeOK, Cells
  <2>7. (finished \in [Cells -> Nat])'
    <3>1. finished' \in {finished, [finished EXCEPT ![Here(b)] = @ + 1]}
      BY <1>26, <2>1 DEF PersistNode, cells
    <3>2. QED
      BY <2>1, <3>1 DEF TypeInv, TypeOK
  <2>8. QED
    BY <1>26, <2>2, <2>3, <2>4, <2>5, <2>6, <2>7 DEF PersistNode, Goto, Here,
        Return, NodeStatus, run, budget, rows, cells, schedulerLocals,
        workerLocals, environment, workerFrame, TypeInv, TypeOK
<1>27. ASSUME NEW b \in Branches, SelectRoute(b) PROVE TypeOK'
  <2>1. at[b] \in Nodes /\ at[b] = current[b] /\ Here(b) \in Cells
    BY <1>27 DEF SelectRoute, TypeInv, TypeOK, WorkersOK, WorkerOK, Working, Here,
        Cells
  <2>2. (pc \in [Procs -> Labels])'
    BY <1>27, <2>1 DEF SelectRoute, Goto, Selected, Takes, run, budget, rows,
        cells, schedulerLocals, database, environment, workerFrame, TypeInv,
        TypeOK, Labels
  <2>3. (edge \in [Branches -> Nat])'
    <3>1. UNCHANGED edge \/ \E i \in DOMAIN Edges : edge' = [edge EXCEPT ![b] = i]
      BY <1>27, <2>1 DEF SelectRoute, Selected
    <3>2. QED
      BY <2>1, <3>1, EdgesAssumption DEF TypeInv, TypeOK
  <2>4. QED
    BY <1>27, <2>2, <2>3 DEF SelectRoute, Goto, Selected, Takes, run, budget,
        rows, cells, schedulerLocals, database, environment, workerFrame,
        TypeInv, TypeOK
<1>28. ASSUME NEW b \in Branches, TraverseEdge(b) PROVE TypeOK'
  <2>1. at[b] \in Nodes /\ at[b] = current[b] /\ Here(b) \in Cells /\ edge[b] \in DOMAIN Edges
    BY <1>28 DEF TraverseEdge, TypeInv, TypeOK, WorkersOK, WorkerOK, Working,
        Here, Cells
  <2>2. (pc \in [Procs -> Labels])'
    BY <1>28, <2>1 DEF TraverseEdge, Goto, Here, Return, run, cells,
        schedulerLocals, environment, workerFrame, TypeInv, TypeOK, Labels
  <2>3. (edge \in [Branches -> Nat])'
    BY <1>28, <2>1 DEF TraverseEdge, Goto, Here, Return, run, cells,
        schedulerLocals, environment, workerFrame, TypeInv, TypeOK
  <2>4. (answer \in [Branches -> Results \cup {"blocked", None}])'
    BY <1>28, <2>1 DEF TraverseEdge, Goto, Here, Return, run, cells,
        schedulerLocals, environment, workerFrame, TypeInv, TypeOK, Results
  <2>5. (repairs \in Nat)'
    BY <1>28, <2>1 DEF TraverseEdge, Goto, Here, Return, run, cells,
        schedulerLocals, environment, workerFrame, TypeInv, TypeOK
  <2>6. (nodeRepairs \in [Cells -> Nat])'
    <3>1. \E k \in {0, 1} : nodeRepairs' \in {nodeRepairs, [nodeRepairs EXCEPT ![Here(b)] = @ + k]}
      BY <1>28, <2>1 DEF TraverseEdge, cells
    <3>2. QED
      BY <2>1, <3>1 DEF TypeInv, TypeOK
  <2>7. (traversals \in [Branches \X Nodes \X Nodes -> Nat])'
    <3>1. \/ UNCHANGED traversals
           \/ \E i \in DOMAIN Edges : traversals' = [traversals EXCEPT ![<<b, Edges[i].from, Edges[i].to>>] = @ + 1]
      BY <1>28, <2>1 DEF TraverseEdge, cells, Return
    <3>2. ASSUME NEW i \in DOMAIN Edges,
                 traversals' = [traversals EXCEPT ![<<b, Edges[i].from, Edges[i].to>>] = @ + 1]
          PROVE  traversals' \in [Branches \X Nodes \X Nodes -> Nat]
      <4> DEFINE t == <<b, Edges[i].from, Edges[i].to>>
      <4>1. t \in Branches \X Nodes \X Nodes
        BY EdgesAssumption
      <4>2. traversals \in [Branches \X Nodes \X Nodes -> Nat] /\ traversals[t] \in Nat
        BY <4>1 DEF TypeInv, TypeOK
      <4>3. traversals' = [traversals EXCEPT ![t] = traversals[t] + 1]
        BY <3>2
      <4> HIDE DEF t
      <4>4. QED
        BY <4>1, <4>2, <4>3
    <3>3. QED
      BY <3>1, <3>2 DEF TypeInv, TypeOK
  <2>8. (node \in [Cells -> NodeStatuses])'
    BY <1>28, <2>1 DEF TraverseEdge, Goto, Here, Return, run, cells,
        schedulerLocals, environment, workerFrame, TypeInv, TypeOK,
        NodeStatuses, Results, Cells
  <2>9. (result \in [Cells -> Results \cup {None}])'
    BY <1>28, <2>1 DEF TraverseEdge, Goto, Here, Return, run, cells,
        schedulerLocals, environment, workerFrame, TypeInv, TypeOK, Results,
        Cells
  <2>10. (resolved \in [Cells -> BOOLEAN])'
    BY <1>28, <2>1 DEF TraverseEdge, Goto, Here, Return, run, cells,
        schedulerLocals, environment, workerFrame, TypeInv, TypeOK, Cells
  <2>11. (current \in [Branches -> Nodes \cup {None}])'
    BY <1>28, <2>1 DEF TraverseEdge, Goto, Here, Return, run, cells,
        schedulerLocals, environment, workerFrame, TypeInv, TypeOK
  <2>12. QED
    BY <1>28, <2>2, <2>3, <2>4, <2>5, <2>6, <2>7, <2>8, <2>9, <2>10, <2>11 DEF
        TraverseEdge, Goto, Here, Return, run, cells, schedulerLocals,
        environment, workerFrame, TypeInv, TypeOK
<1>29. ASSUME NEW b \in Branches, FinishBranch(b) PROVE TypeOK'
  <2>1. Here(b) \in Cells /\ result[Here(b)] \in Results \ {"pending"}
    BY <1>29 DEF FinishBranch, TypeInv, TypeOK, WorkersOK, WorkerOK, ResultsOK,
        Working, Routing, Here, Cells
  <2>2. (pc \in [Procs -> Labels])'
    BY <1>29, <2>1 DEF FinishBranch, Goto, EndBranch, Return, BranchStatus, Here,
        run, budget, cells, schedulerLocals, workerLocals, environment,
        workerFrame, TypeInv, TypeOK, Labels
  <2>3. (branch \in [Branches -> BranchStatuses])'
    BY <1>29, <2>1 DEF FinishBranch, Goto, EndBranch, Return, BranchStatus, Here,
        run, budget, cells, schedulerLocals, workerLocals, environment,
        workerFrame, TypeInv, TypeOK, BranchStatuses, Ended, Results
  <2>4. (current \in [Branches -> Nodes \cup {None}])'
    BY <1>29, <2>1 DEF FinishBranch, Goto, EndBranch, Return, BranchStatus, Here,
        run, budget, cells, schedulerLocals, workerLocals, environment,
        workerFrame, TypeInv, TypeOK
  <2>5. QED
    BY <1>29, <2>2, <2>3, <2>4 DEF FinishBranch, Goto, EndBranch, Return,
        BranchStatus, Here, run, budget, cells, schedulerLocals, workerLocals,
        environment, workerFrame, TypeInv, TypeOK
<1>30. ASSUME NEW b \in Branches, BlockBranch(b) PROVE TypeOK'
  <2>1. answer[b] \in {"error", "blocked"}
    BY <1>30 DEF BlockBranch, TypeInv, WorkersOK, WorkerOK
  <2>2. (pc \in [Procs -> Labels])'
    BY <1>30, <2>1 DEF BlockBranch, Goto, EndBranch, Return, run, budget, cells,
        schedulerLocals, workerLocals, environment, workerFrame, TypeInv,
        TypeOK, Labels
  <2>3. (branch \in [Branches -> BranchStatuses])'
    BY <1>30, <2>1 DEF BlockBranch, Goto, EndBranch, Return, run, budget, cells,
        schedulerLocals, workerLocals, environment, workerFrame, TypeInv,
        TypeOK, BranchStatuses, Ended, Results
  <2>4. (current \in [Branches -> Nodes \cup {None}])'
    BY <1>30, <2>1 DEF BlockBranch, Goto, EndBranch, Return, run, budget, cells,
        schedulerLocals, workerLocals, environment, workerFrame, TypeInv,
        TypeOK
  <2>5. QED
    BY <1>30, <2>2, <2>3, <2>4 DEF BlockBranch, Goto, EndBranch, Return, run,
        budget, cells, schedulerLocals, workerLocals, environment,
        workerFrame, TypeInv, TypeOK
<1>31. ASSUME NEW c \in Controllers, Control(c) PROVE TypeOK'
  BY <1>31 DEF Control, Goto, Allowed, run, budget, rows, cells,
      schedulerLocals, workerLocals, controlFrame, TypeInv, TypeOK, Labels,
      Results, Ended, Terminal, RunStatuses, BranchStatuses,
      ContainerStatuses, NodeStatuses, Cells, SchedulerOK, WorkersOK,
      WorkerOK, Working, Routing, ControllersOK, ResultsOK
<1>32. ASSUME NEW c \in Controllers, CancelPending(c) PROVE TypeOK'
  BY <1>32 DEF CancelPending, Goto, CancelBranches, run, budget, cells,
      schedulerLocals, workerLocals, controlFrame, TypeInv, TypeOK, Labels,
      Results, Ended, Terminal, RunStatuses, BranchStatuses,
      ContainerStatuses, NodeStatuses, Cells, SchedulerOK, WorkersOK,
      WorkerOK, Working, Routing, ControllersOK, ResultsOK
<1>33. ASSUME NEW c \in Controllers, CancelRun(c) PROVE TypeOK'
  BY <1>33 DEF CancelRun, Goto, run, budget, rows, cells, schedulerLocals,
      workerLocals, controlFrame, TypeInv, TypeOK, Labels, Results, Ended,
      Terminal, RunStatuses, BranchStatuses, ContainerStatuses, NodeStatuses,
      Cells, SchedulerOK, WorkersOK, WorkerOK, Working, Routing,
      ControllersOK, ResultsOK
<1>34. ASSUME NEW c \in Controllers, CancelIncomplete(c) PROVE TypeOK'
  BY <1>34 DEF CancelIncomplete, Goto, CancelBranches, run, budget, cells,
      schedulerLocals, workerLocals, controlFrame, TypeInv, TypeOK, Labels,
      Results, Ended, Terminal, RunStatuses, BranchStatuses,
      ContainerStatuses, NodeStatuses, Cells, SchedulerOK, WorkersOK,
      WorkerOK, Working, Routing, ControllersOK, ResultsOK
<1>35. ASSUME NEW c \in Controllers, FinishCancelled(c) PROVE TypeOK'
  BY <1>35 DEF FinishCancelled, Goto, FinishRun, AlreadyFinished, run, budget,
      rows, cells, schedulerLocals, workerLocals, controlFrame, TypeInv,
      TypeOK, Labels, Results, Ended, Terminal, RunStatuses, BranchStatuses,
      ContainerStatuses, NodeStatuses, Cells, SchedulerOK, WorkersOK,
      WorkerOK, Working, Routing, ControllersOK, ResultsOK
<1>36. ASSUME NEW c \in Controllers, NEW x \in Actions, Ask(c, x) PROVE TypeOK'
  BY <1>36 DEF Ask, Goto, run, budget, rows, cells, schedulerLocals,
      workerLocals, controlFrame, TypeInv, TypeOK, Labels, Results, Ended,
      Terminal, RunStatuses, BranchStatuses, ContainerStatuses, NodeStatuses,
      Cells, SchedulerOK, WorkersOK, WorkerOK, Working, Routing,
      ControllersOK, ResultsOK
<1>37. CASE UNCHANGED vars
  BY <1>37 DEF vars, run, budget, rows, cells, schedulerLocals, workerLocals,
      database, environment, outside, TypeInv, TypeOK, Labels, Results, Ended,
      Terminal, RunStatuses, BranchStatuses, ContainerStatuses, NodeStatuses,
      Cells, SchedulerOK, WorkersOK, WorkerOK, Working, Routing,
      ControllersOK, ResultsOK
<1>38. QED
  BY <1>1, <1>2, <1>3, <1>4, <1>5, <1>6, <1>7, <1>8, <1>9, <1>10, <1>11,
      <1>12, <1>13, <1>14, <1>15, <1>16, <1>17, <1>18, <1>19, <1>20, <1>21,
      <1>22, <1>23, <1>24, <1>25, <1>26, <1>27, <1>28, <1>29, <1>30, <1>31,
      <1>32, <1>33, <1>34, <1>35, <1>36, <1>37 DEF Next, RunLoop, Worker,
      Operation

LEMMA TypeStep == ASSUME TypeInv, [Next]_vars PROVE TypeInv'
BY TypeOKStep, SchedulerStep, WorkersStep, ControllersStep, ResultsStep DEF TypeInv

LEMMA TypeInit == Init => TypeInv
<1> USE ProcsAssumption, NamesAssumption
<1> SUFFICES ASSUME Init PROVE TypeInv
  OBVIOUS
<1>1. TypeOK
  BY DEF Init, TypeOK, Labels, Results, Ended, Terminal, RunStatuses, BranchStatuses,
    ContainerStatuses, NodeStatuses, Cells
<1>2. SchedulerOK /\ ControllersOK /\ ResultsOK
  BY DEF Init, SchedulerOK, SchedulerLabels, ControllersOK, ControlLabels, ResultsOK, Results,
    Cells, Ended
<1>3. WorkersOK
  BY DEF Init, WorkersOK, WorkerOK, WorkerLabels, Working, Routing
<1>4. QED
  BY <1>1, <1>2, <1>3 DEF TypeInv

(* The types, and what a program counter says of the locals.               *)
THEOREM TypesHold == Spec => []TypeInv
BY TypeInit, TypeStep, PTL DEF Spec

THEOREM TypeCorrect == Spec => []TypeOK
<1>1. TypeInv => TypeOK
  BY DEF TypeInv
<1>2. QED
  BY TypesHold, <1>1, PTL

----------------------------------------------------------------------------
(* Barriers.                                                               *)

LEMMA NothingStarts ==
  ASSUME [Next]_vars, barrier # None PROVE attempts' = attempts /\ traversals' = traversals
<1>1. CASE RunLoop
  BY <1>1 DEF RunLoop, ReadStatus, Schedule, StartContainer, Step, Admit,
      JoinWave, Settled, SweepWave, Aggregate, PersistContainer, HonorBarrier,
      PauseAtSafePoint, AfterResult, Route, SweepInterrupted, Finish,
      database, run, cells
<1>2. ASSUME NEW b \in Branches, Worker(b) PROVE attempts' = attempts /\ traversals' = traversals
  BY <1>2 DEF Worker, EnterBranch, LookAtNode, StartBranchAttempt, InvokeNode,
      PollNode, PersistNode, SelectRoute, TraverseEdge, FinishBranch,
      BlockBranch, EndBranch, StartRefused, StartForbidden, database, cells
<1>3. ASSUME NEW c \in Controllers, Operation(c) \/ \E a \in Actions : Ask(c, a)
      PROVE  attempts' = attempts /\ traversals' = traversals
  BY <1>3 DEF Operation, Ask, Control, CancelPending, CancelRun,
      CancelIncomplete, FinishCancelled, controlFrame, cells
<1>4. QED
  BY <1>1, <1>2, <1>3 DEF Next, CallRun, Restart, Crash, Expire, vars, database, cells

(* BarrierHolds: what a worker read before the barrier lets it start or    *)
(* route nothing behind it.                                                *)
THEOREM BarriersHold == Spec => BarrierHolds
<1>1. [Next]_vars => [barrier # None => attempts' = attempts /\ traversals' = traversals]_vars
  BY NothingStarts
<1>2. QED
  BY <1>1, PTL DEF Spec, BarrierHolds

----------------------------------------------------------------------------
(* Attempts.                                                               *)

(* What a worker knows of the node it is at, ...                           *)
KnowsNode(b) ==
  LET c == <<b, current[b]>> IN
  /\ pc[b] \in {"poll", "invoke", "persist"} => node[c] = "running"
  /\ pc[b] = "invoke" => issued[c] < attempts[c]
  /\ pc[b] = "persist" => issued[c] = attempts[c]
  /\ pc[b] \in Routing => node[c] # "running"

(* ... which is the only one of the branch that is running.                *)
OneRuns(b) == \A n \in Nodes : node[<<b, n>>] = "running" => current[b] \in {n, None}

(* A handle belongs to a call that was made.                               *)
HandleTells(b) ==
  \A n \in Nodes :
    /\ n \notin External => handle[<<b, n>>] = "none"
    /\ node[<<b, n>>] = "running" /\ handle[<<b, n>>] = "checkpointed"
         => issued[<<b, n>>] = attempts[<<b, n>>]

BranchSettled(b) ==
  \A n \in Nodes :
    /\ attempts[<<b, n>>] = finished[<<b, n>>] + (IF node[<<b, n>>] = "running" THEN 1 ELSE 0)
    /\ finished[<<b, n>>] <= issued[<<b, n>>] /\ issued[<<b, n>>] <= attempts[<<b, n>>]

ExecOK(b) == KnowsNode(b) /\ OneRuns(b) /\ HandleTells(b) /\ BranchSettled(b)

ExecInv == \A b \in Branches : ExecOK(b)

LEMMA ExecStays == ASSUME NEW b \in Branches, TypeInv, ExecOK(b), Stays(b) PROVE ExecOK(b)'
<1>1. pc'[b] \in {"poll", "invoke", "persist"} \cup Routing
      => pc'[b] = pc[b] /\ current[b] \in Nodes
  BY DEF TypeInv, TypeOK, WorkersOK, WorkerOK, Working, Routing, Stays
<1>2. KnowsNode(b)'
  BY <1>1 DEF ExecOK, KnowsNode, Stays, Routing
<1>3. OneRuns(b)' /\ HandleTells(b)' /\ BranchSettled(b)'
  BY DEF ExecOK, OneRuns, HandleTells, BranchSettled, Stays
<1>4. QED
  BY <1>2, <1>3 DEF ExecOK

LEMMA ExecStepOf == ASSUME TypeInv, NEW b \in Branches, ExecOK(b), Worker(b) PROVE ExecOK(b)'
<1> USE ProcsAssumption, EdgesAssumption, NamesAssumption
<1>1. CASE EnterBranch(b)
  <2>1. KnowsNode(b)'
    BY <1>1 DEF EnterBranch, Goto, run, budget, rows, cells, schedulerLocals,
        workerLocals, database, environment, workerFrame, TypeInv, TypeOK,
        WorkersOK, WorkerOK, Working, Cells, ExecOK, KnowsNode, Routing,
        OneRuns, HandleTells, BranchSettled
  <2>2. OneRuns(b)'
    BY <1>1 DEF EnterBranch, Goto, run, budget, rows, cells, schedulerLocals,
        workerLocals, database, environment, workerFrame, TypeInv, TypeOK,
        WorkersOK, WorkerOK, Working, Cells, ExecOK, OneRuns, KnowsNode,
        HandleTells, BranchSettled, Routing
  <2>3. HandleTells(b)'
    BY <1>1 DEF EnterBranch, Goto, run, budget, rows, cells, schedulerLocals,
        workerLocals, database, environment, workerFrame, TypeInv, TypeOK,
        WorkersOK, WorkerOK, Working, Cells, ExecOK, HandleTells, KnowsNode,
        OneRuns, BranchSettled, Routing
  <2>4. BranchSettled(b)'
    BY <1>1 DEF EnterBranch, Goto, run, budget, rows, cells, schedulerLocals,
        workerLocals, database, environment, workerFrame, TypeInv, TypeOK,
        WorkersOK, WorkerOK, Working, Cells, ExecOK, BranchSettled, KnowsNode,
        OneRuns, HandleTells, Routing
  <2>5. QED
    BY <2>1, <2>2, <2>3, <2>4 DEF ExecOK
<1>2. CASE LookAtNode(b)
  <2>1. KnowsNode(b)'
    BY <1>2 DEF LookAtNode, Goto, run, budget, rows, cells, schedulerLocals,
        database, environment, workerFrame, TypeInv, TypeOK, WorkersOK,
        WorkerOK, Working, Cells, ExecOK, KnowsNode, Routing, OneRuns,
        HandleTells, BranchSettled
  <2>2. OneRuns(b)'
    BY <1>2 DEF LookAtNode, Goto, run, budget, rows, cells, schedulerLocals,
        database, environment, workerFrame, TypeInv, TypeOK, WorkersOK,
        WorkerOK, Working, Cells, ExecOK, OneRuns, KnowsNode, HandleTells,
        BranchSettled, Routing
  <2>3. HandleTells(b)'
    BY <1>2 DEF LookAtNode, Goto, run, budget, rows, cells, schedulerLocals,
        database, environment, workerFrame, TypeInv, TypeOK, WorkersOK,
        WorkerOK, Working, Cells, ExecOK, HandleTells, KnowsNode, OneRuns,
        BranchSettled, Routing
  <2>4. BranchSettled(b)'
    BY <1>2 DEF LookAtNode, Goto, run, budget, rows, cells, schedulerLocals,
        database, environment, workerFrame, TypeInv, TypeOK, WorkersOK,
        WorkerOK, Working, Cells, ExecOK, BranchSettled, KnowsNode, OneRuns,
        HandleTells, Routing
  <2>5. QED
    BY <2>1, <2>2, <2>3, <2>4 DEF ExecOK
<1>3. CASE StartBranchAttempt(b)
  <2> DEFINE c == <<b, current[b]>>
  <2>1. current[b] \in Nodes /\ Here(b) = c /\ at[b] = current[b] /\ c \in Cells
    BY <1>3 DEF StartBranchAttempt, TypeInv, TypeOK, WorkersOK, WorkerOK, Working, Here, Cells
  <2>2. CASE /\ pc'[b] \in {"raised", "block"}
             /\ UNCHANGED <<node, attempts, finished, issued, handle, current>>
    BY <2>1, <2>2 DEF ExecOK, KnowsNode, OneRuns, HandleTells, BranchSettled, Routing
  <2>3. CASE ~StartRefused(b) /\ ~StartExhausted(b)
    <3>1. /\ node[c] = "ready" /\ pc'[b] = "invoke"
          /\ node' = [node EXCEPT ![c] = "running"]
          /\ attempts' = [attempts EXCEPT ![c] = attempts[c] + 1]
          /\ handle' = IF current[b] \in External THEN [handle EXCEPT ![c] = "triggering"]
                                                  ELSE handle
          /\ UNCHANGED <<finished, issued, current>>
      BY <1>3, <2>1, <2>3 DEF StartBranchAttempt, StartRefused, StartForbidden, StartExhausted, Goto,
        rows, TypeInv, TypeOK
    <3>2. /\ \A n \in Nodes : node'[<<b, n>>] = IF n = current[b] THEN "running" ELSE node[<<b, n>>]
          /\ \A n \in Nodes : attempts'[<<b, n>>] =
               IF n = current[b] THEN attempts[<<b, n>>] + 1 ELSE attempts[<<b, n>>]
          /\ \A n \in Nodes : handle'[<<b, n>>] =
               IF n = current[b] /\ n \in External THEN "triggering" ELSE handle[<<b, n>>]
      BY <2>1, <3>1 DEF TypeInv, TypeOK, Cells
    <3>3. \A n \in Nodes : attempts[<<b, n>>] \in Nat /\ finished[<<b, n>>] \in Nat /\ issued[<<b, n>>] \in Nat
      BY DEF TypeInv, TypeOK, Cells
    <3> HIDE DEF c
    <3>4. KnowsNode(b)'
      BY <2>1, <3>1, <3>2, <3>3 DEF ExecOK, KnowsNode, BranchSettled, Routing, c
    <3>5. OneRuns(b)'
      BY <2>1, <3>1, <3>2 DEF ExecOK, OneRuns, c
    <3>6. HandleTells(b)'
      BY <2>1, <3>1, <3>2, <3>3 DEF ExecOK, HandleTells, c
    <3>7. BranchSettled(b)'
      BY <2>1, <3>1, <3>2, <3>3 DEF ExecOK, BranchSettled, c
    <3>8. QED
      BY <3>4, <3>5, <3>6, <3>7 DEF ExecOK
  <2>4. QED
    BY <1>3, <2>2, <2>3 DEF StartBranchAttempt, Goto, cells, rows, TypeInv, TypeOK
<1>4. CASE InvokeNode(b)
  <2> DEFINE c == <<b, current[b]>>
  <2>1. current[b] \in Nodes /\ Here(b) = c /\ at[b] = current[b] /\ c \in Cells
    BY <1>4 DEF InvokeNode, TypeInv, TypeOK, WorkersOK, WorkerOK, Working, Here, Cells
  <2>2. /\ issued' = [issued EXCEPT ![c] = issued[c] + 1] /\ pc'[b] = "persist" /\ pc[b] = "invoke"
        /\ UNCHANGED <<node, attempts, finished, handle, current>>
    BY <1>4, <2>1 DEF InvokeNode, Goto, database, cells, rows, TypeInv, TypeOK
  <2>3. \A n \in Nodes : issued'[<<b, n>>] = IF n = current[b] THEN issued[<<b, n>>] + 1 ELSE issued[<<b, n>>]
    BY <2>1, <2>2 DEF TypeInv, TypeOK, Cells
  <2>4. \A n \in Nodes : attempts[<<b, n>>] \in Nat /\ finished[<<b, n>>] \in Nat /\ issued[<<b, n>>] \in Nat
    BY DEF TypeInv, TypeOK, Cells
  <2>5. /\ node[c] = "running" /\ issued[c] < attempts[c]
        /\ attempts[c] = finished[c] + 1 /\ finished[c] <= issued[c]
    BY <2>1, <2>2 DEF ExecOK, KnowsNode, BranchSettled
  <2>6. issued[c] + 1 = attempts[c]
    BY <2>1, <2>4, <2>5
  <2> HIDE DEF c
  <2>7. KnowsNode(b)' /\ OneRuns(b)'
    BY <2>1, <2>2, <2>3, <2>5, <2>6 DEF ExecOK, KnowsNode, OneRuns, Routing, c
  <2>8. HandleTells(b)' /\ BranchSettled(b)'
    BY <2>1, <2>2, <2>3, <2>4, <2>5, <2>6 DEF ExecOK, HandleTells, BranchSettled, c
  <2>9. QED
    BY <2>7, <2>8 DEF ExecOK
<1>5. CASE PollNode(b)
  <2>1. KnowsNode(b)'
    <3>1. current[b] \in Nodes /\ Here(b) = <<b, current[b]>> /\ node[<<b, current[b]>>] = "running"
      BY <1>5 DEF PollNode, TypeInv, TypeOK, WorkersOK, WorkerOK, Working, Here, ExecOK, KnowsNode
    <3>2. /\ pc'[b] \in {"block", "persist", "raised"}
          /\ pc'[b] = "persist" => handle[<<b, current[b]>>] = "checkpointed"
          /\ UNCHANGED <<node, attempts, issued, current>>
      BY <1>5, <3>1 DEF PollNode, Lost, Goto, database, cells, rows, TypeInv, TypeOK
    <3>3. QED
      BY <3>1, <3>2 DEF ExecOK, KnowsNode, HandleTells, Routing
  <2>2. OneRuns(b)'
    BY <1>5 DEF PollNode, Goto, Here, Outcomes, run, budget, rows, cells,
        schedulerLocals, database, environment, workerFrame, TypeInv, TypeOK,
        WorkersOK, WorkerOK, Working, Cells, ExecOK, OneRuns, KnowsNode,
        HandleTells, BranchSettled, Routing
  <2>3. HandleTells(b)'
    BY <1>5 DEF PollNode, Goto, Here, Outcomes, run, budget, rows, cells,
        schedulerLocals, database, environment, workerFrame, TypeInv, TypeOK,
        WorkersOK, WorkerOK, Working, Cells, ExecOK, HandleTells, KnowsNode,
        OneRuns, BranchSettled, Routing
  <2>4. BranchSettled(b)'
    BY <1>5 DEF PollNode, Goto, Here, Outcomes, run, budget, rows, cells,
        schedulerLocals, database, environment, workerFrame, TypeInv, TypeOK,
        WorkersOK, WorkerOK, Working, Cells, ExecOK, BranchSettled, KnowsNode,
        OneRuns, HandleTells, Routing
  <2>5. QED
    BY <2>1, <2>2, <2>3, <2>4 DEF ExecOK
<1>6. CASE PersistNode(b)
  <2> DEFINE c == <<b, current[b]>>
  <2>1. current[b] \in Nodes /\ Here(b) = c /\ at[b] = current[b] /\ c \in Cells
    BY <1>6 DEF PersistNode, TypeInv, TypeOK, WorkersOK, WorkerOK, Working, Here, Cells
  <2>2. /\ node[c] = "running" /\ issued[c] = attempts[c] /\ attempts[c] = finished[c] + 1
        /\ finished[c] <= issued[c]
    BY <1>6, <2>1 DEF PersistNode, ExecOK, KnowsNode, BranchSettled
  <2>3. \A n \in Nodes : attempts[<<b, n>>] \in Nat /\ finished[<<b, n>>] \in Nat /\ issued[<<b, n>>] \in Nat
    BY DEF TypeInv, TypeOK, Cells
  <2>4. /\ UNCHANGED <<attempts, issued, current>> /\ pc'[b] \in {"idle", "route"}
        /\ \/ UNCHANGED <<node, finished>> /\ pc'[b] = "idle"
           \/ /\ node' = [node EXCEPT ![c] = NodeStatus(answer[b])]
              /\ finished' = [finished EXCEPT ![c] = finished[c] + 1]
        /\ handle' \in {handle, [handle EXCEPT ![c] = "checkpointed"]}
        /\ current[b] \notin External => handle' = handle
    BY <1>6, <2>1 DEF PersistNode, Goto, Return, cells, rows, budget, outside, TypeInv, TypeOK
  <2>5. NodeStatus(answer[b]) # "running"
    BY <1>6 DEF PersistNode, NodeStatus, TypeInv, WorkersOK, WorkerOK, Results
  <2>6. \/ /\ pc'[b] = "idle"
           /\ \A n \in Nodes : node'[<<b, n>>] = node[<<b, n>>] /\ finished'[<<b, n>>] = finished[<<b, n>>]
        \/ /\ \A n \in Nodes \ {current[b]} :
                node'[<<b, n>>] = node[<<b, n>>] /\ finished'[<<b, n>>] = finished[<<b, n>>]
           /\ node'[c] # "running" /\ finished'[c] = finished[c] + 1
    <3>1. CASE UNCHANGED <<node, finished>> /\ pc'[b] = "idle"
      BY <3>1
    <3>2. CASE /\ node' = [node EXCEPT ![c] = NodeStatus(answer[b])]
               /\ finished' = [finished EXCEPT ![c] = finished[c] + 1]
      BY <2>1, <2>5, <3>2 DEF TypeInv, TypeOK, Cells
    <3>3. QED
      BY <2>4, <3>1, <3>2
  <2>7. \A n \in Nodes : \/ handle'[<<b, n>>] = handle[<<b, n>>]
                         \/ n = current[b] /\ n \in External /\ handle'[<<b, n>>] = "checkpointed"
    <3>1. CASE handle' = handle
      BY <3>1
    <3>2. CASE handle' = [handle EXCEPT ![c] = "checkpointed"] /\ current[b] \in External
      BY <2>1, <3>2 DEF TypeInv, TypeOK, Cells
    <3>3. QED
      BY <2>4, <3>1, <3>2
  <2> HIDE DEF c
  <2>8. KnowsNode(b)' /\ OneRuns(b)'
    BY <2>1, <2>4, <2>6 DEF ExecOK, KnowsNode, OneRuns, Routing, c
  <2>9. HandleTells(b)'
    BY <2>1, <2>2, <2>4, <2>6, <2>7 DEF ExecOK, HandleTells, c
  <2>10. BranchSettled(b)'
    BY <2>1, <2>2, <2>3, <2>4, <2>6 DEF ExecOK, BranchSettled, c
  <2>11. QED
    BY <2>8, <2>9, <2>10 DEF ExecOK
<1>7. CASE SelectRoute(b)
  <2>1. KnowsNode(b)'
    BY <1>7 DEF SelectRoute, Goto, Selected, Takes, run, budget, rows, cells,
        schedulerLocals, database, environment, workerFrame, TypeInv, TypeOK,
        WorkersOK, WorkerOK, Working, Cells, ExecOK, KnowsNode, Routing,
        OneRuns, HandleTells, BranchSettled
  <2>2. OneRuns(b)'
    BY <1>7 DEF SelectRoute, Goto, Selected, Takes, run, budget, rows, cells,
        schedulerLocals, database, environment, workerFrame, TypeInv, TypeOK,
        WorkersOK, WorkerOK, Working, Cells, ExecOK, OneRuns, KnowsNode,
        HandleTells, BranchSettled, Routing
  <2>3. HandleTells(b)'
    BY <1>7 DEF SelectRoute, Goto, Selected, Takes, run, budget, rows, cells,
        schedulerLocals, database, environment, workerFrame, TypeInv, TypeOK,
        WorkersOK, WorkerOK, Working, Cells, ExecOK, HandleTells, KnowsNode,
        OneRuns, BranchSettled, Routing
  <2>4. BranchSettled(b)'
    BY <1>7 DEF SelectRoute, Goto, Selected, Takes, run, budget, rows, cells,
        schedulerLocals, database, environment, workerFrame, TypeInv, TypeOK,
        WorkersOK, WorkerOK, Working, Cells, ExecOK, BranchSettled, KnowsNode,
        OneRuns, HandleTells, Routing
  <2>5. QED
    BY <2>1, <2>2, <2>3, <2>4 DEF ExecOK
<1>8. CASE TraverseEdge(b)
  <2> DEFINE c == <<b, current[b]>>
  <2>1. current[b] \in Nodes /\ pc[b] = "traverse" /\ edge[b] \in DOMAIN Edges /\ Edges[edge[b]].to \in Nodes
    BY <1>8 DEF TraverseEdge, TypeInv, TypeOK, WorkersOK, WorkerOK, Working
  <2>2. \A n \in Nodes : node[<<b, n>>] # "running"
    BY <2>1 DEF ExecOK, KnowsNode, OneRuns, Routing
  <2>3. /\ UNCHANGED <<attempts, finished, issued, handle>> /\ pc'[b] \in {"idle", "block"}
        /\ node' \in {node, [node EXCEPT ![<<b, Edges[edge[b]].to>>] = "ready"]}
    BY <1>8 DEF TraverseEdge, Goto, Return, cells, TypeInv, TypeOK
  <2>4. \A n \in Nodes : node'[<<b, n>>] # "running"
    BY <2>1, <2>2, <2>3 DEF TypeInv, TypeOK, Cells
  <2>5. QED
    BY <2>2, <2>3, <2>4 DEF ExecOK, KnowsNode, OneRuns, HandleTells, BranchSettled, Routing
<1>9. CASE FinishBranch(b)
  <2>1. KnowsNode(b)'
    BY <1>9 DEF FinishBranch, Goto, EndBranch, Return, BranchStatus, Here,
        run, budget, cells, schedulerLocals, workerLocals, environment,
        workerFrame, TypeInv, TypeOK, WorkersOK, WorkerOK, Working, Cells,
        ExecOK, KnowsNode, Routing, OneRuns, HandleTells, BranchSettled
  <2>2. OneRuns(b)'
    BY <1>9 DEF FinishBranch, Goto, EndBranch, Return, BranchStatus, Here,
        run, budget, cells, schedulerLocals, workerLocals, environment,
        workerFrame, TypeInv, TypeOK, WorkersOK, WorkerOK, Working, Cells,
        ExecOK, OneRuns, KnowsNode, HandleTells, BranchSettled, Routing
  <2>3. HandleTells(b)'
    BY <1>9 DEF FinishBranch, Goto, EndBranch, Return, BranchStatus, Here,
        run, budget, cells, schedulerLocals, workerLocals, environment,
        workerFrame, TypeInv, TypeOK, WorkersOK, WorkerOK, Working, Cells,
        ExecOK, HandleTells, KnowsNode, OneRuns, BranchSettled, Routing
  <2>4. BranchSettled(b)'
    BY <1>9 DEF FinishBranch, Goto, EndBranch, Return, BranchStatus, Here,
        run, budget, cells, schedulerLocals, workerLocals, environment,
        workerFrame, TypeInv, TypeOK, WorkersOK, WorkerOK, Working, Cells,
        ExecOK, BranchSettled, KnowsNode, OneRuns, HandleTells, Routing
  <2>5. QED
    BY <2>1, <2>2, <2>3, <2>4 DEF ExecOK
<1>10. CASE BlockBranch(b)
  <2>1. KnowsNode(b)'
    BY <1>10 DEF BlockBranch, Goto, EndBranch, Return, run, budget, cells,
        schedulerLocals, workerLocals, environment, workerFrame, TypeInv,
        TypeOK, WorkersOK, WorkerOK, Working, Cells, ExecOK, KnowsNode,
        Routing, OneRuns, HandleTells, BranchSettled
  <2>2. OneRuns(b)'
    BY <1>10 DEF BlockBranch, Goto, EndBranch, Return, run, budget, cells,
        schedulerLocals, workerLocals, environment, workerFrame, TypeInv,
        TypeOK, WorkersOK, WorkerOK, Working, Cells, ExecOK, OneRuns,
        KnowsNode, HandleTells, BranchSettled, Routing
  <2>3. HandleTells(b)'
    BY <1>10 DEF BlockBranch, Goto, EndBranch, Return, run, budget, cells,
        schedulerLocals, workerLocals, environment, workerFrame, TypeInv,
        TypeOK, WorkersOK, WorkerOK, Working, Cells, ExecOK, HandleTells,
        KnowsNode, OneRuns, BranchSettled, Routing
  <2>4. BranchSettled(b)'
    BY <1>10 DEF BlockBranch, Goto, EndBranch, Return, run, budget, cells,
        schedulerLocals, workerLocals, environment, workerFrame, TypeInv,
        TypeOK, WorkersOK, WorkerOK, Working, Cells, ExecOK, BranchSettled,
        KnowsNode, OneRuns, HandleTells, Routing
  <2>5. QED
    BY <2>1, <2>2, <2>3, <2>4 DEF ExecOK
<1>11. QED
  BY <1>1, <1>2, <1>3, <1>4, <1>5, <1>6, <1>7, <1>8, <1>9, <1>10 DEF Worker

LEMMA ExecStep == ASSUME TypeInv, ExecInv, [Next]_vars PROVE ExecInv'
<1>1. CASE Elsewhere
  BY <1>1, BranchesStay, ExecStays DEF TypeInv, ExecInv
<1>2. ASSUME NEW b \in Branches, Worker(b) PROVE ExecInv'
  BY <1>2, OthersStay, ExecStays, ExecStepOf DEF TypeInv, ExecInv
<1>3. QED
  BY <1>1, <1>2 DEF Next, Elsewhere

LEMMA ExecInit == Init => ExecInv
<1> SUFFICES ASSUME Init, NEW b \in Branches PROVE ExecOK(b)
  BY DEF ExecInv
<1>1. pc[b] = "idle" /\ current[b] = Entry
  BY ProcsAssumption DEF Init
<1>2. \A n \in Nodes : /\ node[<<b, n>>] \in {"ready", "pending"} /\ handle[<<b, n>>] = "none"
                       /\ attempts[<<b, n>>] = 0 /\ finished[<<b, n>>] = 0 /\ issued[<<b, n>>] = 0
  BY DEF Init, Cells
<1>3. QED
  BY <1>1, <1>2 DEF ExecOK, KnowsNode, OneRuns, HandleTells, BranchSettled, Routing

(* Workers know their nodes, and each branch has one attempt under way.    *)
THEOREM ExecHolds == Spec => [](TypeInv /\ ExecInv)
<1>1. Init => TypeInv /\ ExecInv
  BY TypeInit, ExecInit
<1>2. TypeInv /\ ExecInv /\ [Next]_vars => (TypeInv /\ ExecInv)'
  BY TypeStep, ExecStep
<1>3. QED
  BY <1>1, <1>2, PTL DEF Spec

(* AttemptsSettled: no attempt of a branch is lost, repeated, or ended     *)
(* without its call, through every crash and poll.                         *)
THEOREM AttemptsSettle == Spec => []AttemptsSettled
<1>1. TypeInv /\ ExecInv => AttemptsSettled
  BY DEF ExecInv, ExecOK, BranchSettled, AttemptsSettled, Cells
<1>2. QED
  BY <1>1, ExecHolds, PTL

----------------------------------------------------------------------------
(* The shared budget.                                                      *)

(* The limits of a branch.                                                 *)
LimitsHeld(b) ==
  /\ \A n \in Nodes : attempts[<<b, n>>] <= NodeCalls[n]
  /\ \A i \in DOMAIN Edges :
       (Edges[i].cap # 0 /\ \A j \in DOMAIN Edges :
          (Edges[j].from = Edges[i].from /\ Edges[j].to = Edges[i].to) => j = i)
       => traversals[<<b, Edges[i].from, Edges[i].to>>] <= Edges[i].cap
  /\ pc[b] = "traverse" =>
       LET e == Edges[edge[b]] IN
       e.cap = 0 \/ traversals[<<b, e.from, e.to>>] < e.cap

LimitsInv == calls <= MaxCalls /\ repairs <= MaxRepairs /\ \A b \in Branches : LimitsHeld(b)

LEMMA LimitsStay == ASSUME NEW b \in Branches, TypeInv, LimitsHeld(b), Stays(b) PROVE LimitsHeld(b)'
<1>1. \A n \in Nodes : attempts'[<<b, n>>] <= NodeCalls[n]
  BY DEF LimitsHeld, Stays
<1>2. \A i \in DOMAIN Edges : traversals'[<<b, Edges[i].from, Edges[i].to>>]
                                = traversals[<<b, Edges[i].from, Edges[i].to>>]
  BY EdgesAssumption DEF Stays
<1>3. pc'[b] = "traverse" => pc[b] = "traverse" /\ edge'[b] = edge[b] /\ edge[b] \in DOMAIN Edges
  BY DEF Stays, TypeInv, WorkersOK, WorkerOK
<1>4. QED
  BY <1>1, <1>2, <1>3 DEF LimitsHeld

LEMMA LimitsStepOf ==
  ASSUME TypeInv, NEW b \in Branches, LimitsHeld(b), Worker(b) PROVE LimitsHeld(b)'
<1> USE ProcsAssumption, EdgesAssumption
<1>1. CASE StartBranchAttempt(b)
  <2>1. UNCHANGED traversals /\ pc'[b] # "traverse" /\ Here(b) \in Cells /\ at[b] \in Nodes
    BY <1>1 DEF StartBranchAttempt, Goto, Here, Cells, TypeInv, TypeOK, WorkersOK, WorkerOK, Working
  <2>2. \/ UNCHANGED attempts
        \/ /\ attempts' = [attempts EXCEPT ![Here(b)] = attempts[Here(b)] + 1]
           /\ ~(attempts[Here(b)] >= NodeCalls[at[b]])
    BY <1>1 DEF StartBranchAttempt, StartExhausted, cells
  <2>3. attempts \in [Cells -> Nat] /\ \A n \in Nodes : NodeCalls[n] \in Nat
    BY NamesAssumption DEF TypeInv, TypeOK
  <2>4. \A n \in Nodes : attempts'[<<b, n>>] <= NodeCalls[n]
    <3>1. CASE UNCHANGED attempts
      BY <3>1 DEF LimitsHeld
    <3>2. CASE /\ attempts' = [attempts EXCEPT ![Here(b)] = attempts[Here(b)] + 1]
               /\ ~(attempts[Here(b)] >= NodeCalls[at[b]])
      BY <2>1, <2>3, <3>2 DEF LimitsHeld, Here, Cells
    <3>3. QED
      BY <2>2, <3>1, <3>2
  <2>5. QED
    BY <2>1, <2>4 DEF LimitsHeld
<1>2. CASE SelectRoute(b)
  <2>1. UNCHANGED <<attempts, traversals>>
    BY <1>2 DEF SelectRoute, database, cells
  <2>2. pc'[b] = "traverse" =>
          \E i \in DOMAIN Edges : /\ edge'[b] = i
                                  /\ \/ Edges[i].cap = 0
                                     \/ traversals[<<b, Edges[i].from, Edges[i].to>>] < Edges[i].cap
    BY <1>2 DEF SelectRoute, Selected, Takes, Goto, TypeInv, TypeOK
  <2>3. QED
    BY <2>1, <2>2 DEF LimitsHeld
<1>3. CASE TraverseEdge(b)
  <2> DEFINE e == Edges[edge[b]]
             t == <<b, e.from, e.to>>
  <2>1. /\ edge[b] \in DOMAIN Edges /\ t \in Branches \X Nodes \X Nodes
        /\ e.cap = 0 \/ traversals[t] < e.cap
    BY <1>3 DEF TraverseEdge, TypeInv, WorkersOK, WorkerOK, LimitsHeld
  <2>2. /\ UNCHANGED attempts /\ pc'[b] # "traverse"
        /\ UNCHANGED traversals \/ traversals' = [traversals EXCEPT ![t] = traversals[t] + 1]
    BY <1>3 DEF TraverseEdge, Goto, Return, cells, TypeInv, TypeOK
  <2>3. traversals \in [Branches \X Nodes \X Nodes -> Nat]
    BY DEF TypeInv, TypeOK
  <2>4. ASSUME NEW i \in DOMAIN Edges, Edges[i].cap # 0,
               \A j \in DOMAIN Edges :
                 (Edges[j].from = Edges[i].from /\ Edges[j].to = Edges[i].to) => j = i
        PROVE  traversals'[<<b, Edges[i].from, Edges[i].to>>] <= Edges[i].cap
    <3>1. traversals[<<b, Edges[i].from, Edges[i].to>>] <= Edges[i].cap
      BY <2>4 DEF LimitsHeld
    <3>2. CASE <<b, Edges[i].from, Edges[i].to>> = t
      <4>1. edge[b] = i
        BY <2>1, <2>4, <3>2
      <4>2. traversals[t] < Edges[i].cap /\ traversals[t] \in Nat /\ Edges[i].cap \in Nat
        BY <2>1, <2>3, <2>4, <4>1
      <4> HIDE DEF e, t
      <4>3. traversals'[t] <= Edges[i].cap
        BY <2>1, <2>2, <2>3, <4>2
      <4>4. QED
        BY <3>2, <4>3
    <3>3. CASE <<b, Edges[i].from, Edges[i].to>> # t
      <4>1. <<b, Edges[i].from, Edges[i].to>> \in Branches \X Nodes \X Nodes
        OBVIOUS
      <4> HIDE DEF e, t
      <4>2. QED
        BY <2>2, <2>3, <3>1, <3>3, <4>1
    <3>4. QED
      BY <3>2, <3>3
  <2>5. QED
    BY <2>2, <2>4 DEF LimitsHeld
<1>4. CASE /\ UNCHANGED <<attempts, traversals>>
           /\ pc'[b] # "traverse"
  BY <1>4 DEF LimitsHeld
<1>5. EnterBranch(b) \/ LookAtNode(b) \/ InvokeNode(b) \/ PollNode(b) \/ PersistNode(b)
        \/ FinishBranch(b) \/ BlockBranch(b)
      => UNCHANGED <<attempts, traversals>> /\ pc'[b] # "traverse"
  BY DEF EnterBranch, LookAtNode, InvokeNode, PollNode, PersistNode, FinishBranch, BlockBranch,
    EndBranch, Goto, Return, database, cells, TypeInv, TypeOK
<1>6. QED
  BY <1>1, <1>2, <1>3, <1>4, <1>5 DEF Worker

LEMMA SharedLimits ==
  ASSUME TypeInv, calls <= MaxCalls, repairs <= MaxRepairs, [Next]_vars
  PROVE  (calls <= MaxCalls /\ repairs <= MaxRepairs)'
<1> USE NamesAssumption DEF TypeInv, TypeOK
<1>1. CASE StartContainer
  BY <1>1 DEF StartContainer, budget
<1>2. ASSUME NEW b \in Branches, StartBranchAttempt(b) PROVE (calls <= MaxCalls /\ repairs <= MaxRepairs)'
  BY <1>2 DEF StartBranchAttempt, StartExhausted, Charged
<1>3. ASSUME NEW b \in Branches, TraverseEdge(b) PROVE (calls <= MaxCalls /\ repairs <= MaxRepairs)'
  BY <1>3 DEF TraverseEdge, RepairExhausted
<1>4. CASE UNCHANGED <<calls, repairs>>
  BY <1>4
<1>5. CASE RunLoop /\ ~StartContainer
  BY <1>4, <1>5 DEF RunLoop, ReadStatus, Schedule, StartContainer, Step, Admit, JoinWave, Settled, SweepWave, Aggregate, PersistContainer, HonorBarrier, PauseAtSafePoint, AfterResult, Route, SweepInterrupted, Finish, database, budget
<1>6. ASSUME NEW b \in Branches, Worker(b), ~StartBranchAttempt(b), ~TraverseEdge(b)
      PROVE  UNCHANGED <<calls, repairs>>
  BY <1>6 DEF Worker, EnterBranch, LookAtNode, InvokeNode, PollNode, PersistNode, SelectRoute,
    FinishBranch, BlockBranch, EndBranch, database, budget
<1>7. ASSUME NEW c \in Controllers, Operation(c) \/ \E a \in Actions : Ask(c, a)
      PROVE  UNCHANGED <<calls, repairs>>
  BY <1>7 DEF Operation, Ask, Control, CancelPending, CancelRun, CancelIncomplete, FinishCancelled,
    controlFrame, budget
<1>8. CASE CallRun \/ Restart \/ Crash \/ Expire \/ UNCHANGED vars
  BY <1>4, <1>8 DEF CallRun, Restart, Crash, Expire, vars, database, budget
<1>9. QED
  BY <1>1, <1>2, <1>3, <1>4, <1>5, <1>6, <1>7, <1>8 DEF Next

LEMMA LimitsStep == ASSUME TypeInv, LimitsInv, [Next]_vars PROVE LimitsInv'
<1>1. (calls <= MaxCalls /\ repairs <= MaxRepairs)'
  BY SharedLimits DEF LimitsInv
<1>2. CASE Elsewhere
  BY <1>1, <1>2, BranchesStay, LimitsStay DEF TypeInv, LimitsInv
<1>3. ASSUME NEW b \in Branches, Worker(b) PROVE LimitsInv'
  BY <1>1, <1>3, OthersStay, LimitsStay, LimitsStepOf DEF TypeInv, LimitsInv
<1>4. QED
  BY <1>2, <1>3 DEF Next, Elsewhere

LEMMA LimitsInit == Init => LimitsInv
<1> SUFFICES ASSUME Init PROVE LimitsInv
  OBVIOUS
<1>1. calls <= MaxCalls /\ repairs <= MaxRepairs
  BY ParallelAssumption DEF Init
<1>2. ASSUME NEW b \in Branches PROVE LimitsHeld(b)
  <2>1. pc[b] = "idle" /\ \A n \in Nodes : attempts[<<b, n>>] = 0
    BY ProcsAssumption DEF Init, Cells
  <2>2. \A i \in DOMAIN Edges : traversals[<<b, Edges[i].from, Edges[i].to>>] = 0
    BY EdgesAssumption DEF Init
  <2>3. \A n \in Nodes : NodeCalls[n] \in Nat
    BY NamesAssumption
  <2>4. QED
    BY <2>1, <2>2, <2>3, EdgesAssumption DEF LimitsHeld
<1>3. QED
  BY <1>1, <1>2 DEF LimitsInv

(* SharedBudgetHeld: however many workers draw on it at once, the budget   *)
(* is not overspent, nor the limits of nodes and edges.                    *)
THEOREM BudgetIsHeld == Spec => []SharedBudgetHeld
<1>1. Init => TypeInv /\ LimitsInv
  BY TypeInit, LimitsInit
<1>2. TypeInv /\ LimitsInv /\ [Next]_vars => (TypeInv /\ LimitsInv)'
  BY TypeStep, LimitsStep
<1>3. LimitsInv => SharedBudgetHeld
  <2> SUFFICES ASSUME LimitsInv PROVE SharedBudgetHeld
    OBVIOUS
  <2>1. ASSUME NEW c \in Cells PROVE attempts[c] <= NodeCalls[c[2]]
    <3>1. PICK b \in Branches, n \in Nodes : c = <<b, n>>
      BY DEF Cells
    <3>2. QED
      BY <3>1 DEF LimitsInv, LimitsHeld
  <2>2. QED
    BY <2>1 DEF LimitsInv, LimitsHeld, SharedBudgetHeld
<1>4. QED
  BY <1>1, <1>2, <1>3, PTL DEF Spec

----------------------------------------------------------------------------
(* The join.                                                               *)

(* Where step() has the container in hand.                                 *)
Stepping == {"step", "admit", "wait", "settled", "sweepwave", "aggregate", "persist"}

JoinsTo(s) ==
  /\ \A b \in Branches : branch[b] \in Ended /\ Precedence[branch[b]] <= Precedence[s]
  /\ \E b \in Branches : branch[b] = s

(* Workers live within step(), and step() within the container's attempt.  *)
PoolOK ==
  /\ \A b \in Branches : pc[b] \notin {"idle", "raised"} => pc[Scheduler] = "wait" /\ b \in wave
  /\ pc[Scheduler] = "start" => container = "ready"
  /\ pc[Scheduler] \in Stepping => container = "running"

JoinInv ==
  /\ PoolOK
  /\ pc[Scheduler] = "persist" /\ got # "error" => JoinsTo(got)
  /\ JoinTellsBranches

LEMMA PoolElsewhere == ASSUME TypeInv, PoolOK, Elsewhere PROVE PoolOK'
<1> USE ProcsAssumption
<1>1. CASE CallRun
  BY <1>1 DEF CallRun, Goto, run, budget, rows, cells, schedulerLocals,
      workerLocals, database, environment, outside, TypeInv, TypeOK,
      SchedulerOK, PoolOK, Stepping
<1>2. CASE ReadStatus
  BY <1>2 DEF ReadStatus, Goto, run, budget, rows, cells, workerLocals,
      database, environment, outside, TypeInv, TypeOK, SchedulerOK, PoolOK,
      Stepping
<1>3. CASE Schedule
  BY <1>3 DEF Schedule, Goto, CallFinish, run, budget, rows, cells,
      workerLocals, database, environment, outside, TypeInv, TypeOK,
      SchedulerOK, PoolOK, Stepping
<1>4. CASE StartContainer
  BY <1>4 DEF StartContainer, Goto, CallFinish, run, rows, cells,
      workerLocals, environment, outside, TypeInv, TypeOK, SchedulerOK,
      PoolOK, Stepping
<1>5. CASE Step
  BY <1>5 DEF Step, Goto, run, budget, rows, cells, schedulerLocals,
      workerLocals, database, environment, outside, TypeInv, TypeOK,
      SchedulerOK, PoolOK, Stepping
<1>6. CASE Admit
  BY <1>6, AdmittedAreBranches DEF Admit, run, budget, rows, cells,
      workerLocals, database, environment, outside, TypeInv, TypeOK,
      SchedulerOK, PoolOK, Stepping
<1>7. CASE JoinWave
  BY <1>7 DEF JoinWave, Goto, run, budget, rows, cells, workerLocals,
      database, environment, outside, TypeInv, TypeOK, SchedulerOK, PoolOK,
      Stepping
<1>8. CASE Settled
  BY <1>8 DEF Settled, Goto, run, budget, rows, cells, schedulerLocals,
      workerLocals, database, environment, outside, TypeInv, TypeOK,
      SchedulerOK, PoolOK, Stepping
<1>9. CASE SweepWave
  BY <1>9 DEF SweepWave, Goto, CancelBranches, run, budget, cells,
      schedulerLocals, workerLocals, environment, outside, TypeInv, TypeOK,
      SchedulerOK, PoolOK, Stepping
<1>10. CASE Aggregate
  BY <1>10 DEF Aggregate, Goto, AllEnded, run, budget, rows, cells,
      workerLocals, database, environment, outside, TypeInv, TypeOK,
      SchedulerOK, PoolOK, Stepping
<1>11. CASE PersistContainer
  BY <1>11 DEF PersistContainer, Goto, run, budget, rows, cells, workerLocals,
      environment, outside, TypeInv, TypeOK, SchedulerOK, PoolOK, Stepping
<1>12. CASE HonorBarrier
  BY <1>12 DEF HonorBarrier, Goto, CallFinish, run, budget, rows, cells,
      workerLocals, database, environment, outside, TypeInv, TypeOK,
      SchedulerOK, PoolOK, Stepping
<1>13. CASE PauseAtSafePoint
  BY <1>13 DEF PauseAtSafePoint, Goto, budget, rows, cells, schedulerLocals,
      workerLocals, environment, outside, TypeInv, TypeOK, SchedulerOK,
      PoolOK, Stepping
<1>14. CASE AfterResult
  BY <1>14 DEF AfterResult, Goto, CallFinish, run, budget, rows, cells,
      workerLocals, database, environment, outside, TypeInv, TypeOK,
      SchedulerOK, PoolOK, Stepping
<1>15. CASE Route
  BY <1>15 DEF Route, Goto, CallFinish, EndStatus, run, budget, rows, cells,
      workerLocals, database, environment, outside, TypeInv, TypeOK,
      SchedulerOK, PoolOK, Stepping
<1>16. CASE SweepInterrupted
  BY <1>16 DEF SweepInterrupted, Goto, CallFinish, CancelBranches, run,
      budget, cells, workerLocals, environment, outside, TypeInv, TypeOK,
      SchedulerOK, PoolOK, Stepping
<1>17. CASE Finish
  BY <1>17 DEF Finish, Goto, FinishRun, AlreadyFinished, run, budget, rows,
      cells, workerLocals, environment, outside, TypeInv, TypeOK, SchedulerOK,
      PoolOK, Stepping
<1>18. CASE Restart
  BY <1>18 DEF Restart, Goto, CallFinish, run, budget, rows, cells,
      workerLocals, database, environment, outside, TypeInv, TypeOK,
      SchedulerOK, PoolOK, Stepping
<1>19. CASE Crash
  BY <1>19 DEF Crash, run, budget, rows, cells, database, TypeInv, TypeOK,
      SchedulerOK, PoolOK, Stepping
<1>20. CASE Expire
  BY <1>20 DEF Expire, run, budget, rows, cells, schedulerLocals,
      workerLocals, database, environment, TypeInv, TypeOK, SchedulerOK,
      PoolOK, Stepping
<1>21. ASSUME NEW c \in Controllers, Control(c) PROVE PoolOK'
  BY <1>21 DEF Control, Goto, Allowed, run, budget, rows, cells,
      schedulerLocals, workerLocals, controlFrame, TypeInv, TypeOK,
      SchedulerOK, PoolOK, Stepping
<1>22. ASSUME NEW c \in Controllers, CancelPending(c) PROVE PoolOK'
  BY <1>22 DEF CancelPending, Goto, CancelBranches, run, budget, cells,
      schedulerLocals, workerLocals, controlFrame, TypeInv, TypeOK,
      SchedulerOK, PoolOK, Stepping
<1>23. ASSUME NEW c \in Controllers, CancelRun(c) PROVE PoolOK'
  BY <1>23 DEF CancelRun, Goto, run, budget, rows, cells, schedulerLocals,
      workerLocals, controlFrame, TypeInv, TypeOK, SchedulerOK, PoolOK,
      Stepping
<1>24. ASSUME NEW c \in Controllers, CancelIncomplete(c) PROVE PoolOK'
  BY <1>24 DEF CancelIncomplete, Goto, CancelBranches, run, budget, cells,
      schedulerLocals, workerLocals, controlFrame, TypeInv, TypeOK,
      SchedulerOK, PoolOK, Stepping
<1>25. ASSUME NEW c \in Controllers, FinishCancelled(c) PROVE PoolOK'
  BY <1>25 DEF FinishCancelled, Goto, FinishRun, AlreadyFinished, run, budget,
      rows, cells, schedulerLocals, workerLocals, controlFrame, TypeInv,
      TypeOK, SchedulerOK, PoolOK, Stepping
<1>26. ASSUME NEW c \in Controllers, NEW x \in Actions, Ask(c, x) PROVE PoolOK'
  BY <1>26 DEF Ask, Goto, run, budget, rows, cells, schedulerLocals,
      workerLocals, controlFrame, TypeInv, TypeOK, SchedulerOK, PoolOK,
      Stepping
<1>27. CASE UNCHANGED vars
  BY <1>27 DEF vars, run, budget, rows, cells, schedulerLocals, workerLocals,
      database, environment, outside, PoolOK
<1>28. QED
  BY <1>1, <1>2, <1>3, <1>4, <1>5, <1>6, <1>7, <1>8, <1>9, <1>10, <1>11,
      <1>12, <1>13, <1>14, <1>15, <1>16, <1>17, <1>18, <1>19, <1>20, <1>21,
      <1>22, <1>23, <1>24, <1>25, <1>26, <1>27 DEF Elsewhere, RunLoop,
      Operation

LEMMA PoolWorker == ASSUME TypeInv, PoolOK, NEW b \in Branches, Worker(b) PROVE PoolOK'
<1> USE ProcsAssumption
<1>1. pc[b] \notin {"idle", "raised"}
  BY DEF Worker, EnterBranch, LookAtNode, StartBranchAttempt, InvokeNode, PollNode, PersistNode,
    SelectRoute, TraverseEdge, FinishBranch, BlockBranch
<1>2. /\ container' = container /\ pc'[Scheduler] = pc[Scheduler] /\ wave' = wave
      /\ \A a \in Branches \ {b} : pc'[a] = pc[a]
  BY DEF Worker, EnterBranch, LookAtNode, StartBranchAttempt, InvokeNode, PollNode, PersistNode,
    SelectRoute, TraverseEdge, FinishBranch, BlockBranch, EndBranch, Return, Goto, database,
    workerFrame, schedulerLocals, TypeInv, TypeOK
<1>3. QED
  BY <1>1, <1>2 DEF PoolOK, Stepping

LEMMA PoolStep == ASSUME TypeInv, PoolOK, [Next]_vars PROVE PoolOK'
BY PoolElsewhere, PoolWorker DEF Next, Elsewhere

(* When all branches have ended and no worker is alive, they stay as they  *)
(* are.                                                                    *)
LEMMA EndedStay ==
  ASSUME TypeInv, PoolOK, AllEnded, pc[Scheduler] # "wait", [Next]_vars PROVE branch' = branch
<1>1. ASSUME NEW b \in Branches PROVE ~Worker(b)
  BY DEF Worker, EnterBranch, LookAtNode, StartBranchAttempt, InvokeNode, PollNode, PersistNode,
    SelectRoute, TraverseEdge, FinishBranch, BlockBranch, PoolOK
<1>2. ASSUME NEW S, S \subseteq {"pending", "active"}, CancelBranches(S) PROVE branch' = branch
  <2>1. \A b \in Branches : branch[b] \notin S
    BY <1>2 DEF AllEnded, Ended
  <2>2. branch \in [Branches -> BranchStatuses]
    BY DEF TypeInv, TypeOK
  <2>3. QED
    BY <1>2, <2>1, <2>2 DEF CancelBranches
<1>3. CASE SweepWave \/ SweepInterrupted \/ \E c \in Controllers : CancelPending(c) \/ CancelIncomplete(c)
  BY <1>2, <1>3 DEF SweepWave, SweepInterrupted, CancelPending, CancelIncomplete
<1>4. CASE Elsewhere /\ ~SweepWave /\ ~SweepInterrupted
            /\ ~(\E c \in Controllers : CancelPending(c) \/ CancelIncomplete(c))
  <2>1. RunLoop => UNCHANGED branch
    BY <1>4 DEF RunLoop, ReadStatus, Schedule, StartContainer, Step, Admit, JoinWave, Settled, SweepWave, Aggregate, PersistContainer, HonorBarrier, PauseAtSafePoint, AfterResult, Route, SweepInterrupted, Finish, database, rows
  <2>2. ASSUME NEW c \in Controllers, Operation(c) \/ \E a \in Actions : Ask(c, a)
        PROVE  UNCHANGED branch
    BY <1>4, <2>2 DEF Operation, Control, CancelRun, FinishCancelled, Ask, rows
  <2>3. QED
    BY <1>4, <2>1, <2>2 DEF Elsewhere, CallRun, Restart, Crash, Expire, vars, database, rows
<1>5. QED
  BY <1>1, <1>3, <1>4 DEF Next, Elsewhere

LEMMA ToldStep ==
  ASSUME TypeInv, JoinInv, [Next]_vars
  PROVE  pc'[Scheduler] = "persist" /\ got' # "error" => JoinsTo(got)'
<1> USE ProcsAssumption
<1>1. CASE Aggregate
  <2> SUFFICES ASSUME AllEnded PROVE JoinsTo(got)'
    BY <1>1 DEF Aggregate, Goto, TypeInv, TypeOK
  <2>1. got' = Joined({branch[b] : b \in Branches}) /\ branch' = branch
    BY <1>1 DEF Aggregate, database, rows
  <2> DEFINE S == {branch[b] : b \in Branches}
  <2>2. Joined(S) \in S /\ \A t \in S : Precedence[t] <= Precedence[Joined(S)]
    BY JoinedIsOne, SomeBranch
  <2>3. QED
    BY <2>1, <2>2 DEF JoinsTo, AllEnded
<1>2. CASE pc[Scheduler] = "persist" /\ pc'[Scheduler] = "persist" /\ got' = got
  <2>1. JoinsTo(got) => AllEnded
    BY DEF JoinsTo, AllEnded
  <2>2. QED
    BY <1>2, <2>1, EndedStay DEF JoinInv, JoinsTo
<1>3. CASE JoinWave
  <2>1. pc'[Scheduler] = "persist" => got' = "error"
    BY <1>3 DEF JoinWave, Goto, TypeInv, TypeOK
  <2>2. QED
    BY <2>1
<1>4. (Elsewhere /\ ~Aggregate /\ ~JoinWave /\ pc'[Scheduler] = "persist")
      => pc[Scheduler] = "persist" /\ got' = got
  <2>1. RunLoop /\ ~Aggregate /\ ~JoinWave => pc'[Scheduler] # "persist"
    BY DEF RunLoop, ReadStatus, Schedule, StartContainer, Step, Admit, JoinWave, Settled, SweepWave, Aggregate, PersistContainer, HonorBarrier, PauseAtSafePoint, AfterResult, Route, SweepInterrupted, Finish, CallFinish, Goto, TypeInv, TypeOK, SchedulerOK
  <2>2. ASSUME NEW c \in Controllers, Operation(c) \/ \E a \in Actions : Ask(c, a)
        PROVE  pc'[Scheduler] = pc[Scheduler] /\ got' = got
    BY <2>2 DEF Operation, Control, CancelPending, CancelRun, CancelIncomplete, FinishCancelled, Ask, Goto, controlFrame, schedulerLocals, TypeInv, TypeOK
  <2>3. CallRun \/ Restart \/ Crash => pc'[Scheduler] # "persist"
    BY DEF CallRun, Restart, Crash, CallFinish, Goto, TypeInv, TypeOK
  <2>4. Expire \/ UNCHANGED vars => pc' = pc /\ got' = got
    BY DEF Expire, vars, schedulerLocals
  <2>5. QED
    BY <2>1, <2>2, <2>3, <2>4 DEF Elsewhere
<1>5. ASSUME NEW b \in Branches, Worker(b) PROVE pc'[Scheduler] = pc[Scheduler] /\ got' = got
  BY <1>5 DEF Worker, EnterBranch, LookAtNode, StartBranchAttempt, InvokeNode, PollNode,
    PersistNode, SelectRoute, TraverseEdge, FinishBranch, BlockBranch, EndBranch, Return, Goto,
    workerFrame, schedulerLocals, TypeInv, TypeOK
<1>6. QED
  BY <1>1, <1>2, <1>3, <1>4, <1>5 DEF Next, Elsewhere

LEMMA JoinTellsStep == ASSUME TypeInv, JoinInv, [Next]_vars PROVE JoinTellsBranches'
<1>1. CASE PersistContainer
  <2>1. container' = got /\ branch' = branch /\ pc[Scheduler] = "persist"
    BY <1>1 DEF PersistContainer, rows
  <2>2. QED
    BY <2>1 DEF JoinInv, JoinsTo, JoinTellsBranches
<1>2. CASE ~PersistContainer
  <2>1. container' = container \/ container' \notin Ended
    BY <1>2 DEF Next, RunLoop, ReadStatus, Schedule, StartContainer, Step, Admit, JoinWave, Settled, SweepWave, Aggregate, PersistContainer, HonorBarrier, PauseAtSafePoint, AfterResult, Route, SweepInterrupted, Finish, Worker, EnterBranch, LookAtNode, StartBranchAttempt, InvokeNode, PollNode, PersistNode, SelectRoute, TraverseEdge, FinishBranch, BlockBranch,
      EndBranch, Operation, Ask, Control, CancelPending, CancelRun, CancelIncomplete, FinishCancelled,
      CallRun, Restart, Crash, Expire, vars, database, controlFrame, Ended
  <2>2. SUFFICES ASSUME container' = container, container \in Ended \ {"error"}
                 PROVE  branch' = branch
    BY <2>1 DEF JoinInv, JoinTellsBranches
  <2>3. AllEnded /\ pc[Scheduler] # "wait"
    BY <2>2 DEF JoinInv, JoinTellsBranches, AllEnded, PoolOK, Stepping, Ended
  <2>4. QED
    BY <2>3, EndedStay DEF JoinInv
<1>3. QED
  BY <1>1, <1>2

LEMMA JoinStep == ASSUME TypeInv, JoinInv, [Next]_vars PROVE JoinInv'
BY PoolStep, ToldStep, JoinTellsStep DEF JoinInv

LEMMA JoinInit == Init => JoinInv
<1> SUFFICES ASSUME Init PROVE JoinInv
  OBVIOUS
<1>1. \A p \in Procs : pc[p] = "idle"
  BY DEF Init
<1>2. container = "ready"
  BY DEF Init
<1>3. QED
  BY <1>1, <1>2, ProcsAssumption DEF JoinInv, PoolOK, Stepping, JoinTellsBranches, Ended

(* The container is joined from branches that do not change any more.      *)
THEOREM JoinHolds == Spec => [](TypeInv /\ JoinInv)
<1>1. Init => TypeInv /\ JoinInv
  BY TypeInit, JoinInit
<1>2. TypeInv /\ JoinInv /\ [Next]_vars => (TypeInv /\ JoinInv)'
  BY TypeStep, JoinStep
<1>3. QED
  BY <1>1, <1>2, PTL DEF Spec

(* JoinTellsBranches: what the container's result says of its branches     *)
(* stays true.                                                             *)
THEOREM JoinTells == Spec => []JoinTellsBranches
<1>1. TypeInv /\ JoinInv => JoinTellsBranches
  BY DEF JoinInv
<1>2. QED
  BY <1>1, JoinHolds, PTL

----------------------------------------------------------------------------
(* What is pending when a Run is stopped.                                  *)

Quiet == \A b \in Branches : branch[b] # "pending"

(* Somebody is about to cancel what is pending.                            *)
Sweeping == \E c \in Controllers : pc[c] \in {"pending", "incomplete"}

(* Whoever ends a Run as interrupted or cancelled finds nothing pending,   *)
(* or the process that asked for it still cancels it.                      *)
SweepInv ==
  /\ (barrier \in {"interrupt", "cancel"} \/ verdict = "interrupted"
        \/ status \in {"interrupted", "cancelled"}) => Quiet \/ Sweeping
  /\ verdict = "cancelled" => Quiet
  /\ \A c \in Controllers : pc[c] = "cancelled" => Quiet

LEMMA CancelIsQuiet ==
  ASSUME NEW S, "pending" \in S, CancelBranches(S) PROVE Quiet'
BY DEF CancelBranches, Quiet

LEMMA QuietStays == ASSUME TypeInv, Quiet, [Next]_vars PROVE Quiet'
<1>1. ASSUME NEW b \in Branches, Worker(b) PROVE Quiet'
  <2>1. CASE StartBranchAttempt(b)
    BY <2>1 DEF StartBranchAttempt, Quiet, TypeInv, TypeOK
  <2>2. CASE FinishBranch(b)
    <3>1. result[Here(b)] # "pending"
      BY <2>2 DEF FinishBranch, TypeInv, TypeOK, WorkersOK, WorkerOK, Working, Here, ResultsOK, Cells
    <3>2. QED
      BY <2>2, <3>1 DEF FinishBranch, EndBranch, BranchStatus, Quiet, TypeInv, TypeOK
  <2>3. CASE BlockBranch(b)
    BY <2>3 DEF BlockBranch, EndBranch, Quiet, TypeInv, TypeOK, WorkersOK, WorkerOK
  <2>4. CASE UNCHANGED branch
    BY <2>4 DEF Quiet
  <2>5. QED
    BY <1>1, <2>1, <2>2, <2>3, <2>4 DEF Worker, EnterBranch, LookAtNode, InvokeNode, PollNode,
      PersistNode, SelectRoute, TraverseEdge, database, rows
<1>2. ASSUME NEW S, CancelBranches(S) PROVE Quiet'
  BY <1>2 DEF CancelBranches, Quiet
<1>3. CASE UNCHANGED branch
  BY <1>3 DEF Quiet
<1>4. CASE RunLoop
  BY <1>2, <1>3, <1>4 DEF RunLoop, ReadStatus, Schedule, StartContainer, Step, Admit, JoinWave, Settled, SweepWave, Aggregate, PersistContainer, HonorBarrier, PauseAtSafePoint, AfterResult, Route, SweepInterrupted, Finish, database, rows
<1>5. ASSUME NEW c \in Controllers, Operation(c) \/ \E a \in Actions : Ask(c, a) PROVE Quiet'
  BY <1>2, <1>3, <1>5 DEF Operation, Ask, Control, CancelPending, CancelRun, CancelIncomplete, FinishCancelled, rows
<1>6. CASE CallRun \/ Restart \/ Crash \/ Expire \/ UNCHANGED vars
  BY <1>3, <1>6 DEF CallRun, Restart, Crash, Expire, vars, database, rows
<1>7. QED
  BY <1>1, <1>4, <1>5, <1>6 DEF Next

LEMMA SweepingStays == ASSUME TypeInv, Sweeping, [Next]_vars PROVE Quiet' \/ Sweeping'
<1> USE ProcsAssumption
<1>1. PICK c \in Controllers : pc[c] \in {"pending", "incomplete"}
  BY DEF Sweeping
<1>2. CASE pc'[c] = pc[c]
  BY <1>1, <1>2 DEF Sweeping
<1>3. CASE CancelPending(c) \/ CancelIncomplete(c)
  <2>1. Quiet'
    BY <1>3, CancelIsQuiet DEF CancelPending, CancelIncomplete
  <2>2. QED
    BY <2>1
<1>4. ASSUME NEW d \in Controllers, Operation(d) \/ \E a \in Actions : Ask(d, a), ~CancelPending(c), ~CancelIncomplete(c)
      PROVE  pc'[c] = pc[c]
  BY <1>1, <1>4 DEF Operation, Ask, Control, CancelPending, CancelRun, CancelIncomplete, FinishCancelled, Goto, TypeInv, TypeOK
<1>5. RunLoop \/ CallRun \/ Restart \/ Crash \/ Expire \/ UNCHANGED vars => pc'[c] = pc[c]
  BY <1>1, AdmittedAreBranches DEF RunLoop, CallRun, ReadStatus, Schedule, StartContainer, Step, Admit, JoinWave, Settled, SweepWave, Aggregate, PersistContainer, HonorBarrier, PauseAtSafePoint, AfterResult, Route, SweepInterrupted, Finish, Restart, CallFinish, Goto, Crash, Expire, vars,
    TypeInv, TypeOK
<1>6. ASSUME NEW b \in Branches, Worker(b) PROVE pc'[c] = pc[c]
  BY <1>6 DEF Worker, EnterBranch, LookAtNode, StartBranchAttempt, InvokeNode, PollNode, PersistNode, SelectRoute, TraverseEdge, FinishBranch, BlockBranch, EndBranch, Return, Goto, TypeInv, TypeOK
<1>7. QED
  BY <1>2, <1>3, <1>4, <1>5, <1>6 DEF Next

(* Who stops a Run, and on what grounds.                                   *)
LEMMA StopGrounds ==
  ASSUME TypeInv, JoinInv, SweepInv, [Next]_vars
  PROVE  /\ (barrier' \in {"interrupt", "cancel"} \/ verdict' = "interrupted"
               \/ status' \in {"interrupted", "cancelled"}) => Quiet \/ Sweeping \/ Quiet' \/ Sweeping'
         /\ verdict' = "cancelled" => Quiet
         /\ \A c \in Controllers : pc'[c] = "cancelled" => Quiet \/ Quiet'
<1> DEFINE Grounds ==
         /\ (barrier' \in {"interrupt", "cancel"} \/ verdict' = "interrupted"
               \/ status' \in {"interrupted", "cancelled"}) => Quiet \/ Sweeping \/ Quiet' \/ Sweeping'
         /\ verdict' = "cancelled" => Quiet
         /\ \A c \in Controllers : pc'[c] = "cancelled" => Quiet \/ Quiet'
<1> USE ProcsAssumption, NamesAssumption DEF SweepInv
<1>1. CASE CallRun
  BY <1>1 DEF CallRun, Goto, run, budget, rows, cells, schedulerLocals,
      workerLocals, database, environment, outside, TypeInv, TypeOK, Terminal
<1>2. CASE ReadStatus
  BY <1>2 DEF ReadStatus, Goto, run, budget, rows, cells, workerLocals,
      database, environment, outside, TypeInv, TypeOK, Terminal
<1>3. CASE Schedule
  BY <1>3 DEF Schedule, Goto, CallFinish, run, budget, rows, cells,
      workerLocals, database, environment, outside, TypeInv, TypeOK, Terminal
<1>4. CASE StartContainer
  BY <1>4 DEF StartContainer, Goto, CallFinish, run, rows, cells,
      workerLocals, environment, outside, TypeInv, TypeOK, Terminal
<1>5. CASE Step
  BY <1>5 DEF Step, Goto, run, budget, rows, cells, schedulerLocals,
      workerLocals, database, environment, outside, TypeInv, TypeOK, Terminal
<1>6. CASE Admit
  BY <1>6, AdmittedAreBranches DEF Admit, run, budget, rows, cells,
      workerLocals, database, environment, outside, TypeInv, TypeOK, Terminal
<1>7. CASE JoinWave
  BY <1>7 DEF JoinWave, Goto, run, budget, rows, cells, workerLocals,
      database, environment, outside, TypeInv, TypeOK, Terminal
<1>8. CASE Settled
  BY <1>8 DEF Settled, Goto, run, budget, rows, cells, schedulerLocals,
      workerLocals, database, environment, outside, TypeInv, TypeOK, Terminal
<1>9. CASE SweepWave
  BY <1>9 DEF SweepWave, Goto, CancelBranches, run, budget, cells,
      schedulerLocals, workerLocals, environment, outside, TypeInv, TypeOK,
      Terminal
<1>10. CASE Aggregate
  BY <1>10 DEF Aggregate, Goto, AllEnded, run, budget, rows, cells,
      workerLocals, database, environment, outside, TypeInv, TypeOK, Terminal
<1>11. CASE PersistContainer
  BY <1>11 DEF PersistContainer, Goto, run, budget, rows, cells, workerLocals,
      environment, outside, TypeInv, TypeOK, Terminal
<1>12. CASE HonorBarrier
  BY <1>12 DEF HonorBarrier, Goto, CallFinish, run, budget, rows, cells,
      workerLocals, database, environment, outside, TypeInv, TypeOK, Terminal
<1>13. CASE PauseAtSafePoint
  BY <1>13 DEF PauseAtSafePoint, Goto, budget, rows, cells, schedulerLocals,
      workerLocals, environment, outside, TypeInv, TypeOK, Terminal
<1>14. CASE AfterResult
  BY <1>14 DEF AfterResult, Goto, CallFinish, run, budget, rows, cells,
      workerLocals, database, environment, outside, TypeInv, TypeOK, Terminal
<1>15. CASE Route
  <2>1. container = "cancelled" => Quiet
    BY DEF JoinInv, JoinTellsBranches, Quiet, Ended
  <2>2. QED
    BY <1>15, <2>1 DEF Route, CallFinish, Goto, EndStatus, database, run, TypeInv, TypeOK,
      SchedulerOK, Ended
<1>16. CASE SweepInterrupted
  <2>1. Quiet'
    BY <1>16, CancelIsQuiet DEF SweepInterrupted
  <2>2. QED
    BY <1>16, <2>1 DEF SweepInterrupted, CallFinish, Goto, run, TypeInv, TypeOK
<1>17. CASE Finish
  BY <1>17 DEF Finish, Goto, FinishRun, AlreadyFinished, run, budget, rows,
      cells, workerLocals, environment, outside, TypeInv, TypeOK, Terminal
<1>18. CASE Restart
  BY <1>18 DEF Restart, Goto, CallFinish, run, budget, rows, cells,
      workerLocals, database, environment, outside, TypeInv, TypeOK, Terminal
<1>19. CASE Crash
  BY <1>19 DEF Crash, run, budget, rows, cells, database, TypeInv, TypeOK,
      Terminal
<1>20. CASE Expire
  BY <1>20 DEF Expire, run, budget, rows, cells, schedulerLocals,
      workerLocals, database, environment, TypeInv, TypeOK, Terminal
<1>21. ASSUME NEW c \in Controllers, Control(c) PROVE Grounds
  <2>1. op[c] = "interrupt" /\ Allowed(op[c]) => Sweeping'
    BY <1>21 DEF Control, Goto, Sweeping, TypeInv, TypeOK
  <2>2. QED
    BY <1>21, <2>1 DEF Control, Goto, Allowed, run, controlFrame, schedulerLocals, TypeInv, TypeOK, ControllersOK
<1>22. ASSUME NEW c \in Controllers, CancelPending(c) PROVE Grounds
  <2>1. Quiet'
    BY <1>22, CancelIsQuiet DEF CancelPending
  <2>2. QED
    BY <1>22, <2>1 DEF CancelPending, Goto, run, controlFrame, schedulerLocals, TypeInv, TypeOK
<1>23. ASSUME NEW c \in Controllers, CancelRun(c) PROVE Grounds
  <2>1. status \notin Terminal => Sweeping'
    BY <1>23 DEF CancelRun, Goto, Sweeping, TypeInv, TypeOK
  <2>2. QED
    BY <1>23, <2>1 DEF CancelRun, Goto, run, controlFrame, schedulerLocals, Terminal, TypeInv, TypeOK
<1>24. ASSUME NEW c \in Controllers, CancelIncomplete(c) PROVE Grounds
  <2>1. Quiet'
    BY <1>24, CancelIsQuiet DEF CancelIncomplete
  <2>2. QED
    BY <1>24, <2>1 DEF CancelIncomplete, Goto, run, controlFrame, schedulerLocals, TypeInv, TypeOK
<1>25. ASSUME NEW c \in Controllers, FinishCancelled(c) PROVE Grounds
  BY <1>25 DEF FinishCancelled, Goto, FinishRun, AlreadyFinished, run, budget,
      rows, cells, schedulerLocals, workerLocals, controlFrame, TypeInv,
      TypeOK, Terminal
<1>26. ASSUME NEW c \in Controllers, NEW x \in Actions, Ask(c, x) PROVE Grounds
  BY <1>26 DEF Ask, Goto, run, budget, rows, cells, schedulerLocals,
      workerLocals, controlFrame, TypeInv, TypeOK, Terminal
<1>27. ASSUME NEW b \in Branches, Worker(b) PROVE Grounds
  BY <1>27 DEF Worker, EnterBranch, LookAtNode, StartBranchAttempt,
      InvokeNode, PollNode, PersistNode, SelectRoute, TraverseEdge,
      FinishBranch, BlockBranch, EndBranch, Return, Goto, workerFrame,
      schedulerLocals, environment, database, run, TypeInv, TypeOK
<1>28. CASE UNCHANGED vars
  BY <1>28 DEF vars, run, budget, rows, cells, schedulerLocals, workerLocals,
      database, environment, outside
<1>29. QED
  BY <1>1, <1>2, <1>3, <1>4, <1>5, <1>6, <1>7, <1>8, <1>9, <1>10, <1>11,
      <1>12, <1>13, <1>14, <1>15, <1>16, <1>17, <1>18, <1>19, <1>20, <1>21,
      <1>22, <1>23, <1>24, <1>25, <1>26, <1>27, <1>28 DEF Next, RunLoop,
      Operation

LEMMA SweepStep == ASSUME TypeInv, JoinInv, SweepInv, [Next]_vars PROVE SweepInv'
BY StopGrounds, QuietStays, SweepingStays DEF SweepInv

LEMMA SweepInit == Init => SweepInv
<1> SUFFICES ASSUME Init PROVE SweepInv
  OBVIOUS
<1>1. barrier = None /\ verdict = None /\ status = "running" /\ \A c \in Controllers : pc[c] = "idle"
  BY ProcsAssumption DEF Init
<1>2. QED
  BY <1>1, NamesAssumption DEF SweepInv, Terminal

(* NonePending: an interrupted or cancelled Run leaves no branch pending.  *)
THEOREM NoneLeftPending == Spec => []NonePending
<1>1. Init => TypeInv /\ JoinInv /\ SweepInv
  BY TypeInit, JoinInit, SweepInit
<1>2. TypeInv /\ JoinInv /\ SweepInv /\ [Next]_vars => (TypeInv /\ JoinInv /\ SweepInv)'
  BY TypeStep, JoinStep, SweepStep
<1>3. SweepInv => NonePending
  BY DEF SweepInv, NonePending, Quiet, Sweeping
<1>4. QED
  BY <1>1, <1>2, <1>3, PTL DEF Spec

----------------------------------------------------------------------------
(* The ledger.                                                             *)

(* A call is charged with the attempt that it pays for: one more of one    *)
(* node of one branch.                                                     *)
CallsMove ==
  \/ calls' = calls /\ attempts' = attempts
  \/ /\ calls' = calls + 1
     /\ \E c \in Cells : attempts' = [attempts EXCEPT ![c] = @ + 1]

(* A repair is charged with the route of one node of one branch.           *)
RepairsMove ==
  \/ repairs' = repairs /\ nodeRepairs' = nodeRepairs
  \/ /\ repairs' = repairs + 1
     /\ \E c \in Cells : nodeRepairs' = [nodeRepairs EXCEPT ![c] = @ + 1]

LEMMA LedgerWorker ==
  ASSUME TypeInv, NEW b \in Branches, Worker(b) PROVE CallsMove /\ RepairsMove
<1> USE DEF CallsMove, RepairsMove
<1>1. CASE StartBranchAttempt(b)
  <2>1. Here(b) \in Cells
    BY <1>1 DEF StartBranchAttempt, TypeInv, WorkersOK, WorkerOK, Working, Here, Cells
  <2>2. repairs' = repairs /\ nodeRepairs' = nodeRepairs
    BY <1>1 DEF StartBranchAttempt, cells
  <2>3. \/ calls' = calls /\ attempts' = attempts
        \/ calls' = calls + 1 /\ attempts' = [attempts EXCEPT ![Here(b)] = @ + 1]
    BY <1>1 DEF StartBranchAttempt, Charged, cells
  <2>4. QED
    BY <2>1, <2>2, <2>3
<1>2. CASE TraverseEdge(b)
  <2>1. Here(b) \in Cells
    BY <1>2 DEF TraverseEdge, TypeInv, WorkersOK, WorkerOK, Working, Here, Cells
  <2>2. calls' = calls /\ attempts' = attempts
    BY <1>2 DEF TraverseEdge, cells
  <2>3. repairs \in Nat /\ nodeRepairs \in [Cells -> Nat]
    BY DEF TypeInv, TypeOK
  <2>4. \/ repairs' = repairs /\ nodeRepairs' = nodeRepairs
        \/ /\ repairs' = repairs + (IF IsRepair(b) THEN 1 ELSE 0)
           /\ nodeRepairs' = [nodeRepairs EXCEPT ![Here(b)] = @ + IF IsRepair(b) THEN 1 ELSE 0]
    BY <1>2 DEF TraverseEdge, cells
  <2>5. CASE IsRepair(b)
    BY <2>1, <2>2, <2>4, <2>5
  <2>6. CASE ~IsRepair(b)
    <3>1. [nodeRepairs EXCEPT ![Here(b)] = @ + 0] = nodeRepairs
      BY <2>1, <2>3
    <3>2. QED
      BY <2>2, <2>3, <2>4, <2>6, <3>1
  <2>7. QED
    BY <2>5, <2>6
<1>3. CASE \/ EnterBranch(b) \/ LookAtNode(b) \/ InvokeNode(b) \/ PollNode(b) \/ PersistNode(b)
           \/ SelectRoute(b) \/ FinishBranch(b) \/ BlockBranch(b)
  BY <1>3 DEF EnterBranch, LookAtNode, InvokeNode, PollNode, PersistNode, SelectRoute,
      FinishBranch, BlockBranch, EndBranch, database, budget, cells
<1>4. QED
  BY <1>1, <1>2, <1>3 DEF Worker

LEMMA LedgerElsewhere ==
  ASSUME TypeInv, Elsewhere PROVE CallsMove /\ RepairsMove
<1> USE DEF CallsMove, RepairsMove
<1>1. CASE StartContainer
  BY <1>1 DEF StartContainer, budget, cells
<1>2. CASE PersistContainer
  BY <1>2 DEF PersistContainer, budget, cells
<1>3. CASE \/ ReadStatus \/ Schedule \/ Step \/ Admit \/ JoinWave \/ Settled \/ SweepWave
           \/ Aggregate \/ HonorBarrier \/ PauseAtSafePoint \/ AfterResult \/ Route
           \/ SweepInterrupted \/ Finish
  BY <1>3 DEF ReadStatus, Schedule, Step, Admit, JoinWave, Settled, SweepWave, Aggregate,
      HonorBarrier, PauseAtSafePoint, AfterResult, Route, SweepInterrupted, Finish,
      database, budget, cells
<1>4. ASSUME NEW c \in Controllers, Operation(c) \/ \E a \in Actions : Ask(c, a)
      PROVE  CallsMove /\ RepairsMove
  BY <1>4 DEF Operation, Ask, Control, CancelPending, CancelRun, CancelIncomplete,
      FinishCancelled, controlFrame, budget, cells
<1>5. CASE CallRun \/ Restart \/ Crash \/ Expire \/ UNCHANGED vars
  BY <1>5 DEF CallRun, Restart, Crash, Expire, vars, database, budget, cells
<1>6. QED
  BY <1>1, <1>2, <1>3, <1>4, <1>5 DEF Elsewhere, RunLoop

(* A count that grows by one has one more row.                             *)
LEMMA RowsGrow ==
  ASSUME NEW f \in [Cells -> Nat], NEW c \in Cells, NEW g, g = [f EXCEPT ![c] = @ + 1],
         IsFiniteSet(RowsOf(f))
  PROVE  /\ IsFiniteSet(RowsOf(g))
         /\ Cardinality(RowsOf(g)) = Cardinality(RowsOf(f)) + 1
<1> DEFINE new == <<c, f[c] + 1>>
<1>1. f[c] \in Nat /\ g[c] = f[c] + 1 /\ \A d \in Cells \ {c} : g[d] = f[d]
  OBVIOUS
<1>2. \A x : x \in RowsOf(f) <=> \E d \in Cells : \E i \in 1 .. f[d] : x = <<d, i>>
  BY DEF RowsOf
<1>3. \A x : x \in RowsOf(g) <=> \E d \in Cells : \E i \in 1 .. g[d] : x = <<d, i>>
  BY DEF RowsOf
<1>4. new \notin RowsOf(f)
  BY <1>1, <1>2
<1>5. RowsOf(g) = RowsOf(f) \cup {new}
  <2>1. \A i : i \in 1 .. g[c] <=> i \in 1 .. f[c] \/ i = f[c] + 1
    BY <1>1
  <2>2. ASSUME NEW d \in Cells, NEW i
        PROVE  i \in 1 .. g[d] <=> i \in 1 .. f[d] \/ (d = c /\ i = f[c] + 1)
    BY <1>1, <2>1
  <2>3. new \in RowsOf(g)
    BY <1>3, <2>2
  <2>4. \A x \in RowsOf(f) : x \in RowsOf(g)
    BY <1>2, <1>3, <2>2
  <2>5. ASSUME NEW x \in RowsOf(g) PROVE x \in RowsOf(f) \/ x = new
    <3>1. PICK d \in Cells : \E i \in 1 .. g[d] : x = <<d, i>>
      BY <1>3
    <3>2. PICK i \in 1 .. g[d] : x = <<d, i>>
      BY <3>1
    <3>3. QED
      BY <1>2, <2>2, <3>2
  <2>6. QED
    BY <2>3, <2>4, <2>5
<1> HIDE DEF new
<1>6. IsFiniteSet(RowsOf(f) \cup {new}) /\ Cardinality(RowsOf(f) \cup {new}) = Cardinality(RowsOf(f)) + 1
  BY <1>4, FS_AddElement
<1>7. QED
  BY <1>5, <1>6

LedgerInv ==
  /\ LedgerExact
  /\ IsFiniteSet(RowsOf(attempts)) /\ IsFiniteSet(RowsOf(nodeRepairs))

LEMMA LedgerInit == Init => LedgerInv
<1> SUFFICES ASSUME Init PROVE LedgerInv
  OBVIOUS
<1>1. RowsOf([c \in Cells |-> 0]) = {}
  BY DEF RowsOf
<1>2. RowsOf(attempts) = {} /\ RowsOf(nodeRepairs) = {}
  BY <1>1 DEF Init
<1>3. calls \in UsedBefore /\ calls \in Nat /\ repairs = 0
  BY ParallelAssumption DEF Init
<1>4. QED
  BY <1>2, <1>3, FS_EmptySet DEF LedgerInv, LedgerExact

LEMMA LedgerStep ==
  ASSUME TypeInv, LedgerInv, CallsMove, RepairsMove PROVE LedgerInv'
<1> DEFINE A == Cardinality(RowsOf(attempts))
           R == Cardinality(RowsOf(nodeRepairs))
<1>1. /\ A \in Nat /\ R \in Nat
      /\ attempts \in [Cells -> Nat] /\ nodeRepairs \in [Cells -> Nat]
  BY FS_CardinalityType DEF LedgerInv, TypeInv, TypeOK
<1>2. PICK before \in UsedBefore : calls = before + A
  BY DEF LedgerInv, LedgerExact
<1>3. before \in Nat
  BY ParallelAssumption
<1>4. /\ IsFiniteSet(RowsOf(attempts))'
      /\ calls' = before + A'
  <2>1. CASE attempts' = attempts
    BY <1>1, <1>2, <1>3, <2>1 DEF CallsMove, LedgerInv
  <2>2. CASE /\ calls' = calls + 1
             /\ \E c \in Cells : attempts' = [attempts EXCEPT ![c] = @ + 1]
    <3>1. IsFiniteSet(RowsOf(attempts')) /\ Cardinality(RowsOf(attempts')) = A + 1
      BY <1>1, <2>2, RowsGrow DEF LedgerInv
    <3>2. QED
      BY <1>1, <1>2, <1>3, <2>2, <3>1 DEF RowsOf
  <2>3. QED
    BY <2>1, <2>2 DEF CallsMove
<1>5. IsFiniteSet(RowsOf(nodeRepairs))' /\ repairs' = R'
  <2>1. CASE repairs' = repairs /\ nodeRepairs' = nodeRepairs
    BY <2>1 DEF LedgerInv, LedgerExact
  <2>2. CASE /\ repairs' = repairs + 1
             /\ \E c \in Cells : nodeRepairs' = [nodeRepairs EXCEPT ![c] = @ + 1]
    <3>1. IsFiniteSet(RowsOf(nodeRepairs')) /\ Cardinality(RowsOf(nodeRepairs')) = R + 1
      BY <1>1, <2>2, RowsGrow DEF LedgerInv
    <3>2. QED
      BY <2>2, <3>1 DEF LedgerInv, LedgerExact
  <2>3. QED
    BY <2>1, <2>2 DEF RepairsMove
<1>6. QED
  BY <1>4, <1>5 DEF LedgerInv, LedgerExact

(* The shared ledger is exact: whoever draws on it, and however threads,   *)
(* controllers and crashes interleave, it counts the rows of attempts of   *)
(* the branches, and the repairs, and is not charged for the container     *)
(* (_start_attempt of both, the routing transaction).                      *)
THEOREM LedgerIsExact == Spec => []LedgerExact
<1>1. TypeInv /\ [Next]_vars => CallsMove /\ RepairsMove
  BY LedgerWorker, LedgerElsewhere DEF Next, Elsewhere
<1>2. TypeInv /\ LedgerInv /\ [Next]_vars => LedgerInv'
  BY <1>1, LedgerStep
<1>3. QED
  BY <1>2, LedgerInit, TypesHold, PTL DEF Spec, LedgerInv

=============================================================================
