------------------------- MODULE GraphRuntimeProofs -------------------------
(***************************************************************************)
(* What holds of GraphRuntime for every graph, budget, set of controllers  *)
(* and number of controls and crashes.                                     *)
(***************************************************************************)
EXTENDS GraphRuntime, WellFoundedInduction, TLAPS

(* Where the Runner works on the node `at`, and where it is in a call that *)
(* returns to such a place.                                                *)
Working == {"start", "invoke", "persist", "poll", "started", "polled", "route", "traverse"}
Calling == {"recover", "disclose", "honor", "safepoint", "finish", "freeze"}

WorksOnNode ==
  \/ pc[Runner] \in Working
  \/ pc[Runner] \in Calling /\ ret[Runner] \in {"started", "polled"}

(* What the locals hold where they are used.                               *)
LocalsOK ==
  /\ ret[Runner] \in {"idle", "status", "started", "polled"}
  /\ \A c \in Controllers : ret[c] \in {"idle", "control", "cancel"}
  /\ WorksOnNode => at \in Nodes
  /\ pc[Runner] = "persist" => got \in Results /\ ret[Runner] \in {"started", "polled"}
  /\ pc[Runner] = "traverse" => edge \in DOMAIN Edges
  /\ \A p \in Procs : pc[p] = "finish" => verdict[p] \in Verdicts
  /\ status \in Terminal => reason \in Reasons

TypeInv == TypeOK /\ LocalsOK

LEMMA EdgesTyped ==
  \A i \in DOMAIN Edges : i \in Nat /\ Edges[i] \in EdgeRecords /\ Edges[i].from # Edges[i].to
BY GraphAssumption

LEMMA GotoTyped ==
  ASSUME pc \in [Procs -> Labels], NEW p \in Procs, NEW label \in Labels, Goto(p, label)
  PROVE  /\ pc' \in [Procs -> Labels] /\ pc'[p] = label
         /\ \A q \in Procs \ {p} : pc'[q] = pc[q]
BY DEF Goto

LEMMA TypeInit == Init => TypeInv
BY GraphAssumption, BudgetAssumption, ProcessAssumption
   DEF Init, TypeInv, TypeOK, LocalsOK, WorksOnNode, Working, Calling, Terminal, RunStatuses,
       Barriers, NodeStatuses, Labels, Procs

LEMMA TypeNext == ASSUME TypeInv, [Next]_vars PROVE TypeInv'
<1> USE ProcessAssumption
<1> USE DEF TypeInv, TypeOK, LocalsOK, WorksOnNode, Working, Calling, Labels, Procs, Goto,
            run, nodes, ledger, handles, runnerLocals, finishing, asking
<1>1. CASE CallRun
  BY <1>1 DEF CallRun, Terminal, RunStatuses, Barriers, NodeStatuses
<1>2. CASE ReadStatus
  BY <1>2 DEF ReadStatus, PauseRequested, Terminal, RunStatuses, Barriers, NodeStatuses
<1>3. CASE Schedule
  <2>1. CASE /\ \/ CallFinish(Runner, "interrupted", "human_interrupted", "idle")
                \/ CallFinish(Runner, "failed", "budget_exhausted", "idle")
             /\ UNCHANGED at
    BY <1>3, <2>1 DEF Schedule, CallFinish, Verdicts, Reasons, Terminal
  <2>2. CASE /\ UNCHANGED finishing
             /\ \E n \in NextNode :
                  /\ at' = n
                  /\ Goto(Runner, CASE n = None -> "raised"
                                    [] n \in Nodes /\ n \notin Scheduled -> "route"
                                    [] n \in Scheduled ->
                                         IF node[n] = "running" THEN "poll" ELSE "start")
    <3>1. PICK n \in NextNode :
            /\ at' = n
            /\ Goto(Runner, CASE n = None -> "raised"
                              [] n \in Nodes /\ n \notin Scheduled -> "route"
                              [] n \in Scheduled ->
                                   IF node[n] = "running" THEN "poll" ELSE "start")
      BY <2>2
    <3>2. CASE n \in Scheduled
      <4>1. n \in Nodes /\ n # None
        BY <3>2, ProcessAssumption DEF Scheduled
      <4>2. Goto(Runner, IF node[n] = "running" THEN "poll" ELSE "start")
        BY <3>1, <3>2, <4>1
      <4> QED  BY <1>3, <2>2, <3>1, <4>1, <4>2 DEF Schedule
    <3>3. CASE n \in Nodes /\ n \notin Scheduled
      <4>1. Goto(Runner, "route")
        BY <3>1, <3>3, ProcessAssumption
      <4> QED  BY <1>3, <2>2, <3>1, <3>3, <4>1 DEF Schedule
    <3>4. CASE n = None
      <4>1. Goto(Runner, "raised")
        BY <3>1, <3>4, ProcessAssumption DEF Scheduled
      <4> QED  BY <1>3, <2>2, <3>1, <3>4, <4>1 DEF Schedule
    <3> QED  BY <3>2, <3>3, <3>4 DEF NextNode, Scheduled, Unresolved
  <2> QED  BY <1>3, <2>1, <2>2 DEF Schedule
<1>4. CASE StartAttempt
  <2>1. at \in Nodes /\ pc[Runner] = "start"
    BY <1>4 DEF StartAttempt
  <2>2. /\ node' \in [Nodes -> NodeStatuses] /\ attempts' \in [Nodes -> Nat]
        /\ result' \in [Nodes -> Results \cup {None}] /\ resolved' \in [Nodes -> BOOLEAN]
        /\ calls' \in Nat /\ nodeRepairs' = nodeRepairs /\ finished' = finished
    <3>1. CASE UNCHANGED <<nodes, calls, handle>>
      BY <3>1
    <3>2. CASE /\ node' = [node EXCEPT ![at] = "running"]
               /\ attempts' = [attempts EXCEPT ![at] = @ + 1]
               /\ result' = [result EXCEPT ![at] = None]
               /\ resolved' = [resolved EXCEPT ![at] = FALSE]
               /\ calls' = Charged
               /\ UNCHANGED <<nodeRepairs, finished>>
      BY <3>2, <2>1 DEF Charged, NodeStatuses
    <3> QED  BY <1>4, <3>1, <3>2 DEF StartAttempt
  <2>3. handle' \in [Nodes -> {"none", "triggering", "checkpointed"}]
    BY <1>4, <2>1 DEF StartAttempt, TriggerIntent
  <2>4. /\ pc' \in [Procs -> Labels] /\ ret' \in [Procs -> Labels]
        /\ verdict' \in [Procs -> Verdicts \cup {None}] /\ suspect' = suspect
        /\ LocalsOK'
    BY <1>4, <2>1 DEF StartAttempt, CallFinish, Verdicts, Reasons, Terminal
  <2> QED  BY <1>4, <2>2, <2>3, <2>4 DEF StartAttempt
<1>5. CASE Invoke
  BY <1>5 DEF Invoke, Outcomes, Results, Terminal, RunStatuses, Barriers, NodeStatuses
<1>6. CASE PersistResult
  <2>1. at \in Nodes /\ got \in Results /\ ret[Runner] \in {"started", "polled"}
    BY <1>6 DEF PersistResult
  <2>2. got # "pending" => NodeStatus(got) \in NodeStatuses
    BY <2>1 DEF NodeStatus, NodeStatuses, Results
  <2>3. /\ node' \in [Nodes -> NodeStatuses] /\ finished' \in [Nodes -> Nat]
        /\ result' \in [Nodes -> Results \cup {None}] /\ resolved' \in [Nodes -> BOOLEAN]
        /\ attempts' = attempts /\ nodeRepairs' = nodeRepairs
    <3>1. CASE UNCHANGED nodes
      BY <3>1
    <3>2. CASE /\ got # "pending"
               /\ node' = [node EXCEPT ![at] = NodeStatus(got)]
               /\ result' = [result EXCEPT ![at] = got]
               /\ resolved' = [resolved EXCEPT ![at] = FALSE]
               /\ finished' = [finished EXCEPT ![at] = @ + 1]
               /\ UNCHANGED <<attempts, nodeRepairs>>
      BY <3>2, <2>1, <2>2
    <3> QED  BY <1>6, <3>1, <3>2 DEF PersistResult
  <2>4. handle' \in [Nodes -> {"none", "triggering", "checkpointed"}]
    BY <1>6, <2>1 DEF PersistResult
  <2> QED  BY <1>6, <2>1, <2>3, <2>4 DEF PersistResult
<1>7. CASE Poll
  <2>1. pc[Runner] = "poll" /\ at \in Nodes
    BY <1>7 DEF Poll
  <2>2. /\ got' \in Results \cup {None} /\ suspect' \in [Procs -> Nodes \cup {None}]
        /\ ret' \in [Procs -> Labels] /\ pc' \in [Procs -> Labels]
    BY <1>7, <2>1 DEF Poll, Outcomes, Results
  <2>3. LocalsOK'
    BY <1>7, <2>1, <2>2 DEF Poll, Outcomes, Results, Terminal
  <2> QED  BY <1>7, <2>2, <2>3 DEF Poll
<1>8. CASE HonorBarrier
  BY <1>8 DEF HonorBarrier, CallFinish, Verdicts, Reasons, Terminal, RunStatuses, Barriers, NodeStatuses
<1>9. CASE PauseAtSafePoint
  BY <1>9 DEF PauseAtSafePoint, Terminal, RunStatuses, Barriers, NodeStatuses
<1>10. CASE AfterStarted
  BY <1>10 DEF AfterStarted, CallFinish, Verdicts, Reasons, Terminal, RunStatuses, Barriers, NodeStatuses
<1>11. CASE AfterPolled
  BY <1>11 DEF AfterPolled, Terminal, RunStatuses, Barriers, NodeStatuses
<1>12. CASE SelectRoute
  BY <1>12, EdgesTyped DEF SelectRoute, CallFinish, Verdicts, EndStatus, EndReason, Selected, Reasons, Terminal, RunStatuses, Barriers, NodeStatuses
<1>13. CASE TraverseEdge
  <2>1. at \in Nodes /\ Edges[edge].to \in Nodes /\ Edges[edge].from \in Nodes
    BY <1>13, EdgesTyped DEF TraverseEdge, EdgeRecords
  <2>2. /\ traversals' \in [Nodes \X Nodes -> Nat] /\ repairs' \in Nat
        /\ nodeRepairs' \in [Nodes -> Nat] /\ calls' = calls
    <3> DEFINE repair == IF IsRepair THEN 1 ELSE 0
               pair == <<Edges[edge].from, Edges[edge].to>>
    <3>1. repair \in Nat /\ pair \in Nodes \X Nodes
      BY <2>1
    <3>2. CASE UNCHANGED ledger /\ UNCHANGED nodes
      BY <3>2
    <3>3. CASE /\ traversals' = [traversals EXCEPT ![pair] = @ + 1]
               /\ repairs' = repairs + repair
               /\ nodeRepairs' = [nodeRepairs EXCEPT ![at] = @ + repair]
               /\ UNCHANGED calls
      <4> HIDE DEF repair, pair
      <4> QED  BY <3>1, <3>3, <2>1
    <3> QED  BY <1>13, <3>2, <3>3 DEF TraverseEdge
  <2>3. /\ node' \in [Nodes -> NodeStatuses] /\ result' \in [Nodes -> Results \cup {None}]
        /\ attempts' = attempts /\ finished' = finished /\ current' \in Nodes
    <3> DEFINE to == Edges[edge].to
    <3>1. CASE UNCHANGED <<nodes, current>>
      BY <3>1
    <3>2. CASE /\ node' = [node EXCEPT ![to] = "ready"]
               /\ result' = [result EXCEPT ![to] = None]
               /\ current' = to
               /\ UNCHANGED <<attempts, finished>>
      BY <3>2, <2>1 DEF NodeStatuses
    <3> QED  BY <1>13, <3>1, <3>2 DEF TraverseEdge
  <2>4. resolved' \in [Nodes -> BOOLEAN]
    BY <1>13, <2>1 DEF TraverseEdge, RouteResolved
  <2>5. /\ pc' \in [Procs -> Labels] /\ ret' \in [Procs -> Labels]
        /\ verdict' \in [Procs -> Verdicts \cup {None}] /\ suspect' = suspect
        /\ LocalsOK'
    BY <1>13, <2>1 DEF TraverseEdge, CallFinish, Verdicts, Reasons, Terminal
  <2> QED  BY <1>13, <2>2, <2>3, <2>4, <2>5 DEF TraverseEdge
<1>14. CASE Restart
  BY <1>14 DEF Restart, Terminal, RunStatuses, Barriers, NodeStatuses
<1>15. ASSUME NEW p \in Procs, Disclose(p) PROVE TypeInv'
  BY <1>15 DEF Disclose, Verdicts, Reasons, Terminal, RunStatuses, Barriers
<1>16. ASSUME NEW p \in Procs, Finish(p) PROVE TypeInv'
  <2>1. verdict[p].status \in Terminal /\ verdict[p].reason \in Reasons
    BY <1>16 DEF Finish, Verdicts
  <2>2. ret[p] \in Labels
    OBVIOUS
  <2>3. /\ status' \in RunStatuses /\ barrier' \in Barriers /\ reason' \in Reasons \cup {None}
        /\ (status' \in Terminal => reason' \in Reasons)
    BY <1>16, <2>1 DEF Finish, RunStatuses, Barriers
  <2>4. /\ pc' \in [Procs -> Labels] /\ pc'[p] \in {ret[p], "freeze"}
        /\ \A q \in Procs \ {p} : pc'[q] = pc[q]
    BY <1>16, <2>2, GotoTyped DEF Finish
  <2>5. /\ verdict' \in [Procs -> Verdicts \cup {None}]
        /\ \A q \in Procs \ {p} : verdict'[q] = verdict[q]
    BY <1>16 DEF Finish
  <2>6. LocalsOK'
    BY <1>16, <2>3, <2>4, <2>5 DEF Finish
  <2> QED  BY <1>16, <2>3, <2>4, <2>5, <2>6 DEF Finish
<1>17. ASSUME NEW p \in Procs, FreezeReport(p) PROVE TypeInv'
  <2>1. report' \in Reports \cup {None}
    BY <1>17 DEF FreezeReport, ReportRow, Reports
  <2>2. /\ pc[p] = "freeze" /\ pc' \in [Procs -> Labels]
        /\ pc'[p] \in {ret[p], "raised", "idle"}
        /\ \A q \in Procs \ {p} : pc'[q] = pc[q]
    BY <1>17, GotoTyped DEF FreezeReport, Raised
  <2>3. LocalsOK'
    BY <1>17, <2>2 DEF FreezeReport
  <2> QED  BY <1>17, <2>1, <2>2, <2>3 DEF FreezeReport
<1>18. ASSUME NEW p \in Procs, Recover(p) PROVE TypeInv'
  <2>1. Uncertain \subseteq Nodes
    BY GraphAssumption DEF Uncertain
  <2>2. suspect' \in [Procs -> Nodes \cup {None}]
    BY <1>18, <2>1 DEF Recover
  <2>3. /\ pc[p] = "recover" /\ pc' \in [Procs -> Labels]
        /\ pc'[p] \in {ret[p], "disclose"}
        /\ \A q \in Procs \ {p} : pc'[q] = pc[q]
    <3>1. pc[p] = "recover" /\ ret[p] \in Labels
      BY <1>18 DEF Recover
    <3>2. Goto(p, "disclose") \/ Goto(p, ret[p])
      BY <1>18 DEF Recover
    <3> QED  BY <3>1, <3>2, GotoTyped
  <2>5. UNCHANGED <<at, got, edge, ret, verdict, status, reason>>
    BY <1>18 DEF Recover
  <2>4. LocalsOK'
    BY <2>3, <2>5
  <2> QED  BY <1>18, <2>2, <2>3, <2>4 DEF Recover
<1>19. ASSUME NEW p \in Procs, Crash(p) PROVE TypeInv'
  BY <1>19 DEF Crash, Terminal, RunStatuses, Barriers
<1>20. ASSUME NEW c \in Controllers, Control(c) PROVE TypeInv'
  BY <1>20 DEF Control, Allowed, Barriers, RunStatuses, Terminal
<1>21. ASSUME NEW c \in Controllers, CancelRun(c) PROVE TypeInv'
  BY <1>21 DEF CancelRun, Barriers, RunStatuses, Terminal
<1>22. ASSUME NEW c \in Controllers, ReadHandles(c) PROVE TypeInv'
  BY <1>22 DEF ReadHandles
<1>23. ASSUME NEW c \in Controllers, WithdrawHandle(c) PROVE TypeInv'
  <2>1. rows[c] \subseteq Nodes
    BY GraphAssumption
  <2>2. PICK n \in rows[c], outcome \in {"cancelled", "residual"} :
          /\ cancelState' = [cancelState EXCEPT ![n] = outcome]
          /\ rows' = [rows EXCEPT ![c] = @ \ {n}]
    BY <1>23 DEF WithdrawHandle
  <2>3. /\ cancelState' \in [Nodes -> {"none", "cancelled", "residual"}]
        /\ rows' \in [Controllers -> SUBSET External]
    BY <2>1, <2>2
  <2> QED  BY <1>23, <2>3 DEF WithdrawHandle
<1>24. ASSUME NEW c \in Controllers, HandlesWithdrawn(c) PROVE TypeInv'
  <2>1. CASE CallFinish(c, "cancelled", "human_cancelled", "idle")
    BY <1>24, <2>1 DEF HandlesWithdrawn, CallFinish, Verdicts, Terminal, Reasons
  <2>2. CASE Goto(c, "idle") /\ UNCHANGED finishing
    BY <1>24, <2>2 DEF HandlesWithdrawn
  <2> QED  BY <1>24, <2>1, <2>2 DEF HandlesWithdrawn
<1>25. ASSUME NEW c \in Controllers, NEW a \in Actions, Ask(c, a) PROVE TypeInv'
  BY <1>25 DEF Ask, OperationOf
<1>26. ASSUME NEW x \in Expirable, Expire(x) PROVE TypeInv'
  BY <1>26, BudgetAssumption DEF Expire
<1>27. CASE UNCHANGED vars
  BY <1>27 DEF vars
<1> QED
  BY <1>1, <1>2, <1>3, <1>4, <1>5, <1>6, <1>7, <1>8, <1>9, <1>10, <1>11, <1>12, <1>13, <1>14, <1>15, <1>16, <1>17, <1>18, <1>19, <1>20, <1>21, <1>22, <1>23, <1>24, <1>25, <1>26, <1>27 DEF Next, RunLoop, Shared, Operation

(* Type correctness: TypeOK, for every graph and every budget.             *)
THEOREM TypeCorrect == Spec => []TypeOK
<1>1. Spec => []TypeInv  BY TypeInit, TypeNext, PTL DEF Spec
<1> QED  BY <1>1, PTL DEF TypeInv

-----------------------------------------------------------------------------
(* The point of execution.                                                 *)

(* Where the Runner is once the result of `at` is stored and not routed.   *)
HasResult ==
  \/ pc[Runner] \in {"started", "polled", "route", "traverse"}
  \/ pc[Runner] \in Calling /\ ret[Runner] \in {"started", "polled"}

(* OneToken and AttemptsSettled are not inductive: which node the Runner   *)
(* works on, and how far its attempt has come, follows from its pc.        *)
ExecOK ==
  /\ WorksOnNode => at = current
  /\ pc[Runner] \in {"invoke", "persist", "poll"} => node[at] = "running"
  /\ pc[Runner] = "invoke" => issued[at] < attempts[at]
  /\ pc[Runner] = "persist" => finished[at] < issued[at]
  /\ HasResult => node[at] \notin {"ready", "running"}
  /\ pc[Runner] = "traverse" => Edges[edge].from = at
  /\ \A n \in Nodes : handle[n] = "checkpointed" =>
       n \in External /\ (node[n] = "running" => finished[n] < issued[n])

ExecInv == TypeInv /\ OneToken /\ AttemptsSettled /\ ExecOK

(* What these invariants speak of.                                         *)
execution == <<current, nodes, handle, ledger, runnerLocals, issued, pc[Runner], ret[Runner]>>

(* No step of another process changes it: a control only writes the status *)
(* and the barrier.                                                        *)
LEMMA OthersDoNotExecute ==
  ASSUME TypeInv, NEW c \in Controllers,
         \/ Shared(c) \/ Crash(c) \/ Operation(c) \/ \E a \in Actions : Ask(c, a)
  PROVE  UNCHANGED execution
<1> USE ProcessAssumption DEF execution, TypeInv, TypeOK, Procs, Goto, CallFinish, run, nodes, ledger,
            handles, runnerLocals, finishing, asking
<1>1. CASE Shared(c)
  BY <1>1 DEF Shared, Disclose, Finish, FreezeReport, Recover
<1>2. CASE Crash(c)
  BY <1>2 DEF Crash
<1>3. CASE Operation(c)
  BY <1>3 DEF Operation, Control, CancelRun, ReadHandles, WithdrawHandle, HandlesWithdrawn
<1>4. CASE \E a \in Actions : Ask(c, a)
  BY <1>4 DEF Ask
<1> QED  BY <1>1, <1>2, <1>3, <1>4

LEMMA ExecUnchanged ==
  ASSUME ExecInv, TypeInv', UNCHANGED execution
  PROVE  ExecInv'
BY DEF ExecInv, OneToken, Token, AttemptsSettled, ExecOK, HasResult, WorksOnNode, execution, nodes,
       runnerLocals

LEMMA ExecInit == Init => ExecInv
BY TypeInit, ProcessAssumption, GraphAssumption
   DEF ExecInv, Init, OneToken, Token, AttemptsSettled, ExecOK, HasResult, WorksOnNode, Working, Calling,
       Procs

(* Steps of the Runner that move it from one place to another and touch    *)
(* none of the rows.                                                       *)
LEMMA RunnerMoves ==
  ASSUME ExecInv, TypeInv',
         \/ CallRun \/ ReadStatus \/ HonorBarrier \/ PauseAtSafePoint \/ AfterStarted \/ AfterPolled
         \/ Restart \/ Shared(Runner) \/ Crash(Runner)
  PROVE  ExecInv'
<1> USE ProcessAssumption
    DEF ExecInv, TypeInv, TypeOK, LocalsOK, ExecOK, HasResult, WorksOnNode, Working, Calling, Procs, Goto,
        CallFinish, run, nodes, ledger, handles, runnerLocals, finishing, asking
<1>1. UNCHANGED <<node, result, resolved, attempts, finished, handle, issued, current>>
  BY DEF CallRun, ReadStatus, HonorBarrier, PauseAtSafePoint, AfterStarted, AfterPolled, Restart,
         Shared, Disclose, Finish, FreezeReport, Recover, Crash
<1>2. OneToken' /\ AttemptsSettled'
  BY <1>1 DEF OneToken, Token, AttemptsSettled
<1>3. ExecOK'
  <2>1. CASE CallRun \/ ReadStatus \/ Restart \/ Crash(Runner)
    BY <1>1, <2>1 DEF CallRun, ReadStatus, Restart, Crash
  <2>2. CASE HonorBarrier \/ PauseAtSafePoint
    BY <1>1, <2>2 DEF HonorBarrier, PauseAtSafePoint
  <2>3. CASE AfterStarted \/ AfterPolled
    BY <1>1, <2>3 DEF AfterStarted, AfterPolled
  <2>4. CASE Shared(Runner)
    BY <1>1, <2>4 DEF Shared, Disclose, Finish, FreezeReport, Recover, Raised
  <2> QED  BY <2>1, <2>2, <2>3, <2>4
<1> QED  BY <1>2, <1>3

(* The loop finds the one node that holds the token, and never the end of  *)
(* its code where it raises.                                               *)
LEMMA ScheduleExecutes == ASSUME ExecInv, TypeInv', Schedule PROVE ExecInv'
<1> USE ProcessAssumption
    DEF ExecInv, TypeInv, TypeOK, Procs, Goto, nodes, ledger, handles, runnerLocals, finishing
<1>1. UNCHANGED <<node, result, resolved, attempts, finished, handle, issued, current, edge, got>>
  BY DEF Schedule, run
<1>2. OneToken' /\ AttemptsSettled'
  BY <1>1 DEF OneToken, Token, AttemptsSettled
<1>3. NextNode \subseteq {current}
  BY DEF NextNode, Scheduled, Unresolved, OneToken, Token
<1>4. CASE barrier = "interrupt" \/ LimitReached
  <2>1. pc'[Runner] = "finish" /\ ret'[Runner] = "idle" /\ UNCHANGED at
    BY <1>4 DEF Schedule, CallFinish
  <2> QED  BY <1>1, <1>2, <2>1 DEF ExecOK, HasResult, WorksOnNode, Working, Calling
<1>5. CASE ~(barrier = "interrupt" \/ LimitReached)
  <2>1. PICK n \in NextNode :
          /\ at' = n
          /\ Goto(Runner, CASE n = None -> "raised"
                            [] n \in Nodes /\ n \notin Scheduled -> "route"
                            [] n \in Scheduled ->
                                 IF node[n] = "running" THEN "poll" ELSE "start")
    BY <1>5 DEF Schedule
  <2>2. n = current /\ n \in Nodes /\ n # None
    BY <1>3, <2>1
  <2>3. CASE n \notin Scheduled
    <3>1. node[n] \notin {"ready", "running"} /\ pc'[Runner] = "route"
      BY <2>1, <2>2, <2>3 DEF Scheduled, NextNode
    <3> QED  BY <1>1, <1>2, <2>1, <2>2, <3>1 DEF ExecOK, HasResult, WorksOnNode, Working, Calling
  <2>4. CASE n \in Scheduled
    <3>1. IF node[n] = "running" THEN pc'[Runner] = "poll" ELSE pc'[Runner] = "start"
      BY <2>1, <2>2, <2>4
    <3> QED  BY <1>1, <1>2, <2>1, <2>2, <3>1 DEF ExecOK, HasResult, WorksOnNode, Working, Calling
  <2> QED  BY <2>3, <2>4
<1> QED  BY <1>4, <1>5

LEMMA StartExecutes == ASSUME ExecInv, TypeInv', StartAttempt PROVE ExecInv'
<1> USE ProcessAssumption
    DEF ExecInv, TypeInv, TypeOK, LocalsOK, WorksOnNode, Working, Calling, HasResult, Procs, Goto,
        run, nodes, ledger, handles, runnerLocals, finishing
<1>1. at \in Nodes /\ at = current
  BY DEF StartAttempt, ExecOK
<1>2. CASE UNCHANGED <<nodes, calls, handle>>
  BY <1>1, <1>2 DEF StartAttempt, CallFinish, OneToken, Token, AttemptsSettled, ExecOK
<1>3. CASE ~StartForbidden /\ ~StartExhausted /\ ~UNCHANGED <<nodes, calls, handle>>
  <2>1. node[at] = "ready"
    BY <1>3, BudgetAssumption DEF StartForbidden, StartExhausted
  <2>2. /\ node' = [node EXCEPT ![at] = "running"]
        /\ attempts' = [attempts EXCEPT ![at] = @ + 1]
        /\ result' = [result EXCEPT ![at] = None]
        /\ resolved' = [resolved EXCEPT ![at] = FALSE]
        /\ handle' = TriggerIntent /\ pc' = [pc EXCEPT ![Runner] = "invoke"]
        /\ UNCHANGED <<current, finished, issued, at, edge, got>>
    BY <1>3 DEF StartAttempt
  <2>3. OneToken'
    BY <1>1, <2>2 DEF OneToken, Token
  <2>4. AttemptsSettled' /\ issued[at] < attempts'[at]
    BY <1>1, <2>1, <2>2 DEF AttemptsSettled
  <2>5. ExecOK'
    BY <1>1, <2>1, <2>2, <2>4 DEF ExecOK, TriggerIntent
  <2> QED  BY <2>3, <2>4, <2>5
<1> QED  BY <1>2, <1>3 DEF StartAttempt

LEMMA InvokeExecutes == ASSUME ExecInv, TypeInv', Invoke PROVE ExecInv'
<1> USE ProcessAssumption
    DEF ExecInv, TypeInv, TypeOK, LocalsOK, WorksOnNode, Working, Calling, HasResult, Procs, Goto,
        run, nodes, ledger, handles
<1>1. /\ at \in Nodes /\ at = current /\ pc[Runner] = "invoke" /\ pc'[Runner] = "persist"
      /\ issued' = [issued EXCEPT ![at] = @ + 1]
      /\ UNCHANGED <<current, node, result, resolved, attempts, finished, handle, at, edge>>
  BY DEF Invoke, ExecOK
<1>2. OneToken'
  BY <1>1 DEF OneToken, Token
<1>3. AttemptsSettled'
  BY <1>1 DEF AttemptsSettled, ExecOK
<1>4. ExecOK'
  BY <1>1 DEF AttemptsSettled, ExecOK
<1> QED  BY <1>2, <1>3, <1>4

LEMMA PollExecutes == ASSUME ExecInv, TypeInv', Poll PROVE ExecInv'
<1> USE ProcessAssumption
    DEF ExecInv, TypeInv, TypeOK, LocalsOK, WorksOnNode, Working, Calling, HasResult, Procs, Goto,
        run, nodes, ledger, handles
<1>1. /\ at \in Nodes /\ at = current /\ node[at] = "running"
      /\ UNCHANGED <<current, node, result, resolved, attempts, finished, handle, issued, at, edge>>
  BY DEF Poll, ExecOK
<1>2. OneToken' /\ AttemptsSettled'
  BY <1>1 DEF OneToken, Token, AttemptsSettled
<1>3. ExecOK'
  BY <1>1 DEF Poll, ExecOK
<1> QED  BY <1>2, <1>3

LEMMA PersistExecutes == ASSUME ExecInv, TypeInv', PersistResult PROVE ExecInv'
<1> USE ProcessAssumption
    DEF ExecInv, TypeInv, TypeOK, LocalsOK, WorksOnNode, Working, Calling, HasResult, Procs, Goto,
        run, nodes, ledger, finishing
<1>1. /\ at \in Nodes /\ at = current /\ pc[Runner] = "persist" /\ node[at] = "running"
      /\ finished[at] < issued[at] /\ got \in Results /\ ret[Runner] \in {"started", "polled"}
      /\ UNCHANGED <<current, attempts, issued, at, edge, ret>>
  BY DEF PersistResult, ExecOK
<1>2. CASE got = "pending"
  <2>1. UNCHANGED <<node, result, resolved, finished>> /\ pc'[Runner] = "status"
    BY <1>2 DEF PersistResult
  <2>2. OneToken' /\ AttemptsSettled'
    BY <1>1, <2>1 DEF OneToken, Token, AttemptsSettled
  <2>3. ExecOK'
    BY <1>1, <1>2, <2>1 DEF PersistResult, ExecOK
  <2> QED  BY <2>2, <2>3
<1>3. CASE got # "pending"
  <2>1. NodeStatus(got) \notin {"ready", "running"}
    BY <1>1, <1>3 DEF NodeStatus, Results
  <2>2. /\ node' = [node EXCEPT ![at] = NodeStatus(got)]
        /\ result' = [result EXCEPT ![at] = got]
        /\ resolved' = [resolved EXCEPT ![at] = FALSE]
        /\ finished' = [finished EXCEPT ![at] = @ + 1]
        /\ handle' = handle /\ pc'[Runner] = "honor"
    BY <1>3 DEF PersistResult
  <2>3. OneToken'
    BY <1>1, <2>2 DEF OneToken, Token
  <2>4. AttemptsSettled'
    BY <1>1, <2>1, <2>2 DEF AttemptsSettled
  <2>5. ExecOK'
    BY <1>1, <2>1, <2>2 DEF ExecOK
  <2> QED  BY <2>3, <2>4, <2>5
<1> QED  BY <1>2, <1>3

LEMMA RouteExecutes == ASSUME ExecInv, TypeInv', SelectRoute PROVE ExecInv'
<1> USE ProcessAssumption
    DEF ExecInv, TypeInv, TypeOK, LocalsOK, WorksOnNode, Working, Calling, HasResult, Procs, Goto,
        run, nodes, ledger, handles, finishing
<1>1. /\ at \in Nodes /\ at = current /\ node[at] \notin {"ready", "running"}
      /\ UNCHANGED <<current, node, result, resolved, attempts, finished, handle, issued, at>>
  BY DEF SelectRoute, ExecOK
<1>2. OneToken' /\ AttemptsSettled'
  BY <1>1 DEF OneToken, Token, AttemptsSettled
<1>3. pc'[Runner] = "traverse" => Edges[edge'].from = at
  <2>1. \A i \in Selected(at) : Edges[i].from = at
    BY DEF Selected, Takes
  <2> QED  BY <2>1 DEF SelectRoute, CallFinish
<1>4. pc'[Runner] \in {"honor", "traverse", "finish"} /\ (pc'[Runner] # "traverse" => ret'[Runner] = "status")
  BY DEF SelectRoute, CallFinish
<1>5. ExecOK'
  BY <1>1, <1>3, <1>4 DEF ExecOK
<1> QED  BY <1>2, <1>5

(* The token passes from the source to the target, which is another node   *)
(* because no edge is a loop.                                              *)
LEMMA TraverseExecutes == ASSUME ExecInv, TypeInv', TraverseEdge PROVE ExecInv'
<1> USE ProcessAssumption
    DEF ExecInv, TypeInv, TypeOK, LocalsOK, WorksOnNode, Working, Calling, HasResult, Procs, Goto,
        run, nodes, ledger, handles, finishing
<1> DEFINE to == Edges[edge].to
<1>1. /\ at \in Nodes /\ at = current /\ node[at] \notin {"ready", "running"}
      /\ to \in Nodes /\ to # at
      /\ UNCHANGED <<attempts, finished, handle, issued, at>>
  BY EdgesTyped DEF TraverseEdge, ExecOK, EdgeRecords
<1>2. pc'[Runner] \in {"status", "finish"} /\ (pc'[Runner] = "finish" => ret'[Runner] = "status")
  BY DEF TraverseEdge, CallFinish
<1>3. CASE UNCHANGED <<current, nodes>>
  <2>1. OneToken' /\ AttemptsSettled'
    BY <1>1, <1>3 DEF OneToken, Token, AttemptsSettled
  <2>2. ExecOK'
    BY <1>1, <1>2, <1>3 DEF ExecOK
  <2> QED  BY <2>1, <2>2
<1>4. CASE /\ node' = [node EXCEPT ![to] = "ready"]
           /\ result' = [result EXCEPT ![to] = None]
           /\ resolved' = [resolved EXCEPT ![at] = TRUE, ![to] = FALSE]
           /\ current' = to
  <2>1. OneToken'
    BY <1>1, <1>4 DEF OneToken, Token
  <2>2. node[to] # "running"
    BY <1>1 DEF OneToken, Token
  <2>3. AttemptsSettled'
    BY <1>1, <1>4, <2>2 DEF AttemptsSettled
  <2>4. ExecOK'
    BY <1>1, <1>2, <1>4 DEF ExecOK
  <2> QED  BY <2>1, <2>3, <2>4
<1> QED  BY <1>3, <1>4 DEF TraverseEdge, RouteResolved

LEMMA ExecNext == ASSUME ExecInv, [Next]_vars PROVE ExecInv'
<1>1. TypeInv'
  BY TypeNext DEF ExecInv
<1>2. CASE CallRun \/ Restart \/ Shared(Runner) \/ Crash(Runner)
  BY <1>1, <1>2, RunnerMoves
<1>3. CASE RunLoop
  BY <1>1, <1>3, RunnerMoves, ScheduleExecutes, StartExecutes, InvokeExecutes, PersistExecutes,
     PollExecutes, RouteExecutes, TraverseExecutes DEF RunLoop
<1>4. CASE \E c \in Controllers :
             Shared(c) \/ Crash(c) \/ Operation(c) \/ \E a \in Actions : Ask(c, a)
  BY <1>1, <1>4, OthersDoNotExecute, ExecUnchanged DEF ExecInv
<1>5. CASE (\E x \in Expirable : Expire(x)) \/ UNCHANGED vars
  <2>1. UNCHANGED execution
    BY <1>5 DEF Expire, vars, execution, run, nodes, ledger, handles, runnerLocals, finishing
  <2> QED  BY <1>1, <2>1, ExecUnchanged
<1> QED  BY <1>2, <1>3, <1>4, <1>5 DEF Next, Procs

THEOREM ExecInvariant == Spec => []ExecInv
BY ExecInit, ExecNext, PTL DEF Spec

(* At any time exactly one node, runs.current_node_id, is ready, running   *)
(* or waiting to be routed.                                                *)
THEOREM OneTokenHolds == Spec => []OneToken
BY ExecInvariant, PTL DEF ExecInv

(* No attempt is abandoned, repeated, or ended without its call.           *)
THEOREM AttemptsSettle == Spec => []AttemptsSettled
BY ExecInvariant, PTL DEF ExecInv

-----------------------------------------------------------------------------
(* The budgets.  An edge is selected in one transaction and traversed in   *)
(* another: its limit holds because only the Runner traverses.             *)

EdgeOpen ==
  pc[Runner] = "traverse" =>
    Edges[edge].cap = 0 \/ traversals[<<Edges[edge].from, Edges[edge].to>>] < Edges[edge].cap

BudgetInv == ExecInv /\ BudgetsHeld /\ EdgeOpen

LEMMA BudgetInit == Init => BudgetInv
BY ExecInit, BudgetAssumption, EdgesTyped, ProcessAssumption
   DEF BudgetInv, BudgetsHeld, EdgeOpen, Init, EdgeRecords, Procs

LEMMA BudgetUnchanged ==
  ASSUME BudgetInv, ExecInv', UNCHANGED <<attempts, nodeRepairs, ledger>>,
         pc'[Runner] = "traverse" => pc[Runner] = "traverse" /\ UNCHANGED edge
  PROVE  BudgetInv'
BY DEF BudgetInv, BudgetsHeld, EdgeOpen, ledger

LEMMA StartKeepsBudgets == ASSUME BudgetInv, ExecInv', StartAttempt PROVE BudgetInv'
<1> USE BudgetAssumption, ProcessAssumption
    DEF BudgetInv, ExecInv, TypeInv, TypeOK, LocalsOK, WorksOnNode, Working, Procs
<1>1. at \in Nodes /\ pc'[Runner] # "traverse" /\ UNCHANGED <<traversals, repairs, nodeRepairs>>
  BY DEF StartAttempt, CallFinish, Goto, nodes
<1>2. CASE UNCHANGED <<nodes, calls, handle>>
  BY <1>1, <1>2 DEF BudgetsHeld, EdgeOpen, nodes
<1>3. CASE ~StartExhausted /\ attempts' = [attempts EXCEPT ![at] = @ + 1] /\ calls' = Charged
  BY <1>1, <1>3 DEF BudgetsHeld, EdgeOpen, StartExhausted, Charged
<1> QED  BY <1>2, <1>3 DEF StartAttempt

LEMMA RouteKeepsBudgets == ASSUME BudgetInv, ExecInv', SelectRoute PROVE BudgetInv'
<1>1. UNCHANGED <<nodes, ledger>>
  BY DEF SelectRoute
<1>2. BudgetsHeld'
  BY <1>1 DEF BudgetInv, BudgetsHeld, nodes, ledger
<1>3. \A i \in Selected(at) :
        Edges[i].cap = 0 \/ traversals[<<Edges[i].from, Edges[i].to>>] < Edges[i].cap
  BY DEF Selected, Takes
<1>4. EdgeOpen'
  BY <1>1, <1>3, ProcessAssumption
     DEF SelectRoute, CallFinish, Goto, EdgeOpen, BudgetInv, ExecInv, TypeInv, TypeOK, Procs, ledger
<1> QED  BY <1>2, <1>4 DEF BudgetInv

LEMMA TraverseKeepsBudgets == ASSUME BudgetInv, ExecInv', TraverseEdge PROVE BudgetInv'
<1> USE BudgetAssumption, ProcessAssumption
    DEF BudgetInv, ExecInv, TypeInv, TypeOK, LocalsOK, WorksOnNode, Working, Procs
<1> DEFINE pair == <<Edges[edge].from, Edges[edge].to>>
           repair == IF IsRepair THEN 1 ELSE 0
<1>1. /\ at \in Nodes /\ edge \in DOMAIN Edges /\ Edges[edge] \in EdgeRecords
      /\ pc[Runner] = "traverse" /\ pc'[Runner] # "traverse"
  BY EdgesTyped DEF TraverseEdge, CallFinish, Goto
<1>2. CASE UNCHANGED <<nodes, ledger>>
  BY <1>1, <1>2 DEF BudgetsHeld, EdgeOpen, nodes, ledger
<1>3. CASE /\ ~RepairExhausted
           /\ traversals' = [traversals EXCEPT ![pair] = @ + 1]
           /\ repairs' = repairs + repair
           /\ nodeRepairs' = [nodeRepairs EXCEPT ![at] = @ + repair]
           /\ UNCHANGED <<attempts, calls>>
  <2>1. repairs' <= MaxRepairs /\ \A n \in Nodes : nodeRepairs'[n] <= NodeRepairs[n]
    BY <1>1, <1>3 DEF RepairExhausted, BudgetsHeld
  <2>2. ASSUME NEW i \in DOMAIN Edges, Edges[i].cap # 0,
               \A j \in DOMAIN Edges :
                 (Edges[j].from = Edges[i].from /\ Edges[j].to = Edges[i].to) => j = i
        PROVE  traversals'[<<Edges[i].from, Edges[i].to>>] <= Edges[i].cap
    <3>1. /\ <<Edges[i].from, Edges[i].to>> \in Nodes \X Nodes /\ pair \in Nodes \X Nodes
          /\ Edges[i].cap \in Nat
      BY <1>1, EdgesTyped DEF EdgeRecords
    <3>2. traversals[<<Edges[i].from, Edges[i].to>>] <= Edges[i].cap
      BY <2>2 DEF BudgetsHeld
    <3>3. CASE i = edge
      BY <1>1, <1>3, <2>2, <3>1, <3>3 DEF EdgeOpen
    <3>4. CASE i # edge
      <4>1. pair # <<Edges[i].from, Edges[i].to>>
        BY <1>1, <2>2, <3>4
      <4> QED  BY <1>3, <3>1, <3>2, <4>1
    <3> QED  BY <3>3, <3>4
  <2>3. BudgetsHeld'
    BY <1>3, <2>1, <2>2 DEF BudgetsHeld
  <2> QED  BY <1>1, <2>3 DEF EdgeOpen
<1> QED  BY <1>2, <1>3 DEF TraverseEdge

(* Only these two transactions spend anything or move on.                  *)
LEMMA OnlyTheRunnerStarts ==
  ASSUME [Next]_vars, ~StartAttempt, ~TraverseEdge
  PROVE  UNCHANGED <<attempts, nodeRepairs, current, ledger>>
<1> USE DEF run, nodes, ledger
<1>1. CASE CallRun \/ Restart \/ RunLoop
  BY <1>1 DEF CallRun, Restart, RunLoop, ReadStatus, Schedule, Invoke, PersistResult, Poll, HonorBarrier,
     PauseAtSafePoint, AfterStarted, AfterPolled, SelectRoute
<1>2. ASSUME NEW p \in Procs, Shared(p) \/ Crash(p) PROVE UNCHANGED <<attempts, nodeRepairs, current, ledger>>
  BY <1>2 DEF Shared, Disclose, Finish, FreezeReport, Recover, Crash
<1>3. ASSUME NEW c \in Controllers, Operation(c) \/ \E a \in Actions : Ask(c, a)
      PROVE  UNCHANGED <<attempts, nodeRepairs, current, ledger>>
  BY <1>3 DEF Operation, Control, CancelRun, ReadHandles, WithdrawHandle, HandlesWithdrawn, Ask
<1>4. CASE (\E x \in Expirable : Expire(x)) \/ UNCHANGED vars
  BY <1>4 DEF Expire, vars
<1> QED  BY <1>1, <1>2, <1>3, <1>4 DEF Next

(* Only SelectRoute sends the Runner to traverse.                          *)
LEMMA OnlySelectTraverses ==
  ASSUME TypeInv, [Next]_vars, ~SelectRoute
  PROVE  pc'[Runner] = "traverse" => pc[Runner] = "traverse" /\ UNCHANGED <<at, edge>>
<1> USE ProcessAssumption
    DEF TypeInv, TypeOK, LocalsOK, Procs, Goto, CallFinish, runnerLocals, finishing
<1>1. CASE CallRun \/ ReadStatus \/ Restart \/ Invoke \/ Poll \/ PersistResult
  BY <1>1 DEF CallRun, ReadStatus, Restart, Invoke, Poll, PersistResult
<1>2. CASE HonorBarrier \/ PauseAtSafePoint \/ AfterStarted \/ AfterPolled
  BY <1>2 DEF HonorBarrier, PauseAtSafePoint, AfterStarted, AfterPolled
<1>3. CASE StartAttempt \/ TraverseEdge
  BY <1>3 DEF StartAttempt, TraverseEdge
<1>4. CASE Schedule
  BY <1>4 DEF Schedule, NextNode, Scheduled, Unresolved
<1>5. ASSUME NEW p \in Procs, Shared(p) \/ Crash(p)
      PROVE  pc'[Runner] = "traverse" => pc[Runner] = "traverse" /\ UNCHANGED <<at, edge>>
  <2>1. CASE Disclose(p) \/ Recover(p) \/ Crash(p)
    BY <2>1 DEF Disclose, Recover, Crash
  <2>2. CASE Finish(p) \/ FreezeReport(p)
    BY <2>2 DEF Finish, FreezeReport, Raised
  <2> QED  BY <1>5, <2>1, <2>2 DEF Shared
<1>6. ASSUME NEW c \in Controllers, Operation(c) \/ \E a \in Actions : Ask(c, a)
      PROVE  pc'[Runner] = "traverse" => pc[Runner] = "traverse" /\ UNCHANGED <<at, edge>>
  BY <1>6, OthersDoNotExecute DEF execution
<1>7. CASE (\E x \in Expirable : Expire(x)) \/ UNCHANGED vars
  BY <1>7 DEF Expire, vars
<1> QED  BY <1>1, <1>2, <1>3, <1>4, <1>5, <1>6, <1>7 DEF Next, RunLoop

LEMMA BudgetNext == ASSUME BudgetInv, [Next]_vars PROVE BudgetInv'
<1> USE ProcessAssumption
<1>1. ExecInv'
  BY ExecNext DEF BudgetInv
<1>2. CASE StartAttempt \/ SelectRoute \/ TraverseEdge
  BY <1>1, <1>2, StartKeepsBudgets, RouteKeepsBudgets, TraverseKeepsBudgets
<1>3. CASE ~(StartAttempt \/ SelectRoute \/ TraverseEdge)
  BY <1>1, <1>3, OnlyTheRunnerStarts, OnlySelectTraverses, BudgetUnchanged DEF BudgetInv, ExecInv
<1> QED  BY <1>2, <1>3

(* The limits of the Run, of its nodes and of its edges hold.              *)
THEOREM BudgetsAreHeld == Spec => []BudgetsHeld
<1>1. Spec => []BudgetInv  BY BudgetInit, BudgetNext, PTL DEF Spec
<1> QED  BY <1>1, PTL DEF BudgetInv

-----------------------------------------------------------------------------
(* Barriers.                                                               *)

(* While a barrier is persisted no attempt starts and no route is taken,   *)
(* although the Runner read the Run before the barrier was there: each of  *)
(* the two transactions asks again.                                        *)
THEOREM BarriersHold == Spec => BarrierHolds
<1>1. ASSUME [Next]_vars, barrier # None
      PROVE  attempts' = attempts /\ current' = current /\ traversals' = traversals
  <2>1. CASE StartAttempt
    BY <1>1, <2>1 DEF StartAttempt, StartForbidden, nodes, run
  <2>2. CASE TraverseEdge
    BY <1>1, <2>2 DEF TraverseEdge, nodes, ledger
  <2> QED  BY <1>1, <2>1, <2>2, OnlyTheRunnerStarts DEF ledger
<1> QED  BY <1>1, PTL DEF Spec, BarrierHolds

-----------------------------------------------------------------------------
(* The end of a Run that nobody pauses.                                    *)

NoPause ==
  /\ status \notin {"pause_requested", "paused"}
  /\ barrier # "pause"
  /\ pc[Runner] # "safepoint"
  /\ barrier = "interrupt" => status = "quiescing"

EndInv ==
  /\ TypeInv /\ NoPause
  /\ report # None => status \in Terminal /\ report.status = status /\ report.reason = reason

LEMMA EndInit == Init => EndInv
BY TypeInit, ProcessAssumption DEF EndInv, NoPause, Init, Terminal, Procs

(* Without pause, nothing but Finish, Control and CancelRun writes the row *)
(* of the Run, and none of the three touches a Run that is over.           *)
LEMMA EndNext ==
  ASSUME "pause" \notin Actions, EndInv, [Next]_vars
  PROVE  /\ EndInv'
         /\ status \in Terminal => status' = status
         /\ barrier = "interrupt" => status' \in Terminal \cup {"quiescing"}
<1> USE ProcessAssumption
    DEF EndInv, NoPause, TypeInv, TypeOK, LocalsOK, Procs, Goto, CallFinish, run
<1> DEFINE Good == /\ EndInv'
                   /\ status \in Terminal => status' = status
                   /\ barrier = "interrupt" => status' \in Terminal \cup {"quiescing"}
<1>1. TypeInv'
  BY TypeNext
<1>2. CASE UNCHANGED <<status, barrier, reason, report>> /\ pc'[Runner] # "safepoint"
  BY <1>1, <1>2
<1>3. CASE CallRun \/ Restart
  BY <1>2, <1>3 DEF CallRun, Restart
<1>4. CASE RunLoop
  <2>1. ~PauseAtSafePoint
    BY DEF PauseAtSafePoint
  <2>2. UNCHANGED <<status, barrier, reason, report>>
    BY <1>4, <2>1 DEF RunLoop, ReadStatus, Schedule, StartAttempt, Invoke, PersistResult, Poll, HonorBarrier,
       AfterStarted, AfterPolled, SelectRoute, TraverseEdge
  <2>3. CASE ReadStatus \/ HonorBarrier \/ AfterStarted \/ AfterPolled \/ Invoke \/ Poll
    BY <1>2, <2>2, <2>3 DEF ReadStatus, PauseRequested, HonorBarrier, AfterStarted, AfterPolled, Invoke, Poll
  <2>4. CASE Schedule
    BY <1>2, <2>2, <2>4 DEF Schedule, NextNode, Scheduled, Unresolved
  <2>5. CASE StartAttempt \/ PersistResult
    BY <1>2, <2>2, <2>5 DEF StartAttempt, PersistResult
  <2>6. CASE SelectRoute \/ TraverseEdge
    BY <1>2, <2>2, <2>6 DEF SelectRoute, TraverseEdge
  <2> QED  BY <1>4, <2>1, <2>3, <2>4, <2>5, <2>6 DEF RunLoop
<1>5. ASSUME NEW p \in Procs, Disclose(p) \/ Recover(p) \/ Crash(p) PROVE Good
  BY <1>2, <1>5 DEF Disclose, Recover, Crash
<1>6. ASSUME NEW p \in Procs, Finish(p) PROVE Good
  <2>1. verdict[p].status \in Terminal
    BY <1>6 DEF Finish, Verdicts
  <2>2. pc'[Runner] # "safepoint"
    BY <1>6 DEF Finish
  <2>3. CASE AlreadyFinished
    BY <1>1, <1>6, <2>2, <2>3 DEF Finish
  <2>4. CASE ~AlreadyFinished
    <3>1. /\ status \notin Terminal /\ report = None /\ report' = None
          /\ status' = verdict[p].status /\ barrier' = None
      BY <1>6, <2>4 DEF Finish, AlreadyFinished
    <3> QED  BY <1>1, <2>1, <2>2, <3>1 DEF Terminal
  <2> QED  BY <2>3, <2>4
<1>7. ASSUME NEW p \in Procs, FreezeReport(p) PROVE Good
  <2>1. pc'[Runner] # "safepoint" /\ UNCHANGED <<status, barrier, reason>>
    BY <1>7 DEF FreezeReport, Raised
  <2>2. CASE UNCHANGED report
    BY <1>2, <2>1, <2>2
  <2>3. CASE status \in Terminal /\ report' = ReportRow
    BY <1>1, <2>1, <2>3 DEF ReportRow, Reports
  <2> QED  BY <1>7, <2>2, <2>3 DEF FreezeReport
<1>8. ASSUME NEW c \in Controllers, Control(c) PROVE Good
  <2>1. op[c] # "pause" /\ pc'[Runner] # "safepoint" /\ UNCHANGED <<reason, report>>
    BY <1>8 DEF Control
  <2>2. CASE ~Allowed(op[c])
    BY <1>2, <1>8, <2>1, <2>2 DEF Control
  <2>3. CASE Allowed(op[c])
    <3>1. op[c] = "interrupt" /\ status = "running"
      BY <2>1, <2>3 DEF Allowed
    <3>2. status' = "quiescing" /\ barrier' = "interrupt"
      BY <1>8, <2>3, <3>1 DEF Control
    <3> QED  BY <1>1, <2>1, <3>1, <3>2 DEF Terminal
  <2> QED  BY <2>2, <2>3
<1>9. ASSUME NEW c \in Controllers, CancelRun(c) PROVE Good
  <2>1. pc'[Runner] # "safepoint" /\ UNCHANGED <<reason, report>>
    BY <1>9 DEF CancelRun
  <2>2. CASE UNCHANGED <<status, barrier>>
    BY <1>2, <2>1, <2>2
  <2>3. CASE status \notin Terminal /\ status' = "quiescing" /\ barrier' = "cancel"
    BY <1>1, <2>1, <2>3
  <2> QED  BY <1>9, <2>2, <2>3 DEF CancelRun
<1>10. ASSUME NEW c \in Controllers,
              \/ ReadHandles(c) \/ WithdrawHandle(c) \/ HandlesWithdrawn(c)
              \/ \E a \in Actions : Ask(c, a)
       PROVE  Good
  BY <1>2, <1>10 DEF ReadHandles, WithdrawHandle, HandlesWithdrawn, Ask
<1>11. CASE (\E x \in Expirable : Expire(x)) \/ UNCHANGED vars
  BY <1>2, <1>11 DEF Expire, vars
<1> QED
  BY <1>3, <1>4, <1>5, <1>6, <1>7, <1>8, <1>9, <1>10, <1>11 DEF Next, Shared, Operation

(* The first verdict is final: no late result, control, recovery or crash  *)
(* changes the status of a Run that is over, if nobody asked for a pause.  *)
THEOREM TerminalStays ==
  ASSUME "pause" \notin Actions
  PROVE  Spec => TerminalIsFinal
<1>1. ASSUME EndInv, [Next]_vars PROVE EndInv' /\ (status \in Terminal => status' = status)
  BY <1>1, EndNext
<1>2. Spec => []EndInv  BY EndInit, <1>1, PTL DEF Spec
<1> QED  BY <1>1, <1>2, PTL DEF Spec, TerminalIsFinal

(* An accepted interrupt can only end, if nobody asked for a pause.        *)
THEOREM InterruptStays ==
  ASSUME "pause" \notin Actions
  PROVE  Spec => InterruptIsFinal
<1>1. ASSUME EndInv, [Next]_vars
      PROVE  EndInv' /\ (barrier = "interrupt" => status' \in Terminal \cup {"quiescing"})
  BY <1>1, EndNext
<1>2. Spec => []EndInv  BY EndInit, <1>1, PTL DEF Spec
<1> QED  BY <1>1, <1>2, PTL DEF Spec, InterruptIsFinal

(* The FinalReport tells how the Run ended, if nobody asked for a pause.   *)
THEOREM ReportTells ==
  ASSUME "pause" \notin Actions
  PROVE  Spec => []ReportTellsEnd
<1>1. ASSUME EndInv, [Next]_vars PROVE EndInv'
  BY <1>1, EndNext
<1>2. EndInv => ReportTellsEnd
  BY DEF EndInv, ReportTellsEnd
<1> QED  BY EndInit, <1>1, <1>2, PTL DEF Spec
-----------------------------------------------------------------------------
(* The Run as a walk through the Graph.  The Runner selects an edge, or    *)
(* finds that there is none, in one transaction and acts on it in another; *)
(* in between nobody else touches the result it was looking at.            *)

(* The result of node n leads on along edge i whatever was traversed.      *)
LeadsOn(n, i) ==
  Edges[i].from = n /\ result[n] \in Edges[i].on /\ Edges[i].cap = 0

Succeeds ==
  /\ node[current] \notin {"ready", "running"}
  /\ result[current] \in {"succeeded", "passed"}
  /\ \A i \in DOMAIN Edges : ~LeadsOn(current, i)

(* Process p is about to end the Run with a success.                       *)
ClaimsSuccess(p) == pc[p] = "finish" /\ verdict[p].status = "succeeded"

WalkOK ==
  /\ \A n \in Nodes : node[n] \in {"ready", "running"} => result[n] = None
  /\ pc[Runner] = "traverse" =>
       /\ result[at] \in Edges[edge].on
       /\ \A j \in DOMAIN Edges : LeadsOn(at, j) => edge <= j
  /\ \A p \in Procs : ClaimsSuccess(p) => p = Runner /\ Succeeds

WalkInv == ExecInv /\ WalkOK

LEMMA WalkInit == Init => WalkInv
BY ExecInit, ProcessAssumption DEF WalkInv, WalkOK, ClaimsSuccess, Init, Procs

(* Steps that touch no result, select no edge and claim no success.        *)
LEMMA WalkUnchanged ==
  ASSUME WalkInv, UNCHANGED <<node, result, current>>,
         pc'[Runner] = "traverse" => pc[Runner] = "traverse" /\ UNCHANGED <<at, edge>>,
         \A p \in Procs : ClaimsSuccess(p)' => ClaimsSuccess(p)
  PROVE  WalkOK'
BY DEF WalkInv, WalkOK, Succeeds, LeadsOn

(* Only SelectRoute sends anybody to claim a success.                      *)
LEMMA NobodyElseClaims ==
  ASSUME TypeInv, [Next]_vars, ~SelectRoute
  PROVE  \A p \in Procs : ClaimsSuccess(p)' => ClaimsSuccess(p)
<1> USE ProcessAssumption
    DEF ClaimsSuccess, TypeInv, TypeOK, LocalsOK, Procs, Goto, CallFinish, finishing
<1>1. CASE CallRun \/ Restart \/ ReadStatus \/ Invoke \/ PersistResult \/ Poll \/ PauseAtSafePoint \/ AfterPolled
  BY <1>1 DEF CallRun, Restart, ReadStatus, Invoke, PersistResult, Poll, PauseAtSafePoint, AfterPolled
<1>2. CASE HonorBarrier \/ AfterStarted \/ StartAttempt \/ TraverseEdge
  BY <1>2 DEF HonorBarrier, AfterStarted, StartAttempt, TraverseEdge
<1>3. CASE Schedule
  BY <1>3 DEF Schedule, NextNode, Scheduled, Unresolved
<1>4. ASSUME NEW q \in Procs, Shared(q) \/ Crash(q)
      PROVE  \A p \in Procs : ClaimsSuccess(p)' => ClaimsSuccess(p)
  <2>1. CASE Disclose(q) \/ Recover(q) \/ Crash(q)
    BY <2>1 DEF Disclose, Recover, Crash
  <2>2. CASE Finish(q) \/ FreezeReport(q)
    BY <2>2 DEF Finish, FreezeReport, Raised
  <2> QED  BY <1>4, <2>1, <2>2 DEF Shared
<1>5. ASSUME NEW c \in Controllers, Operation(c) \/ \E a \in Actions : Ask(c, a)
      PROVE  \A p \in Procs : ClaimsSuccess(p)' => ClaimsSuccess(p)
  <2>1. CASE Control(c) \/ CancelRun(c) \/ ReadHandles(c) \/ WithdrawHandle(c)
    BY <2>1 DEF Control, CancelRun, ReadHandles, WithdrawHandle
  <2>2. CASE HandlesWithdrawn(c)
    BY <2>2 DEF HandlesWithdrawn
  <2>3. CASE \E a \in Actions : Ask(c, a)
    BY <2>3 DEF Ask, OperationOf
  <2> QED  BY <1>5, <2>1, <2>2, <2>3 DEF Operation
<1>6. CASE (\E x \in Expirable : Expire(x)) \/ UNCHANGED vars
  BY <1>6 DEF Expire, vars
<1> QED  BY <1>1, <1>2, <1>3, <1>4, <1>5, <1>6 DEF Next, RunLoop

LEMMA Smallest ==
  ASSUME NEW S, S \subseteq Nat, S # {}
  PROVE  \E i \in S : \A j \in S : i <= j
<1> DEFINE R == OpToRel(<, Nat)
<1>1. \A x, y \in Nat : x < y => <<x, y>> \in R
  BY DEF OpToRel
<1>2. IsWellFoundedOn(R, Nat)
  BY NatLessThanWellFounded
<1> HIDE DEF R
<1>3. PICK i \in S : \A j \in S : ~(<<j, i>> \in R)
  BY <1>2, WFMin
<1>4. ASSUME NEW j \in S PROVE i <= j
  <2>1. i \in Nat /\ j \in Nat
    OBVIOUS
  <2>2. ~(j < i)
    BY <1>1, <1>3, <2>1
  <2> QED  BY <2>1, <2>2
<1> QED  BY <1>4

(* Some edge is selected whenever some edge takes the result.              *)
LEMMA FirstTaken ==
  ASSUME NEW n, Selected(n) = {}
  PROVE  \A i \in DOMAIN Edges : ~Takes(n, i)
<1> DEFINE T == {i \in DOMAIN Edges : Takes(n, i)}
<1>1. T \subseteq Nat
  BY EdgesTyped
<1>2. T = {}
  <2>1. SUFFICES ASSUME T # {} PROVE FALSE
    OBVIOUS
  <2>2. PICK i \in T : \A j \in T : i <= j
    <3> HIDE DEF T
    <3> QED  BY <1>1, <2>1, Smallest
  <2>3. i \in Selected(n)
    BY <2>2 DEF Selected
  <2> QED  BY <2>3
<1> QED  BY <1>2

LEMMA OnlyTheRunnerWrites ==
  ASSUME [Next]_vars, ~(StartAttempt \/ PersistResult \/ TraverseEdge)
  PROVE  UNCHANGED <<node, result, current, calls>>
<1> USE DEF run, nodes, ledger
<1>1. CASE CallRun \/ Restart \/ RunLoop
  BY <1>1 DEF CallRun, Restart, RunLoop, ReadStatus, Schedule, Invoke, Poll, HonorBarrier,
     PauseAtSafePoint, AfterStarted, AfterPolled, SelectRoute
<1>2. ASSUME NEW p \in Procs, Shared(p) \/ Crash(p) PROVE UNCHANGED <<node, result, current, calls>>
  BY <1>2 DEF Shared, Disclose, Finish, FreezeReport, Recover, Crash
<1>3. ASSUME NEW c \in Controllers, Operation(c) \/ \E a \in Actions : Ask(c, a)
      PROVE  UNCHANGED <<node, result, current, calls>>
  BY <1>3 DEF Operation, Control, CancelRun, ReadHandles, WithdrawHandle, HandlesWithdrawn, Ask
<1>4. CASE (\E x \in Expirable : Expire(x)) \/ UNCHANGED vars
  BY <1>4 DEF Expire, vars
<1> QED  BY <1>1, <1>2, <1>3, <1>4 DEF Next

LEMMA StartKeepsWalk == ASSUME WalkInv, ExecInv', StartAttempt PROVE WalkOK'
<1> USE ProcessAssumption
    DEF WalkInv, ExecInv, TypeInv, TypeOK, LocalsOK, WorksOnNode, Working, Procs, Goto
<1>1. at \in Nodes /\ at = current /\ UNCHANGED current
  BY DEF StartAttempt, ExecOK, run
<1>2. /\ pc'[Runner] # "traverse"
      /\ \A p \in Procs : ClaimsSuccess(p)' => ClaimsSuccess(p)
  BY DEF StartAttempt, ClaimsSuccess, CallFinish, finishing
<1>3. CASE UNCHANGED <<nodes, calls, handle>>
  BY <1>1, <1>2, <1>3, WalkUnchanged DEF nodes
<1>4. CASE /\ node' = [node EXCEPT ![at] = "running"]
           /\ result' = [result EXCEPT ![at] = None]
  <2>1. \A p \in Procs : ~ClaimsSuccess(p)'
    BY <1>2 DEF StartAttempt, WalkOK, ClaimsSuccess
  <2>2. \A n \in Nodes : node'[n] \in {"ready", "running"} => result'[n] = None
    BY <1>1, <1>4 DEF WalkOK
  <2> QED  BY <1>2, <2>1, <2>2 DEF WalkOK
<1> QED  BY <1>3, <1>4 DEF StartAttempt

LEMMA PersistKeepsWalk == ASSUME WalkInv, ExecInv', PersistResult, [Next]_vars PROVE WalkOK'
<1> USE ProcessAssumption
    DEF WalkInv, ExecInv, TypeInv, TypeOK, LocalsOK, WorksOnNode, Working, Procs, Goto
<1>1. /\ at \in Nodes /\ UNCHANGED current /\ got \in Results
      /\ pc'[Runner] # "traverse"
  BY DEF PersistResult, run
<1>2. \A p \in Procs : ~ClaimsSuccess(p)'
  BY DEF PersistResult, WalkOK, ClaimsSuccess, finishing
<1>3. \A n \in Nodes : node'[n] \in {"ready", "running"} => result'[n] = None
  <2>1. CASE UNCHANGED nodes
    BY <2>1 DEF WalkOK, nodes
  <2>2. CASE /\ got # "pending"
             /\ node' = [node EXCEPT ![at] = NodeStatus(got)]
             /\ result' = [result EXCEPT ![at] = got]
    <3>1. NodeStatus(got) \notin {"ready", "running"}
      BY <1>1, <2>2 DEF NodeStatus, Results
    <3> QED  BY <1>1, <2>2, <3>1 DEF WalkOK
  <2> QED  BY <2>1, <2>2 DEF PersistResult
<1> QED  BY <1>1, <1>2, <1>3 DEF WalkOK

(* What SelectRoute reads of a result is what its successor relies on.     *)
LEMMA RouteKeepsWalk == ASSUME WalkInv, ExecInv', SelectRoute PROVE WalkOK'
<1> USE ProcessAssumption
    DEF WalkInv, ExecInv, TypeInv, TypeOK, LocalsOK, WorksOnNode, Working, Procs, Goto
<1>1. /\ at \in Nodes /\ at = current /\ node[at] \notin {"ready", "running"}
      /\ UNCHANGED <<at, current, node, result>>
  BY DEF SelectRoute, ExecOK, HasResult, run, nodes
<1>2. \A i \in DOMAIN Edges : LeadsOn(at, i) => Takes(at, i)
  BY DEF LeadsOn, Takes
<1>3. pc'[Runner] = "traverse" => /\ result[at] \in Edges[edge'].on
                                  /\ \A j \in DOMAIN Edges : LeadsOn(at, j) => edge' <= j
  <2>1. ASSUME NEW i \in Selected(at)
        PROVE  result[at] \in Edges[i].on /\ \A j \in DOMAIN Edges : LeadsOn(at, j) => i <= j
    BY <1>2 DEF Selected, Takes
  <2> QED  BY <2>1 DEF SelectRoute, CallFinish
<1>4. ASSUME NEW p \in Procs, ClaimsSuccess(p)' PROVE p = Runner /\ Succeeds
  <2>1. p = Runner
    BY <1>4 DEF SelectRoute, CallFinish, ClaimsSuccess, WalkOK, finishing
  <2>2. /\ Selected(at) = {}
        /\ verdict' = [verdict EXCEPT ![Runner] =
                         [status |-> EndStatus(result[at]), reason |-> EndReason(result[at])]]
    BY <1>4, <2>1 DEF SelectRoute, CallFinish, ClaimsSuccess
  <2>3. EndStatus(result[at]) = "succeeded"
    BY <1>4, <2>1, <2>2 DEF ClaimsSuccess
  <2>4. result[at] \in {"succeeded", "passed"}
    BY <2>3 DEF EndStatus
  <2>5. \A i \in DOMAIN Edges : ~Takes(at, i)
    BY <2>2, FirstTaken
  <2> QED  BY <1>1, <1>2, <2>1, <2>4, <2>5 DEF Succeeds
<1>5. Succeeds => Succeeds'
  BY <1>1 DEF Succeeds, LeadsOn
<1> QED  BY <1>1, <1>3, <1>4, <1>5 DEF WalkOK, LeadsOn

LEMMA TraverseKeepsWalk == ASSUME WalkInv, ExecInv', TraverseEdge PROVE WalkOK'
<1> USE ProcessAssumption
    DEF WalkInv, ExecInv, TypeInv, TypeOK, LocalsOK, WorksOnNode, Working, Procs, Goto
<1> DEFINE to == Edges[edge].to
<1>1. to \in Nodes /\ pc'[Runner] # "traverse"
  BY EdgesTyped DEF TraverseEdge, CallFinish, EdgeRecords
<1>2. \A p \in Procs : ~ClaimsSuccess(p)'
  BY DEF TraverseEdge, WalkOK, ClaimsSuccess, CallFinish, finishing
<1>3. \A n \in Nodes : node'[n] \in {"ready", "running"} => result'[n] = None
  <2>1. CASE UNCHANGED nodes
    BY <2>1 DEF WalkOK, nodes
  <2>2. CASE /\ node' = [node EXCEPT ![to] = "ready"]
             /\ result' = [result EXCEPT ![to] = None]
    BY <1>1, <2>2 DEF WalkOK
  <2> QED  BY <2>1, <2>2 DEF TraverseEdge
<1> QED  BY <1>1, <1>2, <1>3 DEF WalkOK

LEMMA WalkNext == ASSUME WalkInv, [Next]_vars PROVE WalkInv'
<1> USE ProcessAssumption
<1>1. ExecInv'
  BY ExecNext DEF WalkInv
<1>2. CASE StartAttempt \/ PersistResult \/ SelectRoute \/ TraverseEdge
  BY <1>1, <1>2, StartKeepsWalk, PersistKeepsWalk, RouteKeepsWalk, TraverseKeepsWalk DEF WalkInv
<1>3. CASE ~(StartAttempt \/ PersistResult \/ SelectRoute \/ TraverseEdge)
  <2>1. \A p \in Procs : ClaimsSuccess(p)' => ClaimsSuccess(p)
    BY <1>3, NobodyElseClaims DEF WalkInv, ExecInv
  <2>2. UNCHANGED <<node, result, current>>
    BY <1>3, OnlyTheRunnerWrites
  <2>3. pc'[Runner] = "traverse" => pc[Runner] = "traverse" /\ UNCHANGED <<at, edge>>
    BY <1>3, OnlySelectTraverses DEF WalkInv, ExecInv
  <2> QED  BY <1>1, <2>1, <2>2, <2>3, WalkUnchanged DEF WalkInv
<1> QED  BY <1>2, <1>3

(* Where the Run is, what happened there, and how it ended.                *)
LEMMA WalkStutters ==
  ASSUME UNCHANGED <<node, result, current, calls, status, report>>
  PROVE  UNCHANGED Walk!vars
BY DEF Walk!vars, WalkPhase

LEMMA StartWalks ==
  ASSUME WalkInv, WalkInv', StartAttempt
  PROVE  Walk!Start \/ UNCHANGED Walk!vars
<1> USE ProcessAssumption DEF run
<1>1. at \in Nodes /\ at = current /\ node \in [Nodes -> NodeStatuses] /\ UNCHANGED <<run, report>>
  BY DEF StartAttempt, WalkInv, ExecInv, ExecOK, TypeInv, TypeOK, LocalsOK, WorksOnNode, Working
<1>2. CASE UNCHANGED <<nodes, calls, handle>>
  BY <1>1, <1>2, WalkStutters DEF nodes
<1>3. CASE /\ ~StartForbidden /\ ~StartExhausted
           /\ node' = [node EXCEPT ![at] = "running"]
           /\ calls' = Charged
  <2>1. status = "running" /\ node[at] = "ready" /\ calls < MaxCalls
    BY <1>3, BudgetAssumption DEF StartForbidden, StartExhausted, WalkInv, ExecInv, TypeInv, TypeOK
  <2>2. result[current] = None /\ result'[current] = None
    BY <1>1, <1>3, <2>1 DEF WalkInv, WalkOK
  <2>3. WalkPhase = "ready" /\ WalkPhase' = "running"
    BY <1>1, <1>3, <2>1 DEF WalkPhase
  <2> QED  BY <1>1, <1>3, <2>1, <2>2, <2>3 DEF Walk!Start, Charged, Terminal
<1> QED  BY <1>2, <1>3 DEF StartAttempt

LEMMA PersistWalks ==
  ASSUME WalkInv, PersistResult
  PROVE  Walk!Return \/ UNCHANGED Walk!vars
<1> USE ProcessAssumption DEF run, ledger
<1>1. /\ at \in Nodes /\ at = current /\ node[at] = "running" /\ got \in Results
      /\ node \in [Nodes -> NodeStatuses] /\ result \in [Nodes -> Results \cup {None}]
      /\ UNCHANGED <<run, calls, report>>
  BY DEF PersistResult, WalkInv, ExecInv, ExecOK, TypeInv, TypeOK, LocalsOK, WorksOnNode, Working
<1>2. CASE UNCHANGED nodes
  BY <1>1, <1>2, WalkStutters DEF nodes
<1>3. CASE /\ got # "pending"
           /\ node' = [node EXCEPT ![at] = NodeStatus(got)]
           /\ result' = [result EXCEPT ![at] = got]
  <2>1. NodeStatus(got) \notin {"ready", "running"}
    BY <1>1, <1>3 DEF NodeStatus, Results
  <2>2. WalkPhase = "running" /\ WalkPhase' = "returned"
    BY <1>1, <1>3, <2>1 DEF WalkPhase
  <2>3. result'[current'] \in Walk!Outcomes
    BY <1>1, <1>3 DEF Results, Walk!Outcomes, Walk!Good
  <2> QED  BY <1>1, <2>2, <2>3 DEF Walk!Return
<1> QED  BY <1>2, <1>3 DEF PersistResult

LEMMA TraverseWalks ==
  ASSUME WalkInv, TraverseEdge
  PROVE  Walk!Move \/ UNCHANGED Walk!vars
<1> USE ProcessAssumption
<1> DEFINE to == Edges[edge].to
<1>1. /\ at \in Nodes /\ at = current /\ node[at] \notin {"ready", "running"}
      /\ edge \in DOMAIN Edges /\ Edges[edge].from = at /\ to \in Nodes
      /\ node \in [Nodes -> NodeStatuses] /\ result \in [Nodes -> Results \cup {None}]
      /\ UNCHANGED <<status, report>>
  BY EdgesTyped DEF TraverseEdge, EdgeRecords, WalkInv, ExecInv, ExecOK, HasResult, TypeInv, TypeOK,
     LocalsOK, WorksOnNode, Working
<1>2. CASE UNCHANGED <<current, nodes, ledger>>
  BY <1>1, <1>2, WalkStutters DEF nodes, ledger
<1>3. CASE /\ node' = [node EXCEPT ![to] = "ready"]
           /\ result' = [result EXCEPT ![to] = None]
           /\ current' = to
           /\ UNCHANGED calls
  <2>1. /\ result[current] \in Edges[edge].on
        /\ \A j \in DOMAIN Edges : LeadsOn(current, j) => edge <= j
    BY <1>1 DEF WalkInv, WalkOK, TraverseEdge
  <2>2. Walk!Accepts(edge) /\ \A j \in DOMAIN Edges : Walk!Always(j) => edge <= j
    BY <1>1, <2>1 DEF Walk!Accepts, Walk!Always, LeadsOn
  <2>3. WalkPhase = "returned" /\ WalkPhase' = "ready" /\ result'[current'] = None
    BY <1>1, <1>3 DEF WalkPhase
  <2> QED  BY <1>1, <1>3, <2>2, <2>3 DEF Walk!Move
<1> QED  BY <1>2, <1>3 DEF TraverseEdge

LEMMA FinishWalks ==
  ASSUME WalkInv, NEW p \in Procs, Finish(p)
  PROVE  (\E e \in Walk!Ends : Walk!End(e)) \/ UNCHANGED Walk!vars
<1>1. UNCHANGED <<node, result, current, calls, report>>
  BY DEF Finish, nodes, ledger
<1>2. CASE AlreadyFinished
  BY <1>1, <1>2, WalkStutters DEF Finish
<1>3. CASE ~AlreadyFinished
  <2> DEFINE e == verdict[p].status
  <2>1. e \in Terminal /\ status \notin Terminal /\ status' = e
    BY <1>3 DEF Finish, AlreadyFinished, WalkInv, ExecInv, TypeInv, LocalsOK, Verdicts
  <2>2. e \in Walk!Ends
    BY <2>1 DEF Terminal, Walk!Ends
  <2>3. e = "succeeded" => Succeeds
    BY DEF WalkInv, WalkOK, ClaimsSuccess, Finish
  <2>4. e = "succeeded" => /\ WalkPhase = "returned" /\ result[current] \in Walk!Good
                           /\ \A i \in DOMAIN Edges : ~Walk!Always(i)
    BY <2>3 DEF Succeeds, LeadsOn, WalkPhase, Walk!Good, Walk!Always, Walk!Accepts
  <2>5. UNCHANGED WalkPhase /\ UNCHANGED result[current]
    BY <1>1 DEF WalkPhase
  <2>6. Walk!End(e)
    <3> HIDE DEF e
    <3> QED  BY <1>1, <2>1, <2>4, <2>5 DEF Walk!End
  <2> QED  BY <2>2, <2>6
<1> QED  BY <1>2, <1>3

LEMMA ReportWalks ==
  ASSUME EndInv, NEW p \in Procs, FreezeReport(p)
  PROVE  Walk!Report \/ UNCHANGED Walk!vars
<1>1. UNCHANGED <<node, result, current, calls, status>>
  BY DEF FreezeReport, run, nodes, ledger
<1>2. CASE UNCHANGED report
  BY <1>1, <1>2, WalkStutters
<1>3. CASE report = None /\ status \in Terminal /\ report' = ReportRow
  <2>1. report'.status = status /\ report' # None
    <3>1. report' \in Reports
      BY <1>3 DEF ReportRow, Reports, EndInv, TypeInv, TypeOK, LocalsOK
    <3> QED  BY <1>3, <3>1, ProcessAssumption DEF ReportRow
  <2>2. UNCHANGED WalkPhase /\ UNCHANGED result[current]
    BY <1>1 DEF WalkPhase
  <2> QED  BY <1>1, <1>3, <2>1, <2>2, EndAssumption DEF Walk!Report
<1> QED  BY <1>2, <1>3 DEF FreezeReport, ReportRow

(* A control changes the status of a Run that is not over to another one   *)
(* in which it is not.                                                     *)
LEMMA ControlStutters ==
  ASSUME "pause" \notin Actions, EndInv, [Next]_vars,
         NEW c \in Controllers, Control(c) \/ CancelRun(c)
  PROVE  UNCHANGED Walk!vars
<1>1. UNCHANGED <<node, result, current, calls, report>>
  BY DEF Control, CancelRun, nodes, ledger
<1>2. status \in Terminal => status' = status
  BY EndNext
<1>3. status \notin Terminal => status' \notin Terminal
  BY DEF Control, CancelRun, Terminal
<1>4. UNCHANGED (IF status \in Terminal THEN status ELSE None)
  BY <1>2, <1>3
<1> QED  BY <1>1, <1>4 DEF Walk!vars, WalkPhase

LEMMA OnlyTheseEnd ==
  ASSUME [Next]_vars, ~PauseAtSafePoint,
         \A p \in Procs : ~Finish(p) /\ ~FreezeReport(p),
         \A c \in Controllers : ~Control(c) /\ ~CancelRun(c)
  PROVE  UNCHANGED <<status, report>>
<1> USE DEF run
<1>1. CASE CallRun \/ Restart \/ RunLoop
  BY <1>1 DEF CallRun, Restart, RunLoop, ReadStatus, Schedule, StartAttempt, Invoke, PersistResult, Poll,
     HonorBarrier, AfterStarted, AfterPolled, SelectRoute, TraverseEdge
<1>2. ASSUME NEW p \in Procs, Disclose(p) \/ Recover(p) \/ Crash(p) PROVE UNCHANGED <<status, report>>
  BY <1>2 DEF Disclose, Recover, Crash
<1>3. ASSUME NEW c \in Controllers,
             \/ ReadHandles(c) \/ WithdrawHandle(c) \/ HandlesWithdrawn(c)
             \/ \E a \in Actions : Ask(c, a)
      PROVE  UNCHANGED <<status, report>>
  BY <1>3 DEF ReadHandles, WithdrawHandle, HandlesWithdrawn, Ask
<1>4. CASE (\E x \in Expirable : Expire(x)) \/ UNCHANGED vars
  BY <1>4 DEF Expire, vars
<1> QED  BY <1>1, <1>2, <1>3, <1>4 DEF Next, Shared, Operation

LEMMA WalkStep ==
  ASSUME "pause" \notin Actions, WalkInv, WalkInv', EndInv, [Next]_vars
  PROVE  [Walk!Next]_(Walk!vars)
<1>1. CASE StartAttempt \/ PersistResult \/ TraverseEdge
  BY <1>1, StartWalks, PersistWalks, TraverseWalks DEF Walk!Next
<1>2. CASE \E p \in Procs : Finish(p) \/ FreezeReport(p)
  BY <1>2, FinishWalks, ReportWalks DEF Walk!Next
<1>3. CASE \E c \in Controllers : Control(c) \/ CancelRun(c)
  BY <1>3, ControlStutters
<1>4. CASE /\ ~(StartAttempt \/ PersistResult \/ TraverseEdge)
           /\ ~\E p \in Procs : Finish(p) \/ FreezeReport(p)
           /\ ~\E c \in Controllers : Control(c) \/ CancelRun(c)
  <2>1. ~PauseAtSafePoint
    BY DEF PauseAtSafePoint, EndInv, NoPause
  <2> QED  BY <1>4, <2>1, OnlyTheRunnerWrites, OnlyTheseEnd, WalkStutters
<1> QED  BY <1>1, <1>2, <1>3, <1>4

(* The Run implements the walk, if nobody asks for a pause: for every      *)
(* graph and budget, and any number of controllers, recoveries and         *)
(* crashes, each transaction is a step of the walk or is not seen in it.   *)
THEOREM RunImplementsWalk ==
  ASSUME "pause" \notin Actions
  PROVE  Spec => ImplementsWalk
<1>1. Init => Walk!Init
  BY GraphAssumption, ProcessAssumption DEF Init, Walk!Init, WalkPhase, Terminal
<1>2. ASSUME WalkInv, WalkInv', EndInv, [Next]_vars PROVE [Walk!Next]_(Walk!vars)
  BY <1>2, WalkStep
<1>3. ASSUME EndInv, [Next]_vars PROVE EndInv'
  BY <1>3, EndNext
<1>4. Spec => []WalkInv
  BY WalkInit, WalkNext, PTL DEF Spec
<1>5. Spec => []EndInv
  BY EndInit, <1>3, PTL DEF Spec
<1> QED
  BY <1>1, <1>2, <1>4, <1>5, PTL DEF Spec, ImplementsWalk, Walk!Spec
=============================================================================
