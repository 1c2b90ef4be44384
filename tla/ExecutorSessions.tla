------------------------- MODULE ExecutorSessions -------------------------
(***************************************************************************)
(* The durable invocation of an executor (executor/runtime.py) over the    *)
(* session rows of one node (runtime/sessions.py).  The thread of the Run  *)
(* executes attempts, each again after a crash; a control thread cancels   *)
(* at any time.  The provider is external: an invocation has an effect in  *)
(* a provider session, new or resumed, and succeeds, fails or raises.      *)
(***************************************************************************)
EXTENDS Naturals, Sequences, SequencesExt

CONSTANTS
  Attempts,             (* bound: attempts 1..Attempts of the node         *)
  MaxExecutions,        (* bound: calls of execute()                       *)
  MaxContinuations,     (* SessionPolicy.max_continuations                 *)
  RotateAfterFailures,  (* SessionPolicy.rotate_after_failures             *)
  MaxCancels,           (* bound: calls of cancel()                        *)
  MaxSessionFaults      (* bound: crashes and invocations that raise       *)

Numbers == 1..Attempts
Handles == 1..MaxExecutions
Roles == {"implementer", "reviewer"}
Statuses == {"running", "completed", "cancel_requested", "cancelled", "quiescing", "rotated"}
ExecuteSteps == {"idle", "barrier", "latest", "invoke", "insert", "failure", "complete"}
CancelSteps == {"idle", "request", "stop", "settle"}

ASSUME SessionsAssumption ==
  /\ Attempts \in Nat \ {0} /\ MaxExecutions \in Nat \ {0} /\ MaxContinuations \in Nat
  /\ RotateAfterFailures \in Nat \ {0} /\ MaxCancels \in Nat /\ MaxSessionFaults \in Nat

VARIABLES
  sessions,  (* executor_sessions of the node, oldest first                *)
  role,      (* of the node's executor                                     *)
  at, attempt,          (* execute(): its step and its attempt             *)
  executions,           (* ... and how often it was called                 *)
  chosen,               (* ... the provider session it goes on with, 0 new *)
  worn, failures,       (* ... its continuation and failure counts         *)
  failed,               (* ... and whether the result is a failure         *)
  cat, target, killed,  (* cancel(): its step, its row, what was answered  *)
  handles,   (* how many provider sessions there are                       *)
  uses,      (* history: the invocations in each                           *)
  losses,    (* history: those that failed                                 *)
  invoked,   (* history: the invocations for each attempt                  *)
  answered,  (* history: the attempts whose outcome was returned           *)
  touched,   (* history: the attempts whose row a cancel() changed         *)
  cancels, sessionFaults

execution == <<at, attempt, executions, chosen, worn, failures, failed>>
cancellation == <<cat, target, killed>>
provider == <<handles, uses, losses, invoked>>
sessionVars == <<sessions, role, execution, cancellation, provider, answered,
                 touched, cancels, sessionFaults>>

Row == [attempt : Numbers, handle : Handles, continuations : Nat, failures : Nat,
        status : Statuses, outcome : BOOLEAN]

SessionsTypeOK ==
  /\ sessions \in Seq(Row) /\ role \in Roles
  /\ at \in ExecuteSteps /\ attempt \in Numbers
  /\ chosen \in Handles \cup {0} /\ worn \in Nat /\ failures \in Nat /\ failed \in BOOLEAN
  /\ cat \in CancelSteps /\ target \in 0..MaxExecutions /\ killed \in BOOLEAN
  /\ handles \in 0..MaxExecutions
  /\ uses \in [Handles -> Nat] /\ losses \in [Handles -> Nat]
  /\ invoked \in [Numbers -> Nat]
  /\ answered \subseteq Numbers /\ touched \subseteq Numbers
  /\ executions \in 0..MaxExecutions /\ cancels \in 0..MaxCancels /\ sessionFaults \in 0..MaxSessionFaults

SessionsInit ==
  /\ sessions = <<>> /\ role \in Roles
  /\ at = "idle" /\ attempt = 1
  /\ chosen = 0 /\ worn = 0 /\ failures = 0 /\ failed = FALSE
  /\ cat = "idle" /\ target = 0 /\ killed = FALSE
  /\ handles = 0
  /\ uses = [h \in Handles |-> 0] /\ losses = [h \in Handles |-> 0]
  /\ invoked = [a \in Numbers |-> 0]
  /\ answered = {} /\ touched = {}
  /\ executions = 0 /\ cancels = 0 /\ sessionFaults = 0

----------------------------------------------------------------------------
ExecuteReturns ==
  /\ at' = "idle"
  /\ chosen' = 0 /\ worn' = 0 /\ failures' = 0 /\ failed' = FALSE

(* Mutant: the outcome of a session that failed is not one.                *)
OutcomeIfGood(a) ==
  \E i \in DOMAIN sessions :
    /\ sessions[i].attempt = a /\ sessions[i].status = "completed"
    /\ sessions[i].outcome /\ sessions[i].failures = 0

(* completed_outcome: a row of the attempt that is completed.              *)
HasOutcome(a) ==
  \E i \in DOMAIN sessions :
    sessions[i].attempt = a /\ sessions[i].status = "completed" /\ sessions[i].outcome

(* execute() of the attempt under way, or of the next: the outcome is      *)
(* returned again if there is one.                                         *)
Execute(a) ==
  /\ at = "idle" /\ a \in {attempt, attempt + 1} \cap Numbers
  /\ executions < MaxExecutions /\ executions' = executions + 1
  /\ attempt' = a
  /\ IF HasOutcome(a)
       THEN answered' = answered \cup {a} /\ UNCHANGED at
       ELSE at' = "barrier" /\ UNCHANGED answered
  /\ UNCHANGED <<sessions, role, chosen, worn, failures, failed, cancellation,
                 provider, touched, cancels, sessionFaults>>

(* _check_barrier raises when others have raised one, or ended the Run.    *)
CheckBarrier ==
  /\ at = "barrier" /\ at' \in {"idle", "latest"}
  /\ UNCHANGED <<sessions, role, attempt, executions, chosen, worn, failures, failed,
                 cancellation, provider, answered, touched, cancels, sessionFaults>>

(* Mutant: a session is worn out only beyond its bounds.                   *)
RotateBeyond(row) ==
  \/ row.continuations > MaxContinuations
  \/ row.failures > RotateAfterFailures
  \/ role # "implementer"

(* should_rotate: a session is worn out, or was not one to go on with.     *)
ShouldRotate(row) ==
  \/ row.continuations >= MaxContinuations
  \/ row.failures >= RotateAfterFailures
  \/ role # "implementer"

(* The latest session of the node is resumed, whatever its status; or it   *)
(* is rotated and the executor starts anew.                                *)
ChooseSession ==
  /\ at = "latest" /\ at' = "invoke"
  /\ IF sessions = <<>> \/ ShouldRotate(Last(sessions))
       THEN /\ UNCHANGED <<chosen, worn, failures>>
            /\ sessions' = IF sessions = <<>> THEN sessions
                           ELSE [sessions EXCEPT ![Len(sessions)].status = "rotated"]
       ELSE /\ chosen' = Last(sessions).handle
            /\ worn' = Last(sessions).continuations + 1
            /\ failures' = Last(sessions).failures
            /\ UNCHANGED sessions
  /\ UNCHANGED <<role, attempt, executions, failed, cancellation, provider, answered, touched,
                 cancels, sessionFaults>>

(* The provider works in session h, and ok tells how.                      *)
Works(h, ok) ==
  /\ h \in Handles
  /\ handles' = IF h > handles THEN h ELSE handles
  /\ uses' = [uses EXCEPT ![h] = @ + 1]
  /\ losses' = IF ok THEN losses ELSE [losses EXCEPT ![h] = @ + 1]
  /\ invoked' = [invoked EXCEPT ![attempt] = @ + 1]

(* resume, start or review of the executor, which names its session.       *)
Invoke ==
  /\ at = "invoke" /\ at' = "insert"
  /\ \E ok \in BOOLEAN, h \in {IF chosen = 0 THEN handles + 1 ELSE chosen} :
       /\ Works(h, ok)
       /\ chosen' = h /\ failed' = ~ok
  /\ UNCHANGED <<sessions, role, attempt, executions, worn, failures, cancellation, answered,
                 touched, cancels, sessionFaults>>

(* It raises: what was done has no row.                                    *)
InvokeRaises ==
  /\ at = "invoke" /\ sessionFaults < MaxSessionFaults
  /\ sessionFaults' = sessionFaults + 1
  /\ \E ok \in BOOLEAN : Works(IF chosen = 0 THEN handles + 1 ELSE chosen, ok)
  /\ ExecuteReturns
  /\ UNCHANGED <<sessions, role, attempt, executions, cancellation, answered, touched, cancels>>

(* The row is inserted when the executor has answered.                     *)
Insert ==
  /\ at = "insert" /\ at' = IF failed THEN "failure" ELSE "complete"
  /\ sessions' = Append(sessions,
       [attempt |-> attempt, handle |-> chosen, continuations |-> worn,
        failures |-> failures, status |-> "running", outcome |-> FALSE])
  /\ UNCHANGED <<role, attempt, executions, chosen, worn, failures, failed, cancellation,
                 provider, answered, touched, cancels, sessionFaults>>

RecordFailure ==
  /\ at = "failure" /\ at' = "complete"
  /\ sessions' = [sessions EXCEPT ![Len(sessions)].failures = @ + 1]
  /\ UNCHANGED <<role, attempt, executions, chosen, worn, failures, failed, cancellation,
                 provider, answered, touched, cancels, sessionFaults>>

(* complete() writes its status over whatever a cancel() has written.      *)
Complete ==
  /\ at = "complete" /\ ExecuteReturns
  /\ sessions' = [sessions EXCEPT ![Len(sessions)].status = "completed",
                                  ![Len(sessions)].outcome = TRUE]
  /\ answered' = answered \cup {attempt}
  /\ UNCHANGED <<role, attempt, executions, cancellation, provider, touched, cancels,
                 sessionFaults>>

----------------------------------------------------------------------------
(* cancel(): the latest session, which is not the one of an invocation     *)
(* under way; without one there is nothing to do.                          *)
Cancel ==
  /\ cat = "idle" /\ cancels < MaxCancels /\ cancels' = cancels + 1
  /\ target' = Len(sessions)
  /\ cat' = IF sessions = <<>> THEN "idle" ELSE "request"
  /\ UNCHANGED <<sessions, role, execution, killed, provider, answered, touched,
                 sessionFaults>>

RequestCancel ==
  /\ cat = "request" /\ cat' = "stop"
  /\ sessions' = [sessions EXCEPT ![target].status = "cancel_requested"]
  /\ touched' = touched \cup {sessions[target].attempt}
  /\ UNCHANGED <<role, execution, target, killed, provider, answered, cancels,
                 sessionFaults>>

(* The provider says whether it has stopped, or raises, and the row stays  *)
(* cancel_requested.                                                       *)
Stop ==
  /\ cat = "stop"
  /\ \/ cat' = "settle" /\ killed' \in BOOLEAN /\ UNCHANGED target
     \/ cat' = "idle" /\ killed' = FALSE /\ target' = 0
  /\ UNCHANGED <<sessions, role, execution, provider, answered, touched, cancels,
                 sessionFaults>>

SettleCancel ==
  /\ cat = "settle" /\ cat' = "idle"
  /\ sessions' = [sessions EXCEPT ![target].status =
                    IF killed THEN "cancelled" ELSE "quiescing"]
  /\ target' = 0 /\ killed' = FALSE
  /\ UNCHANGED <<role, execution, provider, answered, touched, cancels,
                 sessionFaults>>

(* The process dies.                                                       *)
Die ==
  /\ at # "idle" \/ cat # "idle"
  /\ sessionFaults < MaxSessionFaults /\ sessionFaults' = sessionFaults + 1
  /\ ExecuteReturns
  /\ cat' = "idle" /\ target' = 0 /\ killed' = FALSE
  /\ UNCHANGED <<sessions, role, attempt, executions, provider, answered, touched, cancels>>

Executing == CheckBarrier \/ ChooseSession \/ Invoke \/ Insert \/ RecordFailure

Cancelling == RequestCancel \/ Stop \/ SettleCancel

SessionsNext ==
  \/ \E a \in Numbers : Execute(a)
  \/ Executing \/ InvokeRaises \/ Complete
  \/ Cancel \/ Cancelling
  \/ Die

(* A call goes on until it returns or raises, or the process dies.         *)
SessionsSpec ==
  /\ SessionsInit /\ [][SessionsNext]_sessionVars
  /\ WF_sessionVars(Executing \/ Complete)
  /\ WF_sessionVars(Cancelling)

----------------------------------------------------------------------------
(* An attempt whose outcome was returned is not executed again: it is      *)
(* returned again, also after a crash (completed_outcome).  Only a         *)
(* cancel() that comes after it takes the outcome off the record.          *)
AnsweredIsReplayed ==
  [][\A a \in answered \ touched : invoked'[a] = invoked[a]]_sessionVars

(* A provider session is given up when it has been continued or has failed *)
(* as often as the policy allows; each fault can hide one use (SessionPolicy).*)
SessionsWearOut ==
  \A h \in Handles :
    /\ uses[h] <= MaxContinuations + 1 + sessionFaults
    /\ losses[h] <= RotateAfterFailures + sessionFaults
    /\ role = "reviewer" => uses[h] <= 1

=============================================================================
