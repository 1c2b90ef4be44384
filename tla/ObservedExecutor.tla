-------------------------- MODULE ObservedExecutor --------------------------
(***************************************************************************)
(* ExecutorSessions under Telemetry: DurableExecutorRuntime.execute runs   *)
(* in a span, which is entered when it is called and ends when it returns  *)
(* or raises.  cancel() has no span.  A crash of the process takes the     *)
(* telemetry with it.                                                      *)
(***************************************************************************)
EXTENDS ExecutorSessions, Telemetry

observedVars == <<sessionVars, telemetryVars>>

ObservedTypeOK == SessionsTypeOK /\ TelemetryTypeOK

ObservedInit == SessionsInit /\ TelemetryInit

(* A step in the middle of a call leaves the telemetry alone.              *)
Unobserved(Step) == Step /\ UNCHANGED telemetryVars

(* The span is entered; a call that replays its outcome leaves it at once. *)
Enter(a) ==
  /\ Execute(a)
  /\ IF at' = "idle"
       THEN /\ Enqueue(IF shut THEN 0 ELSE 5)
            /\ UNCHANGED <<shut, flusher, flushes>>
       ELSE EnterSpan

(* The call returns, or raises: the span ends.                             *)
Exit == (CheckBarrier \/ InvokeRaises \/ Complete) /\ at' = "idle" /\ ExitSpan

Inside ==
  \/ Unobserved(CheckBarrier) /\ at' # "idle"
  \/ Unobserved(ChooseSession \/ Invoke \/ Insert \/ RecordFailure)

ObservedNext ==
  \/ \E a \in Numbers : Enter(a)
  \/ Exit \/ Inside
  \/ Unobserved(Cancel \/ Cancelling)
  \/ Die /\ TelemetryRestarts
  \/ Flushing /\ UNCHANGED sessionVars

(* The threads of the Run and of control go on; nothing is asked of the    *)
(* thread that flushes, or of the exporter.                                *)
ObservedSpec ==
  /\ ObservedInit /\ [][ObservedNext]_observedVars
  /\ WF_observedVars(Exit \/ Inside) /\ WF_observedVars(Unobserved(Cancelling))

----------------------------------------------------------------------------
(* While the process lives a record leaves the buffer only when the        *)
(* exporter has answered for it, as long as it does not answer for more    *)
(* than it was given: not when its batch is accepted in part, when the     *)
(* flush is given up, or when others find the buffer full during the       *)
(* export (force_flush, _enqueue).                                         *)
LeavesAnswered ==
  [][(Len(buffer') < Len(buffer) /\ sessionFaults' = sessionFaults /\ accepted <= batch) =>
       \A i \in 1..(Len(buffer) - Len(buffer')) : buffer[i]]_observedVars

(* Telemetry is not in the way of what it observes (docs/adr/042): with a  *)
(* full buffer, an exporter that hangs and a flush at any time, executions *)
(* and cancellations do what they do without it, and return as they do.    *)
TelemetryIsTransparent == SessionsSpec

=============================================================================
