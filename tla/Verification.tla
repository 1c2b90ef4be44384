---------------------------- MODULE Verification ----------------------------
(***************************************************************************)
(* External verifications by an HTTP pipeline: the adapter that checks a   *)
(* frozen revision before each use (verifier/runtime.py), composed with    *)
(* the revisions of VerifierLifecycle and with HttpPipelineVerifier        *)
(* (verifier/http_pipeline.py), which triggers a job of an external host,  *)
(* polls it and cancels it.                                                *)
(*                                                                         *)
(* A verification is named by its idempotency key; the host is taken to    *)
(* honour it, so that retries of a trigger make one job.  Of the engine    *)
(* there is what it does with the answers: a handle is checkpointed, a     *)
(* verification that died before it has one is an error, a pending one is  *)
(* polled again, and a control, which is another thread or process, keeps  *)
(* the Run from going on and asks the host to cancel the jobs that have a  *)
(* handle by then.  Each verification is the node of a Run of its own.     *)
(***************************************************************************)
EXTENDS VerifierLifecycle

CONSTANTS
  Keys,        (* idempotency keys                                         *)
  MaxRetries,  (* HttpPipelineSpec.max_retries                             *)
  MaxFaults    (* bound: requests that fail, and crashes                   *)

Phases == {"new", "trigger", "pending", "poll", "report", "done"}
Results == {"passed", "failed", "error", "stopped"}
Controls == {"none", "interrupt", "cancel", "over"}
JobStates == {"running", "passed", "failed", "cancelled"}

ASSUME VerificationAssumption ==
  /\ MaxRetries \in Nat /\ MaxFaults \in Nat
  /\ None \notin Results \cup JobStates

VARIABLES
  phase,   (* of each verification                                         *)
  used,    (* the verifier revision that its node names                    *)
  tries,   (* requests that failed in the loop of _send                    *)
  clock,   (* _started: "unset", "running", or the timeout is "over"       *)
  result,  (* the persisted result, None before                            *)
  job,     (* the host: the state of the job, None before                  *)
  read,    (* the verdict that a poll has read                             *)
  handles, (* external_handles: who has a checkpointed handle              *)
  control, (* the barrier of the Run, until its control is "over"          *)
  answer,  (* external_handles.cancel_state                                *)
  faults

controls == <<handles, control, answer>>
pipeline == <<phase, used, tries, clock, result, job, read, controls>>
vars == <<lifecycleVars, pipeline, faults>>

TypeOK ==
  /\ LifecycleTypeOK
  /\ phase \in [Keys -> Phases] /\ used \in [Keys -> Revisions]
  /\ tries \in [Keys -> 0..MaxRetries]
  /\ clock \in [Keys -> {"unset", "running", "over"}]
  /\ result \in [Keys -> Results \cup {None}]
  /\ job \in [Keys -> JobStates \cup {None}]
  /\ read \in [Keys -> JobStates \cup {None}]
  /\ handles \subseteq Keys /\ control \in [Keys -> Controls]
  /\ answer \in [Keys -> {"cancelled", "unknown", None}]
  /\ faults \in 0..MaxFaults

Init ==
  /\ LifecycleInit
  /\ phase = [k \in Keys |-> "new"] /\ used \in [Keys -> Revisions]
  /\ tries = [k \in Keys |-> 0] /\ clock = [k \in Keys |-> "unset"]
  /\ result = [k \in Keys |-> None] /\ job = [k \in Keys |-> None]
  /\ read = [k \in Keys |-> None]
  /\ handles = {} /\ control = [k \in Keys |-> "none"] /\ answer = [k \in Keys |-> None]
  /\ faults = 0

----------------------------------------------------------------------------
Goto(k, p) == phase' = [phase EXCEPT ![k] = p]

Done(k, what) ==
  /\ Goto(k, "done")
  /\ result' = [result EXCEPT ![k] = what]

Fault == faults < MaxFaults /\ faults' = faults + 1

(* The attempt starts, unless there is a barrier, and execute() of the     *)
(* adapter is called: an exception is an error of the attempt.             *)
Execute(k) ==
  /\ phase[k] = "new" /\ control[k] = "none"
  /\ IF VerifyFrozen(used[k])
       THEN Goto(k, "trigger") /\ UNCHANGED result
       ELSE Done(k, "error")
  /\ UNCHANGED <<lifecycleVars, used, tries, clock, job, read, controls, faults>>

(* The host starts a job, unless the key has one.                          *)
Started(k) == job' = [job EXCEPT ![k] = IF @ = None THEN "running" ELSE @]

(* The handle is checkpointed, whatever has become of the Run meanwhile.   *)
Trigger(k) ==
  /\ phase[k] = "trigger"
  /\ Started(k)
  /\ Goto(k, "pending")
  /\ handles' = handles \cup {k}
  /\ clock' = [clock EXCEPT ![k] = "running"]
  /\ tries' = [tries EXCEPT ![k] = 0]
  /\ UNCHANGED <<lifecycleVars, used, result, read, control, answer, faults>>

(* The request fails, before or after the host has heard it, and is sent   *)
(* again as often as _send allows.                                         *)
TriggerFails(k) ==
  /\ phase[k] = "trigger" /\ Fault
  /\ Started(k) \/ UNCHANGED job
  /\ IF tries[k] < MaxRetries
       THEN /\ tries' = [tries EXCEPT ![k] = @ + 1]
            /\ UNCHANGED <<phase, result>>
       ELSE /\ tries' = [tries EXCEPT ![k] = 0]
            /\ Done(k, "error")
  /\ UNCHANGED <<lifecycleVars, used, clock, read, controls>>

(* query_for: an exception is not a result, and the verification stays     *)
(* pending.  A cancel that has not come to its end does not keep the       *)
(* Runner from polling.                                                    *)
Query(k) ==
  /\ phase[k] = "pending" /\ control[k] \in {"none", "cancel"} /\ VerifyFrozen(used[k])
  /\ Goto(k, "poll")
  /\ UNCHANGED <<lifecycleVars, used, tries, clock, result, job, read, controls, faults>>

(* What the host says: a running job is polled again, one that has ended   *)
(* has the verdict that the spec maps its status to (an ended job that did *)
(* not pass has failed), and a status that is not mapped is an error.      *)
Answered(k) ==
  \/ job[k] = "running" /\ Goto(k, "pending") /\ UNCHANGED <<result, read>>
  \/ /\ job[k] # "running" /\ Goto(k, "report")
     /\ read' = [read EXCEPT ![k] = IF job[k] = "passed" THEN "passed" ELSE "failed"]
     /\ UNCHANGED result
  \/ Done(k, "error") /\ UNCHANGED read

(* Mutant: the time runs from the last poll.                               *)
PollAfresh(k) ==
  /\ phase[k] = "poll"
  /\ clock' = [clock EXCEPT ![k] = "running"]
  /\ Answered(k)
  /\ UNCHANGED <<lifecycleVars, used, tries, job, controls, faults>>

(* poll(): the time runs from the trigger, or from the first poll of this  *)
(* process.                                                                *)
Poll(k) ==
  /\ phase[k] = "poll"
  /\ clock' = [clock EXCEPT ![k] = IF @ = "unset" THEN "running" ELSE @]
  /\ \/ clock[k] = "over" /\ Done(k, "error") /\ UNCHANGED read
     \/ clock[k] # "over" /\ Answered(k)
  /\ UNCHANGED <<lifecycleVars, used, tries, job, controls, faults>>

(* The report is downloaded before the verdict is returned; it is stored   *)
(* though the Run may have been stopped in the meantime.                   *)
Report(k) ==
  /\ phase[k] = "report"
  /\ Done(k, read[k])
  /\ UNCHANGED <<lifecycleVars, used, tries, clock, job, read, controls, faults>>

(* All requests of a poll, or of its report, fail: an error is a result.   *)
PollFails(k) ==
  /\ phase[k] \in {"poll", "report"} /\ Fault
  /\ Done(k, "error")
  /\ UNCHANGED <<lifecycleVars, used, tries, clock, job, read, controls>>

(* control() or cancel() of the engine commits its barrier.                *)
Control(k, what) ==
  /\ control[k] = "none" /\ phase[k] # "done"
  /\ control' = [control EXCEPT ![k] = what]
  /\ UNCHANGED <<lifecycleVars, phase, used, tries, clock, result, job, read, handles, answer, faults>>

(* ... and goes on to cancel what has a handle: the host accepts, with any *)
(* status below 300, or the outcome is unknown and the job is named as a   *)
(* residual effect.  A trigger under way has no handle, and nobody returns *)
(* to it.                                                                  *)
Cancel(k) ==
  /\ control[k] \in {"interrupt", "cancel"}
  /\ IF k \in handles
       THEN \E says \in {"cancelled", "unknown"} : answer' = [answer EXCEPT ![k] = says]
       ELSE UNCHANGED answer
  /\ control' = [control EXCEPT ![k] = "over"]
  /\ UNCHANGED <<lifecycleVars, phase, used, tries, clock, result, job, read, handles, faults>>

(* The host has heard the request and ends the job: before it answers,     *)
(* after it has accepted, though the answer is lost, or never.             *)
JobCancelled(k) ==
  /\ k \in handles /\ (control[k] \in {"interrupt", "cancel"} \/ answer[k] # None)
  /\ job[k] = "running"
  /\ job' = [job EXCEPT ![k] = "cancelled"]
  /\ UNCHANGED <<lifecycleVars, phase, used, tries, clock, result, read, controls, faults>>

(* The Runner meets the barrier of an interrupt, or a Run that the cancel  *)
(* has ended, and the verification is left without a verdict.              *)
Stop(k) ==
  /\ phase[k] \in {"new", "pending"} /\ control[k] \in {"interrupt", "over"}
  /\ Done(k, "stopped")
  /\ UNCHANGED <<lifecycleVars, used, tries, clock, job, read, controls, faults>>

----------------------------------------------------------------------------
(* The process dies.  Who was about to have a handle is recovered as an    *)
(* uncertain effect; who has one is polled again, on a clock of its own.   *)
Crash ==
  /\ Fault
  /\ \E k \in Keys : phase[k] \in {"trigger", "pending", "poll", "report"}
  /\ result' = [k \in Keys |-> IF phase[k] = "trigger" THEN "error" ELSE result[k]]
  /\ phase' = [k \in Keys |-> CASE phase[k] = "trigger"            -> "done"
                                 [] phase[k] \in {"poll", "report"} -> "pending"
                                 [] OTHER                           -> phase[k]]
  /\ clock' = [k \in Keys |-> "unset"]
  /\ tries' = [k \in Keys |-> 0]
  /\ UNCHANGED <<lifecycleVars, used, job, read, controls>>

(* The job ends, in its own time or never.                                 *)
JobEnds(k) ==
  /\ job[k] = "running"
  /\ \E what \in {"passed", "failed"} : job' = [job EXCEPT ![k] = what]
  /\ UNCHANGED <<lifecycleVars, phase, used, tries, clock, result, read, controls, faults>>

Time(k) ==
  /\ clock[k] = "running" /\ phase[k] # "done"
  /\ clock' = [clock EXCEPT ![k] = "over"]
  /\ UNCHANGED <<lifecycleVars, phase, used, tries, result, job, read, controls, faults>>

Proceed(k) ==
  Execute(k) \/ Trigger(k) \/ Query(k) \/ Poll(k) \/ Report(k) \/ Stop(k)

Next ==
  \/ \E k \in Keys : \/ Proceed(k) \/ TriggerFails(k) \/ PollFails(k)
                      \/ Control(k, "interrupt") \/ Control(k, "cancel") \/ Cancel(k)
                      \/ JobCancelled(k) \/ JobEnds(k) \/ Time(k)
  \/ Crash
  \/ (LifecycleNext \/ \E d \in Digests : Edit(d)) /\ UNCHANGED <<pipeline, faults>>

(* A pending verification is polled for as long as it is pending, and time *)
(* passes.                                                                 *)
Spec ==
  /\ Init /\ [][Next]_vars
  /\ \A k \in Keys : WF_vars(Proceed(k)) /\ WF_vars(Time(k))

----------------------------------------------------------------------------
(* A verdict is that of the job of its key, which has ended, and of a      *)
(* revision that was frozen for a Contract, whatever was staged, edited,   *)
(* controlled or restarted in the meantime (_execute, query_for, poll).    *)
VerdictIsBacked ==
  \A k \in Keys : result[k] \in {"passed", "failed"} =>
    /\ job[k] \in (IF result[k] = "passed" THEN {"passed"} ELSE {"failed", "cancelled"})
    /\ \E c \in Contracts : binding[c] = used[k]

(* A job that the host has started is about to have a handle, has one, or  *)
(* its verification is an error, through lost triggers, controls and       *)
(* crashes (_persist_result, _recover).                                    *)
JobsAreKnown ==
  \A k \in Keys : job[k] # None =>
    phase[k] = "trigger" \/ k \in handles \/ result[k] = "error"

(* Polling comes to an end though the job may not, and though the process  *)
(* restarts; only files that differ from the frozen ones keep it pending   *)
(* (poll, verify_frozen).                                                  *)
VerificationSettles ==
  \A k \in Keys :
    phase[k] = "pending" ~> (phase[k] = "done" \/ digest[used[k]] # disk)

=============================================================================
