-------------------------- MODULE ContainerVerifier --------------------------
(***************************************************************************)
(* The container executions of one Run (verifier/container.py): workers    *)
(* that execute() and poll(), one per key, controllers that cancel(), the  *)
(* rows of `container_executions` they share, the slots of each process,   *)
(* and the container runtime behind DockerCLIAdapter.                      *)
(*                                                                         *)
(* A step is one transaction, one call of the adapter, or a group of reads *)
(* whose rows no other thread writes in between; a slot taken or released  *)
(* in memory belongs to the step before or after it.                       *)
(*                                                                         *)
(* Simplifications: the manifest, image, mount and network checks are one  *)
(* refusal; output is over its limit or not, and its artifacts are left    *)
(* out; execution_id, owner_id and key name the same execution, since a    *)
(* key has one row; cleanup_state follows from the state of the row.       *)
(***************************************************************************)
EXTENDS Naturals, FiniteSets

CONSTANTS
  Keys,           (* idempotency keys: <<run, verifier node>>              *)
  Controllers,    (* threads that cancel the handles of an interrupted Run *)
  Procs,          (* processes, each with its own ContainerVerifier        *)
  Host,           (* the process whose threads execute and poll            *)
  Home,           (* the process of each controller                        *)
  MaxConcurrency, (* resources.max_concurrency                             *)
  MaxAttempts,    (* bound: attempts of each node, all with the same key   *)
  MaxFaults,      (* bound: crashes and calls that go wrong, together      *)
  None

Threads == Keys \cup Controllers
Outcomes == {"passed", "failed", "cancelled", "error"}
Active == {"starting", "running", "uncertain"}
RowStates == Active \cup {"barrier", "error", "completed", "residual"}
Rows == [state : RowStates, handle : BOOLEAN, result : Outcomes \cup {None}]
BoxStates == {"absent", "created", "running", "exit0", "exit1"}
Labels == {"idle", "ask", "reserve", "recheck", "start", "record", "tell", "undo",
           "forget", "keep", "look", "inspect", "stop", "cleanup", "settle"}

ASSUME ContainerAssumption ==
  /\ Keys \cap Controllers = {}
  /\ Host \in Procs /\ Home \in [Controllers -> Procs]
  /\ IsFiniteSet(Keys)
  /\ MaxConcurrency \in Nat /\ MaxAttempts \in [Keys -> Nat]
  /\ MaxFaults \in Nat
  /\ None \notin Outcomes /\ None \notin Rows /\ None \notin Keys

VARIABLES
  barrier,   \* runs.barrier is set: the Run takes no new step
  row,       \* `container_executions`, by key
  expired,   \* keys whose deadline_at has passed
  box,       \* the container the runtime made for a key: its last status,
  present,   \* and whether it has not been removed
  slots,     \* _slots of each process
  active,    \* _active_handles of each process
  pc, on,    \* where each thread is, and the key it works on
  got,       \* the result a thread is about to store
  clean,     \* what its cleanup() returned: None, TRUE, FALSE
  attempt,   \* attempts of the node of each key
  told,      \* what the Runtime knows of the last attempt
  asked,     \* the handles a controller has cancelled
  starts,    \* history: attempts that called adapter.start
  blurred,   \* history: keys for which a call had an effect and said it had
             \* not, or whose handle could not be stored
  faults     \* what MaxFaults faults

docker == <<box, present>>
memory == <<slots, active>>
local == <<pc, on, got, clean>>
caller == <<attempt, told, asked>>
world == <<barrier, expired>>
history == <<starts, blurred>>
vars == <<world, row, docker, memory, local, caller, history, faults>>

ProcOf(t) == IF t \in Keys THEN Host ELSE Home[t]

TypeOK ==
  /\ barrier \in BOOLEAN /\ expired \subseteq Keys
  /\ row \in [Keys -> Rows \cup {None}]
  /\ box \in [Keys -> BoxStates] /\ present \in [Keys -> BOOLEAN]
  /\ slots \in [Procs -> Nat] /\ active \in [Procs -> SUBSET Keys]
  /\ pc \in [Threads -> Labels]
  /\ on \in [Threads -> Keys \cup {None}]
  /\ got \in [Threads -> Outcomes \cup {None}]
  /\ clean \in [Threads -> BOOLEAN \cup {None}]
  /\ attempt \in [Keys -> Nat] /\ \A k \in Keys : attempt[k] <= MaxAttempts[k]
  /\ told \in [Keys -> Outcomes \cup {"none", "calling", "pending", "lost"}]
  /\ asked \in [Controllers -> SUBSET Keys]
  /\ starts \in [Keys -> SUBSET Nat] /\ blurred \subseteq Keys
  /\ faults \in 0..MaxFaults

Init ==
  /\ barrier = FALSE /\ expired = {}
  /\ row = [k \in Keys |-> None]
  /\ box = [k \in Keys |-> "absent"] /\ present = [k \in Keys |-> FALSE]
  /\ slots = [p \in Procs |-> MaxConcurrency] /\ active = [p \in Procs |-> {}]
  /\ pc = [t \in Threads |-> "idle"] /\ on = [t \in Threads |-> None]
  /\ got = [t \in Threads |-> None] /\ clean = [t \in Threads |-> None]
  /\ attempt = [k \in Keys |-> 0] /\ told = [k \in Keys |-> "none"]
  /\ asked = [c \in Controllers |-> {}]
  /\ starts = [k \in Keys |-> {}] /\ blurred = {}
  /\ faults = 0

Goto(t, label) == pc' = [pc EXCEPT ![t] = label]
Write(k, state, handle, result) ==
  row' = [row EXCEPT ![k] = [state |-> state, handle |-> handle, result |-> result]]
Fault == faults < MaxFaults /\ faults' = faults + 1

(* The thread returns with this outcome; execute() and poll() tell it to   *)
(* the Runtime, a controller has cancelled one more handle.                *)
Answer(t, outcome) ==
  /\ Goto(t, "idle")
  /\ got' = [got EXCEPT ![t] = None]
  /\ clean' = [clean EXCEPT ![t] = None]
  /\ on' = [on EXCEPT ![t] = None]
  /\ told' = IF t \in Keys THEN [told EXCEPT ![t] = outcome] ELSE told
  /\ asked' = IF t \in Keys THEN asked ELSE [asked EXCEPT ![t] = @ \cup {on[t]}]
  /\ UNCHANGED attempt

-----------------------------------------------------------------------------
(* execute() *)

(* An attempt of the node, while no barrier is up; every one passes the    *)
(* same key.  After a crash the caller may call again: the Runtime gives   *)
(* up there (GraphRuntime!Recover), but execute() promises to be safe.     *)
Call(k) ==
  /\ pc[k] = "idle" /\ told[k] \in Outcomes \cup {"none", "lost"}
  /\ ~barrier /\ attempt[k] < MaxAttempts[k]
  /\ attempt' = [attempt EXCEPT ![k] = @ + 1]
  /\ told' = [told EXCEPT ![k] = "calling"]
  /\ on' = [on EXCEPT ![k] = k]
  /\ Goto(k, "ask")
  /\ UNCHANGED <<got, clean, asked, world, row, docker, memory, history, faults>>

(* The key has a stored result: it is the answer. *)
ReplayResult(k) ==
  /\ pc[k] = "ask" /\ row[k] # None /\ row[k].result # None
  /\ Answer(k, row[k].result)
  /\ UNCHANGED <<world, row, docker, memory, history, faults>>

(* The key has a handle: it is polled. *)
PollInstead(k) ==
  /\ pc[k] = "ask" /\ row[k] # None /\ row[k].result = None /\ row[k].handle
  /\ Goto(k, "look")
  /\ UNCHANGED <<on, got, clean, caller, world, row, docker, memory, history, faults>>

\* Mutant of RefuseRetrigger: without a handle nothing has started.
Retrigger(k) ==
  /\ pc[k] = "ask" /\ row[k] # None /\ row[k].result = None /\ ~row[k].handle
  /\ Goto(k, "reserve")
  /\ UNCHANGED <<on, got, clean, caller, world, row, docker, memory, history, faults>>

(* The key has an intent without a handle: never triggered again. *)
RefuseRetrigger(k) ==
  /\ pc[k] = "ask" /\ row[k] # None /\ row[k].result = None /\ ~row[k].handle
  /\ Answer(k, "error")
  /\ UNCHANGED <<world, row, docker, memory, history, faults>>

ActiveCount == Cardinality({k \in Keys : row[k] # None /\ row[k].state \in Active})

(* _validate_before_effect refuses, or too many executions are active. *)
Refuse(k) ==
  /\ pc[k] = "ask" /\ row[k] = None
  /\ Answer(k, "error")
  /\ UNCHANGED <<world, row, docker, memory, history, faults>>

Admit(k) ==
  /\ pc[k] = "ask" /\ row[k] = None
  /\ ActiveCount < MaxConcurrency
  /\ Goto(k, "reserve")
  /\ UNCHANGED <<on, got, clean, caller, world, row, docker, memory, history, faults>>

TakeSlot == slots' = [slots EXCEPT ![Host] = @ - 1] /\ UNCHANGED active
ReturnSlot == slots' = [slots EXCEPT ![Host] = @ + 1] /\ UNCHANGED active

(* The semaphore, and the transaction that asks for the barrier of the Run *)
(* and inserts the intent; refused, it leaves the semaphore as it was.     *)
Reserve(k) ==
  /\ pc[k] = "reserve"
  /\ \/ /\ slots[Host] > 0 /\ ~barrier
        /\ TakeSlot
        /\ Write(k, "starting", FALSE, None)
        /\ Goto(k, "recheck")
        /\ UNCHANGED <<on, got, clean, caller>>
     \/ /\ slots[Host] = 0 \/ barrier
        /\ Answer(k, "error")
        /\ UNCHANGED <<row, memory>>
  /\ UNCHANGED <<world, docker, history, faults>>

(* The second look at the barrier (can_start is optional), and the mounts. *)
Recheck(k) ==
  /\ pc[k] = "recheck"
  /\ \/ /\ barrier
        /\ Write(k, "barrier", row[k].handle, row[k].result)
        /\ ReturnSlot /\ Answer(k, "error") /\ UNCHANGED faults
     \/ /\ Goto(k, "start")
        /\ UNCHANGED <<row, memory, on, got, clean, caller, faults>>
     \/ /\ Fault   \* CapabilityViolation: the row keeps its state
        /\ ReturnSlot /\ Answer(k, "error") /\ UNCHANGED row
     \/ /\ Fault   \* any other exception
        /\ Goto(k, "undo")
        /\ UNCHANGED <<row, memory, on, got, clean, caller>>
  /\ UNCHANGED <<world, docker, history>>

Creates(k, status) ==
  /\ box' = [box EXCEPT ![k] = status]
  /\ present' = [present EXCEPT ![k] = TRUE]

(* adapter.start: `docker create`, then `docker start`, whose exit code is *)
(* not looked at.                                                          *)
Start(k) ==
  /\ pc[k] = "start"
  /\ starts' = [starts EXCEPT ![k] = @ \cup {attempt[k]}]
  /\ \/ /\ Creates(k, "running") /\ Goto(k, "record")
        /\ UNCHANGED <<memory, blurred, faults>>
     \/ /\ Fault   \* created and not started
        /\ Creates(k, "created") /\ Goto(k, "record")
        /\ UNCHANGED <<memory, blurred>>
     \/ /\ Fault   \* not created: RuntimeError
        /\ Goto(k, "undo")
        /\ UNCHANGED <<docker, memory, blurred>>
     \/ /\ Fault   \* one of the two commands has worked and timed out
        /\ \E status \in {"created", "running"} : Creates(k, status)
        /\ blurred' = blurred \cup {k}
        /\ Goto(k, "undo")
        /\ UNCHANGED memory
     \/ /\ Fault   \* no handle printed: ContainerStartUncertainError
        /\ Creates(k, "created") /\ ReturnSlot /\ Goto(k, "forget")
        /\ UNCHANGED blurred
  /\ UNCHANGED <<on, got, clean, caller, world, row>>

(* The runtime has disappeared: ContainerPreflightError, the row keeps its *)
(* state.                                                                  *)
StartRefused(k) ==
  /\ pc[k] = "start" /\ Fault
  /\ ReturnSlot /\ Answer(k, "error")
  /\ UNCHANGED <<world, row, docker, history>>

(* The handle is checkpointed.  Nobody knows it before execute() returns,  *)
(* so that _active_handles is up to date when somebody does.  When the     *)
(* transaction fails the handle is forgotten: the start counts as failed,  *)
(* and nobody stops or removes the container.                              *)
Record(k) ==
  /\ pc[k] = "record"
  /\ \/ /\ Write(k, "running", TRUE, row[k].result)
        /\ active' = [active EXCEPT ![Host] = @ \cup {k}]
        /\ Goto(k, "tell")
        /\ UNCHANGED <<blurred, faults>>
     \/ /\ Fault
        /\ blurred' = blurred \cup {k}
        /\ Goto(k, "undo")
        /\ UNCHANGED <<row, active>>
  /\ UNCHANGED <<slots, on, got, clean, caller, world, docker, starts>>

(* execute() returns, and the Runtime checkpoints the handle a second time.*)
Tell(k) ==
  /\ pc[k] = "tell"
  /\ Answer(k, "pending")
  /\ UNCHANGED <<world, row, docker, memory, history, faults>>

(* _persist_error *)
Undo(k) ==
  /\ pc[k] = "undo"
  /\ Write(k, "error", row[k].handle, "error")
  /\ ReturnSlot /\ Answer(k, "error")
  /\ UNCHANGED <<world, docker, history, faults>>

Killed(status) == IF status = "running" THEN "exit1" ELSE status

(* adapter.cleanup returns c (an exception faults as FALSE). `docker       *)
(* inspect` failing, for any reason, is taken to mean that nothing is      *)
(* there; `docker rm -f` may be refused.                                   *)
CleanupReturns(k, c) ==
  \/ /\ c /\ ~present[k]
     /\ UNCHANGED <<docker, blurred, faults>>
  \/ /\ c /\ present[k]
     /\ present' = [present EXCEPT ![k] = FALSE]
     /\ box' = [box EXCEPT ![k] = Killed(@)]
     /\ UNCHANGED <<blurred, faults>>
  \/ /\ c /\ present[k] /\ Fault
     /\ blurred' = blurred \cup {k}
     /\ UNCHANGED docker
  \/ /\ ~c /\ Fault
     /\ UNCHANGED <<docker, blurred>>

(* The cleanup after an uncertain start. *)
Forget(k) ==
  /\ pc[k] = "forget"
  /\ \E c \in BOOLEAN : CleanupReturns(k, c) /\ clean' = [clean EXCEPT ![k] = c]
  /\ Goto(k, "keep")
  /\ UNCHANGED <<on, got, caller, world, row, memory, starts>>

UncertainState(c) == IF c THEN "error" ELSE "uncertain"

(* _persist_uncertain *)
Keep(k) ==
  /\ pc[k] = "keep"
  /\ Write(k, UncertainState(clean[k]), row[k].handle, "error")
  /\ Answer(k, "error")
  /\ UNCHANGED <<world, docker, memory, history, faults>>

-----------------------------------------------------------------------------
(* poll() and cancel() *)

Poll(k) ==
  /\ pc[k] = "idle" /\ told[k] = "pending" /\ ~barrier
  /\ on' = [on EXCEPT ![k] = k]
  /\ Goto(k, "look")
  /\ UNCHANGED <<got, clean, caller, world, row, docker, memory, history, faults>>

(* _cancel_external_handles: after the barrier, each checkpointed handle.  *)
Cancel(c, k) ==
  /\ pc[c] = "idle" /\ barrier /\ k \notin asked[c]
  /\ told[k] = "pending"
  /\ on' = [on EXCEPT ![c] = k]
  /\ Goto(c, "look")
  /\ UNCHANGED <<got, clean, caller, world, row, docker, memory, history, faults>>

(* The row is read; whoever goes on works on what it said. *)
LookDone(t) ==
  /\ pc[t] = "look" /\ row[on[t]].result # None
  /\ Answer(t, row[on[t]].result)
  /\ UNCHANGED <<world, row, docker, memory, history, faults>>

\* Mutant of DeadlinePassed: the row of a restarted process has no deadline.
DeadlineForgotten(k) == k \in expired /\ k \in active[Host]

DeadlinePassed(k) == k \in expired

LookOn(t) ==
  /\ pc[t] = "look" /\ row[on[t]].result = None
  /\ \/ /\ t \in Keys /\ ~DeadlinePassed(t)
        /\ Goto(t, "inspect") /\ UNCHANGED got
     \/ /\ t \in Keys /\ DeadlinePassed(t)
        /\ Goto(t, "stop") /\ got' = [got EXCEPT ![t] = "error"]
     \/ /\ t \in Controllers
        /\ Goto(t, "stop") /\ got' = [got EXCEPT ![t] = "cancelled"]
  /\ UNCHANGED <<on, clean, caller, world, row, docker, memory, history, faults>>

\* Mutant of Unfinished: a container created and not started has exit code 0.
UnfinishedIfRunning(k) == box[k] = "running"

Unfinished(k) == box[k] \in {"created", "running"}

(* `docker inspect` and the logs *)
Inspect(k) ==
  /\ pc[k] = "inspect"
  /\ \/ /\ present[k] /\ Unfinished(k)
        /\ Answer(k, "pending") /\ UNCHANGED faults
     \/ /\ present[k] /\ ~Unfinished(k)
        /\ Goto(k, "cleanup")
        /\ got' = [got EXCEPT ![k] = IF box[k] = "exit1" THEN "failed" ELSE "passed"]
        /\ UNCHANGED <<on, clean, caller, faults>>
     \/ /\ present[k]   \* the output is over its limit
        /\ Goto(k, "stop")
        /\ got' = [got EXCEPT ![k] = "error"]
        /\ UNCHANGED <<on, clean, caller, faults>>
     \/ /\ \/ ~present[k] /\ UNCHANGED faults
           \/ Fault
        /\ Goto(k, "cleanup")
        /\ got' = [got EXCEPT ![k] = "error"]
        /\ UNCHANGED <<on, clean, caller>>
  /\ UNCHANGED <<world, row, docker, memory, history>>

Stopped(status) == IF status = "running" THEN {"exit0", "exit1"} ELSE {status}

(* `docker stop`: settled or not, poll() goes on; cancel() then knows that *)
(* the effect may remain.                                                  *)
Stop(t) ==
  LET k == on[t] IN
  /\ pc[t] = "stop"
  /\ \/ /\ present[k]
        /\ \E s \in Stopped(box[k]) : box' = [box EXCEPT ![k] = s]
        /\ UNCHANGED <<got, faults>>
     \/ /\ \/ ~present[k] /\ UNCHANGED faults
           \/ Fault
        /\ got' = [got EXCEPT ![t] = "error"]
        /\ UNCHANGED box
  /\ Goto(t, "cleanup")
  /\ UNCHANGED <<present, on, clean, caller, world, row, memory, history>>

(* An exception of stop() leaves poll(), which will be called again, or    *)
(* execute(), whose caller makes an error of it; one of cleanup() leaves a *)
(* cancel() that could not stop.                                           *)
Raise(t) ==
  /\ \/ t \in Keys /\ pc[t] = "stop"
     \/ t \in Controllers /\ pc[t] = "cleanup" /\ got[t] = "error"
  /\ Fault
  /\ Answer(t, IF t \in Keys /\ told[t] = "calling" THEN "error" ELSE "pending")
  /\ UNCHANGED <<world, row, docker, memory, history>>

(* _finish: the cleanup, *)
Cleanup(t) ==
  /\ pc[t] = "cleanup"
  /\ \E c \in BOOLEAN : CleanupReturns(on[t], c) /\ clean' = [clean EXCEPT ![t] = c]
  /\ Goto(t, "settle")
  /\ UNCHANGED <<on, got, caller, world, row, memory, starts>>

\* Mutant of ReleaseHandle: whoever finishes releases.
ReleaseAlways(p, k) ==
  /\ active' = [active EXCEPT ![p] = @ \ {k}]
  /\ slots' = [slots EXCEPT ![p] = @ + 1]

(* _release_handle: only the process that started it, and once. *)
ReleaseHandle(p, k) ==
  /\ active' = [active EXCEPT ![p] = @ \ {k}]
  /\ slots' = IF k \in active[p] THEN [slots EXCEPT ![p] = @ + 1] ELSE slots

\* Mutant of FinalState: it is over, whatever is left behind.
FinalStateAnyhow(c) == "completed"

FinalState(c) == IF c THEN "completed" ELSE "residual"

(* and the transaction that stores the result, whatever the row has become *)
(* since it was read; a failed cleanup makes an error of any result.       *)
Settle(t) ==
  LET final == IF clean[t] THEN got[t] ELSE "error" IN
  /\ pc[t] = "settle"
  /\ Write(on[t], FinalState(clean[t]), row[on[t]].handle, final)
  /\ ReleaseHandle(ProcOf(t), on[t])
  /\ Answer(t, final)
  /\ UNCHANGED <<world, docker, history, faults>>

-----------------------------------------------------------------------------
(* The container, the clock, the Run, and crashes *)

Exit(k) ==
  /\ present[k] /\ box[k] = "running"
  /\ \E s \in {"exit0", "exit1"} : box' = [box EXCEPT ![k] = s]
  /\ UNCHANGED <<present, world, row, memory, local, caller, history, faults>>

Expire(k) ==
  /\ row[k] # None /\ row[k].handle /\ k \notin expired
  /\ expired' = expired \cup {k}
  /\ UNCHANGED <<barrier, row, docker, memory, local, caller, history, faults>>

Interrupt ==
  /\ ~barrier /\ barrier' = TRUE
  /\ UNCHANGED <<expired, row, docker, memory, local, caller, history, faults>>

(* A process dies.  Its successor has new slots and knows of no handle; an *)
(* execute() that has not answered is uncertain to the Runtime, for good.  *)
Crash(p) ==
  /\ Fault
  /\ slots' = [slots EXCEPT ![p] = MaxConcurrency]
  /\ active' = [active EXCEPT ![p] = {}]
  /\ pc' = [t \in Threads |-> IF ProcOf(t) = p THEN "idle" ELSE pc[t]]
  /\ on' = [t \in Threads |-> IF ProcOf(t) = p THEN None ELSE on[t]]
  /\ got' = [t \in Threads |-> IF ProcOf(t) = p THEN None ELSE got[t]]
  /\ clean' = [t \in Threads |-> IF ProcOf(t) = p THEN None ELSE clean[t]]
  /\ told' = [k \in Keys |-> IF p = Host /\ told[k] = "calling" THEN "lost" ELSE told[k]]
  /\ UNCHANGED <<attempt, asked, world, row, docker, history>>

Executing(k) ==
  \/ ReplayResult(k) \/ PollInstead(k) \/ RefuseRetrigger(k) \/ Refuse(k) \/ Admit(k)
  \/ Reserve(k) \/ Recheck(k) \/ Start(k) \/ StartRefused(k) \/ Record(k)
  \/ Tell(k) \/ Undo(k) \/ Forget(k) \/ Keep(k)
Finishing(t) ==
  \/ LookDone(t) \/ LookOn(t) \/ Stop(t) \/ Raise(t) \/ Cleanup(t) \/ Settle(t)
Polling(k) == Poll(k) \/ Inspect(k) \/ Finishing(k)
Next ==
  \/ \E k \in Keys : Call(k) \/ Executing(k) \/ Polling(k) \/ Exit(k) \/ Expire(k)
  \/ \E c \in Controllers : Finishing(c) \/ \E k \in Keys : Cancel(c, k)
  \/ Interrupt
  \/ \E p \in Procs : Crash(p)

Spec == Init /\ [][Next]_vars

(* A thread that can go on does, the Runtime polls what is pending, and    *)
(* time passes; containers need not end, and nobody need interrupt.        *)
Fairness ==
  /\ \A k \in Keys : WF_vars(Executing(k) \/ Polling(k)) /\ WF_vars(Expire(k))
FairSpec == Spec /\ Fairness

-----------------------------------------------------------------------------
(* Properties *)

(* However often a node is attempted, and through crashes, refusals and    *)
(* lost answers, the runtime is asked for the container of a key once (the *)
(* lookup of execute() and the intent committed before adapter.start).     *)
StartedOnce == \A k \in Keys : \A m, n \in starts[k] : m = n

(* No slot of a process is lost or invented by its own threads: it is free,*)
(* behind a handle the process started, or held by an execute() under way, *)
(* although polls and cancels finish one handle twice (_release_handle).   *)
Starting(p) ==
  {k \in Keys : p = Host /\ pc[k] \in {"recheck", "start", "record", "undo"}}
SlotsConserved ==
  \A p \in Procs :
    slots[p] + Cardinality(active[p]) + Cardinality(Starting(p)) = MaxConcurrency

(* A verdict stored or told is that of the container: passed and failed by *)
(* its exit code, cancelled when it runs no more, however polls, cancels   *)
(* and the timeout interleave (_finish overwrites the result).             *)
Verdicts(k) == {told[k]} \cup (IF row[k] = None THEN {} ELSE {row[k].result})
ResultIsReal ==
  \A k \in Keys :
    /\ "passed" \in Verdicts(k) => box[k] = "exit0"
    /\ "failed" \in Verdicts(k) => box[k] = "exit1"
    /\ "cancelled" \in Verdicts(k) => box[k] # "running"

(* Whatever crashes and fails, a container that exists is that of a row    *)
(* which says so: an intent, a handle, an uncertain start or a residual    *)
(* effect; except where the runtime hid from us that it exists, or its     *)
(* handle could not be stored (then it runs on behind an error).           *)
ExistenceIsRecorded ==
  \A k \in Keys : present[k] =>
    /\ row[k] # None
    /\ row[k].state \in {"starting", "running", "uncertain", "residual"} \/ k \in blurred

(* A pending verification is settled: by its end or, with a container that *)
(* never ends, by its deadline, through a restart, unless the Run is       *)
(* interrupted (poll).                                                     *)
PollsSettle ==
  \A k \in Keys : (told[k] = "pending") ~> (told[k] # "pending" \/ barrier)

=============================================================================
