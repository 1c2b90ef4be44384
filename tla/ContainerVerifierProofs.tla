----------------------- MODULE ContainerVerifierProofs -----------------------
(***************************************************************************)
(* What holds of ContainerVerifier for any number of keys, processes,      *)
(* controllers, attempts, crashes and calls that go wrong.                 *)
(***************************************************************************)
EXTENDS ContainerVerifier, FiniteSetTheorems, TLAPS

Intent == {"recheck", "start", "record", "undo", "forget", "keep"}
Execs == {"ask", "reserve", "tell"} \cup Intent
Fins == {"look", "inspect", "stop", "cleanup", "settle"}

Handled(k) == row[k] # None /\ row[k].handle
Fresh(k) ==
  /\ row[k] # None /\ row[k].state = "starting"
  /\ ~row[k].handle /\ row[k].result = None

(* Nothing is left of the container, as far as anybody can see.            *)
Gone(k) == present[k] => k \in blurred

(* The container bears out this result. *)
Real(r, k) ==
  /\ r = "passed" => box[k] = "exit0"
  /\ r = "failed" => box[k] = "exit1"
  /\ r = "cancelled" => box[k] # "running"

(* A thread works on one key: before the start its own, afterwards one     *)
(* with a handle; and it holds a result the container bears out.           *)
ThreadOK(t) ==
  /\ pc[t] \in Execs => t \in Keys /\ on[t] = t /\ told[t] = "calling"
  /\ pc[t] \in Fins => on[t] \in Keys /\ Handled(on[t]) /\ (t \in Keys => on[t] = t)
  /\ pc[t] = "inspect" => t \in Keys
  /\ pc[t] \in {"cleanup", "settle"} => got[t] \in Outcomes /\ Real(got[t], on[t])
  /\ pc[t] = "stop" => got[t] \in {"error", "cancelled"}
  /\ pc[t] \in {"settle", "keep"} => clean[t] \in BOOLEAN /\ (clean[t] => Gone(on[t]))

(* A row is there before its container, and has a handle before anybody    *)
(* else may touch it.                                                      *)
KeyOK(k) ==
  /\ told[k] = "pending" => Handled(k)
  /\ \A p \in Procs : k \in active[p] => Handled(k)
  /\ pc[k] = "reserve" => row[k] = None
  /\ pc[k] \in Intent => Fresh(k)
  /\ pc[k] = "tell" => Handled(k)
  /\ row[k] = None => starts[k] = {}
  /\ pc[k] \in {"recheck", "start"} => starts[k] = {}
  /\ starts[k] = {} => ~present[k] /\ box[k] = "absent"
  /\ present[k] => box[k] # "absent"
  /\ pc[k] = "undo" => Gone(k)

ThreadsOK == \A t \in Threads : ThreadOK(t)
KeysOK == \A k \in Keys : KeyOK(k)

ContainerInv ==
  /\ TypeOK /\ ThreadsOK /\ KeysOK
  /\ StartedOnce /\ SlotsConserved /\ ResultIsReal /\ ExistenceIsRecorded

-----------------------------------------------------------------------------
LEMMA NoneFacts ==
  /\ None \notin Outcomes /\ None \notin Rows /\ None \notin Keys
  /\ \A k \in Keys : k \in Threads /\ ProcOf(k) = Host
  /\ \A c \in Controllers : c \in Threads /\ c \notin Keys /\ ProcOf(c) \in Procs
BY ContainerAssumption DEF Threads, ProcOf

(* A step is that of a thread on its way, or of the world around.          *)
Threading(t) ==
  \/ t \in Keys /\ (Call(t) \/ Executing(t) \/ Poll(t) \/ Inspect(t))
  \/ t \in Controllers /\ \E k \in Keys : Cancel(t, k)
  \/ Finishing(t)
Surrounding ==
  \/ \E k \in Keys : Exit(k) \/ Expire(k)
  \/ Interrupt

LEMMA StepKinds ==
  ASSUME [Next]_vars
  PROVE  \/ \E t \in Threads : Threading(t)
         \/ Surrounding
         \/ \E p \in Procs : Crash(p)
         \/ UNCHANGED vars
BY NoneFacts DEF Next, Threading, Surrounding, Polling

LEMMA WriteFacts ==
  ASSUME TypeOK, NEW k \in Keys, NEW s \in RowStates, NEW h \in BOOLEAN,
         NEW r \in Outcomes \cup {None}, Write(k, s, h, r)
  PROVE  /\ row' \in [Keys -> Rows \cup {None}]
         /\ row'[k] # None /\ row'[k].state = s /\ row'[k].handle = h /\ row'[k].result = r
         /\ \A j \in Keys \ {k} : row'[j] = row[j]
<1>1. [state |-> s, handle |-> h, result |-> r] \in Rows
  BY DEF Rows
<1>2. QED
  BY <1>1, NoneFacts DEF Write, TypeOK

(* Rows are not removed, and handles are not forgotten.                    *)
LEMMA RowSteps ==
  ASSUME TypeOK, ThreadsOK, KeysOK, [Next]_vars, NEW k \in Keys
  PROVE  (row[k] # None => row'[k] # None) /\ (Handled(k) => Handled(k)')
<1> USE DEF Handled
<1>1. CASE UNCHANGED row
  BY <1>1
<1>2. ASSUME NEW j \in Keys, Reserve(j) PROVE (row[k] # None => row'[k] # None) /\ (Handled(k) => Handled(k)')
  <2>1. row[j] = None /\ (UNCHANGED row \/ Write(j, "starting", FALSE, None))
    BY <1>2 DEF Reserve, KeysOK, KeyOK
  <2>2. QED
    BY <2>1, <1>1, WriteFacts DEF RowStates, Active
<1>3. ASSUME NEW j \in Keys, Recheck(j) \/ Record(j) \/ Undo(j) \/ Keep(j)
      PROVE  (row[k] # None => row'[k] # None) /\ (Handled(k) => Handled(k)')
  <2>1. Fresh(j)
    BY <1>3 DEF Recheck, Record, Undo, Keep, Intent, KeysOK, KeyOK
  <2>2. \/ UNCHANGED row
        \/ \E s \in RowStates, h \in BOOLEAN, r \in Outcomes \cup {None} : Write(j, s, h, r)
    <3>1. row[j].handle = FALSE /\ row[j].result = None
      BY <2>1 DEF TypeOK, Rows, Fresh
    <3>2. CASE Recheck(j)
      <4>1. UNCHANGED row \/ Write(j, "barrier", FALSE, None)
        BY <3>1, <3>2 DEF Recheck
      <4>2. QED
        BY <4>1 DEF RowStates
    <3>3. CASE Record(j)
      BY <3>1, <3>3 DEF Record, RowStates, Active
    <3>4. CASE Undo(j)
      BY <3>1, <3>4 DEF Undo, RowStates, Outcomes
    <3>5. CASE Keep(j)
      BY <3>1, <3>5 DEF Keep, RowStates, Active, UncertainState, Outcomes
    <3>6. QED
      BY <1>3, <3>2, <3>3, <3>4, <3>5
  <2>3. QED
    BY <2>1, <2>2, <1>1, WriteFacts DEF Fresh
<1>4. ASSUME NEW t \in Threads, Settle(t)
      PROVE  (row[k] # None => row'[k] # None) /\ (Handled(k) => Handled(k)')
  <2>1. on[t] \in Keys /\ Handled(on[t]) /\ got[t] \in Outcomes
    BY <1>4 DEF Settle, ThreadsOK, ThreadOK, Fins
  <2>2. \E s \in RowStates, r \in Outcomes : Write(on[t], s, TRUE, r)
    <3>1. row[on[t]].handle = TRUE
      BY <2>1 DEF TypeOK, Rows
    <3>2. QED
      BY <1>4, <2>1, <3>1 DEF Settle, FinalState, RowStates, Outcomes
  <2>3. QED
    BY <2>1, <2>2, WriteFacts
<1>5. ASSUME NEW t \in Threads, Threading(t)
      PROVE  \/ UNCHANGED row
             \/ Settle(t)
             \/ t \in Keys /\ (Reserve(t) \/ Recheck(t) \/ Record(t) \/ Undo(t) \/ Keep(t))
  <2>1. CASE t \in Keys /\ (Call(t) \/ Poll(t) \/ Inspect(t) \/ ReplayResult(t)
               \/ PollInstead(t) \/ RefuseRetrigger(t) \/ Refuse(t) \/ Admit(t))
    BY <2>1 DEF Call, Poll, Inspect, ReplayResult, PollInstead, RefuseRetrigger, Refuse, Admit
  <2>2. CASE t \in Keys /\ (Start(t) \/ StartRefused(t) \/ Tell(t) \/ Forget(t))
    BY <2>2 DEF Start, StartRefused, Tell, Forget
  <2>3. CASE t \in Controllers /\ \E j \in Keys : Cancel(t, j)
    BY <2>3 DEF Cancel
  <2>4. CASE LookDone(t) \/ LookOn(t) \/ Stop(t) \/ Raise(t) \/ Cleanup(t)
    BY <2>4 DEF LookDone, LookOn, Stop, Raise, Cleanup
  <2>5. QED
    BY <1>5, <2>1, <2>2, <2>3, <2>4 DEF Threading, Executing, Finishing
<1>6. CASE Surrounding \/ UNCHANGED vars \/ \E p \in Procs : Crash(p)
  BY <1>6, <1>1 DEF Surrounding, Exit, Expire, Interrupt, Crash, vars
<1>7. QED
  BY <1>1, <1>2, <1>3, <1>4, <1>5, <1>6, StepKinds

(* A container comes with the start of its key, and then only ends.        *)
Ages(k) ==
  /\ \/ box'[k] = box[k]
     \/ box[k] = "running" /\ box'[k] \in {"exit0", "exit1"}
  /\ present'[k] => present[k]
  /\ k \in blurred => k \in blurred'
  /\ starts'[k] = starts[k]

LEMMA CleanupAges ==
  ASSUME TypeOK, NEW j \in Keys, NEW c \in BOOLEAN, CleanupReturns(j, c), UNCHANGED starts
  PROVE  (\A k \in Keys : Ages(k)) /\ (c => Gone(j)')
BY DEF CleanupReturns, Ages, TypeOK, Gone, Killed, docker, Fault

LEMMA BoxSteps ==
  ASSUME TypeOK, ThreadsOK, KeysOK, [Next]_vars, NEW k \in Keys
  PROVE  Ages(k) \/ (k \in Keys /\ Start(k))
<1>1. CASE UNCHANGED <<docker, history>>
  BY <1>1 DEF Ages, docker, history
<1>2. ASSUME NEW j \in Keys, Start(j), j # k PROVE Ages(k)
  BY <1>2 DEF Start, Creates, Ages, TypeOK, docker
<1>3. ASSUME NEW j \in Keys, Forget(j) PROVE Ages(k)
  BY <1>3, CleanupAges DEF Forget
<1>4. ASSUME NEW t \in Threads, Cleanup(t) PROVE Ages(k)
  <2>1. on[t] \in Keys
    BY <1>4 DEF Cleanup, ThreadsOK, ThreadOK, Fins
  <2>2. QED
    BY <1>4, <2>1, CleanupAges DEF Cleanup
<1>5. ASSUME NEW t \in Threads, Stop(t) PROVE Ages(k)
  <2>1. on[t] \in Keys
    BY <1>5 DEF Stop, ThreadsOK, ThreadOK, Fins
  <2>2. QED
    BY <1>5, <2>1 DEF Stop, Stopped, Ages, TypeOK, history
<1>6. ASSUME NEW j \in Keys, Exit(j) \/ Record(j) PROVE Ages(k)
  BY <1>6 DEF Exit, Record, Ages, TypeOK, docker, history
<1>7. ASSUME NEW t \in Threads, Threading(t)
      PROVE  \/ UNCHANGED <<docker, history>>
             \/ Stop(t) \/ Cleanup(t)
             \/ t \in Keys /\ (Start(t) \/ Forget(t) \/ Record(t))
  <2>1. CASE t \in Keys /\ (Call(t) \/ Poll(t) \/ Inspect(t) \/ ReplayResult(t)
               \/ PollInstead(t) \/ RefuseRetrigger(t) \/ Refuse(t) \/ Admit(t))
    BY <2>1 DEF Call, Poll, Inspect, ReplayResult, PollInstead, RefuseRetrigger, Refuse, Admit
  <2>2. CASE t \in Keys /\ (Reserve(t) \/ Recheck(t) \/ StartRefused(t)
               \/ Tell(t) \/ Undo(t) \/ Keep(t))
    BY <2>2 DEF Reserve, Recheck, StartRefused, Tell, Undo, Keep
  <2>3. CASE t \in Controllers /\ \E j \in Keys : Cancel(t, j)
    BY <2>3 DEF Cancel
  <2>4. CASE LookDone(t) \/ LookOn(t) \/ Raise(t) \/ Settle(t)
    BY <2>4 DEF LookDone, LookOn, Raise, Settle
  <2>5. QED
    BY <1>7, <2>1, <2>2, <2>3, <2>4 DEF Threading, Executing, Finishing
<1>8. CASE Interrupt \/ UNCHANGED vars \/ (\E p \in Procs : Crash(p)) \/ \E j \in Keys : Expire(j)
  BY <1>8, <1>1 DEF Interrupt, Expire, Crash, vars
<1>9. QED
  BY <1>1, <1>2, <1>3, <1>4, <1>5, <1>6, <1>7, <1>8, StepKinds DEF Surrounding

-----------------------------------------------------------------------------
(* Types *)

LocalTypes ==
  /\ pc \in [Threads -> Labels]
  /\ on \in [Threads -> Keys \cup {None}]
  /\ got \in [Threads -> Outcomes \cup {None}]
  /\ clean \in [Threads -> BOOLEAN \cup {None}]
  /\ attempt \in [Keys -> Nat] /\ \A k \in Keys : attempt[k] <= MaxAttempts[k]
  /\ told \in [Keys -> Outcomes \cup {"none", "calling", "pending", "lost"}]
  /\ asked \in [Controllers -> SUBSET Keys]
OtherTypes ==
  /\ barrier \in BOOLEAN /\ expired \subseteq Keys
  /\ row \in [Keys -> Rows \cup {None}]
  /\ box \in [Keys -> BoxStates] /\ present \in [Keys -> BOOLEAN]
  /\ slots \in [Procs -> Nat] /\ active \in [Procs -> SUBSET Keys]
  /\ starts \in [Keys -> SUBSET Nat] /\ blurred \subseteq Keys
  /\ faults \in 0..MaxFaults

LEMMA TypeParts == TypeOK <=> LocalTypes /\ OtherTypes
BY DEF TypeOK, LocalTypes, OtherTypes

LEMMA AnswerTypes ==
  ASSUME TypeOK, NEW t \in Threads, NEW o \in Outcomes \cup {"pending"}, Answer(t, o),
         t \in Controllers => on[t] \in Keys
  PROVE  LocalTypes'
<1>1. pc' \in [Threads -> Labels] /\ on' \in [Threads -> Keys \cup {None}]
  BY DEF Answer, Goto, TypeOK, Labels
<1>2. /\ got' \in [Threads -> Outcomes \cup {None}]
      /\ clean' \in [Threads -> BOOLEAN \cup {None}]
  BY DEF Answer, TypeOK
<1>3. told' \in [Keys -> Outcomes \cup {"none", "calling", "pending", "lost"}]
  BY DEF Answer, TypeOK
<1>4. asked' \in [Controllers -> SUBSET Keys]
  <2>1. t \in Keys \/ t \in Controllers
    BY DEF Threads
  <2>2. QED
    BY <2>1 DEF Answer, TypeOK
<1>5. attempt' \in [Keys -> Nat] /\ \A k \in Keys : attempt'[k] <= MaxAttempts[k]
  BY DEF Answer, TypeOK
<1>6. QED
  BY <1>1, <1>2, <1>3, <1>4, <1>5 DEF LocalTypes

LEMMA GotoTypes ==
  ASSUME TypeOK, NEW t \in Threads, NEW label \in Labels, Goto(t, label),
         UNCHANGED <<on, got, clean, caller>>
  PROVE  LocalTypes'
BY DEF Goto, TypeOK, LocalTypes, caller

LEMMA FaultTypes == ASSUME TypeOK, Fault \/ UNCHANGED faults PROVE faults' \in 0..MaxFaults
BY ContainerAssumption DEF Fault, TypeOK

LEMMA CleanupTypes ==
  ASSUME TypeOK, NEW k \in Keys, NEW c \in BOOLEAN, CleanupReturns(k, c)
  PROVE  /\ box' \in [Keys -> BoxStates] /\ present' \in [Keys -> BOOLEAN]
         /\ blurred' \subseteq Keys /\ faults' \in 0..MaxFaults
<1>1. faults' \in 0..MaxFaults
  BY FaultTypes DEF CleanupReturns
<1>2. QED
  BY <1>1 DEF CleanupReturns, TypeOK, docker, Killed, BoxStates

LEMMA SlotTypes ==
  ASSUME TypeOK, (TakeSlot /\ slots[Host] > 0) \/ ReturnSlot \/ UNCHANGED memory
  PROVE  slots' \in [Procs -> Nat] /\ active' \in [Procs -> SUBSET Keys]
BY ContainerAssumption DEF TypeOK, TakeSlot, ReturnSlot, memory

LEMMA FinsOn ==
  ASSUME ThreadsOK, NEW t \in Threads, pc[t] \in Fins
  PROVE  on[t] \in Keys /\ Handled(on[t]) /\ (t \in Keys => on[t] = t)
BY DEF ThreadsOK, ThreadOK

LEMMA TypeInit == Init => TypeOK
<1>1. MaxConcurrency \in Nat /\ 0 \in 0..MaxFaults /\ \A k \in Keys : 0 <= MaxAttempts[k]
  BY ContainerAssumption
<1>2. ASSUME Init PROVE LocalTypes
  BY <1>1, <1>2 DEF Init, LocalTypes, Labels
<1>3. ASSUME Init PROVE OtherTypes
  BY <1>1, <1>3 DEF Init, OtherTypes, BoxStates
<1>4. QED
  BY <1>2, <1>3, TypeParts

LEMMA TypeNext ==
  ASSUME TypeOK, ThreadsOK, KeysOK, [Next]_vars
  PROVE  TypeOK'
<1> USE DEF world, memory, local, caller, history, docker
<1>1. SUFFICES LocalTypes' /\ OtherTypes'
  BY TypeParts DEF TypeOK, LocalTypes, OtherTypes
<1>2. LocalTypes /\ OtherTypes
  BY TypeParts
<1>3. ASSUME NEW k \in Keys, Call(k) PROVE LocalTypes' /\ OtherTypes'
  BY <1>3, <1>2, ContainerAssumption, NoneFacts DEF Call, Goto, LocalTypes, OtherTypes, Labels
<1>4. ASSUME NEW k \in Keys, ReplayResult(k) \/ RefuseRetrigger(k) \/ Refuse(k)
      PROVE  LocalTypes' /\ OtherTypes'
  <2>1. \E o \in Outcomes : Answer(k, o)
    BY <1>4 DEF ReplayResult, RefuseRetrigger, Refuse, TypeOK, Rows, Outcomes
  <2>2. LocalTypes'
    BY <2>1, AnswerTypes, NoneFacts
  <2>3. OtherTypes'
    BY <1>2, <1>4 DEF ReplayResult, RefuseRetrigger, Refuse, OtherTypes
  <2>4. QED
    BY <2>2, <2>3
<1>5. ASSUME NEW k \in Keys, PollInstead(k) \/ Admit(k) PROVE LocalTypes' /\ OtherTypes'
  <2>1. LocalTypes'
    BY <1>5, GotoTypes, NoneFacts DEF PollInstead, Admit, Labels
  <2>2. OtherTypes'
    BY <1>2, <1>5 DEF PollInstead, Admit, OtherTypes
  <2>3. QED
    BY <2>1, <2>2
<1>6. ASSUME NEW k \in Keys, Reserve(k) PROVE LocalTypes' /\ OtherTypes'
  <2>1. LocalTypes'
    BY <1>6, GotoTypes, AnswerTypes, NoneFacts DEF Reserve, Labels, Outcomes
  <2>2. row' \in [Keys -> Rows \cup {None}]
    BY <1>6, WriteFacts DEF Reserve, TypeOK, RowStates, Active
  <2>3. slots' \in [Procs -> Nat] /\ active' \in [Procs -> SUBSET Keys]
    BY <1>6, SlotTypes DEF Reserve
  <2>4. QED
    BY <1>2, <1>6, <2>1, <2>2, <2>3 DEF Reserve, OtherTypes
<1>7. ASSUME NEW k \in Keys, Recheck(k) PROVE LocalTypes' /\ OtherTypes'
  <2>1. LocalTypes'
    BY <1>7, GotoTypes, AnswerTypes, NoneFacts DEF Recheck, Labels, Outcomes
  <2>2. row' \in [Keys -> Rows \cup {None}]
    <3>1. row[k] \in Rows
      BY <1>7 DEF Recheck, KeysOK, KeyOK, Fresh, Intent, TypeOK
    <3>2. row[k].handle \in BOOLEAN /\ row[k].result \in Outcomes \cup {None} /\ "barrier" \in RowStates
      BY <3>1 DEF Rows, RowStates
    <3>3. UNCHANGED row \/ Write(k, "barrier", row[k].handle, row[k].result)
      BY <1>7 DEF Recheck
    <3>4. QED
      BY <3>2, <3>3, WriteFacts DEF TypeOK
  <2>3. slots' \in [Procs -> Nat] /\ active' \in [Procs -> SUBSET Keys]
    BY <1>7, SlotTypes DEF Recheck
  <2>4. faults' \in 0..MaxFaults
    BY <1>7, FaultTypes DEF Recheck
  <2>5. QED
    BY <1>2, <1>7, <2>1, <2>2, <2>3, <2>4 DEF Recheck, OtherTypes
<1>8. ASSUME NEW k \in Keys, Start(k) PROVE LocalTypes' /\ OtherTypes'
  <2>1. LocalTypes'
    BY <1>8, GotoTypes, NoneFacts DEF Start, Labels
  <2>2. box' \in [Keys -> BoxStates] /\ present' \in [Keys -> BOOLEAN]
    <3>1. UNCHANGED docker \/ \E status \in {"created", "running"} : Creates(k, status)
      BY <1>8 DEF Start
    <3>2. QED
      BY <3>1 DEF Creates, TypeOK, BoxStates
  <2>3. slots' \in [Procs -> Nat] /\ active' \in [Procs -> SUBSET Keys]
    BY <1>8, SlotTypes DEF Start
  <2>4. faults' \in 0..MaxFaults
    BY <1>8, FaultTypes DEF Start
  <2>5. starts' \in [Keys -> SUBSET Nat] /\ blurred' \subseteq Keys
    BY <1>8 DEF Start, TypeOK
  <2>6. QED
    BY <1>2, <1>8, <2>1, <2>2, <2>3, <2>4, <2>5 DEF Start, OtherTypes
<1>9. ASSUME NEW k \in Keys, StartRefused(k) PROVE LocalTypes' /\ OtherTypes'
  <2>1. LocalTypes'
    BY <1>9, AnswerTypes, NoneFacts DEF StartRefused, Outcomes
  <2>2. slots' \in [Procs -> Nat] /\ active' \in [Procs -> SUBSET Keys] /\ faults' \in 0..MaxFaults
    BY <1>9, SlotTypes, FaultTypes DEF StartRefused
  <2>3. QED
    BY <1>2, <1>9, <2>1, <2>2 DEF StartRefused, OtherTypes
<1>10. ASSUME NEW k \in Keys, Record(k) \/ Undo(k) \/ Keep(k) PROVE LocalTypes' /\ OtherTypes'
  <2>1. LocalTypes'
    <3>1. CASE Record(k)
      BY <3>1, GotoTypes, NoneFacts DEF Record, Labels
    <3>2. CASE Undo(k) \/ Keep(k)
      BY <3>2, AnswerTypes, NoneFacts DEF Undo, Keep, Outcomes
    <3>3. QED
      BY <1>10, <3>1, <3>2
  <2>2. row' \in [Keys -> Rows \cup {None}]
    <3>1. row[k] \in Rows
      BY <1>10 DEF Record, Undo, Keep, KeysOK, KeyOK, Fresh, Intent, TypeOK
    <3>2. row[k].handle \in BOOLEAN /\ row[k].result \in Outcomes \cup {None}
      BY <3>1 DEF Rows
    <3>3. UncertainState(clean[k]) \in RowStates /\ "running" \in RowStates
          /\ "error" \in RowStates \cap Outcomes
      BY DEF RowStates, Active, UncertainState, Outcomes
    <3>4. CASE UNCHANGED row
      BY <3>4 DEF TypeOK
    <3>5. CASE \/ Write(k, "running", TRUE, row[k].result)
               \/ Write(k, "error", row[k].handle, "error")
               \/ Write(k, UncertainState(clean[k]), row[k].handle, "error")
      BY <3>2, <3>3, <3>5, WriteFacts
    <3>6. QED
      BY <1>10, <3>4, <3>5 DEF Record, Undo, Keep
  <2>3. slots' \in [Procs -> Nat] /\ active' \in [Procs -> SUBSET Keys]
    <3>1. CASE Record(k)
      <4>1. UNCHANGED slots /\ (active' = [active EXCEPT ![Host] = @ \cup {k}] \/ UNCHANGED active)
        BY <3>1 DEF Record
      <4>2. QED
        BY <4>1, ContainerAssumption DEF TypeOK
    <3>2. CASE Undo(k) \/ Keep(k)
      BY <3>2, SlotTypes DEF Undo, Keep
    <3>3. QED
      BY <1>10, <3>1, <3>2
  <2>4. blurred' \subseteq Keys /\ faults' \in 0..MaxFaults
    BY <1>10, FaultTypes DEF Record, Undo, Keep, TypeOK
  <2>5. QED
    BY <1>2, <1>10, <2>1, <2>2, <2>3, <2>4 DEF Record, Undo, Keep, OtherTypes
<1>11. ASSUME NEW k \in Keys, Forget(k) PROVE LocalTypes' /\ OtherTypes'
  <2>1. LocalTypes'
    BY <1>11, <1>2, NoneFacts DEF Forget, Goto, LocalTypes, Labels
  <2>2. QED
    BY <1>2, <1>11, <2>1, CleanupTypes DEF Forget, OtherTypes
<1>12. ASSUME NEW k \in Keys, Poll(k) PROVE LocalTypes' /\ OtherTypes'
  <2>1. LocalTypes'
    BY <1>12, <1>2, NoneFacts DEF Poll, Goto, LocalTypes, Labels
  <2>2. QED
    BY <1>2, <1>12, <2>1 DEF Poll, OtherTypes
<1>13. ASSUME NEW c \in Controllers, NEW k \in Keys, Cancel(c, k) PROVE LocalTypes' /\ OtherTypes'
  <2>1. LocalTypes'
    BY <1>13, <1>2, NoneFacts DEF Cancel, Goto, LocalTypes, Labels
  <2>2. QED
    BY <1>2, <1>13, <2>1 DEF Cancel, OtherTypes
<1>14. ASSUME NEW t \in Threads, LookDone(t) PROVE LocalTypes' /\ OtherTypes'
  <2>1. on[t] \in Keys /\ Handled(on[t])
    BY <1>14, FinsOn DEF LookDone, Fins
  <2>2. row[on[t]].result \in Outcomes
    BY <1>14, <2>1 DEF LookDone, TypeOK, Rows, Handled
  <2>3. LocalTypes'
    BY <1>14, <2>1, <2>2, AnswerTypes DEF LookDone
  <2>4. QED
    BY <1>2, <1>14, <2>3 DEF LookDone, OtherTypes
<1>15. ASSUME NEW t \in Threads, LookOn(t) PROVE LocalTypes' /\ OtherTypes'
  <2>1. got' \in [Threads -> Outcomes \cup {None}]
    BY <1>15 DEF LookOn, TypeOK, Outcomes
  <2>2. pc' \in [Threads -> Labels]
    BY <1>15 DEF LookOn, Goto, TypeOK, Labels
  <2>3. QED
    BY <1>2, <1>15, <2>1, <2>2 DEF LookOn, LocalTypes, OtherTypes
<1>16. ASSUME NEW k \in Keys, Inspect(k) PROVE LocalTypes' /\ OtherTypes'
  <2>1. faults' \in 0..MaxFaults
    BY <1>16, FaultTypes DEF Inspect
  <2>2. LocalTypes'
    <3>1. CASE Answer(k, "pending")
      BY <3>1, AnswerTypes, NoneFacts
    <3>2. CASE ~Answer(k, "pending")
      <4>1. got' \in [Threads -> Outcomes \cup {None}]
        BY <1>16, <3>2 DEF Inspect, TypeOK, Outcomes
      <4>2. pc' \in [Threads -> Labels] /\ UNCHANGED <<on, clean, caller>>
        BY <1>16, <3>2 DEF Inspect, Goto, TypeOK, Labels
      <4>3. QED
        BY <1>2, <4>1, <4>2 DEF LocalTypes
    <3>3. QED
      BY <3>1, <3>2
  <2>3. QED
    BY <1>2, <1>16, <2>1, <2>2 DEF Inspect, OtherTypes
<1>17. ASSUME NEW t \in Threads, Stop(t) PROVE LocalTypes' /\ OtherTypes'
  <2>1. faults' \in 0..MaxFaults
    BY <1>17, FaultTypes DEF Stop
  <2>2. got' \in [Threads -> Outcomes \cup {None}] /\ pc' \in [Threads -> Labels]
    BY <1>17 DEF Stop, Goto, TypeOK, Outcomes, Labels
  <2>3. box' \in [Keys -> BoxStates]
    BY <1>17 DEF Stop, Stopped, TypeOK, BoxStates
  <2>4. QED
    BY <1>2, <1>17, <2>1, <2>2, <2>3 DEF Stop, LocalTypes, OtherTypes
<1>18. ASSUME NEW t \in Threads, Raise(t) PROVE LocalTypes' /\ OtherTypes'
  <2>1. on[t] \in Keys /\ \E o \in Outcomes \cup {"pending"} : Answer(t, o)
    BY <1>18, FinsOn DEF Raise, Fins, Outcomes
  <2>2. LocalTypes' /\ faults' \in 0..MaxFaults
    BY <1>18, <2>1, AnswerTypes, FaultTypes DEF Raise
  <2>3. QED
    BY <1>2, <1>18, <2>2 DEF Raise, OtherTypes
<1>19. ASSUME NEW t \in Threads, Cleanup(t) PROVE LocalTypes' /\ OtherTypes'
  <2>1. on[t] \in Keys
    BY <1>19, FinsOn DEF Cleanup, Fins
  <2>2. LocalTypes'
    BY <1>19, <1>2 DEF Cleanup, Goto, LocalTypes, Labels
  <2>3. QED
    BY <1>2, <1>19, <2>1, <2>2, CleanupTypes DEF Cleanup, OtherTypes
<1>20. ASSUME NEW t \in Threads, Settle(t) PROVE LocalTypes' /\ OtherTypes'
  <2>1. on[t] \in Keys /\ Handled(on[t]) /\ got[t] \in Outcomes /\ ProcOf(t) \in Procs
    BY <1>20, FinsOn, NoneFacts, ContainerAssumption DEF Settle, Fins, ThreadsOK, ThreadOK, Threads
  <2>2. \E o \in Outcomes : Answer(t, o) /\ Write(on[t], FinalState(clean[t]), row[on[t]].handle, o)
    BY <1>20, <2>1 DEF Settle, Outcomes
  <2>3. FinalState(clean[t]) \in RowStates /\ row[on[t]].handle \in BOOLEAN
    BY <2>1 DEF FinalState, RowStates, TypeOK, Rows, Handled
  <2>4. LocalTypes' /\ row' \in [Keys -> Rows \cup {None}]
    BY <2>1, <2>2, <2>3, AnswerTypes, WriteFacts
  <2>5. slots' \in [Procs -> Nat] /\ active' \in [Procs -> SUBSET Keys]
    BY <1>20, <2>1 DEF Settle, ReleaseHandle, TypeOK
  <2>6. QED
    BY <1>2, <1>20, <2>4, <2>5 DEF Settle, OtherTypes
<1>21. ASSUME NEW k \in Keys, Exit(k) \/ Expire(k) PROVE LocalTypes' /\ OtherTypes'
  BY <1>2, <1>21 DEF Exit, Expire, LocalTypes, OtherTypes, BoxStates
<1>22. CASE Interrupt \/ UNCHANGED vars
  BY <1>2, <1>22 DEF Interrupt, vars, LocalTypes, OtherTypes
<1>23. ASSUME NEW p \in Procs, Crash(p) PROVE LocalTypes' /\ OtherTypes'
  <2>1. faults' \in 0..MaxFaults
    BY <1>23, FaultTypes DEF Crash
  <2>2. slots' \in [Procs -> Nat] /\ active' \in [Procs -> SUBSET Keys]
    BY <1>2, <1>23, ContainerAssumption DEF Crash, OtherTypes
  <2>3. LocalTypes'
    BY <1>2, <1>23 DEF Crash, LocalTypes, Labels
  <2>4. QED
    BY <1>2, <1>23, <2>1, <2>2, <2>3 DEF Crash, OtherTypes
<1>24. ASSUME NEW k \in Keys, Tell(k) PROVE LocalTypes' /\ OtherTypes'
  BY <1>2, <1>24, AnswerTypes, NoneFacts DEF Tell, OtherTypes
<1>25. ASSUME NEW t \in Threads, Threading(t) PROVE LocalTypes' /\ OtherTypes'
  BY <1>24, <1>25, <1>3, <1>4, <1>5, <1>6, <1>7, <1>8, <1>9, <1>10, <1>11, <1>12, <1>13, <1>14,
     <1>15, <1>16, <1>17, <1>18, <1>19, <1>20 DEF Threading, Executing, Finishing
<1>26. QED
  BY <1>21, <1>22, <1>23, <1>25, StepKinds DEF Surrounding

-----------------------------------------------------------------------------
(* The threads *)

LEMMA RealAges == ASSUME NEW r, NEW k \in Keys, Ages(k), Real(r, k) PROVE Real(r, k)'
BY DEF Ages, Real

LEMMA GoneAges == ASSUME NEW k \in Keys, Ages(k), Gone(k) PROVE Gone(k)'
BY DEF Ages, Gone

(* What others do leaves a thread as it was.                               *)
LEMMA ThreadStays ==
  ASSUME TypeOK, ThreadsOK, KeysOK, [Next]_vars, NEW t \in Threads,
         pc'[t] = pc[t], on'[t] = on[t], got'[t] = got[t], clean'[t] = clean[t],
         t \in Keys => told'[t] = told[t]
  PROVE  ThreadOK(t)'
<1>7. t \in Keys => ~Start(t)
  BY DEF Start, Goto, TypeOK
<1>1. ThreadOK(t)
  BY DEF ThreadsOK
<1>2. pc[t] \in Execs => Ages(t)
  BY <1>1, <1>7, BoxSteps DEF ThreadOK
<1>3. pc[t] \in Fins => Ages(on[t]) /\ Handled(on[t])'
  <2>1. ASSUME pc[t] \in Fins PROVE ~Start(on[t])
    BY <1>1, <2>1 DEF ThreadOK, Start, Intent, KeysOK, KeyOK, Fresh, Handled
  <2>2. QED
    BY <1>1, <2>1, BoxSteps, RowSteps DEF ThreadOK
<1>4. pc[t] \in {"cleanup", "settle"} => Real(got[t], on[t])'
  BY <1>1, <1>3, RealAges DEF ThreadOK, Fins
<1>5. pc[t] \in {"settle", "keep"} /\ clean[t] => Gone(on[t])'
  BY <1>1, <1>2, <1>3, GoneAges DEF ThreadOK, Fins, Execs, Intent
<1>6. QED
  BY <1>1, <1>3, <1>4, <1>5 DEF ThreadOK, Real, Gone, Handled

(* A thread that returns is well.                                          *)
LEMMA AnswerOK ==
  ASSUME TypeOK, NEW t \in Threads, NEW o, Answer(t, o)
  PROVE  ThreadOK(t)'
BY DEF Answer, Goto, TypeOK, ThreadOK, Execs, Fins, Intent

Same(u) ==
  /\ pc'[u] = pc[u] /\ on'[u] = on[u] /\ got'[u] = got[u] /\ clean'[u] = clean[u]
  /\ u \in Keys => told'[u] = told[u]

LEMMA OthersSame ==
  ASSUME TypeOK, NEW t \in Threads, Threading(t), NEW u \in Threads \ {t}
  PROVE  Same(u)
<1> USE DEF Same, TypeOK, caller
<1>1. ASSUME NEW o, Answer(t, o) PROVE Same(u)
  BY <1>1 DEF Answer, Goto
<1>2. ASSUME NEW l, Goto(t, l), UNCHANGED <<on, got, clean, caller>> PROVE Same(u)
  BY <1>2 DEF Goto
<1>3. CASE t \in Keys /\ (Call(t) \/ Poll(t))
  BY <1>3 DEF Call, Poll, Goto
<1>4. CASE t \in Keys /\ (ReplayResult(t) \/ PollInstead(t) \/ RefuseRetrigger(t) \/ Refuse(t) \/ Admit(t))
  BY <1>1, <1>2, <1>4 DEF ReplayResult, PollInstead, RefuseRetrigger, Refuse, Admit
<1>5. CASE t \in Keys /\ (Reserve(t) \/ Recheck(t) \/ Start(t) \/ StartRefused(t))
  BY <1>1, <1>2, <1>5 DEF Reserve, Recheck, Start, StartRefused
<1>6. CASE t \in Keys /\ (Record(t) \/ Tell(t) \/ Undo(t) \/ Keep(t))
  BY <1>1, <1>2, <1>6 DEF Record, Tell, Undo, Keep
<1>7. CASE t \in Keys /\ Forget(t)
  BY <1>7 DEF Forget, Goto
<1>8. CASE t \in Keys /\ Inspect(t)
  BY <1>1, <1>8 DEF Inspect, Goto
<1>9. CASE t \in Controllers /\ \E k \in Keys : Cancel(t, k)
  BY <1>9 DEF Cancel, Goto
<1>10. CASE LookDone(t) \/ Raise(t) \/ Settle(t)
  BY <1>1, <1>10 DEF LookDone, Raise, Settle
<1>11. CASE LookOn(t)
  BY <1>11 DEF LookOn, Goto
<1>12. CASE Stop(t)
  BY <1>12 DEF Stop, Goto
<1>13. CASE Cleanup(t)
  BY <1>13 DEF Cleanup, Goto
<1>14. QED
  BY <1>3, <1>4, <1>5, <1>6, <1>7, <1>8, <1>9, <1>10, <1>11, <1>12, <1>13
     DEF Threading, Executing, Finishing

LEMMA ThreadsNext ==
  ASSUME TypeOK, ThreadsOK, KeysOK, [Next]_vars
  PROVE  ThreadsOK'
<1> USE DEF Labels
<1>1. ASSUME NEW k \in Keys, Call(k) PROVE ThreadOK(k)'
  BY <1>1, NoneFacts DEF Call, Goto, TypeOK, ThreadOK, Execs, Fins, Intent
<1>2. ASSUME NEW k \in Keys,
             \/ ReplayResult(k) \/ RefuseRetrigger(k) \/ Refuse(k) \/ StartRefused(k)
             \/ Tell(k) \/ Undo(k) \/ Keep(k)
      PROVE  ThreadOK(k)'
  BY <1>2, AnswerOK, NoneFacts
     DEF ReplayResult, RefuseRetrigger, Refuse, StartRefused, Tell, Undo, Keep
<1>3. ASSUME NEW k \in Keys, PollInstead(k) PROVE ThreadOK(k)'
  BY <1>3, NoneFacts DEF PollInstead, Goto, TypeOK, ThreadsOK, ThreadOK, Execs, Fins, Intent, Handled
<1>4. ASSUME NEW k \in Keys, Admit(k) PROVE ThreadOK(k)'
  BY <1>4, NoneFacts DEF Admit, Goto, TypeOK, ThreadsOK, ThreadOK, Execs, Fins, Intent, caller
<1>5. ASSUME NEW k \in Keys, Reserve(k) \/ Recheck(k) \/ Start(k) \/ Record(k) PROVE ThreadOK(k)'
  <2>1. CASE \E o : Answer(k, o)
    BY <2>1, AnswerOK, NoneFacts
  <2>2. CASE \E l \in {"recheck", "start", "record", "tell", "undo", "forget"} :
               Goto(k, l) /\ UNCHANGED <<on, got, clean, caller>>
    <3>1. pc[k] \in Execs /\ k \in Threads
      BY <1>5, NoneFacts DEF Reserve, Recheck, Start, Record, Execs, Intent
    <3>2. QED
      BY <2>2, <3>1 DEF Goto, TypeOK, ThreadsOK, ThreadOK, Execs, Fins, Intent, caller
  <2>3. QED
    BY <1>5, <2>1, <2>2 DEF Reserve, Recheck, Start, Record
<1>6. ASSUME NEW k \in Keys, Forget(k) PROVE ThreadOK(k)'
  <2>1. PICK c \in BOOLEAN : CleanupReturns(k, c) /\ clean' = [clean EXCEPT ![k] = c]
    BY <1>6 DEF Forget
  <2>2. c => Gone(k)'
    BY <1>6, <2>1, CleanupAges DEF Forget
  <2>3. on'[k] = k /\ told'[k] = "calling" /\ pc'[k] = "keep" /\ clean'[k] = c
    BY <1>6, <2>1, NoneFacts DEF Forget, Goto, TypeOK, ThreadsOK, ThreadOK, Execs, Intent, caller
  <2>4. QED
    BY <2>2, <2>3 DEF ThreadOK, Execs, Fins, Intent, Gone
<1>7. ASSUME NEW k \in Keys, Poll(k) PROVE ThreadOK(k)'
  <2>1. Handled(k)'
    BY <1>7, RowSteps DEF Poll, KeysOK, KeyOK
  <2>2. QED
    BY <1>7, <2>1, NoneFacts DEF Poll, Goto, TypeOK, ThreadOK, Execs, Fins, Intent, Handled
<1>8. ASSUME NEW c \in Controllers, NEW k \in Keys, Cancel(c, k) PROVE ThreadOK(c)'
  <2>1. Handled(k)'
    BY <1>8, RowSteps DEF Cancel, KeysOK, KeyOK
  <2>2. QED
    BY <1>8, <2>1, NoneFacts DEF Cancel, Goto, TypeOK, ThreadOK, Execs, Fins, Intent, Handled
<1>9. ASSUME NEW k \in Keys, Inspect(k) PROVE ThreadOK(k)'
  <2>1. CASE Answer(k, "pending")
    BY <2>1, AnswerOK, NoneFacts
  <2>2. CASE ~Answer(k, "pending")
    <3>1. on[k] = k /\ Handled(k) /\ k \in Threads
      BY <1>9, NoneFacts DEF Inspect, ThreadsOK, ThreadOK, Fins
    <3>2. UNCHANGED <<row, docker, on, clean, told>>
      BY <1>9, <2>2 DEF Inspect, caller
    <3>3. \/ pc'[k] = "stop" /\ got'[k] = "error"
          \/ pc'[k] = "cleanup" /\ got'[k] \in Outcomes /\ Real(got'[k], k)
      <4>1. present[k] /\ ~Unfinished(k) => box[k] \in {"exit0", "exit1"}
        BY DEF Unfinished, KeysOK, KeyOK, TypeOK, BoxStates
      <4>2. QED
        BY <1>9, <2>2, <3>1, <4>1 DEF Inspect, Goto, TypeOK, Outcomes, Real
    <3>4. QED
      BY <3>1, <3>2, <3>3 DEF ThreadOK, Execs, Fins, Intent, Handled, Real, docker
  <2>3. QED
    BY <2>1, <2>2
<1>10. ASSUME NEW t \in Threads, LookDone(t) \/ Raise(t) \/ Settle(t) PROVE ThreadOK(t)'
  BY <1>10, AnswerOK DEF LookDone, Raise, Settle
<1>11. ASSUME NEW t \in Threads, LookOn(t) PROVE ThreadOK(t)'
  <2>1. on[t] \in Keys /\ Handled(on[t]) /\ (t \in Keys => on[t] = t)
    BY <1>11, FinsOn DEF LookOn, Fins
  <2>2. UNCHANGED <<row, docker, on, clean, told>>
    BY <1>11 DEF LookOn, caller
  <2>3. \/ pc'[t] = "inspect" /\ t \in Keys
        \/ pc'[t] = "stop" /\ got'[t] \in {"error", "cancelled"}
    BY <1>11 DEF LookOn, Goto, TypeOK
  <2>4. QED
    BY <2>1, <2>2, <2>3 DEF ThreadOK, Execs, Fins, Intent, Handled
<1>12. ASSUME NEW t \in Threads, Stop(t) PROVE ThreadOK(t)'
  <2>1. on[t] \in Keys /\ Handled(on[t]) /\ (t \in Keys => on[t] = t)
    BY <1>12, FinsOn DEF Stop, Fins
  <2>2. UNCHANGED <<row, on, clean, told>> /\ pc'[t] = "cleanup"
    BY <1>12 DEF Stop, caller, Goto, TypeOK
  <2>3. got[t] \in {"error", "cancelled"}
    BY <1>12 DEF Stop, ThreadsOK, ThreadOK
  <2>4. got'[t] = "error" \/ (got'[t] = "cancelled" /\ box'[on[t]] # "running")
    <3>1. \/ got'[t] = "error"
          \/ got'[t] = got[t] /\ box'[on[t]] \in Stopped(box[on[t]])
      BY <1>12, <2>1 DEF Stop, TypeOK
    <3>2. \A b, c : c \in Stopped(b) => c # "running"
      BY DEF Stopped
    <3>3. QED
      BY <2>3, <3>1, <3>2
  <2>5. QED
    BY <2>1, <2>2, <2>4 DEF ThreadOK, Execs, Fins, Intent, Handled, Real, Outcomes
<1>13. ASSUME NEW t \in Threads, Cleanup(t) PROVE ThreadOK(t)'
  <2>1. on[t] \in Keys /\ Handled(on[t]) /\ (t \in Keys => on[t] = t)
    BY <1>13, FinsOn DEF Cleanup, Fins
  <2>2. PICK c \in BOOLEAN : CleanupReturns(on[t], c) /\ clean' = [clean EXCEPT ![t] = c]
    BY <1>13 DEF Cleanup
  <2>3. Ages(on[t]) /\ (c => Gone(on[t])')
    BY <1>13, <2>1, <2>2, CleanupAges DEF Cleanup
  <2>4. Real(got[t], on[t]) /\ got[t] \in Outcomes
    BY <1>13 DEF Cleanup, ThreadsOK, ThreadOK
  <2>5. Real(got[t], on[t])'
    BY <1>13, <2>1, <2>3, <2>4, RealAges DEF Cleanup, Real
  <2>6. UNCHANGED <<row, on, got, told>> /\ pc'[t] = "settle" /\ clean'[t] = c
    BY <1>13, <2>2 DEF Cleanup, caller, Goto, TypeOK
  <2>7. QED
    BY <2>1, <2>3, <2>4, <2>5, <2>6 DEF ThreadOK, Execs, Fins, Intent, Handled, Gone
<1>14. ASSUME NEW t \in Threads, Threading(t) PROVE ThreadsOK'
  <2>1. ThreadOK(t)'
    BY <1>14, <1>1, <1>2, <1>3, <1>4, <1>5, <1>6, <1>7, <1>8, <1>9, <1>10, <1>11, <1>12, <1>13
       DEF Threading, Executing, Finishing
  <2>2. ASSUME NEW u \in Threads \ {t} PROVE ThreadOK(u)'
    BY <1>14, <2>2, OthersSame, ThreadStays DEF Same
  <2>3. QED
    BY <2>1, <2>2 DEF ThreadsOK
<1>15. CASE Surrounding \/ UNCHANGED vars
  <2>1. UNCHANGED <<pc, on, got, clean, told>>
    BY <1>15 DEF Surrounding, Exit, Expire, Interrupt, vars, local, caller
  <2>2. QED
    BY <2>1, ThreadStays DEF ThreadsOK
<1>16. ASSUME NEW p \in Procs, Crash(p) PROVE ThreadsOK'
  <2>1. ASSUME NEW t \in Threads PROVE ThreadOK(t)'
    <3>1. CASE ProcOf(t) = p
      <4>1. pc'[t] = "idle"
        BY <1>16, <3>1 DEF Crash
      <4>2. QED
        BY <4>1 DEF ThreadOK, Execs, Fins, Intent
    <3>2. CASE ProcOf(t) # p
      BY <1>16, <3>2, ThreadStays, NoneFacts DEF Crash
    <3>3. QED
      BY <3>1, <3>2
  <2>2. QED
    BY <2>1 DEF ThreadsOK
<1>17. QED
  BY <1>14, <1>15, <1>16, StepKinds

-----------------------------------------------------------------------------
(* The keys *)

(* What the handle of a row and its container need of told, active, pc.    *)
LEMMA KeyStays ==
  ASSUME TypeOK, ThreadsOK, KeysOK, [Next]_vars, NEW k \in Keys,
         pc'[k] = pc[k], told'[k] = told[k], row'[k] = row[k],
         \A p \in Procs : k \in active'[p] => k \in active[p]
  PROVE  KeyOK(k)'
<1>1. Ages(k)
  <2>1. ~Start(k)
    BY NoneFacts DEF Start, Goto, TypeOK
  <2>2. QED
    BY <2>1, BoxSteps
<1>2. KeyOK(k)
  BY DEF KeysOK
<1>3. QED
  BY <1>1, <1>2 DEF KeyOK, Handled, Fresh, Gone, Ages

(* A step of a thread touches the key it works on, and no other.           *)
LEMMA OtherKeysSame ==
  ASSUME TypeOK, ThreadsOK, KeysOK, NEW t \in Threads, Threading(t),
         NEW k \in Keys, k # t, k # on[t]
  PROVE  /\ row'[k] = row[k]
         /\ \A p \in Procs : k \in active'[p] => k \in active[p]
<1>1. CASE UNCHANGED <<row, memory>>
  BY <1>1 DEF memory
<1>2. CASE t \in Keys /\ (Reserve(t) \/ Recheck(t) \/ Start(t) \/ StartRefused(t)
             \/ Record(t) \/ Undo(t) \/ Keep(t))
  <2>1. row'[k] = row[k]
    BY <1>2 DEF Reserve, Recheck, Start, StartRefused, Record, Undo, Keep, Write, TypeOK
  <2>2. \A p \in Procs : k \in active'[p] => k \in active[p]
    BY <1>2 DEF Reserve, Recheck, Start, StartRefused, Record, Undo, Keep, TakeSlot,
                ReturnSlot, TypeOK, memory
  <2>3. QED
    BY <2>1, <2>2
<1>3. CASE Settle(t)
  <2>1. row'[k] = row[k]
    BY <1>3 DEF Settle, Write, TypeOK
  <2>2. \A p \in Procs : k \in active'[p] => k \in active[p]
    BY <1>3 DEF Settle, ReleaseHandle, TypeOK
  <2>3. QED
    BY <2>1, <2>2
<1>4. CASE t \in Keys /\ (Call(t) \/ Poll(t) \/ Inspect(t) \/ ReplayResult(t) \/ Forget(t)
             \/ PollInstead(t) \/ RefuseRetrigger(t) \/ Refuse(t) \/ Admit(t) \/ Tell(t))
  BY <1>1, <1>4 DEF Call, Poll, Inspect, ReplayResult, Forget, PollInstead, RefuseRetrigger,
     Refuse, Admit, Tell
<1>5. CASE t \in Controllers /\ \E j \in Keys : Cancel(t, j)
  BY <1>1, <1>5 DEF Cancel
<1>6. CASE LookDone(t) \/ LookOn(t) \/ Stop(t) \/ Raise(t) \/ Cleanup(t)
  BY <1>1, <1>6 DEF LookDone, LookOn, Stop, Raise, Cleanup
<1>7. QED
  BY <1>2, <1>3, <1>4, <1>5, <1>6 DEF Threading, Executing, Finishing

(* The key a thread answers about: what is left to show of it.             *)
LEMMA KeyAnswered ==
  ASSUME TypeOK, ThreadsOK, KeysOK, [Next]_vars, NEW k \in Keys, ~Start(k),
         pc'[k] = "idle",
         told'[k] = "pending" => Handled(k)',
         \A p \in Procs : k \in active'[p] => Handled(k)'
  PROVE  KeyOK(k)'
<1>1. Ages(k)
  BY BoxSteps
<1>2. row[k] # None => row'[k] # None
  BY RowSteps
<1>3. KeyOK(k)
  BY DEF KeysOK
<1>4. QED
  BY <1>1, <1>2, <1>3 DEF KeyOK, Ages, Intent, Handled

LEMMA KeysNext ==
  ASSUME TypeOK, ThreadsOK, KeysOK, [Next]_vars
  PROVE  KeysOK'
<1>1. ASSUME NEW k \in Keys, NEW o, Answer(k, o) PROVE pc'[k] = "idle" /\ told'[k] = o
  BY <1>1, NoneFacts DEF Answer, Goto, TypeOK
<1>2. ASSUME NEW k \in Keys, \A p \in Procs : k \in active'[p] => k \in active[p]
      PROVE  \A p \in Procs : k \in active'[p] => Handled(k)'
  BY <1>2, RowSteps DEF KeysOK, KeyOK
<1>3. ASSUME NEW k \in Keys, Call(k) \/ PollInstead(k) \/ Admit(k) \/ Poll(k) PROVE KeyOK(k)'
  <2>1. UNCHANGED <<row, docker, memory, history>>
    BY <1>3 DEF Call, PollInstead, Admit, Poll
  <2>2. pc'[k] \in {"ask", "look", "reserve"} /\ (pc'[k] = "reserve" => row[k] = None)
    BY <1>3, NoneFacts DEF Call, PollInstead, Admit, Poll, Goto, TypeOK
  <2>3. told'[k] = "pending" => told[k] = "pending"
    BY <1>3 DEF Call, PollInstead, Admit, Poll, TypeOK, caller
  <2>4. QED
    BY <2>1, <2>2, <2>3 DEF KeysOK, KeyOK, Intent, Handled, Gone, docker, memory, history
<1>4. ASSUME NEW k \in Keys, ReplayResult(k) \/ RefuseRetrigger(k) \/ Refuse(k) \/ StartRefused(k)
      PROVE  KeyOK(k)'
  <2>1. pc'[k] = "idle" /\ told'[k] # "pending"
    BY <1>1, <1>4 DEF ReplayResult, RefuseRetrigger, Refuse, StartRefused, TypeOK, Rows, Outcomes
  <2>2. UNCHANGED active /\ ~Start(k)
    BY <1>4, <2>1, NoneFacts DEF ReplayResult, RefuseRetrigger, Refuse, StartRefused, ReturnSlot,
          memory, Start, Goto, TypeOK
  <2>3. QED
    BY <1>2, <2>1, <2>2, KeyAnswered
<1>5. ASSUME NEW k \in Keys, Reserve(k) PROVE KeyOK(k)'
  <2>1. CASE Answer(k, "error") /\ UNCHANGED <<row, memory>>
    <3>1. ~Start(k) /\ pc'[k] = "idle" /\ told'[k] = "error"
      BY <1>1, <1>5, <2>1 DEF Reserve, Start
    <3>2. QED
      BY <1>2, <2>1, <3>1, KeyAnswered DEF memory
  <2>2. CASE Write(k, "starting", FALSE, None) /\ TakeSlot /\ Goto(k, "recheck") /\ UNCHANGED caller
    <3>1. Fresh(k)'
      BY <2>2, WriteFacts DEF RowStates, Active, Fresh
    <3>2. pc'[k] = "recheck" /\ told'[k] = "calling" /\ pc[k] = "reserve"
      BY <1>5, <2>2, NoneFacts DEF Reserve, Goto, TypeOK, ThreadsOK, ThreadOK, Execs, caller
    <3>3. UNCHANGED <<docker, history, active>>
      BY <1>5, <2>2 DEF Reserve, TakeSlot
    <3>4. QED
      BY <3>1, <3>2, <3>3 DEF KeysOK, KeyOK, Intent, Handled, Fresh, docker, history
  <2>3. QED
    BY <1>5, <2>1, <2>2 DEF Reserve
<1>6. ASSUME NEW k \in Keys, Recheck(k) PROVE KeyOK(k)'
  <2>1. CASE Answer(k, "error") /\ UNCHANGED active
    <3>1. ~Start(k) /\ pc'[k] = "idle" /\ told'[k] = "error"
      BY <1>1, <1>6, <2>1 DEF Recheck, Start
    <3>2. QED
      BY <1>2, <2>1, <3>1, KeyAnswered
  <2>2. CASE UNCHANGED <<row, memory, caller>> /\ (Goto(k, "start") \/ Goto(k, "undo"))
    <3>1. KeyOK(k) /\ pc[k] = "recheck" /\ pc'[k] \in {"start", "undo"} /\ UNCHANGED <<docker, history>>
      BY <1>6, <2>2, NoneFacts DEF Recheck, Goto, TypeOK, KeysOK
    <3>2. QED
      BY <2>2, <3>1 DEF KeyOK, Intent, Handled, Fresh, Gone, docker, history, memory, caller
  <2>3. QED
    BY <1>6, <2>1, <2>2 DEF Recheck, ReturnSlot
<1>7. ASSUME NEW k \in Keys, Start(k) PROVE KeyOK(k)'
  <2>1. KeyOK(k) /\ pc[k] = "start" /\ Fresh(k) /\ UNCHANGED <<row, told, active>>
    BY <1>7 DEF Start, Intent, KeysOK, KeyOK, caller, memory, ReturnSlot
  <2>2. pc'[k] \in {"record", "undo", "forget"}
    BY <1>7, NoneFacts DEF Start, Goto, TypeOK
  <2>3. starts'[k] # {}
    BY <1>7 DEF Start, TypeOK
  <2>4. present'[k] => box'[k] # "absent"
    BY <1>7, <2>1 DEF Start, Creates, KeyOK, TypeOK, docker
  <2>5. pc'[k] = "undo" => Gone(k)'
    BY <1>7, <2>1, NoneFacts DEF Start, Goto, KeyOK, Gone, TypeOK, docker
  <2>6. QED
    BY <2>1, <2>2, <2>3, <2>4, <2>5 DEF KeyOK, Intent, Fresh, Handled
<1>8. ASSUME NEW k \in Keys, Record(k) PROVE KeyOK(k)'
  <2>1. KeyOK(k) /\ Fresh(k) /\ row[k].result = None /\ UNCHANGED <<docker, starts>>
    BY <1>8 DEF Record, KeysOK, KeyOK, Intent, Fresh
  <2>2. CASE Write(k, "running", TRUE, row[k].result) /\ Goto(k, "tell")
    <3>1. Handled(k)'
      BY <2>1, <2>2, WriteFacts DEF RowStates, Active, Handled
    <3>2. pc'[k] = "tell" /\ row'[k] # None
      BY <2>2, <3>1, NoneFacts DEF Goto, TypeOK, Handled
    <3>3. QED
      BY <2>1, <3>1, <3>2 DEF KeyOK, Intent, Gone, docker
  <2>3. CASE UNCHANGED <<row, active>> /\ k \in blurred' /\ Goto(k, "undo")
    <3>1. pc'[k] = "undo" /\ UNCHANGED told
      BY <1>8, <2>3, NoneFacts DEF Record, Goto, TypeOK, caller
    <3>2. QED
      BY <2>1, <2>3, <3>1 DEF KeyOK, Fresh, Handled, Gone, docker
  <2>4. QED
    BY <1>8, <2>2, <2>3 DEF Record
<1>9. ASSUME NEW k \in Keys, Tell(k) \/ Undo(k) \/ Keep(k) PROVE KeyOK(k)'
  <2>1. pc'[k] = "idle" /\ ~Start(k) /\ (told'[k] = "pending" => Handled(k)')
    BY <1>1, <1>9, RowSteps DEF Tell, Undo, Keep, Start, KeysOK, KeyOK
  <2>2. UNCHANGED active
    BY <1>9 DEF Tell, Undo, Keep, ReturnSlot, memory
  <2>3. QED
    BY <1>2, <2>1, <2>2, KeyAnswered
<1>10. ASSUME NEW k \in Keys, Forget(k) PROVE KeyOK(k)'
  <2>1. Ages(k)
    BY <1>10, BoxSteps DEF Forget, Start
  <2>2. KeyOK(k) /\ pc[k] = "forget" /\ pc'[k] = "keep" /\ UNCHANGED <<row, told, active>>
    BY <1>10, NoneFacts DEF Forget, Goto, TypeOK, KeysOK, caller, memory
  <2>3. QED
    BY <2>1, <2>2 DEF KeyOK, Ages, Intent, Handled, Fresh
<1>11. ASSUME NEW t \in Threads, Finishing(t), NEW k \in Keys, k = on[t] \/ k = t PROVE KeyOK(k)'
  <2>1. on[t] = k /\ Handled(k) /\ pc[t] \in Fins /\ Handled(k)'
    <3>1. pc[t] \in Fins
      BY <1>11 DEF Finishing, LookDone, LookOn, Stop, Raise, Cleanup, Settle, Fins
    <3>2. QED
      BY <1>11, <3>1, FinsOn, RowSteps
  <2>2. pc[k] \notin Intent \cup {"reserve"}
    BY <2>1 DEF KeysOK, KeyOK, Fresh, Handled
  <2>3. pc'[k] \notin Intent \cup {"reserve"}
    BY <1>11, <2>2, NoneFacts DEF Finishing, LookDone, LookOn, Stop, Raise, Cleanup, Settle,
          Answer, Goto, TypeOK, Intent
  <2>4. Ages(k)
    BY <2>2, BoxSteps DEF Start, Intent
  <2>5. row'[k] # None /\ KeyOK(k)
    BY <2>1 DEF Handled, KeysOK
  <2>6. QED
    BY <2>1, <2>3, <2>4, <2>5 DEF KeyOK, Ages, Intent
<1>12. ASSUME NEW k \in Keys, Inspect(k) PROVE KeyOK(k)'
  <2>1. Handled(k) /\ UNCHANGED <<row, docker, memory, history>> /\ KeyOK(k)
    BY <1>12, FinsOn, NoneFacts DEF Inspect, Fins, KeysOK
  <2>2. pc'[k] \in {"idle", "cleanup", "stop"}
    BY <1>12, NoneFacts DEF Inspect, Answer, Goto, TypeOK
  <2>3. QED
    BY <2>1, <2>2 DEF KeyOK, Intent, Handled, Gone, docker, memory, history
<1>13. ASSUME NEW t \in Threads, Threading(t), NEW k \in Keys PROVE KeyOK(k)'
  <2>1. CASE k # t /\ k # on[t]
    BY <1>13, <2>1, OthersSame, OtherKeysSame, KeyStays, NoneFacts DEF Same
  <2>2. CASE k = t
    <3>1. t \notin Controllers
      BY <2>2, NoneFacts
    <3>2. QED
      BY <1>13, <2>2, <3>1, <1>3, <1>4, <1>5, <1>6, <1>7, <1>8, <1>9, <1>10, <1>11, <1>12
         DEF Threading, Executing
  <2>3. CASE k = on[t] /\ k # t
    <3>1. CASE Finishing(t)
      BY <1>11, <2>3, <3>1
    <3>2. CASE \E j \in Keys : t \in Controllers /\ Cancel(t, j)
      <4>1. UNCHANGED <<row, memory, told>>
        BY <3>2 DEF Cancel, caller
      <4>2. QED
        BY <1>13, <2>3, <4>1, OthersSame, KeyStays, NoneFacts DEF Same, memory
    <3>3. CASE t \in Keys /\ (Call(t) \/ Executing(t) \/ Poll(t) \/ Inspect(t))
      <4>1. pc[t] = "idle" /\ (Call(t) \/ Poll(t))
        <5>1. pc[t] \in Execs \cup Fins => on[t] = t
          BY <3>3 DEF ThreadsOK, ThreadOK, Threads
        <5>2. Executing(t) \/ Inspect(t) => pc[t] \in Execs \cup Fins
          BY DEF Executing, ReplayResult, PollInstead, RefuseRetrigger, Refuse, Admit, Reserve,
             Recheck, Start, StartRefused, Record, Tell, Undo, Forget, Keep, Inspect, Execs, Intent,
             Fins
        <5>3. QED
          BY <2>3, <3>3, <5>1, <5>2 DEF Call, Poll
      <4>2. UNCHANGED <<row, memory>>
        BY <4>1 DEF Call, Poll
      <4>3. QED
        BY <1>13, <2>3, <4>2, OthersSame, KeyStays, NoneFacts DEF Same, memory
    <3>4. QED
      BY <1>13, <3>1, <3>2, <3>3 DEF Threading
  <2>4. QED
    BY <2>1, <2>2, <2>3
<1>14. ASSUME Surrounding \/ UNCHANGED vars, NEW k \in Keys PROVE KeyOK(k)'
  <2>1. UNCHANGED <<row, pc, told, active>>
    BY <1>14 DEF Surrounding, Exit, Expire, Interrupt, vars, local, caller, memory
  <2>2. QED
    BY <2>1, KeyStays
<1>15. ASSUME NEW p \in Procs, Crash(p), NEW k \in Keys PROVE KeyOK(k)'
  <2>1. /\ row' = row /\ \A q \in Procs : k \in active'[q] => k \in active[q]
        /\ told'[k] = "pending" => told[k] = "pending"
    BY <1>15 DEF Crash, TypeOK
  <2>2. CASE p = Host
    <3>1. pc'[k] = "idle"
      BY <1>15, <2>2, NoneFacts DEF Crash
    <3>2. ~Start(k)
      BY <3>1, NoneFacts DEF Start, Goto, TypeOK
    <3>3. QED
      BY <1>2, <2>1, <3>1, <3>2, KeyAnswered, RowSteps DEF KeysOK, KeyOK
  <2>3. CASE p # Host
    <3>1. pc'[k] = pc[k] /\ told'[k] = told[k]
      BY <1>15, <2>3, NoneFacts DEF Crash, TypeOK
    <3>2. QED
      BY <2>1, <3>1, KeyStays
  <2>4. QED
    BY <2>2, <2>3
<1>16. QED
  BY <1>13, <1>14, <1>15, StepKinds DEF KeysOK

-----------------------------------------------------------------------------
(* The properties *)

LEMMA StartedNext ==
  ASSUME TypeOK, ThreadsOK, KeysOK, [Next]_vars, StartedOnce
  PROVE  StartedOnce'
<1>1. ASSUME NEW k \in Keys PROVE (\A m, n \in starts[k] : m = n)'
  <2>1. CASE Start(k)
    <3>1. starts[k] = {}
      BY <2>1 DEF Start, KeysOK, KeyOK
    <3>2. starts'[k] = {attempt[k]}
      BY <2>1, <3>1 DEF Start, TypeOK
    <3>3. QED
      BY <3>2
  <2>2. CASE Ages(k)
    BY <2>2 DEF Ages, StartedOnce
  <2>3. QED
    BY <2>1, <2>2, BoxSteps
<1>2. QED
  BY <1>1 DEF StartedOnce

(* Who writes the row of a key: its own thread before it has a handle, and *)
(* whoever finishes it.                                                    *)
LEMMA RowChanges ==
  ASSUME TypeOK, [Next]_vars, NEW k \in Keys
  PROVE  \/ row'[k] = row[k]
         \/ Reserve(k) \/ Recheck(k) \/ Record(k) \/ Undo(k) \/ Keep(k)
         \/ \E t \in Threads : on[t] = k /\ Settle(t)
<1>1. ASSUME NEW t \in Threads, Threading(t), row'[k] # row[k]
      PROVE  \/ t = k /\ (Reserve(k) \/ Recheck(k) \/ Record(k) \/ Undo(k) \/ Keep(k))
             \/ on[t] = k /\ Settle(t)
  <2>1. CASE t \in Keys /\ (Reserve(t) \/ Recheck(t) \/ Record(t) \/ Undo(t) \/ Keep(t))
    BY <1>1, <2>1 DEF Reserve, Recheck, Record, Undo, Keep, Write, TypeOK
  <2>2. CASE Settle(t)
    BY <1>1, <2>2 DEF Settle, Write, TypeOK
  <2>3. CASE t \in Keys /\ (Call(t) \/ Poll(t) \/ Inspect(t) \/ ReplayResult(t) \/ Forget(t)
               \/ PollInstead(t) \/ RefuseRetrigger(t) \/ Refuse(t) \/ Admit(t) \/ Tell(t))
    BY <1>1, <2>3 DEF Tell, Call, Poll, Inspect, ReplayResult, Forget, PollInstead, RefuseRetrigger, Refuse, Admit
  <2>4. CASE t \in Keys /\ (Start(t) \/ StartRefused(t))
    BY <1>1, <2>4 DEF Start, StartRefused
  <2>5. CASE t \in Controllers /\ \E j \in Keys : Cancel(t, j)
    BY <1>1, <2>5 DEF Cancel
  <2>6. CASE LookDone(t) \/ LookOn(t) \/ Stop(t) \/ Raise(t) \/ Cleanup(t)
    BY <1>1, <2>6 DEF LookDone, LookOn, Stop, Raise, Cleanup
  <2>7. QED
    BY <1>1, <2>1, <2>2, <2>3, <2>4, <2>5, <2>6 DEF Threading, Executing, Finishing
<1>2. CASE Surrounding \/ UNCHANGED vars \/ \E p \in Procs : Crash(p)
  BY <1>2 DEF Surrounding, Exit, Expire, Interrupt, Crash, vars
<1>3. QED
  BY <1>1, <1>2, StepKinds

(* What a step stores for a key is what was there, an error, or the result *)
(* a thread holds for it.                                                  *)
LEMMA ResultStored ==
  ASSUME TypeOK, ThreadsOK, KeysOK, [Next]_vars, NEW k \in Keys, row'[k] # None
  PROVE  \/ row[k] # None /\ row'[k].result = row[k].result
         \/ row'[k].result \in {None, "error"}
         \/ \E t \in Threads : pc[t] = "settle" /\ on[t] = k /\ row'[k].result = got[t]
<1>1. CASE row'[k] = row[k]
  BY <1>1
<1>2. CASE k \in Keys /\ (Reserve(k) \/ Recheck(k) \/ Record(k) \/ Undo(k) \/ Keep(k))
  <2>1. pc[k] \in Intent => Fresh(k)
    BY DEF KeysOK, KeyOK
  <2>2. CASE Reserve(k) \/ Undo(k) \/ Keep(k)
    BY <1>1, <2>2 DEF Reserve, Undo, Keep, Write, TypeOK
  <2>3. CASE Recheck(k) \/ Record(k)
    BY <1>1, <2>1, <2>3 DEF Recheck, Record, Write, TypeOK, Intent, Fresh
  <2>4. QED
    BY <1>2, <2>2, <2>3
<1>3. ASSUME NEW t \in Threads, Settle(t), on[t] = k
      PROVE  row'[k].result = got[t] \/ row'[k].result = "error"
  BY <1>3 DEF Settle, Write, TypeOK
<1>4. ASSUME NEW t \in Threads, Settle(t) PROVE pc[t] = "settle"
  BY <1>4 DEF Settle
<1>5. QED
  BY <1>1, <1>2, <1>3, <1>4, RowChanges

(* What a step tells is what was told, what the row said, what it says     *)
(* now, or no verdict of the container.                                    *)
LEMMA ResultTold ==
  ASSUME TypeOK, ThreadsOK, KeysOK, [Next]_vars, NEW k \in Keys
  PROVE  \/ told'[k] \in {told[k], "calling", "lost", "pending", "error"}
         \/ row[k] # None /\ told'[k] = row[k].result
         \/ row'[k] # None /\ told'[k] = row'[k].result
<1>1. CASE told'[k] = told[k]
  BY <1>1
<1>2. ASSUME NEW o, Answer(k, o) PROVE told'[k] = o
  BY <1>2 DEF Answer, TypeOK
<1>3. CASE Call(k)
  BY <1>3 DEF Call, TypeOK
<1>4. CASE ReplayResult(k)
  BY <1>2, <1>4 DEF ReplayResult
<1>5. CASE RefuseRetrigger(k) \/ Refuse(k) \/ StartRefused(k) \/ Tell(k) \/ Undo(k) \/ Keep(k)
  BY <1>2, <1>5 DEF RefuseRetrigger, Refuse, StartRefused, Tell, Undo, Keep
<1>6. CASE Reserve(k) \/ Recheck(k) \/ Inspect(k)
  BY <1>1, <1>2, <1>6 DEF Reserve, Recheck, Inspect, caller
<1>7. CASE PollInstead(k) \/ Admit(k) \/ Start(k) \/ Record(k) \/ Forget(k) \/ Poll(k)
  BY <1>1, <1>7 DEF PollInstead, Admit, Start, Record, Forget, Poll, caller
<1>8. CASE Finishing(k)
  <2>1. on[k] = k /\ Handled(k)
    <3>1. pc[k] \in Fins
      BY <1>8 DEF Finishing, LookDone, LookOn, Stop, Raise, Cleanup, Settle, Fins
    <3>2. QED
      BY <3>1, FinsOn, NoneFacts
  <2>2. CASE LookDone(k)
    BY <1>2, <2>1, <2>2 DEF LookDone, Handled
  <2>3. CASE Raise(k)
    BY <1>2, <2>3 DEF Raise
  <2>4. CASE Settle(k)
    <3>1. row'[k] # None
      BY <2>1, RowSteps DEF Handled
    <3>2. row'[k].result = told'[k]
      BY <1>2, <2>1, <2>4 DEF Settle, Write, TypeOK
    <3>3. QED
      BY <3>1, <3>2
  <2>5. CASE LookOn(k) \/ Stop(k) \/ Cleanup(k)
    BY <1>1, <2>5 DEF LookOn, Stop, Cleanup, caller
  <2>6. QED
    BY <1>8, <2>2, <2>3, <2>4, <2>5 DEF Finishing
<1>9. ASSUME NEW t \in Threads, Threading(t), t # k PROVE told'[k] = told[k]
  BY <1>9, OthersSame, NoneFacts DEF Same
<1>10. CASE Surrounding \/ UNCHANGED vars
  BY <1>1, <1>10 DEF Surrounding, Exit, Expire, Interrupt, vars, caller
<1>11. ASSUME NEW p \in Procs, Crash(p) PROVE told'[k] \in {told[k], "lost"}
  BY <1>11 DEF Crash
<1>12. Threading(k) => k \in Controllers \/ Call(k) \/ Executing(k) \/ Poll(k) \/ Inspect(k) \/ Finishing(k)
  BY DEF Threading
<1>13. QED
  BY <1>1, <1>3, <1>4, <1>5, <1>6, <1>7, <1>8, <1>9, <1>10, <1>11, <1>12, StepKinds, NoneFacts
     DEF Executing

LEMMA RealNext ==
  ASSUME TypeOK, ThreadsOK, KeysOK, [Next]_vars, ResultIsReal
  PROVE  ResultIsReal'
<1>1. ASSUME NEW k \in Keys
      PROVE  Real(told[k], k) /\ (row[k] # None => Real(row[k].result, k))
  BY DEF ResultIsReal, Verdicts, Real
<1>2. ASSUME NEW k \in Keys, row'[k] # None, Ages(k)
      PROVE  \E r : row'[k].result = r /\ Real(r, k)'
  <2>1. \E r : row'[k].result = r /\ Real(r, k)
    <3>1. ASSUME NEW t \in Threads, pc[t] = "settle", on[t] = k PROVE Real(got[t], k)
      BY <3>1 DEF ThreadsOK, ThreadOK
    <3>2. Real(None, k) /\ Real("error", k)
      BY ContainerAssumption DEF Real, Outcomes
    <3>3. QED
      BY <1>1, <1>2, <3>1, <3>2, ResultStored
  <2>2. QED
    BY <1>2, <2>1, RealAges
<1>3. ASSUME NEW k \in Keys, Ages(k)
      PROVE  \E r : told'[k] = r /\ Real(r, k)'
  <2>1. CASE \E r : told'[k] = r /\ Real(r, k)
    BY <1>3, <2>1, RealAges
  <2>2. CASE row'[k] # None /\ told'[k] = row'[k].result
    BY <1>2, <1>3, <2>2
  <2>3. CASE told'[k] \in {told[k], "calling", "lost", "pending", "error"}
    BY <1>1, <2>1, <2>3 DEF Real
  <2>4. CASE row[k] # None /\ told'[k] = row[k].result
    BY <1>1, <2>1, <2>4
  <2>5. QED
    BY <2>2, <2>3, <2>4, ResultTold
<1>4. ASSUME NEW k \in Keys, Start(k)
      PROVE  told'[k] = "calling" /\ row'[k].result = None
  BY <1>4, NoneFacts DEF Start, ThreadsOK, ThreadOK, Execs, KeysOK, KeyOK, Fresh, Intent, caller
<1>5. ASSUME NEW k \in Keys
      PROVE  /\ "passed" \in Verdicts(k)' => box'[k] = "exit0"
             /\ "failed" \in Verdicts(k)' => box'[k] = "exit1"
             /\ "cancelled" \in Verdicts(k)' => box'[k] # "running"
  <2>1. CASE Start(k)
    BY <1>4, <2>1, ContainerAssumption DEF Verdicts, Outcomes
  <2>2. CASE Ages(k)
    BY <1>2, <1>3, <2>2, ContainerAssumption DEF Verdicts, Outcomes, Real
  <2>3. QED
    BY <2>1, <2>2, BoxSteps
<1>6. QED
  BY <1>5 DEF ResultIsReal

LEMMA ExistenceNext ==
  ASSUME TypeOK, ThreadsOK, KeysOK, [Next]_vars, ExistenceIsRecorded
  PROVE  ExistenceIsRecorded'
<1> DEFINE States == {"starting", "running", "uncertain", "residual"}
<1>1. ASSUME NEW k \in Keys, present'[k]
      PROVE  row'[k] # None /\ (row'[k].state \in States \/ k \in blurred')
  <2>1. CASE Start(k)
    BY <2>1 DEF Start, KeysOK, KeyOK, Intent, Fresh
  <2>2. CASE Ages(k)
    <3>1. present[k] /\ row[k] # None /\ row'[k] # None
      BY <1>1, <2>2, RowSteps DEF Ages, ExistenceIsRecorded
    <3>2. row[k].state \in States \/ k \in blurred'
      BY <2>2, <3>1 DEF Ages, ExistenceIsRecorded
    <3>3. \/ row'[k] = row[k] \/ Gone(k)
          \/ row'[k].state \in States
      <4>1. CASE Reserve(k) \/ Recheck(k)
        BY <3>1, <4>1 DEF Reserve, Recheck, KeysOK, KeyOK
      <4>2. CASE Record(k)
        BY <3>1, <4>2 DEF Record, Write, TypeOK
      <4>3. CASE Undo(k)
        BY <4>3 DEF Undo, KeysOK, KeyOK
      <4>4. CASE Keep(k)
        <5>1. on[k] = k /\ clean[k] \in BOOLEAN /\ (clean[k] => Gone(k))
          BY <4>4, NoneFacts DEF Keep, ThreadsOK, ThreadOK, Execs, Intent
        <5>2. ~clean[k] => row'[k].state = "uncertain"
          BY <4>4, <5>1 DEF Keep, Write, UncertainState, TypeOK
        <5>3. QED
          BY <5>1, <5>2
      <4>5. ASSUME NEW t \in Threads, Settle(t), on[t] = k
            PROVE  Gone(k) \/ row'[k].state = "residual"
        <5>1. clean[t] \in BOOLEAN /\ (clean[t] => Gone(k))
          BY <4>5 DEF Settle, ThreadsOK, ThreadOK
        <5>2. ~clean[t] => row'[k].state = "residual"
          BY <4>5, <5>1 DEF Settle, Write, FinalState, TypeOK
        <5>3. QED
          BY <5>1, <5>2
      <4>6. QED
        BY <4>1, <4>2, <4>3, <4>4, <4>5, RowChanges
    <3>4. QED
      BY <2>2, <3>1, <3>2, <3>3 DEF Gone, Ages
  <2>3. QED
    BY <2>1, <2>2, BoxSteps
<1>2. QED
  BY <1>1 DEF ExistenceIsRecorded

-----------------------------------------------------------------------------
(* Slots *)

Held == {"recheck", "start", "record", "undo"}

(* Each way a step may deal with the slots of a process.                   *)
SlotsStay(p) == slots'[p] = slots[p] /\ active'[p] = active[p] /\ Starting(p)' = Starting(p)
SlotTaken(p, k) ==
  /\ k \notin Starting(p) /\ Starting(p)' = Starting(p) \cup {k}
  /\ slots'[p] = slots[p] - 1 /\ active'[p] = active[p]
SlotReturned(p, k) ==
  /\ k \in Starting(p) /\ Starting(p)' = Starting(p) \ {k}
  /\ slots'[p] = slots[p] + 1 /\ active'[p] = active[p]
SlotHandedOver(p, k) ==
  /\ k \in Starting(p) /\ Starting(p)' = Starting(p) \ {k}
  /\ k \notin active[p] /\ active'[p] = active[p] \cup {k}
  /\ slots'[p] = slots[p]
SlotReleased(p, k) ==
  /\ k \in active[p] /\ active'[p] = active[p] \ {k}
  /\ slots'[p] = slots[p] + 1 /\ Starting(p)' = Starting(p)
SlotsNew(p) == slots'[p] = MaxConcurrency /\ active'[p] = {} /\ Starting(p)' = {}
SlotStep(p) ==
  \/ SlotsStay(p) \/ SlotsNew(p)
  \/ \E k \in Keys : \/ SlotTaken(p, k) \/ SlotReturned(p, k)
                     \/ SlotHandedOver(p, k) \/ SlotReleased(p, k)

LEMMA SlotSums ==
  ASSUME TypeOK, SlotsConserved, NEW p \in Procs, SlotStep(p)
  PROVE  slots'[p] + Cardinality(active'[p]) + Cardinality(Starting(p)') = MaxConcurrency
<1> DEFINE A == active[p]
           B == Starting(p)
<1>1. /\ IsFiniteSet(A) /\ Cardinality(A) \in Nat
      /\ IsFiniteSet(B) /\ Cardinality(B) \in Nat
  <2>1. A \in SUBSET Keys /\ B \in SUBSET Keys
    BY DEF TypeOK, Starting
  <2>2. QED
    BY <2>1, FS_Subset, FS_CardinalityType, ContainerAssumption
<1>2. slots[p] \in Nat /\ slots[p] + Cardinality(A) + Cardinality(B) = MaxConcurrency
  BY DEF TypeOK, SlotsConserved
<1>3. CASE SlotsStay(p)
  BY <1>2, <1>3 DEF SlotsStay
<1>4. CASE SlotsNew(p)
  BY <1>4, FS_EmptySet, ContainerAssumption DEF SlotsNew
<1>5. ASSUME NEW k \in Keys, SlotTaken(p, k)
      PROVE  slots'[p] + Cardinality(active'[p]) + Cardinality(Starting(p)') = MaxConcurrency
  <2>1. Cardinality(Starting(p)') = Cardinality(B) + 1
    BY <1>1, <1>5, FS_AddElement DEF SlotTaken
  <2>2. QED
    BY <1>1, <1>2, <1>5, <2>1, ContainerAssumption DEF SlotTaken
<1>6. ASSUME NEW k \in Keys, SlotReturned(p, k)
      PROVE  slots'[p] + Cardinality(active'[p]) + Cardinality(Starting(p)') = MaxConcurrency
  <2>1. Cardinality(Starting(p)') = Cardinality(B) - 1
    BY <1>1, <1>6, FS_RemoveElement DEF SlotReturned
  <2>2. QED
    BY <1>1, <1>2, <1>6, <2>1, ContainerAssumption DEF SlotReturned
<1>7. ASSUME NEW k \in Keys, SlotHandedOver(p, k)
      PROVE  slots'[p] + Cardinality(active'[p]) + Cardinality(Starting(p)') = MaxConcurrency
  <2>1. Cardinality(Starting(p)') = Cardinality(B) - 1
    BY <1>1, <1>7, FS_RemoveElement DEF SlotHandedOver
  <2>2. Cardinality(active'[p]) = Cardinality(A) + 1
    BY <1>1, <1>7, FS_AddElement DEF SlotHandedOver
  <2>3. QED
    BY <1>1, <1>2, <1>7, <2>1, <2>2, ContainerAssumption DEF SlotHandedOver
<1>8. ASSUME NEW k \in Keys, SlotReleased(p, k)
      PROVE  slots'[p] + Cardinality(active'[p]) + Cardinality(Starting(p)') = MaxConcurrency
  <2>1. Cardinality(active'[p]) = Cardinality(A) - 1
    BY <1>1, <1>8, FS_RemoveElement DEF SlotReleased
  <2>2. QED
    BY <1>1, <1>2, <1>8, <2>1, ContainerAssumption DEF SlotReleased
<1>9. QED
  BY <1>3, <1>4, <1>5, <1>6, <1>7, <1>8 DEF SlotStep

(* When a thread moves, another process, and other threads, stay.          *)
LEMMA StartingMoves ==
  ASSUME TypeOK, NEW t \in Threads, \A u \in Threads \ {t} : pc'[u] = pc[u], NEW p \in Procs
  PROVE  /\ p # Host \/ t \notin Keys \/ (pc[t] \in Held <=> pc'[t] \in Held)
              => Starting(p)' = Starting(p)
         /\ p = Host /\ t \in Keys /\ pc[t] \in Held /\ pc'[t] \notin Held
              => t \in Starting(p) /\ Starting(p)' = Starting(p) \ {t}
         /\ p = Host /\ t \in Keys /\ pc[t] \notin Held /\ pc'[t] \in Held
              => t \notin Starting(p) /\ Starting(p)' = Starting(p) \cup {t}
<1>1. \A k \in Keys : k \in Threads
  BY NoneFacts
<1>2. \A k \in Keys \ {t} : pc'[k] = pc[k]
  BY <1>1
<1>3. QED
  BY <1>2 DEF Starting, Held

LEMMA SlotSteps ==
  ASSUME TypeOK, ThreadsOK, KeysOK, [Next]_vars, NEW p \in Procs
  PROVE  SlotStep(p)
<1>1. ASSUME NEW t \in Threads, Threading(t) PROVE SlotStep(p)
  <2>1. \A u \in Threads \ {t} : pc'[u] = pc[u]
    BY <1>1, OthersSame DEF Same
  <2> DEFINE Stays == UNCHANGED memory /\ (t \in Keys => (pc[t] \in Held <=> pc'[t] \in Held))
             Returns == /\ t \in Keys /\ pc[t] \in Held /\ pc'[t] \notin Held
                        /\ ReturnSlot
  <2>2. Stays => SlotsStay(p)
    BY <2>1, StartingMoves DEF SlotsStay, memory
  <2>3. Returns => SlotsStay(p) \/ (t \in Keys /\ SlotReturned(p, t))
    <3>1. CASE Returns /\ p = Host
      BY <2>1, <3>1, StartingMoves DEF SlotReturned, ReturnSlot, TypeOK
    <3>2. CASE Returns /\ p # Host
      BY <2>1, <3>2, StartingMoves DEF SlotsStay, ReturnSlot, TypeOK
    <3>3. QED
      BY <3>1, <3>2
  <2>4. ASSUME NEW o, Answer(t, o) PROVE pc'[t] = "idle"
    BY <2>4 DEF Answer, Goto, TypeOK
  <2>5. ASSUME NEW l, Goto(t, l) PROVE pc'[t] = l
    BY <2>5 DEF Goto, TypeOK
  <2>6. CASE t \in Keys /\ (Call(t) \/ Poll(t) \/ Inspect(t) \/ ReplayResult(t) \/ Forget(t)
               \/ PollInstead(t) \/ RefuseRetrigger(t) \/ Refuse(t) \/ Admit(t))
    <3>1. pc[t] \notin Held /\ pc'[t] \notin Held /\ UNCHANGED memory
      BY <2>4, <2>5, <2>6 DEF Call, Poll, Inspect, ReplayResult, Forget, PollInstead,
         RefuseRetrigger, Refuse, Admit, Held
    <3>2. QED
      BY <2>2, <3>1 DEF SlotStep
  <2>7. CASE t \in Keys /\ Reserve(t)
    <3>1. pc[t] = "reserve"
      BY <2>7 DEF Reserve
    <3>2. CASE UNCHANGED memory /\ pc'[t] = "idle"
      BY <2>2, <3>1, <3>2 DEF SlotStep, Held
    <3>3. CASE TakeSlot /\ pc'[t] = "recheck"
      <4>1. CASE p = Host
        <5>1. SlotTaken(p, t)
          BY <2>1, <2>7, <3>1, <3>3, <4>1, StartingMoves DEF SlotTaken, TakeSlot, TypeOK, Held
        <5>2. QED
          BY <2>7, <5>1 DEF SlotStep
      <4>2. CASE p # Host
        <5>1. SlotsStay(p)
          BY <2>1, <3>3, <4>2, StartingMoves DEF SlotsStay, TakeSlot, TypeOK
        <5>2. QED
          BY <5>1 DEF SlotStep
      <4>3. QED
        BY <4>1, <4>2
    <3>4. QED
      BY <2>4, <2>5, <2>7, <3>2, <3>3 DEF Reserve
  <2>8. CASE t \in Keys /\ (Recheck(t) \/ Undo(t) \/ StartRefused(t) \/ Start(t))
    <3>1. pc[t] \in Held
      BY <2>8 DEF Recheck, Undo, StartRefused, Start, Held
    <3>2. \/ ReturnSlot /\ pc'[t] \in {"idle", "forget"}
          \/ UNCHANGED memory /\ pc'[t] \in {"start", "undo", "record"}
      BY <2>4, <2>5, <2>8 DEF Recheck, Undo, StartRefused, Start
    <3>3. QED
      BY <2>2, <2>3, <2>8, <3>1, <3>2 DEF SlotStep, Held
  <2>9. CASE t \in Keys /\ Record(t)
    <3>0. CASE UNCHANGED memory /\ pc'[t] = "undo"
      BY <2>2, <2>9, <3>0 DEF SlotStep, Record, Held
    <3> DEFINE Gains == active' = [active EXCEPT ![Host] = @ \cup {t}] /\ UNCHANGED slots
    <3>1. pc[t] = "record"
      BY <2>9 DEF Record
    <3>2. \A q \in Procs : t \notin active[q]
      BY <2>9, <3>1 DEF KeysOK, KeyOK, Intent, Fresh, Handled
    <3>3. CASE Gains /\ pc'[t] = "tell" /\ p = Host
      <4>1. SlotHandedOver(p, t)
        BY <2>1, <2>9, <3>1, <3>2, <3>3, StartingMoves DEF SlotHandedOver, TypeOK, Held
      <4>2. QED
        BY <2>9, <4>1 DEF SlotStep
    <3>4. CASE Gains /\ p # Host
      <4>1. SlotsStay(p)
        BY <2>1, <2>9, <3>4, StartingMoves DEF SlotsStay, TypeOK
      <4>2. QED
        BY <4>1 DEF SlotStep
    <3>5. QED
      BY <2>5, <2>9, <3>0, <3>3, <3>4 DEF Record, memory
  <2>10. CASE t \in Keys /\ (Tell(t) \/ Keep(t))
    <3>1. pc[t] \notin Held /\ pc'[t] \notin Held /\ UNCHANGED memory
      BY <2>4, <2>10 DEF Tell, Keep, Held
    <3>2. QED
      BY <2>2, <3>1 DEF SlotStep
  <2>11. CASE t \in Controllers /\ \E k \in Keys : Cancel(t, k)
    <3>1. t \notin Keys /\ UNCHANGED memory
      BY <2>11, NoneFacts DEF Cancel
    <3>2. QED
      BY <2>2, <3>1 DEF SlotStep
  <2>12. CASE LookDone(t) \/ LookOn(t) \/ Stop(t) \/ Raise(t) \/ Cleanup(t)
    <3>1. pc[t] \notin Held /\ pc'[t] \notin Held /\ UNCHANGED memory
      BY <2>4, <2>5, <2>12 DEF LookDone, LookOn, Stop, Raise, Cleanup, Held
    <3>2. QED
      BY <2>2, <3>1 DEF SlotStep
  <2>13. CASE Settle(t)
    <3>1. pc[t] \notin Held /\ pc'[t] \notin Held
      BY <2>4, <2>13 DEF Settle, Held
    <3>2. Starting(p)' = Starting(p)
      BY <2>1, <3>1, StartingMoves
    <3>3. ReleaseHandle(ProcOf(t), on[t]) /\ on[t] \in Keys
      BY <2>13, FinsOn DEF Settle, Fins
    <3>4. SlotsStay(p) \/ SlotReleased(p, on[t])
      BY <3>2, <3>3 DEF ReleaseHandle, SlotsStay, SlotReleased, TypeOK
    <3>5. QED
      BY <3>3, <3>4 DEF SlotStep
  <2>14. QED
    BY <1>1, <2>6, <2>7, <2>8, <2>9, <2>10, <2>11, <2>12, <2>13
       DEF Threading, Executing, Finishing
<1>2. CASE Surrounding \/ UNCHANGED vars
  BY <1>2 DEF Surrounding, Exit, Expire, Interrupt, vars, memory, local, SlotStep, SlotsStay, Starting
<1>3. ASSUME NEW q \in Procs, Crash(q) PROVE SlotStep(p)
  <2>1. CASE p = q
    BY <1>3, <2>1, NoneFacts DEF Crash, SlotStep, SlotsNew, Starting, TypeOK
  <2>2. CASE p # q
    BY <1>3, <2>2, NoneFacts DEF Crash, SlotStep, SlotsStay, Starting, TypeOK
  <2>3. QED
    BY <2>1, <2>2
<1>4. QED
  BY <1>1, <1>2, <1>3, StepKinds

LEMMA SlotsNext ==
  ASSUME TypeOK, ThreadsOK, KeysOK, [Next]_vars, SlotsConserved
  PROVE  SlotsConserved'
BY SlotSteps, SlotSums DEF SlotsConserved

-----------------------------------------------------------------------------
(* The theorems *)

LEMMA InvInit == Init => ContainerInv
<1> SUFFICES ASSUME Init PROVE ContainerInv
  OBVIOUS
<1>1. TypeOK
  BY TypeInit
<1>2. ThreadsOK
  BY DEF Init, ThreadsOK, ThreadOK, Execs, Intent, Fins
<1>3. KeysOK
  BY NoneFacts DEF Init, KeysOK, KeyOK, Intent, Threads, Gone
<1>4. StartedOnce /\ ResultIsReal /\ ExistenceIsRecorded
  BY DEF Init, StartedOnce, ResultIsReal, Verdicts, ExistenceIsRecorded
<1>5. SlotsConserved
  <2>1. \A p \in Procs : Starting(p) = {} /\ active[p] = {} /\ slots[p] = MaxConcurrency
    BY NoneFacts DEF Init, Starting
  <2>2. Cardinality({}) = 0 /\ MaxConcurrency + 0 + 0 = MaxConcurrency
    BY FS_EmptySet, ContainerAssumption
  <2>3. QED
    BY <2>1, <2>2 DEF SlotsConserved
<1>6. QED
  BY <1>1, <1>2, <1>3, <1>4, <1>5 DEF ContainerInv

(* What threads know of keys and rows of containers is inductive: each     *)
(* part needs the others, whatever interleaves, crashes and fails.         *)
THEOREM ContainerInvariant == Spec => []ContainerInv
<1>1. ContainerInv /\ [Next]_vars => ContainerInv'
  BY TypeNext, ThreadsNext, KeysNext, StartedNext, SlotsNext, RealNext,
     ExistenceNext DEF ContainerInv
<1>2. QED
  BY InvInit, <1>1, PTL DEF Spec

(* Rows, slots, threads and containers are well formed.                    *)
THEOREM TypeCorrect == Spec => []TypeOK
<1>1. ContainerInv => TypeOK
  BY DEF ContainerInv
<1>2. QED
  BY <1>1, ContainerInvariant, PTL

(* The container of a key is asked for once, for any number of attempts,   *)
(* crashes and failures (execute: its lookup and its intent).              *)
THEOREM StartsAreOnce == Spec => []StartedOnce
<1>1. ContainerInv => StartedOnce
  BY DEF ContainerInv
<1>2. QED
  BY <1>1, ContainerInvariant, PTL

(* Slots are conserved, for any number of processes and threads that       *)
(* finish the same handle (_release_handle).                               *)
THEOREM SlotsAreConserved == Spec => []SlotsConserved
<1>1. ContainerInv => SlotsConserved
  BY DEF ContainerInv
<1>2. QED
  BY <1>1, ContainerInvariant, PTL

(* Every verdict is that of the container, for any number of controllers   *)
(* that cancel in any number of processes (_finish overwrites).            *)
THEOREM ResultsAreReal == Spec => []ResultIsReal
<1>1. ContainerInv => ResultIsReal
  BY DEF ContainerInv
<1>2. QED
  BY <1>1, ContainerInvariant, PTL

(* No container exists without a row that says so, unless the runtime hid  *)
(* it from us (_finish, _persist_uncertain, _persist_error).               *)
THEOREM ExistenceHolds == Spec => []ExistenceIsRecorded
<1>1. ContainerInv => ExistenceIsRecorded
  BY DEF ContainerInv
<1>2. QED
  BY <1>1, ContainerInvariant, PTL

=============================================================================
