------------------------- MODULE ObservabilityProofs -------------------------
(***************************************************************************)
(* What leaves the runtime, and what it observes: the events of            *)
(* EventOutbox, for any number of threads, events, crashes and failed      *)
(* writes; and the executions of ObservedExecutor with their telemetry,    *)
(* for any policy, buffer, exporter, cancellation and crash.  The two have *)
(* no state in common.                                                     *)
(***************************************************************************)
EXTENDS EventOutbox, ObservedExecutor, TLAPS

(* All threads are of one process.                                         *)
OneProcess == \A f, g \in Flushers : ProcessOf[f] = ProcessOf[g]

Reading == {"rows", "loop", "mark"}

LEMMA TearCases ==
  ASSUME TypeOK, NEW fs \in SUBSET Flushers, Tear(fs)
  PROVE  \/ UNCHANGED <<file, unended>>
         \/ /\ Tears
            /\ \E f \in fs : \E e \in 1..committed :
                 /\ pc[f] = "loop" /\ IsNext(e, f) /\ e \notin existing[f]
                 /\ \E left \in {e, Torn} : file' = Append(file, left)
            /\ unended' = unended \cup {Len(file) + 1}
BY DEF Tear

LEMMA AppendTyped ==
  ASSUME TypeOK, NEW e \in 1..committed \cup {Torn}
  PROVE  /\ Append(file, e) \in Seq(1..committed \cup {Torn})
         /\ Len(file) \in Nat /\ DOMAIN file = 1..Len(file)
         /\ Len(Append(file, e)) = Len(file) + 1
         /\ DOMAIN Append(file, e) = 1..Len(file) + 1
         /\ Append(file, e)[Len(file) + 1] = e
         /\ \A i \in 1..Len(file) : Append(file, e)[i] = file[i]
BY DEF TypeOK

LEMMA LinesOfAppend ==
  ASSUME TypeOK, NEW e \in 1..committed \cup {Torn}, file' = Append(file, e)
  PROVE  Lines' = Lines \cup {e}
<1>1. /\ DOMAIN file = 1..Len(file) /\ DOMAIN file' = 1..Len(file) + 1
      /\ Len(file) \in Nat
      /\ file'[Len(file) + 1] = e
      /\ \A i \in 1..Len(file) : file'[i] = file[i]
  BY AppendTyped
<1>2. Lines' \subseteq Lines \cup {e}
  BY <1>1 DEF Lines
<1>3. Lines \cup {e} \subseteq Lines'
  BY <1>1 DEF Lines
<1>4. QED
  BY <1>2, <1>3

LEMMA TearTyped ==
  ASSUME TypeOK, NEW fs \in SUBSET Flushers, Tear(fs)
  PROVE  /\ file' \in Seq(1..committed \cup {Torn}) /\ unended' \subseteq DOMAIN file'
         /\ Lines \subseteq Lines'
         /\ ~Tears => UNCHANGED <<file, unended>>
<1>1. CASE UNCHANGED <<file, unended>>
  BY <1>1 DEF TypeOK, Lines
<1>2. ASSUME Tears, NEW left \in 1..committed \cup {Torn}, file' = Append(file, left),
             unended' = unended \cup {Len(file) + 1}
      PROVE  /\ file' \in Seq(1..committed \cup {Torn}) /\ unended' \subseteq DOMAIN file'
             /\ Lines \subseteq Lines'
  <2>1. /\ unended \subseteq 1..Len(file) /\ Len(file) \in Nat
        /\ file' \in Seq(1..committed \cup {Torn}) /\ DOMAIN file' = 1..Len(file) + 1
        /\ Lines' = Lines \cup {left}
    BY <1>2, AppendTyped, LinesOfAppend DEF TypeOK
  <2>2. \A i \in unended' : i \in 1..Len(file) + 1
    BY <1>2, <2>1
  <2>3. QED
    BY <2>1, <2>2
<1>3. QED
  BY <1>1, <1>2, TearCases

----------------------------------------------------------------------------
(* A crash or a raise within flush() leaves the locks consistent.          *)
LEMMA LeaveTyped ==
  ASSUME TypeOK, NEW f \in Flushers, pc[f] \in Holding, Leave(f)
  PROVE  /\ lock' \in [Processes -> Flushers \cup {None}]
         /\ pc' \in [Flushers -> Steps]
         /\ LockOK'
<1> DEFINE p == ProcessOf[f]
<1>1. p \in Processes /\ \A g \in Flushers : ProcessOf[g] \in Processes
  BY OutboxAssumption
<1>2. /\ lock' = [lock EXCEPT ![p] = None] /\ pc' = [pc EXCEPT ![f] = "idle"]
  BY DEF Leave, Goto
<1>3. lock[p] = f /\ \A g \in Flushers \ {f} : pc[g] \in Holding => ProcessOf[g] # p
  BY DEF TypeOK, LockOK
<1>4. /\ lock' \in [Processes -> Flushers \cup {None}] /\ pc' \in [Flushers -> Steps]
      /\ pc'[f] = "idle" /\ \A g \in Flushers \ {f} : pc'[g] = pc[g]
      /\ lock'[p] = None /\ \A q \in Processes \ {p} : lock'[q] = lock[q]
  BY <1>1, <1>2 DEF TypeOK, Steps
<1>5. \A g \in Flushers : pc'[g] \in Holding => lock'[ProcessOf[g]] = g
  BY <1>1, <1>3, <1>4 DEF TypeOK, LockOK, Holding
<1>6. \A q \in Processes : lock'[q] # None =>
        ProcessOf[lock'[q]] = q /\ pc'[lock'[q]] \in Holding
  <2> SUFFICES ASSUME NEW q \in Processes, lock'[q] # None
               PROVE  ProcessOf[lock'[q]] = q /\ pc'[lock'[q]] \in Holding
    OBVIOUS
  <2>1. q # p /\ lock'[q] = lock[q]
    BY <1>4
  <2>2. lock[q] \in Flushers /\ ProcessOf[lock[q]] = q /\ pc[lock[q]] \in Holding
    BY <2>1 DEF TypeOK, LockOK
  <2>3. lock[q] # f
    BY <2>1, <2>2
  <2>4. QED
    BY <2>1, <2>2, <2>3, <1>4
<1>7. QED
  BY <1>4, <1>5, <1>6 DEF LockOK

LEMMA TypeInit == Init => TypeOK
BY OutboxAssumption DEF Init, TypeOK, LockOK, Steps, Holding

LEMMA TypeNext == ASSUME TypeOK, [Next]_vars PROVE TypeOK'
<1>1. CASE UNCHANGED vars
  BY <1>1 DEF vars, TypeOK, LockOK
<1>2. ASSUME NEW f \in Flushers, Commit(f) PROVE TypeOK'
  <2>1. 1..committed \subseteq 1..committed'
    BY <1>2 DEF Commit, TypeOK
  <2>2. file' \in Seq(1..committed' \cup {Torn}) /\ unended' \subseteq DOMAIN file'
    BY <1>2, <2>1 DEF Commit, TypeOK
  <2>3. QED
    BY <1>2, <2>1, <2>2, OutboxAssumption DEF Commit, Goto, TypeOK, LockOK, Steps, Holding
<1>3. ASSUME NEW f \in Flushers, Reopen(f) PROVE TypeOK'
  BY <1>3 DEF Reopen, Goto, TypeOK, LockOK, Steps, Holding
<1>4. ASSUME NEW f \in Flushers, Acquire(f) PROVE TypeOK'
  <2> DEFINE p == ProcessOf[f]
  <2>1. p \in Processes /\ \A g \in Flushers : ProcessOf[g] \in Processes
    BY OutboxAssumption
  <2>2. /\ pc[f] = "flush" /\ lock[p] = None
        /\ lock' = [lock EXCEPT ![p] = f] /\ pc' = [pc EXCEPT ![f] = "existing"]
        /\ UNCHANGED <<committed, delivered, file, unended, existing, rows, faults>>
    BY <1>4 DEF Acquire, Goto
  <2>3. /\ lock' \in [Processes -> Flushers \cup {None}] /\ pc' \in [Flushers -> Steps]
        /\ pc'[f] = "existing" /\ \A g \in Flushers \ {f} : pc'[g] = pc[g]
        /\ lock'[p] = f /\ \A q \in Processes \ {p} : lock'[q] = lock[q]
    BY <2>1, <2>2 DEF TypeOK, Steps
  <2>4. \A g \in Flushers : pc'[g] \in Holding => lock'[ProcessOf[g]] = g
    BY <2>1, <2>2, <2>3, OutboxAssumption DEF TypeOK, LockOK, Holding
  <2>5. \A q \in Processes : lock'[q] # None =>
          ProcessOf[lock'[q]] = q /\ pc'[lock'[q]] \in Holding
    <3> SUFFICES ASSUME NEW q \in Processes, lock'[q] # None
                 PROVE  ProcessOf[lock'[q]] = q /\ pc'[lock'[q]] \in Holding
      OBVIOUS
    <3>1. CASE q = p
      BY <3>1, <2>3 DEF Holding
    <3>2. CASE q # p
      <4>1. lock[q] \in Flushers /\ ProcessOf[lock[q]] = q /\ pc[lock[q]] \in Holding
        BY <3>2, <2>3 DEF TypeOK, LockOK
      <4>2. QED
        BY <3>2, <4>1, <2>3
    <3>3. QED
      BY <3>1, <3>2
  <2>6. QED
    BY <2>2, <2>3, <2>4, <2>5 DEF TypeOK, LockOK
<1>5. ASSUME NEW f \in Flushers, ReadFile(f) PROVE TypeOK'
  <2>1. CASE Spoiled # {} /\ Leave(f) /\ UNCHANGED existing
    BY <1>5, <2>1, LeaveTyped DEF ReadFile, TypeOK, Holding
  <2>2. CASE /\ Spoiled = {} /\ existing' = [existing EXCEPT ![f] = Lines]
             /\ Goto(f, "rows") /\ UNCHANGED lock
    <3>1. Lines \subseteq 1..committed
      BY <2>2 DEF Lines, Spoiled, Readable, TypeOK
    <3>2. QED
      BY <1>5, <2>2, <3>1 DEF ReadFile, Goto, TypeOK, LockOK, Steps, Holding
  <2>3. QED
    BY <1>5, <2>1, <2>2 DEF ReadFile
<1>6. ASSUME NEW f \in Flushers, ReadRows(f) PROVE TypeOK'
  BY <1>6 DEF ReadRows, Undelivered, Goto, TypeOK, LockOK, Steps, Holding
<1>7. ASSUME NEW f \in Flushers, AppendEvent(f) PROVE TypeOK'
  <2>1. PICK e \in 1..committed :
          IF e \in existing[f] THEN UNCHANGED <<file, existing>>
          ELSE AppendLine(e) /\ existing' = [existing EXCEPT ![f] = @ \cup {e}]
    BY <1>7 DEF AppendEvent
  <2>2. file' \in Seq(1..committed \cup {Torn}) /\ unended' \subseteq DOMAIN file'
    <3>1. unended' = unended /\ unended \subseteq 1..Len(file)
      BY <1>7, AppendTyped DEF AppendEvent, TypeOK
    <3>2. CASE UNCHANGED file
      BY <3>1, <3>2 DEF TypeOK
    <3>3. CASE file' = Append(file, e)
      <4>1. Len(file) \in Nat /\ DOMAIN file' = 1..Len(file) + 1
        BY <3>3, AppendTyped
      <4>2. \A i \in 1..Len(file) : i \in 1..Len(file) + 1
        BY <4>1
      <4>3. QED
        BY <3>1, <3>3, <4>1, <4>2, AppendTyped
    <3>4. QED
      BY <2>1, <3>2, <3>3 DEF AppendLine
  <2>3. existing' \in [Flushers -> SUBSET (1..committed)]
    BY <2>1 DEF TypeOK
  <2>4. /\ UNCHANGED <<committed, delivered, lock, rows, faults>>
        /\ pc[f] = "loop" /\ pc' = [pc EXCEPT ![f] = "mark"]
    BY <1>7 DEF AppendEvent, Goto
  <2>5. pc' \in [Flushers -> Steps] /\ \A g \in Flushers : pc'[g] \in Holding <=> pc[g] \in Holding
    BY <2>4 DEF TypeOK, Steps, Holding
  <2>6. LockOK'
    BY <2>4, <2>5 DEF TypeOK, LockOK
  <2>7. QED
    BY <2>2, <2>3, <2>4, <2>5, <2>6 DEF TypeOK
<1>8. ASSUME NEW f \in Flushers, MarkDelivered(f) PROVE TypeOK'
  BY <1>8 DEF MarkDelivered, IsNext, Goto, TypeOK, LockOK, Steps, Holding
<1>9. ASSUME NEW f \in Flushers, EndFlush(f) PROVE TypeOK'
  BY <1>9, LeaveTyped DEF EndFlush, TypeOK, Holding
<1>10. ASSUME NEW f \in Flushers, Fail(f) PROVE TypeOK'
  <2>1. file' \in Seq(1..committed \cup {Torn}) /\ unended' \subseteq DOMAIN file'
    BY <1>10, TearTyped DEF Fail
  <2>2. /\ lock' \in [Processes -> Flushers \cup {None}]
        /\ pc' \in [Flushers -> Steps]
        /\ LockOK'
    BY <1>10, LeaveTyped DEF Fail
  <2>3. /\ UNCHANGED <<committed, delivered, existing, rows>>
        /\ faults < MaxFaults /\ faults' = faults + 1
    BY <1>10 DEF Fail
  <2>4. faults' \in 0..MaxFaults
    BY <2>3, OutboxAssumption DEF TypeOK
  <2>5. QED
    BY <2>1, <2>2, <2>3, <2>4 DEF TypeOK
<1>11. ASSUME NEW p \in Processes, Crash(p) PROVE TypeOK'
  <2> DEFINE mine == {f \in Flushers : ProcessOf[f] = p}
  <2>1. file' \in Seq(1..committed \cup {Torn}) /\ unended' \subseteq DOMAIN file'
    BY <1>11, TearTyped DEF Crash
  <2>2. /\ lock' = [lock EXCEPT ![p] = None]
        /\ pc' = [f \in Flushers |-> IF f \in mine THEN "idle" ELSE pc[f]]
    BY <1>11 DEF Crash
  <2>3. LockOK'
    <3>1. \A f \in Flushers : pc'[f] \in Holding => f \notin mine /\ pc[f] \in Holding
      BY <2>2 DEF Holding
    <3>2. \A f \in Flushers \ mine : pc'[f] = pc[f] /\ lock'[ProcessOf[f]] = lock[ProcessOf[f]]
      BY <2>2, OutboxAssumption DEF TypeOK
    <3>3. /\ lock'[p] = None
          /\ \A q \in Processes \ {p} : lock'[q] = lock[q]
      BY <2>2 DEF TypeOK
    <3>4. ASSUME NEW q \in Processes, lock'[q] # None
          PROVE  ProcessOf[lock'[q]] = q /\ pc'[lock'[q]] \in Holding
      <4>1. q # p /\ lock'[q] = lock[q]
        BY <3>3, <3>4
      <4>2. lock[q] \in Flushers /\ ProcessOf[lock[q]] = q /\ pc[lock[q]] \in Holding
        BY <3>4, <4>1 DEF TypeOK, LockOK
      <4> QED  BY <3>2, <4>1, <4>2
    <3> QED  BY <3>1, <3>2, <3>4 DEF TypeOK, LockOK
  <2>4. /\ UNCHANGED <<committed, delivered, existing, rows>>
        /\ faults < MaxFaults /\ faults' = faults + 1
    BY <1>11 DEF Crash
  <2>5. lock' \in [Processes -> Flushers \cup {None}] /\ pc' \in [Flushers -> Steps]
    BY <2>2 DEF TypeOK, Steps
  <2>6. faults' \in 0..MaxFaults
    BY <2>4, OutboxAssumption DEF TypeOK
  <2>7. QED
    BY <2>1, <2>3, <2>4, <2>5, <2>6 DEF TypeOK
<1>12. QED
  BY <1>1, <1>2, <1>3, <1>4, <1>5, <1>6, <1>7, <1>8, <1>9, <1>10, <1>11 DEF Next, Flush

(* The state is well formed and every lock is held by the one thread of    *)
(* its process that is within flush().                                     *)
THEOREM TypeCorrect == Spec => []TypeOK
<1>1. QED
  BY TypeInit, TypeNext, PTL DEF Spec

----------------------------------------------------------------------------
(* What a thread within flush() has read of the file is there, and what it *)
(* is about to mark is in it; only torn writes spoil a line.               *)
ReadOK ==
  /\ ~Tears => Torn \notin Lines /\ unended = {}
  /\ \A f \in Flushers :
       /\ pc[f] \in Reading => existing[f] \subseteq Lines
       /\ pc[f] = "mark" => \A e \in rows[f] : IsNext(e, f) => e \in Lines

DeliveredInv == TypeOK /\ delivered \subseteq Lines /\ ReadOK

(* A fault takes nothing out of the file and nothing from a thread that    *)
(* goes on.                                                                *)
LEMMA DeliveredFault ==
  ASSUME DeliveredInv, TypeOK', NEW fs \in SUBSET Flushers, Tear(fs),
         UNCHANGED <<committed, delivered, existing, rows>>,
         \A f \in Flushers : pc'[f] = pc[f] \/ pc'[f] = "idle"
  PROVE  DeliveredInv'
<1>1. Lines \subseteq Lines' /\ (~Tears => Lines' = Lines /\ unended' = unended)
  BY TearTyped DEF DeliveredInv, Lines
<1>2. QED
  BY <1>1 DEF DeliveredInv, ReadOK, IsNext, Reading

LEMMA DeliveredNext == ASSUME DeliveredInv, [Next]_vars PROVE DeliveredInv'
<1> USE DEF DeliveredInv
<1>0. TypeOK'
  BY TypeNext
<1>1. CASE UNCHANGED vars
  BY <1>0, <1>1 DEF vars, ReadOK, Lines, IsNext
<1>2. ASSUME NEW f \in Flushers, Commit(f) \/ Reopen(f) \/ Acquire(f) PROVE DeliveredInv'
  <2>1. Lines' = Lines
    BY <1>2 DEF Commit, Reopen, Acquire, Lines
  <2>2. QED
    BY <1>0, <1>2, <2>1 DEF Commit, Reopen, Acquire, Goto, TypeOK, ReadOK, IsNext, Reading
<1>3. ASSUME NEW f \in Flushers, ReadFile(f) PROVE DeliveredInv'
  <2>1. Lines' = Lines
    BY <1>3 DEF ReadFile, Lines
  <2>2. QED
    BY <1>0, <1>3, <2>1 DEF ReadFile, Leave, Goto, TypeOK, ReadOK, IsNext, Reading
<1>4. ASSUME NEW f \in Flushers, ReadRows(f) \/ EndFlush(f) PROVE DeliveredInv'
  <2>1. Lines' = Lines
    BY <1>4 DEF ReadRows, EndFlush, Lines
  <2>2. QED
    BY <1>0, <1>4, <2>1 DEF ReadRows, EndFlush, Leave, Goto, TypeOK, ReadOK, IsNext, Reading
<1>5. ASSUME NEW f \in Flushers, AppendEvent(f) PROVE DeliveredInv'
  <2>1. PICK e \in 1..committed :
          /\ IsNext(e, f)
          /\ IF e \in existing[f] THEN UNCHANGED <<file, existing>>
             ELSE AppendLine(e) /\ existing' = [existing EXCEPT ![f] = @ \cup {e}]
    BY <1>5 DEF AppendEvent
  <2>2. pc[f] = "loop" /\ existing[f] \subseteq Lines
    BY <1>5 DEF AppendEvent, ReadOK, Reading
  <2>3. Lines' = Lines \cup {e} /\ Torn # e
    <3>1. CASE e \in existing[f]
      BY <2>1, <2>2, <3>1, OutboxAssumption DEF Lines
    <3>2. CASE e \notin existing[f]
      BY <2>1, <2>2, <3>2, LinesOfAppend, OutboxAssumption DEF AppendLine
    <3>3. QED
      BY <2>2, <3>1, <3>2
  <2>4. \A g \in Flushers : existing'[g] \subseteq existing[g] \cup {e}
    BY <2>1 DEF TypeOK
  <2>5. \A d \in rows[f] : IsNext(d, f) => d = e
    BY <2>1 DEF IsNext, TypeOK
  <2>6. QED
    BY <1>0, <1>5, <2>2, <2>3, <2>4, <2>5
       DEF AppendEvent, Goto, TypeOK, ReadOK, IsNext, Reading
<1>6. ASSUME NEW f \in Flushers, MarkDelivered(f) PROVE DeliveredInv'
  <2>1. Lines' = Lines
    BY <1>6 DEF MarkDelivered, Lines
  <2>2. PICK e \in 1..committed : IsNext(e, f) /\ delivered' = delivered \cup {e}
    BY <1>6 DEF MarkDelivered
  <2>3. e \in Lines
    BY <1>6, <2>2 DEF MarkDelivered, ReadOK, IsNext
  <2>4. (delivered \subseteq Lines)'
    BY <2>1, <2>2, <2>3
  <2>5. ReadOK'
    BY <1>6, <2>1 DEF MarkDelivered, Goto, TypeOK, ReadOK, IsNext, Reading
  <2>6. QED
    BY <1>0, <2>4, <2>5
<1>7. ASSUME NEW f \in Flushers, Fail(f) PROVE DeliveredInv'
  <2>1. /\ {f} \in SUBSET Flushers /\ Tear({f}) /\ pc' = [pc EXCEPT ![f] = "idle"]
        /\ UNCHANGED <<committed, delivered, existing, rows>>
    BY <1>7 DEF Fail, Leave, Goto
  <2>2. \A g \in Flushers : pc'[g] = pc[g] \/ pc'[g] = "idle"
    BY <2>1 DEF TypeOK
  <2>3. QED
    BY <1>0, <2>1, <2>2, DeliveredFault
<1>8. ASSUME NEW p \in Processes, Crash(p) PROVE DeliveredInv'
  <2> DEFINE mine == {f \in Flushers : ProcessOf[f] = p}
  <2>1. /\ mine \in SUBSET Flushers /\ Tear(mine)
        /\ pc' = [f \in Flushers |-> IF f \in mine THEN "idle" ELSE pc[f]]
        /\ UNCHANGED <<committed, delivered, existing, rows>>
    BY <1>8 DEF Crash
  <2> HIDE DEF mine
  <2>2. \A g \in Flushers : pc'[g] = pc[g] \/ pc'[g] = "idle"
    BY <2>1
  <2>3. QED
    BY <1>0, <2>1, <2>2, DeliveredFault
<1>9. QED
  BY <1>1, <1>2, <1>3, <1>4, <1>5, <1>6, <1>7, <1>8 DEF Next, Flush

LEMMA DeliveredInit == Init => DeliveredInv
BY TypeInit DEF Init, DeliveredInv, ReadOK, Lines, Reading

(* An outbox row marked delivered has its event in the file, through every *)
(* crash and failure and with any number of processes flushing, and if no  *)
(* write was torn the event can be read: the append comes before the mark. *)
THEOREM DeliveredInFile == Spec => []DeliveredIsInFile
<1>1. DeliveredInv /\ [Next]_vars => DeliveredInv'
  BY DeliveredNext
<1>2. DeliveredInv => DeliveredIsInFile
  <2> SUFFICES ASSUME DeliveredInv, NEW e \in delivered
               PROVE  \E i \in DOMAIN file : file[i] = e /\ (Tears \/ Readable(i))
    BY DEF DeliveredIsInFile
  <2>1. PICK i \in DOMAIN file : file[i] = e
    BY DEF DeliveredInv, Lines
  <2>2. ~Tears => Readable(i)
    BY <2>1 DEF DeliveredInv, ReadOK, Readable, Lines
  <2>3. QED
    BY <2>1, <2>2
<1>3. QED
  BY DeliveredInit, <1>1, <1>2, PTL DEF Spec

----------------------------------------------------------------------------
(* In one process the file has exactly the events up to some commit.  A    *)
(* thread that has read the file knows all of it: no line was spoiled, and *)
(* since then at most its own first append went on from the last one.  Of  *)
(* what it has to mark nothing is missing but what has been marked.        *)
WholeFor(f) ==
  /\ existing[f] = Lines /\ Torn \notin Lines
  /\ Joints # {} => Len(file) \notin unended

PrefixOK ==
  /\ AuditLogIsPrefix
  /\ \A f \in Flushers :
       /\ pc[f] \in Reading => WholeFor(f)
       /\ pc[f] \in {"loop", "mark"} =>
            \A e \in rows[f] : \A d \in 1..e : d \in rows[f] \/ d \in delivered

PrefixInv == DeliveredInv /\ PrefixOK

LEMMA PrefixLines ==
  ASSUME TypeOK, AuditLogIsPrefix, Torn \notin Lines
  PROVE  /\ Lines = 1..Len(file) /\ Published = Len(file)
         /\ \A i \in 1..Len(file) : file[i] = i
<1>1. Len(file) \in Nat /\ DOMAIN file = 1..Len(file)
  BY DEF TypeOK
<1>2. \A i \in 1..Len(file) : file[i] = i
  BY <1>1 DEF AuditLogIsPrefix, Lines
<1>3. file # <<>> => file[Len(file)] # Torn
  BY <1>1, <1>2, OutboxAssumption DEF TypeOK
<1>4. QED
  BY <1>1, <1>2, <1>3 DEF Lines, Published

(* Nothing is unreadable in a file without joints.                         *)
LEMMA NoJointsNoLoss ==
  ASSUME TypeOK, Torn \notin Lines, Joints = {} PROVE Unreadable = {}
<1>1. PICK n \in Nat : n = Len(file)
  BY DEF TypeOK
<1>2. DOMAIN file = 1..n /\ \A i \in unended : i \in 1..n
  BY <1>1 DEF TypeOK
<1>3. \A i \in unended : ~(i < n)
  BY <1>1 DEF Joints
<1>4. \A i \in unended : i = n
  BY <1>2, <1>3
<1>5. ASSUME NEW i \in 1..n PROVE i - 1 \notin unended
  BY <1>4
<1>6. \A i \in 1..n : file[i] # Torn
  BY <1>2 DEF Lines
<1>7. ASSUME NEW i \in 1..n PROVE Readable(i)
  BY <1>1, <1>4, <1>5, <1>6 DEF Readable
<1>8. QED
  BY <1>2, <1>7 DEF Unreadable, Spoiled

LEMMA ReadIsWhole == ASSUME TypeOK, Spoiled = {} PROVE Torn \notin Lines /\ Joints = {}
<1>1. unended \subseteq DOMAIN file /\ Len(file) \in Nat /\ DOMAIN file = 1..Len(file)
  BY DEF TypeOK
<1>2. \A i \in DOMAIN file : file[i] # Torn /\ (i \in unended => i = Len(file))
  BY DEF Spoiled, Readable
<1>3. QED
  BY <1>1, <1>2 DEF Joints, Lines

(* The event that a thread in the loop has to append is the one after the  *)
(* last one of the file.                                                   *)
LEMMA AppendsNext ==
  ASSUME PrefixInv, NEW f \in Flushers, pc[f] = "loop",
         NEW e \in 1..committed, IsNext(e, f), e \notin existing[f]
  PROVE  e = Len(file) + 1
<1>1. Torn \notin Lines /\ existing[f] = Lines
  BY DEF PrefixInv, PrefixOK, WholeFor, Reading
<1>2. Lines = 1..Len(file) /\ Len(file) \in Nat
  BY <1>1, PrefixLines DEF PrefixInv, DeliveredInv, PrefixOK, TypeOK
<1>3. e \in Nat /\ \A d \in 1..e : d # e => d \in delivered
  BY <1>1 DEF PrefixInv, DeliveredInv, PrefixOK, IsNext, TypeOK
<1>4. \A d \in 1..e : d # e => d \in 1..Len(file)
  BY <1>2, <1>3 DEF PrefixInv, DeliveredInv
<1>5. e > Len(file)
  BY <1>1, <1>2, <1>3
<1>6. e > Len(file) + 1 => Len(file) + 1 \in 1..e
  BY <1>2, <1>3
<1>7. QED
  BY <1>2, <1>3, <1>4, <1>5, <1>6

(* The file grows in one process: by an event, a part of one, or one       *)
(* without its newline.  Only if the last line had none is there a joint   *)
(* now, and no other before.                                               *)
LEMMA Grow ==
  ASSUME PrefixInv, Torn \notin Lines, Joints # {} => Len(file) \notin unended,
         NEW e \in 1..committed, e = Len(file) + 1,
         NEW left \in {e, Torn}, file' = Append(file, left),
         NEW U \in SUBSET {e}, unended' = unended \cup U, left = Torn => U = {e},
         committed' = committed
  PROVE  /\ AuditLogIsPrefix'
         /\ [Trail!Next]_(Trail!vars)
         /\ U = {} => (Joints # {} => Len(file) \notin unended)'
<1>0. PICK n \in Nat : n = Len(file)
  BY DEF PrefixInv, DeliveredInv, TypeOK
<1>1. /\ DOMAIN file = 1..n /\ \A i \in unended : i \in 1..n
      /\ Len(file') = n + 1 /\ DOMAIN file' = 1..n + 1 /\ file'[n + 1] = left
      /\ \A i \in 1..n : file'[i] = file[i]
  <2>1. TypeOK /\ left \in 1..committed \cup {Torn}
    BY DEF PrefixInv, DeliveredInv
  <2>2. QED
    BY <1>0, <2>1, AppendTyped DEF TypeOK
<1>2. Published = n /\ \A i \in 1..n : file[i] = i
  BY <1>0, PrefixLines DEF PrefixInv, DeliveredInv, PrefixOK
<1>3. /\ committed \in Nat /\ e = n + 1 /\ n + 1 <= committed
      /\ \A i \in Nat : i # Torn
  BY <1>0, OutboxAssumption DEF PrefixInv, DeliveredInv, TypeOK
<1>4. /\ left = Torn => Published' = n
      /\ left # Torn => Published' = n + 1 /\ left = n + 1
  <2>1. file' # <<>>
    BY <1>1
  <2>2. CASE left = Torn
    BY <1>1, <2>1, <2>2 DEF Published
  <2>3. CASE left # Torn
    BY <1>1, <1>3, <2>1, <2>3 DEF Published
  <2>4. QED
    BY <2>2, <2>3
<1>5. /\ \A i \in unended' : i \in 1..n \/ i = n + 1
      /\ \A i \in 1..n : i \in unended' <=> i \in unended
  <2>1. \A i \in U : i = n + 1
    BY <1>3
  <2>2. \A i : i \in unended' <=> i \in unended \/ i \in U
    OBVIOUS
  <2>3. \A i \in 1..n : i # n + 1
    OBVIOUS
  <2>4. QED
    BY <1>1, <2>1, <2>2, <2>3
<1>6. \A i \in 1..n + 1 : file'[i] = i \/ (file'[i] = Torn /\ i = n + 1)
  BY <1>1, <1>2, <1>4
<1>7. U = {} => n + 1 \notin unended'
  BY <1>1
<1>8. CASE n \in unended
  <2>1. \A i \in unended : i = n
    <3>1. \A i \in unended : ~(i < n)
      BY <1>0, <1>8 DEF Joints
    <3>2. QED
      BY <1>1, <3>1
  <2>2. Unreadable = {}
    <3>1. Joints = {}
      BY <1>0, <1>8
    <3>2. QED
      BY <3>1, NoJointsNoLoss DEF PrefixInv, DeliveredInv
  <2>3. n \in unended' /\ \A i \in unended' : i = n \/ i = n + 1
    BY <1>5, <1>8, <2>1
  <2>4. \A i \in Joints' : i = n
    BY <1>1, <2>3 DEF Joints
  <2>5. ~Readable(n)' /\ ~Readable(n + 1)'
    BY <1>1, <2>3 DEF Readable
  <2>6. ASSUME NEW i \in 1..n + 1, i # n, i # n + 1 PROVE Readable(i)'
    <3>1. i \in 1..n /\ i - 1 # n /\ i - 1 # n + 1
      BY <2>6
    <3>2. file'[i] # Torn
      BY <1>2, <1>1, <1>3, <3>1
    <3>3. i - 1 \notin unended' /\ i \notin unended'
      BY <2>3, <2>6, <3>1
    <3>4. QED
      BY <3>2, <3>3 DEF Readable
  <2>7. n \in 1..n + 1 /\ n + 1 \in 1..n + 1 /\ n \in 1..n
    BY <1>1, <1>8
  <2>8. \A i : i \in Spoiled' <=> i = n \/ i = n + 1
    BY <1>1, <2>5, <2>6, <2>7 DEF Spoiled
  <2>9. file'[n] # Torn
    BY <1>1, <1>2, <1>3, <2>7
  <2>10. Unreadable' = n..Published'
    <3>1. CASE left = Torn
      <4>1. \A i : i \in Unreadable' <=> i = n
        BY <1>1, <2>8, <2>9, <3>1 DEF Unreadable
      <4>2. Published' = n /\ \A i : i \in n..n <=> i = n
        BY <1>4, <3>1
      <4>3. QED
        BY <4>1, <4>2
    <3>2. CASE left # Torn
      <4>1. \A i : i \in Unreadable' <=> i = n \/ i = n + 1
        BY <1>1, <2>8, <2>9, <3>2 DEF Unreadable
      <4>2. Published' = n + 1 /\ \A i : i \in n..n + 1 <=> i = n \/ i = n + 1
        BY <1>4, <3>2
      <4>3. QED
        BY <4>1, <4>2
    <3>3. QED
      BY <3>1, <3>2
  <2>11. Tears
    BY <1>8 DEF PrefixInv, DeliveredInv, ReadOK
  <2>12. Published' \in {n, n + 1}
    BY <1>4
  <2>13. n \in 1..committed - 1
    BY <1>3, <2>7
  <2>14. Trail!Spoil
    BY <1>2, <2>2, <2>10, <2>11, <2>12, <2>13 DEF Trail!Spoil
  <2>15. AuditLogIsPrefix'
    BY <1>1, <1>6, <2>4 DEF AuditLogIsPrefix
  <2>16. QED
    BY <1>1, <1>7, <2>14, <2>15 DEF Trail!Next
<1>9. CASE n \notin unended
  <2>1. \A i \in Joints' : i \in Joints
    <3>1. ASSUME NEW i \in unended', i < n + 1 PROVE i \in unended /\ i < n
      BY <1>1, <1>5, <1>9, <3>1
    <3>2. QED
      BY <1>0, <1>1, <3>1 DEF Joints
  <2>2. ASSUME NEW i \in 1..n PROVE Readable(i)' <=> Readable(i)
    <3>1. file'[i] = file[i]
      BY <1>1
    <3>2. i - 1 \in unended' <=> i - 1 \in unended
      <4>1. CASE i - 1 \in 1..n
        BY <1>5, <4>1
      <4>2. CASE i - 1 \notin 1..n
        <5>1. i - 1 # n + 1
          OBVIOUS
        <5>2. QED
          BY <1>1, <1>5, <4>2, <5>1
      <4>3. QED
        BY <4>1, <4>2
    <3>3. (i \in unended' => i = n + 1) <=> (i \in unended => i = n)
      BY <1>5, <1>9
    <3>4. QED
      BY <1>0, <1>1, <3>1, <3>2, <3>3 DEF Readable
  <2>3. left # Torn => Readable(n + 1)'
    <3>1. n + 1 - 1 = n /\ n \notin unended'
      <4>1. n \in 1..n \/ n \notin unended'
        BY <1>5
      <4>2. QED
        BY <1>5, <1>9, <4>1
    <3>2. QED
      BY <1>1, <3>1 DEF Readable
  <2>4. Unreadable' = Unreadable
    <3>1. \A i : i \in Unreadable <=> i \in 1..n /\ ~Readable(i) /\ file[i] # Torn
      BY <1>1 DEF Unreadable, Spoiled
    <3>2. \A i : i \in Unreadable' <=> i \in 1..n + 1 /\ ~Readable(i)' /\ file'[i] # Torn
      BY <1>1 DEF Unreadable, Spoiled
    <3>3. n + 1 \notin Unreadable'
      BY <1>1, <2>3, <3>2
    <3>4. \A i : i \in 1..n + 1 <=> i \in 1..n \/ i = n + 1
      OBVIOUS
    <3>5. \A i \in 1..n : i \in Unreadable' <=> i \in Unreadable
      BY <1>1, <2>2, <3>1, <3>2, <3>4
    <3>6. \A i : i \in Unreadable' <=> i \in Unreadable
      BY <3>1, <3>2, <3>3, <3>4, <3>5
    <3>7. QED
      BY <3>6
  <2>5. Trail!Publish \/ UNCHANGED Trail!vars
    BY <1>2, <1>3, <1>4, <2>4 DEF Trail!Publish, Trail!vars
  <2>6. AuditLogIsPrefix'
    BY <1>1, <1>6, <2>1 DEF AuditLogIsPrefix, PrefixInv, PrefixOK
  <2>7. QED
    BY <1>1, <1>7, <2>5, <2>6 DEF Trail!Next
<1>10. QED
  BY <1>8, <1>9

(* As long as the file stays, nothing becomes unreadable.                  *)
LEMMA FileStays ==
  ASSUME UNCHANGED <<file, unended>>
  PROVE  /\ Lines' = Lines /\ Joints' = Joints
         /\ AuditLogIsPrefix' = AuditLogIsPrefix
         /\ UNCHANGED <<Published, Unreadable>>
BY DEF Lines, Joints, AuditLogIsPrefix, Published, Unreadable, Spoiled, Readable

(* A thread that works on the file is alone with it.                       *)
LEMMA Alone ==
  ASSUME OneProcess, TypeOK, NEW f \in Flushers, pc[f] \in Holding
  PROVE  \A g \in Flushers \ {f} : pc[g] \notin Holding
BY DEF OneProcess, TypeOK, LockOK

LEMMA PrefixOfAppend ==
  ASSUME PrefixInv, NEW f \in Flushers, AppendEvent(f)
  PROVE  /\ AuditLogIsPrefix' /\ WholeFor(f)'
         /\ [Trail!Next]_(Trail!vars)
<1>1. PICK e \in 1..committed :
        /\ IsNext(e, f)
        /\ IF e \in existing[f] THEN UNCHANGED <<file, existing>>
           ELSE AppendLine(e) /\ existing' = [existing EXCEPT ![f] = @ \cup {e}]
  BY DEF AppendEvent
<1>2. /\ pc[f] = "loop" /\ WholeFor(f) /\ TypeOK /\ AuditLogIsPrefix
      /\ UNCHANGED <<committed, unended>>
  BY DEF AppendEvent, PrefixInv, DeliveredInv, PrefixOK, Reading
<1>3. CASE e \in existing[f]
  <2>1. UNCHANGED <<file, unended, existing, committed>>
    BY <1>1, <1>2, <1>3
  <2>2. Lines' = Lines /\ Joints' = Joints /\ AuditLogIsPrefix' /\ UNCHANGED Trail!vars
    BY <1>2, <2>1, FileStays DEF Trail!vars
  <2>3. QED
    BY <1>2, <2>1, <2>2 DEF WholeFor
<1>4. CASE e \notin existing[f]
  <2>1. e = Len(file) + 1
    BY <1>1, <1>2, <1>4, AppendsNext
  <2>2. /\ file' = Append(file, e) /\ existing' = [existing EXCEPT ![f] = @ \cup {e}]
        /\ e # Torn
    BY <1>1, <1>2, <1>4, OutboxAssumption DEF AppendLine
  <2>3. Lines' = Lines \cup {e} /\ existing'[f] = existing[f] \cup {e}
    BY <1>2, <2>2, LinesOfAppend DEF TypeOK
  <2>4. e \in {e, Torn} /\ {} \in SUBSET {e} /\ unended' = unended \cup {}
    BY <1>2
  <2>5. /\ AuditLogIsPrefix' /\ [Trail!Next]_(Trail!vars)
        /\ (Joints # {} => Len(file) \notin unended)'
    BY <1>2, <2>1, <2>2, <2>4, Grow DEF WholeFor
  <2>6. QED
    BY <1>2, <2>2, <2>3, <2>5 DEF WholeFor
<1>5. QED
  BY <1>3, <1>4

(* A fault while no thread but the one at work holds the lock.             *)
LEMMA PrefixOfTear ==
  ASSUME OneProcess, PrefixInv, NEW fs \in SUBSET Flushers, Tear(fs), committed' = committed
  PROVE  /\ AuditLogIsPrefix' /\ [Trail!Next]_(Trail!vars)
         /\ \/ UNCHANGED <<file, unended>>
            \/ \E f \in fs : \A g \in Flushers \ {f} : pc[g] \notin Reading
<1>1. CASE UNCHANGED <<file, unended>>
  BY <1>1, FileStays DEF PrefixInv, PrefixOK, Trail!vars
<1>2. ASSUME Tears, NEW f \in fs, NEW e \in 1..committed, NEW left \in {e, Torn},
             pc[f] = "loop", IsNext(e, f), e \notin existing[f],
             file' = Append(file, left), unended' = unended \cup {Len(file) + 1}
      PROVE  /\ AuditLogIsPrefix' /\ [Trail!Next]_(Trail!vars)
             /\ \A g \in Flushers \ {f} : pc[g] \notin Reading
  <2>1. e = Len(file) + 1 /\ WholeFor(f)
    BY <1>2, AppendsNext DEF PrefixInv, PrefixOK, Reading
  <2>2. {e} \in SUBSET {e} /\ unended' = unended \cup {e}
    BY <1>2, <2>1
  <2>3. AuditLogIsPrefix' /\ [Trail!Next]_(Trail!vars)
    BY <1>2, <2>1, <2>2, Grow DEF WholeFor
  <2>4. \A g \in Flushers \ {f} : pc[g] \notin Reading
    BY <1>2, Alone DEF PrefixInv, DeliveredInv, Holding, Reading
  <2>5. QED
    BY <2>3, <2>4
<1>3. CASE ~UNCHANGED <<file, unended>>
  <2>1. TypeOK
    BY DEF PrefixInv, DeliveredInv
  <2>2. PICK f \in fs : \E e \in 1..committed :
          /\ Tears /\ pc[f] = "loop" /\ IsNext(e, f) /\ e \notin existing[f]
          /\ \E left \in {e, Torn} : file' = Append(file, left)
          /\ unended' = unended \cup {Len(file) + 1}
    BY <1>3, <2>1, TearCases
  <2>3. PICK e \in 1..committed : \E left \in {e, Torn} :
          /\ Tears /\ pc[f] = "loop" /\ IsNext(e, f) /\ e \notin existing[f]
          /\ file' = Append(file, left)
          /\ unended' = unended \cup {Len(file) + 1}
    BY <2>2
  <2>4. QED
    BY <1>2, <2>3
<1>4. QED
  BY <1>1, <1>3

(* After a fault the threads that go on have the file to themselves.       *)
LEMMA PrefixFault ==
  ASSUME OneProcess, PrefixInv, DeliveredInv', NEW fs \in SUBSET Flushers, Tear(fs),
         UNCHANGED <<committed, delivered, existing, rows>>,
         \A f \in Flushers : pc'[f] = pc[f] \/ pc'[f] = "idle",
         \A f \in fs : pc'[f] = "idle"
  PROVE  PrefixInv'
<1>1. /\ AuditLogIsPrefix'
      /\ \/ UNCHANGED <<file, unended>>
         \/ \E f \in fs : \A g \in Flushers \ {f} : pc[g] \notin Reading
  BY PrefixOfTear
<1>2. ASSUME NEW f \in Flushers, pc'[f] \in Reading PROVE WholeFor(f)'
  <2>1. pc[f] = pc'[f] /\ f \notin fs /\ WholeFor(f)
    BY <1>2 DEF PrefixInv, PrefixOK, Reading
  <2>2. UNCHANGED <<file, unended>>
    BY <1>1, <1>2, <2>1
  <2>3. QED
    BY <2>1, <2>2, FileStays DEF WholeFor
<1>3. ASSUME NEW f \in Flushers, pc'[f] \in {"loop", "mark"}
      PROVE  \A e \in rows'[f] : \A d \in 1..e : d \in rows'[f] \/ d \in delivered'
  BY <1>3 DEF PrefixInv, PrefixOK
<1>4. QED
  BY <1>1, <1>2, <1>3 DEF PrefixInv, PrefixOK

LEMMA PrefixNext == ASSUME OneProcess, PrefixInv, [Next]_vars PROVE PrefixInv'
<1>0. DeliveredInv' /\ TypeOK /\ TypeOK'
  BY DeliveredNext DEF PrefixInv, DeliveredInv
<1> USE DEF PrefixInv
<1>1. CASE UNCHANGED vars
  BY <1>0, <1>1, FileStays DEF vars, PrefixOK, WholeFor
<1>2. ASSUME NEW f \in Flushers, Commit(f) \/ Reopen(f) \/ Acquire(f) PROVE PrefixInv'
  <2>1. UNCHANGED <<file, unended>>
    BY <1>2 DEF Commit, Reopen, Acquire
  <2>2. QED
    BY <1>0, <1>2, <2>1, FileStays
       DEF Commit, Reopen, Acquire, Goto, TypeOK, PrefixOK, WholeFor, Reading
<1>3. ASSUME NEW f \in Flushers, ReadFile(f) PROVE PrefixInv'
  <2>1. UNCHANGED <<file, unended>>
    BY <1>3 DEF ReadFile
  <2>2. Spoiled = {} => Torn \notin Lines /\ Joints = {}
    BY <1>0, ReadIsWhole
  <2>3. QED
    BY <1>0, <1>3, <2>1, <2>2, FileStays
       DEF ReadFile, Leave, Goto, TypeOK, PrefixOK, WholeFor, Reading
<1>4. ASSUME NEW f \in Flushers, ReadRows(f) PROVE PrefixInv'
  <2>1. UNCHANGED <<file, unended>>
    BY <1>4 DEF ReadRows
  <2>2. \A e \in Undelivered : \A d \in 1..e : d \in Undelivered \/ d \in delivered
    BY <1>0 DEF Undelivered, TypeOK
  <2>3. QED
    BY <1>0, <1>4, <2>1, <2>2, FileStays
       DEF ReadRows, Goto, TypeOK, PrefixOK, WholeFor, Reading
<1>5. ASSUME NEW f \in Flushers, EndFlush(f) PROVE PrefixInv'
  <2>1. UNCHANGED <<file, unended>>
    BY <1>5 DEF EndFlush
  <2>2. QED
    BY <1>0, <1>5, <2>1, FileStays
       DEF EndFlush, Leave, Goto, TypeOK, PrefixOK, WholeFor, Reading
<1>6. ASSUME NEW f \in Flushers, AppendEvent(f) PROVE PrefixInv'
  <2>1. AuditLogIsPrefix' /\ WholeFor(f)'
    BY <1>6, PrefixOfAppend
  <2>2. /\ pc[f] = "loop" /\ pc' = [pc EXCEPT ![f] = "mark"]
        /\ UNCHANGED <<delivered, rows>>
    BY <1>6 DEF AppendEvent, Goto
  <2>3. \A g \in Flushers \ {f} : pc'[g] \notin Reading
    BY <1>0, <2>2, Alone DEF TypeOK, Holding, Reading
  <2>4. \A g \in Flushers : pc'[g] \in {"loop", "mark"} =>
          \A d \in rows'[g] : \A c \in 1..d : c \in rows'[g] \/ c \in delivered'
    BY <1>0, <2>2 DEF PrefixOK, TypeOK
  <2>5. QED
    BY <1>0, <2>1, <2>3, <2>4 DEF PrefixOK
<1>7. ASSUME NEW f \in Flushers, MarkDelivered(f) PROVE PrefixInv'
  <2>1. UNCHANGED <<file, unended, existing>>
    BY <1>7 DEF MarkDelivered
  <2>2. PICK e \in 1..committed :
          /\ delivered' = delivered \cup {e} /\ rows' = [rows EXCEPT ![f] = @ \ {e}]
    BY <1>7 DEF MarkDelivered
  <2>3. QED
    BY <1>0, <1>7, <2>1, <2>2, FileStays
       DEF MarkDelivered, Goto, TypeOK, PrefixOK, WholeFor, Reading
<1>8. ASSUME NEW f \in Flushers, Fail(f) PROVE PrefixInv'
  <2>1. /\ {f} \in SUBSET Flushers /\ Tear({f}) /\ pc' = [pc EXCEPT ![f] = "idle"]
        /\ UNCHANGED <<committed, delivered, existing, rows>>
    BY <1>8 DEF Fail, Leave, Goto
  <2>2. pc'[f] = "idle" /\ \A g \in Flushers : pc'[g] = pc[g] \/ pc'[g] = "idle"
    BY <1>0, <2>1 DEF TypeOK
  <2>3. QED
    BY <1>0, <2>1, <2>2, PrefixFault
<1>9. ASSUME NEW p \in Processes, Crash(p) PROVE PrefixInv'
  <2> DEFINE mine == {f \in Flushers : ProcessOf[f] = p}
  <2>1. /\ mine \in SUBSET Flushers /\ Tear(mine)
        /\ pc' = [f \in Flushers |-> IF f \in mine THEN "idle" ELSE pc[f]]
        /\ UNCHANGED <<committed, delivered, existing, rows>>
    BY <1>9 DEF Crash
  <2> HIDE DEF mine
  <2>2. /\ \A f \in Flushers : pc'[f] = pc[f] \/ pc'[f] = "idle"
        /\ \A f \in mine : pc'[f] = "idle"
    BY <2>1
  <2>3. QED
    BY <1>0, <2>1, <2>2, PrefixFault
<1>10. QED
  BY <1>1, <1>2, <1>3, <1>4, <1>5, <1>6, <1>7, <1>8, <1>9 DEF Next, Flush

LEMMA PrefixInit == Init => PrefixInv
<1> SUFFICES ASSUME Init PROVE PrefixInv
  OBVIOUS
<1>1. file = <<>> /\ unended = {} /\ \A f \in Flushers : pc[f] = "idle"
  BY DEF Init
<1>2. AuditLogIsPrefix
  BY <1>1 DEF AuditLogIsPrefix, Joints
<1>3. QED
  BY <1>1, <1>2, DeliveredInit DEF PrefixInv, PrefixOK, Reading

(* With one process the file is the committed events in order, each once:  *)
(* no crash, failed or torn write duplicates, drops or reorders one, and   *)
(* at most two of them, next to each other, are in a line that nobody can  *)
(* read.                                                                   *)
THEOREM LogIsPrefix ==
  ASSUME OneProcess PROVE Spec => []AuditLogIsPrefix
<1>1. PrefixInv /\ [Next]_vars => PrefixInv'
  BY PrefixNext
<1>2. PrefixInv => AuditLogIsPrefix
  BY DEF PrefixInv, PrefixOK
<1>3. QED
  BY PrefixInit, <1>1, <1>2, PTL DEF Spec

----------------------------------------------------------------------------
LEMMA TrailStep ==
  ASSUME OneProcess, PrefixInv, [Next]_vars PROVE [Trail!Next]_(Trail!vars)
<1>1. ASSUME NEW f \in Flushers, Commit(f) PROVE Trail!Change
  <2>1. UNCHANGED <<Published, Unreadable>>
    BY <1>1, FileStays DEF Commit
  <2>2. QED
    BY <1>1, <2>1 DEF Commit, Trail!Change
<1>2. ASSUME \/ UNCHANGED vars
             \/ \E f \in Flushers : \/ Reopen(f) \/ Acquire(f) \/ ReadFile(f) \/ ReadRows(f)
                                    \/ MarkDelivered(f) \/ EndFlush(f)
      PROVE  UNCHANGED Trail!vars
  <2>1. UNCHANGED <<committed, file, unended>>
    BY <1>2 DEF vars, Reopen, Acquire, ReadFile, ReadRows, MarkDelivered, EndFlush
  <2>2. QED
    BY <2>1, FileStays DEF Trail!vars
<1>3. ASSUME NEW f \in Flushers, AppendEvent(f) PROVE [Trail!Next]_(Trail!vars)
  BY <1>3, PrefixOfAppend
<1>4. ASSUME NEW f \in Flushers, Fail(f) PROVE [Trail!Next]_(Trail!vars)
  <2>1. {f} \in SUBSET Flushers /\ Tear({f}) /\ committed' = committed
    BY <1>4 DEF Fail
  <2>2. QED
    BY <2>1, PrefixOfTear
<1>5. ASSUME NEW p \in Processes, Crash(p) PROVE [Trail!Next]_(Trail!vars)
  <2>1. PICK fs \in SUBSET Flushers : Tear(fs) /\ committed' = committed
    BY <1>5 DEF Crash
  <2>2. QED
    BY <2>1, PrefixOfTear
<1>6. QED
  BY <1>1, <1>2, <1>3, <1>4, <1>5 DEF Next, Flush, Trail!Next

(* The event store of one process implements the audit trail: every step   *)
(* commits an event, publishes the next committed one, changes neither, or *)
(* is the one that spoils the end of the log for good.                     *)
THEOREM OutboxImplementsTrail ==
  ASSUME OneProcess PROVE Spec => ImplementsTrail
<1>1. Init => Trail!Init
  <2> SUFFICES ASSUME Init PROVE Trail!Init
    OBVIOUS
  <2>1. file = <<>> /\ committed = 0 /\ DOMAIN file = {}
    BY DEF Init
  <2>2. QED
    BY <2>1 DEF Trail!Init, Published, Unreadable, Spoiled
<1>2. PrefixInv /\ [Next]_vars => PrefixInv'
  BY PrefixNext
<1>3. PrefixInv /\ [Next]_vars => [Trail!Next]_(Trail!vars)
  BY TrailStep
<1>4. QED
  BY PrefixInit, <1>1, <1>2, <1>3, PTL DEF Spec, ImplementsTrail, Trail!Spec

----------------------------------------------------------------------------
(* Executor sessions.                                                      *)

(* What a row of executor_sessions and the step of execute() tell of the   *)
(* provider session: its uses are its continuations, its losses are its    *)
(* failures, but for what a fault has hidden and for what has no row yet.  *)
Newest == sessions[Len(sessions)]

RowsOK ==
  sessions # <<>> =>
    /\ Newest.handle <= handles
    /\ Newest.continuations <= MaxContinuations
    /\ Newest.failures <= RotateAfterFailures
    /\ uses[Newest.handle] <=
         Newest.continuations + 1 + sessionFaults + (IF at = "insert" THEN 1 ELSE 0)
    /\ losses[Newest.handle] <=
         Newest.failures + sessionFaults + (IF at \in {"insert", "failure"} THEN 1 ELSE 0)

(* What execute() knows between its steps.                                 *)
StepOK ==
  /\ at \in {"idle", "barrier", "latest"} =>
       chosen = 0 /\ worn = 0 /\ failures = 0
  /\ at = "invoke" =>
       \/ chosen = 0 /\ worn = 0 /\ failures = 0
       \/ /\ sessions # <<>> /\ chosen = Newest.handle
          /\ worn = Newest.continuations + 1 /\ failures = Newest.failures
          /\ worn <= MaxContinuations /\ failures < RotateAfterFailures
          /\ role = "implementer"
  /\ at = "insert" =>
       /\ chosen \in 1..handles
       /\ worn <= MaxContinuations /\ failures < RotateAfterFailures
       /\ uses[chosen] <= worn + 1 + sessionFaults
       /\ losses[chosen] <= failures + sessionFaults + (IF failed THEN 1 ELSE 0)
  /\ at \in {"failure", "complete"} => sessions # <<>> /\ Newest.attempt = attempt
  /\ at = "failure" => Newest.failures < RotateAfterFailures

ProviderOK ==
  \A h \in Handles : h > handles => uses[h] = 0 /\ losses[h] = 0

CancelOK ==
  /\ cat # "idle" => target \in 1..Len(sessions)
  /\ cat \in {"stop", "settle"} => sessions[target].attempt \in touched

(* An execution inserts one row at most.                                   *)
LengthOK ==
  /\ Len(sessions) <= executions
  /\ at \in {"barrier", "latest", "invoke", "insert"} => Len(sessions) < executions

(* An attempt that was answered, and that no cancel() has touched, still   *)
(* has its outcome; execute() is not at work on it.                        *)
AnswersOK ==
  /\ \A a \in answered : a <= attempt
  /\ attempt \in answered \ touched => at = "idle" /\ HasOutcome(attempt)

SessionsInv ==
  /\ SessionsTypeOK /\ RowsOK /\ StepOK /\ ProviderOK /\ CancelOK /\ LengthOK
  /\ AnswersOK /\ SessionsWearOut

LEMMA SessionsDomain ==
  ASSUME SessionsTypeOK
  PROVE  /\ Len(sessions) \in Nat /\ DOMAIN sessions = 1..Len(sessions)
         /\ sessions = <<>> <=> Len(sessions) = 0
         /\ \A i \in 1..Len(sessions) : sessions[i] \in Row
BY DEF SessionsTypeOK

(* What is written over a row leaves the others alone.                     *)
LEMMA RowWritten ==
  ASSUME SessionsTypeOK, NEW i \in 1..Len(sessions), NEW row \in Row,
         sessions' = [sessions EXCEPT ![i] = row]
  PROVE  /\ sessions' \in Seq(Row) /\ Len(sessions') = Len(sessions)
         /\ sessions'[i] = row
         /\ \A j \in 1..Len(sessions) : j # i => sessions'[j] = sessions[j]
BY DEF SessionsTypeOK

(* A step that writes at most the status of a row, or its outcome.         *)
SameRows ==
  /\ Len(sessions') = Len(sessions)
  /\ \A j \in 1..Len(sessions) :
       /\ sessions'[j].attempt = sessions[j].attempt
       /\ sessions'[j].handle = sessions[j].handle
       /\ sessions'[j].continuations = sessions[j].continuations
       /\ sessions'[j].failures = sessions[j].failures

LEMMA StatusWritten ==
  ASSUME SessionsTypeOK, NEW i \in 1..Len(sessions), NEW s \in Statuses,
         sessions' = [sessions EXCEPT ![i].status = s]
  PROVE  /\ sessions' \in Seq(Row) /\ SameRows
         /\ \A j \in 1..Len(sessions) : j # i => sessions'[j] = sessions[j]
<1> DEFINE row == [sessions[i] EXCEPT !.status = s]
<1>1. sessions[i] \in Row
  BY SessionsDomain
<1>2. /\ row \in Row
      /\ row.attempt = sessions[i].attempt /\ row.handle = sessions[i].handle
      /\ row.continuations = sessions[i].continuations /\ row.failures = sessions[i].failures
  BY <1>1 DEF Row
<1>3. sessions' = [sessions EXCEPT ![i] = row]
  OBVIOUS
<1> HIDE DEF row
<1>4. /\ sessions' \in Seq(Row) /\ Len(sessions') = Len(sessions)
      /\ sessions'[i] = row
      /\ \A j \in 1..Len(sessions) : j # i => sessions'[j] = sessions[j]
  BY <1>2, <1>3, RowWritten
<1>5. QED
  BY <1>2, <1>4 DEF SameRows

LEMMA RowAppended ==
  ASSUME SessionsTypeOK, NEW row \in Row, sessions' = Append(sessions, row)
  PROVE  /\ sessions' \in Seq(Row) /\ Len(sessions') = Len(sessions) + 1
         /\ Newest' = row
         /\ \A j \in 1..Len(sessions) : sessions'[j] = sessions[j]
BY DEF SessionsTypeOK, Newest

(* Nothing of the rows that the invariant speaks of changes.               *)
LEMMA SameNewest ==
  ASSUME SessionsTypeOK, SameRows
  PROVE  /\ sessions' = <<>> => sessions = <<>>
         /\ sessions # <<>> =>
              /\ Newest'.attempt = Newest.attempt /\ Newest'.handle = Newest.handle
              /\ Newest'.continuations = Newest.continuations
              /\ Newest'.failures = Newest.failures
<1>1. Len(sessions) \in Nat /\ (sessions = <<>> <=> Len(sessions) = 0)
  BY SessionsDomain
<1>2. sessions' = <<>> => Len(sessions') = 0
  OBVIOUS
<1>3. ASSUME sessions # <<>> PROVE Len(sessions) \in 1..Len(sessions)
  BY <1>1, <1>3
<1>4. QED
  BY <1>1, <1>2, <1>3 DEF SameRows, Newest

LEMMA SessionsInitInv == SessionsInit => SessionsInv
<1> SUFFICES ASSUME SessionsInit PROVE SessionsInv
  OBVIOUS
<1>1. /\ sessions \in Seq(Row) /\ role \in Roles
      /\ at \in ExecuteSteps /\ attempt \in Numbers
      /\ chosen \in Handles \cup {0} /\ worn \in Nat /\ failures \in Nat
  BY SessionsAssumption DEF SessionsInit, ExecuteSteps, Numbers
<1>4. /\ cat \in CancelSteps /\ target \in 0..MaxExecutions
      /\ handles \in 0..MaxExecutions
      /\ uses \in [Handles -> Nat] /\ losses \in [Handles -> Nat]
  BY SessionsAssumption DEF SessionsInit, CancelSteps
<1>5. /\ invoked \in [Numbers -> Nat]
      /\ answered \subseteq Numbers /\ touched \subseteq Numbers
      /\ executions \in 0..MaxExecutions /\ cancels \in 0..MaxCancels
      /\ sessionFaults \in 0..MaxSessionFaults
  BY SessionsAssumption DEF SessionsInit
<1>2. RowsOK /\ StepOK /\ ProviderOK /\ CancelOK /\ AnswersOK
  BY DEF SessionsInit, RowsOK, StepOK, ProviderOK, CancelOK, AnswersOK
<1>8. LengthOK
  BY DEF SessionsInit, LengthOK
<1>3. SessionsWearOut
  BY SessionsAssumption DEF SessionsInit, SessionsWearOut
<1>6. failed \in BOOLEAN /\ killed \in BOOLEAN
  BY DEF SessionsInit
<1>7. QED
  BY <1>1, <1>2, <1>3, <1>4, <1>5, <1>6, <1>8 DEF SessionsInv, SessionsTypeOK

(* The steps that leave the rows, the provider and the counts alone.       *)
LEMMA ExecuteKeeps ==
  ASSUME SessionsInv, NEW a \in Numbers, Execute(a) PROVE SessionsInv'
<1>1. SessionsTypeOK'
  <2>1. /\ SessionsTypeOK
        /\ attempt' \in Numbers /\ at' \in ExecuteSteps /\ executions' \in 0..MaxExecutions
        /\ answered' \subseteq Numbers
    BY SessionsAssumption DEF SessionsInv, SessionsTypeOK, Execute, ExecuteSteps
  <2>2. QED
    BY <2>1 DEF SessionsTypeOK, Execute, cancellation, provider
<1>2. RowsOK' /\ StepOK' /\ ProviderOK' /\ CancelOK' /\ SessionsWearOut'
  BY DEF SessionsInv, Execute, RowsOK, StepOK, ProviderOK, CancelOK, SessionsWearOut, Newest,
         cancellation, provider
<1>3. AnswersOK'
  <2>1. /\ attempt \in Nat /\ a \in Nat /\ answered \subseteq Nat /\ at = "idle" /\ attempt' = a
        /\ a = attempt \/ a = attempt + 1
        /\ sessions' = sessions /\ touched' = touched
        /\ \A b \in answered : b <= attempt
    BY DEF SessionsInv, SessionsTypeOK, Execute, AnswersOK, Numbers
  <2>2. CASE HasOutcome(a)
    <3>1. answered' = answered \cup {a} /\ at' = "idle"
      BY <2>1, <2>2 DEF Execute
    <3>2. HasOutcome(attempt)'
      BY <2>1, <2>2 DEF HasOutcome
    <3>3. \A b \in answered' : b <= attempt'
      BY <2>1, <3>1
    <3>4. QED
      BY <3>1, <3>2, <3>3 DEF AnswersOK
  <2>3. CASE ~HasOutcome(a)
    <3>1. a \notin answered \ touched
      BY <2>1, <2>3 DEF SessionsInv, AnswersOK
    <3>2. answered' = answered /\ \A b \in answered : b <= a
      BY <2>1, <2>3 DEF Execute
    <3>3. QED
      BY <2>1, <3>1, <3>2 DEF AnswersOK
  <2>4. QED
    BY <2>2, <2>3
<1>5. LengthOK'
  <2>1. Len(sessions) \in Nat /\ executions \in Nat
    BY SessionsDomain DEF SessionsInv, SessionsTypeOK
  <2>2. QED
    BY <2>1 DEF SessionsInv, LengthOK, Execute
<1>4. QED
  BY <1>1, <1>2, <1>3, <1>5 DEF SessionsInv

LEMMA CheckBarrierKeeps ==
  ASSUME SessionsInv, CheckBarrier PROVE SessionsInv'
<1>1. SessionsTypeOK'
  BY DEF SessionsInv, SessionsTypeOK, CheckBarrier, ExecuteSteps, cancellation, provider
<1>2. RowsOK' /\ StepOK' /\ ProviderOK' /\ CancelOK' /\ SessionsWearOut'
  BY DEF SessionsInv, CheckBarrier, RowsOK, StepOK, ProviderOK, CancelOK, SessionsWearOut,
         Newest, cancellation, provider
<1>3. AnswersOK' /\ LengthOK'
  BY DEF SessionsInv, CheckBarrier, AnswersOK, LengthOK, HasOutcome
<1>4. QED
  BY <1>1, <1>2, <1>3 DEF SessionsInv

LEMMA ChooseSessionKeeps ==
  ASSUME SessionsInv, ChooseSession PROVE SessionsInv'
<1>0. /\ SessionsTypeOK /\ at = "latest" /\ at' = "invoke" /\ chosen = 0 /\ worn = 0 /\ failures = 0
      /\ UNCHANGED <<role, attempt, executions, failed, cancellation, provider, answered,
                     touched, cancels, sessionFaults>>
  BY DEF SessionsInv, ChooseSession, StepOK
<1>1. CASE sessions = <<>> \/ ShouldRotate(Newest)
  <2>1. UNCHANGED <<chosen, worn, failures>>
    BY <1>1 DEF ChooseSession, Last, Newest
  <2>2. SameRows /\ sessions' \in Seq(Row)
    <3>1. CASE sessions = <<>>
      BY <3>1, <1>0 DEF ChooseSession, SameRows, SessionsTypeOK
    <3>2. CASE sessions # <<>>
      <4>1. sessions' = [sessions EXCEPT ![Len(sessions)].status = "rotated"]
        BY <3>2, <1>1 DEF ChooseSession, Last, Newest
      <4>2. Len(sessions) \in 1..Len(sessions)
        BY <1>0, <3>2, SessionsDomain
      <4>3. QED
        BY <1>0, <4>1, <4>2, StatusWritten DEF Statuses
    <3>3. QED
      BY <3>1, <3>2
  <2>3. SessionsTypeOK'
    BY <1>0, <2>1, <2>2 DEF SessionsTypeOK, ExecuteSteps, cancellation, provider
  <2>4. RowsOK'
    <3>1. sessions' # <<>> => sessions # <<>>
      BY <1>0, <2>2, SessionsDomain DEF SameRows
    <3>2. QED
      BY <1>0, <2>2, <3>1, SameNewest DEF SessionsInv, RowsOK, provider
  <2>8. StepOK'
    BY <1>0, <2>1 DEF StepOK
  <2>5. ProviderOK' /\ SessionsWearOut' /\ AnswersOK'
    BY <1>0 DEF SessionsInv, ProviderOK, SessionsWearOut, AnswersOK, provider
  <2>6. CancelOK' /\ LengthOK'
    BY <1>0, <2>2 DEF SessionsInv, CancelOK, LengthOK, SameRows, cancellation
  <2>7. QED
    BY <2>3, <2>4, <2>5, <2>6, <2>8 DEF SessionsInv
<1>2. CASE sessions # <<>> /\ ~ShouldRotate(Newest)
  <2>1. /\ chosen' = Newest.handle /\ worn' = Newest.continuations + 1
        /\ failures' = Newest.failures /\ UNCHANGED sessions
    BY <1>2 DEF ChooseSession, Last, Newest
  <2>2. /\ Newest.handle \in Handles /\ Newest.continuations \in Nat
        /\ Newest.failures \in Nat
    BY <1>0, <1>2, SessionsDomain DEF Newest, Row
  <2>7. /\ ~(Newest.continuations >= MaxContinuations)
        /\ ~(Newest.failures >= RotateAfterFailures) /\ role = "implementer"
    BY <1>2 DEF ShouldRotate
  <2>8. MaxContinuations \in Nat /\ RotateAfterFailures \in Nat
    BY SessionsAssumption
  <2>3. /\ worn' <= MaxContinuations /\ failures' < RotateAfterFailures
        /\ role = "implementer"
    BY <2>1, <2>2, <2>7, <2>8
  <2>4. SessionsTypeOK'
    <3>1. chosen' \in Handles \cup {0} /\ worn' \in Nat /\ failures' \in Nat
      BY <2>1, <2>2
    <3>2. QED
      BY <1>0, <2>1, <3>1 DEF SessionsTypeOK, ExecuteSteps, cancellation, provider
  <2>5. /\ RowsOK' /\ StepOK' /\ ProviderOK' /\ SessionsWearOut' /\ AnswersOK' /\ CancelOK'
        /\ LengthOK'
    BY <1>0, <1>2, <2>1, <2>3
       DEF SessionsInv, LengthOK, RowsOK, StepOK, ProviderOK, SessionsWearOut, AnswersOK, CancelOK,
           Newest, provider, cancellation
  <2>6. QED
    BY <2>4, <2>5 DEF SessionsInv
<1>3. QED
  BY <1>1, <1>2

(* What the provider does in session h, which is the latest one or new.    *)
LEMMA WorksCounts ==
  ASSUME SessionsInv, NEW h \in Handles, NEW ok \in BOOLEAN, Works(h, ok)
  PROVE  /\ handles' = IF h > handles THEN h ELSE handles
         /\ handles' \in 0..MaxExecutions /\ handles <= handles' /\ h <= handles'
         /\ uses' \in [Handles -> Nat] /\ losses' \in [Handles -> Nat]
         /\ invoked' \in [Numbers -> Nat]
         /\ \A g \in Handles : uses'[g] = IF g = h THEN uses[g] + 1 ELSE uses[g]
         /\ \A g \in Handles : losses'[g] = IF g = h /\ ~ok THEN losses[g] + 1 ELSE losses[g]
         /\ \A a \in Numbers \ {attempt} : invoked'[a] = invoked[a]
<1>1. /\ handles' = IF h > handles THEN h ELSE handles
      /\ handles \in 0..MaxExecutions /\ h \in 1..MaxExecutions
  BY DEF Works, SessionsInv, SessionsTypeOK, Handles
<1>2. /\ handles' \in 0..MaxExecutions /\ handles <= handles' /\ h <= handles'
  BY <1>1, SessionsAssumption
<1>3. /\ uses' \in [Handles -> Nat]
      /\ \A g \in Handles : uses'[g] = IF g = h THEN uses[g] + 1 ELSE uses[g]
  BY DEF Works, SessionsInv, SessionsTypeOK
<1>4. /\ losses' \in [Handles -> Nat]
      /\ \A g \in Handles : losses'[g] = IF g = h /\ ~ok THEN losses[g] + 1 ELSE losses[g]
  BY DEF Works, SessionsInv, SessionsTypeOK
<1>5. /\ invoked' \in [Numbers -> Nat]
      /\ \A a \in Numbers \ {attempt} : invoked'[a] = invoked[a]
  BY DEF Works, SessionsInv, SessionsTypeOK
<1>6. QED
  BY <1>1, <1>2, <1>3, <1>4, <1>5

(* The session an executor is about to work in is worn no further than     *)
(* the policy allows, or new.                                              *)
LEMMA InvokedCounts ==
  ASSUME SessionsInv, at = "invoke", NEW h \in Handles, NEW ok \in BOOLEAN, Works(h, ok),
         h = IF chosen = 0 THEN handles + 1 ELSE chosen
  PROVE  /\ ProviderOK'
         /\ worn <= MaxContinuations /\ failures < RotateAfterFailures
         /\ uses'[h] <= worn + 1 + sessionFaults
         /\ losses'[h] <= failures + sessionFaults + (IF ok THEN 0 ELSE 1)
         /\ \A g \in Handles : uses'[g] <= MaxContinuations + 1 + sessionFaults
         /\ \A g \in Handles : losses'[g] <= RotateAfterFailures + sessionFaults
         /\ role = "reviewer" => \A g \in Handles : uses'[g] <= 1
         /\ sessions # <<>> =>
              /\ uses'[Newest.handle] <= Newest.continuations + 1 + sessionFaults + 1
              /\ losses'[Newest.handle] <= Newest.failures + sessionFaults + 1
              /\ Newest.handle <= handles'
<1>1. /\ uses \in [Handles -> Nat] /\ losses \in [Handles -> Nat] /\ sessionFaults \in Nat
      /\ handles \in Nat /\ Handles \subseteq Nat /\ worn \in Nat /\ failures \in Nat
      /\ MaxContinuations \in Nat /\ RotateAfterFailures \in Nat \ {0}
  BY SessionsAssumption DEF SessionsInv, SessionsTypeOK, Handles
<1>2. /\ \A g \in Handles : uses'[g] = IF g = h THEN uses[g] + 1 ELSE uses[g]
      /\ \A g \in Handles : losses'[g] = IF g = h /\ ~ok THEN losses[g] + 1 ELSE losses[g]
      /\ handles' = IF h > handles THEN h ELSE handles
      /\ handles <= handles'
  BY WorksCounts
<1>3. sessions # <<>> =>
        /\ Newest.handle \in Handles /\ Newest.continuations \in Nat /\ Newest.failures \in Nat
        /\ Newest.handle <= handles /\ Newest.continuations <= MaxContinuations
        /\ Newest.failures <= RotateAfterFailures
        /\ uses[Newest.handle] <= Newest.continuations + 1 + sessionFaults
        /\ losses[Newest.handle] <= Newest.failures + sessionFaults
  <2>1. ASSUME sessions # <<>> PROVE Newest \in Row
    BY <2>1, SessionsDomain DEF SessionsInv, Newest
  <2>2. QED
    BY <2>1, <1>1 DEF SessionsInv, RowsOK, Row
<1>8. \A g \in Handles :
        /\ uses[g] \in Nat /\ uses'[g] \in Nat /\ uses'[g] <= uses[g] + 1
        /\ losses[g] \in Nat /\ losses'[g] \in Nat /\ losses'[g] <= losses[g] + 1
  BY <1>1, <1>2
<1>9. sessions # <<>> =>
        /\ uses'[Newest.handle] <= Newest.continuations + 1 + sessionFaults + 1
        /\ losses'[Newest.handle] <= Newest.failures + sessionFaults + 1
        /\ Newest.handle <= handles'
  <2> SUFFICES ASSUME sessions # <<>>
               PROVE  /\ uses'[Newest.handle] <= Newest.continuations + 1 + sessionFaults + 1
                      /\ losses'[Newest.handle] <= Newest.failures + sessionFaults + 1
                      /\ Newest.handle <= handles'
    OBVIOUS
  <2>1. PICK n \in Handles, c \in Nat, l \in Nat :
          n = Newest.handle /\ c = Newest.continuations /\ l = Newest.failures
    BY <1>3
  <2>2. /\ uses[n] \in Nat /\ uses'[n] \in Nat /\ uses'[n] <= uses[n] + 1
        /\ losses[n] \in Nat /\ losses'[n] \in Nat /\ losses'[n] <= losses[n] + 1
    BY <1>8
  <2>3. /\ n <= handles /\ n \in Nat /\ handles' \in Nat
        /\ uses[n] <= c + 1 + sessionFaults
        /\ losses[n] <= l + sessionFaults
    BY <1>1, <1>2, <1>3, <2>1
  <2>4. uses'[n] <= c + 1 + sessionFaults + 1
    BY <1>1, <2>2, <2>3
  <2>5. losses'[n] <= l + sessionFaults + 1
    BY <1>1, <2>2, <2>3
  <2>6. n <= handles'
    BY <1>1, <1>2, <2>3
  <2>7. QED
    BY <2>1, <2>4, <2>5, <2>6
<1>4. ProviderOK'
  BY <1>1, <1>2 DEF SessionsInv, ProviderOK
<1>5. CASE chosen = 0
  <2>1. /\ worn = 0 /\ failures = 0 /\ h = handles + 1 /\ uses[h] = 0 /\ losses[h] = 0
    BY <1>1, <1>3, <1>5 DEF SessionsInv, StepOK, ProviderOK, Handles
  <2>2. /\ uses'[h] = 1 /\ losses'[h] = IF ok THEN 0 ELSE 1
    BY <2>1, <1>2
  <2>3. /\ \A g \in Handles : uses'[g] <= MaxContinuations + 1 + sessionFaults
        /\ \A g \in Handles : losses'[g] <= RotateAfterFailures + sessionFaults
        /\ role = "reviewer" => \A g \in Handles : uses'[g] <= 1
    BY <1>1, <1>2, <2>2 DEF SessionsInv, SessionsWearOut
  <2>4. QED
    BY <1>1, <1>4, <1>9, <2>1, <2>2, <2>3
<1>6. CASE chosen # 0
  <2>1. /\ sessions # <<>> /\ h = Newest.handle
        /\ worn = Newest.continuations + 1 /\ failures = Newest.failures
        /\ worn <= MaxContinuations /\ failures < RotateAfterFailures
        /\ role = "implementer"
    BY <1>6 DEF SessionsInv, StepOK
  <2>2. uses[h] <= worn + sessionFaults /\ losses[h] <= failures + sessionFaults
    BY <1>1, <1>3, <2>1
  <2>5. uses'[h] <= worn + 1 + sessionFaults
    BY <1>1, <1>8, <2>2
  <2>6. losses'[h] <= failures + sessionFaults + (IF ok THEN 0 ELSE 1)
    <3>1. losses'[h] = IF ok THEN losses[h] ELSE losses[h] + 1
      BY <1>2
    <3>2. QED
      BY <1>1, <1>8, <2>2, <3>1
  <2>3. /\ \A g \in Handles : uses'[g] <= MaxContinuations + 1 + sessionFaults
        /\ \A g \in Handles : losses'[g] <= RotateAfterFailures + sessionFaults
    <3>1. /\ \A g \in Handles : g # h => uses'[g] = uses[g] /\ losses'[g] = losses[g]
          /\ \A g \in Handles : uses[g] <= MaxContinuations + 1 + sessionFaults
          /\ \A g \in Handles : losses[g] <= RotateAfterFailures + sessionFaults
      BY <1>2 DEF SessionsInv, SessionsWearOut
    <3>4. uses'[h] \in Nat /\ losses'[h] \in Nat /\ losses[h] \in Nat /\ losses'[h] <= losses[h] + 1
      BY <1>8
    <3>5. worn <= MaxContinuations /\ failures + 1 <= RotateAfterFailures
      BY <1>1, <2>1
    <3>2. /\ uses'[h] <= MaxContinuations + 1 + sessionFaults
          /\ losses'[h] <= RotateAfterFailures + sessionFaults
      BY <1>1, <2>2, <2>5, <3>4, <3>5
    <3>3. QED
      BY <3>1, <3>2
  <2>4. QED
    <3>1. role # "reviewer"
      BY <2>1
    <3>2. QED
      BY <1>4, <1>9, <2>1, <2>5, <2>6, <2>3, <3>1
<1>7. QED
  BY <1>5, <1>6

LEMMA InvokeKeeps ==
  ASSUME SessionsInv, Invoke PROVE SessionsInv'
<1> DEFINE h == IF chosen = 0 THEN handles + 1 ELSE chosen
<1>1. PICK ok \in BOOLEAN : Works(h, ok) /\ chosen' = h /\ failed' = ~ok
  BY DEF Invoke
<1>2. /\ SessionsTypeOK /\ at = "invoke" /\ at' = "insert" /\ h \in Handles
      /\ UNCHANGED <<sessions, role, attempt, executions, worn, failures, cancellation,
                     answered, touched, cancels, sessionFaults>>
  BY <1>1 DEF Invoke, Works, SessionsInv
<1> HIDE DEF h
<1>3. /\ handles' = (IF h > handles THEN h ELSE handles)
      /\ handles' \in 0..MaxExecutions /\ h <= handles'
      /\ uses' \in [Handles -> Nat] /\ losses' \in [Handles -> Nat]
      /\ invoked' \in [Numbers -> Nat]
  BY <1>1, <1>2, WorksCounts
<1>4. /\ ProviderOK'
      /\ worn <= MaxContinuations /\ failures < RotateAfterFailures
      /\ uses'[h] <= worn + 1 + sessionFaults
      /\ losses'[h] <= failures + sessionFaults + (IF ok THEN 0 ELSE 1)
      /\ \A g \in Handles : uses'[g] <= MaxContinuations + 1 + sessionFaults
      /\ \A g \in Handles : losses'[g] <= RotateAfterFailures + sessionFaults
      /\ role = "reviewer" => \A g \in Handles : uses'[g] <= 1
      /\ sessions # <<>> =>
           /\ uses'[Newest.handle] <= Newest.continuations + 1 + sessionFaults + 1
           /\ losses'[Newest.handle] <= Newest.failures + sessionFaults + 1
           /\ Newest.handle <= handles'
  BY <1>1, <1>2, InvokedCounts DEF h
<1>5. SessionsTypeOK'
  BY <1>1, <1>2, <1>3 DEF SessionsTypeOK, ExecuteSteps, cancellation
<1>6. SessionsWearOut'
  BY <1>2, <1>4 DEF SessionsWearOut
<1>7. RowsOK'
  BY <1>2, <1>4 DEF SessionsInv, RowsOK, Newest
<1>8. h \in 1..handles'
  BY <1>2, <1>3 DEF Handles
<1>9. losses'[h] <= failures' + sessionFaults' + (IF failed' THEN 1 ELSE 0)
  BY <1>1, <1>2, <1>4
<1>10. StepOK'
  BY <1>1, <1>2, <1>4, <1>8, <1>9 DEF StepOK
<1>11. CancelOK' /\ AnswersOK' /\ LengthOK'
  BY <1>2 DEF SessionsInv, CancelOK, AnswersOK, LengthOK, cancellation
<1>12. QED
  BY <1>4, <1>5, <1>6, <1>7, <1>10, <1>11 DEF SessionsInv

LEMMA InvokeRaisesKeeps ==
  ASSUME SessionsInv, InvokeRaises PROVE SessionsInv'
<1> DEFINE h == IF chosen = 0 THEN handles + 1 ELSE chosen
<1>1. PICK ok \in BOOLEAN : Works(h, ok)
  BY DEF InvokeRaises
<1>2. /\ SessionsTypeOK /\ at = "invoke" /\ at' = "idle" /\ h \in Handles
      /\ chosen' = 0 /\ worn' = 0 /\ failures' = 0 /\ failed' = FALSE
      /\ sessionFaults' = sessionFaults + 1 /\ sessionFaults < MaxSessionFaults
      /\ UNCHANGED <<sessions, role, attempt, executions, cancellation, answered, touched, cancels>>
  BY <1>1 DEF InvokeRaises, ExecuteReturns, Works, SessionsInv
<1> HIDE DEF h
<1>3. /\ handles' \in 0..MaxExecutions
      /\ uses' \in [Handles -> Nat] /\ losses' \in [Handles -> Nat]
      /\ invoked' \in [Numbers -> Nat]
  BY <1>1, <1>2, WorksCounts
<1>4. /\ ProviderOK'
      /\ \A g \in Handles : uses'[g] <= MaxContinuations + 1 + sessionFaults
      /\ \A g \in Handles : losses'[g] <= RotateAfterFailures + sessionFaults
      /\ role = "reviewer" => \A g \in Handles : uses'[g] <= 1
      /\ sessions # <<>> =>
           /\ uses'[Newest.handle] <= Newest.continuations + 1 + sessionFaults + 1
           /\ losses'[Newest.handle] <= Newest.failures + sessionFaults + 1
           /\ Newest.handle <= handles'
  BY <1>1, <1>2, InvokedCounts DEF h
<1>5. /\ MaxContinuations \in Nat /\ RotateAfterFailures \in Nat /\ sessionFaults \in Nat
      /\ MaxSessionFaults \in Nat
  BY <1>2, SessionsAssumption DEF SessionsTypeOK
<1>6. SessionsTypeOK'
  <2>1. sessionFaults' \in 0..MaxSessionFaults
    BY <1>2, <1>5
  <2>2. QED
    BY <1>2, <1>3, <2>1 DEF SessionsTypeOK, ExecuteSteps, cancellation
<1>7. SessionsWearOut'
  <2>1. \A g \in Handles : uses'[g] <= MaxContinuations + 1 + sessionFaults'
    BY <1>2, <1>3, <1>4, <1>5
  <2>2. \A g \in Handles : losses'[g] <= RotateAfterFailures + sessionFaults'
    BY <1>2, <1>3, <1>4, <1>5
  <2>3. QED
    BY <1>2, <1>4, <2>1, <2>2 DEF SessionsWearOut
<1>8. RowsOK'
  <2> SUFFICES ASSUME sessions # <<>> PROVE RowsOK'
    BY <1>2 DEF RowsOK
  <2>1. PICK n \in Handles, c \in Nat, l \in Nat :
          n = Newest.handle /\ c = Newest.continuations /\ l = Newest.failures
    <3>1. Newest \in Row
      BY <1>2, SessionsDomain DEF Newest
    <3>2. QED
      BY <3>1 DEF Row
  <2>7. /\ uses'[n] \in Nat /\ uses'[n] <= c + 1 + sessionFaults + 1
        /\ losses'[n] \in Nat /\ losses'[n] <= l + sessionFaults + 1
    BY <1>3, <1>4, <2>1
  <2>2. /\ uses'[n] <= c + 1 + sessionFaults' /\ losses'[n] <= l + sessionFaults'
    BY <1>2, <1>5, <2>7
  <2>3. /\ n <= handles' /\ c <= MaxContinuations /\ l <= RotateAfterFailures
    BY <1>4, <2>1 DEF SessionsInv, RowsOK
  <2>4. /\ Newest' = Newest /\ at' \notin {"insert", "failure"}
    BY <1>2 DEF Newest
  <2>5. (c + 1 + sessionFaults') + 0 = c + 1 + sessionFaults' /\ (l + sessionFaults') + 0 = l + sessionFaults'
    BY <1>2, <1>5, <2>1
  <2>6. QED
    BY <2>1, <2>2, <2>3, <2>4, <2>5 DEF RowsOK
<1>9. StepOK' /\ CancelOK' /\ AnswersOK' /\ LengthOK'
  BY <1>2 DEF SessionsInv, StepOK, CancelOK, AnswersOK, LengthOK, HasOutcome, cancellation
<1>10. QED
  BY <1>4, <1>6, <1>7, <1>8, <1>9 DEF SessionsInv

LEMMA InsertKeeps ==
  ASSUME SessionsInv, Insert PROVE SessionsInv'
<1> DEFINE row == [attempt |-> attempt, handle |-> chosen, continuations |-> worn,
                   failures |-> failures, status |-> "running", outcome |-> FALSE]
<1>1. /\ SessionsTypeOK /\ at = "insert" /\ at' = IF failed THEN "failure" ELSE "complete"
      /\ sessions' = Append(sessions, row)
      /\ UNCHANGED <<role, attempt, executions, chosen, worn, failures, failed, cancellation,
                     provider, answered, touched, cancels, sessionFaults>>
  BY DEF Insert, SessionsInv
<1>2. /\ chosen \in 1..handles /\ worn <= MaxContinuations /\ failures < RotateAfterFailures
      /\ uses[chosen] <= worn + 1 + sessionFaults
      /\ losses[chosen] <= failures + sessionFaults + (IF failed THEN 1 ELSE 0)
  BY <1>1 DEF SessionsInv, StepOK
<1>3. /\ chosen \in Handles /\ chosen \in Nat /\ handles \in Nat /\ worn \in Nat
      /\ failures \in Nat /\ RotateAfterFailures \in Nat /\ failed \in BOOLEAN
      /\ uses[chosen] \in Nat /\ losses[chosen] \in Nat /\ sessionFaults \in Nat
  BY <1>1, <1>2, SessionsAssumption DEF SessionsTypeOK, Handles
<1>4. /\ row \in Row /\ row.attempt = attempt /\ row.handle = chosen
      /\ row.continuations = worn /\ row.failures = failures
  BY <1>1, <1>3 DEF SessionsTypeOK, Row, Statuses
<1> HIDE DEF row
<1>5. /\ sessions' \in Seq(Row) /\ Len(sessions') = Len(sessions) + 1
      /\ Newest' = row
      /\ \A j \in 1..Len(sessions) : sessions'[j] = sessions[j]
  BY <1>1, <1>4, RowAppended
<1>6. SessionsTypeOK'
  BY <1>1, <1>5 DEF SessionsTypeOK, ExecuteSteps, cancellation, provider
<1>7. RowsOK'
  <2>1. at' # "insert" /\ (at' \in {"insert", "failure"} <=> failed)
    BY <1>1, <1>3
  <2>2. chosen <= handles /\ failures <= RotateAfterFailures
    BY <1>2, <1>3
  <2>3. uses[chosen] <= worn + 1 + sessionFaults + 0
    BY <1>2, <1>3
  <2>4. QED
    BY <1>1, <1>2, <1>4, <1>5, <2>1, <2>2, <2>3 DEF RowsOK, provider
<1>8. sessions' # <<>>
  BY <1>1, <1>5, SessionsDomain
<1>9. StepOK'
  BY <1>1, <1>2, <1>4, <1>5, <1>8 DEF StepOK
<1>10. CancelOK'
  <2>1. cat \in {"stop", "settle"} => cat # "idle"
    OBVIOUS
  <2>2. cat # "idle" => target \in 1..Len(sessions) /\ target \in 1..Len(sessions')
    BY <1>1, <1>5, SessionsDomain DEF SessionsInv, CancelOK
  <2>3. QED
    BY <1>1, <1>5, <2>1, <2>2 DEF SessionsInv, CancelOK, cancellation
<1>11. ProviderOK' /\ SessionsWearOut' /\ AnswersOK'
  BY <1>1 DEF SessionsInv, ProviderOK, SessionsWearOut, AnswersOK, provider
<1>13. LengthOK'
  <2>1. Len(sessions) \in Nat /\ executions \in Nat /\ Len(sessions) < executions
    BY <1>1, SessionsDomain DEF SessionsInv, LengthOK, SessionsTypeOK
  <2>2. QED
    BY <1>1, <1>5, <2>1 DEF LengthOK
<1>12. QED
  BY <1>6, <1>7, <1>9, <1>10, <1>11, <1>13 DEF SessionsInv

LEMMA RecordFailureKeeps ==
  ASSUME SessionsInv, RecordFailure PROVE SessionsInv'
<1> DEFINE n == Len(sessions)
           row == [Newest EXCEPT !.failures = @ + 1]
<1>1. /\ SessionsTypeOK /\ at = "failure" /\ at' = "complete"
      /\ sessions' = [sessions EXCEPT ![n].failures = @ + 1]
      /\ UNCHANGED <<role, attempt, executions, chosen, worn, failures, failed, cancellation,
                     provider, answered, touched, cancels, sessionFaults>>
  BY DEF RecordFailure, SessionsInv
<1>2. sessions # <<>> /\ Newest.attempt = attempt /\ Newest.failures < RotateAfterFailures
  BY <1>1 DEF SessionsInv, StepOK
<1>3. n \in 1..n /\ Newest \in Row
  BY <1>1, <1>2, SessionsDomain DEF Newest
<1>4. /\ row \in Row /\ row.attempt = attempt /\ row.handle = Newest.handle
      /\ row.continuations = Newest.continuations /\ row.failures = Newest.failures + 1
      /\ Newest.failures \in Nat /\ Newest.continuations \in Nat /\ Newest.handle \in Handles
  BY <1>2, <1>3 DEF Row
<1>5. sessions' = [sessions EXCEPT ![n] = row]
  BY <1>1 DEF Newest
<1> HIDE DEF row
<1>6. /\ sessions' \in Seq(Row) /\ Len(sessions') = n /\ sessions'[n] = row
      /\ \A j \in 1..n : j # n => sessions'[j] = sessions[j]
  BY <1>1, <1>3, <1>4, <1>5, RowWritten
<1>7. Newest' = row /\ sessions' # <<>>
  BY <1>3, <1>6 DEF Newest
<1>8. SessionsTypeOK'
  BY <1>1, <1>6 DEF SessionsTypeOK, ExecuteSteps, cancellation, provider
<1>9. RowsOK'
  <2>1. RotateAfterFailures \in Nat /\ sessionFaults \in Nat /\ losses[Newest.handle] \in Nat
    BY <1>1, <1>4, SessionsAssumption DEF SessionsTypeOK
  <2>2. row.failures <= RotateAfterFailures
    BY <1>2, <1>4, <2>1
  <2>3. /\ Newest.handle <= handles /\ Newest.continuations <= MaxContinuations
        /\ uses[Newest.handle] <= Newest.continuations + 1 + sessionFaults + 0
        /\ losses[Newest.handle] <= Newest.failures + sessionFaults + 1
    BY <1>1, <1>2 DEF SessionsInv, RowsOK
  <2>4. losses[Newest.handle] <= row.failures + sessionFaults + 0
    BY <1>4, <2>1, <2>3
  <2>5. at' \notin {"insert", "failure"}
    BY <1>1
  <2>6. QED
    BY <1>1, <1>4, <1>7, <2>2, <2>3, <2>4, <2>5 DEF RowsOK, provider
<1>10. StepOK'
  BY <1>1, <1>4, <1>7 DEF StepOK
<1>11. CancelOK'
  BY <1>1, <1>2, <1>3, <1>4, <1>6 DEF SessionsInv, CancelOK, cancellation, Newest
<1>12. ProviderOK' /\ SessionsWearOut' /\ AnswersOK'
  BY <1>1 DEF SessionsInv, ProviderOK, SessionsWearOut, AnswersOK, provider
<1>14. LengthOK'
  BY <1>1, <1>6 DEF SessionsInv, LengthOK
<1>13. QED
  BY <1>8, <1>9, <1>10, <1>11, <1>12, <1>14 DEF SessionsInv

(* The rows as the invariant speaks of them, for the steps that write the  *)
(* status of a row and leave the provider alone.                           *)
LEMMA StatusKeeps ==
  ASSUME SessionsInv, SameRows, UNCHANGED <<attempt, executions, provider, role, sessionFaults>>,
         \/ at' = at /\ UNCHANGED <<chosen, worn, failures, failed>>
         \/ at = "complete" /\ at' = "idle" /\ chosen' = 0 /\ worn' = 0 /\ failures' = 0
  PROVE  RowsOK' /\ StepOK' /\ ProviderOK' /\ LengthOK' /\ SessionsWearOut'
<1>1. SessionsTypeOK
  BY DEF SessionsInv
<1>2. sessions' # <<>> <=> sessions # <<>>
  BY <1>1, SessionsDomain DEF SameRows
<1>3. sessions # <<>> =>
        /\ Newest'.attempt = Newest.attempt /\ Newest'.handle = Newest.handle
        /\ Newest'.continuations = Newest.continuations
        /\ Newest'.failures = Newest.failures
  BY <1>1, SameNewest
<1>4. ProviderOK' /\ SessionsWearOut'
  BY DEF SessionsInv, ProviderOK, SessionsWearOut, provider
<1>5. RowsOK'
  BY <1>2, <1>3 DEF SessionsInv, RowsOK, provider
<1>6. StepOK'
  BY <1>2, <1>3 DEF SessionsInv, StepOK, provider
<1>7. LengthOK'
  BY DEF SessionsInv, LengthOK, SameRows
<1>8. QED
  BY <1>4, <1>5, <1>6, <1>7

LEMMA CompleteKeeps ==
  ASSUME SessionsInv, Complete PROVE SessionsInv'
<1> DEFINE n == Len(sessions)
           row == [Newest EXCEPT !.status = "completed", !.outcome = TRUE]
<1>1. /\ SessionsTypeOK /\ at = "complete" /\ at' = "idle"
      /\ chosen' = 0 /\ worn' = 0 /\ failures' = 0 /\ failed' = FALSE
      /\ sessions' = [sessions EXCEPT ![n].status = "completed", ![n].outcome = TRUE]
      /\ answered' = answered \cup {attempt}
      /\ UNCHANGED <<role, attempt, executions, cancellation, provider, touched, cancels,
                     sessionFaults>>
  BY DEF Complete, ExecuteReturns, SessionsInv
<1>2. sessions # <<>> /\ Newest.attempt = attempt
  BY <1>1 DEF SessionsInv, StepOK
<1>3. n \in 1..n /\ Newest \in Row /\ DOMAIN sessions = 1..n
  BY <1>1, <1>2, SessionsDomain DEF Newest
<1>4. /\ row \in Row /\ row.attempt = attempt /\ row.handle = Newest.handle
      /\ row.continuations = Newest.continuations /\ row.failures = Newest.failures
      /\ row.status = "completed" /\ row.outcome
  BY <1>2, <1>3 DEF Row, Statuses
<1>5. sessions' = [sessions EXCEPT ![n] = row]
  BY <1>1, <1>3 DEF Newest
<1> HIDE DEF row
<1>6. /\ sessions' \in Seq(Row) /\ Len(sessions') = n /\ sessions'[n] = row
      /\ \A j \in 1..n : j # n => sessions'[j] = sessions[j]
  BY <1>1, <1>3, <1>4, <1>5, RowWritten
<1>7. SameRows
  BY <1>2, <1>4, <1>6 DEF SameRows, Newest
<1>8. SessionsTypeOK'
  BY <1>1, <1>6 DEF SessionsTypeOK, ExecuteSteps, cancellation, provider
<1>9. RowsOK' /\ StepOK' /\ ProviderOK' /\ LengthOK' /\ SessionsWearOut'
  BY <1>1, <1>7, StatusKeeps
<1>10. CancelOK'
  BY <1>1, <1>7 DEF SessionsInv, CancelOK, SameRows, cancellation
<1>11. AnswersOK'
  <2>1. DOMAIN sessions' = 1..n /\ attempt \in Nat
    BY <1>1, <1>6 DEF SessionsTypeOK, Numbers
  <2>2. HasOutcome(attempt)'
    BY <1>1, <1>3, <1>4, <1>6, <2>1 DEF HasOutcome
  <2>3. QED
    BY <1>1, <2>1, <2>2 DEF SessionsInv, AnswersOK
<1>12. QED
  BY <1>8, <1>9, <1>10, <1>11 DEF SessionsInv

(* A cancel() that writes the status of its row takes the outcome off the  *)
(* record of touched attempts only.                                        *)
LEMMA TouchedKeeps ==
  ASSUME SessionsInv, target \in 1..Len(sessions), NEW s \in Statuses,
         sessions' = [sessions EXCEPT ![target].status = s],
         UNCHANGED <<role, execution, provider, answered, sessionFaults>>,
         touched' = touched \cup {sessions[target].attempt}
  PROVE  RowsOK' /\ StepOK' /\ ProviderOK' /\ LengthOK' /\ SessionsWearOut' /\ AnswersOK'
<1>1. /\ SessionsTypeOK /\ sessions' \in Seq(Row) /\ SameRows
      /\ \A j \in 1..Len(sessions) : j # target => sessions'[j] = sessions[j]
  BY StatusWritten DEF SessionsInv
<1>2. RowsOK' /\ StepOK' /\ ProviderOK' /\ LengthOK' /\ SessionsWearOut'
  BY <1>1, StatusKeeps DEF execution
<1>3. AnswersOK'
  <2>1. /\ DOMAIN sessions = 1..Len(sessions) /\ DOMAIN sessions' = 1..Len(sessions)
    BY <1>1, SessionsDomain DEF SameRows
  <2>2. ASSUME attempt \in answered \ touched' PROVE at = "idle" /\ HasOutcome(attempt)'
    <3>1. /\ at = "idle" /\ HasOutcome(attempt) /\ sessions[target].attempt # attempt
      BY <2>2 DEF SessionsInv, AnswersOK
    <3>2. PICK j \in DOMAIN sessions :
            sessions[j].attempt = attempt /\ sessions[j].status = "completed" /\ sessions[j].outcome
      BY <3>1 DEF HasOutcome
    <3>3. sessions'[j] = sessions[j]
      BY <1>1, <2>1, <3>1, <3>2
    <3>4. QED
      BY <2>1, <3>1, <3>2, <3>3 DEF HasOutcome, execution
  <2>3. QED
    BY <2>2 DEF SessionsInv, AnswersOK, execution
<1>4. QED
  BY <1>2, <1>3

LEMMA CancellingKeeps ==
  ASSUME SessionsInv, Cancel \/ Cancelling PROVE SessionsInv'
<1>0. SessionsTypeOK
  BY DEF SessionsInv
<1>1. CASE Cancel
  <2>1. Len(sessions) \in Nat /\ executions \in 0..MaxExecutions /\ cancels \in 0..MaxCancels
    BY <1>0, SessionsDomain DEF SessionsTypeOK
  <2>2. target' \in 0..MaxExecutions /\ cancels' \in 0..MaxCancels
    BY <1>1, <2>1, SessionsAssumption DEF Cancel, SessionsInv, LengthOK
  <2>3. SessionsTypeOK'
    BY <1>0, <1>1, <2>2 DEF Cancel, SessionsTypeOK, CancelSteps, execution, provider
  <2>4. RowsOK' /\ StepOK' /\ ProviderOK' /\ LengthOK' /\ SessionsWearOut'
    BY <1>1, StatusKeeps DEF Cancel, execution, SameRows
  <2>5. CancelOK'
    BY <1>0, <1>1, SessionsDomain DEF Cancel, CancelOK
  <2>6. AnswersOK'
    BY <1>1 DEF Cancel, SessionsInv, AnswersOK, HasOutcome, execution
  <2>7. QED
    BY <2>3, <2>4, <2>5, <2>6 DEF SessionsInv
<1>2. CASE RequestCancel
  <2>1. /\ cat = "request" /\ cat' = "stop" /\ target' = target
        /\ target \in 1..Len(sessions)
        /\ sessions' = [sessions EXCEPT ![target].status = "cancel_requested"]
        /\ touched' = touched \cup {sessions[target].attempt}
        /\ UNCHANGED <<role, execution, target, killed, provider, answered, cancels,
                       sessionFaults>>
    BY <1>2 DEF RequestCancel, SessionsInv, CancelOK
  <2>2. /\ sessions' \in Seq(Row) /\ SameRows /\ sessions[target] \in Row
    BY <1>0, <2>1, StatusWritten, SessionsDomain DEF Statuses
  <2>3. SessionsTypeOK'
    BY <1>0, <2>1, <2>2 DEF SessionsTypeOK, CancelSteps, Row, execution, provider
  <2>4. RowsOK' /\ StepOK' /\ ProviderOK' /\ LengthOK' /\ SessionsWearOut' /\ AnswersOK'
    BY <2>1, TouchedKeeps DEF Statuses
  <2>5. CancelOK'
    BY <2>1, <2>2 DEF CancelOK, SameRows
  <2>6. QED
    BY <2>3, <2>4, <2>5 DEF SessionsInv
<1>3. CASE Stop
  <2>0. /\ target' \in 0..MaxExecutions /\ cat' \in CancelSteps /\ killed' \in BOOLEAN
        /\ cat' = "settle" => target' = target
        /\ cat' \in {"settle", "idle"} /\ cat = "stop"
    <3>1. CASE cat' = "settle" /\ killed' \in BOOLEAN /\ UNCHANGED target
      BY <1>0, <1>3, <3>1 DEF Stop, SessionsTypeOK, CancelSteps
    <3>2. CASE cat' = "idle" /\ killed' = FALSE /\ target' = 0
      <4>1. 0 \in 0..MaxExecutions
        BY SessionsAssumption
      <4>2. killed' \in BOOLEAN
        BY <3>2
      <4>3. QED
        BY <1>3, <3>2, <4>1, <4>2 DEF Stop, CancelSteps
    <3>3. QED
      BY <1>3, <3>1, <3>2 DEF Stop
  <2>1. SessionsTypeOK'
    <3>1. UNCHANGED <<sessions, role, execution, provider, answered, touched, cancels, sessionFaults>>
      BY <1>3 DEF Stop
    <3>2. QED
      BY <1>0, <2>0, <3>1 DEF SessionsTypeOK, execution, provider
  <2>2. SameRows
    BY <1>3 DEF Stop, SameRows
  <2>3. RowsOK' /\ StepOK' /\ ProviderOK' /\ LengthOK' /\ SessionsWearOut'
    BY <1>3, <2>2, StatusKeeps DEF Stop, execution
  <2>4. CancelOK' /\ AnswersOK'
    BY <1>3 DEF Stop, SessionsInv, CancelOK, AnswersOK, HasOutcome, execution
  <2>5. QED
    BY <2>1, <2>3, <2>4 DEF SessionsInv
<1>4. CASE SettleCancel
  <2> DEFINE s == IF killed THEN "cancelled" ELSE "quiescing"
  <2>1. /\ cat = "settle" /\ cat' = "idle" /\ target' = 0 /\ killed' = FALSE
        /\ target \in 1..Len(sessions) /\ sessions[target].attempt \in touched
        /\ sessions' = [sessions EXCEPT ![target].status = s]
        /\ UNCHANGED <<role, execution, provider, answered, touched, cancels, sessionFaults>>
    BY <1>4 DEF SettleCancel, SessionsInv, CancelOK
  <2>2. s \in Statuses
    BY DEF Statuses
  <2> HIDE DEF s
  <2>3. sessions' \in Seq(Row)
    BY <1>0, <2>1, <2>2, StatusWritten
  <2>4. SessionsTypeOK'
    <3>1. killed' \in BOOLEAN
      BY <2>1
    <3>2. cat' \in CancelSteps /\ target' \in 0..MaxExecutions
      BY <2>1, SessionsAssumption DEF CancelSteps
    <3>3. QED
      BY <1>0, <2>1, <2>3, <3>1, <3>2 DEF SessionsTypeOK, execution, provider
  <2>5. touched' = touched \cup {sessions[target].attempt}
    BY <2>1
  <2>6. RowsOK' /\ StepOK' /\ ProviderOK' /\ LengthOK' /\ SessionsWearOut' /\ AnswersOK'
    BY <2>1, <2>2, <2>5, TouchedKeeps
  <2>7. CancelOK'
    BY <2>1 DEF CancelOK
  <2>8. QED
    BY <2>4, <2>6, <2>7 DEF SessionsInv
<1>5. QED
  BY <1>1, <1>2, <1>3, <1>4 DEF Cancelling

LEMMA DieKeeps ==
  ASSUME SessionsInv, Die PROVE SessionsInv'
<1>1. /\ SessionsTypeOK /\ at' = "idle" /\ chosen' = 0 /\ worn' = 0 /\ failures' = 0
      /\ cat' = "idle" /\ target' = 0
      /\ sessionFaults' = sessionFaults + 1 /\ sessionFaults < MaxSessionFaults
      /\ UNCHANGED <<sessions, role, attempt, executions, provider, answered, touched, cancels>>
  BY DEF Die, ExecuteReturns, SessionsInv
<1>2. /\ MaxContinuations \in Nat /\ RotateAfterFailures \in Nat /\ sessionFaults \in Nat
      /\ uses \in [Handles -> Nat] /\ losses \in [Handles -> Nat] /\ MaxSessionFaults \in Nat
  BY <1>1, SessionsAssumption DEF SessionsTypeOK
<1>3. SessionsTypeOK'
  <2>1. failed' \in BOOLEAN /\ killed' \in BOOLEAN
    BY DEF Die, ExecuteReturns
  <2>2. sessionFaults' \in 0..MaxSessionFaults /\ target' \in 0..MaxExecutions
    BY <1>1, <1>2, SessionsAssumption
  <2>3. QED
    BY <1>1, <2>1, <2>2 DEF SessionsTypeOK, ExecuteSteps, CancelSteps, provider
<1>4. SessionsWearOut'
  <2>1. /\ \A h \in Handles : uses[h] <= MaxContinuations + 1 + sessionFaults
        /\ \A h \in Handles : losses[h] <= RotateAfterFailures + sessionFaults
        /\ role = "reviewer" => \A h \in Handles : uses[h] <= 1
    BY DEF SessionsInv, SessionsWearOut
  <2>2. \A h \in Handles : uses[h] <= MaxContinuations + 1 + sessionFaults'
    BY <1>1, <1>2, <2>1
  <2>3. \A h \in Handles : losses[h] <= RotateAfterFailures + sessionFaults'
    BY <1>1, <1>2, <2>1
  <2>4. QED
    BY <1>1, <2>1, <2>2, <2>3 DEF SessionsWearOut, provider
<1>5. RowsOK'
  <2> SUFFICES ASSUME sessions # <<>> PROVE RowsOK'
    BY <1>1 DEF RowsOK
  <2>1. PICK n \in Handles, c \in Nat, l \in Nat :
          n = Newest.handle /\ c = Newest.continuations /\ l = Newest.failures
    <3>1. Newest \in Row
      BY <1>1, SessionsDomain DEF Newest
    <3>2. QED
      BY <3>1 DEF Row
  <2>2. /\ n <= handles /\ c <= MaxContinuations /\ l <= RotateAfterFailures
        /\ uses[n] <= c + 1 + sessionFaults + (IF at = "insert" THEN 1 ELSE 0)
        /\ losses[n] <= l + sessionFaults + (IF at \in {"insert", "failure"} THEN 1 ELSE 0)
    BY <2>1 DEF SessionsInv, RowsOK
  <2>7. uses[n] \in Nat /\ losses[n] \in Nat
    BY <1>2
  <2>8. /\ uses[n] <= c + 1 + sessionFaults + 1
        /\ losses[n] <= l + sessionFaults + 1
    BY <1>2, <2>2, <2>7
  <2>3. uses[n] <= c + 1 + sessionFaults' + 0
    BY <1>1, <1>2, <2>7, <2>8
  <2>4. losses[n] <= l + sessionFaults' + 0
    BY <1>1, <1>2, <2>7, <2>8
  <2>5. Newest' = Newest /\ at' \notin {"insert", "failure"}
    BY <1>1 DEF Newest
  <2>6. QED
    BY <1>1, <2>1, <2>2, <2>3, <2>4, <2>5 DEF RowsOK, provider
<1>6. StepOK' /\ CancelOK' /\ AnswersOK' /\ LengthOK' /\ ProviderOK'
  BY <1>1 DEF SessionsInv, StepOK, CancelOK, AnswersOK, LengthOK, ProviderOK, HasOutcome, provider
<1>7. QED
  BY <1>3, <1>4, <1>5, <1>6 DEF SessionsInv

LEMMA SessionsNextInv ==
  ASSUME SessionsInv, [SessionsNext]_sessionVars PROVE SessionsInv'
<1>1. CASE UNCHANGED sessionVars
  BY <1>1 DEF sessionVars, execution, cancellation, provider, SessionsInv, SessionsTypeOK,
              RowsOK, StepOK, ProviderOK, CancelOK, LengthOK, AnswersOK, HasOutcome,
              SessionsWearOut, Newest
<1>2. CASE SessionsNext
  BY <1>2, ExecuteKeeps, CheckBarrierKeeps, ChooseSessionKeeps, InvokeKeeps, InvokeRaisesKeeps,
     InsertKeeps, RecordFailureKeeps, CompleteKeeps, CancellingKeeps, DieKeeps
     DEF SessionsNext, Executing
<1>3. QED
  BY <1>1, <1>2

----------------------------------------------------------------------------
(* What a flush knows of the buffer: its batch is there, and the exporter  *)
(* has answered for what was accepted of it.                               *)
FlusherOK ==
  /\ fat \in {"export", "pop"} => batch <= Len(buffer)
  /\ (fat = "pop" /\ accepted <= batch) => \A i \in 1..accepted : buffer[i]
  /\ fat # "pop" => accepted = 0

TelemetryInv == TelemetryTypeOK /\ FlusherOK

(* What finds room is appended, as not answered for.                       *)
LEMMA EnqueueKeeps ==
  ASSUME TelemetryInv, NEW n \in Nat, Enqueue(n)
  PROVE  /\ buffer' \in Seq(BOOLEAN)
         /\ Len(buffer) <= Len(buffer') /\ Len(buffer') <= Capacity
         /\ \A i \in 1..Len(buffer) : buffer'[i] = buffer[i]
<1> DEFINE k == Least(n, Capacity - Len(buffer))
           new == [i \in 1..k |-> FALSE]
<1>1. buffer \in Seq(BOOLEAN) /\ Len(buffer) \in Nat /\ Len(buffer) <= Capacity /\ Capacity \in Nat
  BY TelemetryAssumption DEF TelemetryInv, TelemetryTypeOK
<1>2. k \in Nat /\ k <= Capacity - Len(buffer)
  BY <1>1 DEF Least
<1> HIDE DEF k
<1>3. new \in Seq(BOOLEAN) /\ Len(new) = k
  BY <1>2
<1>4. buffer' = buffer \o new
  BY DEF Enqueue, k
<1> HIDE DEF new
<1>5. /\ buffer \o new \in Seq(BOOLEAN)
      /\ Len(buffer \o new) = Len(buffer) + Len(new)
      /\ \A i \in 1..Len(buffer) : (buffer \o new)[i] = buffer[i]
  BY <1>1, <1>3
<1>6. QED
  BY <1>1, <1>2, <1>3, <1>4, <1>5

(* The exporter answers for records: none leaves, and none is taken back.  *)
LEMMA AnsweredKeeps ==
  ASSUME TelemetryInv, NEW n \in Nat, buffer' = [i \in DOMAIN buffer |-> buffer[i] \/ i <= n]
  PROVE  /\ buffer' \in Seq(BOOLEAN) /\ Len(buffer') = Len(buffer)
         /\ \A i \in 1..Len(buffer) : i <= n => buffer'[i]
<1>1. buffer \in Seq(BOOLEAN) /\ Len(buffer) \in Nat /\ DOMAIN buffer = 1..Len(buffer)
  BY DEF TelemetryInv, TelemetryTypeOK
<1>2. buffer' = [i \in 1..Len(buffer) |-> buffer[i] \/ i <= n]
  BY <1>1
<1>3. \A i \in 1..Len(buffer) : (buffer[i] \/ i <= n) \in BOOLEAN
  OBVIOUS
<1>4. buffer' \in [1..Len(buffer) -> BOOLEAN]
  BY <1>2, <1>3
<1>5. buffer' \in Seq(BOOLEAN) /\ Len(buffer') = Len(buffer)
  BY <1>1, <1>4
<1>6. \A i \in 1..Len(buffer) : buffer'[i] = (buffer[i] \/ i <= n)
  BY <1>2
<1>7. QED
  BY <1>5, <1>6

LEMMA PopKeeps ==
  ASSUME TelemetryInv, Pop
  PROVE  /\ buffer' \in Seq(BOOLEAN) /\ Len(buffer') \in Nat /\ Len(buffer') <= Len(buffer)
         /\ accepted <= batch => /\ Len(buffer) - Len(buffer') = accepted
                                 /\ \A i \in 1..accepted : buffer[i]
<1> DEFINE k == Least(accepted, Len(buffer))
<1>1. /\ buffer \in Seq(BOOLEAN) /\ Len(buffer) \in Nat /\ accepted \in Nat /\ batch \in Nat
      /\ batch <= Len(buffer)
      /\ accepted <= batch => \A i \in 1..accepted : buffer[i]
  BY TelemetryAssumption DEF TelemetryInv, TelemetryTypeOK, FlusherOK, Pop
<1>2. k \in Nat /\ k <= Len(buffer) /\ (accepted <= batch => k = accepted)
  BY <1>1 DEF Least
<1>3. buffer' = SubSeq(buffer, k + 1, Len(buffer))
  BY DEF Pop
<1> HIDE DEF k
<1>4. buffer' \in Seq(BOOLEAN) /\ Len(buffer') = Len(buffer) - k
  BY <1>1, <1>2, <1>3
<1>5. QED
  BY <1>1, <1>2, <1>4

LEMMA FlushEndsKeeps ==
  ASSUME TelemetryInv, FlushEnds, buffer' \in Seq(BOOLEAN), Len(buffer') = Len(buffer),
         UNCHANGED <<shut, flushes>>
  PROVE  TelemetryInv'
<1>1. /\ fat' \in {"close", "idle"} /\ batch' = 0 /\ accepted' = 0 /\ closing' = closing
  BY DEF FlushEnds
<1>2. closing' \in BOOLEAN /\ shut' \in BOOLEAN
  BY <1>1 DEF TelemetryInv, TelemetryTypeOK
<1>3. FlusherOK'
  BY <1>1 DEF FlusherOK
<1>4. TelemetryTypeOK'
  BY <1>1, <1>2, TelemetryAssumption DEF TelemetryInv, TelemetryTypeOK, FlushSteps
<1>5. QED
  BY <1>3, <1>4 DEF TelemetryInv

LEMMA FlushingKeeps ==
  ASSUME TelemetryInv, Flushing PROVE TelemetryInv'
<1>0. /\ TelemetryTypeOK /\ buffer \in Seq(BOOLEAN) /\ Len(buffer) \in Nat
      /\ batch \in 0..BatchSize /\ BatchSize \in Nat \ {0} /\ accepted \in 0..Capacity
      /\ flushes \in Nat /\ MaxFlushes \in Nat /\ Capacity \in Nat
  BY TelemetryAssumption DEF TelemetryInv, TelemetryTypeOK
<1>1. ASSUME NEW close \in BOOLEAN, ForceFlush(close) PROVE TelemetryInv'
  <2>1. /\ buffer' \in Seq(BOOLEAN) /\ Len(buffer') <= Capacity
    BY <1>1, EnqueueKeeps DEF ForceFlush
  <2>2. fat = "idle" /\ closing' \in BOOLEAN /\ fat' = "look" /\ flushes' \in 0..MaxFlushes
        /\ UNCHANGED <<shut, batch, accepted>>
    BY <1>0, <1>1 DEF ForceFlush, TelemetryTypeOK
  <2>3. QED
    BY <1>0, <2>1, <2>2 DEF TelemetryInv, TelemetryTypeOK, FlusherOK, FlushSteps
<1>2. CASE TakeBatch
  <2>1. CASE FlushEnds
    BY <1>0, <1>2, <2>1, FlushEndsKeeps DEF TakeBatch
  <2>2. CASE ~FlushEnds
    <3>1. /\ buffer' = buffer /\ fat' = "export" /\ batch' = Least(BatchSize, Len(buffer))
          /\ UNCHANGED <<accepted, closing, shut, flushes>> /\ fat = "look"
      BY <1>2, <2>2 DEF TakeBatch
    <3>2. batch' \in 0..BatchSize /\ batch' <= Len(buffer')
      BY <1>0, <3>1 DEF Least
    <3>3. accepted = 0
      BY <3>1 DEF TelemetryInv, FlusherOK
    <3>4. QED
      BY <1>0, <3>1, <3>2, <3>3 DEF TelemetryInv, TelemetryTypeOK, FlusherOK, FlushSteps
  <2>3. QED
    BY <2>1, <2>2
<1>3. CASE Pop
  <2>1. /\ buffer' \in Seq(BOOLEAN) /\ Len(buffer') \in Nat /\ Len(buffer') <= Len(buffer)
        /\ fat' = "look" /\ batch' = 0 /\ accepted' = 0 /\ UNCHANGED <<shut, closing, flushes>>
    BY <1>3, PopKeeps DEF Pop
  <2>2. Len(buffer') <= Capacity
    BY <1>0, <2>1 DEF TelemetryTypeOK
  <2>3. QED
    BY <1>0, <2>1, <2>2 DEF TelemetryInv, TelemetryTypeOK, FlusherOK, FlushSteps
<1>4. CASE Close
  <2>1. shut' \in BOOLEAN /\ closing' \in BOOLEAN
    BY <1>4 DEF Close
  <2>2. QED
    BY <1>0, <1>4, <2>1 DEF Close, TelemetryInv, TelemetryTypeOK, FlusherOK, FlushSteps
<1>5. ASSUME NEW n \in 0..Capacity, ExportAnswers(n) PROVE TelemetryInv'
  <2>1. /\ buffer' \in Seq(BOOLEAN) /\ Len(buffer') = Len(buffer)
        /\ \A i \in 1..Len(buffer) : i <= n => buffer'[i]
        /\ fat = "export" /\ UNCHANGED <<shut, flushes>>
    <3>1. n \in Nat /\ buffer' = [i \in DOMAIN buffer |-> buffer[i] \/ i <= n]
      BY <1>5, <1>0 DEF ExportAnswers
    <3>2. fat = "export" /\ UNCHANGED <<shut, flushes>>
      BY <1>5 DEF ExportAnswers
    <3>3. QED
      BY <3>1, <3>2, AnsweredKeeps
  <2>2. CASE n = 0
    BY <1>5, <2>1, <2>2, FlushEndsKeeps DEF ExportAnswers
  <2>3. CASE n # 0
    <3>1. fat' = "pop" /\ accepted' = n /\ UNCHANGED <<batch, closing>>
      BY <1>5, <2>3 DEF ExportAnswers
    <3>2. batch \in Nat /\ batch <= Len(buffer')
      BY <1>0, <2>1 DEF TelemetryInv, FlusherOK
    <3>3. n <= batch => \A i \in 1..n : buffer'[i]
      BY <1>0, <2>1, <3>2
    <3>4. QED
      BY <1>0, <2>1, <3>1, <3>2, <3>3 DEF TelemetryInv, TelemetryTypeOK, FlusherOK, FlushSteps
  <2>4. QED
    BY <2>2, <2>3
<1>6. CASE ExportGivenUp
  BY <1>0, <1>6, FlushEndsKeeps DEF ExportGivenUp
<1>7. QED
  BY <1>1, <1>2, <1>3, <1>4, <1>5, <1>6 DEF Flushing

(* A span that is entered or left.                                         *)
LEMMA SpanKeeps ==
  ASSUME TelemetryInv, NEW n \in Nat, Enqueue(n), UNCHANGED <<shut, flusher, flushes>>
  PROVE  TelemetryInv'
<1>1. /\ buffer' \in Seq(BOOLEAN) /\ Len(buffer') <= Capacity /\ Len(buffer) <= Len(buffer')
      /\ \A i \in 1..Len(buffer) : buffer'[i] = buffer[i]
  BY EnqueueKeeps
<1>2. /\ buffer \in Seq(BOOLEAN) /\ Len(buffer) \in Nat /\ batch \in Nat /\ accepted \in Nat
  BY TelemetryAssumption DEF TelemetryInv, TelemetryTypeOK
<1>3. TelemetryTypeOK'
  BY <1>1 DEF TelemetryInv, TelemetryTypeOK, flusher
<1>4. FlusherOK'
  <2>1. fat \in {"export", "pop"} => batch <= Len(buffer')
    BY <1>1, <1>2 DEF TelemetryInv, FlusherOK
  <2>2. (fat = "pop" /\ accepted <= batch) => \A i \in 1..accepted : buffer'[i]
    BY <1>1, <1>2 DEF TelemetryInv, FlusherOK
  <2>3. QED
    BY <2>1, <2>2 DEF TelemetryInv, FlusherOK, flusher
<1>5. QED
  BY <1>3, <1>4 DEF TelemetryInv

ObservedInv == SessionsInv /\ TelemetryInv

(* A step that nobody observes, one that enters or leaves a span, a crash, *)
(* or a step of a flush.                                                   *)
LEMMA ObservedSteps ==
  ASSUME ObservedInv, ObservedNext
  PROVE  \/ SessionsNext /\ UNCHANGED telemetryVars
         \/ /\ SessionsNext
            /\ \E n \in Nat : Enqueue(n) /\ UNCHANGED <<shut, flusher, flushes>>
         \/ SessionsNext /\ TelemetryRestarts /\ sessionFaults' # sessionFaults
         \/ Flushing /\ UNCHANGED sessionVars
<1>1. ASSUME NEW a \in Numbers, Enter(a)
      PROVE  /\ SessionsNext
             /\ \E n \in Nat : Enqueue(n) /\ UNCHANGED <<shut, flusher, flushes>>
  <2>1. SessionsNext
    BY <1>1 DEF Enter, SessionsNext
  <2>2. \/ Enqueue(IF shut THEN 0 ELSE 5) /\ UNCHANGED <<shut, flusher, flushes>>
        \/ Enqueue(IF shut THEN 0 ELSE 1) /\ UNCHANGED <<shut, flusher, flushes>>
    BY <1>1 DEF Enter, EnterSpan
  <2>3. (IF shut THEN 0 ELSE 5) \in Nat /\ (IF shut THEN 0 ELSE 1) \in Nat
    OBVIOUS
  <2>4. QED
    BY <2>1, <2>2, <2>3
<1>2. ASSUME Exit
      PROVE  /\ SessionsNext
             /\ \E n \in Nat : Enqueue(n) /\ UNCHANGED <<shut, flusher, flushes>>
  <2>1. SessionsNext
    BY <1>2 DEF Exit, SessionsNext, Executing
  <2>2. Enqueue(IF shut THEN 1 ELSE 4) /\ UNCHANGED <<shut, flusher, flushes>>
    BY <1>2 DEF Exit, ExitSpan
  <2>3. (IF shut THEN 1 ELSE 4) \in Nat
    OBVIOUS
  <2>4. QED
    BY <2>1, <2>2, <2>3
<1>3. ASSUME Inside \/ Unobserved(Cancel \/ Cancelling)
      PROVE  SessionsNext /\ UNCHANGED telemetryVars
  BY <1>3 DEF Inside, Unobserved, SessionsNext, Executing
<1>4. ASSUME Die /\ TelemetryRestarts
      PROVE  SessionsNext /\ TelemetryRestarts /\ sessionFaults' # sessionFaults
  <2>1. sessionFaults \in Nat
    BY SessionsAssumption DEF ObservedInv, SessionsInv, SessionsTypeOK
  <2>2. QED
    BY <1>4, <2>1 DEF Die, SessionsNext
<1>5. QED
  BY <1>1, <1>2, <1>3, <1>4 DEF ObservedNext

LEMMA TelemetryInitInv == TelemetryInit => TelemetryInv
<1> SUFFICES ASSUME TelemetryInit PROVE TelemetryInv
  OBVIOUS
<1>1. shut \in BOOLEAN /\ closing \in BOOLEAN
  BY DEF TelemetryInit
<1>2. buffer \in Seq(BOOLEAN) /\ Len(buffer) = 0
  BY DEF TelemetryInit
<1>3. TelemetryTypeOK
  BY <1>1, <1>2, TelemetryAssumption DEF TelemetryInit, TelemetryTypeOK, FlushSteps
<1>4. QED
  BY <1>3 DEF TelemetryInit, TelemetryInv, FlusherOK

LEMMA RestartKeeps ==
  ASSUME TelemetryInv, TelemetryRestarts PROVE TelemetryInv'
<1>1. shut' \in BOOLEAN /\ closing' \in BOOLEAN
  BY DEF TelemetryRestarts
<1>2. buffer' \in Seq(BOOLEAN) /\ Len(buffer') = 0
  BY DEF TelemetryRestarts
<1>3. TelemetryTypeOK'
  BY <1>1, <1>2, TelemetryAssumption DEF TelemetryRestarts, TelemetryInv, TelemetryTypeOK, FlushSteps
<1>4. QED
  BY <1>3 DEF TelemetryRestarts, TelemetryInv, FlusherOK

LEMMA ObservedNextInv ==
  ASSUME ObservedInv, [ObservedNext]_observedVars PROVE ObservedInv'
<1>1. CASE UNCHANGED observedVars
  <2>1. UNCHANGED sessionVars /\ UNCHANGED telemetryVars
    BY <1>1 DEF observedVars
  <2>2. SessionsInv'
    BY <2>1, SessionsNextInv DEF ObservedInv
  <2>3. TelemetryInv'
    BY <2>1 DEF ObservedInv, TelemetryInv, TelemetryTypeOK, FlusherOK, telemetryVars, flusher
  <2>4. QED
    BY <2>2, <2>3 DEF ObservedInv
<1>2. CASE ObservedNext
  <2>1. SessionsInv'
    BY <1>2, ObservedSteps, SessionsNextInv DEF ObservedInv
  <2>2. TelemetryInv'
    <3>1. CASE UNCHANGED telemetryVars
      BY <3>1 DEF ObservedInv, TelemetryInv, TelemetryTypeOK, FlusherOK, telemetryVars, flusher
    <3>2. QED
      BY <1>2, <3>1, ObservedSteps, SpanKeeps, RestartKeeps, FlushingKeeps DEF ObservedInv
  <2>3. QED
    BY <2>1, <2>2 DEF ObservedInv
<1>3. QED
  BY <1>1, <1>2

LEMMA ObservedInitInv == ObservedInit => ObservedInv
BY SessionsInitInv, TelemetryInitInv DEF ObservedInit, ObservedInv

(* Sessions, executions, cancellations and the telemetry buffer are well   *)
(* formed: rows are appended only, a cancellation has a row, and a buffer  *)
(* never exceeds its capacity.                                             *)
THEOREM ObservedTypeCorrect == ObservedSpec => []ObservedTypeOK
<1>1. ObservedInv /\ [ObservedNext]_observedVars => ObservedInv'
  BY ObservedNextInv
<1>2. ObservedInv => ObservedTypeOK
  BY DEF ObservedInv, SessionsInv, TelemetryInv, ObservedTypeOK
<1>3. QED
  BY ObservedInitInv, <1>1, <1>2, PTL DEF ObservedSpec

(* A provider session is given up when it has been continued or has failed *)
(* as often as the policy allows, through every crash and cancellation.    *)
THEOREM SessionsAreWornOut == ObservedSpec => []SessionsWearOut
<1>1. ObservedInv /\ [ObservedNext]_observedVars => ObservedInv'
  BY ObservedNextInv
<1>2. ObservedInv => SessionsWearOut
  BY DEF ObservedInv, SessionsInv
<1>3. QED
  BY ObservedInitInv, <1>1, <1>2, PTL DEF ObservedSpec

(* Only an invocation changes the count of an attempt, and it is one of    *)
(* the attempt that execute() is at work on.                               *)
LEMMA InvokedOnly ==
  ASSUME SessionsInv, [SessionsNext]_sessionVars
  PROVE  \A a \in answered \ touched : invoked'[a] = invoked[a]
<1>1. CASE UNCHANGED invoked
  BY <1>1
<1>2. ASSUME at = "invoke", NEW h \in Handles, NEW ok \in BOOLEAN, Works(h, ok)
      PROVE  \A a \in answered \ touched : invoked'[a] = invoked[a]
  <2>1. attempt \notin answered \ touched /\ answered \subseteq Numbers
    BY <1>2 DEF SessionsInv, AnswersOK, SessionsTypeOK
  <2>2. \A a \in Numbers \ {attempt} : invoked'[a] = invoked[a]
    BY <1>2, WorksCounts
  <2>3. QED
    BY <2>1, <2>2
<1>3. CASE Invoke
  BY <1>2, <1>3 DEF Invoke, Works
<1>4. CASE InvokeRaises
  BY <1>2, <1>4 DEF InvokeRaises, Works
<1>5. CASE ~Invoke /\ ~InvokeRaises
  BY <1>1, <1>5 DEF SessionsNext, sessionVars, Executing, Cancelling, Execute, CheckBarrier,
     ChooseSession, Insert, RecordFailure, Complete, Cancel, RequestCancel, Stop, SettleCancel,
     Die, provider
<1>6. QED
  BY <1>3, <1>4, <1>5

(* An attempt whose outcome was returned is not executed again, unless a   *)
(* cancel() has touched its row: a crash between the outcome and whoever   *)
(* asked for it does not repeat the work.                                  *)
THEOREM AnswersAreReplayed == ObservedSpec => AnsweredIsReplayed
<1>1. ObservedInv /\ [ObservedNext]_observedVars => ObservedInv'
  BY ObservedNextInv
<1>2. ObservedInv /\ [ObservedNext]_observedVars
        => [\A a \in answered \ touched : invoked'[a] = invoked[a]]_sessionVars
  <2> SUFFICES ASSUME ObservedInv, [ObservedNext]_observedVars
               PROVE  [\A a \in answered \ touched : invoked'[a] = invoked[a]]_sessionVars
    OBVIOUS
  <2>1. [SessionsNext]_sessionVars
    BY ObservedSteps DEF observedVars
  <2>2. QED
    BY <2>1, InvokedOnly DEF ObservedInv
<1>3. QED
  BY ObservedInitInv, <1>1, <1>2, PTL DEF ObservedSpec, AnsweredIsReplayed

(* While the process lives a record leaves the buffer only when the        *)
(* exporter has answered for it, if it answers for what it was given       *)
(* (force_flush, _enqueue).                                                *)
THEOREM RecordsLeaveAnswered == ObservedSpec => LeavesAnswered
<1> DEFINE Delivered ==
      (Len(buffer') < Len(buffer) /\ sessionFaults' = sessionFaults /\ accepted <= batch) =>
        \A i \in 1..(Len(buffer) - Len(buffer')) : buffer[i]
<1>1. ObservedInv /\ [ObservedNext]_observedVars => ObservedInv'
  BY ObservedNextInv
<1>2. ASSUME ObservedInv, [ObservedNext]_observedVars PROVE Delivered
  <2>1. Len(buffer) \in Nat /\ TelemetryInv
    BY <1>2 DEF ObservedInv, TelemetryInv, TelemetryTypeOK
  <2>2. CASE UNCHANGED buffer
    BY <2>1, <2>2
  <2>3. ASSUME NEW n \in Nat, Enqueue(n) PROVE Delivered
    <3>1. Len(buffer) <= Len(buffer') /\ buffer' \in Seq(BOOLEAN)
      BY <2>1, <2>3, EnqueueKeeps
    <3>2. Len(buffer') \in Nat
      BY <3>1
    <3>3. QED
      BY <2>1, <3>1, <3>2
  <2>4. ASSUME NEW n \in Nat, buffer' = [i \in DOMAIN buffer |-> buffer[i] \/ i <= n]
        PROVE  Delivered
    <3>1. Len(buffer') = Len(buffer)
      BY <2>1, <2>4, AnsweredKeeps
    <3>2. QED
      BY <2>1, <3>1
  <2>5. CASE Pop
    <3>1. accepted <= batch => /\ Len(buffer) - Len(buffer') = accepted
                              /\ \A i \in 1..accepted : buffer[i]
      BY <2>1, <2>5, PopKeeps
    <3>2. QED
      BY <3>1
  <2>6. CASE Flushing
    <3>1. CASE TakeBatch \/ Close
      BY <2>2, <3>1 DEF TakeBatch, Close
    <3>2. ASSUME NEW close \in BOOLEAN, ForceFlush(close) PROVE Delivered
      <4>1. (IF shut THEN 0 ELSE 4) \in Nat
        OBVIOUS
      <4>2. QED
        BY <2>3, <3>2, <4>1 DEF ForceFlush
    <3>3. 0..Capacity \subseteq Nat
      BY TelemetryAssumption
    <3>4. ASSUME NEW n \in 0..Capacity, ExportAnswers(n) PROVE Delivered
      BY <2>4, <3>3, <3>4 DEF ExportAnswers
    <3>5. CASE ExportGivenUp
      BY <2>2, <3>5 DEF ExportGivenUp
    <3>6. QED
      BY <2>5, <2>6, <3>1, <3>2, <3>4, <3>5 DEF Flushing
  <2>7. CASE sessionFaults' # sessionFaults
    BY <2>7
  <2>8. CASE ObservedNext
    BY <1>2, <2>2, <2>3, <2>6, <2>7, <2>8, ObservedSteps DEF telemetryVars
  <2>9. QED
    BY <1>2, <2>2, <2>8 DEF observedVars, telemetryVars
<1>3. QED
  BY ObservedInitInv, <1>1, <1>2, PTL DEF ObservedSpec, LeavesAnswered

(* Telemetry is not in the way of what it observes: whatever the buffer,   *)
(* the exporter and the flushes do, each step is one that executions and   *)
(* cancellations could take without telemetry, or leaves them alone.       *)
THEOREM ObservedAsUnobserved ==
  ObservedSpec => SessionsInit /\ [][SessionsNext]_sessionVars
<1>1. ObservedInv /\ [ObservedNext]_observedVars => ObservedInv'
  BY ObservedNextInv
<1>2. ObservedInv /\ [ObservedNext]_observedVars => [SessionsNext]_sessionVars
  BY ObservedSteps DEF observedVars
<1>3. ObservedInit => SessionsInit
  BY DEF ObservedInit
<1>4. QED
  BY ObservedInitInv, <1>1, <1>2, <1>3, PTL DEF ObservedSpec

=============================================================================
