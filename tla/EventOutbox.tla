----------------------------- MODULE EventOutbox -----------------------------
(***************************************************************************)
(* The audit events of a project (runtime/events.py on the outbox of       *)
(* runtime/store.py).  A transaction that changes state inserts its event  *)
(* into event_outbox; EventStore.flush appends the undelivered events to   *)
(* events.jsonl and marks them one by one.  Every engine operation ends in *)
(* a flush, and so does the construction of a GraphRuntime: the worker     *)
(* threads of one process share an EventStore and its lock, another        *)
(* process has an EventStore and a lock of its own.                        *)
(*                                                                         *)
(* An event is its rowid: 1..committed are the rows of the table.  `file`  *)
(* has what was written, in its order: events, and Torn for a part of one. *)
(* What was written without its newline is in one line with what follows.  *)
(* Appending one whole line is one step, and so is reading the file.       *)
(***************************************************************************)
EXTENDS Naturals, Sequences, FiniteSets

CONSTANTS
  Flushers,    (* threads that commit events and flush                     *)
  Processes,
  ProcessOf,   (* the process of each thread                               *)
  Tears,       (* whether a fault may leave part of a line                 *)
  MaxEvents,   (* bound: events committed in a behaviour                   *)
  MaxFaults,   (* bound: crashes and failed writes in a behaviour          *)
  None,
  Torn

ASSUME OutboxAssumption ==
  /\ ProcessOf \in [Flushers -> Processes]
  /\ Tears \in BOOLEAN
  /\ MaxEvents \in Nat /\ MaxFaults \in Nat
  /\ None \notin Flushers /\ Torn \notin Nat

VARIABLES
  committed,   (* event_outbox has the rows 1..committed                   *)
  delivered,   (* the rows with delivered_at                               *)
  file,        (* what was written to events.jsonl                         *)
  unended,     (* the positions of `file` that have no newline             *)
  lock,        (* _flush_lock of each process: its holder                  *)
  pc,          (* where each thread is in flush()                          *)
  existing,    (* its local `existing`                                     *)
  rows,        (* the rows its loop has left                               *)
  faults

vars == <<committed, delivered, file, unended, lock, pc, existing, rows, faults>>

Steps == {"idle", "flush", "existing", "rows", "loop", "mark"}
Holding == {"existing", "rows", "loop", "mark"}

(* The lock of a process is held by its thread within flush(), by no other *)
(* and by nobody else's.                                                   *)
LockOK ==
  /\ \A f \in Flushers : pc[f] \in Holding => lock[ProcessOf[f]] = f
  /\ \A p \in Processes : lock[p] # None =>
       ProcessOf[lock[p]] = p /\ pc[lock[p]] \in Holding

TypeOK ==
  /\ committed \in 0..MaxEvents
  /\ delivered \subseteq 1..committed
  /\ file \in Seq(1..committed \cup {Torn})
  /\ unended \subseteq DOMAIN file
  /\ lock \in [Processes -> Flushers \cup {None}]
  /\ pc \in [Flushers -> Steps]
  /\ existing \in [Flushers -> SUBSET (1..committed)]
  /\ rows \in [Flushers -> SUBSET (1..committed)]
  /\ faults \in 0..MaxFaults
  /\ LockOK

Init ==
  /\ committed = 0 /\ delivered = {} /\ file = <<>> /\ unended = {}
  /\ lock = [p \in Processes |-> None]
  /\ pc = [f \in Flushers |-> "idle"]
  /\ existing = [f \in Flushers |-> {}]
  /\ rows = [f \in Flushers |-> {}]
  /\ faults = 0

----------------------------------------------------------------------------
Lines == {file[i] : i \in DOMAIN file}

(* A line is one object if all of it was written, if it does not go on     *)
(* from the one before, and if the next does not go on from it.            *)
Readable(i) ==
  /\ file[i] # Torn
  /\ i - 1 \notin unended
  /\ i \in unended => i = Len(file)

Spoiled == {i \in DOMAIN file : ~Readable(i)}

Undelivered == (1..committed) \ delivered
IsNext(e, f) == e \in rows[f] /\ \A d \in rows[f] : e <= d

Goto(f, step) == pc' = [pc EXCEPT ![f] = step]

(* A transaction changes state and inserts its event; the operation goes   *)
(* on to flush.                                                            *)
Commit(f) ==
  /\ pc[f] = "idle" /\ committed < MaxEvents
  /\ committed' = committed + 1
  /\ Goto(f, "flush")
  /\ UNCHANGED <<delivered, file, unended, lock, existing, rows, faults>>

(* An operation that flushes without an event of its own: the constructor  *)
(* of the runtime and recover().                                           *)
Reopen(f) ==
  /\ pc[f] = "idle" /\ Undelivered # {}
  /\ Goto(f, "flush")
  /\ UNCHANGED <<committed, delivered, file, unended, lock, existing, rows, faults>>

Acquire(f) ==
  /\ pc[f] = "flush" /\ lock[ProcessOf[f]] = None
  /\ lock' = [lock EXCEPT ![ProcessOf[f]] = f]
  /\ Goto(f, "existing")
  /\ UNCHANGED <<committed, delivered, file, unended, existing, rows, faults>>

(* Mutant: a raise within flush() leaves the lock taken.                   *)
MutKeepLock(f) ==
  /\ Goto(f, "idle")
  /\ UNCHANGED lock

Leave(f) ==
  /\ lock' = [lock EXCEPT ![ProcessOf[f]] = None]
  /\ Goto(f, "idle")

(* Mutant: the ids already in the file are not read.                       *)
MutNoDedupe(f) ==
  /\ pc[f] = "existing"
  /\ existing' = [existing EXCEPT ![f] = {}]
  /\ Goto(f, "rows")
  /\ UNCHANGED <<committed, delivered, file, unended, lock, rows, faults>>

(* json.loads raises on a line that is not one object; a last line that is *)
(* whole but for its newline is one.                                       *)
ReadFile(f) ==
  /\ pc[f] = "existing"
  /\ \/ /\ Spoiled = {}
        /\ existing' = [existing EXCEPT ![f] = Lines]
        /\ Goto(f, "rows")
        /\ UNCHANGED lock
     \/ /\ Spoiled # {}
        /\ Leave(f)
        /\ UNCHANGED existing
  /\ UNCHANGED <<committed, delivered, file, unended, rows, faults>>

ReadRows(f) ==
  /\ pc[f] = "rows"
  /\ rows' = [rows EXCEPT ![f] = Undelivered]
  /\ Goto(f, "loop")
  /\ UNCHANGED <<committed, delivered, file, unended, lock, existing, faults>>

(* Nothing is written between the end of the file and the event.           *)
AppendLine(e) == file' = Append(file, e)

AppendEvent(f) ==
  /\ pc[f] = "loop"
  /\ \E e \in 1..committed :
       /\ IsNext(e, f)
       /\ IF e \in existing[f]
          THEN UNCHANGED <<file, existing>>
          ELSE /\ AppendLine(e)
               /\ existing' = [existing EXCEPT ![f] = @ \cup {e}]
  /\ Goto(f, "mark")
  /\ UNCHANGED <<committed, delivered, unended, lock, rows, faults>>

MarkDelivered(f) ==
  /\ pc[f] = "mark"
  /\ \E e \in 1..committed :
       /\ IsNext(e, f)
       /\ delivered' = delivered \cup {e}
       /\ rows' = [rows EXCEPT ![f] = @ \ {e}]
  /\ Goto(f, "loop")
  /\ UNCHANGED <<committed, file, unended, lock, existing, faults>>

EndFlush(f) ==
  /\ pc[f] = "loop" /\ rows[f] = {}
  /\ Leave(f)
  /\ UNCHANGED <<committed, delivered, file, unended, existing, rows, faults>>

----------------------------------------------------------------------------
(* What a fault within an append may leave: nothing, part of the event, or *)
(* all of it without the newline.                                          *)
Tear(fs) ==
  \/ UNCHANGED <<file, unended>>
  \/ /\ Tears
     /\ \E f \in fs : \E e \in 1..committed :
          /\ pc[f] = "loop" /\ IsNext(e, f) /\ e \notin existing[f]
          /\ \E left \in {e, Torn} : file' = Append(file, left)
     /\ unended' = unended \cup {Len(file) + 1}

(* The process of p dies with all its threads, and starts again.           *)
Crash(p) ==
  LET mine == {f \in Flushers : ProcessOf[f] = p}
  IN /\ faults < MaxFaults
     /\ \E f \in mine : pc[f] # "idle"
     /\ faults' = faults + 1
     /\ Tear(mine)
     /\ lock' = [lock EXCEPT ![p] = None]
     /\ pc' = [f \in Flushers |-> IF f \in mine THEN "idle" ELSE pc[f]]
     /\ UNCHANGED <<committed, delivered, existing, rows>>

(* A write to the file or to the database raises out of flush().           *)
Fail(f) ==
  /\ faults < MaxFaults
  /\ pc[f] \in Holding
  /\ faults' = faults + 1
  /\ Tear({f})
  /\ Leave(f)
  /\ UNCHANGED <<committed, delivered, existing, rows>>

Flush(f) ==
  \/ Acquire(f) \/ ReadFile(f) \/ ReadRows(f)
  \/ AppendEvent(f) \/ MarkDelivered(f) \/ EndFlush(f)

Next ==
  \/ \E f \in Flushers : Commit(f) \/ Reopen(f) \/ Flush(f) \/ Fail(f)
  \/ \E p \in Processes : Crash(p)

Spec == Init /\ [][Next]_vars

(* Threads run, the lock is given to a waiting thread sooner or later, and *)
(* a project with pending events is opened again.                          *)
Fairness ==
  /\ \A f \in Flushers : WF_vars(Reopen(f)) /\ SF_vars(Acquire(f))
  /\ \A f \in Flushers :
       WF_vars(ReadFile(f) \/ ReadRows(f) \/ AppendEvent(f)
               \/ MarkDelivered(f) \/ EndFlush(f))

FairSpec == Spec /\ Fairness

----------------------------------------------------------------------------
(* An outbox row counts as delivered only when its event was written,      *)
(* whatever crashed and whoever else was flushing: the append comes before *)
(* the mark, and what was skipped had been read.  And it can be read from  *)
(* the file, where no write was torn.                                      *)
DeliveredIsInFile ==
  \A e \in delivered : \E i \in DOMAIN file :
    file[i] = e /\ (Tears \/ Readable(i))

(* Lines that go on into the next.                                         *)
Joints == {i \in unended : i < Len(file)}

(* In one process the file is the events in the order of their commits,    *)
(* each once, with nothing missing in between: a crash between the append  *)
(* and the mark neither duplicates an event nor lets a later one overtake  *)
(* it.  A part of an event can only be the last.  However many writes are  *)
(* torn, the file has one joint at most: two events are lost to a reader.  *)
AuditLogIsPrefix ==
  /\ \A i \in DOMAIN file : file[i] = i \/ (file[i] = Torn /\ i = Len(file))
  /\ \A i, j \in Joints : i = j

(* The events that were written whole, and those of them that nobody can   *)
(* read.  Used as `published` and `lost` of AuditTrail.                    *)
Published ==
  IF file # <<>> /\ file[Len(file)] = Torn THEN Len(file) - 1 ELSE Len(file)

Unreadable == {i \in Spoiled : file[i] # Torn}

(* The store of one process implements the audit trail: the file grows by  *)
(* exactly the next committed event, whatever crashes and fails, and once  *)
(* at most a torn write costs the newest event and the one after it.       *)
Trail == INSTANCE AuditTrail WITH published <- Published, lost <- Unreadable
ImplementsTrail == Trail!Spec

(* ADR-005: recovery flushes the remaining rows, so every committed event  *)
(* is delivered in the end; as long as no fault has spoiled a line.        *)
DeliveredUnlessTorn ==
  \A e \in 1..MaxEvents : (e <= committed) ~> (e \in delivered \/ Spoiled # {})
=============================================================================
