----------------------------- MODULE Telemetry -----------------------------
(***************************************************************************)
(* The telemetry of one process (observability/provider.py): spans and     *)
(* metrics go into a bounded buffer; a thread flushes it in batches to an  *)
(* exporter, which is external, may answer for part of a batch, fail, or   *)
(* not answer in time; shutdown() flushes and closes.                      *)
(*                                                                         *)
(* A record is TRUE when the exporter has answered for it.  Whether it has *)
(* it is its own affair: nothing here depends on it, and InMemoryExporter  *)
(* answers for the whole of a batch that it lets fail.  force_flush() and  *)
(* shutdown() are called by one thread, as everywhere in this code.  The   *)
(* spans here are sampled, and their attributes are in the allowlist.      *)
(***************************************************************************)
EXTENDS Naturals, Sequences

CONSTANTS
  Capacity,   (* ObservabilityConfig.buffer_capacity                       *)
  BatchSize,  (* ObservabilityConfig.batch_size                            *)
  MaxFlushes  (* bound: calls of force_flush() and shutdown()              *)

ASSUME TelemetryAssumption ==
  BatchSize \in Nat \ {0} /\ Capacity \in Nat /\ BatchSize <= Capacity /\ MaxFlushes \in Nat

FlushSteps == {"idle", "look", "export", "pop", "close"}

VARIABLES
  buffer,     (* _buffer                                                   *)
  shut,       (* _shutdown                                                 *)
  fat,        (* force_flush(): its step                                   *)
  batch,      (* ... the number of records it exports                      *)
  accepted,   (* ... and of those that the exporter says it accepted       *)
  closing,    (* ... called by shutdown()                                  *)
  flushes

flusher == <<fat, batch, accepted, closing>>
telemetryVars == <<buffer, shut, flusher, flushes>>

TelemetryTypeOK ==
  /\ buffer \in Seq(BOOLEAN) /\ Len(buffer) <= Capacity
  /\ shut \in BOOLEAN
  /\ fat \in FlushSteps /\ batch \in 0..BatchSize
  /\ accepted \in 0..Capacity /\ closing \in BOOLEAN
  /\ flushes \in 0..MaxFlushes

TelemetryInit ==
  /\ buffer = <<>> /\ shut = FALSE
  /\ fat = "idle" /\ batch = 0 /\ accepted = 0 /\ closing = FALSE
  /\ flushes = 0

----------------------------------------------------------------------------
Least(a, b) == IF a < b THEN a ELSE b

(* Mutant: a record waits until there is room for it.                      *)
EnqueueWaiting(n) ==
  /\ Len(buffer) + n <= Capacity
  /\ buffer' = buffer \o [i \in 1..n |-> FALSE]

(* Mutant: the oldest records make room.                                   *)
EnqueueOverOldest(n) ==
  LET all == buffer \o [i \in 1..n |-> FALSE]
      over == IF Len(all) > Capacity THEN Len(all) - Capacity ELSE 0
  IN buffer' = SubSeq(all, over + 1, Len(all))

(* _enqueue, n times: what finds the buffer full is dropped.               *)
Enqueue(n) ==
  buffer' = buffer \o [i \in 1..Least(n, Capacity - Len(buffer)) |-> FALSE]

(* A span is entered: the number of active operations is recorded.  After  *)
(* shutdown() there are no spans.                                          *)
EnterSpan ==
  /\ Enqueue(IF shut THEN 0 ELSE 1)
  /\ UNCHANGED <<shut, flusher, flushes>>

(* It ends: the span, its duration, its result, and again the number of    *)
(* active operations; only the span itself if shutdown() was in between.   *)
ExitSpan ==
  /\ Enqueue(IF shut THEN 1 ELSE 4)
  /\ UNCHANGED <<shut, flusher, flushes>>

----------------------------------------------------------------------------
(* The metrics of the telemetry itself come first.                         *)
ForceFlush(close) ==
  /\ fat = "idle" /\ flushes < MaxFlushes /\ flushes' = flushes + 1
  /\ fat' = "look" /\ closing' = close
  /\ Enqueue(IF shut THEN 0 ELSE 4)
  /\ UNCHANGED <<shut, batch, accepted>>

(* force_flush() returns; shutdown() then closes the exporter.             *)
FlushEnds ==
  /\ fat' = IF closing THEN "close" ELSE "idle"
  /\ batch' = 0 /\ accepted' = 0
  /\ UNCHANGED closing

(* The next batch is read under the lock; the deadline may be over.        *)
TakeBatch ==
  /\ fat = "look"
  /\ \/ FlushEnds
     \/ /\ buffer # <<>>
        /\ fat' = "export" /\ batch' = Least(BatchSize, Len(buffer))
        /\ UNCHANGED <<accepted, closing>>
  /\ UNCHANGED <<buffer, shut, flushes>>

(* It answers that it accepted n: what a success says counts as its whole  *)
(* batch, and nothing keeps another answer within the batch.               *)
ExportAnswers(n) ==
  /\ fat = "export"
  /\ buffer' = [i \in DOMAIN buffer |-> buffer[i] \/ i <= n]
  /\ IF n = 0
       THEN FlushEnds
       ELSE fat' = "pop" /\ accepted' = n /\ UNCHANGED <<batch, closing>>
  /\ UNCHANGED <<shut, flushes>>

(* It raises, or does not answer in time: the flush is given up, whatever  *)
(* the exporter has by then, or will have.                                 *)
ExportGivenUp ==
  /\ fat = "export" /\ FlushEnds
  /\ UNCHANGED <<buffer, shut, flushes>>

(* So many leave the buffer.                                               *)
Pop ==
  /\ fat = "pop" /\ fat' = "look" /\ batch' = 0 /\ accepted' = 0
  /\ buffer' = SubSeq(buffer, Least(accepted, Len(buffer)) + 1, Len(buffer))
  /\ UNCHANGED <<shut, closing, flushes>>

Close ==
  /\ fat = "close" /\ fat' = "idle"
  /\ shut' = TRUE /\ closing' = FALSE
  /\ UNCHANGED <<buffer, batch, accepted, flushes>>

Flushing ==
  \/ \E close \in BOOLEAN : ForceFlush(close)
  \/ TakeBatch \/ Pop \/ Close
  \/ \E n \in 0..Capacity : ExportAnswers(n)
  \/ ExportGivenUp

(* The process starts again: its buffer is gone.                           *)
TelemetryRestarts ==
  /\ buffer' = <<>> /\ shut' = FALSE
  /\ fat' = "idle" /\ batch' = 0 /\ accepted' = 0 /\ closing' = FALSE
  /\ UNCHANGED flushes

=============================================================================
