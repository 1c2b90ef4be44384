------------------------ MODULE AcceptanceProofs ------------------------
(***************************************************************************)
(* What a finished Run is accepted by: the verdicts of its verifiers, and  *)
(* the decision of a human.                                                *)
(*                                                                         *)
(* Verification: a verdict is true for good because three things never     *)
(* change: a frozen revision (LifecycleSteps), the job behind a handle     *)
(* once it has ended, and what a poll has read of it (JobsOK); no control  *)
(* changes any of them.                                                    *)
(*                                                                         *)
(* Decisions: a call owns its message from the moment it is kept until it  *)
(* is decided (OwnOK, OneDecides), and after that what a call has done is  *)
(* what no other call can undo (AfterOK, Grows).  The two modules have no  *)
(* state in common; each is proved for its own specification.              *)
(***************************************************************************)
EXTENDS Verification, Decisions, TLAPS

----------------------------------------------------------------------------
(* Verdicts.                                                               *)

(* How a job with a verdict has ended.                                     *)
Ended(verdict) == IF verdict = "passed" THEN {"passed"} ELSE {"failed", "cancelled"}

(* What each phase of a verification knows of its job and its revision.    *)
PhasesOK ==
  \A k \in Keys :
    /\ phase[k] # "done" => result[k] = None
    /\ phase[k] \in {"trigger", "pending", "poll", "report"} => lifecycle[used[k]] = "frozen"
    /\ phase[k] \in {"pending", "poll", "report"} => job[k] # None /\ k \in handles
    /\ phase[k] = "new" => job[k] = None
    /\ phase[k] = "report" => read[k] \in {"passed", "failed"} /\ job[k] \in Ended(read[k])

(* A verdict is that of a job, for a revision that is frozen.              *)
JobsOK ==
  \A k \in Keys : result[k] \in {"passed", "failed"} =>
    job[k] \in Ended(result[k]) /\ lifecycle[used[k]] = "frozen"

VerificationInv ==
  TypeOK /\ FrozenForOne /\ PhasesOK /\ JobsOK /\ JobsAreKnown

(* A step of the lifecycle: frozen is for good, hashes too, and no         *)
(* revision goes back.                                                     *)
Keeps ==
  \A v \in Revisions :
    /\ lifecycle[v] = "frozen" => lifecycle'[v] = "frozen"
    /\ lifecycle[v] # None => digest'[v] = digest[v]
    /\ Rank(lifecycle'[v]) >= Rank(lifecycle[v])

LEMMA RankRange ==
  /\ Rank(None) = 0 /\ Rank("draft") = 1 /\ Rank("validated") = 2 /\ Rank("tested") = 3
  /\ Rank("dry_run") = 4 /\ Rank("frozen") = 5
BY LifecycleAssumption DEF Rank, Lifecycles

LEMMA RankIsNat == ASSUME NEW s \in Lifecycles \cup {None} PROVE Rank(s) \in 0..5
BY RankRange DEF Lifecycles

----------------------------------------------------------------------------
LEMMA LifecycleTypes ==
  ASSUME LifecycleTypeOK, LifecycleNext
  PROVE  LifecycleTypeOK'
<1> USE LifecycleAssumption DEF LifecycleTypeOK, Lifecycles, Revisions, Contracts, rows,
   commands
<1>1. ASSUME NEW c \in Clients, Stage(c)
      PROVE  LifecycleTypeOK'
  <2>1. CASE Appends(revision[c])
    BY <1>1, <2>1 DEF Stage
  <2>2. CASE ~Appends(revision[c])
    <3>1. /\ command' \in [Clients -> {"idle", "stage", "validate"}]
          /\ revision' \in [Clients -> Revisions] /\ hashed' \in [Clients -> Digests \cup
             {None}]
      <4>1. Ends(c)
        BY <1>1, <2>2 DEF Stage
      <4>2. 1 \in Revisions
        OBVIOUS
      <4> QED  BY <4>1, <4>2 DEF Ends
    <3> QED  BY <1>1, <2>2, <3>1 DEF Stage
  <2> QED  BY <2>1, <2>2
<1>2. ASSUME NEW c \in Clients, Validate(c)
      PROVE  LifecycleTypeOK'
  <2>1. lifecycle' \in [Revisions -> Lifecycles \cup {None}]
    BY <1>2 DEF Validate
  <2> QED  BY <1>2, <2>1 DEF Validate, Ends
<1>3. ASSUME NEW c \in Clients, Die(c)
      PROVE  LifecycleTypeOK'
  BY <1>3 DEF Die, Ends
<1>4. ASSUME NEW c \in Clients, NEW v \in Revisions, Hash(c, v)
      PROVE  LifecycleTypeOK'
  BY <1>4 DEF Hash
<1>5. ASSUME NEW v \in Revisions, NEW to \in Lifecycles, Record(v, to)
      PROVE  LifecycleTypeOK'
  BY <1>5 DEF Record
<1>6. ASSUME NEW v \in Revisions, NEW k \in Contracts, Freeze(v, k)
      PROVE  LifecycleTypeOK'
  BY <1>6 DEF Freeze
<1>7. CASE NewContract
  BY <1>7 DEF NewContract
<1> QED  BY <1>1, <1>2, <1>3, <1>4, <1>5, <1>6, <1>7 DEF LifecycleNext

(* The rows of a revision change in four ways only.                        *)
LEMMA RowSteps ==
  ASSUME LifecycleTypeOK, LifecycleNext
  PROVE  \/ UNCHANGED rows
         \/ \E v \in Revisions, d \in Digests \cup {None} :
              /\ lifecycle[v] = None /\ lifecycle' = [lifecycle EXCEPT ![v] = "draft"]
              /\ digest' = [digest EXCEPT ![v] = d] /\ UNCHANGED binding
         \/ \E v \in Revisions, to \in Lifecycles :
              /\ Advances(v, to) /\ lifecycle' = [lifecycle EXCEPT ![v] = to]
              /\ UNCHANGED <<digest, binding>>
         \/ \E v \in Revisions, k \in Contracts : Freeze(v, k)
<1>1. ASSUME NEW c \in Clients, Stage(c), Appends(revision[c])
      PROVE  \E v \in Revisions, d \in Digests \cup {None} :
               /\ lifecycle[v] = None /\ lifecycle' = [lifecycle EXCEPT ![v] = "draft"]
               /\ digest' = [digest EXCEPT ![v] = d] /\ UNCHANGED binding
  BY <1>1 DEF LifecycleTypeOK, Stage, Appends
<1>2. ASSUME NEW c \in Clients, Stage(c), ~Appends(revision[c])
      PROVE  UNCHANGED rows
  BY <1>2 DEF Stage, rows
<1>3. ASSUME NEW c \in Clients, Validate(c), Advances(revision[c], "validated")
      PROVE  \E v \in Revisions, to \in Lifecycles :
               /\ Advances(v, to) /\ lifecycle' = [lifecycle EXCEPT ![v] = to]
               /\ UNCHANGED <<digest, binding>>
  <2>1. revision[c] \in Revisions /\ "validated" \in Lifecycles
    BY DEF LifecycleTypeOK, Lifecycles
  <2> QED  BY <1>3, <2>1 DEF Validate
<1>4. ASSUME NEW c \in Clients, Validate(c), ~Advances(revision[c], "validated")
      PROVE  UNCHANGED rows
  BY <1>4 DEF Validate, rows
<1>5. ASSUME NEW c \in Clients, Die(c)
      PROVE  UNCHANGED rows
  BY <1>5 DEF Die, rows
<1>6. ASSUME NEW c \in Clients, NEW v \in Revisions, Hash(c, v)
      PROVE  UNCHANGED rows
  BY <1>6 DEF Hash, rows
<1>7. ASSUME NEW v \in Revisions, NEW to \in Lifecycles, Record(v, to)
      PROVE  \E w \in Revisions, l \in Lifecycles :
               /\ Advances(w, l) /\ lifecycle' = [lifecycle EXCEPT ![w] = l]
               /\ UNCHANGED <<digest, binding>>
  BY <1>7 DEF Record
<1>8. CASE NewContract
  BY <1>8 DEF NewContract, rows
<1> QED  BY <1>1, <1>2, <1>3, <1>4, <1>5, <1>6, <1>7, <1>8 DEF LifecycleNext

LEMMA LifecycleSteps ==
  ASSUME LifecycleTypeOK, FrozenForOne, LifecycleNext
  PROVE  FrozenForOne' /\ Keeps
<1> USE LifecycleAssumption DEF LifecycleTypeOK
<1>1. CASE UNCHANGED rows
  BY <1>1, RankIsNat DEF rows, FrozenForOne, Keeps
<1>2. ASSUME NEW v \in Revisions, NEW d \in Digests \cup {None},
             lifecycle[v] = None, lifecycle' = [lifecycle EXCEPT ![v] = "draft"],
             digest' = [digest EXCEPT ![v] = d], UNCHANGED binding
      PROVE  FrozenForOne' /\ Keeps
  <2>1. FrozenForOne'
    BY <1>2 DEF FrozenForOne, Lifecycles
  <2>2. Keeps
    BY <1>2, RankIsNat, RankRange DEF Keeps, Lifecycles
  <2> QED  BY <2>1, <2>2
<1>3. ASSUME NEW v \in Revisions, NEW to \in Lifecycles, Advances(v, to),
             lifecycle' = [lifecycle EXCEPT ![v] = to], UNCHANGED <<digest, binding>>
      PROVE  FrozenForOne' /\ Keeps
  <2>1. FrozenForOne'
    BY <1>3 DEF FrozenForOne, Advances
  <2>2. Keeps
    BY <1>3, RankIsNat, RankRange DEF Keeps, Advances
  <2> QED  BY <2>1, <2>2
<1>4. ASSUME NEW v \in Revisions, NEW k \in Contracts, Freeze(v, k)
      PROVE  FrozenForOne' /\ Keeps
  <2>1. FrozenForOne'
    <3> SUFFICES ASSUME NEW w \in Revisions
                 PROVE  IF lifecycle'[w] = "frozen"
                          THEN \E i \in Contracts : \A j \in Contracts : binding'[j] = w <=> j
                             = i
                          ELSE \A j \in Contracts : binding'[j] # w
      BY DEF FrozenForOne
    <3>1. /\ lifecycle' = [lifecycle EXCEPT ![v] = "frozen"]
          /\ binding' = [binding EXCEPT ![k] = v]
          /\ binding[k] = 0 /\ lifecycle[v] = "dry_run"
      BY <1>4 DEF Freeze, Freezable
    <3>2. CASE w = v
      <4>1. \A j \in Contracts : binding[j] # v
        BY <3>1 DEF FrozenForOne
      <4>2. lifecycle'[w] = "frozen" /\ \A j \in Contracts : binding'[j] = w <=> j = k
        BY <3>1, <3>2, <4>1
      <4> QED  BY <4>2
    <3>3. CASE w # v
      <4>1. lifecycle'[w] = lifecycle[w] /\ w # 0
        BY <3>1, <3>3 DEF Revisions
      <4>2. \A j \in Contracts : binding'[j] = w <=> binding[j] = w
        BY <3>1, <3>3, <4>1
      <4> QED  BY <4>1, <4>2 DEF FrozenForOne
    <3> QED  BY <3>2, <3>3
  <2>2. Keeps
    BY <1>4, RankIsNat, RankRange DEF Keeps, Freeze, Freezable
  <2> QED  BY <2>1, <2>2
<1> QED  BY <1>1, <1>2, <1>3, <1>4, RowSteps

----------------------------------------------------------------------------
(* What a step leaves alone of the controls, it leaves alone one by one.   *)
USE DEF controls

(* A step of the lifecycle does not disturb a verification.                *)
LEMMA LifecycleKeeps ==
  ASSUME VerificationInv, LifecycleNext, UNCHANGED <<pipeline, faults>>
  PROVE  VerificationInv'
<1>1. TypeOK'
  BY LifecycleTypes DEF VerificationInv, TypeOK, pipeline
<1>2. FrozenForOne' /\ Keeps
  BY LifecycleSteps DEF VerificationInv, TypeOK
<1>3. PhasesOK'
  BY <1>2 DEF VerificationInv, TypeOK, PhasesOK, Keeps, pipeline
<1>4. JobsOK'
  BY <1>2 DEF VerificationInv, TypeOK, JobsOK, Keeps, pipeline
<1>5. JobsAreKnown'
  BY DEF VerificationInv, JobsAreKnown, pipeline
<1> QED  BY <1>1, <1>2, <1>3, <1>4, <1>5 DEF VerificationInv

LEMMA EditKeeps ==
  ASSUME VerificationInv, NEW d \in Digests, Edit(d), UNCHANGED <<pipeline, faults>>
  PROVE  VerificationInv'
<1>1. TypeOK'
  BY LifecycleAssumption
     DEF VerificationInv, TypeOK, LifecycleTypeOK, Edit, rows, commands, pipeline
<1> QED  BY <1>1 DEF VerificationInv, FrozenForOne, PhasesOK, JobsOK, JobsAreKnown, Edit,
                     rows, pipeline

(* The lifecycle is the same before and after every other step.            *)
LEMMA LifecycleSame ==
  ASSUME VerificationInv, UNCHANGED lifecycleVars
  PROVE  LifecycleTypeOK' /\ FrozenForOne' /\ lifecycle' = lifecycle
BY DEF VerificationInv, TypeOK, LifecycleTypeOK, FrozenForOne, lifecycleVars, rows, commands

LEMMA ExecuteKeeps ==
  ASSUME VerificationInv, NEW k \in Keys, Execute(k)
  PROVE  VerificationInv'
<1>1. LifecycleTypeOK' /\ FrozenForOne' /\ lifecycle' = lifecycle
  BY LifecycleSame DEF Execute
<1>2. TypeOK'
  BY <1>1, VerificationAssumption DEF VerificationInv, TypeOK, Phases, Results, JobStates,
     Controls, Execute, VerifyFrozen, Goto, Done
<1>3. PhasesOK'
  BY <1>1, VerificationAssumption DEF VerificationInv, TypeOK, PhasesOK, Ended,
     JobStates, Execute,
     VerifyFrozen, Goto, Done
<1>4. JobsOK'
  BY <1>1, VerificationAssumption DEF VerificationInv, TypeOK, PhasesOK, JobsOK, Ended, JobStates,
     Execute, VerifyFrozen, Goto, Done
<1>5. JobsAreKnown'
  BY DEF VerificationInv, TypeOK, PhasesOK, JobsAreKnown, Execute, VerifyFrozen, Goto, Done
<1> QED  BY <1>1, <1>2, <1>3, <1>4, <1>5 DEF VerificationInv

LEMMA TriggerKeeps ==
  ASSUME VerificationInv, NEW k \in Keys, Trigger(k)
  PROVE  VerificationInv'
<1>1. LifecycleTypeOK' /\ FrozenForOne' /\ lifecycle' = lifecycle
  BY LifecycleSame DEF Trigger
<1>2. TypeOK'
  BY <1>1, VerificationAssumption DEF VerificationInv, TypeOK, Phases, Results, JobStates,
     Controls, Trigger, Started, Goto
<1>3. PhasesOK'
  BY <1>1, VerificationAssumption DEF VerificationInv, TypeOK, PhasesOK, Ended,
     JobStates, Trigger,
     Started, Goto
<1>4. JobsOK'
  BY <1>1, VerificationAssumption DEF VerificationInv, TypeOK, PhasesOK, JobsOK, Ended, JobStates,
     Trigger, Started, Goto
<1>5. JobsAreKnown'
  BY DEF VerificationInv, TypeOK, PhasesOK, JobsAreKnown, Trigger, Started, Goto
<1> QED  BY <1>1, <1>2, <1>3, <1>4, <1>5 DEF VerificationInv

LEMMA TriggerFailsKeeps ==
  ASSUME VerificationInv, NEW k \in Keys, TriggerFails(k)
  PROVE  VerificationInv'
<1>1. LifecycleTypeOK' /\ FrozenForOne' /\ lifecycle' = lifecycle
  BY LifecycleSame DEF TriggerFails
<1>2. TypeOK'
  BY <1>1, VerificationAssumption DEF VerificationInv, TypeOK, Phases, Results, JobStates,
     Controls, TriggerFails, Fault, Started, Goto, Done
<1>3. PhasesOK'
  BY <1>1, VerificationAssumption DEF VerificationInv, TypeOK, PhasesOK, Ended, JobStates,
     TriggerFails, Fault, Started, Goto, Done
<1>4. JobsOK'
  BY <1>1, VerificationAssumption DEF VerificationInv, TypeOK, PhasesOK, JobsOK, Ended, JobStates,
     TriggerFails, Fault, Started, Goto, Done
<1>5. JobsAreKnown'
  BY DEF VerificationInv, TypeOK, PhasesOK, JobsAreKnown, TriggerFails, Fault, Started,
     Goto, Done
<1> QED  BY <1>1, <1>2, <1>3, <1>4, <1>5 DEF VerificationInv

LEMMA QueryKeeps ==
  ASSUME VerificationInv, NEW k \in Keys, Query(k)
  PROVE  VerificationInv'
<1>1. LifecycleTypeOK' /\ FrozenForOne' /\ lifecycle' = lifecycle
  BY LifecycleSame DEF Query
<1>2. TypeOK'
  BY <1>1, VerificationAssumption DEF VerificationInv, TypeOK, Phases, Results, JobStates,
     Controls, Query, VerifyFrozen, Goto
<1>3. PhasesOK'
  BY <1>1, VerificationAssumption DEF VerificationInv, TypeOK, PhasesOK, Ended,
     JobStates, Query,
     VerifyFrozen, Goto
<1>4. JobsOK'
  BY <1>1, VerificationAssumption DEF VerificationInv, TypeOK, PhasesOK, JobsOK, Ended, JobStates,
     Query, VerifyFrozen, Goto
<1>5. JobsAreKnown'
  BY DEF VerificationInv, TypeOK, PhasesOK, JobsAreKnown, Query, VerifyFrozen, Goto
<1> QED  BY <1>1, <1>2, <1>3, <1>4, <1>5 DEF VerificationInv

LEMMA PollKeeps ==
  ASSUME VerificationInv, NEW k \in Keys, Poll(k)
  PROVE  VerificationInv'
<1>1. LifecycleTypeOK' /\ FrozenForOne' /\ lifecycle' = lifecycle
  BY LifecycleSame DEF Poll
<1>2. TypeOK'
  BY <1>1, VerificationAssumption DEF VerificationInv, TypeOK, Phases, Results, JobStates,
     Controls, Poll, Answered, Goto, Done
<1>3. PhasesOK'
  BY <1>1, VerificationAssumption DEF VerificationInv, TypeOK, PhasesOK, Ended,
     JobStates, Poll,
     Answered, Goto, Done
<1>4. JobsOK'
  BY <1>1, VerificationAssumption DEF VerificationInv, TypeOK, PhasesOK, JobsOK, Ended, JobStates,
     Poll, Answered, Goto, Done
<1>5. JobsAreKnown'
  BY DEF VerificationInv, TypeOK, PhasesOK, JobsAreKnown, Poll, Answered, Goto, Done
<1> QED  BY <1>1, <1>2, <1>3, <1>4, <1>5 DEF VerificationInv

LEMMA ReportKeeps ==
  ASSUME VerificationInv, NEW k \in Keys, Report(k)
  PROVE  VerificationInv'
<1>1. LifecycleTypeOK' /\ FrozenForOne' /\ lifecycle' = lifecycle
  BY LifecycleSame DEF Report
<1>2. TypeOK'
  BY <1>1 DEF VerificationInv, TypeOK, PhasesOK, Phases, Results, Report, Goto, Done
<1>3. PhasesOK'
  BY <1>1, VerificationAssumption DEF VerificationInv, TypeOK, PhasesOK, Ended,
     JobStates, Report,
     Goto, Done
<1>4. JobsOK'
  BY <1>1, VerificationAssumption DEF VerificationInv, TypeOK, PhasesOK, JobsOK, Ended, JobStates,
     Report, Goto, Done
<1>5. JobsAreKnown'
  BY DEF VerificationInv, TypeOK, PhasesOK, JobsAreKnown, Report, Goto, Done
<1> QED  BY <1>1, <1>2, <1>3, <1>4, <1>5 DEF VerificationInv

LEMMA PollFailsKeeps ==
  ASSUME VerificationInv, NEW k \in Keys, PollFails(k)
  PROVE  VerificationInv'
<1>1. LifecycleTypeOK' /\ FrozenForOne' /\ lifecycle' = lifecycle
  BY LifecycleSame DEF PollFails
<1>2. TypeOK'
  BY <1>1, VerificationAssumption DEF VerificationInv, TypeOK, Phases, Results, JobStates,
     Controls, PollFails, Fault, Goto, Done
<1>3. PhasesOK'
  BY <1>1, VerificationAssumption DEF VerificationInv, TypeOK, PhasesOK, Ended,
     JobStates, PollFails,
     Fault, Goto, Done
<1>4. JobsOK'
  BY <1>1, VerificationAssumption DEF VerificationInv, TypeOK, PhasesOK, JobsOK, Ended, JobStates,
     PollFails, Fault, Goto, Done
<1>5. JobsAreKnown'
  BY DEF VerificationInv, TypeOK, PhasesOK, JobsAreKnown, PollFails, Fault, Goto, Done
<1> QED  BY <1>1, <1>2, <1>3, <1>4, <1>5 DEF VerificationInv

LEMMA ControlKeeps ==
  ASSUME VerificationInv, NEW k \in Keys, NEW what \in {"interrupt", "cancel"}, Control(k, what)
  PROVE  VerificationInv'
<1>1. LifecycleTypeOK' /\ FrozenForOne' /\ lifecycle' = lifecycle
  BY LifecycleSame DEF Control
<1>2. TypeOK'
  BY <1>1, VerificationAssumption DEF VerificationInv, TypeOK, Phases, Results, JobStates,
     Controls, Control
<1>3. PhasesOK'
  BY <1>1, VerificationAssumption DEF VerificationInv, TypeOK, PhasesOK, Ended, JobStates,
     Control
<1>4. JobsOK'
  BY <1>1, VerificationAssumption DEF VerificationInv, TypeOK, PhasesOK, JobsOK, Ended, JobStates,
     Control
<1>5. JobsAreKnown'
  BY DEF VerificationInv, TypeOK, PhasesOK, JobsAreKnown, Control
<1> QED  BY <1>1, <1>2, <1>3, <1>4, <1>5 DEF VerificationInv

LEMMA CancelKeeps ==
  ASSUME VerificationInv, NEW k \in Keys, Cancel(k)
  PROVE  VerificationInv'
<1>1. LifecycleTypeOK' /\ FrozenForOne' /\ lifecycle' = lifecycle
  BY LifecycleSame DEF Cancel
<1>2. TypeOK'
  BY <1>1, VerificationAssumption DEF VerificationInv, TypeOK, Phases, Results, JobStates,
     Controls, Cancel
<1>3. PhasesOK'
  BY <1>1, VerificationAssumption DEF VerificationInv, TypeOK, PhasesOK, Ended, JobStates,
     Cancel
<1>4. JobsOK'
  BY <1>1, VerificationAssumption DEF VerificationInv, TypeOK, PhasesOK, JobsOK, Ended, JobStates,
     Cancel
<1>5. JobsAreKnown'
  BY DEF VerificationInv, TypeOK, PhasesOK, JobsAreKnown, Cancel
<1> QED  BY <1>1, <1>2, <1>3, <1>4, <1>5 DEF VerificationInv

LEMMA JobCancelledKeeps ==
  ASSUME VerificationInv, NEW k \in Keys, JobCancelled(k)
  PROVE  VerificationInv'
<1>1. LifecycleTypeOK' /\ FrozenForOne' /\ lifecycle' = lifecycle
  BY LifecycleSame DEF JobCancelled
<1>2. TypeOK'
  BY <1>1, VerificationAssumption DEF VerificationInv, TypeOK, Phases, Results, JobStates,
     Controls, JobCancelled
<1>3. PhasesOK'
  BY <1>1, VerificationAssumption DEF VerificationInv, TypeOK, PhasesOK, Ended, JobStates,
     JobCancelled
<1>4. JobsOK'
  BY <1>1, VerificationAssumption DEF VerificationInv, TypeOK, PhasesOK, JobsOK, Ended, JobStates,
     JobCancelled
<1>5. JobsAreKnown'
  BY DEF VerificationInv, TypeOK, PhasesOK, JobsAreKnown, JobCancelled
<1> QED  BY <1>1, <1>2, <1>3, <1>4, <1>5 DEF VerificationInv

LEMMA StopKeeps ==
  ASSUME VerificationInv, NEW k \in Keys, Stop(k)
  PROVE  VerificationInv'
<1>1. LifecycleTypeOK' /\ FrozenForOne' /\ lifecycle' = lifecycle
  BY LifecycleSame DEF Stop
<1>2. TypeOK'
  BY <1>1, VerificationAssumption DEF VerificationInv, TypeOK, Phases, Results, JobStates,
     Controls, Stop, Goto, Done
<1>3. PhasesOK'
  BY <1>1, VerificationAssumption DEF VerificationInv, TypeOK, PhasesOK, Ended, JobStates,
     Stop, Goto, Done
<1>4. JobsOK'
  BY <1>1, VerificationAssumption DEF VerificationInv, TypeOK, PhasesOK, JobsOK, Ended, JobStates,
     Stop, Goto, Done
<1>5. JobsAreKnown'
  BY DEF VerificationInv, TypeOK, PhasesOK, JobsAreKnown, Stop, Goto, Done
<1> QED  BY <1>1, <1>2, <1>3, <1>4, <1>5 DEF VerificationInv

LEMMA JobEndsKeeps ==
  ASSUME VerificationInv, NEW k \in Keys, JobEnds(k)
  PROVE  VerificationInv'
<1>1. LifecycleTypeOK' /\ FrozenForOne' /\ lifecycle' = lifecycle
  BY LifecycleSame DEF JobEnds
<1>2. TypeOK'
  BY <1>1, VerificationAssumption DEF VerificationInv, TypeOK, Phases, Results, JobStates,
     Controls, JobEnds
<1>3. PhasesOK'
  BY <1>1, VerificationAssumption DEF VerificationInv, TypeOK, PhasesOK, Ended,
     JobStates, JobEnds
<1>4. JobsOK'
  BY <1>1, VerificationAssumption DEF VerificationInv, TypeOK, PhasesOK, JobsOK, Ended, JobStates,
     JobEnds
<1>5. JobsAreKnown'
  BY VerificationAssumption
     DEF VerificationInv, TypeOK, PhasesOK, JobsAreKnown, JobStates, JobEnds
<1> QED  BY <1>1, <1>2, <1>3, <1>4, <1>5 DEF VerificationInv

LEMMA TimeKeeps ==
  ASSUME VerificationInv, NEW k \in Keys, Time(k)
  PROVE  VerificationInv'
<1>1. LifecycleTypeOK' /\ FrozenForOne' /\ lifecycle' = lifecycle
  BY LifecycleSame DEF Time
<1>2. TypeOK'
  BY <1>1, VerificationAssumption DEF VerificationInv, TypeOK, Phases, Results, JobStates, Time
<1>3. PhasesOK'
  BY <1>1, VerificationAssumption DEF VerificationInv, TypeOK, PhasesOK, Ended,
     JobStates, Time
<1>4. JobsOK'
  BY <1>1, VerificationAssumption DEF VerificationInv, TypeOK, PhasesOK, JobsOK, Ended,
     JobStates, Time
<1>5. JobsAreKnown'
  BY DEF VerificationInv, TypeOK, PhasesOK, JobsAreKnown, Time
<1> QED  BY <1>1, <1>2, <1>3, <1>4, <1>5 DEF VerificationInv

LEMMA CrashKeeps ==
  ASSUME VerificationInv, Crash
  PROVE  VerificationInv'
<1>1. LifecycleTypeOK' /\ FrozenForOne' /\ lifecycle' = lifecycle
  BY LifecycleSame DEF Crash
<1>2. TypeOK'
  BY <1>1, VerificationAssumption DEF VerificationInv, TypeOK, Phases, Results, JobStates,
     Controls, Crash, Fault
<1>3. PhasesOK'
  BY <1>1, VerificationAssumption DEF VerificationInv, TypeOK, PhasesOK, Ended,
     JobStates, Crash, Fault
<1>4. JobsOK'
  BY <1>1, VerificationAssumption DEF VerificationInv, TypeOK, PhasesOK, JobsOK, Ended, JobStates,
     Crash, Fault
<1>5. JobsAreKnown'
  BY DEF VerificationInv, TypeOK, PhasesOK, JobsAreKnown, Crash, Fault
<1> QED  BY <1>1, <1>2, <1>3, <1>4, <1>5 DEF VerificationInv

----------------------------------------------------------------------------
LEMMA InvInit == Init => VerificationInv
<1> SUFFICES ASSUME Init PROVE VerificationInv
  OBVIOUS
<1>1. TypeOK
  <2>1. 1 \in Revisions /\ 1 \in Contracts /\ 0 \in 0..MaxEdits
    BY LifecycleAssumption DEF Revisions, Contracts
  <2>2. LifecycleTypeOK
    BY <2>1 DEF Init, LifecycleInit, LifecycleTypeOK
  <2>3. 0 \in 0..MaxRetries /\ 0 \in 0..MaxFaults
    BY VerificationAssumption
  <2> QED  BY <2>2, <2>3 DEF Init, TypeOK, Phases, Controls
<1>2. FrozenForOne
  BY LifecycleAssumption DEF Init, LifecycleInit, FrozenForOne, Revisions, Contracts, Lifecycles
<1>3. PhasesOK /\ JobsOK /\ JobsAreKnown
  BY VerificationAssumption
     DEF Init, PhasesOK, JobsOK, JobsAreKnown, Results, JobStates
<1> QED  BY <1>1, <1>2, <1>3 DEF VerificationInv

LEMMA InvNext ==
  ASSUME VerificationInv, [Next]_vars
  PROVE  VerificationInv'
<1>1. ASSUME NEW k \in Keys, Proceed(k)
      PROVE  VerificationInv'
  BY <1>1, ExecuteKeeps, TriggerKeeps, QueryKeeps, PollKeeps, ReportKeeps, StopKeeps DEF Proceed
<1>2. ASSUME NEW k \in Keys, TriggerFails(k) \/ PollFails(k)
      PROVE  VerificationInv'
  BY <1>2, TriggerFailsKeeps, PollFailsKeeps
<1>3. ASSUME NEW k \in Keys, JobCancelled(k) \/ JobEnds(k) \/ Time(k)
      PROVE  VerificationInv'
  BY <1>3, JobCancelledKeeps, JobEndsKeeps, TimeKeeps
<1>7. ASSUME NEW k \in Keys, Control(k, "interrupt") \/ Control(k, "cancel") \/ Cancel(k)
      PROVE  VerificationInv'
  BY <1>7, ControlKeeps, CancelKeeps
<1>4. CASE LifecycleNext /\ UNCHANGED <<pipeline, faults>>
  BY <1>4, LifecycleKeeps
<1>5. CASE (\E d \in Digests : Edit(d)) /\ UNCHANGED <<pipeline, faults>>
  BY <1>5, EditKeeps
<1>6. CASE UNCHANGED vars
  <2>1. LifecycleTypeOK' /\ FrozenForOne' /\ lifecycle' = lifecycle
    BY <1>6, LifecycleSame DEF vars
  <2> QED  BY <1>6, <2>1 DEF VerificationInv, TypeOK, PhasesOK, JobsOK, JobsAreKnown, vars,
                             controls, pipeline
<1> QED  BY <1>1, <1>2, <1>3, <1>4, <1>5, <1>6, <1>7, CrashKeeps DEF Next

HIDE DEF controls

(* What each phase of a verification knows of its job, its handle and its  *)
(* revision is kept by every step (PhasesOK, JobsOK, JobsAreKnown).        *)
THEOREM VerificationInvariant == Spec => []VerificationInv
<1> QED  BY InvInit, InvNext, PTL DEF Spec

(* Revisions, commands and verifications are well formed.                  *)
THEOREM TypeCorrect == Spec => []TypeOK
<1>1. VerificationInv => TypeOK
  BY DEF VerificationInv
<1> QED  BY <1>1, VerificationInvariant, PTL

(* A frozen revision is bound by exactly one revision of the Contract, and *)
(* no other is bound, whatever commands and Contracts meet (freeze).       *)
THEOREM RevisionsAreFrozenForOne == Spec => []FrozenForOne
<1>1. VerificationInv => FrozenForOne
  BY DEF VerificationInv
<1> QED  BY <1>1, VerificationInvariant, PTL

(* A verdict is that of the job of its key, for a revision that a Contract *)
(* binds, through every edit, failed request and restart (poll).           *)
THEOREM VerdictsAreBacked == Spec => []VerdictIsBacked
<1>1. VerificationInv => VerdictIsBacked
  <2> SUFFICES ASSUME VerificationInv, NEW k \in Keys, result[k] \in {"passed", "failed"}
               PROVE  job[k] \in Ended(result[k]) /\ \E c \in Contracts : binding[c] = used[k]
    BY DEF VerdictIsBacked, Ended
  <2>1. job[k] \in Ended(result[k]) /\ lifecycle[used[k]] = "frozen"
    BY DEF VerificationInv, JobsOK
  <2>2. used[k] \in Revisions
    BY DEF VerificationInv, TypeOK
  <2> QED  BY <2>1, <2>2 DEF VerificationInv, FrozenForOne
<1> QED  BY <1>1, VerificationInvariant, PTL

(* A job that was started is about to have a handle, has one, or its       *)
(* verification is an error (_persist_result, _recover).                   *)
THEOREM JobsHaveHandles == Spec => []JobsAreKnown
<1>1. VerificationInv => JobsAreKnown
  BY DEF VerificationInv
<1> QED  BY <1>1, VerificationInvariant, PTL

(* What was staged is immutable: no later command changes the hashes of a  *)
(* revision or takes its lifecycle back (stage, record).                   *)
THEOREM StagedStays == Spec => StagedIsImmutable
<1>1. ASSUME VerificationInv, [Next]_vars
      PROVE  [Keeps]_lifecycleVars
  <2>1. CASE LifecycleNext
    BY <1>1, <2>1, LifecycleSteps DEF VerificationInv, TypeOK
  <2>2. ASSUME NEW d \in Digests, Edit(d)
        PROVE  Keeps
    BY <1>1, <2>2, RankIsNat DEF VerificationInv, TypeOK, LifecycleTypeOK, Keeps, Edit, rows
  <2>3. CASE UNCHANGED lifecycleVars
    BY <2>3
  <2> QED  BY <1>1, <2>1, <2>2, <2>3
           DEF Next, vars, Proceed, Execute, Trigger, TriggerFails, Query, Poll, Report,
               PollFails, Control, Cancel, Stop, Crash, JobCancelled, JobEnds, Time
<1>2. ASSUME Keeps
      PROVE  \A v \in Revisions : /\ lifecycle[v] # None => digest'[v] = digest[v]
                                  /\ Rank(lifecycle'[v]) >= Rank(lifecycle[v])
  BY <1>2 DEF Keeps
<1> QED  BY <1>1, <1>2, VerificationInvariant, PTL DEF Spec, StagedIsImmutable

----------------------------------------------------------------------------
(* Human decisions.                                                        *)

(* Proposals and confirmations are calls of the service.                   *)
CallOK(c) ==
  pc[c] # "idle" =>
    /\ call[c] \in Call
    /\ call[c].kind \in {"propose", "confirm"} => c = Service
    /\ pc[c] = "receive" => call[c].kind \in {"propose", "confirm"}
    /\ pc[c] = "pend" => call[c].kind = "propose"
    /\ pc[c] \in {"look", "settle"} => call[c].kind = "confirm"

(* A decision that is under way owns its message, which was received for   *)
(* it and is not decided yet, and the successor that it has frozen.        *)
Deciding == {"delta", "plan", "record"}

OwnOK(c) ==
  pc[c] \in Deciding =>
    /\ Id(c) \in received /\ record[Id(c)] = Nil
    /\ pc[c] = "delta" => call[c].action # "accept"
    /\ pc[c] = "plan" => successor = Id(c) /\ call[c].action = "revise"
    /\ pc[c] = "record" =>
         /\ call[c].action # "accept" => successor = Id(c)
         /\ call[c].action = "revise" => planned

OneDecides ==
  \A c, d \in Callers :
    (pc[c] \in Deciding /\ pc[d] \in Deciding /\ Id(c) = Id(d)) => c = d

(* What is on record was received, and the successor that it names is its  *)
(* own; what is published is the successor.                                *)
LineageOK ==
  /\ \A m \in Messages : record[m] # Nil =>
       /\ m \in received
       /\ record[m] # "accept" => successor = m
       /\ record[m] = "revise" => planned
  /\ published # Nil => published = successor

(* A decision that is where the next start looks for it.                   *)
Copied(m) ==
  /\ record[m] # Nil
  /\ record[m] # "accept" => published = m
  /\ record[m] = "revise" => offered

AfterOK(c) ==
  /\ pc[c] = "copy" => record[Id(c)] # Nil
  /\ pc[c] \in {"facts", "report", "settle"} => Copied(Id(c))
  /\ pc[c] = "report" => Id(c) \in facts[c]
  /\ pc[c] = "settle" => Id(c) \in reported

(* A confirmation past its look has a proposal that nobody has confirmed.  *)
ProposalsOK ==
  /\ \A p \in Messages :
       /\ pending[p] # Nil => p \in heard
       /\ confirmed[p] # {} => pending[p] = "applied"
  /\ pc[Service] = "pend" => Id(Service) \in heard /\ pending[Id(Service)] = Nil
  /\ (pc[Service] \notin {"idle", "receive", "look"} /\ call[Service].kind = "confirm") =>
       pending[call[Service].proposal] = "pending"

DecisionsInv ==
  /\ DecisionsTypeOK
  /\ \A c \in Callers : CallOK(c) /\ OwnOK(c) /\ AfterOK(c)
  /\ OneDecides /\ LineageOK /\ ProposalsOK
  /\ DecidedIsDelivered /\ ConfirmedOnce

LEMMA NilIsNothing ==
  /\ \A m \in Messages : m # Nil
  /\ Nil \notin Actions /\ Nil # "pending" /\ Nil # "applied"
BY DecisionAssumption DEF Answers

LEMMA ServiceCalls == Service \in Callers
BY DEF Callers

LEMMA DecisionsInitInv == DecisionsInit => DecisionsInv
<1> SUFFICES ASSUME DecisionsInit PROVE DecisionsInv
  OBVIOUS
<1>1. conversed \in BOOLEAN /\ planned \in BOOLEAN /\ offered \in BOOLEAN
  BY DEF DecisionsInit
<1>2. /\ received \subseteq Messages /\ heard \subseteq Messages
      /\ successor \in Messages \cup {Nil} /\ published \in Messages \cup {Nil}
      /\ record \in [Messages -> Actions \cup {Nil}]
      /\ reports \in Nat /\ folders \in Nat /\ reported \subseteq Messages
  BY DEF DecisionsInit
<1>3. /\ pending \in [Messages -> {"pending", "applied", Nil}]
      /\ proposed \in [Messages -> Actions \cup {Nil}]
      /\ expired \subseteq Messages
      /\ pc \in [Callers -> Steps]
      /\ call \in [Callers -> Call \cup {Nil}]
      /\ facts \in [Callers -> SUBSET Messages]
      /\ confirmed \in [Messages -> SUBSET Messages]
      /\ told \in [Endings -> SUBSET Messages]
  BY DEF DecisionsInit, Steps
<1>4. usedIds \in Messages \cup {0} /\ callFaults \in 0..MaxCallFaults /\ made \in 0..MaxCalls
  BY DecisionAssumption DEF DecisionsInit
<1>5. \A c \in Callers : CallOK(c) /\ OwnOK(c) /\ AfterOK(c)
  BY DEF DecisionsInit, CallOK, OwnOK, AfterOK, Deciding
<1>6. OneDecides /\ LineageOK /\ ProposalsOK /\ DecidedIsDelivered /\ ConfirmedOnce
  BY ServiceCalls
     DEF DecisionsInit, OneDecides, Deciding, LineageOK, ProposalsOK, DecidedIsDelivered,
         ConfirmedOnce, Endings
<1>7. QED
  BY <1>1, <1>2, <1>3, <1>4, <1>5, <1>6 DEF DecisionsInv, DecisionsTypeOK

----------------------------------------------------------------------------
(* What a step leaves alone.                                               *)
Alone(c) ==
  /\ pc' \in [Callers -> Steps] /\ call' \in [Callers -> Call \cup {Nil}]
  /\ facts' \in [Callers -> SUBSET Messages]
  /\ \A d \in Callers \ {c} : pc'[d] = pc[d] /\ call'[d] = call[d] /\ facts'[d] = facts[d]

LEMMA GoesOn ==
  ASSUME DecisionsTypeOK, NEW c \in Callers, NEW step \in Steps, GoOn(c, step)
  PROVE  /\ Alone(c) /\ pc'[c] = step
         /\ call' = call /\ facts' = facts /\ told' = told
BY DEF DecisionsTypeOK, GoOn, Alone

LEMMA Returns ==
  ASSUME DecisionsTypeOK, NEW c \in Callers, CallOK(c), pc[c] # "idle", NEW what, Return(c, what)
  PROVE  /\ Alone(c) /\ pc'[c] = "idle"
         /\ told' \in [Endings -> SUBSET Messages]
         /\ \A w \in Endings : told'[w] = IF what = w THEN told[w] \cup {Id(c)} ELSE told[w]
<1>1. /\ pc' \in [Callers -> Steps] /\ call' \in [Callers -> Call \cup {Nil}]
      /\ facts' \in [Callers -> SUBSET Messages] /\ pc'[c] = "idle"
  BY DEF DecisionsTypeOK, Return, Steps
<1>2. \A d \in Callers \ {c} : pc'[d] = pc[d] /\ call'[d] = call[d] /\ facts'[d] = facts[d]
  BY DEF DecisionsTypeOK, Return
<1>3. Id(c) \in Messages
  BY DEF CallOK, Call, Id
<1>4. told' = [w \in Endings |-> IF w = what THEN told[w] \cup {Id(c)} ELSE told[w]]
  BY DEF Return, Id
<1>5. told' \in [Endings -> SUBSET Messages]
  BY <1>3, <1>4 DEF DecisionsTypeOK
<1>6. \A w \in Endings : told'[w] = IF what = w THEN told[w] \cup {Id(c)} ELSE told[w]
  BY <1>4
<1>7. QED
  BY <1>1, <1>2, <1>5, <1>6 DEF Alone

(* What is decided, frozen, planned, published or reported stays.          *)
Grows ==
  /\ received \subseteq received' /\ reported \subseteq reported'
  /\ \A m \in Messages : record[m] # Nil => record'[m] = record[m]
  /\ successor # Nil => successor' = successor
  /\ published # Nil => published' = published
  /\ planned => planned'
  /\ offered => offered'

LEMMA CopiedStays ==
  ASSUME Grows, NEW m \in Messages, Copied(m) PROVE Copied(m)'
BY NilIsNothing DEF Grows, Copied

(* A step of one call: the others know what they knew.                     *)
LEMMA OthersKeep ==
  ASSUME DecisionsInv, NEW c \in Callers, Alone(c), Grows,
         \A m \in Messages : record'[m] = record[m] \/ (m = Id(c) /\ pc[c] = "record"),
         NEW d \in Callers \ {c}
  PROVE  CallOK(d)' /\ OwnOK(d)' /\ AfterOK(d)'
<1>1. CallOK(d) /\ OwnOK(d) /\ AfterOK(d)
  BY DEF DecisionsInv
<1>2. pc'[d] = pc[d] /\ call'[d] = call[d] /\ facts'[d] = facts[d] /\ Id(d)' = Id(d)
  BY DEF Alone, Id
<1>3. CallOK(d)'
  BY <1>1, <1>2 DEF CallOK
<1>4. pc[d] # "idle" => Id(d) \in Messages
  BY <1>1 DEF CallOK, Call, Id
<1>5. OwnOK(d)'
  <2> SUFFICES ASSUME pc[d] \in Deciding PROVE OwnOK(d)'
    BY <1>2 DEF OwnOK
  <2>1. ~(Id(d) = Id(c) /\ pc[c] = "record")
    BY DEF DecisionsInv, OneDecides, Deciding
  <2>2. record'[Id(d)] = record[Id(d)] /\ Id(d) \in Messages
    BY <1>4, <2>1 DEF Deciding
  <2>3. QED
    BY <1>1, <1>2, <2>2, NilIsNothing DEF OwnOK, Grows
<1>6. AfterOK(d)'
  BY <1>1, <1>2, <1>4, CopiedStays DEF AfterOK, Grows
<1>7. QED
  BY <1>3, <1>5, <1>6

(* The whole invariant from what the step of c is to show.                 *)
LEMMA StepKeeps ==
  ASSUME DecisionsInv, NEW c \in Callers, DecisionsTypeOK', Alone(c), Grows,
         \A m \in Messages : record'[m] = record[m] \/ (m = Id(c) /\ pc[c] = "record"),
         CallOK(c)', OwnOK(c)', AfterOK(c)',
         pc'[c] \in Deciding =>
           call'[c] = call[c] /\ (pc[c] \in Deciding \/ Id(c) \notin received),
         LineageOK', ProposalsOK', ConfirmedOnce',
         \A m \in told'["decided"] : m \in told["decided"] \/ (Copied(m)' /\ m \in reported'),
         \A m \in told'["direct"] : m \in told["direct"] \/ record'[m] # Nil
  PROVE  DecisionsInv'
<1>1. \A d \in Callers : CallOK(d)' /\ OwnOK(d)' /\ AfterOK(d)'
  BY OthersKeep
<1>2. OneDecides'
  <2> SUFFICES ASSUME NEW a \in Callers, NEW b \in Callers, a # b,
                      pc'[a] \in Deciding, pc'[b] \in Deciding, Id(a)' = Id(b)'
               PROVE  FALSE
    BY DEF OneDecides
  <2>1. ASSUME NEW d \in Callers \ {c}, pc'[c] \in Deciding, pc'[d] \in Deciding, Id(c)' = Id(d)'
        PROVE  FALSE
    <3>1. pc[d] \in Deciding /\ Id(d) = Id(c) /\ Id(d) \in received
      BY <2>1 DEF Alone, Id, DecisionsInv, OwnOK
    <3>2. pc[c] \in Deciding
      BY <2>1, <3>1
    <3>3. QED
      BY <3>1, <3>2 DEF DecisionsInv, OneDecides
  <2>2. CASE a = c
    BY <2>1, <2>2
  <2>3. CASE b = c
    BY <2>1, <2>3
  <2>4. CASE a # c /\ b # c
    BY <2>4 DEF Alone, Id, DecisionsInv, OneDecides
  <2>5. QED
    BY <2>2, <2>3, <2>4
<1>3. DecidedIsDelivered'
  <2>1. ASSUME NEW m \in told'["decided"] PROVE Copied(m)' /\ m \in reported'
    <3>1. CASE m \in told["decided"]
      <4>1. Copied(m) /\ m \in reported /\ m \in Messages
        BY <3>1 DEF DecisionsInv, DecidedIsDelivered, Copied, DecisionsTypeOK, Endings
      <4>2. QED
        BY <4>1, CopiedStays DEF Grows
    <3>2. QED
      BY <2>1, <3>1
  <2>2. ASSUME NEW m \in told'["direct"]
        PROVE  record'[m] # Nil /\ (record'[m] # "accept" => successor' = m)
    <3>1. m \in Messages
      BY <2>2 DEF DecisionsTypeOK, Endings
    <3>2. record'[m] # Nil
      BY <2>2, <3>1 DEF DecisionsInv, DecidedIsDelivered, Grows
    <3>3. QED
      BY <3>1, <3>2 DEF LineageOK
  <2>3. QED
    BY <2>1, <2>2 DEF DecidedIsDelivered, Copied
<1>4. QED
  BY <1>1, <1>2, <1>3 DEF DecisionsInv

----------------------------------------------------------------------------
(* The steps.  Those that leave the proposals as they are:                 *)
LEMMA ProposalsStay ==
  ASSUME DecisionsInv, NEW c \in Callers, Alone(c), UNCHANGED <<heard, pending, confirmed>>,
         pc'[c] \notin {"idle", "receive", "look"} =>
           /\ call'[c] = call[c] /\ pc'[c] # "pend"
           /\ pc[c] \notin {"idle", "receive", "look"}
  PROVE  ProposalsOK' /\ ConfirmedOnce'
<1>1. ConfirmedOnce'
  BY DEF DecisionsInv, ConfirmedOnce
<1>2. /\ pc'[Service] = "pend" => pc[Service] = "pend" /\ call'[Service] = call[Service]
      /\ pc'[Service] \notin {"idle", "receive", "look"} =>
           /\ call'[Service] = call[Service]
           /\ pc[Service] \notin {"idle", "receive", "look"}
  BY ServiceCalls DEF Alone
<1>3. ProposalsOK'
  BY <1>2 DEF DecisionsInv, ProposalsOK, Id
<1>4. QED
  BY <1>1, <1>3

(* ... those that leave what is decided as it is:                          *)
LEMMA LineageStays ==
  ASSUME DecisionsInv, UNCHANGED <<runDb, published, offered, reported>>
  PROVE  LineageOK' /\ Grows /\ \A m \in Messages : record'[m] = record[m]
BY DEF DecisionsInv, LineageOK, Grows, runDb

(* ... and those that end a call.                                          *)
LEMMA Leaves ==
  ASSUME DecisionsInv, NEW c \in Callers, pc[c] # "idle", NEW what,
         what \notin {"decided", "direct"},
         Return(c, what), DecisionsTypeOK', Grows, record' = record, LineageOK', ProposalsOK',
         ConfirmedOnce'
  PROVE  DecisionsInv'
<1>1. DecisionsTypeOK /\ CallOK(c)
  BY DEF DecisionsInv
<1>2. /\ Alone(c) /\ pc'[c] = "idle"
      /\ told'["decided"] = told["decided"] /\ told'["direct"] = told["direct"]
  BY <1>1, Returns DEF Endings
<1>3. CallOK(c)' /\ OwnOK(c)' /\ AfterOK(c)' /\ pc'[c] \notin Deciding
  BY <1>2 DEF CallOK, OwnOK, AfterOK, Deciding
<1>4. QED
  BY <1>2, <1>3, StepKeeps

(* A call that a step does not end is the call that it was.                *)
LEMMA Continues ==
  ASSUME DecisionsInv, NEW c \in Callers, NEW step \in Steps \ {"idle"}, GoOn(c, step),
         pc[c] # "idle"
  PROVE  /\ Alone(c) /\ pc'[c] = step /\ call[c] \in Call /\ Id(c) \in Messages
         /\ call' = call /\ facts' = facts /\ told' = told /\ Id(c)' = Id(c)
         /\ pc' \in [Callers -> Steps]
         /\ (/\ step = "receive" => call[c].kind \in {"propose", "confirm"}
             /\ step = "pend" => call[c].kind = "propose"
             /\ step \in {"look", "settle"} => call[c].kind = "confirm") => CallOK(c)'
<1>1. DecisionsTypeOK /\ CallOK(c)
  BY DEF DecisionsInv
<1>2. Alone(c) /\ pc'[c] = step /\ call' = call /\ facts' = facts /\ told' = told
  BY <1>1, GoesOn
<1>3. call[c] \in Call /\ Id(c) \in Messages
  BY <1>1 DEF CallOK, Call, Id
<1>4. QED
  BY <1>1, <1>2, <1>3 DEF Alone, Id, CallOK

LEMMA BeginKeeps ==
  ASSUME DecisionsInv, NEW c \in Callers, NEW step \in {"lookup", "receive"}, NEW k \in Call,
         k.kind \in {"propose", "confirm"} => c = Service,
         (step = "receive") <=> (k.kind \in {"propose", "confirm"}),
         Begin(c, step, k)
  PROVE  DecisionsInv'
<1>1. DecisionsTypeOK
  BY DEF DecisionsInv
<1>2. Alone(c) /\ pc'[c] = step /\ call'[c] = k
  BY <1>1 DEF DecisionsTypeOK, Begin, Alone, Steps
<1>3. DecisionsTypeOK'
  <2>1. made' \in 0..MaxCalls
    BY <1>1, DecisionAssumption DEF DecisionsTypeOK, Begin
  <2>2. usedIds' \in Messages \cup {0}
    BY <1>1 DEF DecisionsTypeOK, Begin, Call
  <2>3. QED
    BY <1>1, <1>2, <2>1, <2>2
       DEF DecisionsTypeOK, Begin, Alone, runDb, delivery, controlDb
<1>4. LineageOK' /\ Grows /\ \A m \in Messages : record'[m] = record[m]
  BY LineageStays DEF Begin, delivery, controlDb
<1>5. CallOK(c)' /\ OwnOK(c)' /\ AfterOK(c)' /\ pc'[c] \notin Deciding
  BY <1>2 DEF CallOK, OwnOK, AfterOK, Deciding
<1>6. UNCHANGED <<heard, pending, confirmed, told>>
  BY DEF Begin, controlDb
<1>7. ProposalsOK' /\ ConfirmedOnce'
  <2>1. ConfirmedOnce'
    BY <1>6 DEF DecisionsInv, ConfirmedOnce
  <2>2. /\ pc'[Service] = "pend" => pc[Service] = "pend" /\ call'[Service] = call[Service]
        /\ (pc'[Service] \notin {"idle", "receive", "look"}
              /\ call'[Service].kind = "confirm") =>
             /\ call'[Service] = call[Service]
             /\ pc[Service] \notin {"idle", "receive", "look"}
    BY <1>2, ServiceCalls DEF Alone
  <2>3. ProposalsOK'
    BY <1>6, <2>2 DEF DecisionsInv, ProposalsOK, Id
  <2>4. QED
    BY <2>1, <2>3
<1>8. QED
  BY <1>2, <1>3, <1>4, <1>5, <1>6, <1>7, StepKeeps

LEMMA RequestsKeep ==
  ASSUME DecisionsInv, Request \/ Confirmation PROVE DecisionsInv'
<1>1. ASSUME NEW m \in Messages, NEW action \in Actions, NEW c \in Cli, Command(c, action, m)
      PROVE  DecisionsInv'
  <2>1. PICK text \in {action, Nil} :
          Begin(c, "lookup", [kind |-> "decide", action |-> action, id |-> m,
                              proposal |-> m, text |-> text])
    BY <1>1 DEF Command
  <2>2. [kind |-> "decide", action |-> action, id |-> m, proposal |-> m, text |-> text] \in Call
    BY DEF Call, Kinds
  <2>3. QED
    BY <2>1, <2>2, BeginKeeps DEF Callers
<1>2. ASSUME NEW m \in Messages, NEW action \in Actions, Decide(action, m)
      PROVE  DecisionsInv'
  <2>1. PICK text \in {action, Nil} :
          Begin(Service, "lookup", [kind |-> "decide", action |-> action, id |-> m,
                                    proposal |-> m, text |-> text])
    BY <1>2 DEF Decide
  <2>2. [kind |-> "decide", action |-> action, id |-> m, proposal |-> m, text |-> text] \in Call
    BY DEF Call, Kinds
  <2>3. QED
    BY <2>1, <2>2, BeginKeeps, ServiceCalls
<1>3. ASSUME NEW m \in Messages, NEW action \in Actions, Propose(action, m)
      PROVE  DecisionsInv'
  <2>1. [kind |-> "propose", action |-> action, id |-> m, proposal |-> m, text |-> action]
          \in Call
    BY DEF Call, Kinds
  <2>2. QED
    BY <1>3, <2>1, BeginKeeps, ServiceCalls DEF Propose
<1>4. ASSUME NEW p \in Messages, NEW m \in Messages, NEW text \in {proposed[p], Nil},
             Confirm(p, m, text)
      PROVE  DecisionsInv'
  <2>1. proposed[p] \in Actions
    BY <1>4 DEF Confirm, DecisionsInv, DecisionsTypeOK
  <2>2. [kind |-> "confirm", action |-> proposed[p], id |-> m, proposal |-> p, text |-> text]
          \in Call
    BY <2>1 DEF Call, Kinds
  <2>3. QED
    BY <1>4, <2>2, BeginKeeps, ServiceCalls DEF Confirm
<1>5. QED
  BY <1>1, <1>2, <1>3, <1>4 DEF Request, Confirmation

LEMMA ReceiveKeeps ==
  ASSUME DecisionsInv, NEW c \in Callers, Receive(c) PROVE DecisionsInv'
<1>1. DecisionsTypeOK /\ CallOK(c) /\ At(c, "receive") /\ pc[c] = "receive"
  BY DEF DecisionsInv, Receive, At
<1>2. LineageOK' /\ Grows /\ record' = record
  BY LineageStays DEF Receive, delivery, runDb
<1>3. UNCHANGED <<runDb, delivery, pending, proposed, expired, published, offered, confirmed,
                  bounds>>
  BY DEF Receive
<1>4. Id(c) \in Messages /\ c = Service /\ call[c] \in Call
  BY <1>1 DEF CallOK, Call, Id
<1>5. heard' \subseteq Messages /\ heard \subseteq heard'
  BY <1>1, <1>4 DEF Receive, DecisionsTypeOK
<1>6. ConfirmedOnce'
  BY <1>3 DEF DecisionsInv, ConfirmedOnce
<1>7. ASSUME NEW what, what \notin {"decided", "direct"}, Return(c, what) PROVE DecisionsInv'
  <2>1. /\ Alone(c) /\ pc'[c] = "idle"
        /\ told' \in [Endings -> SUBSET Messages]
    BY <1>1, <1>7, Returns
  <2>2. DecisionsTypeOK'
    BY <1>1, <1>3, <1>5, <2>1 DEF DecisionsTypeOK, Alone, runDb, delivery, bounds
  <2>3. ProposalsOK'
    BY <1>3, <1>4, <1>5, <2>1 DEF DecisionsInv, ProposalsOK
  <2>4. QED
    BY <1>1, <1>2, <1>6, <1>7, <2>2, <2>3, Leaves
<1>8. ASSUME Id(c) \notin heard, heard' = heard \cup {Id(c)},
             GoOn(c, IF call[c].kind = "propose" THEN "pend" ELSE "look")
      PROVE  DecisionsInv'
  <2> DEFINE step == IF call[c].kind = "propose" THEN "pend" ELSE "look"
  <2>1. step \in Steps \ {"idle"}
    BY DEF Steps
  <2>2. call[c].kind \in {"propose", "confirm"}
    BY <1>1, <1>4 DEF CallOK, Call, Kinds
  <2>3. /\ Alone(c) /\ pc'[c] = step /\ call' = call /\ told' = told /\ Id(c)' = Id(c)
        /\ facts' = facts /\ CallOK(c)'
    BY <1>1, <1>8, <2>1, <2>2, Continues
  <2>4. DecisionsTypeOK'
    BY <1>1, <1>3, <1>5, <2>3 DEF DecisionsTypeOK, Alone, runDb, delivery, bounds
  <2>5. OwnOK(c)' /\ AfterOK(c)' /\ pc'[c] \notin Deciding
    BY <2>3 DEF OwnOK, AfterOK, Deciding
  <2>6. pending[Id(c)] = Nil
    BY <1>4, <1>8 DEF DecisionsInv, ProposalsOK
  <2>7. ProposalsOK'
    <3>1. pc'[Service] = "pend" =>
            Id(Service)' \in heard' /\ pending'[Id(Service)'] = Nil
      BY <1>3, <1>4, <1>8, <2>3, <2>6
    <3>2. ~(pc'[Service] \notin {"idle", "receive", "look"} /\ call'[Service].kind = "confirm")
      BY <1>4, <2>2, <2>3
    <3>3. \A p \in Messages :
            /\ pending'[p] # Nil => p \in heard'
            /\ confirmed'[p] # {} => pending'[p] = "applied"
      BY <1>3, <1>5 DEF DecisionsInv, ProposalsOK
    <3>4. QED
      BY <3>1, <3>2, <3>3 DEF ProposalsOK
  <2>8. QED
    BY <1>2, <1>6, <2>3, <2>4, <2>5, <2>7, StepKeeps
<1>9. QED
  BY <1>7, <1>8 DEF Receive

LEMMA PendKeeps ==
  ASSUME DecisionsInv, NEW c \in Callers, Pend(c) PROVE DecisionsInv'
<1>1. DecisionsTypeOK /\ CallOK(c) /\ pc[c] = "pend" /\ Return(c, "pending")
  BY DEF DecisionsInv, Pend, At
<1>2. Id(c) \in Messages /\ c = Service /\ call[c].action \in Actions
  BY <1>1 DEF CallOK, Call, Id
<1>3. LineageOK' /\ Grows /\ record' = record
  BY LineageStays DEF Pend, delivery, runDb
<1>4. /\ Alone(c) /\ pc'[c] = "idle"
      /\ told' \in [Endings -> SUBSET Messages]
  BY <1>1, Returns
<1>5. /\ pending' = [pending EXCEPT ![Id(c)] = "pending"]
      /\ proposed' = [proposed EXCEPT ![Id(c)] = call[c].action]
      /\ UNCHANGED <<runDb, delivery, heard, expired, published, offered, confirmed, bounds>>
  BY DEF Pend
<1>6. pending' \in [Messages -> {"pending", "applied", Nil}]
      /\ proposed' \in [Messages -> Actions \cup {Nil}]
  BY <1>1, <1>2, <1>5 DEF DecisionsTypeOK
<1>7. DecisionsTypeOK'
  BY <1>1, <1>4, <1>5, <1>6 DEF DecisionsTypeOK, Alone, runDb, delivery, bounds
<1>8. ConfirmedOnce'
  BY <1>5 DEF DecisionsInv, ConfirmedOnce
<1>9. ProposalsOK'
  <2>1. pending[Id(c)] = Nil
    BY <1>1, <1>2 DEF DecisionsInv, ProposalsOK
  <2>2. confirmed[Id(c)] = {}
    BY <1>2, <2>1, NilIsNothing DEF DecisionsInv, ProposalsOK
  <2>3. Id(c) \in heard
    BY <1>1, <1>2 DEF DecisionsInv, ProposalsOK
  <2>4. QED
    BY <1>1, <1>2, <1>4, <1>5, <2>2, <2>3 DEF DecisionsInv, ProposalsOK, DecisionsTypeOK
<1>10. QED
  BY <1>1, <1>3, <1>7, <1>8, <1>9, Leaves

(* A step that leaves every table alone, and ends the call or goes on.     *)
LEMMA QuietTypes ==
  ASSUME DecisionsInv, NEW c \in Callers, Alone(c),
         told' \in [Endings -> SUBSET Messages],
         UNCHANGED <<runDb, delivery, controlDb, confirmed, bounds>>
  PROVE  /\ DecisionsTypeOK' /\ LineageOK' /\ Grows
         /\ \A m \in Messages : record'[m] = record[m]
         /\ UNCHANGED <<record, heard, pending, confirmed>>
<1>1. DecisionsTypeOK'
  BY DEF DecisionsInv, DecisionsTypeOK, Alone, runDb, delivery, controlDb, bounds
<1>2. LineageOK' /\ Grows /\ \A m \in Messages : record'[m] = record[m]
  BY LineageStays DEF delivery, controlDb
<1>3. UNCHANGED <<record, heard, pending, confirmed>>
  BY DEF runDb, controlDb
<1>4. QED
  BY <1>1, <1>2, <1>3

LEMMA QuietReturns ==
  ASSUME DecisionsInv, NEW c \in Callers, pc[c] # "idle", NEW what,
         what \notin {"decided", "direct"},
         Return(c, what), UNCHANGED <<runDb, delivery, controlDb, confirmed, bounds>>
  PROVE  DecisionsInv'
<1>1. DecisionsTypeOK /\ CallOK(c)
  BY DEF DecisionsInv
<1>2. /\ Alone(c) /\ pc'[c] = "idle"
      /\ told' \in [Endings -> SUBSET Messages]
  BY <1>1, Returns
<1>3. DecisionsTypeOK' /\ LineageOK' /\ Grows /\ UNCHANGED <<record, heard, pending, confirmed>>
  BY <1>2, QuietTypes
<1>4. ProposalsOK' /\ ConfirmedOnce'
  BY <1>2, <1>3, ProposalsStay
<1>5. QED
  BY <1>3, <1>4, Leaves

LEMMA LookKeeps ==
  ASSUME DecisionsInv, NEW c \in Callers, Look(c) PROVE DecisionsInv'
<1>1. /\ DecisionsTypeOK /\ CallOK(c) /\ pc[c] = "look"
      /\ UNCHANGED <<runDb, delivery, controlDb, confirmed, bounds>>
  BY DEF DecisionsInv, Look, At
<1>2. ASSUME NEW what \in {"failed", "repeated"}, Return(c, what) PROVE DecisionsInv'
  BY <1>1, <1>2, QuietReturns
<1>3. ASSUME pending[call[c].proposal] = "pending", GoOn(c, "lookup") PROVE DecisionsInv'
  <2>1. /\ Alone(c) /\ pc'[c] = "lookup" /\ call' = call /\ told' = told /\ facts' = facts
        /\ CallOK(c)'
    BY <1>1, <1>3, Continues DEF Steps
  <2>2. /\ DecisionsTypeOK' /\ LineageOK' /\ Grows
        /\ \A m \in Messages : record'[m] = record[m]
        /\ UNCHANGED <<heard, pending, confirmed>>
    BY <1>1, <2>1, QuietTypes DEF DecisionsTypeOK
  <2>3. OwnOK(c)' /\ AfterOK(c)' /\ pc'[c] \notin Deciding
    BY <2>1 DEF OwnOK, AfterOK, Deciding
  <2>4. c = Service
    BY <1>1 DEF CallOK
  <2>5. ProposalsOK' /\ ConfirmedOnce'
    <3>1. ConfirmedOnce'
      BY <2>2 DEF DecisionsInv, ConfirmedOnce
    <3>2. ProposalsOK'
      BY <1>3, <2>1, <2>2, <2>4 DEF DecisionsInv, ProposalsOK
    <3>3. QED
      BY <3>1, <3>2
  <2>6. QED
    BY <2>1, <2>2, <2>3, <2>5, StepKeeps
<1>4. QED
  BY <1>2, <1>3 DEF Look

LEMMA LookupKeeps ==
  ASSUME DecisionsInv, NEW c \in Callers, Lookup(c) \/ Converse(c) PROVE DecisionsInv'
<1>1. /\ pc[c] \in {"lookup", "converse"}
      /\ UNCHANGED <<runDb, delivery, controlDb, confirmed, bounds>>
  BY DEF Lookup, Converse, At
<1>2. PICK step \in {"copy", "converse", "create", "append"} :
        GoOn(c, step) /\ (step = "copy" => record[Id(c)] # Nil)
  <2>1. CASE Lookup(c)
    BY <2>1 DEF Lookup
  <2>2. CASE Converse(c)
    BY <2>2 DEF Converse
  <2>3. QED
    BY <2>1, <2>2
<1>3. /\ Alone(c) /\ pc'[c] = step /\ call' = call /\ told' = told /\ facts' = facts
      /\ CallOK(c)' /\ Id(c)' = Id(c)
  BY <1>1, <1>2, Continues DEF Steps
<1>4. /\ DecisionsTypeOK' /\ LineageOK' /\ Grows
      /\ \A m \in Messages : record'[m] = record[m]
      /\ UNCHANGED <<record, heard, pending, confirmed>>
  BY <1>1, <1>3, QuietTypes DEF DecisionsInv, DecisionsTypeOK
<1>5. OwnOK(c)' /\ AfterOK(c)' /\ pc'[c] \notin Deciding
  BY <1>2, <1>3, <1>4 DEF OwnOK, AfterOK, Deciding
<1>6. ProposalsOK' /\ ConfirmedOnce'
  BY <1>1, <1>3, <1>4, ProposalsStay
<1>7. QED
  BY <1>3, <1>4, <1>5, <1>6, StepKeeps

LEMMA CreateKeeps ==
  ASSUME DecisionsInv, NEW c \in Callers, Create(c) PROVE DecisionsInv'
<1>1. DecisionsTypeOK /\ CallOK(c) /\ pc[c] = "create"
  BY DEF DecisionsInv, Create, At
<1>2. /\ conversed' = TRUE
      /\ UNCHANGED <<received, successor, planned, record, delivery, controlDb, confirmed,
                     bounds>>
  BY DEF Create
<1>3. /\ LineageOK' /\ Grows /\ \A m \in Messages : record'[m] = record[m]
      /\ UNCHANGED <<record, heard, pending, confirmed>>
  BY <1>2 DEF DecisionsInv, LineageOK, Grows, delivery, controlDb
<1>4. conversed' \in BOOLEAN
  BY <1>2
<1>5. ASSUME Alone(c), told' \in [Endings -> SUBSET Messages]
      PROVE  DecisionsTypeOK'
  BY <1>1, <1>2, <1>4, <1>5 DEF DecisionsTypeOK, Alone, delivery, controlDb, bounds
<1>6. ASSUME Return(c, "failed") PROVE DecisionsInv'
  <2>1. /\ Alone(c) /\ pc'[c] = "idle"
        /\ told' \in [Endings -> SUBSET Messages]
    BY <1>1, <1>6, Returns
  <2>2. ProposalsOK' /\ ConfirmedOnce'
    BY <1>3, <2>1, ProposalsStay
  <2>3. QED
    BY <1>1, <1>3, <1>5, <1>6, <2>1, <2>2, Leaves
<1>7. ASSUME GoOn(c, "append") PROVE DecisionsInv'
  <2>1. /\ Alone(c) /\ pc'[c] = "append" /\ call' = call /\ told' = told /\ facts' = facts
        /\ CallOK(c)'
    BY <1>1, <1>7, Continues DEF Steps
  <2>2. ProposalsOK' /\ ConfirmedOnce'
    BY <1>1, <1>3, <2>1, ProposalsStay
  <2>3. OwnOK(c)' /\ AfterOK(c)' /\ pc'[c] \notin Deciding
    BY <2>1 DEF OwnOK, AfterOK, Deciding
  <2>4. DecisionsTypeOK'
    BY <1>1, <1>5, <2>1 DEF DecisionsTypeOK
  <2>5. QED
    BY <1>3, <2>1, <2>2, <2>3, <2>4, StepKeeps
<1>8. QED
  BY <1>6, <1>7 DEF Create

(* A message is kept once: the call that is first with it owns it.         *)
LEMMA AppendKeeps ==
  ASSUME DecisionsInv, NEW c \in Callers, Append(c) PROVE DecisionsInv'
<1>1. DecisionsTypeOK /\ CallOK(c) /\ pc[c] = "append"
  BY DEF DecisionsInv, Append, At
<1>2. /\ received' = received \cup {Id(c)}
      /\ UNCHANGED <<conversed, successor, planned, record, delivery, controlDb, confirmed,
                     bounds>>
  BY DEF Append
<1>3. /\ LineageOK' /\ Grows /\ \A m \in Messages : record'[m] = record[m]
      /\ UNCHANGED <<record, heard, pending, confirmed>>
  BY <1>2 DEF DecisionsInv, LineageOK, Grows, delivery, controlDb
<1>4. Id(c) \in Messages /\ call[c] \in Call
  BY <1>1 DEF CallOK, Call, Id
<1>5. ASSUME Alone(c), told' \in [Endings -> SUBSET Messages]
      PROVE  DecisionsTypeOK'
  <2>1. received' \subseteq Messages
    BY <1>1, <1>2, <1>4 DEF DecisionsTypeOK
  <2>2. QED
    BY <1>1, <1>2, <1>5, <2>1 DEF DecisionsTypeOK, Alone, delivery, controlDb, bounds
<1>6. ASSUME Return(c, "failed") PROVE DecisionsInv'
  <2>1. /\ Alone(c) /\ pc'[c] = "idle"
        /\ told' \in [Endings -> SUBSET Messages]
    BY <1>1, <1>6, Returns
  <2>2. ProposalsOK' /\ ConfirmedOnce'
    BY <1>3, <2>1, ProposalsStay
  <2>3. QED
    BY <1>1, <1>3, <1>5, <1>6, <2>1, <2>2, Leaves
<1>7. ASSUME Id(c) \notin received, Compiled(call[c]) # "none", GoOn(c, Compiled(call[c]))
      PROVE  DecisionsInv'
  <2>1. /\ Compiled(call[c]) \in {"record", "delta"}
        /\ Compiled(call[c]) = "record" => call[c].action = "accept"
        /\ Compiled(call[c]) = "delta" => call[c].action # "accept"
    BY <1>7 DEF Compiled
  <2>2. Compiled(call[c]) \in Steps \ {"idle"}
    BY <2>1 DEF Steps
  <2>3. /\ Alone(c) /\ pc'[c] = Compiled(call[c]) /\ call' = call /\ told' = told
        /\ facts' = facts /\ CallOK(c)' /\ Id(c)' = Id(c)
    BY <1>1, <1>7, <2>1, <2>2, Continues
  <2>4. record[Id(c)] = Nil
    BY <1>4, <1>7 DEF DecisionsInv, LineageOK
  <2>5. OwnOK(c)'
    <3>1. Id(c)' \in received' /\ record'[Id(c)'] = Nil
      BY <1>2, <2>3, <2>4
    <3>2. pc'[c] # "plan" /\ (pc'[c] = "delta" => call'[c].action # "accept")
            /\ (pc'[c] = "record" => call'[c].action = "accept")
      BY <2>1, <2>3
    <3>3. QED
      BY <3>1, <3>2 DEF OwnOK
  <2>6. AfterOK(c)'
    BY <2>1, <2>3 DEF AfterOK
  <2>7. ProposalsOK' /\ ConfirmedOnce'
    BY <1>1, <1>3, <2>1, <2>3, ProposalsStay
  <2>8. DecisionsTypeOK'
    BY <1>1, <1>5, <2>3 DEF DecisionsTypeOK
  <2>9. QED
    BY <1>3, <1>7, <2>3, <2>5, <2>6, <2>7, <2>8, StepKeeps
<1>8. QED
  BY <1>6, <1>7 DEF Append

(* The successor is frozen once.                                           *)
LEMMA DeltaKeeps ==
  ASSUME DecisionsInv, NEW c \in Callers, Delta(c) PROVE DecisionsInv'
<1>1. DecisionsTypeOK /\ CallOK(c) /\ OwnOK(c) /\ pc[c] = "delta"
  BY DEF DecisionsInv, Delta, At
<1>2. UNCHANGED <<conversed, received, planned, record, delivery, controlDb, confirmed, bounds>>
  BY DEF Delta
<1>3. UNCHANGED <<heard, pending, confirmed, published, offered, reported>>
  BY <1>2 DEF delivery, controlDb
<1>4. CASE successor # Nil
  <2>1. Return(c, "failed") /\ successor' = successor
    BY <1>4 DEF Delta
  <2>2. UNCHANGED <<runDb, delivery, controlDb, confirmed, bounds>>
    BY <1>2, <2>1 DEF runDb
  <2>3. QED
    BY <1>1, <2>1, <2>2, QuietReturns
<1>5. CASE successor = Nil
  <2> DEFINE step == IF call[c].action = "revise" THEN "plan" ELSE "record"
  <2>1. successor' = Id(c) /\ GoOn(c, step)
    BY <1>5 DEF Delta
  <2>2. step \in Steps \ {"idle", "receive", "pend", "look", "settle"}
    BY DEF Steps
  <2>3. /\ Alone(c) /\ pc'[c] = step /\ call' = call /\ told' = told
        /\ facts' = facts /\ CallOK(c)' /\ Id(c)' = Id(c) /\ Id(c) \in Messages
    BY <1>1, <2>1, <2>2, Continues
  <2>4. Grows
    BY <1>2, <1>3, <1>5 DEF Grows
  <2>5. LineageOK'
    <3>1. \A m \in Messages : record[m] # Nil => record[m] = "accept"
      BY <1>5, NilIsNothing DEF DecisionsInv, LineageOK, DecisionsTypeOK, Actions
    <3>2. published = Nil
      BY <1>5 DEF DecisionsInv, LineageOK
    <3>3. QED
      BY <1>2, <1>3, <3>1, <3>2 DEF DecisionsInv, LineageOK
  <2>6. OwnOK(c)'
    <3>1. Id(c) \in received /\ record[Id(c)] = Nil
      BY <1>1 DEF OwnOK, Deciding
    <3>2. QED
      BY <1>2, <2>1, <2>3, <3>1 DEF OwnOK
  <2>7. AfterOK(c)'
    BY <2>3 DEF AfterOK
  <2>8. ProposalsOK' /\ ConfirmedOnce'
    BY <1>1, <1>3, <2>3, ProposalsStay
  <2>9. DecisionsTypeOK'
    BY <1>1, <1>2, <2>1, <2>3 DEF DecisionsTypeOK, Alone, delivery, controlDb, bounds
  <2>10. pc[c] \in Deciding
    BY <1>1 DEF Deciding
  <2>11. QED
    BY <1>2, <2>3, <2>4, <2>5, <2>6, <2>7, <2>8, <2>9, <2>10, StepKeeps
<1>6. QED
  BY <1>4, <1>5

LEMMA PlanKeeps ==
  ASSUME DecisionsInv, NEW c \in Callers, Plan(c) PROVE DecisionsInv'
<1>1. DecisionsTypeOK /\ CallOK(c) /\ OwnOK(c) /\ pc[c] = "plan" /\ pc[c] \in Deciding
  BY DEF DecisionsInv, Plan, At, Deciding
<1>2. /\ planned' = TRUE /\ GoOn(c, "record")
      /\ UNCHANGED <<conversed, received, successor, record, delivery, controlDb, confirmed,
                     bounds>>
  BY DEF Plan
<1>3. UNCHANGED <<heard, pending, confirmed, published, offered, reported>>
  BY <1>2 DEF delivery, controlDb
<1>4. /\ Alone(c) /\ pc'[c] = "record" /\ call' = call /\ told' = told
      /\ facts' = facts /\ CallOK(c)' /\ Id(c)' = Id(c) /\ Id(c) \in Messages
  BY <1>1, <1>2, Continues DEF Steps
<1>5. planned' \in BOOLEAN
  BY <1>2
<1>6. DecisionsTypeOK'
  BY <1>1, <1>2, <1>4, <1>5 DEF DecisionsTypeOK, Alone, delivery, controlDb, bounds
<1>7. Grows
  BY <1>2, <1>3 DEF Grows
<1>8. LineageOK'
  BY <1>2, <1>3 DEF DecisionsInv, LineageOK
<1>9. OwnOK(c)'
  BY <1>1, <1>2, <1>4 DEF OwnOK, Deciding
<1>10. AfterOK(c)'
  BY <1>4 DEF AfterOK
<1>11. ProposalsOK' /\ ConfirmedOnce'
  BY <1>1, <1>3, <1>4, ProposalsStay
<1>12. QED
  BY <1>1, <1>2, <1>4, <1>6, <1>7, <1>8, <1>9, <1>10, <1>11, StepKeeps

LEMMA RecordDecisionKeeps ==
  ASSUME DecisionsInv, NEW c \in Callers, RecordDecision(c) PROVE DecisionsInv'
<1>1. DecisionsTypeOK /\ CallOK(c) /\ OwnOK(c) /\ pc[c] = "record" /\ pc[c] \in Deciding
  BY DEF DecisionsInv, RecordDecision, At, Deciding
<1>2. /\ record' = [record EXCEPT ![Id(c)] = call[c].action] /\ GoOn(c, "copy")
      /\ UNCHANGED <<conversed, received, successor, planned, delivery, controlDb, confirmed,
                     bounds>>
  BY DEF RecordDecision
<1>3. UNCHANGED <<heard, pending, confirmed, published, offered, reported>>
  BY <1>2 DEF delivery, controlDb
<1>4. /\ Alone(c) /\ pc'[c] = "copy" /\ call' = call /\ told' = told
      /\ facts' = facts /\ CallOK(c)' /\ Id(c)' = Id(c) /\ Id(c) \in Messages
      /\ call[c] \in Call
  BY <1>1, <1>2, Continues DEF Steps
<1>5. call[c].action \in Actions /\ call[c].action # Nil
  BY <1>4, NilIsNothing DEF Call
<1>6. /\ record'[Id(c)] = call[c].action
      /\ \A m \in Messages : m # Id(c) => record'[m] = record[m]
  BY <1>1, <1>2, <1>4 DEF DecisionsTypeOK
<1>7. DecisionsTypeOK'
  <2>1. record' \in [Messages -> Actions \cup {Nil}]
    BY <1>1, <1>2, <1>5 DEF DecisionsTypeOK
  <2>2. QED
    BY <1>1, <1>2, <1>4, <2>1 DEF DecisionsTypeOK, Alone, delivery, controlDb, bounds
<1>8. /\ Id(c) \in received /\ record[Id(c)] = Nil
      /\ call[c].action # "accept" => successor = Id(c)
      /\ call[c].action = "revise" => planned
  BY <1>1 DEF OwnOK
<1>9. Grows
  BY <1>2, <1>3, <1>6, <1>8 DEF Grows
<1>10. LineageOK'
  <2>1. ASSUME NEW m \in Messages, record'[m] # Nil
        PROVE  /\ m \in received'
               /\ record'[m] # "accept" => successor' = m
               /\ record'[m] = "revise" => planned'
    <3>1. CASE m = Id(c)
      BY <1>2, <1>6, <1>8, <3>1
    <3>2. CASE m # Id(c)
      BY <1>2, <1>6, <2>1, <3>2 DEF DecisionsInv, LineageOK
    <3>3. QED
      BY <3>1, <3>2
  <2>2. published' # Nil => published' = successor'
    BY <1>2, <1>3 DEF DecisionsInv, LineageOK
  <2>3. QED
    BY <2>1, <2>2 DEF LineageOK
<1>11. OwnOK(c)' /\ AfterOK(c)' /\ pc'[c] \notin Deciding
  BY <1>4, <1>5, <1>6 DEF OwnOK, AfterOK, Deciding
<1>12. ProposalsOK' /\ ConfirmedOnce'
  BY <1>1, <1>3, <1>4, ProposalsStay
<1>13. \A m \in Messages : record'[m] = record[m] \/ (m = Id(c) /\ pc[c] = "record")
  BY <1>1, <1>6
<1>14. QED
  BY <1>4, <1>7, <1>9, <1>10, <1>11, <1>12, <1>13, StepKeeps

LEMMA ReturnDirectKeeps ==
  ASSUME DecisionsInv, NEW c \in Callers, ReturnDirect(c) PROVE DecisionsInv'
<1>1. /\ DecisionsTypeOK /\ CallOK(c) /\ AfterOK(c) /\ pc[c] = "copy" /\ Return(c, "direct")
      /\ UNCHANGED <<runDb, delivery, controlDb, confirmed, bounds>>
  BY DEF DecisionsInv, ReturnDirect, At
<1>2. /\ Alone(c) /\ pc'[c] = "idle"
      /\ told' \in [Endings -> SUBSET Messages]
      /\ told'["decided"] = told["decided"] /\ told'["direct"] = told["direct"] \cup {Id(c)}
  BY <1>1, Returns DEF Endings
<1>3. /\ DecisionsTypeOK' /\ LineageOK' /\ Grows
      /\ \A m \in Messages : record'[m] = record[m]
      /\ UNCHANGED <<record, heard, pending, confirmed>>
  BY <1>1, <1>2, QuietTypes
<1>4. ProposalsOK' /\ ConfirmedOnce'
  BY <1>2, <1>3, ProposalsStay
<1>5. record'[Id(c)] # Nil
  BY <1>1, <1>3 DEF AfterOK
<1>6. CallOK(c)' /\ OwnOK(c)' /\ AfterOK(c)' /\ pc'[c] \notin Deciding
  BY <1>2 DEF CallOK, OwnOK, AfterOK, Deciding
<1>7. QED
  BY <1>2, <1>3, <1>4, <1>5, <1>6, StepKeeps

(* What is published is the successor of the decision that is copied.      *)
LEMMA CopyKeeps ==
  ASSUME DecisionsInv, NEW c \in Callers, Copy(c) PROVE DecisionsInv'
<1>1. DecisionsTypeOK /\ CallOK(c) /\ AfterOK(c) /\ pc[c] = "copy"
  BY DEF DecisionsInv, Copy, At
<1>2. /\ GoOn(c, "facts")
      /\ UNCHANGED <<runDb, delivery, heard, pending, proposed, expired, confirmed, bounds>>
  BY DEF Copy
<1>3. UNCHANGED <<received, successor, planned, record, reported, heard, pending, confirmed>>
  BY <1>2 DEF runDb, delivery
<1>4. /\ Alone(c) /\ pc'[c] = "facts" /\ call' = call /\ told' = told
      /\ facts' = facts /\ CallOK(c)' /\ Id(c)' = Id(c) /\ Id(c) \in Messages
  BY <1>1, <1>2, Continues DEF Steps
<1>5. record[Id(c)] # Nil /\ record[Id(c)] \in Actions
  BY <1>1, <1>4 DEF AfterOK, DecisionsTypeOK
<1>6. record[Id(c)] # "accept" => successor = Id(c)
  BY <1>4, <1>5 DEF DecisionsInv, LineageOK
<1>7. /\ published' \in {published, successor} /\ offered' \in BOOLEAN
      /\ offered => offered'
      /\ published # Nil => published' = published
      /\ record[Id(c)] # "accept" => published' = successor
      /\ record[Id(c)] = "revise" => offered'
  <2>1. CASE record[Id(c)] = "accept"
    BY <1>1, <2>1 DEF Copy, DecisionsTypeOK
  <2>2. CASE record[Id(c)] # "accept"
    <3>1. /\ published' = IF published = Nil THEN successor ELSE published
          /\ offered' = (offered \/ record[Id(c)] = "revise")
      BY <2>2 DEF Copy
    <3>2. published # Nil => published = successor
      BY DEF DecisionsInv, LineageOK
    <3>3. offered' \in BOOLEAN
      BY <3>1
    <3>4. QED
      BY <3>1, <3>2, <3>3
  <2>3. QED
    BY <2>1, <2>2
<1>8. DecisionsTypeOK'
  <2>1. published' \in Messages \cup {Nil}
    BY <1>1, <1>7 DEF DecisionsTypeOK
  <2>2. QED
    BY <1>1, <1>2, <1>4, <1>7, <2>1 DEF DecisionsTypeOK, Alone, runDb, delivery, bounds
<1>9. Grows
  BY <1>3, <1>7 DEF Grows
<1>10. LineageOK'
  <2>1. published' # Nil => published' = successor'
    BY <1>3, <1>7 DEF DecisionsInv, LineageOK
  <2>2. QED
    BY <1>3, <2>1 DEF DecisionsInv, LineageOK
<1>11. Copied(Id(c))'
  BY <1>3, <1>5, <1>6, <1>7, <1>4 DEF Copied
<1>12. OwnOK(c)' /\ AfterOK(c)' /\ pc'[c] \notin Deciding
  BY <1>4, <1>11 DEF OwnOK, AfterOK, Deciding, Copied
<1>13. ProposalsOK' /\ ConfirmedOnce'
  BY <1>1, <1>3, <1>4, ProposalsStay
<1>14. QED
  BY <1>3, <1>4, <1>8, <1>9, <1>10, <1>12, <1>13, StepKeeps

LEMMA FactsKeeps ==
  ASSUME DecisionsInv, NEW c \in Callers, Facts(c) PROVE DecisionsInv'
<1>1. DecisionsTypeOK /\ CallOK(c) /\ AfterOK(c) /\ pc[c] = "facts"
  BY DEF DecisionsInv, Facts, At
<1>2. /\ facts' = [facts EXCEPT ![c] = {m \in Messages : record[m] # Nil}]
      /\ pc' = [pc EXCEPT ![c] = "report"]
      /\ UNCHANGED <<call, told, runDb, delivery, controlDb, confirmed, bounds>>
  BY DEF Facts
<1>3. UNCHANGED <<record, published, offered, heard, pending, confirmed>>
  BY <1>2 DEF runDb, controlDb
<1>4. Id(c) \in Messages /\ call[c] \in Call
  BY <1>1 DEF CallOK, Call, Id
<1>5. Alone(c) /\ pc'[c] = "report" /\ Id(c)' = Id(c)
      /\ facts'[c] = {m \in Messages : record[m] # Nil}
  BY <1>1, <1>2 DEF DecisionsTypeOK, Alone, Steps, Id
<1>6. /\ DecisionsTypeOK' /\ LineageOK' /\ Grows
      /\ \A m \in Messages : record'[m] = record[m]
  <2>1. told' \in [Endings -> SUBSET Messages]
    BY <1>1, <1>2 DEF DecisionsTypeOK
  <2>2. QED
    BY <1>2, <1>5, <2>1, QuietTypes
<1>7. Copied(Id(c)) /\ record[Id(c)] # Nil
  BY <1>1 DEF AfterOK, Copied
<1>8. CallOK(c)' /\ OwnOK(c)' /\ pc'[c] \notin Deciding
  BY <1>1, <1>2, <1>5 DEF CallOK, OwnOK, Deciding
<1>9. AfterOK(c)'
  BY <1>3, <1>4, <1>5, <1>7 DEF AfterOK, Copied
<1>10. ProposalsOK' /\ ConfirmedOnce'
  BY <1>1, <1>2, <1>3, <1>5, ProposalsStay
<1>11. QED
  BY <1>2, <1>5, <1>6, <1>8, <1>9, <1>10, StepKeeps

(* The report tells of the decision, and only then the call returns it.    *)
LEMMA CompileReportKeeps ==
  ASSUME DecisionsInv, NEW c \in Callers, CompileReport(c) PROVE DecisionsInv'
<1>1. DecisionsTypeOK /\ CallOK(c) /\ AfterOK(c) /\ pc[c] = "report"
  BY DEF DecisionsInv, CompileReport, At
<1>2. UNCHANGED <<runDb, controlDb, confirmed, bounds>>
  BY DEF CompileReport
<1>3. UNCHANGED <<received, successor, planned, record, published, offered, heard, pending,
                  confirmed>>
  BY <1>2 DEF runDb, controlDb
<1>4. CASE folders > reports
  <2>1. Return(c, "failed") /\ UNCHANGED delivery
    BY <1>4 DEF CompileReport
  <2>2. QED
    BY <1>1, <1>2, <2>1, QuietReturns
<1>5. CASE ~(folders > reports)
  <2>1. /\ reports' = reports + 1 /\ folders' = folders + 1
        /\ reported' = reported \cup facts[c] /\ Reported(c)
    BY <1>5 DEF CompileReport
  <2>2. reports' \in Nat /\ folders' \in Nat /\ reported' \subseteq Messages
    BY <1>1, <2>1 DEF DecisionsTypeOK
  <2>3. ASSUME Alone(c), told' \in [Endings -> SUBSET Messages]
        PROVE  DecisionsTypeOK'
    BY <1>1, <1>2, <2>2, <2>3 DEF DecisionsTypeOK, Alone, runDb, controlDb, bounds
  <2>4. Grows
    BY <1>3, <2>1 DEF Grows
  <2>5. LineageOK'
    BY <1>3 DEF DecisionsInv, LineageOK
  <2>6. Copied(Id(c)) /\ Id(c) \in reported'
    BY <1>1, <2>1 DEF AfterOK
  <2>7. CASE call[c].kind = "confirm"
    <3>1. GoOn(c, "settle")
      BY <2>1, <2>7 DEF Reported
    <3>2. /\ Alone(c) /\ pc'[c] = "settle" /\ call' = call /\ told' = told
          /\ facts' = facts /\ CallOK(c)' /\ Id(c)' = Id(c) /\ Id(c) \in Messages
      BY <1>1, <2>7, <3>1, Continues DEF Steps
    <3>3. OwnOK(c)' /\ AfterOK(c)' /\ pc'[c] \notin Deciding
      BY <1>3, <2>6, <3>2 DEF OwnOK, AfterOK, Deciding, Copied
    <3>4. ProposalsOK' /\ ConfirmedOnce'
      BY <1>1, <1>3, <3>2, ProposalsStay
    <3>5. DecisionsTypeOK'
      BY <1>1, <2>3, <3>2 DEF DecisionsTypeOK
    <3>6. QED
      BY <1>3, <2>4, <2>5, <3>2, <3>3, <3>4, <3>5, StepKeeps
  <2>8. CASE call[c].kind # "confirm"
    <3>1. Return(c, "decided")
      BY <2>1, <2>8 DEF Reported
    <3>2. /\ Alone(c) /\ pc'[c] = "idle"
          /\ told' \in [Endings -> SUBSET Messages]
          /\ told'["decided"] = told["decided"] \cup {Id(c)}
          /\ told'["direct"] = told["direct"]
      BY <1>1, <3>1, Returns DEF Endings
    <3>3. CallOK(c)' /\ OwnOK(c)' /\ AfterOK(c)' /\ pc'[c] \notin Deciding
      BY <3>2 DEF CallOK, OwnOK, AfterOK, Deciding
    <3>4. ProposalsOK' /\ ConfirmedOnce'
      BY <1>1, <1>3, <3>2, ProposalsStay
    <3>5. DecisionsTypeOK'
      BY <2>3, <3>2
    <3>6. \A m \in told'["decided"] : m \in told["decided"] \/ (Copied(m)' /\ m \in reported')
      <4>1. ASSUME NEW m \in {Id(c)} PROVE Copied(m)'
        BY <1>1, <1>3, <2>6 DEF Copied
      <4>2. QED
        BY <2>6, <3>2, <4>1
    <3>7. QED
      BY <1>3, <2>4, <2>5, <3>2, <3>3, <3>4, <3>5, <3>6, StepKeeps
  <2>9. QED
    BY <2>7, <2>8
<1>6. QED
  BY <1>4, <1>5

(* A proposal is applied by the confirmation that found it pending: the    *)
(* service serves one request at a time.                                   *)
LEMMA SettleKeeps ==
  ASSUME DecisionsInv, NEW c \in Callers, Settle(c) PROVE DecisionsInv'
<1> DEFINE p == call[c].proposal
<1>1. DecisionsTypeOK /\ CallOK(c) /\ AfterOK(c) /\ pc[c] = "settle"
  BY DEF DecisionsInv, Settle, At
<1>2. /\ pending' = [pending EXCEPT ![p] = "applied"]
      /\ confirmed' = [confirmed EXCEPT ![p] = @ \cup {Id(c)}]
      /\ Return(c, "decided")
      /\ UNCHANGED <<runDb, delivery, heard, proposed, expired, published, offered, bounds>>
  BY DEF Settle
<1>3. UNCHANGED <<received, successor, planned, record, published, offered, heard, reported>>
  BY <1>2 DEF runDb, delivery
<1>4. /\ call[c].kind = "confirm" /\ c = Service /\ p \in Messages /\ Id(c) \in Messages
  BY <1>1 DEF CallOK, Call, Id
<1>5. pending[p] = "pending" /\ confirmed[p] = {} /\ p \in heard
  BY <1>1, <1>4, NilIsNothing DEF DecisionsInv, ProposalsOK
<1>6. /\ Alone(c) /\ pc'[c] = "idle"
      /\ told' \in [Endings -> SUBSET Messages]
      /\ told'["decided"] = told["decided"] \cup {Id(c)}
      /\ told'["direct"] = told["direct"]
  BY <1>1, <1>2, Returns DEF Endings
<1>7. /\ pending'[p] = "applied" /\ confirmed'[p] = {Id(c)}
      /\ \A q \in Messages : q # p => pending'[q] = pending[q] /\ confirmed'[q] = confirmed[q]
  BY <1>1, <1>2, <1>4, <1>5 DEF DecisionsTypeOK
<1>8. DecisionsTypeOK'
  <2>1. /\ pending' \in [Messages -> {"pending", "applied", Nil}]
        /\ confirmed' \in [Messages -> SUBSET Messages]
    BY <1>1, <1>2, <1>4 DEF DecisionsTypeOK
  <2>2. QED
    BY <1>1, <1>2, <1>6, <2>1 DEF DecisionsTypeOK, Alone, runDb, delivery, bounds
<1>9. LineageOK' /\ Grows /\ \A m \in Messages : record'[m] = record[m]
  BY <1>2, <1>3, LineageStays
<1>10. CallOK(c)' /\ OwnOK(c)' /\ AfterOK(c)' /\ pc'[c] \notin Deciding
  BY <1>6 DEF CallOK, OwnOK, AfterOK, Deciding
<1>11. ConfirmedOnce'
  <2> SUFFICES ASSUME NEW q \in Messages PROVE \A m, n \in confirmed'[q] : m = n
    BY DEF ConfirmedOnce
  <2>1. CASE q = p
    BY <1>7, <2>1
  <2>2. CASE q # p
    BY <1>7, <2>2 DEF DecisionsInv, ConfirmedOnce
  <2>3. QED
    BY <2>1, <2>2
<1>12. ProposalsOK'
  <2>1. ASSUME NEW q \in Messages
        PROVE  /\ pending'[q] # Nil => q \in heard'
               /\ confirmed'[q] # {} => pending'[q] = "applied"
    <3>1. CASE q = p
      BY <1>3, <1>5, <1>7, <3>1
    <3>2. CASE q # p
      BY <1>3, <1>7, <3>2 DEF DecisionsInv, ProposalsOK
    <3>3. QED
      BY <3>1, <3>2
  <2>2. QED
    BY <1>4, <1>6, <2>1 DEF ProposalsOK
<1>13. \A m \in told'["decided"] : m \in told["decided"] \/ (Copied(m)' /\ m \in reported')
  <2>1. Copied(Id(c)) /\ Id(c) \in reported
    BY <1>1 DEF AfterOK
  <2>2. ASSUME NEW m \in {Id(c)} PROVE Copied(m)' /\ m \in reported'
    BY <1>3, <2>1 DEF Copied
  <2>3. QED
    BY <1>6, <2>2
<1>14. QED
  BY <1>6, <1>8, <1>9, <1>10, <1>11, <1>12, <1>13, StepKeeps

LEMMA CallFailsKeeps ==
  ASSUME DecisionsInv, NEW c \in Callers, CallFails(c) PROVE DecisionsInv'
<1>1. DecisionsTypeOK /\ CallOK(c) /\ pc[c] # "idle" /\ Return(c, "failed")
  BY DEF DecisionsInv, CallFails
<1>2. UNCHANGED <<runDb, reports, reported, controlDb, confirmed, usedIds, made>>
  BY DEF CallFails
<1>3. /\ Alone(c) /\ pc'[c] = "idle"
      /\ told' \in [Endings -> SUBSET Messages]
  BY <1>1, Returns
<1>4. folders' \in Nat /\ callFaults' \in 0..MaxCallFaults
  BY <1>1, DecisionAssumption DEF CallFails, DecisionsTypeOK
<1>5. DecisionsTypeOK'
  BY <1>1, <1>2, <1>3, <1>4 DEF DecisionsTypeOK, Alone, runDb, controlDb
<1>6. LineageOK' /\ Grows /\ record' = record
  BY <1>2, LineageStays DEF controlDb, runDb
<1>7. ProposalsOK' /\ ConfirmedOnce'
  BY <1>2, <1>3, ProposalsStay DEF controlDb
<1>8. QED
  BY <1>1, <1>5, <1>6, <1>7, Leaves

LEMMA ExpireKeeps ==
  ASSUME DecisionsInv, NEW p \in Messages, Expire(p) PROVE DecisionsInv'
<1>1. /\ expired' = expired \cup {p}
      /\ UNCHANGED <<runDb, delivery, heard, pending, proposed, published, offered, local,
                     confirmed, bounds>>
  BY DEF Expire
<1>2. DecisionsTypeOK'
  BY <1>1 DEF DecisionsInv, DecisionsTypeOK, runDb, delivery, local, bounds
<1>3. UNCHANGED <<received, successor, planned, record, reported, heard, pending, published,
                  offered, confirmed, pc, call, facts, told>>
  BY <1>1 DEF runDb, delivery, local
<1>4. \A c \in Callers : CallOK(c)' /\ OwnOK(c)' /\ AfterOK(c)'
  BY <1>3 DEF DecisionsInv, CallOK, OwnOK, AfterOK, Copied, Id
<1>5. OneDecides' /\ LineageOK' /\ ProposalsOK'
  BY <1>3 DEF DecisionsInv, OneDecides, LineageOK, ProposalsOK, Id
<1>6. DecidedIsDelivered' /\ ConfirmedOnce'
  BY <1>3 DEF DecisionsInv, DecidedIsDelivered, ConfirmedOnce
<1>7. QED
  BY <1>2, <1>4, <1>5, <1>6 DEF DecisionsInv

LEMMA StepsKeep ==
  ASSUME DecisionsInv, NEW c \in Callers, Step(c) PROVE DecisionsInv'
BY ReceiveKeeps, PendKeeps, LookKeeps, LookupKeeps, CreateKeeps, AppendKeeps, DeltaKeeps,
   PlanKeeps, RecordDecisionKeeps, ReturnDirectKeeps, CopyKeeps, FactsKeeps, CompileReportKeeps,
   SettleKeeps
   DEF Step

LEMMA DecisionsNextInv == DecisionsInv /\ [DecisionsNext]_decisionsVars => DecisionsInv'
<1> SUFFICES ASSUME DecisionsInv, [DecisionsNext]_decisionsVars PROVE DecisionsInv'
  OBVIOUS
<1>1. CASE UNCHANGED decisionsVars
  <2>1. UNCHANGED <<runDb, delivery, controlDb, local, confirmed, bounds>>
    BY <1>1 DEF decisionsVars
  <2>2. DecisionsTypeOK'
    BY <2>1 DEF DecisionsInv, DecisionsTypeOK, runDb, delivery, controlDb, local, bounds
  <2>3. UNCHANGED <<received, successor, planned, record, reported, heard, pending, published,
                    offered, confirmed, pc, call, facts, told>>
    BY <2>1 DEF runDb, delivery, controlDb, local
  <2>4. \A c \in Callers : CallOK(c)' /\ OwnOK(c)' /\ AfterOK(c)'
    BY <2>3 DEF DecisionsInv, CallOK, OwnOK, AfterOK, Copied, Id
  <2>5. OneDecides' /\ LineageOK' /\ ProposalsOK'
    BY <2>3 DEF DecisionsInv, OneDecides, LineageOK, ProposalsOK, Id
  <2>6. DecidedIsDelivered' /\ ConfirmedOnce'
    BY <2>3 DEF DecisionsInv, DecidedIsDelivered, ConfirmedOnce
  <2>7. QED
    BY <2>2, <2>4, <2>5, <2>6 DEF DecisionsInv
<1>2. CASE DecisionsNext
  BY <1>2, RequestsKeep, StepsKeep, CallFailsKeeps, ExpireKeeps DEF DecisionsNext
<1>3. QED
  BY <1>1, <1>2

LEMMA DecisionsAlways == DecisionsSpec => []DecisionsInv
BY DecisionsInitInv, DecisionsNextInv, PTL DEF DecisionsSpec

(* The types of the tables of both databases, and of the calls.            *)
THEOREM DecisionsTypeCorrect == DecisionsSpec => []DecisionsTypeOK
<1>1. DecisionsInv => DecisionsTypeOK
  BY DEF DecisionsInv
<1>2. QED
  BY <1>1, DecisionsAlways, PTL

(* A call that returned a decision left nothing of it undone, whatever     *)
(* interleaved with it or died before it (_decide, confirm).               *)
THEOREM DecidedAreDelivered == DecisionsSpec => []DecidedIsDelivered
<1>1. DecisionsInv => DecidedIsDelivered
  BY DEF DecisionsInv
<1>2. QED
  BY <1>1, DecisionsAlways, PTL

(* One proposal is confirmed once, though its confirmations are many.      *)
THEOREM ConfirmedAtMostOnce == DecisionsSpec => []ConfirmedOnce
<1>1. DecisionsInv => ConfirmedOnce
  BY DEF DecisionsInv
<1>2. QED
  BY <1>1, DecisionsAlways, PTL

(* Of what the refinement looks at only four steps change anything.        *)
lineage == <<successor, planned, record, published, offered>>

LEMMA OnlyFourDecide ==
  ASSUME DecisionsNext,
         \A c \in Callers : ~(Delta(c) \/ Plan(c) \/ RecordDecision(c) \/ Copy(c))
  PROVE  UNCHANGED lineage
<1> USE DEF lineage
<1>1. CASE Request
  BY <1>1 DEF Request, Command, Decide, Propose, Begin, runDb, controlDb
<1>2. CASE Confirmation
  BY <1>2 DEF Confirmation, Confirm, Begin, runDb, controlDb
<1>3. ASSUME NEW c \in Callers, Step(c) PROVE UNCHANGED lineage
  BY <1>3 DEF Step, Receive, Pend, Look, Lookup, Converse, Create, Append, ReturnDirect, Facts,
              CompileReport, Settle, runDb, controlDb
<1>4. ASSUME NEW c \in Callers, CallFails(c) PROVE UNCHANGED lineage
  BY <1>4 DEF CallFails, runDb, controlDb
<1>5. ASSUME NEW p \in Messages, Expire(p) PROVE UNCHANGED lineage
  BY <1>5 DEF Expire, runDb
<1>6. QED
  BY <1>1, <1>2, <1>3, <1>4, <1>5 DEF DecisionsNext

LEMMA LineageSteps ==
  ASSUME DecisionsInv, [DecisionsNext]_decisionsVars PROVE [L!Next]_L!vars
<1>1. CASE UNCHANGED decisionsVars
  BY <1>1 DEF decisionsVars, runDb, controlDb, L!vars
<1>2. ASSUME NEW c \in Callers, Delta(c) PROVE [L!Next]_L!vars
  <2>1. Id(c) \in Messages /\ UNCHANGED <<planned, record, published, offered>>
    BY <1>2 DEF DecisionsInv, CallOK, Call, Id, Delta, At, controlDb
  <2>2. CASE successor # Nil
    BY <1>2, <2>1, <2>2 DEF Delta, L!vars
  <2>3. CASE successor = Nil
    <3>1. L!Freeze(Id(c))
      BY <1>2, <2>1, <2>3 DEF Delta, L!Freeze
    <3>2. QED
      BY <2>1, <3>1 DEF L!Next
  <2>4. QED
    BY <2>2, <2>3
<1>3. ASSUME NEW c \in Callers, Plan(c) PROVE [L!Next]_L!vars
  <2>1. /\ planned' = TRUE /\ UNCHANGED <<successor, record, published, offered>>
    BY <1>3 DEF Plan, controlDb
  <2>2. successor # Nil
    BY <1>3, NilIsNothing DEF Plan, At, DecisionsInv, OwnOK, Deciding, CallOK, Call, Id
  <2>3. planned \in BOOLEAN
    BY DEF DecisionsInv, DecisionsTypeOK
  <2>4. CASE planned
    BY <2>1, <2>3, <2>4 DEF L!vars
  <2>5. CASE ~planned
    BY <2>1, <2>2, <2>5 DEF L!Next, L!Plan
  <2>6. QED
    BY <2>4, <2>5
<1>4. ASSUME NEW c \in Callers, RecordDecision(c) PROVE [L!Next]_L!vars
  <2>1. /\ record' = [record EXCEPT ![Id(c)] = call[c].action]
        /\ UNCHANGED <<successor, planned, published, offered>>
    BY <1>4 DEF RecordDecision, controlDb
  <2>2. CallOK(c) /\ OwnOK(c) /\ pc[c] = "record"
    BY <1>4 DEF DecisionsInv, RecordDecision, At
  <2>3. Id(c) \in Messages /\ call[c].action \in {"accept", "reject", "revise"}
    BY <2>2 DEF CallOK, Call, Id, Actions
  <2>4. L!Decide(Id(c), call[c].action)
    BY <2>1, <2>2 DEF OwnOK, Deciding, L!Decide
  <2>5. QED
    BY <2>3, <2>4 DEF L!Next
<1>5. ASSUME NEW c \in Callers, Copy(c) PROVE [L!Next]_L!vars
  <2>1. UNCHANGED <<successor, planned, record>>
    BY <1>5 DEF Copy, runDb
  <2>2. CallOK(c) /\ AfterOK(c) /\ pc[c] = "copy"
    BY <1>5 DEF DecisionsInv, Copy, At
  <2>3. Id(c) \in Messages
    BY <2>2 DEF CallOK, Call, Id
  <2>4. CASE record[Id(c)] = "accept"
    BY <1>5, <2>1, <2>4 DEF Copy, L!vars
  <2>5. CASE record[Id(c)] # "accept"
    <3>1. record[Id(c)] \in {"reject", "revise"} /\ record[Id(c)] # Nil
      BY <2>2, <2>3, <2>5 DEF AfterOK, DecisionsInv, DecisionsTypeOK, Actions
    <3>2. successor = Id(c)
      BY <2>3, <2>5, <3>1 DEF DecisionsInv, LineageOK
    <3>3. published # Nil => published = successor
      BY DEF DecisionsInv, LineageOK
    <3>4. published' = Id(c) /\ offered' = (offered \/ record[Id(c)] = "revise")
      BY <1>5, <2>5, <3>2, <3>3 DEF Copy
    <3>5. L!Publish(Id(c))
      BY <2>1, <3>1, <3>2, <3>4 DEF L!Publish
    <3>6. QED
      BY <2>3, <3>5 DEF L!Next
  <2>6. QED
    BY <2>4, <2>5
<1>6. ASSUME DecisionsNext,
             \A c \in Callers : ~(Delta(c) \/ Plan(c) \/ RecordDecision(c) \/ Copy(c))
      PROVE  [L!Next]_L!vars
  BY <1>6, OnlyFourDecide DEF lineage, L!vars
<1>7. QED
  BY <1>1, <1>2, <1>3, <1>4, <1>5, <1>6

(* Whatever interleaves or dies, the Contract has one successor, which a   *)
(* decision on record accounts for before the control database is told of  *)
(* it: every step of the calls is a step of Lineage, or none.              *)
THEOREM DecisionsImplementLineage == DecisionsSpec => ImplementsLineage
<1>1. DecisionsInit => L!Init
  BY DEF DecisionsInit, L!Init
<1>2. DecisionsInv /\ [DecisionsNext]_decisionsVars => [L!Next]_L!vars
  BY LineageSteps
<1>3. QED
  BY <1>1, <1>2, DecisionsAlways, PTL DEF DecisionsSpec, ImplementsLineage, L!Spec

----------------------------------------------------------------------------
(* Nothing is owed that no call is about to pay: whoever waits for the     *)
(* report of a decision on record waits for a call that is under way.      *)
OwedIsUnderWay ==
  \A m \in Owed : \E c \in Callers : pc[c] \in {"copy", "facts", "report"} /\ Id(c) = m

LEMMA OthersUnderWay ==
  ASSUME DecisionsInv, NEW c \in Callers, Step(c) \/ CallFails(c), NEW d \in Callers \ {c}
  PROVE  pc'[d] = pc[d] /\ call'[d] = call[d]
<1> USE DEF DecisionsInv, DecisionsTypeOK
<1>1. CASE Step(c)
  <2>1. CASE Receive(c) \/ Pend(c) \/ Look(c)
    BY <2>1 DEF Receive, Pend, Look, GoOn, Return
  <2>2. CASE Lookup(c) \/ Converse(c) \/ Create(c) \/ Append(c)
    BY <2>2 DEF Lookup, Converse, Create, Append, GoOn, Return
  <2>3. CASE Delta(c) \/ Plan(c) \/ RecordDecision(c) \/ Copy(c)
    BY <2>3 DEF Delta, Plan, RecordDecision, Copy, GoOn, Return
  <2>4. CASE ReturnDirect(c) \/ Facts(c) \/ CompileReport(c) \/ Settle(c)
    BY <2>4 DEF ReturnDirect, Facts, CompileReport, Reported, Settle, GoOn, Return
  <2>5. QED
    BY <1>1, <2>1, <2>2, <2>3, <2>4 DEF Step
<1>2. CASE CallFails(c)
  BY <1>2 DEF CallFails, Return
<1>3. QED
  BY <1>1, <1>2

(* What is reported, told to have failed or decided without a report stays *)
(* so.                                                                     *)
Paid == reported \cup told["failed"] \cup told["direct"]

LEMMA PaidStays ==
  ASSUME DecisionsInv, [DecisionsNext]_decisionsVars
  PROVE  Paid \subseteq Paid'
<1> USE DEF Paid, Endings
<1>1. CASE UNCHANGED decisionsVars
  BY <1>1 DEF decisionsVars, delivery, local
<1>2. CASE Request \/ Confirmation
  BY <1>2 DEF Request, Command, Decide, Propose, Confirmation, Confirm, Begin, delivery
<1>3. ASSUME NEW c \in Callers, Step(c)
      PROVE  Paid \subseteq Paid'
  <2>1. CASE Receive(c) \/ Pend(c) \/ Look(c)
    BY <2>1 DEF Receive, Pend, Look, GoOn, Return, delivery
  <2>2. CASE Lookup(c) \/ Converse(c) \/ Create(c) \/ Append(c)
    BY <2>2 DEF Lookup, Converse, Create, Append, GoOn, Return, delivery
  <2>3. CASE Delta(c) \/ Plan(c) \/ RecordDecision(c) \/ Copy(c)
    BY <2>3 DEF Delta, Plan, RecordDecision, Copy, GoOn, Return, delivery
  <2>4. CASE ReturnDirect(c) \/ Facts(c) \/ CompileReport(c) \/ Settle(c)
    BY <2>4 DEF ReturnDirect, Facts, CompileReport, Reported, Settle, GoOn, Return, delivery
  <2>5. QED
    BY <1>3, <2>1, <2>2, <2>3, <2>4 DEF Step
<1>4. ASSUME NEW c \in Callers, CallFails(c)
      PROVE  Paid \subseteq Paid'
  BY <1>4 DEF CallFails, Return
<1>5. ASSUME NEW p \in Messages, Expire(p)
      PROVE  Paid \subseteq Paid'
  BY <1>5 DEF Expire, delivery, local
<1>6. QED
  BY <1>1, <1>2, <1>3, <1>4, <1>5 DEF DecisionsNext

(* A call that has a decision to report goes on towards the report, writes *)
(* it, or says that it failed.                                             *)
LEMMA ReportersGoOn ==
  ASSUME DecisionsInv, NEW c \in Callers, Step(c) \/ CallFails(c),
         pc[c] \in {"copy", "facts", "report"}
  PROVE  \/ pc'[c] \in {"copy", "facts", "report"} /\ Id(c)' = Id(c)
         \/ Id(c) \in Paid'
<1> USE DEF Paid, Endings
<1>1. DecisionsTypeOK /\ AfterOK(c)
  BY DEF DecisionsInv
<1>2. CASE CallFails(c)
  BY <1>2 DEF CallFails, Return, Id
<1>3. CASE Step(c)
  <2>1. ReturnDirect(c) \/ Copy(c) \/ Facts(c) \/ CompileReport(c)
    BY <1>3 DEF Step, Receive, Pend, Look, Lookup, Converse, Create, Append, Delta, Plan,
                RecordDecision, Settle, At
  <2>2. CASE Copy(c)
    BY <1>1, <2>2 DEF Copy, GoOn, Id, DecisionsTypeOK
  <2>3. CASE Facts(c)
    BY <1>1, <2>3 DEF Facts, Id, DecisionsTypeOK
  <2>4. CASE CompileReport(c)
    <3>1. Id(c) \in facts[c]
      BY <1>1, <2>4 DEF CompileReport, At, AfterOK
    <3>2. CASE folders > reports
      BY <2>4, <3>2 DEF CompileReport, Return, Id
    <3>3. CASE ~(folders > reports)
      BY <2>4, <3>1, <3>3 DEF CompileReport
    <3>4. QED
      BY <3>2, <3>3
  <2>5. CASE ReturnDirect(c)
    BY <2>5 DEF ReturnDirect, Return, Id
  <2>6. QED
    BY <2>1, <2>2, <2>3, <2>4, <2>5
<1>4. QED
  BY <1>2, <1>3

LEMMA OwedKeeps ==
  ASSUME DecisionsInv, OwedIsUnderWay, [DecisionsNext]_decisionsVars PROVE OwedIsUnderWay'
<1> SUFFICES ASSUME NEW m \in Owed'
             PROVE  \E c \in Callers : pc'[c] \in {"copy", "facts", "report"} /\ Id(c)' = m
  BY DEF OwedIsUnderWay
<1>1. m \in Messages /\ record'[m] # Nil /\ m \notin Paid
      /\ m \notin Paid'
  BY PaidStays DEF Owed, Paid
<1>2. CASE record[m] # Nil
  <2>1. PICK d \in Callers : pc[d] \in {"copy", "facts", "report"} /\ Id(d) = m
    BY <1>1, <1>2 DEF Owed, Paid, OwedIsUnderWay
  <2>2. CASE pc'[d] = pc[d] /\ call'[d] = call[d]
    BY <2>1, <2>2 DEF Id
  <2>3. CASE ~(pc'[d] = pc[d] /\ call'[d] = call[d])
    <3>1. ~UNCHANGED decisionsVars /\ \A p \in Messages : ~Expire(p)
      BY <2>3 DEF decisionsVars, Expire, local
    <3>2. ~Request /\ ~Confirmation
      BY <2>1, <2>3
         DEF Request, Command, Decide, Propose, Confirmation, Confirm, Begin, DecisionsInv,
             DecisionsTypeOK
    <3>3. PICK c \in Callers : Step(c) \/ CallFails(c)
      BY <3>1, <3>2 DEF DecisionsNext
    <3>4. c = d
      BY <2>3, <3>3, OthersUnderWay
    <3>5. QED
      BY <1>1, <2>1, <3>3, <3>4, ReportersGoOn
  <2>4. QED
    BY <2>2, <2>3
<1>3. CASE record[m] = Nil
  <2>1. ~UNCHANGED decisionsVars /\ ~UNCHANGED lineage
    BY <1>1, <1>3 DEF decisionsVars, runDb, lineage
  <2>2. PICK c \in Callers : Delta(c) \/ Plan(c) \/ RecordDecision(c) \/ Copy(c)
    BY <2>1, OnlyFourDecide
  <2>3. RecordDecision(c)
    BY <1>1, <1>3, <2>2 DEF Delta, Plan, Copy, runDb
  <2>4. pc'[c] = "copy" /\ Id(c)' = Id(c)
    BY <2>3 DEF RecordDecision, GoOn, Id, DecisionsInv, DecisionsTypeOK
  <2>5. Id(c) = m
    BY <1>1, <1>3, <2>3 DEF RecordDecision, DecisionsInv, DecisionsTypeOK
  <2>6. QED
    BY <2>4, <2>5
<1>4. QED
  BY <1>2, <1>3

(* The safety half of RecordedIsReported: a decision on record that no     *)
(* report tells of, whose caller was not told of a failure and was not     *)
(* answered by a command with --state-db, has a call under way that writes *)
(* the report (_decide) or is about to answer so; nothing else need happen *)
(* for it to be reported.                                                  *)
THEOREM OwedAreUnderWay == DecisionsSpec => []OwedIsUnderWay
<1>1. DecisionsInit => OwedIsUnderWay
  BY DEF DecisionsInit, OwedIsUnderWay, Owed
<1>2. DecisionsInv /\ OwedIsUnderWay /\ [DecisionsNext]_decisionsVars => OwedIsUnderWay'
  BY OwedKeeps
<1>3. QED
  BY <1>1, <1>2, DecisionsAlways, PTL DEF DecisionsSpec

=============================================================================
