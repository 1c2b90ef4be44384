--------------------------- MODULE RunStartProofs ---------------------------
(***************************************************************************)
(* What holds of RunStart for any number of Runs, keys, callers, crashes   *)
(* and controls.                                                           *)
(***************************************************************************)
EXTENDS RunStart, TLAPS

Begun == {"execute", "report", "complete"}

(* A call that has claimed its Run holds the only claim of it, which stays *)
(* executing until the call completes it; no two calls hold the same one.  *)
Holds(c, r, k) == pc[c] \in {"copy", "create"} \cup Begun /\ calledRun[c] = r /\ calledKey[c] = k

ClaimsOK ==
  /\ \A k \in Keys : claim[k] = None <=> claimRun[k] = None
  /\ \A k \in Keys : claimRun[k] # None =>
       planned[claimRun[k]] = (IF claim[k] = "executing" THEN "start_claimed" ELSE "started")
  /\ \A r \in Runs : planned[r] # "prepared" => \E k \in Keys : claimRun[k] = r
  /\ \A k1, k2 \in Keys : claimRun[k1] = claimRun[k2] /\ claimRun[k1] # None => k1 = k2

CallsOK ==
  /\ \A c \in Callers, r \in Runs, k \in Keys :
       Holds(c, r, k) => /\ claimRun[k] = r /\ claim[k] = "executing"
                         /\ pc[c] \in {"copy", "create"} => starts[r] = 0 /\ run[r] = None
                         /\ pc[c] \in Begun => starts[r] = 1
  /\ \A c, d \in Callers, r \in Runs, k, j \in Keys :
       Holds(c, r, k) /\ Holds(d, r, j) => c = d

RunsOK ==
  \A r \in Runs :
    /\ starts[r] \in {0, 1}
    /\ starts[r] = 0 <=> run[r] = None
    /\ planned[r] = "prepared" => starts[r] = 0
    /\ planned[r] = "started" => starts[r] = 1

StartInv == TypeOK /\ ClaimsOK /\ CallsOK /\ RunsOK

LEMMA TypeInit == Init => TypeOK
BY StartAssumption DEF Init, TypeOK, Planned, States, RunStatuses, Steps, Answers

LEMMA TypeNext == ASSUME TypeOK, [Next]_vars PROVE TypeOK'
<1> USE StartAssumption
<1> USE DEF TypeOK, Planned, States, RunStatuses, Steps, Answers, Goto, Answer,
            control, calls, bounds
<1>1. CASE UNCHANGED vars
  BY <1>1 DEF vars
<1>2. ASSUME NEW c \in Callers, NEW r \in Runs, NEW k \in Keys, Call(c, r, k) PROVE TypeOK'
  BY <1>2 DEF Call
<1>3. ASSUME NEW c \in Callers, Claim(c) PROVE TypeOK'
  BY <1>3 DEF Claim, Refusal
<1>4. ASSUME NEW c \in Callers, CopyFrozenInputs(c) PROVE TypeOK'
  BY <1>4 DEF CopyFrozenInputs
<1>5. ASSUME NEW c \in Callers, Materialize(c) PROVE TypeOK'
  BY <1>5 DEF Materialize
<1>6. ASSUME NEW c \in Callers, Execute(c) PROVE TypeOK'
  BY <1>6 DEF Execute
<1>7. ASSUME NEW c \in Callers, Report(c) PROVE TypeOK'
  BY <1>7 DEF Report
<1>8. ASSUME NEW c \in Callers, Complete(c) PROVE TypeOK'
  BY <1>8 DEF Complete
<1>9. ASSUME NEW c \in Callers, Fail(c) PROVE TypeOK'
  BY <1>9 DEF Fail, LeaveClaim
<1>10. ASSUME NEW c \in Callers, Crash(c) PROVE TypeOK'
  BY <1>10 DEF Crash
<1>11. ASSUME NEW r \in Runs, NEW action \in Actions, Control(r, action) PROVE TypeOK'
  BY <1>11 DEF Control, Effect, Allowed
<1>12. QED
  BY <1>1, <1>2, <1>3, <1>4, <1>5, <1>6, <1>7, <1>8, <1>9, <1>10, <1>11 DEF Next, Work

LEMMA StartInit == Init => StartInv
BY TypeInit, StartAssumption DEF Init, StartInv, ClaimsOK, CallsOK, RunsOK, Holds, Begun

(* A step that leaves the claims, the Runs and the starts alone and only   *)
(* lets calls end, or begin anew.                                          *)
LEMMA CallsEnd ==
  ASSUME StartInv, TypeOK', UNCHANGED <<control, run, starts>>,
         \A c \in Callers : \/ pc'[c] = pc[c] /\ calledRun'[c] = calledRun[c]
                               /\ calledKey'[c] = calledKey[c]
                            \/ pc'[c] \in {"idle", "claim"}
  PROVE  StartInv'
<1>1. \A c \in Callers, r \in Runs, k \in Keys :
        Holds(c, r, k)' => Holds(c, r, k) /\ pc'[c] = pc[c]
  BY DEF Holds, Begun
<1>2. ClaimsOK' /\ RunsOK'
  BY DEF StartInv, ClaimsOK, RunsOK, control
<1>3. CallsOK'
  BY <1>1 DEF StartInv, CallsOK, control
<1>4. QED
  BY <1>2, <1>3 DEF StartInv

LEMMA StartNext == ASSUME StartInv, [Next]_vars PROVE StartInv'
<1>0. TypeOK /\ TypeOK'
  BY TypeNext DEF StartInv
<1>1. CASE UNCHANGED vars
  BY <1>0, <1>1, CallsEnd DEF vars, calls
<1>2. ASSUME NEW c \in Callers, NEW r \in Runs, NEW k \in Keys, Call(c, r, k) PROVE StartInv'
  BY <1>0, <1>2, CallsEnd DEF Call, TypeOK
<1>3. ASSUME NEW c \in Callers, Claim(c) PROVE StartInv'
  <2> DEFINE r == calledRun[c]
             k == calledKey[c]
  <2>1. r \in Runs /\ k \in Keys
    BY <1>0 DEF TypeOK
  <2>2. CASE UNCHANGED control /\ \E what : Answer(c, what)
    BY <1>0, <1>3, <2>2, CallsEnd DEF Claim, Answer, TypeOK
  <2>3. CASE /\ Refusal(r, k) = None
             /\ claimRun' = [claimRun EXCEPT ![k] = r]
             /\ claim' = [claim EXCEPT ![k] = "executing"]
             /\ planned' = [planned EXCEPT ![r] = "start_claimed"]
             /\ Goto(c, "copy")
    <3>1. planned[r] = "prepared" /\ claimRun[k] = None
      BY <1>0, <2>1, <2>3, StartAssumption DEF Refusal, TypeOK, Planned, Answers
    <3>2. pc[c] = "claim" /\ pc' = [pc EXCEPT ![c] = "copy"]
          /\ UNCHANGED <<calledRun, calledKey, run, starts>>
      BY <1>3, <2>3 DEF Claim, Goto
    <3>3. \A j \in Keys : claimRun[j] # r
      BY <2>1, <3>1, StartAssumption DEF StartInv, ClaimsOK
    <3>4. ClaimsOK'
      <4>1. \A j \in Keys : j # k => claimRun'[j] = claimRun[j] /\ claim'[j] = claim[j]
        BY <1>0, <2>3 DEF TypeOK
      <4>2. claimRun'[k] = r /\ claim'[k] = "executing" /\ planned'[r] = "start_claimed"
        BY <1>0, <2>1, <2>3 DEF TypeOK
      <4>3. \A s \in Runs : s # r => planned'[s] = planned[s]
        BY <1>0, <2>3 DEF TypeOK
      <4>4. \A j \in Keys : claim'[j] = None <=> claimRun'[j] = None
        BY <2>1, <4>1, <4>2, StartAssumption DEF StartInv, ClaimsOK, States
      <4>5. \A j \in Keys : claimRun'[j] # None =>
              planned'[claimRun'[j]] = (IF claim'[j] = "executing" THEN "start_claimed" ELSE "started")
        BY <1>0, <2>1, <3>3, <4>1, <4>2, <4>3 DEF StartInv, ClaimsOK, TypeOK
      <4>6. \A s \in Runs : planned'[s] # "prepared" => \E j \in Keys : claimRun'[j] = s
        <5> SUFFICES ASSUME NEW s \in Runs, planned'[s] # "prepared"
                     PROVE  \E j \in Keys : claimRun'[j] = s
          OBVIOUS
        <5>1. CASE s = r
          BY <2>1, <4>2, <5>1
        <5>2. CASE s # r
          <6>1. PICK j \in Keys : claimRun[j] = s
            BY <4>3, <5>2 DEF StartInv, ClaimsOK
          <6>2. j # k
            BY <3>1, <6>1, StartAssumption
          <6>3. QED
            BY <4>1, <6>1, <6>2
        <5>3. QED
          BY <5>1, <5>2
      <4>7. \A j1, j2 \in Keys : claimRun'[j1] = claimRun'[j2] /\ claimRun'[j1] # None => j1 = j2
        BY <3>3, <4>1, <4>2 DEF StartInv, ClaimsOK
      <4>8. QED
        BY <4>4, <4>5, <4>6, <4>7 DEF ClaimsOK
    <3>5. \A d \in Callers, s \in Runs, j \in Keys :
            Holds(d, s, j)' => \/ Holds(d, s, j) /\ d # c /\ s # r /\ j # k
                               \/ d = c /\ s = r /\ j = k
      <4> SUFFICES ASSUME NEW d \in Callers, NEW s \in Runs, NEW j \in Keys,
                          Holds(d, s, j)', d # c
                   PROVE  Holds(d, s, j) /\ s # r /\ j # k
        BY <3>2 DEF Holds
      <4>1. Holds(d, s, j)
        BY <1>0, <3>2 DEF Holds, TypeOK
      <4>2. claimRun[j] = s
        BY <4>1 DEF StartInv, CallsOK
      <4>3. QED
        BY <3>1, <3>3, <4>1, <4>2, StartAssumption
    <3>6. starts[r] = 0 /\ run[r] = None
      BY <2>1, <3>1 DEF StartInv, RunsOK
    <3>7. CallsOK'
      <4>1. ASSUME NEW d \in Callers, NEW s \in Runs, NEW j \in Keys, Holds(d, s, j)'
            PROVE  /\ claimRun'[j] = s /\ claim'[j] = "executing"
                   /\ pc'[d] \in {"copy", "create"} => starts'[s] = 0 /\ run'[s] = None
                   /\ pc'[d] \in Begun => starts'[s] = 1
        <5>1. CASE d = c /\ s = r /\ j = k
          BY <1>0, <2>1, <2>3, <3>2, <3>6, <5>1 DEF TypeOK, Begun
        <5>2. CASE Holds(d, s, j) /\ d # c /\ s # r /\ j # k
          BY <1>0, <2>1, <2>3, <3>2, <5>2 DEF StartInv, CallsOK, TypeOK
        <5>3. QED
          BY <3>5, <4>1, <5>1, <5>2
      <4>2. ASSUME NEW d \in Callers, NEW e \in Callers, NEW s \in Runs,
                   NEW j \in Keys, NEW l \in Keys, Holds(d, s, j)', Holds(e, s, l)'
            PROVE  d = e
        BY <3>5, <4>2 DEF StartInv, CallsOK
      <4>3. QED
        BY <4>1, <4>2 DEF CallsOK
    <3>8. RunsOK'
      BY <1>0, <2>1, <2>3, <3>1, <3>2 DEF StartInv, RunsOK, TypeOK
    <3>9. QED
      BY <1>0, <3>4, <3>7, <3>8 DEF StartInv
  <2>4. QED
    BY <1>3, <2>2, <2>3 DEF Claim
<1>4. ASSUME NEW c \in Callers, CopyFrozenInputs(c) PROVE StartInv'
  BY <1>0, <1>4 DEF CopyFrozenInputs, Goto, control, StartInv, ClaimsOK, CallsOK, RunsOK, Holds, Begun, TypeOK
<1>5. ASSUME NEW c \in Callers, Materialize(c) PROVE StartInv'
  <2> DEFINE r == calledRun[c]
             k == calledKey[c]
  <2>1. r \in Runs /\ k \in Keys /\ Holds(c, r, k)
    BY <1>0, <1>5 DEF Materialize, TypeOK, Holds
  <2>2. claimRun[k] = r /\ claim[k] = "executing" /\ starts[r] = 0 /\ run[r] = None
    BY <1>5, <2>1 DEF Materialize, StartInv, CallsOK
  <2>3. /\ starts' = [starts EXCEPT ![r] = @ + 1]
        /\ run' = [run EXCEPT ![r] = "running"]
        /\ pc' = [pc EXCEPT ![c] = "execute"]
        /\ UNCHANGED <<planned, claimRun, claim, calledRun, calledKey>>
    BY <1>5, <2>2 DEF Materialize, Goto, control
  <2>4. \A d \in Callers, s \in Runs, j \in Keys :
          Holds(d, s, j)' => Holds(d, s, j) /\ (d # c => pc'[d] = pc[d] /\ s # r)
    BY <1>0, <1>5, <2>1, <2>3 DEF Materialize, Holds, Begun, TypeOK, StartInv, CallsOK
  <2>5. ClaimsOK'
    BY <2>3 DEF StartInv, ClaimsOK
  <2>6. planned[r] = "start_claimed"
    BY <2>1, <2>2, StartAssumption DEF StartInv, ClaimsOK
  <2>7. RunsOK'
    BY <1>0, <2>1, <2>2, <2>3, <2>6, StartAssumption DEF StartInv, RunsOK, TypeOK, RunStatuses
  <2>8. CallsOK'
    <3>1. ASSUME NEW d \in Callers, NEW s \in Runs, NEW j \in Keys, Holds(d, s, j)'
          PROVE  /\ claimRun'[j] = s /\ claim'[j] = "executing"
                 /\ pc'[d] \in {"copy", "create"} => starts'[s] = 0 /\ run'[s] = None
                 /\ pc'[d] \in Begun => starts'[s] = 1
      <4>1. CASE d = c
        BY <1>0, <2>1, <2>2, <2>3, <3>1, <4>1 DEF Holds, Begun, TypeOK
      <4>2. CASE d # c
        BY <1>0, <2>1, <2>3, <2>4, <3>1, <4>2 DEF StartInv, CallsOK, TypeOK
      <4>3. QED
        BY <4>1, <4>2
    <3>2. ASSUME NEW d \in Callers, NEW e \in Callers, NEW s \in Runs,
                 NEW j \in Keys, NEW l \in Keys, Holds(d, s, j)', Holds(e, s, l)'
          PROVE  d = e
      BY <2>4, <3>2 DEF StartInv, CallsOK
    <3>3. QED
      BY <3>1, <3>2 DEF CallsOK
  <2>9. QED
    BY <1>0, <2>5, <2>7, <2>8 DEF StartInv
<1>6. ASSUME NEW c \in Callers, Execute(c) PROVE StartInv'
  <2> DEFINE r == calledRun[c]
  <2>1. r \in Runs /\ calledKey[c] \in Keys /\ Holds(c, r, calledKey[c])
    BY <1>0, <1>6 DEF Execute, TypeOK, Holds, Begun
  <2>2. starts[r] = 1 /\ run[r] # None
    BY <1>6, <2>1 DEF Execute, StartInv, CallsOK, RunsOK, Begun
  <2>3. /\ UNCHANGED <<planned, claimRun, claim, calledRun, calledKey, starts>>
        /\ pc[c] = "execute" /\ pc' \in {[pc EXCEPT ![c] = "report"], [pc EXCEPT ![c] = "idle"]}
        /\ \/ run' = run
           \/ run' = [run EXCEPT ![r] = "ended"]
           \/ run' = [run EXCEPT ![r] = "paused"]
    BY <1>6 DEF Execute, Goto, Answer, control
  <2>4. \A s \in Runs : run'[s] = None <=> run[s] = None
    BY <1>0, <2>1, <2>2, <2>3, StartAssumption DEF TypeOK, RunStatuses
  <2>5. \A d \in Callers, s \in Runs, j \in Keys :
          Holds(d, s, j)' => /\ Holds(d, s, j)
                             /\ pc'[d] \in {"copy", "create"} => pc[d] \in {"copy", "create"}
                             /\ pc'[d] \in Begun => pc[d] \in Begun
    BY <1>0, <2>3 DEF Holds, Begun, TypeOK
  <2>6. CallsOK'
    BY <2>3, <2>4, <2>5 DEF StartInv, CallsOK
  <2>7. ClaimsOK' /\ RunsOK'
    BY <2>3, <2>4 DEF StartInv, ClaimsOK, RunsOK
  <2>8. QED
    BY <1>0, <2>6, <2>7 DEF StartInv
<1>7. ASSUME NEW c \in Callers, Report(c) PROVE StartInv'
  BY <1>0, <1>7 DEF Report, Goto, control, StartInv, ClaimsOK, CallsOK, RunsOK, Holds, Begun, TypeOK
<1>8. ASSUME NEW c \in Callers, Complete(c) PROVE StartInv'
  <2> DEFINE r == calledRun[c]
             k == calledKey[c]
  <2>1. r \in Runs /\ k \in Keys /\ Holds(c, r, k)
    BY <1>0, <1>8 DEF Complete, TypeOK, Holds, Begun
  <2>2. claimRun[k] = r /\ claim[k] = "executing" /\ starts[r] = 1
    BY <1>8, <2>1 DEF Complete, StartInv, CallsOK, Begun
  <2>3. /\ claim' = [claim EXCEPT ![k] = "completed"]
        /\ planned' = [planned EXCEPT ![r] = "started"]
        /\ pc' = [pc EXCEPT ![c] = "idle"]
        /\ UNCHANGED <<claimRun, run, starts, calledRun, calledKey>>
    BY <1>8, <2>2 DEF Complete, Answer
  <2>4. \A j \in Keys : claimRun[j] = r => j = k
    BY <2>1, <2>2, StartAssumption DEF StartInv, ClaimsOK
  <2>5. ClaimsOK'
    <3>1. \A j \in Keys : j # k => claim'[j] = claim[j]
      BY <1>0, <2>3 DEF TypeOK
    <3>2. claim'[k] = "completed" /\ planned'[r] = "started"
      BY <1>0, <2>1, <2>3 DEF TypeOK
    <3>3. \A s \in Runs : s # r => planned'[s] = planned[s]
      BY <1>0, <2>3 DEF TypeOK
    <3>4. \A j \in Keys : claim'[j] = None <=> claimRun'[j] = None
      <4>1. claim'[k] # None /\ claimRun'[k] # None
        BY <2>1, <2>2, <2>3, <3>2, StartAssumption DEF States
      <4>2. QED
        BY <2>3, <3>1, <4>1 DEF StartInv, ClaimsOK
    <3>5. \A j \in Keys : claimRun'[j] # None =>
            planned'[claimRun'[j]] = (IF claim'[j] = "executing" THEN "start_claimed" ELSE "started")
      BY <1>0, <2>1, <2>2, <2>3, <2>4, <3>1, <3>2, <3>3 DEF StartInv, ClaimsOK, TypeOK
    <3>6. \A s \in Runs : planned'[s] # "prepared" => \E j \in Keys : claimRun'[j] = s
      BY <2>1, <2>2, <2>3, <3>2, <3>3 DEF StartInv, ClaimsOK
    <3>7. QED
      BY <2>3, <3>4, <3>5, <3>6 DEF StartInv, ClaimsOK
  <2>6. \A d \in Callers, s \in Runs, j \in Keys :
          Holds(d, s, j)' => Holds(d, s, j) /\ pc'[d] = pc[d] /\ s # r /\ j # k
    <3> SUFFICES ASSUME NEW d \in Callers, NEW s \in Runs, NEW j \in Keys, Holds(d, s, j)'
                 PROVE  Holds(d, s, j) /\ pc'[d] = pc[d] /\ s # r /\ j # k
      OBVIOUS
    <3>1. d # c /\ Holds(d, s, j) /\ pc'[d] = pc[d]
      BY <1>0, <2>3 DEF Holds, Begun, TypeOK
    <3>2. s # r
      BY <2>1, <3>1 DEF StartInv, CallsOK
    <3>3. claimRun[j] = s
      BY <3>1 DEF StartInv, CallsOK
    <3>4. QED
      BY <2>2, <3>1, <3>2, <3>3
  <2>7. CallsOK'
    BY <1>0, <2>1, <2>3, <2>6 DEF StartInv, CallsOK, TypeOK
  <2>8. RunsOK'
    BY <1>0, <2>1, <2>2, <2>3 DEF StartInv, RunsOK, TypeOK
  <2>9. QED
    BY <1>0, <2>5, <2>7, <2>8 DEF StartInv
<1>9. ASSUME NEW c \in Callers, Fail(c) \/ Crash(c) PROVE StartInv'
  BY <1>0, <1>9, CallsEnd DEF Fail, Crash, LeaveClaim, Answer, TypeOK
<1>10. ASSUME NEW r \in Runs, NEW action \in Actions, Control(r, action) PROVE StartInv'
  <2>1. /\ UNCHANGED <<planned, claimRun, claim, pc, calledRun, calledKey, starts>>
        /\ run' = [run EXCEPT ![r] = Effect[action]]
        /\ run[r] # None
    BY <1>10, StartAssumption DEF Control, Allowed, control, calls, RunStatuses
  <2>2. Effect[action] \in RunStatuses
    BY StartAssumption DEF Effect, RunStatuses
  <2>3. \A s \in Runs : run'[s] = None <=> run[s] = None
    BY <1>0, <2>1, <2>2, StartAssumption DEF TypeOK
  <2>4. \A d \in Callers, s \in Runs, j \in Keys : Holds(d, s, j)' <=> Holds(d, s, j)
    BY <2>1 DEF Holds
  <2>5. QED
    BY <1>0, <2>1, <2>3, <2>4 DEF StartInv, ClaimsOK, CallsOK, RunsOK
<1>11. QED
  BY <1>1, <1>2, <1>3, <1>4, <1>5, <1>6, <1>7, <1>8, <1>9, <1>10 DEF Next, Work

LEMMA StartInvariant == Spec => []StartInv
BY StartInit, StartNext, PTL DEF Spec

THEOREM TypeCorrect == Spec => []TypeOK
<1>1. StartInv => TypeOK
  BY DEF StartInv
<1>2. QED
  BY <1>1, StartInvariant, PTL

(* No Run is begun twice: whatever keys are used, and whoever crashes and  *)
(* asks again, runtime.run is entered at most once for each Run.           *)
THEOREM StartsAreOnce == Spec => []StartedOnce
<1>1. StartInv => StartedOnce
  BY DEF StartInv, RunsOK, StartedOnce
<1>2. QED
  BY <1>1, StartInvariant, PTL

(* A Run exists only under its one claim.                                  *)
THEOREM ClaimsComeFirst == Spec => []ClaimedFirst
<1>1. StartInv => ClaimedFirst
  BY StartAssumption DEF StartInv, ClaimsOK, RunsOK, ClaimedFirst
<1>2. QED
  BY <1>1, StartInvariant, PTL

----------------------------------------------------------------------------
LEMMA Advances ==
  ASSUME NEW r \in Runs, NEW CONSTANT from, NEW CONSTANT to,
         Phase(r) = from, Phase(r)' = to,
         \A s \in Runs : s # r => Phase(s)' = Phase(s)
  PROVE  Once!Advance(r, from, to)
BY DEF Once!Advance

LEMMA OnceStep ==
  ASSUME StartInv, StartInv', [Next]_vars
  PROVE  [Once!Next]_[r \in Runs |-> Phase(r)]
<1> DEFINE phase == [r \in Runs |-> Phase(r)]
<1>0. TypeOK /\ TypeOK'
  BY DEF StartInv
<1>1. ASSUME UNCHANGED <<planned, starts>> PROVE UNCHANGED phase
  BY <1>1 DEF Phase
<1>2. ASSUME NEW c \in Callers, NEW r \in Runs, r = calledRun[c], Claim(c)
      PROVE  Once!Next \/ UNCHANGED phase
  <2>1. CASE UNCHANGED control
    BY <1>1, <1>2, <2>1 DEF Claim, control
  <2>2. CASE Refusal(r, calledKey[c]) = None /\ planned' = [planned EXCEPT ![r] = "start_claimed"]
    <3>1. planned[r] = "prepared" /\ UNCHANGED starts
      BY <1>0, <1>2, <2>2, StartAssumption DEF Claim, Refusal, TypeOK, Planned, Answers
    <3>2. starts[r] = 0
      BY <3>1 DEF StartInv, RunsOK
    <3>3. Phase(r) = "new"
      BY <3>1 DEF Phase
    <3>4. planned'[r] = "start_claimed" /\ starts'[r] = 0
      BY <1>0, <2>2, <3>1, <3>2 DEF TypeOK
    <3>5. Phase(r)' = "claimed"
      BY <3>4 DEF Phase
    <3>6. \A s \in Runs : s # r => Phase(s)' = Phase(s)
      BY <1>0, <2>2, <3>1 DEF Phase, TypeOK
    <3>7. QED
      BY <3>3, <3>5, <3>6, Advances DEF Once!Next
  <2>3. QED
    BY <1>2, <2>1, <2>2 DEF Claim
<1>3. ASSUME NEW c \in Callers, NEW r \in Runs, r = calledRun[c], Materialize(c)
      PROVE  Once!Next
  <2>1. calledKey[c] \in Keys /\ Holds(c, r, calledKey[c]) /\ pc[c] = "create"
    BY <1>0, <1>3 DEF Materialize, TypeOK, Holds
  <2>2. claimRun[calledKey[c]] = r /\ claim[calledKey[c]] = "executing" /\ starts[r] = 0
    BY <1>3, <2>1 DEF StartInv, CallsOK
  <2>3. planned[r] = "start_claimed"
    BY <2>1, <2>2, StartAssumption DEF StartInv, ClaimsOK
  <2>4. UNCHANGED planned /\ starts' = [starts EXCEPT ![r] = @ + 1]
    BY <1>3 DEF Materialize, control
  <2>5. planned'[r] = "start_claimed" /\ starts'[r] = 1
    BY <1>0, <1>3, <2>2, <2>3, <2>4 DEF TypeOK
  <2>6. Phase(r) = "claimed"
    BY <2>2, <2>3 DEF Phase
  <2>7. Phase(r)' = "begun"
    BY <2>5 DEF Phase
  <2>8. \A s \in Runs : s # r => Phase(s)' = Phase(s)
    BY <1>0, <2>4 DEF Phase, TypeOK
  <2>9. QED
    BY <1>3, <2>6, <2>7, <2>8, Advances DEF Once!Next
<1>4. ASSUME NEW c \in Callers, NEW r \in Runs, r = calledRun[c], Complete(c)
      PROVE  Once!Next
  <2>1. calledKey[c] \in Keys /\ Holds(c, r, calledKey[c]) /\ pc[c] \in Begun
    BY <1>0, <1>4 DEF Complete, TypeOK, Holds, Begun
  <2>2. claimRun[calledKey[c]] = r /\ claim[calledKey[c]] = "executing" /\ starts[r] = 1
    BY <1>4, <2>1 DEF StartInv, CallsOK
  <2>3. planned[r] = "start_claimed"
    BY <2>1, <2>2, StartAssumption DEF StartInv, ClaimsOK
  <2>4. UNCHANGED starts /\ planned' = [planned EXCEPT ![r] = "started"]
    BY <1>4 DEF Complete
  <2>5. planned'[r] = "started"
    BY <1>0, <1>4, <2>4 DEF TypeOK
  <2>6. Phase(r) = "begun"
    BY <2>2, <2>3 DEF Phase
  <2>7. Phase(r)' = "done"
    BY <2>5 DEF Phase
  <2>8. \A s \in Runs : s # r => Phase(s)' = Phase(s)
    BY <1>0, <2>4 DEF Phase, TypeOK
  <2>9. QED
    BY <1>4, <2>6, <2>7, <2>8, Advances DEF Once!Next
<1>5. ASSUME NEW c \in Callers,
             CopyFrozenInputs(c) \/ Execute(c) \/ Report(c) \/ Fail(c) \/ Crash(c)
      PROVE  UNCHANGED <<planned, starts>>
  BY <1>5 DEF CopyFrozenInputs, Execute, Report, Fail, Crash, LeaveClaim, control
<1>6. ASSUME NEW c \in Callers, NEW r \in Runs, NEW k \in Keys, Call(c, r, k)
      PROVE  UNCHANGED <<planned, starts>>
  BY <1>6 DEF Call, control
<1>7. ASSUME NEW r \in Runs, NEW action \in Actions, Control(r, action)
      PROVE  UNCHANGED <<planned, starts>>
  BY <1>7 DEF Control, control
<1>8. UNCHANGED vars => UNCHANGED <<planned, starts>>
  BY DEF vars, control
<1>9. \A c \in Callers : calledRun[c] \in Runs
  BY <1>0 DEF TypeOK
<1>10. QED
  BY <1>1, <1>2, <1>3, <1>4, <1>5, <1>6, <1>7, <1>8, <1>9 DEF Next, Work

(* The coordinator implements the at-most-once start: each step moves one  *)
(* Run to its next phase, or none.                                         *)
THEOREM StartImplementsOnce == Spec => StartsOnce
<1>1. Init => Once!Init
  BY DEF Init, Once!Init, Phase
<1>2. StartInv /\ StartInv' /\ [Next]_vars => [Once!Next]_[r \in Runs |-> Phase(r)]
  BY OnceStep
<1>3. QED
  BY <1>1, <1>2, StartInvariant, PTL DEF Spec, StartsOnce, Once!Spec

----------------------------------------------------------------------------
(* What callers are told.                                                  *)

IsReal(r) == run[r] = "ended" /\ r \in reported

RealInv ==
  /\ \A k \in Keys : claim[k] = "completed" => IsReal(claimRun[k])
  /\ \A c \in Callers :
       /\ pc[c] = "report" => run[calledRun[c]] = "ended"
       /\ pc[c] = "complete" => IsReal(calledRun[c])
  /\ ResultsAreReal

(* A Run that has ended and has its report stays so.                       *)
LEMMA RealStays ==
  ASSUME TypeOK, [Next]_vars
  PROVE  /\ reported \subseteq reported'
         /\ \A r \in Runs : run[r] = "ended" => run'[r] = "ended"
<1>1. ASSUME NEW c \in Callers, Work(c) \/ Fail(c) \/ Crash(c)
      PROVE  /\ reported \subseteq reported'
             /\ \A r \in Runs : run[r] = "ended" => run'[r] = "ended"
  <2>1. CASE Materialize(c)
    BY <2>1, StartAssumption DEF Materialize, TypeOK, RunStatuses
  <2>2. CASE Execute(c)
    BY <2>2 DEF Execute, TypeOK
  <2>3. CASE Report(c)
    BY <2>3 DEF Report
  <2>4. CASE UNCHANGED <<run, reported>>
    BY <2>4
  <2>5. QED
    BY <1>1, <2>1, <2>2, <2>3, <2>4 DEF Work, Claim, CopyFrozenInputs, Complete, Fail, Crash
<1>2. ASSUME NEW r \in Runs, NEW action \in Actions, Control(r, action)
      PROVE  reported \subseteq reported' /\ \A s \in Runs : run[s] = "ended" => run'[s] = "ended"
  BY <1>2 DEF Control, Allowed, TypeOK
<1>3. QED
  BY <1>1, <1>2 DEF Next, Call, vars

(* A step that completes no claim and tells no caller of a result.         *)
LEMMA RealKept ==
  ASSUME StartInv, RealInv, [Next]_vars,
         \A k \in Keys : claim'[k] = "completed" => claim[k] = "completed" /\ claimRun'[k] = claimRun[k],
         \A c \in Callers :
           /\ pc'[c] \in {"report", "complete"} => pc'[c] = pc[c] /\ calledRun'[c] = calledRun[c]
           /\ answer'[c] = "result" => answer[c] = "result" /\ calledRun'[c] = calledRun[c]
  PROVE  RealInv'
<1>1. /\ \A r \in Runs : run[r] = "ended" => run'[r] = "ended"
      /\ \A r \in Runs : IsReal(r) => IsReal(r)'
  BY RealStays DEF StartInv, IsReal
<1>2. (\A c \in Callers : calledRun[c] \in Runs) /\ \A k \in Keys : claim[k] = "completed" => claimRun[k] \in Runs
  BY StartAssumption DEF StartInv, ClaimsOK, TypeOK, States
<1>3. QED
  BY <1>1, <1>2 DEF RealInv, ResultsAreReal, IsReal

LEMMA RealNext == ASSUME StartInv, RealInv, [Next]_vars PROVE RealInv'
<1> USE StartAssumption
<1>0. TypeOK /\ \A r \in Runs : IsReal(r) => IsReal(r)'
  BY RealStays DEF StartInv, IsReal
<1>1. CASE UNCHANGED vars
  BY <1>1, RealKept DEF vars, control, calls
<1>2. ASSUME NEW c \in Callers, NEW r \in Runs, NEW k \in Keys, Call(c, r, k) PROVE RealInv'
  BY <1>0, <1>2, RealKept DEF Call, control, TypeOK, Answers
<1>3. ASSUME NEW c \in Callers, Claim(c) PROVE RealInv'
  <2>1. calledRun[c] \in Runs /\ calledKey[c] \in Keys
    BY <1>0 DEF TypeOK
  <2>2. CASE claimRun[calledKey[c]] = calledRun[c] /\ claim[calledKey[c]] = "completed"
    <3>1. IsReal(calledRun[c]) /\ UNCHANGED <<control, run, reported, calledRun>>
      BY <1>3, <2>1, <2>2 DEF Claim, Answer, Refusal, RealInv
    <3>2. /\ \A d \in Callers : pc'[d] \in {"report", "complete"} => pc'[d] = pc[d]
          /\ \A d \in Callers : answer'[d] = "result" => answer[d] = "result" \/ d = c
      BY <1>0, <1>3, <2>2 DEF Claim, Answer, Goto, TypeOK
    <3>3. QED
      BY <3>1, <3>2 DEF RealInv, ResultsAreReal, IsReal, control
  <2>3. CASE ~(claimRun[calledKey[c]] = calledRun[c] /\ claim[calledKey[c]] = "completed")
    <3>1. Refusal(calledRun[c], calledKey[c]) # "result"
      BY DEF Refusal, Answers
    <3>2. QED
      BY <1>0, <1>3, <2>1, <2>3, <3>1, RealKept DEF Claim, Answer, Goto, control, TypeOK
  <2>4. QED
    BY <2>2, <2>3
<1>4. ASSUME NEW c \in Callers, CopyFrozenInputs(c) \/ Materialize(c) PROVE RealInv'
  BY <1>0, <1>4, RealKept DEF CopyFrozenInputs, Materialize, Goto, control, TypeOK
<1>5. ASSUME NEW c \in Callers, Execute(c) PROVE RealInv'
  <2>1. CASE pc'[c] = "report"
    <3>1. /\ run'[calledRun[c]] = "ended" /\ UNCHANGED <<control, reported, calledRun, answer>>
          /\ pc' = [pc EXCEPT ![c] = "report"]
      BY <1>0, <1>5, <2>1 DEF Execute, Goto, Answer, TypeOK
    <3>2. \A r \in Runs : run[r] = "ended" => run'[r] = "ended"
      BY RealStays DEF StartInv
    <3>3. (\A d \in Callers : calledRun[d] \in Runs) /\ \A k \in Keys : claim[k] = "completed" => claimRun[k] \in Runs
      BY DEF StartInv, ClaimsOK, TypeOK, States
    <3>4. QED
      BY <1>0, <3>1, <3>2, <3>3 DEF RealInv, ResultsAreReal, IsReal, control, TypeOK
  <2>2. CASE pc'[c] # "report"
    BY <1>0, <1>5, <2>2, RealKept DEF Execute, Goto, Answer, control, TypeOK
  <2>3. QED
    BY <2>1, <2>2
<1>6. ASSUME NEW c \in Callers, Report(c) PROVE RealInv'
  BY <1>0, <1>6 DEF Report, Goto, control, RealInv, ResultsAreReal, IsReal, TypeOK
<1>7. ASSUME NEW c \in Callers, Complete(c) PROVE RealInv'
  <2>1. calledRun[c] \in Runs /\ calledKey[c] \in Keys /\ IsReal(calledRun[c])
    BY <1>0, <1>7 DEF Complete, TypeOK, RealInv
  <2>2. claimRun[calledKey[c]] = calledRun[c]
    BY <1>7, <2>1 DEF Complete, StartInv, CallsOK, Holds, Begun
  <2>3. QED
    BY <1>0, <1>7, <2>1, <2>2 DEF Complete, Answer, RealInv, ResultsAreReal, IsReal, TypeOK
<1>8. ASSUME NEW c \in Callers, Fail(c) \/ Crash(c) PROVE RealInv'
  BY <1>0, <1>8, RealKept DEF Fail, Crash, LeaveClaim, Answer, control, TypeOK
<1>9. ASSUME NEW r \in Runs, NEW action \in Actions, Control(r, action) PROVE RealInv'
  BY <1>9, RealKept DEF Control, control, calls
<1>10. QED
  BY <1>1, <1>2, <1>3, <1>4, <1>5, <1>6, <1>7, <1>8, <1>9 DEF Next, Work

(* ResultsAreReal: a caller that is given a result, its own or a replayed  *)
(* one, is told of a Run that has ended and has its report.                *)
THEOREM ResultsHold == Spec => []ResultsAreReal
<1>1. Init => StartInv /\ RealInv
  <2>1. Init => RealInv
    BY StartAssumption DEF Init, RealInv, ResultsAreReal, States, Answers, Planned
  <2>2. QED
    BY <2>1, StartInit
<1>2. StartInv /\ RealInv /\ [Next]_vars => (StartInv /\ RealInv)'
  BY StartNext, RealNext
<1>3. RealInv => ResultsAreReal
  BY DEF RealInv
<1>4. QED
  BY <1>1, <1>2, <1>3, PTL DEF Spec
=============================================================================
