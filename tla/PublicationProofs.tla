------------------------- MODULE PublicationProofs -------------------------
(***************************************************************************)
(* Proofs about the pull requests of Runs.  CreatedOnce rests on the       *)
(* intent: of the calls for a Run only the one that wrote it may create,   *)
(* and only once.  That is what NewOK and OneNew say of the program        *)
(* counters, and IntentOK of the host.                                     *)
(***************************************************************************)
EXTENDS Publication, TLAPS

Creating == {"discover", "again", "post"}

(* A call is for a Run, and only the call that is new gets to create.      *)
CallsOK ==
  \A c \in Callers :
    /\ pc[c] # "idle" => run[c] \in Runs
    /\ pc[c] \in {"again", "post"} => isNew[c]

(* A call that is new owns an intent under which nothing was created.      *)
NewOK ==
  \A c \in Callers :
    (isNew[c] /\ pc[c] \in Creating) =>
      /\ intent[run[c]] # None
      /\ \A n \in Numbers : author[n] # run[c]

OneNew ==
  \A c, d \in Callers :
    (isNew[c] /\ pc[c] \in Creating /\ isNew[d] /\ pc[d] \in Creating /\ run[c] = run[d])
    => c = d

(* What a Run has created it has an intent for.                            *)
IntentOK == \A n \in Numbers : author[n] \in Runs => intent[author[n]] # None

(* What a call has seen since it began is open; past discovery there was   *)
(* nothing.                                                                *)
SeenOK ==
  \A c \in Callers :
    /\ seen[c] # 0 => open = seen[c]
    /\ pc[c] \in {"again", "post", "settle"} => seen[c] = 0

PublicationInv ==
  /\ TypeOK /\ CallsOK /\ NewOK /\ OneNew /\ IntentOK /\ SeenOK
  /\ CreatedOnce /\ LostOneIsFound /\ BarrierHolds

(* Each kind of step preserves the invariant.  A call ends: intents and    *)
(* handles may be written, the host is as it was.                          *)
LEMMA ReturnKeeps ==
  ASSUME PublicationInv, NEW c \in Callers, NEW what \in Answers, Return(c, what),
         what = "uncertain" => seen[c] = 0,
         intent' \in [Runs -> Intents \cup {None}],
         \A r \in Runs : intent[r] # None => intent'[r] # None,
         handle' \in [Runs -> Numbers \cup {0}],
         UNCHANGED <<host, barred, made, turns>>, faults' \in 0..MaxFaults,
         warned' \in [Callers -> BOOLEAN], \A d \in Callers \ {c} : warned'[d] = warned[d]
  PROVE  PublicationInv'
<1>1. TypeOK'
  BY PublicationAssumption DEF PublicationInv, TypeOK, Steps, Answers, Numbers, Return, host
<1>2. CallsOK'
  BY PublicationAssumption DEF PublicationInv, TypeOK, CallsOK, Return, host
<1>3. NewOK'
  BY PublicationAssumption DEF PublicationInv, TypeOK, CallsOK, NewOK, OneNew, IntentOK,
     Creating, Return, host
<1>4. OneNew'
  BY PublicationAssumption DEF PublicationInv, TypeOK, CallsOK, NewOK, OneNew, Creating,
     Return, host
<1>5. IntentOK'
  BY PublicationAssumption DEF PublicationInv, TypeOK, CallsOK, NewOK, IntentOK, Creating,
     Return, host
<1>6. SeenOK'
  BY PublicationAssumption DEF PublicationInv, TypeOK, SeenOK, Return, host
<1>7. CreatedOnce'
  BY PublicationAssumption DEF PublicationInv, TypeOK, CallsOK, NewOK, CreatedOnce, Creating,
     Return, host
<1>8. LostOneIsFound'
  BY PublicationAssumption DEF PublicationInv, TypeOK, SeenOK, LostOneIsFound, Return, host
<1>9. BarrierHolds'
  BY PublicationAssumption DEF PublicationInv, TypeOK, BarrierHolds, At, Return, host
<1> QED  BY <1>1, <1>2, <1>3, <1>4, <1>5, <1>6, <1>7, <1>8, <1>9 DEF PublicationInv

(* A call goes on, and is allowed to create only if it was before.         *)
LEMMA MoveKeeps ==
  ASSUME PublicationInv, NEW c \in Callers, pc[c] # "idle",
         NEW step \in Steps \ {"idle", "discover", "settle"}, pc' = [pc EXCEPT ![c] = step],
         step \in {"again", "post"} => isNew[c] /\ pc[c] \in Creating /\ seen[c] = 0,
         step = "post" => ~barred,
         number' \in [Callers -> Numbers \cup {0}],
         warned' \in [Callers -> BOOLEAN], \A d \in Callers \ {c} : warned'[d] = warned[d],
         UNCHANGED <<store, host, barred, run, isNew, heard, answer, seen, bounds>>
  PROVE  PublicationInv'
<1>1. TypeOK'
  BY PublicationAssumption DEF PublicationInv, TypeOK, Steps, Answers, Numbers, store, host,
     bounds
<1>2. CallsOK'
  BY PublicationAssumption DEF PublicationInv, TypeOK, CallsOK, store, host, bounds
<1>3. NewOK'
  BY PublicationAssumption DEF PublicationInv, TypeOK, CallsOK, NewOK, OneNew, IntentOK,
     Creating, store, host, bounds
<1>4. OneNew'
  BY PublicationAssumption DEF PublicationInv, TypeOK, CallsOK, NewOK, OneNew, Creating,
     store, host, bounds
<1>5. IntentOK'
  BY PublicationAssumption DEF PublicationInv, TypeOK, CallsOK, NewOK, IntentOK, Creating,
     store, host, bounds
<1>6. SeenOK'
  BY PublicationAssumption DEF PublicationInv, TypeOK, SeenOK, store, host, bounds
<1>7. CreatedOnce'
  BY PublicationAssumption DEF PublicationInv, TypeOK, CallsOK, NewOK, CreatedOnce, Creating,
     store, host, bounds
<1>8. LostOneIsFound'
  BY PublicationAssumption DEF PublicationInv, TypeOK, SeenOK, LostOneIsFound, store, host,
     bounds
<1>9. BarrierHolds'
  BY PublicationAssumption DEF PublicationInv, TypeOK, BarrierHolds, At, store, host, bounds
<1> QED  BY <1>1, <1>2, <1>3, <1>4, <1>5, <1>6, <1>7, <1>8, <1>9 DEF PublicationInv

(* The intent is looked up, or written by the call that is new.            *)
LEMMA WriteIntentKeeps ==
  ASSUME PublicationInv, NEW c \in Callers, WriteIntent(c)
  PROVE  PublicationInv'
<1>1. TypeOK'
  BY PublicationAssumption DEF PublicationInv, TypeOK, Steps, Answers, Numbers, WriteIntent,
     At, Intents, host, history, bounds
<1>2. CallsOK'
  BY PublicationAssumption DEF PublicationInv, TypeOK, CallsOK, WriteIntent, At, Intents,
     host, history, bounds
<1>3. NewOK'
  <2> SUFFICES ASSUME NEW d \in Callers, isNew'[d], pc'[d] \in Creating
               PROVE  intent'[run'[d]] # None /\ \A n \in Numbers : author'[n] # run'[d]
    BY DEF NewOK
  <2>1. run[c] \in Runs /\ run' = run /\ author' = author
    BY DEF PublicationInv, CallsOK, WriteIntent, At, host
  <2>2. intent' = [intent EXCEPT ![run[c]] = IF @ = None THEN "creating" ELSE @]
    BY DEF WriteIntent
  <2>3. CASE d = c
    <3>1. intent[run[c]] = None
      BY <2>3 DEF PublicationInv, TypeOK, WriteIntent
    <3> QED  BY <2>1, <2>2, <2>3, <3>1, PublicationAssumption
             DEF PublicationInv, TypeOK, IntentOK, Intents
  <2>4. CASE d # c
    <3>1. isNew[d] /\ pc[d] \in Creating
      BY <2>4 DEF PublicationInv, TypeOK, WriteIntent
    <3>2. run[d] \in Runs
      BY <3>1 DEF PublicationInv, CallsOK, Creating
    <3> QED  BY <2>1, <2>2, <3>1, <3>2, PublicationAssumption
             DEF PublicationInv, TypeOK, NewOK, Intents
  <2> QED  BY <2>3, <2>4
<1>4. OneNew'
  <2> SUFFICES ASSUME NEW d \in Callers, NEW e \in Callers, d # e, run'[d] = run'[e],
                      isNew'[d], pc'[d] \in Creating, isNew'[e], pc'[e] \in Creating
               PROVE  FALSE
    BY DEF OneNew
  <2>1. run' = run
    BY DEF WriteIntent
  <2>2. \A f \in Callers \ {c} : isNew'[f] = isNew[f] /\ pc'[f] = pc[f]
    BY DEF PublicationInv, TypeOK, WriteIntent
  <2>3. isNew'[c] => intent[run[c]] = None
    BY DEF PublicationInv, TypeOK, WriteIntent
  <2> QED  BY <2>1, <2>2, <2>3 DEF PublicationInv, NewOK, OneNew
<1>5. IntentOK'
  BY PublicationAssumption DEF PublicationInv, TypeOK, CallsOK, NewOK, IntentOK, Creating,
     WriteIntent, At, Intents, host, history, bounds
<1>6. SeenOK'
  BY PublicationAssumption DEF PublicationInv, TypeOK, SeenOK, WriteIntent, At, Intents, host,
     history, bounds
<1>7. CreatedOnce'
  BY PublicationAssumption DEF PublicationInv, TypeOK, CallsOK, NewOK, CreatedOnce, Creating,
     WriteIntent, At, Intents, host, history, bounds
<1>8. LostOneIsFound'
  BY PublicationAssumption DEF PublicationInv, TypeOK, SeenOK, LostOneIsFound, WriteIntent,
     At, Intents, host, history, bounds
<1>9. BarrierHolds'
  BY PublicationAssumption DEF PublicationInv, TypeOK, BarrierHolds, At, WriteIntent, At,
     Intents, host, history, bounds
<1> QED  BY <1>1, <1>2, <1>3, <1>4, <1>5, <1>6, <1>7, <1>8, <1>9 DEF PublicationInv

(* The host is asked to create: it does, or not, and the call goes on      *)
(* with a pull request or without an answer.                               *)
LEMMA AskKeeps ==
  ASSUME PublicationInv, NEW c \in Callers, pc[c] = "post",
         NEW step \in {"keep", "settle"}, pc' = [pc EXCEPT ![c] = step],
         UNCHANGED host \/ \E n \in Numbers : Creates(run[c], n),
         number' \in [Callers -> Numbers \cup {0}], heard' \in [Callers -> Heard \cup {None}],
         UNCHANGED <<store, barred, run, isNew, answer, history, made, turns>>,
         faults' \in 0..MaxFaults
  PROVE  PublicationInv'
<1>1. TypeOK'
  <2>1. run[c] \in Runs
    BY DEF PublicationInv, CallsOK
  <2>2. author' \in [Numbers -> Runs \cup {"other", None}] /\ open' \in Numbers \cup {0}
    BY <2>1 DEF PublicationInv, TypeOK, Creates, host
  <2> QED  BY <2>2 DEF PublicationInv, TypeOK, Steps, store, history
<1>2. CallsOK'
  BY PublicationAssumption DEF PublicationInv, TypeOK, CallsOK, Creates, store, host, history
<1>3. NewOK'
  BY PublicationAssumption DEF PublicationInv, TypeOK, CallsOK, NewOK, OneNew, IntentOK,
     Creating, Creates, store, host, history
<1>4. OneNew'
  BY PublicationAssumption DEF PublicationInv, TypeOK, CallsOK, NewOK, OneNew, Creating,
     Creates, store, host, history
<1>5. IntentOK'
  BY PublicationAssumption DEF PublicationInv, TypeOK, CallsOK, NewOK, IntentOK, Creating,
     Creates, store, host, history
<1>6. SeenOK'
  BY PublicationAssumption DEF PublicationInv, TypeOK, SeenOK, Creates, store, host, history
<1>7. CreatedOnce'
  BY PublicationAssumption DEF PublicationInv, TypeOK, CallsOK, NewOK, CreatedOnce, Creating,
     Creates, store, host, history
<1>8. LostOneIsFound'
  BY PublicationAssumption DEF PublicationInv, TypeOK, SeenOK, LostOneIsFound, Creates, store,
     host, history
<1>9. BarrierHolds'
  BY PublicationAssumption DEF PublicationInv, TypeOK, BarrierHolds, At, Creates, store, host,
     history
<1> QED  BY <1>1, <1>2, <1>3, <1>4, <1>5, <1>6, <1>7, <1>8, <1>9 DEF PublicationInv

(* A call begins, for whatever Run and with whatever handle.               *)
LEMMA BeginKeeps ==
  ASSUME PublicationInv, NEW c \in Callers, NEW r \in Runs,
         NEW n \in Numbers \cup {0}, NEW step \in {"handle", "own"}, Begin(c, r, step, n)
  PROVE  PublicationInv'
<1>1. TypeOK'
  BY PublicationAssumption DEF PublicationInv, TypeOK, Steps, Answers, Numbers, Begin, store,
     host
<1>2. CallsOK'
  BY PublicationAssumption DEF PublicationInv, TypeOK, CallsOK, Begin, store, host
<1>3. NewOK'
  BY PublicationAssumption DEF PublicationInv, TypeOK, CallsOK, NewOK, OneNew, IntentOK,
     Creating, Begin, store, host
<1>4. OneNew'
  BY PublicationAssumption DEF PublicationInv, TypeOK, CallsOK, NewOK, OneNew, Creating,
     Begin, store, host
<1>5. IntentOK'
  BY PublicationAssumption DEF PublicationInv, TypeOK, CallsOK, NewOK, IntentOK, Creating,
     Begin, store, host
<1>6. SeenOK'
  BY PublicationAssumption DEF PublicationInv, TypeOK, SeenOK, Begin, store, host
<1>7. CreatedOnce'
  BY PublicationAssumption DEF PublicationInv, TypeOK, CallsOK, NewOK, CreatedOnce, Creating,
     Begin, store, host
<1>8. LostOneIsFound'
  BY PublicationAssumption DEF PublicationInv, TypeOK, LostOneIsFound, Answers, Begin
<1>9. BarrierHolds'
  BY PublicationAssumption DEF PublicationInv, TypeOK, BarrierHolds, At, Begin, store, host
<1> QED  BY <1>1, <1>2, <1>3, <1>4, <1>5, <1>6, <1>7, <1>8, <1>9 DEF PublicationInv

(* Others create and close pull requests, and turn the barrier.            *)
LEMMA OpenedKeeps ==
  ASSUME PublicationInv, Opened
  PROVE  PublicationInv'
<1>1. TypeOK'
  BY PublicationAssumption DEF PublicationInv, TypeOK, Steps, Answers, Numbers, Opened,
     Creates, store, local, history, bounds
<1>2. CallsOK'
  BY PublicationAssumption DEF PublicationInv, TypeOK, CallsOK, Opened, Creates, store, local,
     history, bounds
<1>3. NewOK'
  BY PublicationAssumption DEF PublicationInv, TypeOK, CallsOK, NewOK, OneNew, IntentOK,
     Creating, Opened, Creates, store, local, history, bounds
<1>4. OneNew'
  BY PublicationAssumption DEF PublicationInv, TypeOK, CallsOK, NewOK, OneNew, Creating,
     Opened, Creates, store, local, history, bounds
<1>5. IntentOK'
  <2>1. PICK n \in Numbers : Creates("other", n)
    BY DEF Opened
  <2>2. author' = [author EXCEPT ![n] = "other"] /\ intent' = intent
    BY <2>1 DEF Creates, Opened, store
  <2> QED  BY <2>2, PublicationAssumption DEF PublicationInv, TypeOK, IntentOK
<1>6. SeenOK'
  BY PublicationAssumption DEF PublicationInv, TypeOK, SeenOK, Opened, Creates, store, local,
     history, bounds
<1>7. CreatedOnce'
  <2>1. PICK n \in Numbers : Creates("other", n)
    BY DEF Opened
  <2>2. author' = [author EXCEPT ![n] = "other"]
    BY <2>1 DEF Creates
  <2> QED  BY <2>2, PublicationAssumption DEF PublicationInv, TypeOK, CreatedOnce
<1>8. LostOneIsFound'
  BY PublicationAssumption DEF PublicationInv, TypeOK, SeenOK, LostOneIsFound, Opened,
     Creates, store, local, history, bounds
<1>9. BarrierHolds'
  BY PublicationAssumption DEF PublicationInv, TypeOK, BarrierHolds, At, Opened, Creates,
     store, local, history, bounds
<1> QED  BY <1>1, <1>2, <1>3, <1>4, <1>5, <1>6, <1>7, <1>8, <1>9 DEF PublicationInv

LEMMA ClosedKeeps ==
  ASSUME PublicationInv, Closed
  PROVE  PublicationInv'
<1>1. TypeOK'
  BY PublicationAssumption DEF PublicationInv, TypeOK, Steps, Answers, Numbers, Closed, store,
     local, bounds
<1>2. CallsOK'
  BY PublicationAssumption DEF PublicationInv, TypeOK, CallsOK, Closed, store, local, bounds
<1>3. NewOK'
  BY PublicationAssumption DEF PublicationInv, TypeOK, CallsOK, NewOK, OneNew, IntentOK,
     Creating, Closed, store, local, bounds
<1>4. OneNew'
  BY PublicationAssumption DEF PublicationInv, TypeOK, CallsOK, NewOK, OneNew, Creating,
     Closed, store, local, bounds
<1>5. IntentOK'
  BY PublicationAssumption DEF PublicationInv, TypeOK, CallsOK, NewOK, IntentOK, Creating,
     Closed, store, local, bounds
<1>6. SeenOK'
  BY PublicationAssumption DEF PublicationInv, TypeOK, SeenOK, Closed, store, local, bounds
<1>7. CreatedOnce'
  BY PublicationAssumption DEF PublicationInv, TypeOK, CallsOK, NewOK, CreatedOnce, Creating,
     Closed, store, local, bounds
<1>8. LostOneIsFound'
  BY PublicationAssumption DEF PublicationInv, TypeOK, SeenOK, LostOneIsFound, Closed, store,
     local, bounds
<1>9. BarrierHolds'
  BY PublicationAssumption DEF PublicationInv, TypeOK, BarrierHolds, At, Closed, store, local,
     bounds
<1> QED  BY <1>1, <1>2, <1>3, <1>4, <1>5, <1>6, <1>7, <1>8, <1>9 DEF PublicationInv

LEMMA TurnKeeps ==
  ASSUME PublicationInv, Turn
  PROVE  PublicationInv'
<1>1. TypeOK'
  BY PublicationAssumption DEF PublicationInv, TypeOK, Steps, Answers, Numbers, Turn, store,
     host, local
<1>2. CallsOK'
  BY PublicationAssumption DEF PublicationInv, TypeOK, CallsOK, Turn, store, host, local
<1>3. NewOK'
  BY PublicationAssumption DEF PublicationInv, TypeOK, CallsOK, NewOK, OneNew, IntentOK,
     Creating, Turn, store, host, local
<1>4. OneNew'
  BY PublicationAssumption DEF PublicationInv, TypeOK, CallsOK, NewOK, OneNew, Creating, Turn,
     store, host, local
<1>5. IntentOK'
  BY PublicationAssumption DEF PublicationInv, TypeOK, CallsOK, NewOK, IntentOK, Creating,
     Turn, store, host, local
<1>6. SeenOK'
  BY PublicationAssumption DEF PublicationInv, TypeOK, SeenOK, Turn, store, host, local
<1>7. CreatedOnce'
  BY PublicationAssumption DEF PublicationInv, TypeOK, CallsOK, NewOK, CreatedOnce, Creating,
     Turn, store, host, local
<1>8. LostOneIsFound'
  BY PublicationAssumption DEF PublicationInv, TypeOK, SeenOK, LostOneIsFound, Turn, store,
     host, local
<1>9. BarrierHolds'
  BY PublicationAssumption DEF PublicationInv, TypeOK, BarrierHolds, At, Turn, store, host,
     local
<1> QED  BY <1>1, <1>2, <1>3, <1>4, <1>5, <1>6, <1>7, <1>8, <1>9 DEF PublicationInv

(* Each action of a call is a step of one of these kinds.                  *)
LEMMA StepKeeps ==
  ASSUME PublicationInv, NEW c \in Callers, Step(c)
  PROVE  PublicationInv'
<1> USE PublicationAssumption
<1>1. CASE LookHandle(c)
  BY <1>1, ReturnKeeps, MoveKeeps
     DEF PublicationInv, TypeOK, LookHandle, At, Return, Goto, Answers, Steps, store, bounds
<1>2. CASE LookBarrier(c)
  BY <1>2, ReturnKeeps, MoveKeeps
     DEF PublicationInv, TypeOK, LookBarrier, At, Return, Goto, Answers, Steps, store, bounds
<1>3. CASE WriteIntent(c)
  BY <1>3, WriteIntentKeeps
<1>4. CASE Discover(c)
  <2>1. /\ warned' \in [Callers -> BOOLEAN]
        /\ \A d \in Callers \ {c} : warned'[d] = warned[d]
    BY <1>4 DEF PublicationInv, TypeOK, Discover
  <2>2. CASE open # 0 /\ Take(c, "keep", open)
    BY <1>4, <2>1, <2>2, MoveKeeps DEF PublicationInv, TypeOK, Discover, At, Take, Steps
  <2>3. CASE open = 0 /\ isNew[c] /\ Goto(c, "again")
    <3>1. seen[c] = 0
      BY <2>3 DEF PublicationInv, SeenOK
    <3> QED  BY <1>4, <2>1, <2>3, <3>1, MoveKeeps
             DEF PublicationInv, TypeOK, Discover, At, Goto, Steps, Creating
  <2>4. CASE open = 0 /\ ~isNew[c] /\ Return(c, "uncertain")
    <3>1. seen[c] = 0
      BY <2>4 DEF PublicationInv, SeenOK
    <3> QED  BY <1>4, <2>1, <2>4, <3>1, ReturnKeeps
             DEF PublicationInv, TypeOK, Discover, Answers, store, bounds
  <2> QED  BY <1>4, <2>2, <2>3, <2>4 DEF Discover
<1>5. CASE DiscoverFails(c)
  BY <1>5, ReturnKeeps DEF PublicationInv, TypeOK, DiscoverFails, Fault, Answers, store
<1>6. CASE LookAgain(c)
  <2>1. isNew[c] /\ seen[c] = 0
    BY <1>6 DEF PublicationInv, CallsOK, SeenOK, LookAgain, At
  <2> QED  BY <1>6, <2>1, ReturnKeeps, MoveKeeps
           DEF PublicationInv, TypeOK, LookAgain, At, Return, Goto, Answers, Steps, Creating,
               store, bounds
<1>7. CASE Post(c)
  BY <1>7, AskKeeps
     DEF PublicationInv, TypeOK, Post, At, Take, Hears, Heard, history, bounds
<1>8. CASE PostFails(c)
  <2>1. PICK what \in Heard : Hears(c, what)
    BY <1>8 DEF PostFails
  <2>2. heard' \in [Callers -> Heard \cup {None}]
    BY <2>1 DEF PublicationInv, TypeOK, Hears
  <2>3. faults' \in 0..MaxFaults /\ UNCHANGED <<made, turns>>
    BY <1>8 DEF PublicationInv, TypeOK, PostFails, Fault
  <2> QED  BY <1>8, <2>1, <2>2, <2>3, AskKeeps
           DEF PublicationInv, TypeOK, PostFails, At, Hears, history
<1>9. CASE Settle(c)
  <2>1. run[c] \in Runs /\ seen[c] = 0
    BY <1>9 DEF PublicationInv, CallsOK, SeenOK, Settle, At
  <2> QED  BY <1>9, <2>1, ReturnKeeps
           DEF PublicationInv, TypeOK, Settle, Answers, Intents, bounds
<1>10. CASE Keep(c)
  <2>1. run[c] \in Runs
    BY <1>10 DEF PublicationInv, CallsOK, Keep, At
  <2> QED  BY <1>10, <2>1, ReturnKeeps DEF PublicationInv, TypeOK, Keep, Answers, Intents,
     bounds
<1>11. CASE LookOwn(c)
  BY <1>11, ReturnKeeps, MoveKeeps
     DEF PublicationInv, TypeOK, LookOwn, At, Return, Goto, Answers, Steps, store, bounds
<1>12. CASE LookPermit(c)
  BY <1>12, ReturnKeeps, MoveKeeps
     DEF PublicationInv, TypeOK, LookPermit, At, Return, Goto, Answers, Steps, store, bounds
<1>13. CASE Patch(c)
  BY <1>13, ReturnKeeps DEF PublicationInv, TypeOK, Patch, Answers, store
<1> QED  BY <1>1, <1>2, <1>3, <1>4, <1>5, <1>6, <1>7, <1>8, <1>9, <1>10, <1>11, <1>12, <1>13
         DEF Step

LEMMA CrashKeeps ==
  ASSUME PublicationInv, NEW c \in Callers, Crash(c)
  PROVE  PublicationInv'
BY PublicationAssumption, ReturnKeeps
   DEF PublicationInv, TypeOK, Crash, Fault, Answers, store

LEMMA StutterKeeps ==
  ASSUME PublicationInv, UNCHANGED vars
  PROVE  PublicationInv'
BY DEF PublicationInv, TypeOK, CallsOK, NewOK, OneNew, IntentOK, SeenOK, CreatedOnce,
       LostOneIsFound, BarrierHolds, At, vars, store, host, local, history, bounds

LEMMA InvInit == Init => PublicationInv
<1> SUFFICES ASSUME Init PROVE PublicationInv
  OBVIOUS
<1>1. TypeOK
  <2>1. faults \in 0..MaxFaults /\ made \in 0..MaxCalls /\ turns \in 0..MaxTurns
    BY PublicationAssumption DEF Init
  <2> QED  BY <2>1 DEF Init, TypeOK, Steps
<1>2. CallsOK /\ NewOK /\ OneNew /\ SeenOK
  BY DEF Init, CallsOK, NewOK, OneNew, SeenOK
<1>3. IntentOK /\ CreatedOnce
  BY PublicationAssumption DEF Init, IntentOK, CreatedOnce
<1>4. LostOneIsFound /\ BarrierHolds
  BY DEF Init, LostOneIsFound, BarrierHolds, At
<1> QED  BY <1>1, <1>2, <1>3, <1>4 DEF PublicationInv

LEMMA InvNext ==
  ASSUME PublicationInv, [Next]_vars
  PROVE  PublicationInv'
<1>1. ASSUME NEW c \in Callers, Step(c)
      PROVE  PublicationInv'
  BY <1>1, StepKeeps
<1>2. ASSUME NEW c \in Callers, Crash(c)
      PROVE  PublicationInv'
  BY <1>2, CrashKeeps
<1>3. ASSUME NEW c \in Callers, NEW r \in Runs, Ensure(c, r)
      PROVE  PublicationInv'
  BY <1>3, BeginKeeps DEF Ensure
<1>4. ASSUME NEW c \in Callers, NEW r \in Runs, NEW n \in Numbers, Update(c, r, n)
      PROVE  PublicationInv'
  BY <1>4, BeginKeeps DEF Update
<1>5. ASSUME Opened \/ Closed \/ Turn \/ UNCHANGED vars
      PROVE  PublicationInv'
  BY <1>5, OpenedKeeps, ClosedKeeps, TurnKeeps, StutterKeeps
<1> QED  BY <1>1, <1>2, <1>3, <1>4, <1>5 DEF Next

THEOREM PublicationInvariant == Spec => []PublicationInv
<1> QED  BY InvInit, InvNext, PTL DEF Spec

(* Intents, handles, pull requests and calls are well formed.              *)
THEOREM TypeCorrect == Spec => []TypeOK
<1>1. PublicationInv => TypeOK
  BY DEF PublicationInv
<1> QED  BY <1>1, PublicationInvariant, PTL

(* A Run has the host create at most one pull request, for any number of   *)
(* processes, calls, lost answers and crashes (_ensure).                   *)
THEOREM CreatesOnce == Spec => []CreatedOnce
<1>1. PublicationInv => CreatedOnce
  BY DEF PublicationInv
<1> QED  BY <1>1, PublicationInvariant, PTL

(* No call is refused as uncertain while one pull request is open for all  *)
(* of the call (_ensure, _discover).                                       *)
THEOREM LostOnesAreFound == Spec => []LostOneIsFound
<1>1. PublicationInv => LostOneIsFound
  BY DEF PublicationInv
<1> QED  BY <1>1, PublicationInvariant, PTL

(* Nothing is created behind a barrier that was up at the discovery and is *)
(* up still (_assert_write).                                               *)
THEOREM BarriersHold == Spec => []BarrierHolds
<1>1. PublicationInv => BarrierHolds
  BY DEF PublicationInv
<1> QED  BY <1>1, PublicationInvariant, PTL

(* The handle of a Run is for good (_checkpoint).                          *)
THEOREM HandlesStay == Spec => HandleStays
<1>1. ASSUME PublicationInv, [Next]_vars
      PROVE  [\A r \in Runs : handle[r] # 0 => handle'[r] = handle[r]]_vars
  <2>1. ASSUME NEW c \in Callers, Keep(c)
        PROVE  \A r \in Runs : handle[r] # 0 => handle'[r] = handle[r]
    BY <1>1, <2>1 DEF PublicationInv, TypeOK, Keep
  <2>2. ASSUME NEW c \in Callers, Step(c), ~Keep(c)
        PROVE  UNCHANGED handle
    BY <2>2 DEF LookHandle, LookBarrier, WriteIntent, Discover, DiscoverFails, LookAgain,
       Post, PostFails, Settle, LookOwn, LookPermit, Patch, Step, store
  <2>3. ASSUME NEW c \in Callers, Crash(c)
        PROVE  UNCHANGED handle
    BY <2>3 DEF Crash, store
  <2>4. ASSUME NEW c \in Callers, NEW r \in Runs, NEW n \in Numbers, Update(c, r, n)
        PROVE  UNCHANGED handle
    BY <2>4 DEF Update, Begin, store
  <2>5. ASSUME NEW c \in Callers, NEW r \in Runs, Ensure(c, r)
        PROVE  UNCHANGED handle
    BY <2>5 DEF Ensure, Begin, store
  <2>6. ASSUME Opened \/ Closed \/ Turn
        PROVE  UNCHANGED handle
    BY <2>6 DEF Opened, Closed, Turn, store
  <2> QED  BY <1>1, <2>1, <2>2, <2>3, <2>4, <2>5, <2>6 DEF Next
<1> QED  BY <1>1, PublicationInvariant, PTL DEF Spec, HandleStays
=============================================================================
