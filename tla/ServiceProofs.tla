--------------------------- MODULE ServiceProofs ---------------------------
(***************************************************************************)
(* What holds of Service for any number of clients, services, keys, calls  *)
(* and crashes.                                                            *)
(***************************************************************************)
EXTENDS Service, TLAPS

Executing(x) == [operation |-> x.operation, state |-> "executing", response |-> None]
Finished(x, a) == [operation |-> x.operation, state |-> "completed", response |-> a]
Holding == {"dispatch", "complete"}
Busy == {"claim", "reply"} \cup Holding

(* A service that dispatches a mutation is the only one to hold its row,   *)
(* and nothing was done for it before.                                     *)
HoldOK ==
  /\ \A s \in Services : spc[s] \in {"claim"} \cup Holding =>
       job[s] \in Connections /\ job[s].operation \in Mutations
  /\ \A s \in Services : spc[s] \in Holding => ledger[job[s].key] = Executing(job[s])
  /\ \A s \in Services : spc[s] = "dispatch" => applied[job[s].key] = <<>>
  /\ \A s \in Services : spc[s] = "complete" =>
       /\ response[s] \in Completed
       /\ response[s] = "ok" => applied[job[s].key] = <<job[s].operation>>
  /\ \A s, t \in Services :
       spc[s] \in Holding /\ spc[t] \in Holding /\ job[s].key = job[t].key => s = t

(* The row of a key tells what was done for it.                            *)
RowsOK ==
  /\ AppliedOnce
  /\ \A k \in Keys : ledger[k] # None =>
       /\ ledger[k].state = "completed" => ledger[k].response \in Completed
       /\ ledger[k].response = "ok" => applied[k] = <<ledger[k].operation>>

(* What is answered is what the row says, ...                              *)
ReplyOK ==
  \A s \in Services : spc[s] = "reply" =>
    /\ job[s] \in Connections /\ response[s] \in Answers
    /\ response[s] \in Completed =>
         ledger[job[s].key] # None /\ ledger[job[s].key] = Finished(job[s], response[s])

(* ... and what was told before is still what it says.                     *)
ToldOK ==
  \A k \in Keys : \A a \in told[k] \cap Completed :
    ledger[k] # None /\ ledger[k].state = "completed" /\ ledger[k].response = a

EffectInv == HoldOK /\ RowsOK /\ ReplyOK /\ ToldOK

(* The connection a client waits at carries the client's mutation.         *)
Fits(x) ==
  /\ x.n <= sent[x.client]
  /\ Awaited(x) => x.key = key[x.client] /\ x.operation = operation[x.client]

FitInv ==
  /\ \A s \in Services : \A i \in 1..Len(backlog[s]) : Fits(backlog[s][i])
  /\ \A s \in Services : job[s] # None => Fits(job[s])

(* A call that goes on has a service to go to and an attempt left.         *)
CallOK ==
  \A c \in Clients : cpc[c] = "connect" =>
    target[c] \in Services /\ attempts[c] < MaxAttempts

(* A client that waits was given a service to go to.                       *)
WaitOK == \A c \in Clients : cpc[c] = "wait" => target[c] \in Services

ServiceInv ==
  /\ TypeOK /\ CallOK /\ WaitOK
  /\ EffectInv /\ FitInv /\ SuccessIsReal

----------------------------------------------------------------------------
LEMMA NoneFacts ==
  /\ None \notin Services /\ None \notin Connections /\ None \notin Rows
  /\ None \notin Answers /\ None \notin Failures /\ None \notin Completed
BY ServiceAssumption DEF Answers

LEMMA TypeInit == Init => TypeOK
BY ServiceAssumption DEF Init, TypeOK, Starting, Serving, Leaving, Operations

LEMMA TypeNext ==
  ASSUME TypeOK, HoldOK, ReplyOK, CallOK, [Next]_vars PROVE TypeOK'
<1> USE ServiceAssumption DEF service, client, history
<1>1. CASE UNCHANGED vars
  BY <1>1 DEF vars, TypeOK
<1>2. ASSUME NEW s \in Services, Boot(s) \/ Check(s) \/ Remove(s) PROVE TypeOK'
  BY <1>2 DEF Boot, Check, Remove, Step, TypeOK, Starting, Leaving
<1>13. ASSUME NEW s \in Services, Publish(s) PROVE TypeOK'
  BY <1>13 DEF Publish, Step, TypeOK, Serving
<1>14. ASSUME NEW s \in Services, Close(s) PROVE TypeOK'
  <2>1. backlog' \in [Services -> Seq(Connections)]
    BY <1>14 DEF Close, TypeOK
  <2>2. QED
    BY <1>14, <2>1 DEF Close, Step, TypeOK, Leaving
<1>15. ASSUME NEW s \in Services, Unlink(s) PROVE TypeOK'
  BY <1>15 DEF Unlink, Step, TypeOK, Leaving
<1>3. ASSUME NEW s \in Services, Accept(s) PROVE TypeOK'
  <2>1. Head(backlog[s]) \in Connections /\ Tail(backlog[s]) \in Seq(Connections)
    BY <1>3 DEF Accept, TypeOK
  <2>2. job' \in [Services -> Connections \cup {None}] /\ backlog' \in [Services -> Seq(Connections)]
    BY <1>3, <2>1 DEF Accept, TypeOK
  <2>3. QED
    BY <1>3, <2>2 DEF Accept, Step, TypeOK, Serving, Answers
<1>4. ASSUME NEW s \in Services, Claim(s) PROVE TypeOK'
  <2>1. job[s].key \in Keys /\ job[s].operation \in Mutations
    BY <1>4 DEF Claim, HoldOK, Connections
  <2>2. Replay(ledger[job[s].key], job[s].operation) \in Answers \cup {None}
    BY <2>1 DEF Replay, TypeOK, Rows, Answers
  <2>3. [operation |-> job[s].operation, state |-> "executing", response |-> None] \in Rows
    BY <2>1 DEF Rows
  <2>4. ledger' \in [Keys -> Rows \cup {None}]
    BY <1>4, <2>3 DEF Claim, TypeOK
  <2>5. response' \in [Services -> Answers \cup {None}]
    BY <1>4, <2>2 DEF Claim, TypeOK
  <2>6. spc' \in [Services -> Starting \cup {"publish"} \cup Serving \cup Leaving]
    BY <1>4 DEF Claim, Step, TypeOK, Serving
  <2>7. QED
    BY <1>4, <2>4, <2>5, <2>6 DEF Claim, TypeOK
<1>5. ASSUME NEW s \in Services, Dispatch(s) PROVE TypeOK'
  <2>1. job[s].key \in Keys /\ job[s].operation \in Mutations
    BY <1>5 DEF Dispatch, Step, HoldOK, Holding, Connections
  <2>2. Append(applied[job[s].key], job[s].operation) \in Seq(Mutations)
    BY <2>1 DEF TypeOK
  <2>3. applied' \in [Keys -> Seq(Mutations)]
    BY <1>5, <2>2 DEF Dispatch, Apply, TypeOK
  <2>4. QED
    BY <1>5, <2>3 DEF Dispatch, Step, TypeOK, Serving, Answers, Completed
<1>6. ASSUME NEW s \in Services, Complete(s) PROVE TypeOK'
  <2>1. job[s].key \in Keys /\ job[s].operation \in Mutations /\ response[s] \in Completed
        /\ ledger[job[s].key] = Executing(job[s])
    BY <1>6 DEF Complete, Step, HoldOK, Holding, Connections
  <2>2. ledger[job[s].key] \in Rows
    BY <2>1 DEF Executing, Rows
  <2>3. [operation |-> ledger[job[s].key].operation, state |-> "completed",
         response |-> response[s]] \in Rows
    BY <2>1, <2>2 DEF Rows
  <2>4. ledger' \in [Keys -> Rows \cup {None}]
    BY <1>6, <2>3, <2>2, <2>1 DEF Complete, TypeOK
  <2>5. QED
    BY <1>6, <2>4 DEF Complete, Step, TypeOK, Serving
<1>7. ASSUME NEW s \in Services, Reply(s) PROVE TypeOK'
  <2>1. job[s] \in Connections /\ response[s] \in Answers
    BY <1>7 DEF Reply, ReplyOK
  <2>2. job[s].client \in Clients /\ job[s].key \in Keys
    BY <2>1 DEF Connections
  <2>3. told' \in [Keys -> SUBSET Answers]
    BY <1>7, <2>1, <2>2 DEF Reply, TypeOK
  <2>4. cpc' \in [Clients -> {"idle", "connect", "wait"}]
        /\ got' \in [Clients -> Answers \cup Failures \cup {None}]
    BY <1>7, <2>1, <2>2 DEF Reply, TypeOK
  <2>5. spc' \in [Services -> Starting \cup {"publish"} \cup Serving \cup Leaving]
    BY <1>7 DEF Reply, Step, TypeOK, Serving, Leaving
  <2>6. job' \in [Services -> Connections \cup {None}] /\ response' \in [Services -> Answers \cup {None}]
    BY <1>7 DEF Reply, TypeOK
  <2>7. faults' \in 0..MaxFaults
    BY <1>7 DEF Reply, TypeOK
  <2>8. QED
    BY <1>7, <2>3, <2>4, <2>5, <2>6, <2>7 DEF Reply, TypeOK
<1>8. ASSUME NEW s \in Services, Crash(s) PROVE TypeOK'
  <2>1. backlog' \in [Services -> Seq(Connections)]
    BY <1>8 DEF Crash, TypeOK
  <2>2. QED
    BY <1>8, <2>1 DEF Crash, TypeOK, Leaving
<1>9. ASSUME NEW c \in Clients, NEW k \in Keys, NEW m \in Operations, Call(c, k, m) PROVE TypeOK'
  <2>1. cpc' \in [Clients -> {"idle", "connect", "wait"}]
        /\ got' \in [Clients -> Answers \cup Failures \cup {None}]
    BY <1>9 DEF Call, Return, TypeOK, Failures
  <2>2. calls' \in [Clients -> 0..MaxCalls] /\ attempts' \in [Clients -> 0..MaxAttempts]
    BY <1>9 DEF Call, TypeOK
  <2>3. QED
    BY <1>9, <2>1, <2>2 DEF Call, TypeOK
<1>10. ASSUME NEW c \in Clients, Connect(c) PROVE TypeOK'
  <2>1. target[c] \in Services /\ attempts[c] < MaxAttempts
    BY <1>10 DEF Connect, CallOK
  <2>2. attempts' \in [Clients -> 0..MaxAttempts]
    BY <1>10, <2>1 DEF Connect, TypeOK
  <2>3. cpc' \in [Clients -> {"idle", "connect", "wait"}]
        /\ got' \in [Clients -> Answers \cup Failures \cup {None}]
    BY <1>10 DEF Connect, Return, TypeOK, Failures
  <2>4. sent' \in [Clients -> Nat]
    BY <1>10 DEF Connect, TypeOK
  <2>5. [client |-> c, n |-> sent[c] + 1, key |-> key[c], operation |-> operation[c]] \in Connections
    BY DEF TypeOK, Connections
  <2>8. Append(backlog[target[c]], [client |-> c, n |-> sent[c] + 1, key |-> key[c],
                                    operation |-> operation[c]]) \in Seq(Connections)
    BY <2>1, <2>5 DEF TypeOK
  <2>6. backlog' \in [Services -> Seq(Connections)]
    BY <1>10, <2>1, <2>8 DEF Connect, TypeOK
  <2>7. QED
    BY <1>10, <2>2, <2>3, <2>4, <2>6 DEF Connect, TypeOK
<1>11. ASSUME NEW c \in Clients, Timeout(c) \/ Lose(c) PROVE TypeOK'
  <2>1. cpc' \in [Clients -> {"idle", "connect", "wait"}]
        /\ got' \in [Clients -> Answers \cup Failures \cup {None}]
    BY <1>11 DEF Timeout, Lose, Again, Return, TypeOK, Failures
  <2>2. QED
    BY <1>11, <2>1 DEF Timeout, Lose, TypeOK
<1>12. QED
  BY <1>1, <1>2, <1>13, <1>14, <1>15, <1>3, <1>4, <1>5, <1>6, <1>7, <1>8, <1>9, <1>10, <1>11 DEF Next, Work

----------------------------------------------------------------------------
LEMMA CallNext ==
  ASSUME TypeOK, CallOK, WaitOK, ReplyOK, [Next]_vars PROVE CallOK' /\ WaitOK'
<1> USE ServiceAssumption DEF service, client, history, CallOK, WaitOK
<1>1. CASE UNCHANGED <<cpc, target, attempts>>
  BY <1>1
<1>2. ASSUME NEW s \in Services, Reply(s) PROVE CallOK' /\ WaitOK'
  <2>1. job[s].client \in Clients
    BY <1>2 DEF Reply, ReplyOK, Connections
  <2>2. QED
    BY <1>2, <2>1 DEF Reply, TypeOK
<1>3. ASSUME NEW c \in Clients, NEW k \in Keys, NEW m \in Operations, Call(c, k, m)
      PROVE  CallOK' /\ WaitOK'
  <2>1. \A d \in Clients \ {c} :
          UNCHANGED <<cpc[d], target[d], attempts[d]>>
    BY <1>3 DEF Call, Return, TypeOK
  <2>2. /\ target'[c] = endpoint /\ attempts'[c] = 0
        /\ cpc'[c] = "idle" \/ (cpc'[c] = "connect" /\ endpoint \in Services)
    BY <1>3 DEF Call, Return, TypeOK
  <2>3. 0 < MaxAttempts
    OBVIOUS
  <2> QED  BY <2>1, <2>2, <2>3
<1>4. ASSUME NEW c \in Clients, Connect(c) PROVE CallOK' /\ WaitOK'
  BY <1>4 DEF Connect, Return, TypeOK
<1>5. ASSUME NEW c \in Clients, Timeout(c) \/ Lose(c) PROVE CallOK' /\ WaitOK'
  BY <1>5 DEF Timeout, Lose, Again, Return, TypeOK
<1>6. ASSUME NEW s \in Services, Boot(s) \/ Crash(s) PROVE UNCHANGED <<cpc, target, attempts>>
  BY <1>6 DEF Boot, Crash
<1>7. ASSUME NEW s \in Services, Check(s) \/ Publish(s) \/ Accept(s) \/ Claim(s) \/ Dispatch(s)
      PROVE  UNCHANGED <<cpc, target, attempts>>
  BY <1>7 DEF Check, Publish, Accept, Claim, Dispatch
<1>8. ASSUME NEW s \in Services, Complete(s) \/ Close(s) \/ Remove(s) \/ Unlink(s)
      PROVE  UNCHANGED <<cpc, target, attempts>>
  BY <1>8 DEF Complete, Close, Remove, Unlink
<1>9. QED
  BY <1>1, <1>2, <1>3, <1>4, <1>5, <1>6, <1>7, <1>8 DEF Next, Work, vars

----------------------------------------------------------------------------
(* What a step does to a service that is not busy afterwards is of no      *)
(* account.                                                                *)
LEMMA StillBusy ==
  ASSUME EffectInv, UNCHANGED <<ledger, applied>>,
         \A s \in Services : spc'[s] \in Busy =>
           spc'[s] = spc[s] /\ job'[s] = job[s] /\ response'[s] = response[s]
  PROVE  HoldOK' /\ RowsOK' /\ ReplyOK'
<1>1. HoldOK'
  BY DEF EffectInv, HoldOK, Busy, Holding, Executing
<1>2. RowsOK'
  BY DEF EffectInv, RowsOK, AppliedOnce
<1>3. ReplyOK'
  BY DEF EffectInv, ReplyOK, Busy, Holding, Finished
<1>4. QED
  BY <1>1, <1>2, <1>3

LEMMA AcceptEffect == ASSUME TypeOK, EffectInv, NEW s \in Services, Accept(s) PROVE EffectInv'
<1> USE DEF service, client, history
<1> DEFINE x == Head(backlog[s])
<1>1. x \in Connections
  BY DEF Accept, TypeOK
<1>2. spc' = [spc EXCEPT ![s] = IF x.operation = Stop THEN "reply" ELSE "claim"]
      /\ job'[s] = x /\ response'[s] = IF x.operation = Stop THEN "stopping" ELSE None
  BY DEF Accept, Step, TypeOK
<1>3. \A t \in Services \ {s} : spc'[t] = spc[t] /\ job'[t] = job[t] /\ response'[t] = response[t]
  BY DEF Accept, Step, TypeOK
<1>4. UNCHANGED <<ledger, applied, told>>
  BY DEF Accept
<1>5. spc'[s] \notin Holding /\ spc'[s] \in {"claim", "reply"}
  BY <1>2 DEF TypeOK, Holding
<1> HIDE DEF x
<1>6. HoldOK'
  <2>1. spc'[s] = "claim" => job'[s] \in Connections /\ job'[s].operation \in Mutations
    BY <1>1, <1>2 DEF TypeOK, Connections, Operations
  <2>2. QED
    BY <1>3, <1>4, <1>5, <2>1 DEF EffectInv, HoldOK, Holding, Executing
<1>7. RowsOK' /\ ToldOK'
  BY <1>4 DEF EffectInv, RowsOK, AppliedOnce, ToldOK
<1>8. ReplyOK'
  <2>1. spc'[s] = "reply" => job'[s] \in Connections /\ response'[s] = "stopping"
    BY <1>1, <1>2 DEF TypeOK
  <2>2. QED
    BY <1>3, <1>4, <2>1 DEF EffectInv, ReplyOK, Finished, Answers, Completed
<1>9. QED
  BY <1>6, <1>7, <1>8 DEF EffectInv

LEMMA ClaimEffect == ASSUME TypeOK, EffectInv, NEW s \in Services, Claim(s) PROVE EffectInv'
<1> USE DEF service, client, history
<1>1. PICK k \in Keys, m \in Mutations : k = job[s].key /\ m = job[s].operation
  BY DEF Claim, EffectInv, HoldOK, Connections
<1>2. job[s] \in Connections /\ spc[s] = "claim"
  BY DEF Claim, EffectInv, HoldOK
<1>3. \A t \in Services \ {s} : spc'[t] = spc[t] /\ response'[t] = response[t]
  BY DEF Claim, Step, TypeOK
<1>4. UNCHANGED <<job, applied, told>>
  BY DEF Claim
<1>5. CASE Replay(ledger[k], m) = None
  <2>1. /\ spc'[s] = "dispatch" /\ UNCHANGED response
        /\ ledger' = [ledger EXCEPT ![k] = Executing(job[s])]
    BY <1>1, <1>5 DEF Claim, Step, TypeOK, Executing
  <2>2. ledger[k] = None
    BY <1>1, <1>5, NoneFacts DEF Replay, EffectInv, RowsOK, Answers, TypeOK, Rows
  <2>3. applied[k] = <<>>
    BY <1>1, <2>2 DEF EffectInv, RowsOK, AppliedOnce
  <2>4. \A t \in Services : spc[t] \in Holding => job[t].key # k
    <3>1. SUFFICES ASSUME NEW t \in Services, spc[t] \in Holding, job[t].key = k PROVE FALSE
      OBVIOUS
    <3>2. Executing(job[t]) \in Rows
      BY <3>1 DEF EffectInv, HoldOK, Executing, Rows
    <3>3. QED
      BY <3>1, <3>2, <2>2, ServiceAssumption DEF EffectInv, HoldOK
  <2>5. HoldOK'
    <3>1. ledger'[k] = Executing(job[s]) /\ \A j \in Keys \ {k} : ledger'[j] = ledger[j]
      BY <2>1 DEF TypeOK
    <3>2. \A t \in Services : spc[t] \in Holding => job[t].key \in Keys \ {k}
      BY <2>4 DEF EffectInv, HoldOK, Connections
    <3>3. \A t \in Services : spc'[t] \in {"claim"} \cup Holding =>
            job'[t] \in Connections /\ job'[t].operation \in Mutations
      BY <1>1, <1>2, <1>3, <1>4, <2>1 DEF EffectInv, HoldOK
    <3>4. \A t \in Services : spc'[t] \in Holding => ledger'[job'[t].key] = Executing(job'[t])
      BY <1>1, <1>3, <1>4, <3>1, <3>2 DEF EffectInv, HoldOK
    <3>5. \A t \in Services : spc'[t] = "dispatch" => applied'[job'[t].key] = <<>>
      BY <1>1, <1>3, <1>4, <2>3 DEF EffectInv, HoldOK
    <3>6. \A t \in Services : spc'[t] = "complete" =>
            /\ response'[t] \in Completed
            /\ response'[t] = "ok" => applied'[job'[t].key] = <<job'[t].operation>>
      BY <1>3, <1>4, <2>1 DEF EffectInv, HoldOK
    <3>7. \A t, u \in Services :
            spc'[t] \in Holding /\ spc'[u] \in Holding /\ job'[t].key = job'[u].key => t = u
      BY <1>1, <1>3, <1>4, <2>4 DEF EffectInv, HoldOK
    <3>8. QED
      BY <3>3, <3>4, <3>5, <3>6, <3>7 DEF HoldOK, Executing
  <2>6. Executing(job[s]) # None
    <3>1. Executing(job[s]) \in Rows
      BY <1>1 DEF Executing, Rows
    <3>2. QED
      BY <3>1, ServiceAssumption
  <2>7. RowsOK'
    BY <2>1, <2>3, <2>6, <1>4, NoneFacts
      DEF EffectInv, RowsOK, AppliedOnce, Executing, TypeOK, Completed
  <2>8. ReplyOK'
    BY <1>3, <1>4, <2>1, <2>2 DEF EffectInv, ReplyOK, Finished, TypeOK, Connections
  <2>9. ToldOK'
    BY <1>4, <2>1, <2>2 DEF EffectInv, ToldOK, TypeOK
  <2>10. QED
    BY <2>5, <2>7, <2>8, <2>9 DEF EffectInv
<1>6. CASE Replay(ledger[k], m) # None
  <2>1. /\ spc'[s] = "reply" /\ UNCHANGED ledger
        /\ response'[s] = Replay(ledger[k], m)
    BY <1>1, <1>6 DEF Claim, Step, TypeOK
  <2>2. HoldOK'
    BY <1>3, <1>4, <2>1 DEF EffectInv, HoldOK, Holding, Executing
  <2>3. RowsOK' /\ ToldOK'
    BY <1>4, <2>1 DEF EffectInv, RowsOK, AppliedOnce, ToldOK
  <2>4. ledger[k] \in Rows
    BY <1>6 DEF Replay, TypeOK
  <2>9. ledger[k] # None
    BY <1>6 DEF Replay
  <2>5. Replay(ledger[k], m) \in Answers
    BY <1>6, <2>4 DEF Replay, Rows, Answers
  <2>6. Replay(ledger[k], m) \in Completed => ledger[k] = Finished(job[s], Replay(ledger[k], m))
    BY <1>1, <1>6, <2>4 DEF Replay, Rows, Finished, Completed
  <2>7. ReplyOK'
    BY <1>1, <1>2, <1>3, <1>4, <2>1, <2>9, <2>5, <2>6 DEF EffectInv, ReplyOK, Finished
  <2>8. QED
    BY <2>2, <2>3, <2>7 DEF EffectInv
<1>7. QED
  BY <1>5, <1>6

LEMMA DispatchEffect == ASSUME TypeOK, EffectInv, NEW s \in Services, Dispatch(s) PROVE EffectInv'
<1> USE DEF service, client, history
<1>1. /\ spc[s] = "dispatch" /\ job[s] \in Connections /\ job[s].operation \in Mutations
      /\ job[s].key \in Keys
  BY DEF Dispatch, Step, EffectInv, HoldOK, Holding, Connections
<1>2. /\ ledger[job[s].key] = Executing(job[s]) /\ applied[job[s].key] = <<>>
      /\ ledger[job[s].key] # None
  <2>1. ledger[job[s].key] = Executing(job[s]) /\ applied[job[s].key] = <<>>
    BY <1>1 DEF EffectInv, HoldOK, Holding
  <2>2. Executing(job[s]) \in Rows
    BY <1>1 DEF Executing, Rows
  <2>3. QED
    BY <2>1, <2>2, NoneFacts
<1>3. UNCHANGED <<job, ledger, told>>
  BY DEF Dispatch
<1>4. \A t \in Services \ {s} : spc'[t] = spc[t] /\ response'[t] = response[t]
  BY DEF Dispatch, Step, TypeOK
<1>5. /\ \A k \in Keys \ {job[s].key} : applied'[k] = applied[k]
      /\ applied'[job[s].key] \in {<<>>, <<job[s].operation>>}
  <2>1. Append(<<>>, job[s].operation) = <<job[s].operation>>
    OBVIOUS
  <2>2. applied' = [applied EXCEPT ![job[s].key] = Append(@, job[s].operation)] \/ UNCHANGED applied
    BY DEF Dispatch, Apply
  <2>3. applied \in [Keys -> Seq(Mutations)]
    BY DEF TypeOK
  <2>4. CASE applied' = [applied EXCEPT ![job[s].key] = Append(@, job[s].operation)]
    BY <1>1, <1>2, <2>1, <2>3, <2>4
  <2>5. CASE UNCHANGED applied
    BY <1>2, <2>5
  <2>6. QED
    BY <2>2, <2>4, <2>5
<1>6. \/ /\ spc'[s] = "complete" /\ response'[s] \in Completed
         /\ response'[s] = "ok" => applied'[job[s].key] = <<job[s].operation>>
      \/ spc'[s] = "reply" /\ response'[s] = "internal"
  BY <1>1, <1>2 DEF Dispatch, Step, Apply, TypeOK, Completed
<1>7. HoldOK'
  <2>1. \A t \in Services \ {s} : spc[t] \in Holding => job[t].key \in Keys \ {job[s].key}
    BY <1>1 DEF EffectInv, HoldOK, Holding, Connections
  <2>2. \A t \in Services : spc'[t] \in {"claim"} \cup Holding =>
          job'[t] \in Connections /\ job'[t].operation \in Mutations
    BY <1>1, <1>3, <1>4 DEF EffectInv, HoldOK
  <2>3. \A t \in Services : spc'[t] \in Holding => ledger'[job'[t].key] = Executing(job'[t])
    BY <1>2, <1>3, <1>4 DEF EffectInv, HoldOK
  <2>4. \A t \in Services : spc'[t] = "dispatch" => applied'[job'[t].key] = <<>>
    BY <1>3, <1>4, <1>5, <1>6, <2>1 DEF EffectInv, HoldOK, Holding
  <2>5. \A t \in Services : spc'[t] = "complete" =>
          /\ response'[t] \in Completed
          /\ response'[t] = "ok" => applied'[job'[t].key] = <<job'[t].operation>>
    BY <1>3, <1>4, <1>5, <1>6, <2>1 DEF EffectInv, HoldOK, Holding
  <2>6. \A t, u \in Services :
          spc'[t] \in Holding /\ spc'[u] \in Holding /\ job'[t].key = job'[u].key => t = u
    BY <1>1, <1>3, <1>4 DEF EffectInv, HoldOK, Holding
  <2>7. QED
    BY <2>2, <2>3, <2>4, <2>5, <2>6 DEF HoldOK, Executing
<1>8. RowsOK'
  BY <1>2, <1>3, <1>5, NoneFacts DEF EffectInv, RowsOK, AppliedOnce, Executing, Completed
<1>9. ReplyOK'
  BY <1>1, <1>3, <1>4, <1>6 DEF EffectInv, ReplyOK, Finished, Answers, Completed
<1>10. ToldOK'
  BY <1>3 DEF EffectInv, ToldOK
<1>11. QED
  BY <1>7, <1>8, <1>9, <1>10 DEF EffectInv

LEMMA CompleteEffect == ASSUME TypeOK, EffectInv, NEW s \in Services, Complete(s) PROVE EffectInv'
<1> USE DEF service, client, history
<1>1. /\ spc[s] = "complete" /\ job[s] \in Connections /\ job[s].operation \in Mutations
      /\ job[s].key \in Keys /\ response[s] \in Completed
      /\ response[s] = "ok" => applied[job[s].key] = <<job[s].operation>>
  BY DEF Complete, Step, EffectInv, HoldOK, Holding, Connections
<1>2. ledger[job[s].key] = Executing(job[s]) /\ ledger[job[s].key] # None
  <2>1. ledger[job[s].key] = Executing(job[s])
    BY <1>1 DEF EffectInv, HoldOK, Holding
  <2>2. Executing(job[s]) \in Rows
    BY <1>1 DEF Executing, Rows
  <2>3. QED
    BY <2>1, <2>2, NoneFacts
<1>3. UNCHANGED <<job, response, applied, told>>
  BY DEF Complete
<1>4. spc'[s] = "reply" /\ \A t \in Services \ {s} : spc'[t] = spc[t]
  BY DEF Complete, Step, TypeOK
<1>5. ledger'[job[s].key] = Finished(job[s], response[s])
  BY <1>1, <1>2 DEF Complete, TypeOK, Executing, Finished
<1>6. \A k \in Keys \ {job[s].key} : ledger'[k] = ledger[k]
  BY <1>1 DEF Complete, TypeOK
<1>7. ledger'[job[s].key] # None
  <2>1. Finished(job[s], response[s]) \in Rows
    BY <1>1 DEF Finished, Rows
  <2>2. QED
    BY <1>5, <2>1, NoneFacts
<1>8. HoldOK'
  <2>1. \A t \in Services \ {s} : spc[t] \in Holding => job[t].key \in Keys \ {job[s].key}
    BY <1>1 DEF EffectInv, HoldOK, Holding, Connections
  <2>2. QED
    BY <1>3, <1>4, <1>6, <2>1 DEF EffectInv, HoldOK, Holding, Executing
<1>9. RowsOK'
  BY <1>1, <1>2, <1>3, <1>5, <1>6, <1>7 DEF EffectInv, RowsOK, AppliedOnce, Executing, Finished
<1>10. ReplyOK'
  <2>1. \A t \in Services : spc[t] = "reply" /\ response[t] \in Completed => job[t].key # job[s].key
    <3>1. \A t \in Services : Executing(job[s]).state # Finished(job[t], response[t]).state
      BY DEF Executing, Finished
    <3>2. QED
      BY <1>2, <3>1 DEF EffectInv, ReplyOK
  <2>2. \A t \in Services : spc[t] = "reply" => job[t].key \in Keys
    BY DEF EffectInv, ReplyOK, Connections
  <2>3. QED
    BY <1>1, <1>3, <1>4, <1>5, <1>6, <1>7, <2>1, <2>2 DEF EffectInv, ReplyOK, Finished, Answers
<1>11. ToldOK'
  <2>1. told[job[s].key] \cap Completed = {}
    BY <1>1, <1>2 DEF EffectInv, ToldOK, Executing
  <2>2. QED
    BY <1>3, <1>6, <2>1 DEF EffectInv, ToldOK
<1>12. QED
  BY <1>8, <1>9, <1>10, <1>11 DEF EffectInv

LEMMA ReplyEffect == ASSUME TypeOK, EffectInv, NEW s \in Services, Reply(s) PROVE EffectInv'
<1> USE DEF service, client, history
<1>1. HoldOK' /\ RowsOK' /\ ReplyOK'
  <2>1. spc'[s] \notin Busy
    BY DEF Reply, Step, TypeOK, Busy, Holding
  <2>2. \A t \in Services \ {s} : spc'[t] = spc[t] /\ job'[t] = job[t] /\ response'[t] = response[t]
    BY DEF Reply, Step, TypeOK
  <2>3. UNCHANGED <<ledger, applied>>
    BY DEF Reply
  <2>4. QED
    BY <2>1, <2>2, <2>3, StillBusy
<1>2. ToldOK'
  <2>1. job[s].key \in Keys /\ UNCHANGED ledger
    BY DEF Reply, EffectInv, ReplyOK, Connections
  <2>2. response[s] \in Completed => ledger[job[s].key] # None
          /\ ledger[job[s].key].state = "completed" /\ ledger[job[s].key].response = response[s]
    <3>1. Finished(job[s], response[s]).state = "completed"
          /\ Finished(job[s], response[s]).response = response[s]
      BY DEF Finished
    <3>2. QED
      BY <3>1 DEF Reply, EffectInv, ReplyOK
  <2>3. \A k \in Keys : told'[k] \subseteq told[k] \cup IF k = job[s].key THEN {response[s]} ELSE {}
    BY <2>1 DEF Reply, TypeOK
  <2>4. QED
    BY <2>1, <2>2, <2>3 DEF EffectInv, ToldOK
<1>3. QED
  BY <1>1, <1>2 DEF EffectInv

LEMMA EffectNext == ASSUME TypeOK, EffectInv, [Next]_vars PROVE EffectInv'
<1> USE DEF service, client, history
<1>1. ASSUME UNCHANGED <<ledger, applied, told>>,
             \A s \in Services : spc'[s] \in Busy =>
               spc'[s] = spc[s] /\ job'[s] = job[s] /\ response'[s] = response[s]
      PROVE  EffectInv'
  <2>1. ToldOK'
    BY <1>1 DEF EffectInv, ToldOK
  <2>2. QED
    BY <1>1, <2>1, StillBusy DEF EffectInv
<1>2. CASE UNCHANGED vars
  BY <1>1, <1>2 DEF vars
<1>3. ASSUME NEW s \in Services, Boot(s) \/ Check(s) \/ Publish(s) PROVE EffectInv'
  <2>1. \A t \in Services : spc'[t] \in Busy => spc'[t] = spc[t]
    BY <1>3 DEF Boot, Check, Publish, Step, TypeOK, Busy, Holding
  <2>2. QED
    BY <1>1, <1>3, <2>1 DEF Boot, Check, Publish
<1>4. ASSUME NEW s \in Services, Close(s) \/ Remove(s) \/ Unlink(s) PROVE EffectInv'
  <2>1. \A t \in Services : spc'[t] \in Busy => spc'[t] = spc[t]
    BY <1>4 DEF Close, Remove, Unlink, Step, TypeOK, Busy, Holding
  <2>2. QED
    BY <1>1, <1>4, <2>1 DEF Close, Remove, Unlink
<1>5. ASSUME NEW s \in Services, Crash(s) PROVE EffectInv'
  <2>1. \A t \in Services : spc'[t] \in Busy =>
          spc'[t] = spc[t] /\ job'[t] = job[t] /\ response'[t] = response[t]
    BY <1>5 DEF Crash, TypeOK, Busy, Holding
  <2>2. QED
    BY <1>1, <1>5, <2>1 DEF Crash
<1>6. ASSUME NEW c \in Clients, NEW k \in Keys, NEW m \in Operations, Call(c, k, m) PROVE EffectInv'
  BY <1>1, <1>6 DEF Call
<1>7. ASSUME NEW c \in Clients, Connect(c) \/ Timeout(c) \/ Lose(c) PROVE EffectInv'
  BY <1>1, <1>7 DEF Connect, Timeout, Lose
<1>8. QED
  BY <1>2, <1>3, <1>4, <1>5, <1>6, <1>7, AcceptEffect, ClaimEffect, DispatchEffect,
     CompleteEffect, ReplyEffect DEF Next, Work

----------------------------------------------------------------------------
(* A step that only moves connections of a service on, or away, leaves     *)
(* them with the calls they were opened for.                               *)
LEMMA StillFits ==
  ASSUME FitInv, UNCHANGED <<sent, key, operation>>,
         \A c \in Clients : cpc'[c] = "wait" => cpc[c] = "wait",
         job' \in [Services -> Connections \cup {None}],
         backlog' \in [Services -> Seq(Connections)],
         \A s \in Services : job'[s] \in {None, job[s]} \/ \E j \in 1..Len(backlog[s]) : job'[s] = backlog[s][j],
         \A s \in Services : \A i \in 1..Len(backlog'[s]) :
           \E j \in 1..Len(backlog[s]) : backlog'[s][i] = backlog[s][j]
  PROVE  FitInv'
<1>1. \A s \in Services : \A i \in 1..Len(backlog'[s]) : backlog'[s][i] \in Connections
  OBVIOUS
<1>2. (\A s \in Services : \A i \in 1..Len(backlog[s]) : Fits(backlog[s][i]))'
  <2>1. SUFFICES ASSUME NEW s \in Services, NEW i \in 1..Len(backlog'[s]) PROVE Fits(backlog[s][i])'
    OBVIOUS
  <2>2. PICK j \in 1..Len(backlog[s]) : backlog'[s][i] = backlog[s][j]
    OBVIOUS
  <2>3. Fits(backlog[s][j]) /\ backlog[s][j] \in Connections
    BY <1>1, <2>2 DEF FitInv
  <2>4. QED
    BY <2>2, <2>3 DEF Fits, Awaited, Connections
<1>3. (\A s \in Services : job[s] # None => Fits(job[s]))'
  BY DEF FitInv, Fits, Awaited, Connections
<1>4. QED
  BY <1>2, <1>3 DEF FitInv

LEMMA FitNext ==
  ASSUME TypeOK, TypeOK', CallOK, FitInv, ReplyOK, [Next]_vars PROVE FitInv'
<1> USE DEF service, client, history
<1> DEFINE Same == UNCHANGED <<sent, key, operation>>
           Fewer == \A c \in Clients : cpc'[c] = "wait" => cpc[c] = "wait"
<1>0. /\ job' \in [Services -> Connections \cup {None}]
      /\ backlog' \in [Services -> Seq(Connections)]
  BY DEF TypeOK
<1>1. ASSUME Same, Fewer, UNCHANGED backlog, \A s \in Services : job'[s] \in {None, job[s]}
      PROVE  FitInv'
  BY <1>0, <1>1, StillFits
<1>2. CASE UNCHANGED vars
  BY <1>1, <1>2 DEF vars
<1>3. ASSUME NEW s \in Services,
             Boot(s) \/ Check(s) \/ Publish(s) \/ Claim(s) \/ Dispatch(s) \/ Complete(s) PROVE FitInv'
  BY <1>1, <1>3 DEF Boot, Check, Publish, Claim, Dispatch, Complete
<1>4. ASSUME NEW s \in Services, Remove(s) \/ Unlink(s) PROVE FitInv'
  BY <1>1, <1>4 DEF Remove, Unlink
<1>5. ASSUME NEW s \in Services, Accept(s) PROVE FitInv'
  <2>1. Len(backlog[s]) \in Nat \ {0} /\ Head(backlog[s]) = backlog[s][1]
    BY <1>5 DEF Accept, TypeOK
  <2>2. \A t \in Services : job'[t] \in {None, job[t]} \/ \E j \in 1..Len(backlog[t]) : job'[t] = backlog[t][j]
    BY <1>5, <2>1 DEF Accept, TypeOK
  <2>3. \A i \in 1..Len(Tail(backlog[s])) :
          i + 1 \in 1..Len(backlog[s]) /\ Tail(backlog[s])[i] = backlog[s][i + 1]
    BY <2>1 DEF TypeOK
  <2>4. \A t \in Services : \A i \in 1..Len(backlog'[t]) :
          \E j \in 1..Len(backlog[t]) : backlog'[t][i] = backlog[t][j]
    BY <1>5, <2>3 DEF Accept, TypeOK
  <2>5. Same /\ Fewer
    BY <1>5 DEF Accept
  <2>6. QED
    BY <1>0, <2>2, <2>4, <2>5, StillFits
<1>6. ASSUME NEW s \in Services, Reply(s) PROVE FitInv'
  <2>1. Same /\ UNCHANGED backlog
    BY <1>6 DEF Reply
  <2>2. Fewer
    BY <1>6 DEF Reply, TypeOK
  <2>3. \A t \in Services : job'[t] \in {None, job[t]}
    BY <1>6 DEF Reply, TypeOK
  <2>4. QED
    BY <1>1, <2>1, <2>2, <2>3
<1>7. ASSUME NEW s \in Services, Close(s) \/ Crash(s) PROVE FitInv'
  <2>1. Same /\ Fewer
    BY <1>7 DEF Close, Crash
  <2>2. \A t \in Services : job'[t] \in {None, job[t]} \/ \E j \in 1..Len(backlog[t]) : job'[t] = backlog[t][j]
    BY <1>7 DEF Close, Crash, TypeOK
  <2>3. \A t \in Services : backlog'[t] \in {<<>>, backlog[t]}
    BY <1>7 DEF Close, Crash, TypeOK
  <2>4. \A t \in Services : \A i \in 1..Len(backlog'[t]) :
          \E j \in 1..Len(backlog[t]) : backlog'[t][i] = backlog[t][j]
    BY <2>3
  <2>5. QED
    BY <1>0, <2>1, <2>2, <2>4, StillFits
<1>8. ASSUME NEW c \in Clients, NEW k \in Keys, NEW m \in Operations, Call(c, k, m) PROVE FitInv'
  <2>1. cpc'[c] # "wait" /\ \A d \in Clients \ {c} : cpc'[d] = cpc[d] /\ key'[d] = key[d] /\ operation'[d] = operation[d]
    BY <1>8 DEF Call, Return, TypeOK
  <2>2. UNCHANGED <<sent, backlog, job>>
    BY <1>8 DEF Call
  <2>3. \A s \in Services : \A i \in 1..Len(backlog[s]) : backlog[s][i] \in Connections
    BY DEF TypeOK
  <2>4. (\A s \in Services : \A i \in 1..Len(backlog[s]) : Fits(backlog[s][i]))'
    BY <2>1, <2>2, <2>3 DEF FitInv, Fits, Awaited, Connections
  <2>5. (\A s \in Services : job[s] # None => Fits(job[s]))'
    <3>1. \A s \in Services : job[s] # None => job[s] \in Connections
      BY DEF TypeOK
    <3>2. QED
      BY <2>1, <2>2, <3>1 DEF FitInv, Fits, Awaited, Connections
  <2>6. QED
    BY <2>4, <2>5 DEF FitInv
<1>9. ASSUME NEW c \in Clients, Connect(c) PROVE FitInv'
  <2>1. target[c] \in Services
    BY <1>9 DEF Connect, CallOK
  <2>2. CASE Listening(target[c])
    <3>1. PICK x \in Connections :
            /\ x.client = c /\ x.n = sent[c] + 1 /\ x.key = key[c] /\ x.operation = operation[c]
            /\ backlog' = [backlog EXCEPT ![target[c]] = Append(@, x)]
      <4>1. [client |-> c, n |-> sent[c] + 1, key |-> key[c], operation |-> operation[c]]
              \in Connections
        BY DEF Connections, TypeOK
      <4>2. QED
        BY <1>9, <2>2, <4>1 DEF Connect
    <3>2. UNCHANGED <<key, operation, job>> /\ sent'[c] = sent[c] + 1
      BY <1>9, <2>2 DEF Connect, TypeOK
    <3>3. \A d \in Clients \ {c} : sent'[d] = sent[d] /\ cpc'[d] = cpc[d]
      BY <1>9, <2>2 DEF Connect, TypeOK
    <3>4. \A s \in Services : \A i \in 1..Len(backlog'[s]) :
            backlog'[s][i] = x \/ (i \in 1..Len(backlog[s]) /\ backlog'[s][i] = backlog[s][i])
      <4>1. ASSUME NEW q \in Seq(Connections), NEW i \in 1..Len(Append(q, x))
            PROVE  Append(q, x)[i] = x \/ (i \in 1..Len(q) /\ Append(q, x)[i] = q[i])
        <5>1. CASE i = Len(q) + 1
          <6>1. Append(q, x)[Len(q) + 1] = x
            OBVIOUS
          <6>2. QED
            BY <5>1, <6>1
        <5>2. CASE i # Len(q) + 1
          BY <5>2
        <5>3. QED
          BY <5>1, <5>2
      <4>2. ASSUME NEW s \in Services PROVE backlog'[s] \in {backlog[s], Append(backlog[s], x)}
        BY <3>1 DEF TypeOK
      <4>3. \A s \in Services : backlog[s] \in Seq(Connections)
        BY DEF TypeOK
      <4>4. QED
        BY <4>1, <4>2, <4>3
    <3>5. Fits(x)'
      BY <3>1, <3>2 DEF Fits, Awaited, TypeOK
    <3>6. ASSUME NEW y \in Connections, Fits(y) PROVE Fits(y)'
      <4>1. y.client \in Clients /\ y.n \in Nat /\ sent[c] \in Nat
        BY DEF Connections, TypeOK
      <4>2. CASE y.client = c
        BY <3>2, <3>6, <4>1, <4>2 DEF Fits, Awaited
      <4>3. CASE y.client # c
        BY <3>2, <3>3, <3>6, <4>1, <4>3 DEF Fits, Awaited
      <4>4. QED
        BY <4>2, <4>3
    <3>9. (\A s \in Services : \A i \in 1..Len(backlog[s]) : Fits(backlog[s][i]))'
      <4>1. SUFFICES ASSUME NEW s \in Services, NEW i \in 1..Len(backlog'[s]) PROVE Fits(backlog[s][i])'
        OBVIOUS
      <4>2. CASE backlog'[s][i] = x
        BY <3>5, <4>2 DEF Fits, Awaited
      <4>3. CASE i \in 1..Len(backlog[s]) /\ backlog'[s][i] = backlog[s][i]
        <5>1. backlog[s][i] \in Connections /\ Fits(backlog[s][i])
          BY <4>3 DEF TypeOK, FitInv
        <5>2. QED
          BY <3>6, <4>3, <5>1 DEF Fits, Awaited
      <4>4. QED
        BY <3>4, <4>2, <4>3
    <3>7. (\A s \in Services : job[s] # None => Fits(job[s]))'
      <4>1. SUFFICES ASSUME NEW s \in Services, job'[s] # None PROVE Fits(job[s])'
        OBVIOUS
      <4>2. job[s] \in Connections /\ Fits(job[s])
        BY <3>2, <4>1 DEF TypeOK, FitInv
      <4>3. QED
        BY <3>2, <3>6, <4>2 DEF Fits, Awaited
    <3>8. QED
      BY <3>9, <3>7 DEF FitInv
  <2>3. CASE ~Listening(target[c])
    <3>1. Fewer /\ Same /\ UNCHANGED <<backlog, job>>
      BY <1>9, <2>3 DEF Connect, Return, TypeOK
    <3>2. QED
      BY <1>1, <3>1
  <2>4. QED
    BY <2>2, <2>3
<1>10. ASSUME NEW c \in Clients, Timeout(c) \/ Lose(c) PROVE FitInv'
  <2>1. Fewer
    BY <1>10 DEF Timeout, Lose, Again, Return, TypeOK
  <2>2. QED
    BY <1>1, <1>10, <2>1 DEF Timeout, Lose
<1>11. QED
  BY <1>2, <1>3, <1>4, <1>5, <1>6, <1>7, <1>8, <1>9, <1>10 DEF Next, Work

LEMMA SuccessNext ==
  ASSUME TypeOK, EffectInv, FitInv, SuccessIsReal, [Next]_vars PROVE SuccessIsReal'
<1> USE DEF service, client, history
<1>1. ASSUME UNCHANGED <<key, operation, applied>>,
             \A c \in Clients : got'[c] = got[c] \/ got'[c] # "ok"
      PROVE  SuccessIsReal'
  BY <1>1 DEF SuccessIsReal
<1>2. CASE UNCHANGED vars
  BY <1>1, <1>2 DEF vars
<1>3. ASSUME NEW s \in Services,
             Boot(s) \/ Check(s) \/ Publish(s) \/ Accept(s) \/ Claim(s) \/ Complete(s)
      PROVE  SuccessIsReal'
  BY <1>1, <1>3 DEF Boot, Check, Publish, Accept, Claim, Complete
<1>4. ASSUME NEW s \in Services, Close(s) \/ Remove(s) \/ Unlink(s) \/ Crash(s)
      PROVE  SuccessIsReal'
  BY <1>1, <1>4 DEF Close, Remove, Unlink, Crash
<1>5. ASSUME NEW s \in Services, Dispatch(s) PROVE SuccessIsReal'
  <2>1. applied[job[s].key] = <<>> /\ job[s].key \in Keys
    BY <1>5 DEF Dispatch, Step, EffectInv, HoldOK, Holding, Connections
  <2>2. \A k \in Keys \ {job[s].key} : applied'[k] = applied[k]
    BY <1>5, <2>1 DEF Dispatch, Apply, TypeOK
  <2>3. \A m \in Operations : <<m>> # <<>>
    OBVIOUS
  <2>4. \A c \in Clients : got[c] = "ok" => key[c] \in Keys \ {job[s].key}
    BY <2>1, <2>3 DEF SuccessIsReal, TypeOK
  <2>5. UNCHANGED <<got, key, operation>>
    BY <1>5 DEF Dispatch
  <2>6. QED
    BY <2>2, <2>4, <2>5 DEF SuccessIsReal
<1>6. ASSUME NEW s \in Services, Reply(s) PROVE SuccessIsReal'
  <2>1. job[s] \in Connections /\ UNCHANGED <<key, operation, applied>>
    BY <1>6 DEF Reply, EffectInv, ReplyOK
  <2>2. CASE Awaited(job[s]) /\ response[s] = "ok"
    <3>1. job[s].key = key[job[s].client] /\ job[s].operation = operation[job[s].client]
      BY <2>1, <2>2, NoneFacts DEF FitInv, Fits
    <3>2. ledger[job[s].key] # None /\ ledger[job[s].key] = Finished(job[s], "ok")
      BY <1>6, <2>2 DEF Reply, EffectInv, ReplyOK, Completed
    <3>3. applied[job[s].key] = <<job[s].operation>>
      BY <2>1, <3>2 DEF EffectInv, RowsOK, Finished, Connections
    <3>4. \A c \in Clients \ {job[s].client} : got'[c] = got[c]
      BY <1>6 DEF Reply, TypeOK
    <3>5. QED
      BY <2>1, <3>1, <3>3, <3>4 DEF SuccessIsReal
  <2>3. CASE ~(Awaited(job[s]) /\ response[s] = "ok")
    <3>1. \A c \in Clients : got'[c] = got[c] \/ got'[c] # "ok"
      BY <1>6, <2>3 DEF Reply, TypeOK
    <3>2. QED
      BY <1>1, <2>1, <3>1
  <2>4. QED
    BY <2>2, <2>3
<1>7. ASSUME NEW c \in Clients, NEW k \in Keys, NEW m \in Operations, Call(c, k, m)
      PROVE  SuccessIsReal'
  <2>1. got'[c] # "ok" /\ UNCHANGED applied
    BY <1>7, NoneFacts DEF Call, Return, TypeOK, Answers, Completed
  <2>2. \A d \in Clients \ {c} : got'[d] = got[d] /\ key'[d] = key[d] /\ operation'[d] = operation[d]
    BY <1>7 DEF Call, Return, TypeOK
  <2>3. QED
    BY <2>1, <2>2 DEF SuccessIsReal
<1>8. ASSUME NEW c \in Clients, Connect(c) \/ Timeout(c) \/ Lose(c) PROVE SuccessIsReal'
  <2>1. \A d \in Clients : got'[d] = got[d] \/ got'[d] # "ok"
    BY <1>8 DEF Connect, Timeout, Lose, Again, Return, TypeOK
  <2>2. QED
    BY <1>1, <1>8, <2>1 DEF Connect, Timeout, Lose
<1>9. QED
  BY <1>2, <1>3, <1>4, <1>5, <1>6, <1>7, <1>8 DEF Next, Work

----------------------------------------------------------------------------
LEMMA InvInit == Init => ServiceInv
<1> SUFFICES ASSUME Init PROVE ServiceInv
  OBVIOUS
<1>1. TypeOK
  BY TypeInit
<1>2. CallOK /\ WaitOK
  BY DEF Init, CallOK, WaitOK
<1>3. EffectInv
  BY DEF Init, EffectInv, HoldOK, RowsOK, AppliedOnce, ReplyOK, ToldOK, Holding
<1>4. FitInv
  BY DEF Init, FitInv
<1>5. SuccessIsReal
  BY NoneFacts DEF Init, SuccessIsReal, Answers, Completed
<1>6. QED
  BY <1>1, <1>2, <1>3, <1>4, <1>5 DEF ServiceInv

LEMMA InvNext == ServiceInv /\ [Next]_vars => ServiceInv'
<1> SUFFICES ASSUME ServiceInv, [Next]_vars PROVE ServiceInv'
  OBVIOUS
<1>1. TypeOK'
  BY TypeNext DEF ServiceInv, EffectInv
<1>2. QED
  BY <1>1, CallNext, EffectNext, FitNext, SuccessNext DEF ServiceInv, EffectInv

(* The strengthening holds in every reachable state.                       *)
THEOREM Inductive == Spec => []ServiceInv
<1>1. Init => ServiceInv
  BY InvInit
<1>2. ServiceInv /\ [Next]_vars => ServiceInv'
  BY InvNext
<1>3. QED
  BY <1>1, <1>2, PTL DEF Spec

(* Every variable of the service and its clients keeps its type.           *)
THEOREM TypeCorrect == Spec => []TypeOK
<1>1. ServiceInv => TypeOK
  BY DEF ServiceInv
<1>2. QED
  BY <1>1, Inductive, PTL

(* However many clients send a mutation how often, to however many         *)
(* services: it takes effect at most once for a key.                       *)
THEOREM EffectsAreOnce == Spec => []AppliedOnce
<1>1. ServiceInv => AppliedOnce
  BY DEF ServiceInv, EffectInv, RowsOK
<1>2. QED
  BY <1>1, Inductive, PTL

(* No client is told of a success that is not its own mutation's.          *)
THEOREM SuccessesAreReal == Spec => []SuccessIsReal
<1>1. ServiceInv => SuccessIsReal
  BY DEF ServiceInv
<1>2. QED
  BY <1>1, Inductive, PTL

(* One mutation is never answered with success and with refusal.           *)
THEOREM AnswersNeverDiffer == Spec => []AnswersAgree
<1>1. ServiceInv => AnswersAgree
  BY DEF ServiceInv, EffectInv, ToldOK, AnswersAgree, Completed
<1>2. QED
  BY <1>1, Inductive, PTL

LEMMA LedgerStep ==
  ASSUME ServiceInv, [Next]_vars, NEW k \in Keys, ledger[k] # None
  PROVE  /\ ledger'[k] # None /\ ledger'[k].operation = ledger[k].operation
         /\ ledger[k].state = "completed" => ledger'[k] = ledger[k]
<1> USE DEF service, client, history
<1>1. TypeOK /\ EffectInv
  BY DEF ServiceInv
<1>2. ASSUME NEW s \in Services, Claim(s) PROVE ledger'[k] = ledger[k]
  <2>1. CASE Replay(ledger[job[s].key], job[s].operation) = None
    <3>1. ledger[job[s].key] = None
      BY <1>1, <1>2, <2>1, NoneFacts
        DEF Replay, Claim, EffectInv, HoldOK, RowsOK, Answers, TypeOK, Rows, Connections
    <3>2. QED
      BY <1>1, <1>2, <2>1, <3>1 DEF Claim, TypeOK
  <2>2. QED
    BY <1>2, <2>1 DEF Claim
<1>3. ASSUME NEW s \in Services, Complete(s)
      PROVE  ledger'[k] = ledger[k] \/ (/\ ledger[k] = Executing(job[s])
                                        /\ ledger'[k] = Finished(job[s], response[s])
                                        /\ ledger'[k] # None)
  <2>1. /\ job[s] \in Connections /\ job[s].operation \in Mutations /\ response[s] \in Completed
        /\ ledger[job[s].key] = Executing(job[s])
    BY <1>1, <1>3 DEF Complete, Step, EffectInv, HoldOK, Holding
  <2>2. Finished(job[s], response[s]) # None
    <3>1. Finished(job[s], response[s]) \in Rows
      BY <2>1 DEF Finished, Rows
    <3>2. QED
      BY <3>1, NoneFacts
  <2>3. CASE k = job[s].key
    BY <1>1, <1>3, <2>1, <2>2, <2>3 DEF Complete, TypeOK, Executing, Finished
  <2>4. CASE k # job[s].key
    BY <1>1, <1>3, <2>4 DEF Complete, TypeOK
  <2>5. QED
    BY <2>3, <2>4
<1>4. ASSUME UNCHANGED ledger \/ ledger'[k] = ledger[k]
      PROVE  /\ ledger'[k] # None /\ ledger'[k].operation = ledger[k].operation
             /\ ledger[k].state = "completed" => ledger'[k] = ledger[k]
  BY <1>4
<1>5. ASSUME NEW s \in Services, Boot(s) \/ Check(s) \/ Publish(s) \/ Accept(s) \/ Dispatch(s)
      PROVE  UNCHANGED ledger
  BY <1>5 DEF Boot, Check, Publish, Accept, Dispatch
<1>6. ASSUME NEW s \in Services, Reply(s) \/ Close(s) \/ Remove(s) \/ Unlink(s) \/ Crash(s)
      PROVE  UNCHANGED ledger
  BY <1>6 DEF Reply, Close, Remove, Unlink, Crash
<1>7. ASSUME NEW c \in Clients, NEW j \in Keys, NEW m \in Operations, Call(c, j, m)
      PROVE  UNCHANGED ledger
  BY <1>7 DEF Call
<1>8. ASSUME NEW c \in Clients, Connect(c) \/ Timeout(c) \/ Lose(c) PROVE UNCHANGED ledger
  BY <1>8 DEF Connect, Timeout, Lose
<1>9. CASE UNCHANGED vars
  BY <1>4, <1>9 DEF vars
<1>10. ASSUME NEW s \in Services, Complete(s)
       PROVE  /\ ledger'[k] # None /\ ledger'[k].operation = ledger[k].operation
              /\ ledger[k].state = "completed" => ledger'[k] = ledger[k]
  <2>1. CASE ledger'[k] = ledger[k]
    BY <1>4, <2>1
  <2>2. CASE ledger[k] = Executing(job[s]) /\ ledger'[k] = Finished(job[s], response[s])
             /\ ledger'[k] # None
    <3>1. /\ Executing(job[s]).operation = job[s].operation
          /\ Executing(job[s]).state = "executing"
          /\ Finished(job[s], response[s]).operation = job[s].operation
      BY DEF Executing, Finished
    <3>2. QED
      BY <2>2, <3>1
  <2>3. QED
    BY <1>3, <1>10, <2>1, <2>2
<1>11. QED
  BY <1>2, <1>4, <1>5, <1>6, <1>7, <1>8, <1>9, <1>10 DEF Next, Work

(* A row of the ledger keeps its mutation, and a completed one its         *)
(* response: what a key was used for and answered with is for good.        *)
THEOREM LedgerIsForGood == Spec => LedgerForGood
<1>1. ServiceInv /\ [Next]_vars =>
        [\A k \in Keys : ledger[k] # None =>
           /\ ledger'[k] # None /\ ledger'[k].operation = ledger[k].operation
           /\ ledger[k].state = "completed" => ledger'[k] = ledger[k]]_vars
  BY LedgerStep
<1>2. QED
  BY <1>1, Inductive, PTL DEF Spec, LedgerForGood
=============================================================================
