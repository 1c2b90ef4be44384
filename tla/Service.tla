------------------------------ MODULE Service ------------------------------
(***************************************************************************)
(* The Runtime Service of a project and its clients (service/server.py,    *)
(* service/client.py): services that start and stop, the descriptor they   *)
(* are found by, connections that wait to be served one after the other,   *)
(* clients that time out and send again, and the ledger of the mutations.  *)
(*                                                                         *)
(* A mutation is its operation and payload; what the gateway does for it   *)
(* is one effect, which may fail before or after it took place.  Reads     *)
(* leave no trace and are left out.                                        *)
(***************************************************************************)
EXTENDS Naturals, Sequences, FiniteSets

CONSTANTS
  Clients,      (* processes that call ServiceClient.call                  *)
  Services,     (* service processes, each of them started at most once    *)
  Keys,         (* idempotency keys                                        *)
  Mutations,    (* operations with their payloads                          *)
  Stop,         (* the shutdown operation                                  *)
  MaxAttempts,  (* max_attempts of the client                              *)
  MaxCalls,     (* bound: calls of each client                             *)
  MaxFaults,    (* bound: crashes and failed replies                       *)
  None

Completed == {"ok", "refused"}
Answers == Completed \cup {"conflict", "uncertain", "internal", "stopping"}
Failures == {"unavailable", "disconnected"}
Operations == Mutations \cup {Stop}
Connections == [client : Clients, n : Nat, key : Keys, operation : Operations]
Rows == [operation : Mutations, state : {"executing", "completed"},
         response : Completed \cup {None}]
Starting == {"new", "check"}
Serving == {"accept", "claim", "dispatch", "complete", "reply"}
Leaving == {"close", "remove", "unlink", "down"}

ASSUME ServiceAssumption ==
  /\ MaxAttempts \in Nat \ {0} /\ MaxCalls \in Nat /\ MaxFaults \in Nat
  /\ Stop \notin Mutations
  /\ None \notin Services \cup Connections \cup Rows \cup Answers \cup Failures

VARIABLES
  endpoint,   (* endpoint.json: the service it describes, or None          *)
  spc,        (* where each service is                                     *)
  backlog,    (* its connections that wait to be accepted                  *)
  job,        (* the connection it serves                                  *)
  response,   (* what it will answer                                       *)
  ledger,     (* ipc_mutation_replays                                      *)
  cpc, key, operation, target, attempts,   (* the call of each client      *)
  sent,       (* connections each client has opened                        *)
  got,        (* how its last call ended                                   *)
  applied,    (* history: the mutations that took effect, by key           *)
  told,       (* history: the answers sent to the mutation that owns a key *)
  calls, faults

service == <<spc, backlog, job, response>>
client == <<cpc, key, operation, target, attempts, sent, got>>
history == <<applied, told>>
vars == <<endpoint, service, ledger, client, history, calls, faults>>

TypeOK ==
  /\ endpoint \in Services \cup {None}
  /\ spc \in [Services -> Starting \cup {"publish"} \cup Serving \cup Leaving]
  /\ backlog \in [Services -> Seq(Connections)]
  /\ job \in [Services -> Connections \cup {None}]
  /\ response \in [Services -> Answers \cup {None}]
  /\ ledger \in [Keys -> Rows \cup {None}]
  /\ cpc \in [Clients -> {"idle", "connect", "wait"}]
  /\ key \in [Clients -> Keys] /\ operation \in [Clients -> Operations]
  /\ target \in [Clients -> Services \cup {None}]
  /\ attempts \in [Clients -> 0..MaxAttempts] /\ sent \in [Clients -> Nat]
  /\ got \in [Clients -> Answers \cup Failures \cup {None}]
  /\ applied \in [Keys -> Seq(Mutations)] /\ told \in [Keys -> SUBSET Answers]
  /\ calls \in [Clients -> 0..MaxCalls] /\ faults \in 0..MaxFaults

Init ==
  /\ endpoint = None
  /\ spc = [s \in Services |-> "new"] /\ backlog = [s \in Services |-> <<>>]
  /\ job = [s \in Services |-> None] /\ response = [s \in Services |-> None]
  /\ ledger = [k \in Keys |-> None]
  /\ cpc = [c \in Clients |-> "idle"]
  /\ key \in [Clients -> Keys] /\ operation = [c \in Clients |-> Stop]
  /\ target = [c \in Clients |-> None] /\ attempts = [c \in Clients |-> 0]
  /\ sent = [c \in Clients |-> 0] /\ got = [c \in Clients |-> None]
  /\ applied = [k \in Keys |-> <<>>] /\ told = [k \in Keys |-> {}]
  /\ calls = [c \in Clients |-> 0] /\ faults = 0

----------------------------------------------------------------------------
(* The service.                                                            *)

Step(s, from, to) ==
  /\ spc[s] = from
  /\ spc' = [spc EXCEPT ![s] = to]

(* From listen() to close().                                               *)
Listening(s) == spc[s] \in {"publish", "close"} \cup Serving

Boot(s) ==
  /\ Step(s, "new", "check")
  /\ UNCHANGED <<endpoint, backlog, job, response, ledger, client, history, calls, faults>>

(* A descriptor whose address answers refuses the start.                   *)
Check(s) ==
  /\ Step(s, "check", IF endpoint # None /\ Listening(endpoint) THEN "down" ELSE "publish")
  /\ UNCHANGED <<endpoint, backlog, job, response, ledger, client, history, calls, faults>>

Publish(s) ==
  /\ Step(s, "publish", "accept")
  /\ endpoint' = s
  /\ UNCHANGED <<backlog, job, response, ledger, client, history, calls, faults>>

Accept(s) ==
  /\ backlog[s] # <<>>
  /\ Step(s, "accept", IF Head(backlog[s]).operation = Stop THEN "reply" ELSE "claim")
  /\ job' = [job EXCEPT ![s] = Head(backlog[s])]
  /\ backlog' = [backlog EXCEPT ![s] = Tail(@)]
  /\ response' = [response EXCEPT ![s] = IF Head(backlog[s]).operation = Stop
                                         THEN "stopping" ELSE None]
  /\ UNCHANGED <<endpoint, ledger, client, history, calls, faults>>

(* Mutant: a claim that is still executing is taken over.                  *)
TakeOver(row, mutation) ==
  CASE row = None -> None
    [] row # None /\ row.operation # mutation -> "conflict"
    [] row # None /\ row.operation = mutation /\ row.state = "executing" -> None
    [] OTHER -> row.response

(* Mutant: the fingerprint is not compared.                                *)
AnyMutation(row, mutation) ==
  CASE row = None -> None
    [] row # None /\ row.state = "executing" -> "uncertain"
    [] OTHER -> row.response

(* What _claim answers to a mutation without dispatching it, or None.      *)
Replay(row, mutation) ==
  CASE row = None -> None
    [] row # None /\ row.operation # mutation -> "conflict"
    [] row # None /\ row.operation = mutation /\ row.state = "executing" -> "uncertain"
    [] OTHER -> row.response

(* One transaction of the control database.                                *)
Claim(s) ==
  LET k == job[s].key
      m == job[s].operation
  IN /\ spc[s] = "claim"
     /\ \/ /\ Replay(ledger[k], m) = None
           /\ Step(s, "claim", "dispatch")
           /\ ledger' = [ledger EXCEPT ![k] = [operation |-> m, state |-> "executing",
                                               response |-> None]]
           /\ UNCHANGED response
        \/ /\ Replay(ledger[k], m) # None
           /\ Step(s, "claim", "reply")
           /\ response' = [response EXCEPT ![s] = Replay(ledger[k], m)]
           /\ UNCHANGED ledger
     /\ UNCHANGED <<endpoint, backlog, job, client, history, calls, faults>>

Apply(s) == applied' = [applied EXCEPT ![job[s].key] = Append(@, job[s].operation)]

(* gateway.dispatch: done, refused by one of the five exceptions that are  *)
(* caught, or left by another one.  An exception may also come after the   *)
(* effect (a KeyError or ValueError of a later part of the handler).       *)
Dispatch(s) ==
  /\ \/ /\ Step(s, "dispatch", "complete") /\ Apply(s)
        /\ response' = [response EXCEPT ![s] = "ok"]
     \/ /\ Step(s, "dispatch", "complete") /\ (Apply(s) \/ UNCHANGED applied)
        /\ response' = [response EXCEPT ![s] = "refused"]
     \/ /\ Step(s, "dispatch", "reply") /\ (Apply(s) \/ UNCHANGED applied)
        /\ response' = [response EXCEPT ![s] = "internal"]
  /\ UNCHANGED <<endpoint, backlog, job, ledger, client, told, calls, faults>>

Complete(s) ==
  LET k == job[s].key
  IN /\ Step(s, "complete", "reply")
     /\ ledger' = [ledger EXCEPT ![k] =
          IF @ # None /\ @.state = "executing"
          THEN [operation |-> @.operation, state |-> "completed", response |-> response[s]]
          ELSE @]
     /\ UNCHANGED <<endpoint, backlog, job, response, client, history, calls, faults>>

(* The client is still there.                                              *)
Awaited(connection) ==
  cpc[connection.client] = "wait" /\ sent[connection.client] = connection.n

(* What is sent to a client that has gone is lost, or ends the service.    *)
Reply(s) ==
  LET c == job[s].client
      k == job[s].key
      a == response[s]
  IN /\ spc[s] = "reply"
     /\ \/ /\ Step(s, "reply", IF a = "stopping" THEN "close" ELSE "accept")
           /\ UNCHANGED faults
        \/ /\ ~Awaited(job[s]) /\ faults < MaxFaults
           /\ Step(s, "reply", "close")
           /\ faults' = faults + 1
     /\ IF Awaited(job[s])
        THEN /\ cpc' = [cpc EXCEPT ![c] = "idle"]
             /\ got' = [got EXCEPT ![c] = a]
        ELSE UNCHANGED <<cpc, got>>
     /\ told' = IF a \in {"conflict", "stopping"} THEN told
                ELSE [told EXCEPT ![k] = @ \cup {a}]
     /\ job' = [job EXCEPT ![s] = None]
     /\ response' = [response EXCEPT ![s] = None]
     /\ UNCHANGED <<endpoint, backlog, ledger, key, operation, target, attempts, sent,
                    applied, calls>>

(* finally: the listener is closed, and the connections that wait at it.   *)
Close(s) ==
  /\ Step(s, "close", "remove")
  /\ backlog' = [backlog EXCEPT ![s] = <<>>]
  /\ UNCHANGED <<endpoint, job, response, ledger, client, history, calls, faults>>

(* _remove_owned_descriptor reads the descriptor, ...                      *)
Remove(s) ==
  /\ Step(s, "remove", IF endpoint = s THEN "unlink" ELSE "down")
  /\ UNCHANGED <<endpoint, backlog, job, response, ledger, client, history, calls, faults>>

(* ... and then removes whatever is there.                                 *)
Unlink(s) ==
  /\ Step(s, "unlink", "down")
  /\ endpoint' = None
  /\ UNCHANGED <<backlog, job, response, ledger, client, history, calls, faults>>

Crash(s) ==
  /\ faults < MaxFaults
  /\ spc[s] \notin {"new", "down"}
  /\ spc' = [spc EXCEPT ![s] = "down"]
  /\ backlog' = [backlog EXCEPT ![s] = <<>>]
  /\ job' = [job EXCEPT ![s] = None]
  /\ response' = [response EXCEPT ![s] = None]
  /\ faults' = faults + 1
  /\ UNCHANGED <<endpoint, ledger, client, history, calls>>

----------------------------------------------------------------------------
(* The client.                                                             *)

Return(c, outcome) ==
  /\ cpc' = [cpc EXCEPT ![c] = "idle"]
  /\ got' = [got EXCEPT ![c] = outcome]

(* An OSError is followed by another attempt, up to max_attempts.          *)
Again(c) ==
  IF attempts[c] < MaxAttempts
  THEN cpc' = [cpc EXCEPT ![c] = "connect"] /\ UNCHANGED got
  ELSE Return(c, "unavailable")

(* call(): the descriptor is read once.                                    *)
Call(c, k, m) ==
  /\ cpc[c] = "idle"
  /\ calls[c] < MaxCalls
  /\ calls' = [calls EXCEPT ![c] = @ + 1]
  /\ key' = [key EXCEPT ![c] = k]
  /\ operation' = [operation EXCEPT ![c] = m]
  /\ target' = [target EXCEPT ![c] = endpoint]
  /\ attempts' = [attempts EXCEPT ![c] = 0]
  /\ IF endpoint = None THEN Return(c, "unavailable")
     ELSE /\ cpc' = [cpc EXCEPT ![c] = "connect"]
          /\ got' = [got EXCEPT ![c] = None]
  /\ UNCHANGED <<endpoint, service, ledger, sent, history, faults>>

(* Mutant: the attempts are not counted.                                   *)
KeepConnecting(c) ==
  /\ cpc[c] = "connect"
  /\ IF Listening(target[c])
     THEN /\ backlog' = [backlog EXCEPT ![target[c]] =
               Append(@, [client |-> c, n |-> sent[c] + 1,
                          key |-> key[c], operation |-> operation[c]])]
          /\ sent' = [sent EXCEPT ![c] = @ + 1]
          /\ cpc' = [cpc EXCEPT ![c] = "wait"]
     ELSE UNCHANGED <<cpc, backlog, sent>>
  /\ UNCHANGED <<endpoint, spc, job, response, ledger, key, operation, target, attempts, got,
                 history, calls, faults>>

(* create_connection and sendall, or a refused connection.                 *)
Connect(c) ==
  /\ cpc[c] = "connect"
  /\ IF Listening(target[c])
     THEN /\ attempts' = [attempts EXCEPT ![c] = @ + 1]
          /\ backlog' = [backlog EXCEPT ![target[c]] =
               Append(@, [client |-> c, n |-> sent[c] + 1,
                          key |-> key[c], operation |-> operation[c]])]
          /\ sent' = [sent EXCEPT ![c] = @ + 1]
          /\ cpc' = [cpc EXCEPT ![c] = "wait"]
          /\ UNCHANGED got
     ELSE /\ attempts' = [attempts EXCEPT ![c] = @ + 1]
          /\ IF attempts[c] + 1 < MaxAttempts THEN UNCHANGED <<cpc, got>>
             ELSE Return(c, "unavailable")
          /\ UNCHANGED <<backlog, sent>>
  /\ UNCHANGED <<endpoint, spc, job, response, ledger, key, operation, target,
                 history, calls, faults>>

(* The client's clock: the request stays where it is.                      *)
Timeout(c) ==
  /\ cpc[c] = "wait"
  /\ Again(c)
  /\ UNCHANGED <<endpoint, service, ledger, key, operation, target, attempts, sent,
                 history, calls, faults>>

(* The connection of the client is gone with its service: a reset is an    *)
(* OSError, an end of the stream a RuntimeError.                           *)
Pending(c) ==
  \E s \in Services :
    \/ \E i \in DOMAIN backlog[s] : backlog[s][i].client = c /\ backlog[s][i].n = sent[c]
    \/ job[s] # None /\ job[s].client = c /\ job[s].n = sent[c]

Lose(c) ==
  /\ cpc[c] = "wait" /\ ~Pending(c)
  /\ Again(c) \/ Return(c, "disconnected")
  /\ UNCHANGED <<endpoint, service, ledger, key, operation, target, attempts, sent,
                 history, calls, faults>>

Work(s) ==
  \/ Check(s) \/ Publish(s) \/ Accept(s) \/ Claim(s) \/ Dispatch(s) \/ Complete(s)
  \/ Reply(s) \/ Close(s) \/ Remove(s) \/ Unlink(s)

Next ==
  \/ \E s \in Services : Boot(s) \/ Work(s) \/ Crash(s)
  \/ \E c \in Clients :
       \/ \E k \in Keys, m \in Operations : Call(c, k, m)
       \/ Connect(c) \/ Timeout(c) \/ Lose(c)

Spec == Init /\ [][Next]_vars

(* Processes run, and the client's clock with them.                        *)
Fairness ==
  /\ \A s \in Services : WF_vars(Work(s))
  /\ \A c \in Clients : WF_vars(Connect(c)) /\ WF_vars(Timeout(c))

FairSpec == Spec /\ Fairness

----------------------------------------------------------------------------
(* However often a mutation is sent again, by whom, to which service, and  *)
(* whoever crashed meanwhile: its effect takes place at most once for an   *)
(* idempotency key, and it is the effect of the mutation that owns it.     *)
AppliedOnce ==
  \A k \in Keys :
    applied[k] # <<>> => ledger[k] # None /\ applied[k] = <<ledger[k].operation>>

(* A client that is told of success has its own mutation done, although    *)
(* the answer may be the one to another connection, client or service.     *)
SuccessIsReal ==
  \A c \in Clients :
    got[c] = "ok" => applied[key[c]] = <<operation[c]>>

(* Success and refusal of one mutation are never both told.                *)
AnswersAgree == \A k \in Keys : ~({"ok", "refused"} \subseteq told[k])

(* A row keeps its fingerprint, and a completed one its response.          *)
LedgerForGood ==
  [][\A k \in Keys : ledger[k] # None =>
       /\ ledger'[k] # None /\ ledger'[k].operation = ledger[k].operation
       /\ ledger[k].state = "completed" => ledger'[k] = ledger[k]]_vars

(* Every call returns, whatever becomes of the service.                    *)
CallsReturn == \A c \in Clients : (cpc[c] # "idle") ~> (cpc[c] = "idle")

=============================================================================
