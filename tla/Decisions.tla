----------------------------- MODULE Decisions -----------------------------
(***************************************************************************)
(* Human decisions on a finished Run: accept, reject, revise.  A process   *)
(* of the CLI decides with a message id of its own, by the coordinator or, *)
(* with --state-db, on the Run's database alone; the Runtime Service       *)
(* serves one request at a time and decides at once, or takes a proposal   *)
(* and decides when it is confirmed.  A decision is a sequence of          *)
(* transactions of the Run's database, one of the control database, and a  *)
(* delivery report; calls interleave between them, and a process may die   *)
(* between any two.                                                        *)
(*                                                                         *)
(* One Run, whose Contract is frozen at its first revision: its successor  *)
(* is the second.  Each call makes a message of its own (created_at is the *)
(* time of the call), so that an id received before is an id of another    *)
(* document.  A text is reduced to the action IntentCompiler finds in it,  *)
(* or None: it names none, or several.                                     *)
(***************************************************************************)
EXTENDS Naturals

CONSTANTS
  Cli,        (* processes of the CLI                                      *)
  Service,    (* the thread of the Runtime Service                         *)
  MaxIds,     (* bound: message ids                                        *)
  MaxCalls,   (* bound: calls                                              *)
  MaxCallFaults,  (* bound: crashes and failed writes                      *)
  Nil

Callers == Cli \cup {Service}
(* Ids are uuids, or names of the client: which they are does not matter,  *)
(* and they are numbered as they come into use.                            *)
Messages == 1..MaxIds
Actions == {"accept", "reject", "revise"}
Kinds == {"decide", "propose", "confirm"}
Steps == {"idle", "receive", "pend", "look", "lookup", "converse", "create", "append",
          "delta", "plan", "record", "copy", "facts", "report", "settle"}
Endings == {"decided", "direct", "failed"}
Answers == Endings \cup {"repeated", "pending", "unconfirmed"}

ASSUME DecisionAssumption ==
  /\ Service \notin Cli
  /\ MaxIds \in Nat \ {0} /\ MaxCalls \in Nat /\ MaxCallFaults \in Nat
  /\ Nil \notin Messages /\ Nil \notin Actions \cup Answers \cup {"applied"}

VARIABLES
  conversed,  (* the conversation of the decisions exists                  *)
  received,   (* human_messages of the Run's database                      *)
  successor,  (* contract_revisions: the message that froze revision 2     *)
  planned,    (* planned_runs: the Run of revision 2                       *)
  record,     (* human_acceptance_records: of each message its action      *)
  reports,    (* delivery_report_revisions: how many                       *)
  reported,   (* the decisions that some report tells of                   *)
  folders,    (* how many directories of reports there are                 *)
  heard,      (* human_messages of the control database                    *)
  pending,    (* pending_confirmations: of each proposal its state         *)
  proposed,   (* ... and its action                                        *)
  expired,    (* ... those whose time is over                              *)
  published,  (* contract_revisions of the control database                *)
  offered,    (* planned_runs of the control database                      *)
  pc, call,   (* the calls                                                 *)
  facts,      (* the decisions a call has read for its report              *)
  told,       (* history: the ids of the calls that decided, decided       *)
              (* without a report, or failed                               *)
  confirmed,  (* history: the decisions that answered each proposal        *)
  usedIds, callFaults, made

runDb == <<conversed, received, successor, planned, record>>
delivery == <<reports, reported, folders>>
controlDb == <<heard, pending, proposed, expired, published, offered>>
local == <<pc, call, facts, told>>
bounds == <<usedIds, callFaults, made>>
decisionsVars == <<runDb, delivery, controlDb, local, confirmed, bounds>>

Call == [kind : Kinds, action : Actions, id : Messages, proposal : Messages,
         text : Actions \cup {Nil}]

DecisionsTypeOK ==
  /\ conversed \in BOOLEAN /\ planned \in BOOLEAN /\ offered \in BOOLEAN
  /\ received \subseteq Messages /\ heard \subseteq Messages
  /\ successor \in Messages \cup {Nil} /\ published \in Messages \cup {Nil}
  /\ record \in [Messages -> Actions \cup {Nil}]
  /\ reports \in Nat /\ folders \in Nat /\ reported \subseteq Messages
  /\ pending \in [Messages -> {"pending", "applied", Nil}]
  /\ proposed \in [Messages -> Actions \cup {Nil}]
  /\ expired \subseteq Messages
  /\ pc \in [Callers -> Steps]
  /\ call \in [Callers -> Call \cup {Nil}]
  /\ facts \in [Callers -> SUBSET Messages]
  /\ confirmed \in [Messages -> SUBSET Messages]
  /\ told \in [Endings -> SUBSET Messages]
  /\ usedIds \in Messages \cup {0}
  /\ callFaults \in 0..MaxCallFaults /\ made \in 0..MaxCalls

(* The Run has just ended.  It may have its first report, none, or only    *)
(* the directory that a start left which died while it wrote one.          *)
DecisionsInit ==
  /\ conversed = FALSE /\ received = {} /\ successor = Nil /\ planned = FALSE
  /\ record = [m \in Messages |-> Nil]
  /\ folders \in {0, 1} /\ reports \in 0..folders /\ reported = {}
  /\ heard = {} /\ pending = [m \in Messages |-> Nil]
  /\ proposed = [m \in Messages |-> Nil] /\ expired = {}
  /\ published = Nil /\ offered = FALSE
  /\ pc = [c \in Callers |-> "idle"]
  /\ call = [c \in Callers |-> Nil]
  /\ facts = [c \in Callers |-> {}]
  /\ confirmed = [m \in Messages |-> {}]
  /\ told = [w \in Endings |-> {}] /\ usedIds = 0 /\ callFaults = 0 /\ made = 0

----------------------------------------------------------------------------
At(c, step) == pc[c] = step

GoOn(c, step) ==
  /\ pc' = [pc EXCEPT ![c] = step]
  /\ UNCHANGED <<call, facts, told>>

Return(c, what) ==
  /\ pc' = [pc EXCEPT ![c] = "idle"]
  /\ call' = [call EXCEPT ![c] = Nil]
  /\ facts' = [facts EXCEPT ![c] = {}]
  /\ told' = [w \in Endings |-> IF w = what THEN told[w] \cup {call[c].id} ELSE told[w]]

Id(c) == call[c].id

Begin(c, step, k) ==
  /\ pc[c] = "idle" /\ made < MaxCalls
  /\ made' = made + 1
  /\ k.id \in 1..(usedIds + 1) \cap Messages
  /\ usedIds' = IF k.id > usedIds THEN k.id ELSE usedIds
  /\ pc' = [pc EXCEPT ![c] = step]
  /\ call' = [call EXCEPT ![c] = k]
  /\ UNCHANGED <<runDb, delivery, controlDb, facts, told, confirmed, callFaults>>

(* `ge accept`, `ge reject`, `ge revise`: the id is new.  The text names   *)
(* the action, and another one when the reason does.  Whether --state-db   *)
(* is given matters when the decision is on record (ReturnDirect).         *)
Command(c, action, m) ==
  /\ c \in Cli /\ m > usedIds
  /\ \E text \in {action, Nil} :
       Begin(c, "lookup", [kind |-> "decide", action |-> action, id |-> m,
                           proposal |-> m, text |-> text])

(* The same of the service: the client names the id, or may use it again.  *)
Decide(action, m) ==
  \E text \in {action, Nil} :
    Begin(Service, "lookup", [kind |-> "decide", action |-> action, id |-> m,
                              proposal |-> m, text |-> text])

Propose(action, m) ==
  Begin(Service, "receive", [kind |-> "propose", action |-> action, id |-> m,
                             proposal |-> m, text |-> action])

(* A confirmation whose text need not repeat the action.                   *)
Confirm(p, m, text) ==
  /\ proposed[p] # Nil
  /\ Begin(Service, "receive", [kind |-> "confirm", action |-> proposed[p], id |-> m,
                                proposal |-> p, text |-> text])

----------------------------------------------------------------------------
(* handle() and confirm(): the message comes first.  A confirmation that   *)
(* does not say so ends here.                                              *)
Receive(c) ==
  /\ At(c, "receive")
  /\ IF Id(c) \in heard
       THEN /\ Return(c, "failed")
            /\ UNCHANGED heard
       ELSE /\ heard' = heard \cup {Id(c)}
            /\ \/ GoOn(c, IF call[c].kind = "propose" THEN "pend" ELSE "look")
               \/ call[c].kind = "confirm" /\ Return(c, "unconfirmed")
  /\ UNCHANGED <<runDb, delivery, pending, proposed, expired, published, offered,
                 confirmed, bounds>>

(* handle(): the intent is recorded, then awaits confirmation.             *)
Pend(c) ==
  /\ At(c, "pend")
  /\ pending' = [pending EXCEPT ![Id(c)] = "pending"]
  /\ proposed' = [proposed EXCEPT ![Id(c)] = call[c].action]
  /\ Return(c, "pending")
  /\ UNCHANGED <<runDb, delivery, heard, expired, published, offered, confirmed, bounds>>

Expire(p) ==
  /\ proposed[p] # Nil /\ p \notin expired
  /\ expired' = expired \cup {p}
  /\ UNCHANGED <<runDb, delivery, heard, pending, proposed, published, offered, local,
                 confirmed, bounds>>

(* Mutant: an applied confirmation is not answered from its result.        *)
LookAgain(c) ==
  LET p == call[c].proposal
  IN /\ At(c, "look")
     /\ \/ (p \in expired \/ reports = 0) /\ Return(c, "failed")
        \/ ~(p \in expired \/ reports = 0) /\ GoOn(c, "lookup")
     /\ UNCHANGED <<runDb, delivery, controlDb, confirmed, bounds>>

(* confirm(): the row as it is now.  Without a report there is nothing to  *)
(* decide about (_latest_report_revision).                                 *)
Look(c) ==
  LET p == call[c].proposal
  IN /\ At(c, "look")
     /\ \/ p \in expired /\ Return(c, "failed")
        \/ p \notin expired /\ pending[p] = "applied" /\ Return(c, "repeated")
        \/ p \notin expired /\ pending[p] = "pending" /\ reports = 0 /\ Return(c, "failed")
        \/ p \notin expired /\ pending[p] = "pending" /\ reports > 0 /\ GoOn(c, "lookup")
     /\ UNCHANGED <<runDb, delivery, controlDb, confirmed, bounds>>

----------------------------------------------------------------------------
(* Mutant: a decision that is on record already is simply returned.        *)
LookupAndReturn(c) ==
  /\ At(c, "lookup")
  /\ IF record[Id(c)] # Nil
       THEN IF call[c].kind = "confirm" THEN GoOn(c, "settle") ELSE Return(c, "decided")
       ELSE GoOn(c, "converse")
  /\ UNCHANGED <<runDb, delivery, controlDb, confirmed, bounds>>

(* _by_message: the decision of this message, whatever it was.  What comes *)
(* after the decision is done again.                                       *)
Lookup(c) ==
  /\ At(c, "lookup")
  /\ GoOn(c, IF record[Id(c)] # Nil THEN "copy" ELSE "converse")
  /\ UNCHANGED <<runDb, delivery, controlDb, confirmed, bounds>>

(* get() finds the conversation of the decisions, or it has to be made.    *)
Converse(c) ==
  /\ At(c, "converse")
  /\ GoOn(c, IF conversed THEN "append" ELSE "create")
  /\ UNCHANGED <<runDb, delivery, controlDb, confirmed, bounds>>

(* create() fails when another call has made it since.                     *)
Create(c) ==
  /\ At(c, "create")
  /\ IF conversed THEN Return(c, "failed") ELSE GoOn(c, "append")
  /\ conversed' = TRUE
  /\ UNCHANGED <<received, successor, planned, record, delivery, controlDb, confirmed,
                 bounds>>

(* Where a decision goes when its message is kept: IntentCompiler must     *)
(* find the action in the text, which must confirm it in so many words.    *)
Compiled(k) ==
  CASE k.text # k.action     -> "none"
    [] k.action = "accept"   -> "record"
    [] OTHER                 -> "delta"

Append(c) ==
  /\ At(c, "append")
  /\ received' = received \cup {Id(c)}
  /\ IF Id(c) \in received \/ Compiled(call[c]) = "none"
       THEN Return(c, "failed")
       ELSE GoOn(c, Compiled(call[c]))
  /\ UNCHANGED <<conversed, successor, planned, record, delivery, controlDb, confirmed,
                 bounds>>

(* Mutant: the revision need not apply to the latest one.                  *)
DeltaOfAny(c) ==
  /\ At(c, "delta")
  /\ successor' = Id(c)
  /\ GoOn(c, IF call[c].action = "revise" THEN "plan" ELSE "record")
  /\ UNCHANGED <<conversed, received, planned, record, delivery, controlDb, confirmed, bounds>>

(* apply_delta: the next revision, its lock and its delta, if the Contract *)
(* of the Run is the latest still.                                         *)
Delta(c) ==
  /\ At(c, "delta")
  /\ IF successor # Nil
       THEN Return(c, "failed") /\ UNCHANGED successor
       ELSE /\ successor' = Id(c)
            /\ GoOn(c, IF call[c].action = "revise" THEN "plan" ELSE "record")
  /\ UNCHANGED <<conversed, received, planned, record, delivery, controlDb, confirmed, bounds>>

(* RunPlanner.create: the Run of a revision has one id.                    *)
Plan(c) ==
  /\ At(c, "plan")
  /\ planned' = TRUE
  /\ GoOn(c, "record")
  /\ UNCHANGED <<conversed, received, successor, record, delivery, controlDb, confirmed,
                 bounds>>

RecordDecision(c) ==
  /\ At(c, "record")
  /\ record' = [record EXCEPT ![Id(c)] = call[c].action]
  /\ GoOn(c, "copy")
  /\ UNCHANGED <<conversed, received, successor, planned, delivery, controlDb, confirmed,
                 bounds>>

(* A command with --state-db has done all it does, and succeeds.           *)
ReturnDirect(c) ==
  /\ At(c, "copy") /\ c \in Cli
  /\ Return(c, "direct")
  /\ UNCHANGED <<runDb, delivery, controlDb, confirmed, bounds>>

(* _copy_revision_to_control: what is there already stays.                 *)
Copy(c) ==
  /\ At(c, "copy")
  /\ IF record[Id(c)] = "accept"
       THEN UNCHANGED <<published, offered>>
       ELSE /\ published' = IF published = Nil THEN successor ELSE published
            /\ offered' = (offered \/ record[Id(c)] = "revise")
  /\ GoOn(c, "facts")
  /\ UNCHANGED <<runDb, delivery, heard, pending, proposed, expired, confirmed, bounds>>

----------------------------------------------------------------------------
(* _facts: read before the transaction of the report begins.               *)
Facts(c) ==
  /\ At(c, "facts")
  /\ facts' = [facts EXCEPT ![c] = {m \in Messages : record[m] # Nil}]
  /\ pc' = [pc EXCEPT ![c] = "report"]
  /\ UNCHANGED <<call, told, runDb, delivery, controlDb, confirmed, bounds>>

(* What a call does when its report is written, or was not.                *)
Reported(c) ==
  IF call[c].kind = "confirm" THEN GoOn(c, "settle") ELSE Return(c, "decided")

(* Mutant: a report that cannot be written is not an error.                *)
ReportIfPossible(c) ==
  /\ At(c, "report")
  /\ IF folders > reports
       THEN UNCHANGED delivery
       ELSE /\ reports' = reports + 1 /\ folders' = folders + 1
            /\ reported' = reported \cup facts[c]
  /\ Reported(c)
  /\ UNCHANGED <<runDb, controlDb, confirmed, bounds>>

(* _compile: the next revision; its directory must not exist.              *)
CompileReport(c) ==
  /\ At(c, "report")
  /\ IF folders > reports
       THEN Return(c, "failed") /\ UNCHANGED delivery
       ELSE /\ reports' = reports + 1 /\ folders' = folders + 1
            /\ reported' = reported \cup facts[c]
            /\ Reported(c)
  /\ UNCHANGED <<runDb, controlDb, confirmed, bounds>>

(* confirm(): the action is applied, and its result is kept.               *)
Settle(c) ==
  LET p == call[c].proposal
  IN /\ At(c, "settle")
     /\ pending' = [pending EXCEPT ![p] = "applied"]
     /\ confirmed' = [confirmed EXCEPT ![p] = @ \cup {Id(c)}]
     /\ Return(c, "decided")
     /\ UNCHANGED <<runDb, delivery, heard, proposed, expired, published, offered, bounds>>

----------------------------------------------------------------------------
(* A process dies, or a write fails: either way the caller gets no answer  *)
(* that tells of a decision.  Of a transaction under way nothing stays but *)
(* the directory that the report has made.                                 *)
CallFails(c) ==
  /\ pc[c] # "idle" /\ callFaults < MaxCallFaults
  /\ callFaults' = callFaults + 1
  /\ Return(c, "failed")
  /\ \/ UNCHANGED folders
     \/ At(c, "report") /\ folders = reports /\ folders' = folders + 1
  /\ UNCHANGED <<runDb, reports, reported, controlDb, confirmed, usedIds, made>>

Step(c) ==
  \/ Receive(c) \/ Pend(c) \/ Look(c)
  \/ Lookup(c) \/ Converse(c) \/ Create(c) \/ Append(c)
  \/ Delta(c) \/ Plan(c) \/ RecordDecision(c) \/ ReturnDirect(c) \/ Copy(c)
  \/ Facts(c) \/ CompileReport(c) \/ Settle(c)

Request ==
  \E m \in Messages, action \in Actions :
    \/ \E c \in Cli : Command(c, action, m)
    \/ Decide(action, m)
    \/ Propose(action, m)

Confirmation ==
  \E p, m \in Messages : \E text \in {proposed[p], Nil} : Confirm(p, m, text)

DecisionsNext ==
  \/ Request
  \/ Confirmation
  \/ \E c \in Callers : Step(c) \/ CallFails(c)
  \/ \E p \in Messages : Expire(p)

(* A call is one run of a process or of the service's thread: nothing but  *)
(* a fault keeps it from its next step.                                    *)
DecisionsSpec ==
  /\ DecisionsInit /\ [][DecisionsNext]_decisionsVars
  /\ \A c \in Callers : WF_decisionsVars(Step(c))

----------------------------------------------------------------------------
L == INSTANCE Lineage WITH None <- Nil

(* Whatever interleaves or dies, the Contract has one successor, a         *)
(* decision names the one that it froze, and the control database is told  *)
(* of it after the decision (_apply_uninstrumented, apply_delta,           *)
(* _copy_revision_to_control).                                             *)
ImplementsLineage == L!Spec

(* A call that returned a decision leaves nothing of it undone: it is on   *)
(* record and in a report, and a successor is where the next start looks   *)
(* for it.  This holds for the repetition of a call that died half-way.    *)
(* A command with --state-db promises less: the record and the successor.  *)
DecidedIsDelivered ==
  /\ \A m \in told["decided"] :
       /\ record[m] # Nil /\ m \in reported
       /\ record[m] # "accept" => published = m
       /\ record[m] = "revise" => offered
  /\ \A m \in told["direct"] :
       record[m] # Nil /\ (record[m] # "accept" => successor = m)

(* One proposal is confirmed once, though its confirmations are many: the  *)
(* others are told the first one's result (confirm).                       *)
ConfirmedOnce ==
  \A p \in Messages : \A m, n \in confirmed[p] : m = n

(* The decisions on record that no report tells of, whose caller has not   *)
(* been told that something failed and did not use --state-db.             *)
Owed == {m \in Messages : record[m] # Nil} \ (reported \cup told["failed"] \cup told["direct"])

(* Every decision on record gets into a report, or the call that made it   *)
(* tells its caller that something failed (_decide), or was a command with *)
(* --state-db, whose decision the next report tells of, if there is one.   *)
RecordedIsReported == []<>(Owed = {})

=============================================================================
