---------------------------- MODULE Publication ----------------------------
(***************************************************************************)
(* The pull requests of Runs (delivery/github.py, PullRequestManager).     *)
(* ensure() writes an intent, looks whether a pull request of the branch   *)
(* pair is open, creates one if this call wrote the intent, and keeps a    *)
(* handle; update() rewrites the pull request of a handle.  Any number of  *)
(* processes call them, and may die between two steps.                     *)
(*                                                                         *)
(* The host is external: it has at most one open pull request for a pair   *)
(* of branches, others open and close them too, and its answers fail or    *)
(* are lost.  The Runs here publish the same pair of branches, which is    *)
(* the case in which they meet; Runs of other pairs share nothing.         *)
(***************************************************************************)
EXTENDS Naturals

CONSTANTS
  Runs,       (* Runs that publish the pair of branches                    *)
  Callers,    (* processes                                                 *)
  MaxNumber,  (* bound: pull requests                                      *)
  MaxFaults,  (* bound: crashes and answers that fail or are lost          *)
  MaxCalls,   (* bound: calls                                              *)
  MaxTurns,   (* bound: how often the barrier is raised or lifted          *)
  None

Numbers == 1..MaxNumber
Intents == {"creating", "uncertain", "failed", "checkpointed"}
Steps == {"idle", "handle", "barrier", "intent", "discover", "again", "post", "settle",
          "keep", "own", "permit", "patch"}
Answers == {"handle", "updated", "barred", "uncertain", "failed"}
Heard == {"lost", "error", "unconfirmed"}

ASSUME PublicationAssumption ==
  /\ MaxNumber \in Nat /\ MaxFaults \in Nat /\ MaxCalls \in Nat /\ MaxTurns \in Nat
  /\ None \notin Runs /\ "other" \notin Runs \cup {None}
  /\ None \notin Intents \cup Answers \cup Heard

VARIABLES
  intent,    (* pull_request_intents: the state of each Run's intent       *)
  handle,    (* pull_request_handles: the number of each, 0 before         *)
  open,      (* the host: the pull request that is open, 0 if none is      *)
  author,    (* ... and who created each: a Run, "other", or None          *)
  barred,    (* can_write() is false                                       *)
  pc, run,   (* the calls: the step, and the Run                           *)
  isNew,     (* the call has written the intent                            *)
  number,    (* the pull request that the call has in hand, 0 if none      *)
  heard,     (* what the host made of its request to create, if not one    *)
  answer,    (* what it returned                                           *)
  seen,      (* history: the one pull request open since the call began    *)
  warned,    (* history: the barrier is up since before its last check     *)
  faults, made, turns

store == <<intent, handle>>
host == <<open, author>>
local == <<pc, run, isNew, number, heard, answer>>
history == <<seen, warned>>
bounds == <<faults, made, turns>>
vars == <<store, host, barred, local, history, bounds>>

TypeOK ==
  /\ intent \in [Runs -> Intents \cup {None}]
  /\ handle \in [Runs -> Numbers \cup {0}]
  /\ open \in Numbers \cup {0}
  /\ author \in [Numbers -> Runs \cup {"other", None}]
  /\ barred \in BOOLEAN
  /\ pc \in [Callers -> Steps] /\ run \in [Callers -> Runs \cup {None}]
  /\ isNew \in [Callers -> BOOLEAN]
  /\ number \in [Callers -> Numbers \cup {0}]
  /\ heard \in [Callers -> Heard \cup {None}]
  /\ answer \in [Callers -> Answers \cup {None}]
  /\ seen \in [Callers -> Numbers \cup {0}] /\ warned \in [Callers -> BOOLEAN]
  /\ faults \in 0..MaxFaults /\ made \in 0..MaxCalls /\ turns \in 0..MaxTurns

Init ==
  /\ intent = [r \in Runs |-> None] /\ handle = [r \in Runs |-> 0]
  /\ open = 0 /\ author = [n \in Numbers |-> None]
  /\ barred = FALSE
  /\ pc = [c \in Callers |-> "idle"] /\ run = [c \in Callers |-> None]
  /\ isNew = [c \in Callers |-> FALSE]
  /\ number = [c \in Callers |-> 0]
  /\ heard = [c \in Callers |-> None] /\ answer = [c \in Callers |-> None]
  /\ seen = [c \in Callers |-> 0] /\ warned = [c \in Callers |-> FALSE]
  /\ faults = 0 /\ made = 0 /\ turns = 0

----------------------------------------------------------------------------
At(c, step) == pc[c] = step

Goto(c, step) ==
  /\ pc' = [pc EXCEPT ![c] = step]
  /\ UNCHANGED <<run, isNew, number, heard, answer, seen>>

(* The call ends.  What it had in hand is gone.                            *)
Return(c, what) ==
  /\ pc' = [pc EXCEPT ![c] = "idle"]
  /\ answer' = [answer EXCEPT ![c] = what]
  /\ isNew' = [isNew EXCEPT ![c] = FALSE]
  /\ number' = [number EXCEPT ![c] = 0]
  /\ heard' = [heard EXCEPT ![c] = None]
  /\ UNCHANGED <<run, seen>>

Take(c, step, n) ==
  /\ pc' = [pc EXCEPT ![c] = step]
  /\ number' = [number EXCEPT ![c] = n]
  /\ UNCHANGED <<run, isNew, heard, answer, seen>>

Fault ==
  /\ faults < MaxFaults
  /\ faults' = faults + 1
  /\ UNCHANGED <<made, turns>>

Begin(c, r, step, n) ==
  /\ pc[c] = "idle" /\ made < MaxCalls
  /\ made' = made + 1
  /\ pc' = [pc EXCEPT ![c] = step]
  /\ run' = [run EXCEPT ![c] = r]
  /\ number' = [number EXCEPT ![c] = n]
  /\ answer' = [answer EXCEPT ![c] = None]
  /\ seen' = [seen EXCEPT ![c] = open]
  /\ warned' = [warned EXCEPT ![c] = FALSE]
  /\ UNCHANGED <<store, host, barred, isNew, heard, faults, turns>>

Ensure(c, r) == Begin(c, r, "handle", 0)

(* update() is given a handle, of whatever Run it came from.               *)
Update(c, r, n) == Begin(c, r, "own", n)

----------------------------------------------------------------------------
(* _handle: a handle is returned as it is, without asking the host.        *)
LookHandle(c) ==
  /\ At(c, "handle")
  /\ IF handle[run[c]] # 0 THEN Return(c, "handle") ELSE Goto(c, "barrier")
  /\ UNCHANGED <<store, host, barred, warned, bounds>>

LookBarrier(c) ==
  /\ At(c, "barrier")
  /\ IF barred THEN Return(c, "barred") ELSE Goto(c, "intent")
  /\ UNCHANGED <<store, host, barred, warned, bounds>>

(* Mutant: an intent that failed is taken up as if it were new.            *)
RenewIntent(c) ==
  LET r == run[c]
  IN /\ At(c, "intent")
     /\ isNew' = [isNew EXCEPT ![c] = intent[r] \in {None, "failed"}]
     /\ intent' = [intent EXCEPT ![r] = IF @ = None THEN "creating" ELSE @]
     /\ pc' = [pc EXCEPT ![c] = "discover"]
     /\ UNCHANGED <<handle, host, barred, run, number, heard, answer, history, bounds>>

(* One transaction: the intent is there already, or this call writes it.   *)
WriteIntent(c) ==
  LET r == run[c]
  IN /\ At(c, "intent")
     /\ isNew' = [isNew EXCEPT ![c] = intent[r] = None]
     /\ intent' = [intent EXCEPT ![r] = IF @ = None THEN "creating" ELSE @]
     /\ pc' = [pc EXCEPT ![c] = "discover"]
     /\ UNCHANGED <<handle, host, barred, run, number, heard, answer, history, bounds>>

(* Mutant: who did not write the intent is refused before the host is      *)
(* asked.                                                                  *)
DiscoverIfNew(c) ==
  /\ At(c, "discover")
  /\ \/ isNew[c] /\ open # 0 /\ Take(c, "keep", open)
     \/ isNew[c] /\ open = 0 /\ Goto(c, "again")
     \/ ~isNew[c] /\ Return(c, "uncertain")
  /\ warned' = [warned EXCEPT ![c] = barred]
  /\ UNCHANGED <<store, host, barred, bounds>>

(* _discover: the pull request that is open for the pair of branches,      *)
(* whoever made it.  Without one, only the call that wrote the intent may  *)
(* create it: of another call nobody knows how it ended.                   *)
Discover(c) ==
  /\ At(c, "discover")
  /\ \/ open # 0 /\ Take(c, "keep", open)
     \/ open = 0 /\ isNew[c] /\ Goto(c, "again")
     \/ open = 0 /\ ~isNew[c] /\ Return(c, "uncertain")
  /\ warned' = [warned EXCEPT ![c] = barred]
  /\ UNCHANGED <<store, host, barred, bounds>>

(* The host does not answer, or with an error: nothing is kept of it.      *)
DiscoverFails(c) ==
  /\ At(c, "discover") /\ Fault
  /\ Return(c, "failed")
  /\ UNCHANGED <<store, host, barred, warned>>

LookAgain(c) ==
  /\ At(c, "again")
  /\ IF barred THEN Return(c, "barred") ELSE Goto(c, "post")
  /\ UNCHANGED <<store, host, barred, warned, bounds>>

----------------------------------------------------------------------------
(* The host creates a pull request for the Run, or refuses a second one.   *)
Creates(r, n) ==
  /\ open = 0 /\ author[n] = None /\ \A k \in 1..(n - 1) : author[k] # None
  /\ open' = n
  /\ author' = [author EXCEPT ![n] = r]

Hears(c, what) ==
  /\ pc' = [pc EXCEPT ![c] = "settle"]
  /\ heard' = [heard EXCEPT ![c] = what]
  /\ UNCHANGED <<run, isNew, number, answer, seen>>

Post(c) ==
  /\ At(c, "post")
  /\ \/ \E n \in Numbers : Creates(run[c], n) /\ Take(c, "keep", n)
     \/ open # 0 /\ Hears(c, "error") /\ UNCHANGED host
  /\ UNCHANGED <<store, barred, warned, bounds>>

(* The answer is lost, an error, or none that confirms; the pull request   *)
(* may be there all the same.                                              *)
PostFails(c) ==
  /\ At(c, "post") /\ Fault
  /\ \E what \in Heard : Hears(c, what)
  /\ \/ UNCHANGED host
     \/ \E n \in Numbers : Creates(run[c], n)
  /\ UNCHANGED <<store, barred, warned>>

(* The intent is told, but not by an answer that does not confirm.         *)
Settle(c) ==
  /\ At(c, "settle")
  /\ intent' = [intent EXCEPT ![run[c]] = CASE heard[c] = "lost"  -> "uncertain"
                                            [] heard[c] = "error" -> "failed"
                                            [] OTHER              -> @]
  /\ Return(c, IF heard[c] = "lost" THEN "uncertain" ELSE "failed")
  /\ UNCHANGED <<handle, host, barred, warned, bounds>>

(* Mutant: the later handle replaces the one that is there.                *)
KeepLast(c) ==
  LET r == run[c]
  IN /\ At(c, "keep")
     /\ handle' = [handle EXCEPT ![r] = number[c]]
     /\ intent' = [intent EXCEPT ![r] = "checkpointed"]
     /\ Return(c, "handle")
     /\ UNCHANGED <<host, barred, warned, bounds>>

(* _checkpoint: a handle that is there already stays.                      *)
Keep(c) ==
  LET r == run[c]
  IN /\ At(c, "keep")
     /\ handle' = [handle EXCEPT ![r] = IF @ = 0 THEN number[c] ELSE @]
     /\ intent' = [intent EXCEPT ![r] = "checkpointed"]
     /\ Return(c, "handle")
     /\ UNCHANGED <<host, barred, warned, bounds>>

----------------------------------------------------------------------------
(* _update: the handle must be the one that is kept for its Run.           *)
LookOwn(c) ==
  /\ At(c, "own")
  /\ IF handle[run[c]] # number[c] THEN Return(c, "failed") ELSE Goto(c, "permit")
  /\ UNCHANGED <<store, host, barred, warned, bounds>>

LookPermit(c) ==
  /\ At(c, "permit")
  /\ IF barred THEN Return(c, "barred") ELSE Goto(c, "patch")
  /\ UNCHANGED <<store, host, barred, warned, bounds>>

Patch(c) ==
  /\ At(c, "patch")
  /\ \/ Return(c, "updated") /\ UNCHANGED faults
     \/ faults < MaxFaults /\ faults' = faults + 1 /\ Return(c, "failed")
  /\ UNCHANGED <<store, host, barred, warned, made, turns>>

(* The process dies.                                                       *)
Crash(c) ==
  /\ pc[c] # "idle" /\ Fault
  /\ Return(c, "failed")
  /\ UNCHANGED <<store, host, barred, warned>>

----------------------------------------------------------------------------
(* Others at the host, and at the barrier.                                 *)
Opened ==
  /\ \E n \in Numbers : Creates("other", n)
  /\ UNCHANGED <<store, barred, local, history, bounds>>

Closed ==
  /\ open # 0 /\ open' = 0
  /\ seen' = [c \in Callers |-> 0]
  /\ UNCHANGED <<store, author, barred, local, warned, bounds>>

Turn ==
  /\ turns < MaxTurns /\ turns' = turns + 1
  /\ barred' = ~barred
  /\ warned' = [c \in Callers |-> FALSE]
  /\ UNCHANGED <<store, host, local, seen, faults, made>>

Step(c) ==
  \/ LookHandle(c) \/ LookBarrier(c) \/ WriteIntent(c) \/ Discover(c) \/ DiscoverFails(c)
  \/ LookAgain(c) \/ Post(c) \/ PostFails(c) \/ Settle(c) \/ Keep(c)
  \/ LookOwn(c) \/ LookPermit(c) \/ Patch(c)

Next ==
  \/ \E c \in Callers :
       \/ Step(c)
       \/ Crash(c)
       \/ \E r \in Runs : Ensure(c, r)
       \/ \E r \in Runs, n \in Numbers : Update(c, r, n)
  \/ Opened \/ Closed \/ Turn

Spec == Init /\ [][Next]_vars

----------------------------------------------------------------------------
(* However calls interleave, fail and are repeated, a Run has the host     *)
(* create at most one pull request (_ensure: "refusing duplicate create"). *)
CreatedOnce ==
  \A k, n \in Numbers : (author[k] \in Runs /\ author[k] = author[n]) => k = n

(* A call is not refused for a lost or failed attempt before it while the  *)
(* pull request of that attempt is open for all of the call: discovery     *)
(* comes before the refusal.                                               *)
LostOneIsFound ==
  \A c \in Callers : answer[c] = "uncertain" => seen[c] = 0

(* Nothing is created behind a barrier that was up when the host was asked *)
(* what there is: it is looked at again, though it was open before.        *)
BarrierHolds ==
  \A c \in Callers : At(c, "post") => ~(warned[c] /\ barred)

(* The handle of a Run is for good: updates are checked against it.        *)
HandleStays ==
  [][\A r \in Runs : handle[r] # 0 => handle'[r] = handle[r]]_vars

=============================================================================
