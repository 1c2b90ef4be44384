------------------------- MODULE VerifierLifecycle -------------------------
(***************************************************************************)
(* The revisions of one verifier (verifier/lifecycle.py and the `ge        *)
(* verifier` commands): staged with the hash of its files, carried from    *)
(* draft to dry_run by evidence, frozen for a Contract revision.  The      *)
(* files are on a disk that anyone may edit meanwhile.                     *)
(*                                                                         *)
(* The Manifest is kept in the row and cannot drift; a digest stands for   *)
(* the source, the tests and the fixtures, in directories that all         *)
(* revisions share.  Contract revisions are frozen elsewhere, and declare  *)
(* this verifier.                                                          *)
(***************************************************************************)
EXTENDS Naturals

CONSTANTS
  Clients,      (* processes of the CLI                                    *)
  Digests,      (* contents of the files                                   *)
  MaxRevision,  (* bound: revisions of the verifier                        *)
  MaxContract,  (* bound: revisions of the Contract                        *)
  MaxEdits,     (* bound: edits of the files                               *)
  None

Revisions == 1..MaxRevision
Contracts == 1..MaxContract
Lifecycles == {"draft", "validated", "tested", "dry_run", "frozen"}

ASSUME LifecycleAssumption ==
  /\ MaxRevision \in Nat \ {0} /\ MaxContract \in Nat \ {0} /\ MaxEdits \in Nat
  /\ Digests # {} /\ None \notin Digests /\ None \notin Lifecycles

VARIABLES
  disk,       (* what is in the files                                      *)
  lifecycle,  (* verifier_revisions: the lifecycle of each, or None        *)
  digest,     (* ... and the hashes it was staged with                     *)
  binding,    (* contract_verifier_bindings: a verifier revision, 0 before *)
  contracts,  (* contract_revisions: how many                              *)
  command,    (* the step of each `ge verifier validate`                   *)
  revision,   (* ... its revision                                          *)
  hashed,     (* ... and the hashes it computed                            *)
  edits

rows == <<lifecycle, digest, binding>>
commands == <<command, revision, hashed>>
lifecycleVars == <<disk, rows, contracts, commands, edits>>

LifecycleTypeOK ==
  /\ disk \in Digests
  /\ lifecycle \in [Revisions -> Lifecycles \cup {None}]
  /\ digest \in [Revisions -> Digests \cup {None}]
  /\ binding \in [Contracts -> Revisions \cup {0}]
  /\ contracts \in Contracts
  /\ command \in [Clients -> {"idle", "stage", "validate"}]
  /\ revision \in [Clients -> Revisions]
  /\ hashed \in [Clients -> Digests \cup {None}]
  /\ edits \in 0..MaxEdits

LifecycleInit ==
  /\ disk \in Digests
  /\ lifecycle = [v \in Revisions |-> None] /\ digest = [v \in Revisions |-> None]
  /\ binding = [k \in Contracts |-> 0]
  /\ contracts = 1
  /\ command = [c \in Clients |-> "idle"] /\ revision = [c \in Clients |-> 1]
  /\ hashed = [c \in Clients |-> None]
  /\ edits = 0

----------------------------------------------------------------------------
Ends(c) ==
  /\ command' = [command EXCEPT ![c] = "idle"]
  /\ revision' = [revision EXCEPT ![c] = 1]
  /\ hashed' = [hashed EXCEPT ![c] = None]

(* stage() hashes the files before its transaction begins.                 *)
Hash(c, v) ==
  /\ command[c] = "idle"
  /\ command' = [command EXCEPT ![c] = "stage"]
  /\ revision' = [revision EXCEPT ![c] = v]
  /\ hashed' = [hashed EXCEPT ![c] = disk]
  /\ UNCHANGED <<disk, rows, contracts, edits>>

(* Revisions are immutable, and follow each other.                         *)
Appends(v) ==
  /\ lifecycle[v] = None
  /\ \A w \in Revisions : w > v => lifecycle[w] = None
  /\ (\E w \in Revisions : lifecycle[w] # None) => (v > 1 /\ lifecycle[v - 1] # None)

Stage(c) ==
  LET v == revision[c]
  IN /\ command[c] = "stage"
     /\ IF Appends(v)
          THEN /\ lifecycle' = [lifecycle EXCEPT ![v] = "draft"]
               /\ digest' = [digest EXCEPT ![v] = hashed[c]]
               /\ command' = [command EXCEPT ![c] = "validate"]
               /\ UNCHANGED <<revision, hashed>>
          ELSE Ends(c) /\ UNCHANGED <<lifecycle, digest>>
     /\ UNCHANGED <<disk, binding, contracts, edits>>

(* record(): each piece of evidence takes the revision one step further.   *)
Advances(v, to) ==
  \/ lifecycle[v] = "draft" /\ to = "validated"
  \/ lifecycle[v] = "validated" /\ to = "tested"
  \/ lifecycle[v] = "tested" /\ to = "dry_run"

Validate(c) ==
  LET v == revision[c]
  IN /\ command[c] = "validate"
     /\ lifecycle' = IF Advances(v, "validated")
                       THEN [lifecycle EXCEPT ![v] = "validated"] ELSE lifecycle
     /\ Ends(c)
     /\ UNCHANGED <<disk, digest, binding, contracts, edits>>

(* `ge verifier test` and `ge verifier dry-run`, with evidence that passed.*)
Record(v, to) ==
  /\ to \in {"tested", "dry_run"} /\ Advances(v, to)
  /\ lifecycle' = [lifecycle EXCEPT ![v] = to]
  /\ UNCHANGED <<disk, digest, binding, contracts, commands, edits>>

BoundRevisions == {binding[k] : k \in Contracts} \ {0}
BoundContracts == {k \in Contracts : binding[k] # 0}

(* Mutant: a frozen revision may be frozen for another Contract revision.  *)
FreezableAgain(v, k) ==
  /\ lifecycle[v] \in {"dry_run", "frozen"}
  /\ k <= contracts /\ binding[k] = 0
  /\ (BoundRevisions # {} /\ \A w \in BoundRevisions : v > w) =>
       \A j \in BoundContracts : k > j

(* freeze(): all evidence is there, the Contract revision is frozen and    *)
(* binds no revision of this verifier, and a verifier revision later than  *)
(* the bound ones needs a later Contract revision.                         *)
Freezable(v, k) ==
  /\ lifecycle[v] = "dry_run"
  /\ k <= contracts /\ binding[k] = 0
  /\ (BoundRevisions # {} /\ \A w \in BoundRevisions : v > w) =>
       \A j \in BoundContracts : k > j

Freeze(v, k) ==
  /\ Freezable(v, k)
  /\ lifecycle' = [lifecycle EXCEPT ![v] = "frozen"]
  /\ binding' = [binding EXCEPT ![k] = v]
  /\ UNCHANGED <<disk, digest, contracts, commands, edits>>

(* A `ge verifier validate` dies between two transactions.                 *)
Die(c) ==
  /\ command[c] # "idle"
  /\ Ends(c)
  /\ UNCHANGED <<disk, rows, contracts, edits>>

NewContract ==
  /\ contracts < MaxContract
  /\ contracts' = contracts + 1
  /\ UNCHANGED <<disk, rows, commands, edits>>

Edit(d) ==
  /\ d # disk /\ edits < MaxEdits
  /\ disk' = d /\ edits' = edits + 1
  /\ UNCHANGED <<rows, contracts, commands>>

(* Everything but edits, which verifications see.                          *)
LifecycleNext ==
  \/ \E c \in Clients : \/ Stage(c) \/ Validate(c) \/ Die(c)
                        \/ \E v \in Revisions : Hash(c, v)
  \/ \E v \in Revisions : \/ \E to \in Lifecycles : Record(v, to)
                          \/ \E k \in Contracts : Freeze(v, k)
  \/ NewContract

(* Mutant: the hashes are all that is looked at.                           *)
SameHashes(v) == digest[v] = disk

(* verify_frozen: the revision is frozen, and its files are as they were.  *)
VerifyFrozen(v) == lifecycle[v] = "frozen" /\ digest[v] = disk

----------------------------------------------------------------------------
(* A revision of the verifier is frozen for exactly one revision of the    *)
(* Contract (freeze): what a Contract accepts is not shared or replaced.   *)
FrozenForOne ==
  \A v \in Revisions :
    IF lifecycle[v] = "frozen"
      THEN \E k \in Contracts : \A j \in Contracts : binding[j] = v <=> j = k
      ELSE \A j \in Contracts : binding[j] # v

(* What was staged stays: no edit and no second command changes the hashes *)
(* of a revision, and its lifecycle never goes back (stage, record).       *)
Rank(s) == CASE s = "draft"  -> 1 [] s = "validated" -> 2 [] s = "tested" -> 3
             [] s = "dry_run" -> 4 [] s = "frozen"   -> 5 [] OTHER        -> 0

StagedIsImmutable ==
  [][\A v \in Revisions :
       /\ lifecycle[v] # None => digest'[v] = digest[v]
       /\ Rank(lifecycle'[v]) >= Rank(lifecycle[v])]_lifecycleVars

=============================================================================
