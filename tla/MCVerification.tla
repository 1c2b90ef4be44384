--------------------------- MODULE MCVerification ---------------------------
(* Verification for TLC: two revisions of a verifier, and one verification. *)
EXTENDS Verification
=============================================================================
