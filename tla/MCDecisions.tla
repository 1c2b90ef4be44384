---------------------------- MODULE MCDecisions ----------------------------
(* Decisions for TLC: a process of the CLI beside the service.             *)
EXTENDS Decisions
=============================================================================
