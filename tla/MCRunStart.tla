----------------------------- MODULE MCRunStart -----------------------------
(***************************************************************************)
(* Instances of RunStart for TLC: the CLI and the service start one or two *)
(* Runs with the same key or keys of their own.                            *)
(***************************************************************************)
EXTENDS RunStart

CONSTANTS r1, r2, k1, k2, cli, service, mcp
=============================================================================
