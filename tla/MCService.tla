----------------------------- MODULE MCService -----------------------------
(* Instances of Service: the UI and the MCP adapter as clients, one or two *)
(* service processes.                                                      *)
EXTENDS Service

CONSTANTS ui, mcp, s1, s2, k1, pause, cancel, stop
=============================================================================
