----------------------------- MODULE MCMCPClient -----------------------------
(* Small instances of MCPClient for TLC. *)
EXTENDS MCPClient
=============================================================================
