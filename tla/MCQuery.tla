------------------------------ MODULE MCQuery ------------------------------
(* Small instances of Query for TLC. *)
EXTENDS Query
=============================================================================
