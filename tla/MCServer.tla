------------------------------ MODULE MCServer -------------------------------
(***************************************************************************)
(* Small instances of Server: four connections in all.                     *)
(***************************************************************************)
EXTENDS Server
=============================================================================
