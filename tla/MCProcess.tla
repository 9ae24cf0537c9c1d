------------------------------ MODULE MCProcess ------------------------------
(***************************************************************************)
(* Small instances of Process: every configuration file of up to two       *)
(* upstreams, for each crate, and three connections.                       *)
(***************************************************************************)
EXTENDS Process
=============================================================================
