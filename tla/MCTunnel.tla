------------------------------ MODULE MCTunnel -------------------------------
(***************************************************************************)
(* Small instances of Tunnel: more bytes than the buffer holds, so that a  *)
(* copy takes several rounds; a transfer timeout of two ticks, and one of  *)
(* none, which Config::validate lets pass.                                 *)
(***************************************************************************)
EXTENDS Tunnel
=============================================================================
