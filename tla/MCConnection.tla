---------------------------- MODULE MCConnection -----------------------------
(***************************************************************************)
(* Small instances of Connection: one connection after the other, against  *)
(* two upstreams.  Connections share the flags and nothing else, and only  *)
(* read them, so a second one would add no behaviour to the first.         *)
(***************************************************************************)
EXTENDS Connection
=============================================================================
