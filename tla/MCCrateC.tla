------------------------------ MODULE MCCrateC ------------------------------
(***************************************************************************)
(* Small instances of CrateC: one connection after the other in one slot,  *)
(* two upstreams that work or refuse, a counter of one bit that wraps.     *)
(***************************************************************************)
EXTENDS CrateC
=============================================================================
