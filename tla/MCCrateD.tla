------------------------------ MODULE MCCrateD ------------------------------
(***************************************************************************)
(* Small instances of CrateD: one connection with two requests in flight,  *)
(* which scan at the same time, and one upstream that works or refuses.    *)
(***************************************************************************)
EXTENDS CrateD
=============================================================================
