------------------------------ MODULE MCGuide ------------------------------
(***************************************************************************)
(* Every demonstration and every hand-written future of the async guide.   *)
(***************************************************************************)
EXTENDS Guide
=============================================================================
