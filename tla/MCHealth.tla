------------------------------ MODULE MCHealth -------------------------------
(***************************************************************************)
(* Small instances of Health: two upstreams, an interval longer than the   *)
(* probe timeout, and `since` counted to just past the bound.  Of the two  *)
(* answers a checker takes for a failure, "split" stands for "error" too.  *)
(***************************************************************************)
EXTENDS Health
=============================================================================
