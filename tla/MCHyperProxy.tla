---------------------------- MODULE MCHyperProxy -----------------------------
(***************************************************************************)
(* Small instances of HyperProxy: one connection with two requests in      *)
(* flight, and one upstream that fails, hangs and recovers; requests of    *)
(* different connections meet only in the flags.  Connection, with the same*)
(* picks and checkers, has two upstreams.                                  *)
(***************************************************************************)
EXTENDS HyperProxy
=============================================================================
