----------------------------- MODULE MCBalancer -----------------------------
(***************************************************************************)
(* Small instances of Balancer: two calls at once, three upstreams, and a  *)
(* counter of two bits, so that it wraps and half the tickets overflow.    *)
(***************************************************************************)
EXTENDS Balancer
=============================================================================
