-------------------------- MODULE MCRequestStream --------------------------
(***************************************************************************)
(* RequestStream on every stream over three bytes up to MaxLen: heads that *)
(* end before, at and after the capacity, several ends, and bodies.        *)
(***************************************************************************)
EXTENDS RequestStream

CONSTANT MaxLen

AllStreams == UNION {[1 .. n -> Byte] : n \in 0 .. MaxLen}

(* A head, then a body of up to MaxLen - 5 bytes: for the liveness run. *)
OneRequest == {<<"x", CR, LF, CR, LF>> \o [k \in 1 .. n |-> "x"] : n \in 0 .. MaxLen - 5}
              \cup {[k \in 1 .. n |-> "x"] : n \in 0 .. MaxLen}
=============================================================================
