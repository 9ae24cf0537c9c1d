--------------------------- MODULE MCLoadBalancer ----------------------------
(***************************************************************************)
(* Small instances of LoadBalancer.  Connection k1 sends every head of one *)
(* field, over all names and both spellings, every head of two of which the*)
(* first is a cookie, and one of three fields (one too many); k2 sends a   *)
(* plain request.  With two upstreams and a counter of three values the    *)
(* rotation is uneven where it wraps, and it wraps.                        *)
(***************************************************************************)
EXTENDS LoadBalancer

CONSTANTS k1, k2, v1, v2

NoFields == [n \in Names |-> <<>>]
With(head, n, f) == [head EXCEPT ![n] = Append(@, f)]

OneField == {With(NoFields, n, Field(v1, b)) : n \in Names, b \in BOOLEAN}
Cookie == With(NoFields, "cookie", Field(v1, TRUE))
TwoFields == {With(Cookie, n, Field(v2, b)) : n \in Names, b \in BOOLEAN}
ThreeFields == {With(With(Cookie, "cookie", Field(v2, FALSE)), "cookie", Field(v1, TRUE))}

MCRequests ==
  [c \in Conns |->
    IF c = k1
    THEN {[target |-> "absolute", head |-> h] :
            h \in {NoFields} \cup OneField \cup TwoFields \cup ThreeFields}
    ELSE {NoRequest}]
=============================================================================
