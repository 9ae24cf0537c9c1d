------------------------------ MODULE Rewrite -------------------------------
(***************************************************************************)
(* build_forwarded_request of crates B, C and D: what becomes of a request *)
(* head on its way to an upstream.                                         *)
(*                                                                         *)
(* A head maps each field name to the fields of that name, in their order; *)
(* the order of fields of different names means nothing.  A field is its   *)
(* value and whether its name was spelled in lower case.  The proxy's own  *)
(* values are "ours"; a Host field carries the upstream it names.          *)
(***************************************************************************)
EXTENDS Integers, Sequences, FiniteSets

CONSTANTS Values,       \* what clients put into fields
          MaxHeaders    \* bound: MAX_HEADERS is 64 in the code

ASSUME MaxHeadersAssumption == MaxHeaders \in Nat

(* The fields that some copy of the code strips, and two that none does. *)
Names == {"host", "connection", "keep-alive", "proxy-connection", "te",
          "trailers", "transfer-encoding", "upgrade", "x-forwarded-for",
          "x-forwarded-proto", "x-request-id", "via", "trailer", "cookie"}

Field(value, lower) == [value |-> value, lower |-> lower]
Fields == [value : Values, lower : BOOLEAN]
HeadFields == [Names -> Seq(Fields)]
Targets == {"origin", "absolute"}
Request == [target : Targets, head : HeadFields]

(* A field of a head is its name and its place among those of that name. *)
Places(head) == UNION {{n} \X DOMAIN head[n] : n \in Names}

Count(head) == Cardinality(Places(head))

-----------------------------------------------------------------------------
(* Crates B and C copy the fields that are not stripped and append theirs, *)
(* with names in mixed case.                                               *)

StripB == {"host", "connection", "x-forwarded-for", "x-request-id", "via"}

StripC == StripB \cup {"x-forwarded-proto"}

(* Mutant: names are compared with their case. *)
KeptCaseSensitive(fields, name, strip) ==
  IF name \in strip THEN SelectSeq(fields, LAMBDA f : ~f.lower) ELSE fields

(* `eq_ignore_ascii_case` with any of the list. *)
Kept(fields, name, strip) == IF name \in strip THEN <<>> ELSE fields

Injected(name, upstream) ==
  IF name = "host" THEN <<Field(upstream, FALSE)>> ELSE <<Field("ours", FALSE)>>

ForwardB(req, upstream) ==
  [target |-> req.target,
   head |-> [n \in Names |->
     Kept(req.head[n], n, StripB) \o
     (IF n \in StripB THEN Injected(n, upstream) ELSE <<>>)]]

ForwardC(req, upstream) ==
  [target |-> req.target,
   head |-> [n \in Names |->
     Kept(req.head[n], n, StripC) \o
     (IF n \in StripC THEN Injected(n, upstream) ELSE <<>>)]]

(* `req.parse`: the array of headers is full. *)
TooManyHeaders(req) == Count(req.head) > MaxHeaders

-----------------------------------------------------------------------------
(* Crate D works on hyper's HeaderMap, whose names are lower case: remove  *)
(* takes all fields of a name, insert replaces them.                       *)

StripD == StripC \cup {"keep-alive", "proxy-connection", "te", "trailers",
                       "transfer-encoding", "upgrade"}

InjectedNamesD == {"host", "x-forwarded-for", "x-forwarded-proto", "x-request-id", "via"}

Lowered(fields) == [i \in DOMAIN fields |-> Field(fields[i].value, TRUE)]

InsertD(name, upstream) ==
  IF name = "host" THEN <<Field(upstream, TRUE)>> ELSE <<Field("ours", TRUE)>>

(* Mutant: of the fields with one name, only the last is kept. *)
ForwardDLastOnly(req, upstream) ==
  [target |-> "origin",
   head |-> [n \in Names |->
     IF n \in InjectedNamesD THEN InsertD(n, upstream)
     ELSE IF n \in StripD \/ req.head[n] = <<>> THEN <<>>
     ELSE <<Lowered(req.head[n])[Len(req.head[n])]>>]]

ForwardD(req, upstream) ==
  [target |-> "origin",      \* path_and_query, or "/"
   head |-> [n \in Names |->
     IF n \in InjectedNamesD THEN InsertD(n, upstream)
     ELSE IF n \in StripD THEN <<>> ELSE Lowered(req.head[n])]]

-----------------------------------------------------------------------------
(* The three of them, for what is claimed of all. *)
Crates == {"B", "C", "D"}

Strip(k) == CASE k = "B" -> StripB [] k = "C" -> StripC [] k = "D" -> StripD

Added(k) == IF k = "D" THEN InjectedNamesD ELSE Strip(k)

Forward(k, req, upstream) ==
  CASE k = "B" -> ForwardB(req, upstream)
    [] k = "C" -> ForwardC(req, upstream)
    [] k = "D" -> ForwardD(req, upstream)

ValuesOf(fields) == [i \in DOMAIN fields |-> fields[i].value]

(***************************************************************************)
(* "Any client-supplied versions of these headers are stripped": whatever  *)
(* the client sent, however often and however spelled, the upstream finds  *)
(* each field the proxy speaks for exactly once, with the proxy's value,   *)
(* and Host names the upstream that the request goes to.                   *)
(***************************************************************************)
OursAlone(k, req, u) ==
  \A n \in Strip(k) :
    ValuesOf(Forward(k, req, u).head[n]) =
      IF n \notin Added(k) THEN <<>> ELSE IF n = "host" THEN <<u>> ELSE <<"ours">>

(* Crate D means to "strip hop-by-hop" fields and lists "trailers"; the    *)
(* field is called Trailer and goes on, for which nothing is claimed.      *)
EndToEnd(k) == Names \ (Strip(k) \cup (IF k = "D" THEN {"trailer"} ELSE {}))

(***************************************************************************)
(* All other fields arrive with the values the client gave them, as often  *)
(* and in the order it sent them.                                          *)
(***************************************************************************)
RestUntouched(k, req, u) ==
  \A n \in EndToEnd(k) :
    ValuesOf(Forward(k, req, u).head[n]) = ValuesOf(req.head[n])

=============================================================================
