------------------------- MODULE LoadBalancerProofs -------------------------
(***************************************************************************)
(* Proofs about crate B: LoadBalancer, for any number of connections and   *)
(* upstreams, any width of the counter and any requests, and RequestStream.*)
(***************************************************************************)
EXTENDS LoadBalancer, RequestStream, SequenceTheorems, FiniteSetTheorems, TLAPS

-----------------------------------------------------------------------------
(* The rewritten head.                                                     *)

LEMMA HeadsAreSequences ==
  ASSUME NEW req \in Request, NEW n \in Names
  PROVE  req.head[n] \in Seq(Fields)
  BY DEF Request, HeadFields

LEMMA RewrittenBC ==
  ASSUME NEW req \in Request, NEW u, NEW n \in Names
  PROVE  /\ ForwardB(req, u).head[n] = IF n \in StripB THEN Injected(n, u) ELSE req.head[n]
         /\ ForwardC(req, u).head[n] = IF n \in StripC THEN Injected(n, u) ELSE req.head[n]
<1>1. req.head[n] \o <<>> = req.head[n]
  BY HeadsAreSequences, ConcatEmptySeq
<1>2. <<>> \o Injected(n, u) = Injected(n, u)
  <2>1. ASSUME NEW f PROVE <<>> \o <<f>> = <<f>>
    <3>1. <<f>> \in Seq({f})
      OBVIOUS
    <3> QED  BY <3>1, ConcatEmptySeq
  <2> QED  BY <2>1 DEF Injected
<1> QED  BY <1>1, <1>2 DEF ForwardB, ForwardC, Kept

LEMMA LoweredKeepsValues ==
  ASSUME NEW s \in Seq(Fields)
  PROVE  ValuesOf(Lowered(s)) = ValuesOf(s)
  BY DEF ValuesOf, Lowered, Field

LEMMA RestStays ==
  ASSUME NEW k \in Crates, NEW req \in Request, NEW u
  PROVE  RestUntouched(k, req, u)
<1> SUFFICES ASSUME NEW n \in Names \ Strip(k)
    PROVE  ValuesOf(Forward(k, req, u).head[n]) = ValuesOf(req.head[n])
  BY DEF RestUntouched, EndToEnd
<1>1. CASE k = "B"
  BY <1>1, RewrittenBC DEF Forward, Strip
<1>2. CASE k = "C"
  BY <1>2, RewrittenBC DEF Forward, Strip
<1>3. CASE k = "D"
  <2>1. n \notin StripD /\ n \notin InjectedNamesD
    BY <1>3 DEF Strip, StripD, StripC, StripB, InjectedNamesD
  <2>2. Forward(k, req, u).head[n] = Lowered(req.head[n])
    BY <1>3, <2>1 DEF Forward, ForwardD
  <2> QED  BY <2>2, HeadsAreSequences, LoweredKeepsValues
<1> QED  BY <1>1, <1>2, <1>3 DEF Crates

LEMMA OursStandAlone ==
  ASSUME NEW k \in Crates, NEW req \in Request, NEW u
  PROVE  OursAlone(k, req, u)
<1>1. /\ ValuesOf(<<Field(u, FALSE)>>) = <<u>> /\ ValuesOf(<<Field(u, TRUE)>>) = <<u>>
      /\ ValuesOf(<<Field("ours", FALSE)>>) = <<"ours">>
      /\ ValuesOf(<<Field("ours", TRUE)>>) = <<"ours">>
      /\ ValuesOf(<<>>) = <<>>
  BY DEF ValuesOf, Field
<1> SUFFICES ASSUME NEW n \in Strip(k)
    PROVE  ValuesOf(Forward(k, req, u).head[n]) =
             IF n \notin Added(k) THEN <<>> ELSE IF n = "host" THEN <<u>> ELSE <<"ours">>
  BY DEF OursAlone
<1>2. n \in Names
  BY DEF Strip, StripB, StripC, StripD, Names, Crates
<1>3. CASE k \in {"B", "C"}
  <2>1. Forward(k, req, u).head[n] = Injected(n, u) /\ n \in Added(k)
    BY <1>2, <1>3, RewrittenBC DEF Forward, Strip, Added
  <2> QED  BY <1>1, <2>1 DEF Injected
<1>4. CASE k = "D"
  <2>1. Forward(k, req, u).head[n] = IF n \in Added(k) THEN InsertD(n, u) ELSE <<>>
    BY <1>2, <1>4 DEF Forward, ForwardD, Strip, Added
  <2> QED  BY <1>1, <2>1 DEF InsertD
<1> QED  BY <1>3, <1>4 DEF Crates

LEMMA NamesAreFinite == IsFiniteSet(Names) /\ IsFiniteSet(StripB)
<1> DEFINE Listed == <<"host", "connection", "keep-alive", "proxy-connection", "te",
                       "trailers", "transfer-encoding", "upgrade", "x-forwarded-for",
                       "x-forwarded-proto", "x-request-id", "via", "trailer", "cookie">>
<1>1. DOMAIN Listed = 1..14
  OBVIOUS
<1>2. \A i \in 1..14 : Listed[i] \in Names
  BY DEF Names
<1>3. \A n \in Names : \E i \in 1..14 : Listed[i] = n
  BY DEF Names
<1>4. [i \in 1..14 |-> Listed[i]] \in Surjection(1..14, Names)
  BY <1>2, <1>3 DEF Surjection
<1>5. IsFiniteSet(Names)
  <2>1. IsFiniteSet(1..14)
    <3>1. 1 \in Int /\ 14 \in Int
      OBVIOUS
    <3> QED  BY <3>1, FS_Interval
  <2> HIDE DEF Listed
  <2> QED  BY <1>4, <2>1, FS_Surjection
<1>6. StripB \subseteq Names
  BY DEF StripB, Names
<1> QED  BY <1>5, <1>6, FS_Subset

LEMMA PlacesAreFinite ==
  ASSUME NEW req \in Request
  PROVE  IsFiniteSet(Places(req.head))
<1> DEFINE At == [n \in Names |-> {n} \X DOMAIN req.head[n]]
           All == {{n} \X DOMAIN req.head[n] : n \in Names}
<1>1. IsFiniteSet(Names)
  BY NamesAreFinite
<1>2. At \in Surjection(Names, All)
  BY DEF Surjection
<1>3. IsFiniteSet(All)
  BY <1>1, <1>2, FS_Surjection
<1>4. ASSUME NEW n \in Names PROVE IsFiniteSet({n} \X DOMAIN req.head[n])
  <2>1. DOMAIN req.head[n] = 1..Len(req.head[n]) /\ Len(req.head[n]) \in Nat
    BY HeadsAreSequences
  <2>2. IsFiniteSet(DOMAIN req.head[n])
    BY <2>1, FS_Interval
  <2> QED  BY <2>2, FS_Singleton, FS_Product
<1>5. \A T \in All : IsFiniteSet(T)
  BY <1>4
<1>6. IsFiniteSet(UNION All)
  BY <1>3, <1>5, FS_UNION
<1> QED  BY <1>6 DEF Places

(* What crate B adds is one field for each name that it strips. *)
LEMMA FewAreAdded ==
  ASSUME NEW req \in Request, NEW u
  PROVE  /\ Count(ForwardB(req, u).head) \in Nat
         /\ Count(ForwardB(req, u).head) <= Count(req.head) + Cardinality(StripB)
<1> DEFINE Ours == StripB \X {1}
<1>1. IsFiniteSet(StripB)
  BY NamesAreFinite
<1>2. IsFiniteSet(Ours) /\ Cardinality(Ours) = Cardinality(StripB)
  <2>1. IsFiniteSet({1}) /\ Cardinality({1}) = 1
    BY FS_Singleton
  <2>2. Cardinality(StripB) \in Nat
    BY <1>1, FS_CardinalityType
  <2>3. IsFiniteSet(Ours) /\ Cardinality(Ours) = Cardinality(StripB) * 1
    BY <1>1, <2>1, FS_Product
  <2> QED  BY <2>2, <2>3
<1>3. Places(ForwardB(req, u).head) \subseteq Places(req.head) \cup Ours
  <2>1. ASSUME NEW n \in Names
        PROVE  {n} \X DOMAIN ForwardB(req, u).head[n] \subseteq Places(req.head) \cup Ours
    <3>1. CASE n \in StripB
      <4>1. DOMAIN Injected(n, u) = {1}
        BY DEF Injected
      <4> QED  BY <3>1, <4>1, RewrittenBC
    <3>2. CASE n \notin StripB
      <4>1. ForwardB(req, u).head[n] = req.head[n]
        BY <3>2, RewrittenBC
      <4> QED  BY <4>1 DEF Places
    <3> QED  BY <3>1, <3>2
  <2> QED  BY <2>1 DEF Places
<1>4. /\ IsFiniteSet(Places(req.head) \cup Ours)
      /\ Cardinality(Places(req.head) \cup Ours) <=
           Cardinality(Places(req.head)) + Cardinality(Ours)
  <2>1. IsFiniteSet(Places(req.head))
    BY PlacesAreFinite
  <2>2. IsFiniteSet(Places(req.head) \cap Ours)
    BY <2>1, FS_Intersection
  <2>3. /\ Cardinality(Places(req.head)) \in Nat /\ Cardinality(Ours) \in Nat
        /\ Cardinality(Places(req.head) \cap Ours) \in Nat
    BY <1>2, <2>1, <2>2, FS_CardinalityType
  <2>4. /\ IsFiniteSet(Places(req.head) \cup Ours)
        /\ Cardinality(Places(req.head) \cup Ours) =
             Cardinality(Places(req.head)) + Cardinality(Ours)
               - Cardinality(Places(req.head) \cap Ours)
    BY <1>2, <2>1, FS_Union
  <2> QED  BY <2>3, <2>4
<1>5. Cardinality(Places(ForwardB(req, u).head)) <= Cardinality(Places(req.head) \cup Ours)
  BY <1>3, <1>4, FS_Subset
<1>6. /\ Cardinality(Places(ForwardB(req, u).head)) \in Nat
      /\ Cardinality(Places(req.head) \cup Ours) \in Nat
      /\ Cardinality(Places(req.head)) \in Nat /\ Cardinality(StripB) \in Nat
  BY <1>1, <1>3, <1>4, PlacesAreFinite, FS_Subset, FS_CardinalityType
<1> HIDE DEF Ours
<1> QED  BY <1>2, <1>4, <1>5, <1>6 DEF Count

-----------------------------------------------------------------------------
(* The rotation.                                                           *)

LEMMA DivisionIsUnique ==
  ASSUME NEW M \in Nat \ {0}, NEW q \in Nat, NEW p \in Nat,
         NEW r \in 0..(M - 1), NEW s \in 0..(M - 1),
         (M * q) + r = (M * p) + s
  PROVE  q = p /\ r = s
<1>1. M * (q - p) = s - r
  OBVIOUS
<1>2. q - p < 1
  <2> SUFFICES ASSUME q - p >= 1 PROVE FALSE
    OBVIOUS
  <2>1. M * (q - p) >= M
    OBVIOUS
  <2> QED  BY <1>1, <2>1
<1>3. p - q < 1
  <2> SUFFICES ASSUME p - q >= 1 PROVE FALSE
    OBVIOUS
  <2>1. M * (p - q) >= M
    OBVIOUS
  <2>2. M * (p - q) = r - s
    BY <1>1
  <2> QED  BY <2>1, <2>2
<1> QED  BY <1>2, <1>3

LEMMA Remainder ==
  ASSUME NEW M \in Nat \ {0}, NEW q \in Nat, NEW r \in 0..(M - 1)
  PROVE  ((M * q) + r) % M = r
<1> DEFINE x == (M * q) + r
<1>1. x \in Nat
  OBVIOUS
<1>2. x = (M * (x \div M)) + (x % M) /\ (x % M) \in 0..(M - 1) /\ (x \div M) \in Nat
  BY <1>1
<1> HIDE DEF x
<1>3. (M * q) + r = (M * (x \div M)) + (x % M)
  BY <1>2 DEF x
<1>4. r = x % M
  BY <1>2, <1>3, DivisionIsUnique
<1> QED  BY <1>4 DEF x

(* The ticket after c takes the next turn, or the first one. *)
LEMMA NextTurn ==
  ASSUME NEW M \in Nat \ {0}, NEW c \in Nat
  PROVE  (c + 1) % M = IF (c % M) + 1 = M THEN 0 ELSE (c % M) + 1
<1>1. c = (M * (c \div M)) + (c % M) /\ (c % M) \in 0..(M - 1) /\ (c \div M) \in Nat
  OBVIOUS
<1>2. CASE (c % M) + 1 = M
  <2>1. c + 1 = (M * ((c \div M) + 1)) + 0
    BY <1>1, <1>2
  <2>2. ((M * ((c \div M) + 1)) + 0) % M = 0
    BY <1>1, Remainder
  <2> QED  BY <1>2, <2>1, <2>2
<1>3. CASE (c % M) + 1 # M
  <2>1. c + 1 = (M * (c \div M)) + ((c % M) + 1) /\ (c % M) + 1 \in 0..(M - 1)
    BY <1>1, <1>3
  <2>2. ((M * (c \div M)) + ((c % M) + 1)) % M = (c % M) + 1
    BY <1>1, <2>1, Remainder
  <2> QED  BY <1>3, <2>1, <2>2
<1> QED  BY <1>2, <1>3

LEMMA Small ==
  ASSUME NEW M \in Nat \ {0}, NEW c \in 0..(M - 1)
  PROVE  c % M = c
<1>1. ((M * 0) + c) % M = c
  BY Remainder
<1>2. (M * 0) + c = c
  OBVIOUS
<1> QED  BY <1>1, <1>2

-----------------------------------------------------------------------------
(* The evenness of the picks.                                              *)

(* Has u had its turn in the current round? *)
Turn(u) == IF u < counter % N THEN 1 ELSE 0

(* In the rounds that are over all have been picked equally often. *)
Settled(u) == (picks[u] - Extra(u)) - Turn(u)
Even == \A u, v \in Upstreams : Settled(u) = Settled(v)

(* What an open connection has received and forwarded. *)
Unanswered ==
  \A c \in Conns :
    /\ phase[c] \notin {"closed", "piping"} => resp[c] = "none" /\ ~forwarded[c]
    /\ phase[c] = "piping" => resp[c] \in {"none", "answer"}

(* A request whose head was read is one that its client sends; one that    *)
(* was parsed is such a request, of MAX_HEADERS fields at most, rewritten. *)
RequestsAreTheirs ==
  /\ request = [c \in Conns |-> request[c]]
  /\ \A c \in Conns :
       /\ phase[c] \in {"picking", "parsing"} => request[c] \in Requests[c]
       /\ phase[c] \in {"connecting", "sending"} =>
            \E r \in Requests[c] :
              ~TooManyHeaders(r) /\ request[c] = ForwardB(r, chosen[c])

IInv == TypeOK /\ Even /\ Unanswered /\ ErrorsAreRetrySafe /\ RequestsAreTheirs

LEMMA InitIInv == Init => IInv
<1> SUFFICES ASSUME Init PROVE IInv
  OBVIOUS
<1> USE BalancerAssumption DEF Init, Upstreams
<1>1. TypeOK
  BY DEF TypeOK
<1>2. Even
  <2>1. 0 % N = 0
    BY Small
  <2>2. \A u \in Upstreams : Turn(u) = 0 /\ Extra(u) = 0 /\ picks[u] = 0
    BY <2>1 DEF Turn, Extra
  <2> QED  BY <2>2 DEF Even, Settled
<1>3. Unanswered /\ ErrorsAreRetrySafe /\ RequestsAreTheirs
  BY DEF Unanswered, ErrorsAreRetrySafe, RequestsAreTheirs, ProxyErrors
<1> QED  BY <1>1, <1>2, <1>3 DEF IInv

LEMMA SameBalancer ==
  ASSUME Even, UNCHANGED balancer
  PROVE  Even'
  BY DEF Even, Settled, Turn, Extra, balancer

LEMMA PickKeepsEven ==
  ASSUME TypeOK, Even, NEW c \in Conns, Pick(c)
  PROVE  Even'
<1> USE BalancerAssumption DEF Upstreams
<1>1. counter \in Nat /\ counter \in 0..(Width - 1) /\ wraps \in Nat
  BY DEF TypeOK
<1>2. PICK k \in Upstreams : k = counter % N
  BY <1>1
<1>3. \A u \in Upstreams :
        picks[u] \in Nat /\ picks'[u] = IF u = k THEN picks[u] + 1 ELSE picks[u]
  BY <1>2 DEF Pick, NextIndex, TypeOK
<1>4. \A u \in Upstreams : Turn(u) = IF u < k THEN 1 ELSE 0
  BY <1>2 DEF Turn
<1>5. CASE counter + 1 # Width
  <2>1. counter' = counter + 1 /\ wraps' = wraps
    <3>1. (counter + 1) % Width = counter + 1
      BY <1>1, <1>5, Small
    <3> QED  BY <1>1, <3>1 DEF Pick
  <2>2. counter' % N = IF k + 1 = N THEN 0 ELSE k + 1
    BY <1>1, <1>2, <2>1, NextTurn
  <2>3. \A u \in Upstreams : Extra(u)' = Extra(u) /\ Extra(u) \in Nat
    BY <1>1, <2>1 DEF Extra
  <2>4. CASE k + 1 = N
    <3>1. \A u \in Upstreams : Turn(u)' = 0 /\ (u = k \/ u < k)
      BY <2>2, <2>4 DEF Turn
    <3>2. \A u \in Upstreams : Settled(u)' = Settled(u) + 1
      BY <1>3, <1>4, <2>3, <3>1 DEF Settled
    <3> QED  BY <3>2 DEF Even
  <2>5. CASE k + 1 # N
    <3>1. \A u \in Upstreams : Turn(u)' = IF u = k THEN 1 ELSE Turn(u)
      BY <1>4, <2>2, <2>5 DEF Turn
    <3>2. \A u \in Upstreams : Settled(u)' = Settled(u)
      BY <1>3, <1>4, <2>3, <3>1 DEF Settled
    <3> QED  BY <3>2 DEF Even
  <2> QED  BY <2>4, <2>5
<1>6. CASE counter + 1 = Width
  <2>1. counter' = 0 /\ wraps' = wraps + 1
    <3>1. (counter + 1) % Width = 0
      <4>1. counter % Width = counter
        BY <1>1, Small
      <4> QED  BY <1>1, <1>6, <4>1, NextTurn
    <3> QED  BY <3>1 DEF Pick
  <2>2. counter' % N = 0
    BY <2>1, Small
  <2>3. \A u \in Upstreams : Turn(u)' = 0
    BY <2>2 DEF Turn
  <2>4. Width % N = IF k + 1 = N THEN 0 ELSE k + 1
    BY <1>1, <1>2, <1>6, NextTurn
  (* N turns fill the range: the wrap ends a round like any other. *)
  <2>5. CASE k + 1 = N
    <3>1. \A u \in Upstreams : Extra(u)' = 0 /\ Extra(u) = 0 /\ (u = k \/ u < k)
      BY <2>4, <2>5 DEF Extra
    <3>2. \A u \in Upstreams : Settled(u)' = Settled(u) + 1
      BY <1>3, <1>4, <2>3, <3>1 DEF Settled
    <3> QED  BY <3>2 DEF Even
  (* Those that have had their turn in the round cut short keep it. *)
  <2>6. CASE k + 1 # N
    <3>1. \A u \in Upstreams :
            /\ Extra(u) \in Nat
            /\ Extra(u)' = IF u < k \/ u = k THEN Extra(u) + 1 ELSE Extra(u)
      BY <1>1, <2>1, <2>4, <2>6 DEF Extra
    <3>2. \A u \in Upstreams : Settled(u)' = Settled(u)
      BY <1>3, <1>4, <2>3, <3>1 DEF Settled
    <3> QED  BY <3>2 DEF Even
  <2> QED  BY <2>5, <2>6
<1> QED  BY <1>5, <1>6

-----------------------------------------------------------------------------
(* The steps.                                                              *)

LEMMA PickKeepsIInv ==
  ASSUME IInv, NEW c \in Conns, Pick(c)
  PROVE  IInv'
<1> USE DEF IInv
<1>1. TypeOK'
  <2>1. counter % N \in Upstreams /\ counter' \in 0..(Width - 1)
    BY BalancerAssumption DEF Pick, TypeOK, Upstreams
  <2>2. wraps' \in Nat
    BY DEF Pick, TypeOK
  <2>3. picks' \in [Upstreams -> Nat] /\ chosen' \in [Conns -> Upstreams]
    BY <2>1 DEF Pick, TypeOK, NextIndex
  <2>4. phase' \in [Conns -> {"closed", "reading", "picking", "parsing",
                              "connecting", "sending", "piping"}]
    BY DEF Pick, Goto, TypeOK
  <2> QED  BY <2>1, <2>2, <2>3, <2>4 DEF Pick, TypeOK
<1>2. Even'
  BY PickKeepsEven
<1>3. Unanswered' /\ ErrorsAreRetrySafe' /\ RequestsAreTheirs'
  BY DEF Pick, Goto, TypeOK, Unanswered, ErrorsAreRetrySafe, RequestsAreTheirs
<1> QED  BY <1>1, <1>2, <1>3

LEMMA FlipKeepsIInv ==
  ASSUME IInv, NEW u \in Upstreams, Flip(u)
  PROVE  IInv'
<1> USE DEF IInv
<1>1. TypeOK'
  BY DEF Flip, balancer, TypeOK
<1>2. Even'
  BY SameBalancer DEF Flip
<1>3. Unanswered' /\ ErrorsAreRetrySafe' /\ RequestsAreTheirs'
  BY DEF Flip, Unanswered, ErrorsAreRetrySafe, RequestsAreTheirs
<1> QED  BY <1>1, <1>2, <1>3

(* The task goes on ... *)
Goes(c) ==
  \/ Open(c) \/ (\E r \in Requests[c] : HeadRead(c, r))
  \/ Parsed(c) \/ Connected(c) \/ HeadSent(c) \/ Answered(c)

(* ... or ends. *)
Ends(c) ==
  HeadRefused(c) \/ ParseFails(c) \/ ConnectFails(c) \/ SendFails(c) \/ TransferEnds(c)

LEMMA GoesKeepsIInv ==
  ASSUME IInv, NEW c \in Conns, Goes(c)
  PROVE  IInv'
<1> USE DEF IInv, Goes, Open, HeadRead, Parsed, Connected, HeadSent, Answered, Goto
<1>1. UNCHANGED balancer
  OBVIOUS
<1>2. TypeOK'
  BY DEF TypeOK, balancer
<1>3. Even'
  BY <1>1, SameBalancer
<1>4. Unanswered' /\ ErrorsAreRetrySafe'
  BY DEF TypeOK, Unanswered, ErrorsAreRetrySafe, ProxyErrors
<1>5. RequestsAreTheirs'
  BY DEF TypeOK, RequestsAreTheirs
<1> QED  BY <1>2, <1>3, <1>4, <1>5

LEMMA EndsKeepsIInv ==
  ASSUME IInv, NEW c \in Conns, Ends(c)
  PROVE  IInv'
<1> USE DEF IInv, Ends, HeadRefused, ParseFails, ConnectFails, SendFails, TransferEnds, Close, Goto
<1>1. UNCHANGED balancer
  OBVIOUS
<1>2. TypeOK'
  <2>1. resp' \in [Conns -> ProxyErrors \cup {"none", "answer"}]
    BY DEF TypeOK, ProxyErrors
  <2>2. forwarded' \in [Conns -> BOOLEAN] /\ sick' \in [Conns -> BOOLEAN]
    BY DEF TypeOK
  <2>3. chosen' \in [Conns -> Upstreams]
    <3>1. 0 \in Upstreams
      BY BalancerAssumption DEF Upstreams
    <3> QED  BY <3>1 DEF TypeOK
  <2>4. phase' \in [Conns -> {"closed", "reading", "picking", "parsing",
                              "connecting", "sending", "piping"}]
    BY DEF TypeOK
  <2> QED  BY <2>1, <2>2, <2>3, <2>4 DEF TypeOK, balancer
<1>3. Even'
  BY <1>1, SameBalancer
<1>4. Unanswered' /\ ErrorsAreRetrySafe'
  BY DEF TypeOK, Unanswered, ErrorsAreRetrySafe, ProxyErrors
<1>5. RequestsAreTheirs'
  BY DEF TypeOK, RequestsAreTheirs
<1> QED  BY <1>2, <1>3, <1>4, <1>5

LEMMA StepIInv == IInv /\ [Next]_vars => IInv'
<1> SUFFICES ASSUME IInv, [Next]_vars PROVE IInv'
  OBVIOUS
<1>1. CASE UNCHANGED vars
  <2>1. Even'
    BY <1>1, SameBalancer DEF vars, IInv
  <2> QED
    BY <1>1, <2>1 DEF vars, balancer, connState, IInv, TypeOK, Unanswered,
       ErrorsAreRetrySafe, RequestsAreTheirs
<1>2. CASE Next
  BY <1>2, PickKeepsIInv, FlipKeepsIInv, GoesKeepsIInv, EndsKeepsIInv
     DEF Next, Proceed, Goes, Ends
<1> QED  BY <1>1, <1>2

LEMMA Invariance == Spec => []IInv
  BY InitIInv, StepIInv, PTL DEF Spec

THEOREM TypeCorrect == Spec => []TypeOK
<1>1. IInv => TypeOK
  BY DEF IInv
<1> QED  BY <1>1, Invariance, PTL

(***************************************************************************)
(* Whatever the number of upstreams, the interleaving of the tasks and the *)
(* fate of their requests, any two upstreams get equally many picks, up to *)
(* one: for ever where N divides 2^w, and otherwise apart from one extra   *)
(* turn per wrap of the counter for each of the first Width % N.           *)
(***************************************************************************)
THEOREM EvenPicks == Spec => []PicksAreEven
<1>1. IInv => PicksAreEven
  <2> SUFFICES ASSUME IInv, NEW u \in Upstreams, NEW v \in Upstreams
      PROVE  (picks[u] - Extra(u)) - (picks[v] - Extra(v)) <= 1
    BY DEF PicksAreEven
  <2>1. picks[u] - Extra(u) \in Int /\ picks[v] - Extra(v) \in Int
    BY DEF IInv, TypeOK, Extra
  <2>2. Turn(u) \in {0, 1} /\ Turn(v) \in {0, 1}
    BY DEF Turn
  <2>3. Settled(u) = Settled(v)
    BY DEF IInv, Even
  <2> QED  BY <2>1, <2>2, <2>3 DEF Settled
<1> QED  BY <1>1, Invariance, PTL

(***************************************************************************)
(* A client that the proxy answered itself (400, 431, 502) can send its    *)
(* request again: no upstream has seen any of it.                          *)
(***************************************************************************)
THEOREM ErrorsSafe == Spec => []ErrorsAreRetrySafe
<1>1. IInv => ErrorsAreRetrySafe
  BY DEF IInv
<1> QED  BY <1>1, Invariance, PTL

(***************************************************************************)
(* In crates B, C and D, whatever the request: the client's end-to-end     *)
(* fields arrive at the upstream as the client sent them.                  *)
(***************************************************************************)
THEOREM FieldsArrive == Spec => []ClientFieldsArrive
<1>1. IInv => ClientFieldsArrive
  BY RequestsAssumption, RestStays DEF IInv, RequestsAreTheirs, ClientFieldsArrive
<1> QED  BY <1>1, Invariance, PTL

(***************************************************************************)
(* The head an upstream of crate B is sent is the proxy's in every field   *)
(* the proxy speaks for, whatever the client put there, and it would be so *)
(* in crates C and D; and it has no more fields than the parser lets in,   *)
(* and one for each name that the proxy speaks for.                        *)
(***************************************************************************)
THEOREM SeesOurs == Spec => []UpstreamSeesOurs
<1>1. IInv => HeadIsOurs
  <2> SUFFICES ASSUME IInv, NEW c \in Conns
      PROVE  /\ phase[c] \in {"connecting", "sending"} =>
                  /\ ValuesOf(request[c].head["host"]) = <<chosen[c]>>
                  /\ \A n \in StripB \ {"host"} : ValuesOf(request[c].head[n]) = <<"ours">>
             /\ phase[c] = "picking" => \A k \in Crates : OursAlone(k, request[c], chosen[c])
    BY DEF HeadIsOurs
  <2>1. ASSUME phase[c] \in {"connecting", "sending"}
        PROVE  /\ ValuesOf(request[c].head["host"]) = <<chosen[c]>>
               /\ \A n \in StripB \ {"host"} : ValuesOf(request[c].head[n]) = <<"ours">>
    <3>1. PICK r \in Request : request[c] = ForwardB(r, chosen[c])
      BY <2>1, RequestsAssumption DEF IInv, RequestsAreTheirs
    <3>2. OursAlone("B", r, chosen[c])
      BY OursStandAlone DEF Crates
    <3>3. \A n \in StripB : n \in Strip("B") /\ n \in Added("B")
      BY DEF Strip, Added
    <3>4. "host" \in StripB
      BY DEF StripB
    <3> QED  BY <3>1, <3>2, <3>3, <3>4 DEF OursAlone, Forward
  <2>2. phase[c] = "picking" => request[c] \in Request
    BY RequestsAssumption DEF IInv, RequestsAreTheirs
  <2> QED  BY <2>1, <2>2, OursStandAlone
<1>2. ASSUME IInv, NEW c \in Conns, phase[c] \in {"connecting", "sending"}
      PROVE  Count(request[c].head) <= MaxHeaders + Cardinality(StripB)
  <2>1. PICK r \in Request : ~TooManyHeaders(r) /\ request[c] = ForwardB(r, chosen[c])
    BY <1>2, RequestsAssumption DEF IInv, RequestsAreTheirs
  <2>2. Count(r.head) \in Nat /\ Cardinality(StripB) \in Nat
    <3>1. IsFiniteSet(Places(r.head)) /\ IsFiniteSet(StripB)
      BY PlacesAreFinite, NamesAreFinite
    <3> QED  BY <3>1, FS_CardinalityType DEF Count
  <2>3. Count(r.head) <= MaxHeaders
    BY <2>1, <2>2, MaxHeadersAssumption DEF TooManyHeaders
  <2>4. Count(request[c].head) <= Count(r.head) + Cardinality(StripB)
    BY <2>1, FewAreAdded
  <2>5. Count(request[c].head) \in Nat
    <3>1. request[c].head = ForwardB(r, chosen[c]).head
      BY <2>1
    <3> QED  BY <3>1, FewAreAdded
  <2> QED  BY <2>2, <2>3, <2>4, <2>5, MaxHeadersAssumption
<1>3. IInv => UpstreamSeesOurs
  BY <1>1, <1>2 DEF UpstreamSeesOurs
<1> QED  BY <1>3, Invariance, PTL
-----------------------------------------------------------------------------
(* The bytes of one connection, which LoadBalancer reads in one step: what *)
(* its phase "reading" stands for (module RequestStream), for every buffer,*)
(* every stream and every way the transport cuts it into reads.            *)

(***************************************************************************)
(* The inductive invariant.  Besides the verdicts it says what the loop    *)
(* knows while it is still reading: the buffer holds no end of a head, so  *)
(* one that is found ends in the read that brought it; and of the copy,    *)
(* that it goes on where the last read stopped.                            *)
(***************************************************************************)
ReadingInv ==
  /\ stage \in {"reading", "head"} => received = <<>>
  /\ stage = "reading" => NoEndWithin(filled)
  /\ stage \in {"head", "piping", "done"} => lastFrom < headerLen
  /\ stage = "closed" => client = "fin"
  /\ stage = "done" => client = "fin" /\ consumed = arrived

Copied == received = SubSeq(stream, filled + 1, consumed)

StreamInv == StreamTypeOK /\ ReadingInv /\ Copied /\ VerdictIsChunkIndependent

(* Before the copy has moved anything there is nothing to say of it. *)
LEMMA NothingCopied ==
  ASSUME NEW bytes, NEW f \in Nat
  PROVE  f + Len(<<>>) = f /\ SubSeq(bytes, f + 1, f) = <<>> /\ <<>> \in Seq(Byte)
<1>1. SubSeq(bytes, f + 1, f) = <<>>
  BY SubSeqEmpty
<1> QED  BY <1>1

LEMMA InitStreamInv == StreamInit => StreamInv
<1> SUFFICES ASSUME StreamInit PROVE StreamInv
  OBVIOUS
<1>1. Copied /\ consumed = 0 /\ received \in Seq(Byte)
  BY NothingCopied DEF StreamInit, Copied, consumed
<1> QED
  BY <1>1, StreamsAssumption, CapAssumption
     DEF StreamInit, StreamInv, StreamTypeOK, ReadingInv, VerdictIsChunkIndependent, NoEndWithin

(* Whether a head ends at k depends on the stream only. *)
LEMMA EndsAtStable ==
  ASSUME stream' = stream, NEW k
  PROVE  EndsAt(k)' <=> EndsAt(k)
  BY DEF EndsAt

LEMMA ReadHeadStep ==
  ASSUME StreamInv, ReadHead
  PROVE  StreamInv'
<1> USE CapAssumption DEF StreamInv, StreamTypeOK
<1>1. PICK n \in ReadSizes : \E k \in Scanned(n) :
        /\ EndsAt(k) /\ \A j \in Scanned(n) : j < k => ~EndsAt(j)
        /\ filled' = filled + n /\ headerLen' = k
  BY DEF ReadHead
<1>2. n \in Nat /\ filled + n <= arrived /\ filled + n <= Cap /\ filled \in Nat
  BY DEF ReadSizes
<1>3. /\ headerLen' \in 4 .. filled + n /\ EndsAt(headerLen')
      /\ \A j \in 4 .. headerLen' - 1 : ~EndsAt(j)
  BY <1>1, <1>2 DEF Scanned
<1>4. stream' = stream /\ stage' = "head" /\ received' = <<>> /\ lastFrom' = filled
      /\ arrived' = arrived /\ client' = client
  BY DEF ReadHead, ReadingInv
<1>5. Copied' /\ consumed' = filled' /\ received' \in Seq(Byte)
  BY <1>1, <1>2, <1>4, NothingCopied DEF Copied, consumed
<1>6. StreamTypeOK'
  BY <1>1, <1>2, <1>3, <1>4, <1>5
<1>7. filled < headerLen'
  BY <1>2, <1>3 DEF ReadHead, ReadingInv, NoEndWithin
<1>8. ReadingInv'
  BY <1>4, <1>7 DEF ReadingInv
<1>9. VerdictIsChunkIndependent'
  <2>1. EndsAt(headerLen)'
    BY <1>3, <1>4 DEF EndsAt
  <2>2. NoEndWithin(headerLen - 1)'
    BY <1>3, <1>4 DEF NoEndWithin, EndsAt
  <2>3. headerLen' \in 4 .. Cap
    BY <1>2, <1>3
  <2> QED  BY <2>1, <2>2, <2>3, <1>4 DEF VerdictIsChunkIndependent
<1> QED  BY <1>6, <1>8, <1>9, <1>5

LEMMA ReadMoreStep ==
  ASSUME StreamInv, ReadMore
  PROVE  StreamInv'
<1> USE CapAssumption DEF StreamInv, StreamTypeOK
<1>1. PICK n \in ReadSizes :
        (\A k \in Scanned(n) : ~EndsAt(k)) /\ filled' = filled + n
  BY DEF ReadMore
<1>2. n \in Nat /\ filled + n <= arrived /\ filled + n <= Cap /\ filled \in Nat
  BY DEF ReadSizes
<1>3. stream' = stream /\ stage' = "reading" /\ received' = <<>> /\ lastFrom' = lastFrom
      /\ arrived' = arrived /\ client' = client /\ headerLen' = headerLen
  BY DEF ReadMore, ReadingInv
<1>4. Copied' /\ consumed' = filled' /\ received' \in Seq(Byte)
  BY <1>1, <1>2, <1>3, NothingCopied DEF Copied, consumed
<1>5. StreamTypeOK'
  BY <1>1, <1>2, <1>3, <1>4
<1>6. ReadingInv'
  BY <1>1, <1>3, EndsAtStable DEF ReadingInv, NoEndWithin, Scanned
<1>7. VerdictIsChunkIndependent'
  BY <1>3 DEF VerdictIsChunkIndependent
<1> QED  BY <1>5, <1>6, <1>7, <1>4

(* The copy takes up where the reads stopped, and appends. *)
LEMMA PipeBodyStep ==
  ASSUME StreamInv, PipeBody
  PROVE  StreamInv'
<1> USE CapAssumption, StreamsAssumption DEF StreamInv, StreamTypeOK
<1>1. /\ consumed \in Nat /\ consumed + 1 \in filled + 1 .. Len(stream)
      /\ stream \in Seq(Byte) /\ stream[consumed + 1] \in Byte
  BY DEF PipeBody, consumed
<1>2. /\ received' = Append(received, stream[consumed + 1])
      /\ received' \in Seq(Byte) /\ Len(received') = Len(received) + 1
  BY <1>1 DEF PipeBody
<1>3. UNCHANGED <<stream, arrived, client, filled, stage, headerLen, lastFrom>>
  BY DEF PipeBody
<1>4. consumed' = consumed + 1
  BY <1>2, <1>3 DEF consumed
<1>5. Copied'
  <2>1. SubSeq(stream, filled + 1, consumed + 1)
          = SubSeq(stream, filled + 1, consumed) \o <<stream[consumed + 1]>>
    BY <1>1, SubSeqRecursiveSecond
  <2>2. received' = received \o <<stream[consumed + 1]>>
    BY <1>1, <1>2, AppendIsConcat
  <2> QED  BY <1>3, <1>4, <2>1, <2>2 DEF Copied
<1>6. StreamTypeOK'
  BY <1>1, <1>2, <1>3, <1>4 DEF PipeBody
<1>7. ReadingInv'
  BY <1>3, EndsAtStable DEF PipeBody, ReadingInv
<1>8. VerdictIsChunkIndependent'
  BY <1>3, EndsAtStable DEF VerdictIsChunkIndependent, NoEndWithin
<1> QED  BY <1>5, <1>6, <1>7, <1>8

LEMMA StepStreamInv == StreamInv /\ [StreamNext]_streamVars => StreamInv'
<1> SUFFICES ASSUME StreamInv, [StreamNext]_streamVars PROVE StreamInv'
  OBVIOUS
<1>1. stream' = stream
  BY DEF StreamNext, streamVars, Arrive, CloseClient, Reader,
         ReadHead, ReadMore, Overflow, ReadEof, ReadError, Piper, ForwardHead, PipeBody,
         PipeEof, PipeError
<1>2. \A k : EndsAt(k)' <=> EndsAt(k)
  BY <1>1, EndsAtStable
<1> USE CapAssumption, StreamsAssumption
        DEF StreamInv, StreamTypeOK, ReadingInv, Copied, consumed, VerdictIsChunkIndependent,
            NoEndWithin
<1>3. CASE Arrive
  BY <1>2, <1>3 DEF Arrive
<1>4. CASE CloseClient
  BY <1>2, <1>4 DEF CloseClient
<1>5. CASE ReadHead
  BY <1>5, ReadHeadStep
<1>6. CASE ReadMore
  BY <1>6, ReadMoreStep
<1>7. CASE Overflow
  BY <1>2, <1>7 DEF Overflow
<1>8. CASE ReadEof
  BY <1>2, <1>8 DEF ReadEof
<1>9. CASE ReadError
  BY <1>2, <1>9 DEF ReadError
<1>10. CASE ForwardHead
  BY <1>2, <1>10 DEF ForwardHead
<1>11. CASE PipeBody
  BY <1>11, PipeBodyStep
<1>12. CASE PipeEof \/ PipeError
  BY <1>2, <1>12 DEF PipeEof, PipeError
<1>13. CASE UNCHANGED streamVars
  BY <1>2, <1>13 DEF streamVars
<1> QED
  BY <1>3, <1>4, <1>5, <1>6, <1>7, <1>8, <1>9, <1>10, <1>11, <1>12, <1>13
  DEF StreamNext, Reader, Piper

(***************************************************************************)
(* The counters of a connection stay within one another: what was read has *)
(* arrived and fits the buffer, the head lies within what was read, and no *)
(* byte is copied that has not arrived.                                    *)
(***************************************************************************)
THEOREM StreamTypeCorrect == StreamSpec => []StreamTypeOK
<1>1. StreamInv => StreamTypeOK
  BY DEF StreamInv
<1> QED  BY <1>1, InitStreamInv, StepStreamInv, PTL DEF StreamSpec

(***************************************************************************)
(* However a request is cut into segments, the head that is forwarded ends *)
(* at its first blank line, and it is refused exactly when none ends       *)
(* within the buffer or within what the client sent.                       *)
(***************************************************************************)
THEOREM ChunkIndependence == StreamSpec => []VerdictIsChunkIndependent
<1>1. StreamInv => VerdictIsChunkIndependent
  BY DEF StreamInv
<1> QED  BY <1>1, InitStreamInv, StepStreamInv, PTL DEF StreamSpec

(***************************************************************************)
(* A transfer that ended delivered, in order, all that came after the read *)
(* which completed the head; what is lost followed the head in that read.  *)
(***************************************************************************)
THEOREM SharedReadOnly == StreamSpec => []OnlySharedReadIsLost
<1>1. StreamInv => OnlySharedReadIsLost
  BY CapAssumption
     DEF StreamInv, StreamTypeOK, ReadingInv, Copied, OnlySharedReadIsLost
<1> QED  BY <1>1, InitStreamInv, StepStreamInv, PTL DEF StreamSpec
=============================================================================
