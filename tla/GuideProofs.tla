---------------------------- MODULE GuideProofs -----------------------------
(***************************************************************************)
(* Proofs about Guide: the runtime, for all well-formed programs, and the  *)
(* hand-written futures, for any number of polls nobody asked for.         *)
(***************************************************************************)
EXTENDS Guide, SequenceTheorems, WellFoundedInduction, TLAPS

-----------------------------------------------------------------------------
(* The hand-written futures.                                               *)

(* While a future is pending, its fields tell how often it was polled and  *)
(* who will wake it.  A countdown and a TwoStepJob wake at every poll, so  *)
(* no poll of theirs is uncalled for.                                      *)
CountdownInv ==
  /\ state \in 0..3 /\ alarms = 0 /\ spurious = 0
  /\ out = Pending => polls = 3 - state /\ woken
  /\ out # Pending => polls = 4

(* The thread of a DelayedValue starts in the first poll and has called    *)
(* the waker when the deadline is over: not before, so every poll until    *)
(* then but the first is one that nobody asked for.                        *)
DelayedInv ==
  /\ state \in BOOLEAN /\ alarms \in 0..1
  /\ out = Pending /\ ~state => polls = 0 /\ spurious = 0 /\ alarms = 0 /\ woken
  /\ out = Pending /\ state =>
       polls = 1 + spurious /\ ((alarms = 1 /\ ~woken) \/ (woken /\ passed))
  /\ out # Pending => polls <= 2 + spurious

TwoStepState(n) ==
  IF n = 0 THEN NotStarted
  ELSE IF n \in {1, 2} THEN Waiting(1, 2 - n, <<>>) ELSE Waiting(2, 4 - n, <<"one">>)

TwoStepInv ==
  /\ alarms = 0 /\ spurious = 0
  /\ out = Pending => polls \in 0..4 /\ state = TwoStepState(polls) /\ woken
  /\ out # Pending => polls = 5 /\ out = <<"one", "two">>

(* A sleep of the async fn has one timer, until it has called the waker.   *)
AsyncFnInv ==
  /\ alarms \in 0..1
  /\ out = Pending =>
       \/ state = NotStarted /\ woken /\ alarms = 0
       \/ /\ state \in {Waiting(1, 0, <<>>), Waiting(2, 0, <<"one">>)}
          /\ alarms = 1 \/ (woken /\ passed)
  /\ out # Pending => out = <<"one", "two">> /\ alarms = 0

FutInv ==
  /\ fut \in Kinds \cup {"none"} /\ polls \in Nat /\ spurious \in 0..MaxSpurious
  /\ fut = "none" => alarms = 0 /\ out = Pending
  /\ fut \in {"countdown", "liftoff"} => CountdownInv
  /\ fut = "delayed" => DelayedInv
  /\ fut = "twostep" => TwoStepInv
  /\ fut = "asyncfn" => AsyncFnInv

LEMMA TwoResults == Append(<<"one">>, "two") = <<"one", "two">>
<1> DEFINE S == {"one", "two"}
           a == Append(<<"one">>, "two")
<1>1. <<"one">> \in Seq(S) /\ <<"one", "two">> \in Seq(S) /\ "two" \in S
  OBVIOUS
<1>2. a \in Seq(S) /\ Len(a) = 2 /\ a[1] = "one" /\ a[2] = "two"
  BY <1>1, AppendProperties
<1>3. Len(a) = Len(<<"one", "two">>) /\ \A k \in 1..Len(a) : a[k] = <<"one", "two">>[k]
  BY <1>2
<1> HIDE DEF S, a
<1>4. a = <<"one", "two">>
  BY <1>1, <1>2, <1>3, SeqEqual
<1> QED  BY <1>4 DEF a

LEMMA InitFutInv ==
  ASSUME NEW k \in Kinds \cup {"none"}, InitFuture(k)
  PROVE  FutInv
<1>1. /\ k \in {"countdown", "liftoff"} => NewFuture(k) = 3
      /\ k = "delayed" => NewFuture(k) = FALSE
      /\ k \in {"twostep", "asyncfn"} => NewFuture(k) = NotStarted
  BY Zenon DEF NewFuture
<1>2. /\ fut = k /\ state = NewFuture(k) /\ alarms = 0 /\ polls = 0 /\ spurious = 0
      /\ out = Pending /\ (k # "none" => woken)
  BY DEF InitFuture
<1>3. k \in {"countdown", "liftoff"} => CountdownInv
  BY <1>1, <1>2 DEF CountdownInv
<1>4. k = "delayed" => DelayedInv
  <2> SUFFICES ASSUME k = "delayed" PROVE DelayedInv
    OBVIOUS
  <2>1. state = FALSE
    BY <1>1, <1>2
  <2>2. state \in BOOLEAN /\ ~state
    BY Zenon, <2>1
  <2> QED  BY <1>2, <2>2 DEF DelayedInv
<1>5. k = "twostep" => TwoStepInv
  BY <1>1, <1>2 DEF TwoStepInv, TwoStepState
<1>6. k = "asyncfn" => AsyncFnInv
  BY <1>1, <1>2 DEF AsyncFnInv
<1> QED  BY <1>2, <1>3, <1>4, <1>5, <1>6, MaxSpuriousAssumption DEF FutInv, Kinds

LEMMA CountdownPolled ==
  ASSUME FutInv, Poll, fut \in {"countdown", "liftoff"}
  PROVE  FutInv'
<1>1. PICK r : PollOf = IF state = 0 THEN Polled1(state, <<r>>, FALSE, alarms)
                        ELSE Polled1(state - 1, Pending, TRUE, alarms)
  BY DEF PollOf, CountdownPoll, LiftoffPoll
<1>2. out = Pending /\ woken /\ spurious = 0 /\ alarms = 0 /\ polls = 3 - state
      /\ state \in 0..3 /\ polls \in Nat
  BY DEF FutInv, CountdownInv, Poll
<1>3. fut' = fut /\ polls' = polls + 1 /\ spurious' = 0
      /\ state' = PollOf.state /\ out' = PollOf.out /\ woken' = PollOf.wake
      /\ alarms' = PollOf.alarms
  BY <1>2 DEF Poll
<1>4. CountdownInv'
  <2>1. CASE state = 0
    BY <1>1, <1>2, <1>3, <2>1 DEF CountdownInv, Polled1, Pending
  <2>2. CASE state # 0
    BY <1>1, <1>2, <1>3, <2>2 DEF CountdownInv, Polled1, Pending
  <2> QED  BY <2>1, <2>2
<1> QED  BY <1>2, <1>3, <1>4, MaxSpuriousAssumption DEF FutInv

LEMMA DelayedPolled ==
  ASSUME FutInv, Poll, fut = "delayed"
  PROVE  FutInv'
<1>1. PollOf = IF passed THEN Polled1(state, <<"value">>, FALSE, alarms)
               ELSE Polled1(TRUE, Pending, FALSE, IF state THEN alarms ELSE alarms + 1)
  BY DEF PollOf, DelayedPoll
<1>2. DelayedInv /\ out = Pending /\ polls \in Nat /\ spurious \in 0..MaxSpurious
  BY DEF FutInv, Poll
<1>3. fut' = fut /\ polls' = polls + 1 /\ passed' = passed
      /\ spurious' = (IF woken THEN spurious ELSE spurious + 1)
      /\ (woken \/ spurious < MaxSpurious)
      /\ state' = PollOf.state /\ out' = PollOf.out /\ woken' = PollOf.wake
      /\ alarms' = PollOf.alarms
  BY DEF Poll
<1>4. spurious' \in 0..MaxSpurious
  BY <1>2, <1>3, MaxSpuriousAssumption
<1>5. DelayedInv'
  <2>1. CASE passed
    <3>1. state' = state /\ out' = <<"value">> /\ alarms' = alarms
      BY <1>1, <1>3, <2>1 DEF Polled1
    <3>2. state' \in BOOLEAN /\ out' # Pending
      BY <1>2, <3>1 DEF DelayedInv, Pending
    <3>3. alarms' \in 0..1 /\ polls' <= 2 + spurious'
      BY <1>2, <1>3, <2>1, <3>1 DEF DelayedInv
    <3> QED  BY Zenon, <3>2, <3>3 DEF DelayedInv
  <2>2. CASE ~passed
    <3>1. state' = TRUE /\ out' = Pending /\ woken' = FALSE
          /\ alarms' = IF state THEN alarms ELSE alarms + 1
      BY <1>1, <1>3, <2>2 DEF Polled1
    <3>2. out' = Pending /\ state' /\ state' \in BOOLEAN /\ ~woken'
      BY Zenon, <3>1
    <3>3. CASE state
      <4>1. alarms = 1 /\ ~woken /\ polls = 1 + spurious
        BY <1>2, <2>2, <3>3 DEF DelayedInv
      <4>2. alarms' = 1 /\ polls' = 1 + spurious'
        BY <1>2, <1>3, <3>1, <3>3, <4>1
      <4>3. alarms' \in 0..1
        BY <4>2
      <4> QED  BY Zenon, <3>2, <4>2, <4>3 DEF DelayedInv
    <3>4. CASE ~state
      <4>1. alarms = 0 /\ woken /\ polls = 0 /\ spurious = 0
        BY <1>2, <3>4 DEF DelayedInv
      <4>2. alarms' = 1 /\ polls' = 1 + spurious' /\ alarms' \in 0..1
        BY <1>3, <3>1, <3>4, <4>1
      <4> QED  BY Zenon, <3>2, <4>2 DEF DelayedInv
    <3> QED  BY <3>3, <3>4
  <2> QED  BY <2>1, <2>2
<1> QED  BY <1>2, <1>3, <1>4, <1>5 DEF FutInv

LEMMA TwoStepPolled ==
  ASSUME FutInv, Poll, fut = "twostep"
  PROVE  FutInv'
<1>1. PollOf = TwoStepPoll(state)
  BY DEF PollOf
<1>2. TwoStepInv /\ out = Pending /\ woken /\ spurious = 0 /\ alarms = 0
      /\ polls \in 0..4 /\ state = TwoStepState(polls)
  BY DEF FutInv, TwoStepInv, Poll
<1>3. fut' = fut /\ polls' = polls + 1 /\ spurious' = 0
      /\ state' = PollOf.state /\ out' = PollOf.out /\ woken' = PollOf.wake
      /\ alarms' = PollOf.alarms
  BY <1>2 DEF Poll
<1>4. CASE polls = 0
  <2>1. state.at = 0 /\ state.at # 1 /\ state.at # 2
    BY <1>2, <1>4 DEF TwoStepState, NotStarted
  <2>2. PollOf = Polled1(Waiting(1, 1, <<>>), Pending, TRUE, alarms)
    BY Zenon, <1>1, <2>1 DEF TwoStepPoll
  <2>3. state' = TwoStepState(polls + 1) /\ out' = Pending /\ woken' /\ alarms' = alarms
    BY <1>3, <1>4, <2>2 DEF Polled1, TwoStepState
  <2> QED  BY <1>2, <1>3, <1>4, <2>3, MaxSpuriousAssumption DEF FutInv, TwoStepInv
<1>5. CASE polls \in {1, 3}
  <2>1. /\ state.at # 0 /\ state.polls_remaining # 0
        /\ [state EXCEPT !.polls_remaining = @ - 1] = TwoStepState(polls + 1)
    BY <1>2, <1>5 DEF TwoStepState, Waiting
  <2>2. PollOf = Polled1([state EXCEPT !.polls_remaining = @ - 1], Pending, TRUE, alarms)
    BY Zenon, <1>1, <2>1 DEF TwoStepPoll
  <2>3. state' = TwoStepState(polls + 1) /\ out' = Pending /\ woken' /\ alarms' = alarms
    BY <1>3, <2>1, <2>2 DEF Polled1
  <2> QED  BY <1>2, <1>3, <1>5, <2>3, MaxSpuriousAssumption DEF FutInv, TwoStepInv
<1>6. CASE polls = 2
  <2>1. state.at # 0 /\ state.at = 1 /\ state.at # 2 /\ state.polls_remaining = 0
    BY <1>2, <1>6 DEF TwoStepState, Waiting
  <2>2. PollOf = Polled1(Waiting(2, 1, <<"one">>), Pending, TRUE, alarms)
    BY Zenon, <1>1, <2>1 DEF TwoStepPoll
  <2>3. state' = TwoStepState(polls + 1) /\ out' = Pending /\ woken' /\ alarms' = alarms
    BY <1>3, <1>6, <2>2 DEF Polled1, TwoStepState
  <2> QED  BY <1>2, <1>3, <1>6, <2>3, MaxSpuriousAssumption DEF FutInv, TwoStepInv
<1>7. CASE polls = 4
  <2>1. /\ state.at # 0 /\ state.at # 1 /\ state.at = 2 /\ state.polls_remaining = 0
        /\ state.results = <<"one">>
    BY <1>2, <1>7 DEF TwoStepState, Waiting
  <2>2. PollOf = Polled1(Completed, Append(state.results, "two"), FALSE, alarms)
    BY Zenon, <1>1, <2>1 DEF TwoStepPoll
  <2>3. out' = <<"one", "two">> /\ alarms' = alarms
    BY <1>3, <2>1, <2>2, TwoResults DEF Polled1
  <2>4. out' # Pending
    BY <2>3 DEF Pending
  <2> QED  BY <1>2, <1>3, <1>7, <2>3, <2>4, MaxSpuriousAssumption DEF FutInv, TwoStepInv
<1> QED  BY <1>2, <1>4, <1>5, <1>6, <1>7

LEMMA AsyncFnPolled ==
  ASSUME FutInv, Poll, fut = "asyncfn"
  PROVE  FutInv'
<1>1. PollOf = AsyncFnPoll(state)
  BY DEF PollOf
<1>2. AsyncFnInv /\ out = Pending /\ polls \in Nat /\ spurious \in 0..MaxSpurious
  BY DEF FutInv, Poll
<1>3. fut' = fut /\ polls' = polls + 1
      /\ spurious' = (IF woken THEN spurious ELSE spurious + 1)
      /\ (woken \/ spurious < MaxSpurious)
      /\ state' = PollOf.state /\ out' = PollOf.out /\ woken' = PollOf.wake
      /\ alarms' = PollOf.alarms
  BY DEF Poll
<1>4. spurious' \in 0..MaxSpurious
  BY <1>2, <1>3, MaxSpuriousAssumption
<1>5. AsyncFnInv'
  <2> USE DEF AsyncFnPoll, NotStarted, Waiting, Completed, Polled1
  <2>1. CASE state = NotStarted
    <3>1. state' = Waiting(1, 0, <<>>) /\ out' = Pending /\ alarms' = 1
      BY <1>1, <1>3, <2>1
    <3> QED  BY <3>1 DEF AsyncFnInv
  <2>2. CASE state = Waiting(1, 0, <<>>) /\ passed
    <3>1. state' = Waiting(2, 0, <<"one">>) /\ out' = Pending /\ alarms' = 1
      BY <1>1, <1>3, <2>2
    <3> QED  BY <3>1 DEF AsyncFnInv
  <2>3. CASE state = Waiting(2, 0, <<"one">>) /\ passed
    <3>1. out' = <<"one", "two">> /\ alarms' = 0
      BY <1>1, <1>3, <2>3, TwoResults
    <3> QED  BY <3>1 DEF AsyncFnInv, Pending
  <2>4. CASE state \in {Waiting(1, 0, <<>>), Waiting(2, 0, <<"one">>)} /\ ~passed
    <3>1. state' = state /\ out' = Pending /\ alarms' = alarms
      BY <1>1, <1>3, <2>4
    <3>2. alarms = 1
      BY <1>2, <2>4 DEF AsyncFnInv
    <3> QED  BY <2>4, <3>1, <3>2 DEF AsyncFnInv
  <2> QED  BY <1>2, <2>1, <2>2, <2>3, <2>4 DEF AsyncFnInv
<1> QED  BY <1>2, <1>3, <1>4, <1>5 DEF FutInv

(* Time and the threads: neither the future nor its counts change.         *)
LEMMA OthersKeepFutInv ==
  ASSUME FutInv, DeadlinePasses \/ AlarmWakes
  PROVE  FutInv'
<1>1. /\ fut' = fut /\ state' = state /\ polls' = polls /\ spurious' = spurious /\ out' = out
      /\ woken => woken'
      /\ passed => passed'
  BY DEF DeadlinePasses, AlarmWakes
<1>2. \/ alarms' = alarms /\ woken' = woken
      \/ alarms > 0 /\ alarms' = alarms - 1 /\ woken' /\ passed'
  BY DEF DeadlinePasses, AlarmWakes
<1> USE DEF FutInv
<1>3. CASE fut = "none"
  BY <1>1, <1>2, <1>3
<1>4. CASE fut \in {"countdown", "liftoff"}
  BY <1>1, <1>2, <1>4 DEF CountdownInv
<1>5. CASE fut = "delayed"
  BY <1>1, <1>2, <1>5 DEF DelayedInv
<1>6. CASE fut = "twostep"
  BY <1>1, <1>2, <1>6 DEF TwoStepInv, TwoStepState
<1>7. CASE fut = "asyncfn"
  BY <1>1, <1>2, <1>7 DEF AsyncFnInv
<1> QED  BY <1>3, <1>4, <1>5, <1>6, <1>7 DEF Kinds

LEMMA StepFutInv == FutInv /\ [FutNext]_futvars => FutInv'
<1> SUFFICES ASSUME FutInv, [FutNext]_futvars PROVE FutInv'
  OBVIOUS
<1>1. CASE UNCHANGED futvars
  BY <1>1 DEF futvars, FutInv, CountdownInv, DelayedInv, TwoStepInv, TwoStepState, AsyncFnInv
<1>2. CASE Poll
  <2>1. fut \in Kinds
    BY <1>2 DEF Poll, FutInv
  <2> QED  BY <1>2, <2>1, CountdownPolled, DelayedPolled, TwoStepPolled, AsyncFnPolled DEF Kinds
<1>3. CASE DeadlinePasses \/ AlarmWakes
  BY <1>3, OthersKeepFutInv
<1> QED  BY <1>1, <1>2, <1>3 DEF FutNext

(* What a pending future waits for, and how often a ready one was polled.  *)
LEMMA FutInvAnswers == FutInv => NoLostWakeup /\ PollsAsClaimed
<1> SUFFICES ASSUME FutInv PROVE NoLostWakeup /\ PollsAsClaimed
  OBVIOUS
<1> USE DEF FutInv
<1>1. CASE fut = "none"
  BY <1>1 DEF NoLostWakeup, PollsAsClaimed
<1>2. CASE fut \in {"countdown", "liftoff"}
  BY <1>2 DEF NoLostWakeup, PollsAsClaimed, CountdownInv
<1>3. CASE fut = "delayed"
  <2>1. NoLostWakeup
    BY <1>3 DEF NoLostWakeup, DelayedInv
  <2>2. PollsAsClaimed
    BY <1>3 DEF PollsAsClaimed, DelayedInv
  <2> QED  BY <2>1, <2>2
<1>4. CASE fut = "twostep"
  BY <1>4 DEF NoLostWakeup, PollsAsClaimed, TwoStepInv
<1>5. CASE fut = "asyncfn"
  BY <1>5 DEF NoLostWakeup, PollsAsClaimed, AsyncFnInv
<1> QED  BY <1>1, <1>2, <1>3, <1>4, <1>5 DEF Kinds

LEMMA FutInvHolds == Spec => []FutInv
<1>1. Init => FutInv
  BY InitFutInv DEF Init
<1>2. FutInv /\ [Next]_vars => FutInv'
  BY StepFutInv DEF Next, vars
<1> QED  BY <1>1, <1>2, PTL DEF Spec

(* A future that is not ready was woken, or a thread or a timer is left    *)
(* that will wake it, whoever else polls it.                               *)
THEOREM NoWakeupIsLost == Spec => []NoLostWakeup
<1>1. FutInv => NoLostWakeup
  BY FutInvAnswers
<1> QED  BY <1>1, FutInvHolds, PTL

(* The counts in the comments hold for every executor: one that polls      *)
(* uncalled for adds exactly its own polls to DelayedValue's two, and the  *)
(* state machine written by hand returns what the async fn does.           *)
THEOREM PollsAreCounted == Spec => []PollsAsClaimed
<1>1. FutInv => PollsAsClaimed
  BY FutInvAnswers
<1> QED  BY <1>1, FutInvHolds, PTL
-----------------------------------------------------------------------------
(* The runtime.                                                            *)

Code == DOMAIN P.code
Fates == {"unborn", "run", "done", "panicked", "cancelled"}

(* Sequences whose elements nothing is known about: Seq has no set to be   *)
(* over.                                                                   *)
Known(r) == IsSequence(r) /\ \A k \in 1..Len(r) : IsSequence(r[k])

(* What a task that ended holds is dropped with it. *)
Owners ==
  /\ st \in [Code -> Fates]
  /\ \A h \in held : h[1] \in Code /\ ~Ended(h[1])
  /\ lock = "none" \/ (lock \in Code /\ st[lock] = "run")

(* A task that stands behind an instruction that obtains a value has one.  *)
Threads ==
  /\ pc \in [Code -> Nat \ {0}]
  /\ wake \in [Code -> Nat \cup {-1}]
  /\ DOMAIN reg = Code
  /\ \A t \in Code : Known(reg[t]) /\ (HasValue(Script(t), pc[t]) => reg[t] # <<>>)

Channels ==
  /\ DOMAIN chan = DOMAIN P.cap
  /\ \A ch \in DOMAIN chan : IsSequence(chan[ch]) /\ Len(chan[ch]) <= P.cap[ch]

RunInv ==
  /\ demo \in DOMAIN Programs /\ workers \in 1..MaxWorkers /\ clock \in Nat
  /\ Owners /\ Threads /\ Channels

(* Sequences of whatever.                                                  *)
Elements(s) == {s[k] : k \in 1..Len(s)}

LEMMA SequenceIn ==
  ASSUME NEW s, IsSequence(s)
  PROVE  s \in Seq(Elements(s)) /\ DOMAIN s = 1..Len(s) /\ Len(s) \in Nat
<1>1. Len(s) \in Nat /\ s = [k \in 1..Len(s) |-> s[k]]
  BY DEF IsSequence
<1>2. DOMAIN s = 1..Len(s)
  BY <1>1
<1>3. s \in [1..Len(s) -> Elements(s)]
  BY <1>1 DEF Elements
<1> QED  BY <1>1, <1>2, <1>3, SeqDef

LEMMA InSequence ==
  ASSUME NEW S, NEW s \in Seq(S)
  PROVE  IsSequence(s)
<1>1. Len(s) \in Nat /\ s \in [1..Len(s) -> S]
  BY LenProperties
<1>2. s = [k \in 1..Len(s) |-> s[k]]
  BY <1>1
<1> QED  BY <1>1, <1>2 DEF IsSequence

LEMMA FunctionIsSequence ==
  ASSUME NEW n \in Nat, NEW S, NEW f \in [1..n -> S]
  PROVE  IsSequence(f) /\ Len(f) = n
<1>1. f \in Seq(S)
  BY SeqDef
<1>2. 1..Len(f) = 1..n /\ Len(f) \in Nat
  BY <1>1, LenProperties
<1> QED  BY <1>1, <1>2, InSequence

LEMMA EmptyIsSequence == IsSequence(<<>>) /\ Len(<<>>) = 0 /\ Known(<<>>)
<1>1. <<>> \in Seq({}) /\ Len(<<>>) = 0
  BY EmptySeq
<1>2. IsSequence(<<>>)
  BY <1>1, InSequence
<1> QED  BY <1>1, <1>2 DEF Known

LEMMA OneIsSequence ==
  ASSUME NEW x
  PROVE  IsSequence(<<x>>) /\ Len(<<x>>) = 1 /\ <<x>>[1] = x /\ <<x>> # <<>>
<1>1. <<x>> \in Seq({x}) /\ Len(<<x>>) = 1 /\ <<x>>[1] = x
  OBVIOUS
<1>2. <<x>> # <<>>
  BY <1>1, EmptySeq
<1> QED  BY <1>1, <1>2, InSequence

LEMMA OneKnown ==
  ASSUME NEW x, IsSequence(x)
  PROVE  Known(<<x>>) /\ <<x>> # <<>>
BY OneIsSequence DEF Known

LEMMA ConcatIsSequence ==
  ASSUME NEW a, NEW b, IsSequence(a), IsSequence(b)
  PROVE  /\ IsSequence(a \o b) /\ Len(a \o b) = Len(a) + Len(b)
         /\ \A k \in 1..Len(a) + Len(b) : (a \o b)[k] = IF k <= Len(a) THEN a[k] ELSE b[k - Len(a)]
<1> DEFINE S == Elements(a) \cup Elements(b)
<1>1. a \in Seq(S) /\ b \in Seq(S)
  BY SequenceIn, SeqMonotonic
<1> HIDE DEF S
<1>2. a \o b \in Seq(S)
  BY <1>1, ConcatProperties
<1> QED  BY <1>1, <1>2, ConcatProperties, InSequence

LEMMA ConcatKnown ==
  ASSUME NEW r, NEW vs, Known(r), Known(vs)
  PROVE  Known(r \o vs) /\ (r # <<>> \/ vs # <<>> => r \o vs # <<>>)
<1>1. IsSequence(r) /\ IsSequence(vs) /\ Len(r) \in Nat /\ Len(vs) \in Nat
  BY DEF Known, IsSequence
<1>2. /\ IsSequence(r \o vs) /\ Len(r \o vs) = Len(r) + Len(vs)
      /\ \A k \in 1..Len(r) + Len(vs) :
           (r \o vs)[k] = IF k <= Len(r) THEN r[k] ELSE vs[k - Len(r)]
  BY <1>1, ConcatIsSequence
<1>3. ASSUME NEW k \in 1..Len(r \o vs) PROVE IsSequence((r \o vs)[k])
  <2>1. CASE k <= Len(r)
    <3>1. k \in 1..Len(r) /\ (r \o vs)[k] = r[k]
      BY <1>1, <1>2, <1>3, <2>1
    <3> QED  BY <3>1 DEF Known
  <2>2. CASE ~(k <= Len(r))
    <3>1. k - Len(r) \in 1..Len(vs) /\ (r \o vs)[k] = vs[k - Len(r)]
      BY <1>1, <1>2, <1>3, <2>2
    <3> QED  BY <3>1 DEF Known
  <2> QED  BY <2>1, <2>2
<1>4. r # <<>> => Len(r) \in Nat \ {0}
  BY <1>1, SequenceIn, EmptySeq
<1>5. vs # <<>> => Len(vs) \in Nat \ {0}
  BY <1>1, SequenceIn, EmptySeq
<1>6. r \o vs = <<>> => Len(r \o vs) = 0
  BY EmptyIsSequence
<1>7. r # <<>> \/ vs # <<>> => r \o vs # <<>>
  BY <1>1, <1>2, <1>4, <1>5, <1>6
<1> QED  BY <1>2, <1>3, <1>7 DEF Known

LEMMA AppendKnown ==
  ASSUME NEW r, NEW x, Known(r), IsSequence(x)
  PROVE  Known(Append(r, x)) /\ Append(r, x) # <<>>
<1> DEFINE S == Elements(r) \cup {x}
<1>1. r \in Seq(S) /\ x \in S /\ Len(r) \in Nat
  BY SequenceIn, SeqMonotonic DEF Known
<1> HIDE DEF S
<1>2. /\ Append(r, x) \in Seq(S) /\ Append(r, x) # <<>> /\ Len(Append(r, x)) = Len(r) + 1
      /\ \A k \in 1..Len(r) : Append(r, x)[k] = r[k]
      /\ Append(r, x)[Len(r) + 1] = x
  BY <1>1, AppendProperties
<1>3. ASSUME NEW k \in 1..Len(r) + 1 PROVE IsSequence(Append(r, x)[k])
  <2>1. CASE k \in 1..Len(r)
    BY <1>2, <2>1 DEF Known
  <2>2. CASE k = Len(r) + 1
    BY <1>2, <2>2
  <2> QED  BY <1>1, <1>3, <2>1, <2>2
<1> QED  BY <1>2, <1>3, InSequence DEF Known

LEMMA LastIsSequence ==
  ASSUME NEW r, Known(r), r # <<>>
  PROVE  IsSequence(Last(r))
<1>1. Len(r) \in Nat \ {0}
  BY SequenceIn, EmptySeq DEF Known
<1> QED  BY <1>1 DEF Known, Last

LEMMA PartsAreSequences ==
  ASSUME NEW s, IsSequence(s), NEW n \in Nat, n <= Len(s)
  PROVE  /\ IsSequence(SubSeq(s, 1, n))
         /\ IsSequence(SubSeq(s, n + 1, Len(s))) /\ Len(SubSeq(s, n + 1, Len(s))) <= Len(s)
<1> DEFINE S == Elements(s)
<1>1. s \in Seq(S) /\ Len(s) \in Nat
  BY SequenceIn
<1>2. \A k \in 1..Len(s) : s[k] \in S
  BY DEF Elements
<1> HIDE DEF S
<1>3. SubSeq(s, 1, n) \in Seq(S)
  BY <1>1, <1>2, SubSeqProperties
<1>4. /\ SubSeq(s, n + 1, Len(s)) \in Seq(S)
      /\ Len(SubSeq(s, n + 1, Len(s))) = IF n + 1 <= Len(s) THEN Len(s) - (n + 1) + 1 ELSE 0
  <2>1. n + 1 \in Int /\ Len(s) \in Int /\ \A k \in (n + 1)..Len(s) : s[k] \in S
    BY <1>1, <1>2
  <2> QED  BY <2>1, SubSeqProperties
<1>5. Len(SubSeq(s, n + 1, Len(s))) <= Len(s)
  BY <1>1, <1>4
<1>6. IsSequence(SubSeq(s, 1, n)) /\ IsSequence(SubSeq(s, n + 1, Len(s)))
  BY <1>3, <1>4, InSequence
<1> QED  BY <1>5, <1>6

(* Where an instruction finds a value.                                     *)
LEMMA NoValueAfterJump ==
  ASSUME NEW code, WellFormedTask(code), NEW k \in JumpTargets(code)
  PROVE  ~HasValue(code, k)
<1>1. k \in Nat \ {0} /\ DOMAIN code = 1..Len(code) /\ Len(code) \in Nat
  BY SequenceIn DEF WellFormedTask
<1>2. \A m \in DOMAIN code : m < k => k \in (m + 1)..k
  BY <1>1
<1> QED  BY <1>2 DEF HasValue

LEMMA NoValueAtStart ==
  ASSUME NEW code, WellFormedTask(code)
  PROVE  ~HasValue(code, 1)
<1>1. DOMAIN code = 1..Len(code) /\ Len(code) \in Nat
  BY SequenceIn DEF WellFormedTask
<1> QED  BY <1>1 DEF HasValue

LEMMA ValueStays ==
  ASSUME NEW code, WellFormedTask(code), NEW k \in DOMAIN code, HasValue(code, k + 1)
  PROVE  code[k].op \in Obtains \/ HasValue(code, k)
<1>1. DOMAIN code = 1..Len(code) /\ Len(code) \in Nat
  BY SequenceIn DEF WellFormedTask
<1>2. PICK m \in DOMAIN code :
        m < k + 1 /\ code[m].op \in Obtains /\ \A j \in (m + 1)..(k + 1) : j \notin JumpTargets(code)
  BY DEF HasValue
<1>3. CASE m = k
  BY <1>2, <1>3
<1>4. CASE m # k
  <2>1. m < k /\ \A j \in (m + 1)..k : j \in (m + 1)..(k + 1)
    BY <1>1, <1>2, <1>4
  <2> QED  BY <1>2, <2>1 DEF HasValue
<1> QED  BY <1>3, <1>4

(* What the invariant says of the instruction a task is at.                *)
LEMMA InstrFacts ==
  ASSUME RunInv, NEW t \in Task, ~Over(t)
  PROVE  /\ t \in Code /\ Task = Code /\ WellFormedTask(Script(t))
         /\ pc[t] \in DOMAIN Script(t) /\ pc[t] \in Nat \ {0}
         /\ Instr(t).op \in {"sleep", "block", "timeout"} => Instr(t).ms \in Nat
         /\ Instr(t).op \in {"send", "reply"} => IsSequence(Instr(t).items)
         /\ Instr(t).op = "join" => IsSequence(Instr(t).tasks)
         /\ Instr(t).op \in UsesLast => reg[t] # <<>>
         /\ Instr(t).op \in {"recv", "read"} => Instr(t).ch \in DOMAIN P.cap
         /\ Jumps(Instr(t)) \subseteq JumpTargets(Script(t))
<1>1. Task = Code /\ t \in Code /\ Owners /\ Threads
  BY DEF RunInv, Owners, Task
<1>2. WellFormed(P)
  BY ProgramsAssumption DEF RunInv, P
<1>3. /\ WellFormedTask(Script(t))
      /\ \A k \in DOMAIN Script(t) :
           Script(t)[k].op \in {"recv", "read", "send", "send_last"} => Script(t)[k].ch \in DOMAIN P.cap
  BY <1>1, <1>2 DEF WellFormed, Script, Code
<1>4. pc[t] \in DOMAIN Script(t) /\ pc[t] \in Nat \ {0}
  <2>1. DOMAIN Script(t) = 1..Len(Script(t)) /\ Len(Script(t)) \in Nat
    BY <1>3, SequenceIn DEF WellFormedTask
  <2>2. pc[t] \in Nat \ {0}
    BY <1>1 DEF Threads
  <2> QED  BY <2>1, <2>2 DEF Over
<1>5. Instr(t).op \in UsesLast => reg[t] # <<>>
  BY <1>1, <1>3, <1>4 DEF WellFormedTask, Instr, Threads
<1>6. Jumps(Instr(t)) \subseteq JumpTargets(Script(t))
  BY <1>4 DEF Instr, JumpTargets
<1> HIDE DEF Jumps
<1> QED  BY <1>1, <1>3, <1>4, <1>5, <1>6 DEF WellFormedTask, Instr

(* The program is the same after a step.                                   *)
LEMMA SameProgram ==
  ASSUME demo' = demo
  PROVE  P' = P /\ Code' = Code
BY DEF P, Code

LEMMA FinishOwners ==
  ASSUME RunInv, demo' = demo, NEW S, NEW how \in Fates, Finish(S, how)
  PROVE  Owners'
<1>1. Code' = Code /\ Task = Code /\ Owners
  BY SameProgram DEF RunInv, Owners, Task
<1>2. /\ st' = [t \in Code |-> IF t \in S THEN how ELSE st[t]]
      /\ held' = {h \in held : h[1] \notin S}
      /\ lock' = IF lock \in S THEN "none" ELSE lock
  BY <1>1 DEF Finish
<1>3. st' \in [Code -> Fates]
  BY <1>1, <1>2 DEF Owners
<1>4. \A h \in held' : h[1] \in Code /\ ~Ended(h[1])'
  BY <1>1, <1>2 DEF Owners, Ended
<1>5. lock' = "none" \/ (lock' \in Code /\ st'[lock'] = "run")
  BY <1>1, <1>2 DEF Owners
<1> QED  BY <1>1, <1>3, <1>4, <1>5 DEF Owners

(* Tasks that start, or start anew, may own what they owned.               *)
LEMMA BornOwners ==
  ASSUME RunInv, demo' = demo, NEW S, UNCHANGED <<held, lock>>,
         st' = [t \in Task |-> IF t \in S THEN "run" ELSE st[t]]
  PROVE  Owners'
<1>1. Code' = Code /\ Task = Code /\ Owners
  BY SameProgram DEF RunInv, Owners, Task
<1>2. st' \in [Code -> Fates]
  BY <1>1 DEF Owners, Fates
<1>3. \A h \in held' : h[1] \in Code /\ ~Ended(h[1])'
  BY <1>1 DEF Owners, Ended
<1>4. lock' = "none" \/ (lock' \in Code /\ st'[lock'] = "run")
  BY <1>1 DEF Owners
<1> QED  BY <1>1, <1>2, <1>3, <1>4 DEF Owners

LEMMA SameOwners ==
  ASSUME RunInv, demo' = demo, st' = st, held' \subseteq held,
         \/ lock' \in {lock, "none"}
         \/ lock' \in Task /\ st[lock'] = "run"
  PROVE  Owners'
<1>1. Code' = Code /\ Task = Code /\ Owners
  BY SameProgram DEF RunInv, Owners, Task
<1> QED  BY <1>1 DEF Owners, Ended

LEMMA SameChannels ==
  ASSUME RunInv, demo' = demo, chan' = chan
  PROVE  Channels'
BY SameProgram DEF RunInv, Channels

LEMMA NextThreads ==
  ASSUME RunInv, demo' = demo, NEW t \in Task, ~Over(t), NEW vs, Known(vs),
         Instr(t).op \in Obtains => vs # <<>>, Next1(t, vs)
  PROVE  Threads'
<1>1. Code' = Code /\ Threads /\ \A u : Script(u)' = Script(u)
  BY SameProgram DEF RunInv, Script
<1>2. t \in Code /\ WellFormedTask(Script(t)) /\ pc[t] \in DOMAIN Script(t) /\ pc[t] \in Nat \ {0}
  BY InstrFacts
<1>3. /\ pc' \in [Code -> Nat \ {0}] /\ wake' \in [Code -> Nat \cup {-1}]
      /\ DOMAIN reg' = Code
      /\ pc'[t] = pc[t] + 1 /\ reg'[t] = reg[t] \o vs
      /\ \A u \in Code \ {t} : pc'[u] = pc[u] /\ reg'[u] = reg[u]
  BY <1>1, <1>2 DEF Next1, Threads
<1>4. Known(reg'[t]) /\ (reg[t] # <<>> \/ vs # <<>> => reg'[t] # <<>>)
  BY <1>1, <1>2, <1>3, ConcatKnown DEF Threads
<1>5. HasValue(Script(t), pc'[t]) => reg'[t] # <<>>
  <2>1. HasValue(Script(t), pc'[t]) => Instr(t).op \in Obtains \/ HasValue(Script(t), pc[t])
    BY <1>2, <1>3, ValueStays DEF Instr
  <2> QED  BY <1>1, <1>2, <1>4, <2>1 DEF Threads
<1>6. \A u \in Code : Known(reg'[u]) /\ (HasValue(Script(u), pc'[u]) => reg'[u] # <<>>)
  BY <1>1, <1>3, <1>4, <1>5 DEF Threads
<1> QED  BY <1>1, <1>3, <1>6 DEF Threads

LEMMA BeginThreads ==
  ASSUME RunInv, demo' = demo, NEW t \in Task, NEW until \in Nat, Begin(t, until)
  PROVE  Threads'
<1>1. Code' = Code /\ Threads /\ \A u : Script(u)' = Script(u)
  BY SameProgram DEF RunInv, Script
<1>2. pc' = pc /\ reg' = reg /\ wake' \in [Code -> Nat \cup {-1}]
  BY <1>1 DEF Begin, Threads
<1> QED  BY <1>1, <1>2 DEF Threads

LEMMA SameThreads ==
  ASSUME RunInv, demo' = demo, UNCHANGED <<pc, wake, reg>>
  PROVE  Threads'
<1>1. Code' = Code /\ Threads /\ \A u : Script(u)' = Script(u)
  BY SameProgram DEF RunInv, Script
<1> QED  BY <1>1 DEF Threads

LEMMA JumpThreads ==
  ASSUME RunInv, demo' = demo, NEW t \in Task, ~Over(t),
         NEW k \in Jumps(Instr(t)), pc' = [pc EXCEPT ![t] = k], UNCHANGED <<wake, reg>>
  PROVE  Threads'
<1>1. Code' = Code /\ Threads /\ \A u : Script(u)' = Script(u)
  BY SameProgram DEF RunInv, Script
<1>2. t \in Code /\ WellFormedTask(Script(t)) /\ k \in JumpTargets(Script(t))
  BY InstrFacts
<1>3. k \in Nat \ {0} /\ ~HasValue(Script(t), k)
  BY <1>2, NoValueAfterJump DEF WellFormedTask
<1>4. /\ pc' \in [Code -> Nat \ {0}] /\ pc'[t] = k
      /\ \A u \in Code \ {t} : pc'[u] = pc[u]
  BY <1>1, <1>2, <1>3 DEF Threads
<1> QED  BY <1>1, <1>3, <1>4 DEF Threads

(* The steps of a task, one lemma for each.                                *)
LEMMA SleepStep ==
  ASSUME RunInv, demo' = demo, NEW t \in Task, RunSleep(t)
  PROVE  Owners' /\ Threads' /\ Channels'
<1>1. /\ ~Over(t) /\ Instr(t).op \in {"sleep", "block"}
      /\ UNCHANGED <<st, chan, held, lock>>
      /\ Next1(t, <<>>) \/ Begin(t, clock + Instr(t).ms)
  BY DEF RunSleep, At
<1>2. Instr(t).ms \in Nat /\ Instr(t).op \notin Obtains /\ clock + Instr(t).ms \in Nat
  <2>1. Instr(t).ms \in Nat
    BY <1>1, InstrFacts
  <2> QED  BY <1>1, <2>1 DEF Obtains, RunInv
<1>3. Threads'
  BY <1>1, <1>2, NextThreads, BeginThreads, EmptyIsSequence
<1> QED  BY <1>1, <1>3, SameOwners, SameChannels

LEMMA SpawnStep ==
  ASSUME RunInv, demo' = demo, NEW t \in Task, RunSpawn(t)
  PROVE  Owners' /\ Threads' /\ Channels'
<1>1. PICK S : st' = [u \in Task |-> IF u \in S THEN "run" ELSE st[u]]
  BY DEF RunSpawn
<1>2. /\ ~Over(t) /\ Instr(t).op \notin Obtains /\ Next1(t, <<>>)
      /\ UNCHANGED <<chan, held, lock>>
  BY DEF RunSpawn, At, Obtains
<1> QED  BY <1>1, <1>2, BornOwners, NextThreads, EmptyIsSequence, SameChannels

LEMMA AwaitStep ==
  ASSUME RunInv, demo' = demo, NEW t \in Task, RunAwait(t)
  PROVE  Owners' /\ Threads' /\ Channels'
<1>1. PICK x : Next1(t, <<<<x>>>>)
  BY DEF RunAwait
<1>2. ~Over(t) /\ UNCHANGED <<st, chan, held, lock>>
  BY DEF RunAwait, At
<1>3. Known(<<<<x>>>>) /\ <<<<x>>>> # <<>>
  BY OneIsSequence, OneKnown
<1>4. Threads'
  BY <1>1, <1>2, <1>3, NextThreads
<1> QED  BY <1>2, <1>4, SameOwners, SameChannels

LEMMA AbortStep ==
  ASSUME RunInv, demo' = demo, NEW t \in Task, RunAbort(t)
  PROVE  Owners' /\ Threads' /\ Channels'
<1>1. PICK S : Finish(S, "cancelled")
  BY DEF RunAbort
<1>2. ~Over(t) /\ Instr(t).op \notin Obtains /\ Next1(t, <<>>) /\ chan' = chan
  BY DEF RunAbort, At, Obtains
<1>3. "cancelled" \in Fates
  BY DEF Fates
<1> QED  BY <1>1, <1>2, <1>3, FinishOwners, NextThreads, EmptyIsSequence, SameChannels

LEMMA StartStep ==
  ASSUME RunInv, demo' = demo, NEW t \in Task, Start(t)
  PROVE  Owners' /\ Threads' /\ Channels'
<1> DEFINE until == IF Instr(t).op = "timeout" THEN clock + Instr(t).ms ELSE clock
<1>1. PICK F : /\ st' = [c \in Task |-> IF c \in F THEN "run" ELSE st[c]]
               /\ pc' = [c \in Task |-> IF c \in F THEN 1 ELSE pc[c]]
               /\ wake' = [c \in Task |-> IF c = t THEN until
                                          ELSE IF c \in F THEN FirstWake(c) ELSE wake[c]]
  BY DEF Start
<1>2. ~Over(t) /\ UNCHANGED <<reg, chan, held, lock>>
  BY DEF Start, At
<1>3. Code' = Code /\ Task = Code /\ Threads /\ \A u : Script(u)' = Script(u)
  BY SameProgram DEF RunInv, Owners, Task, Script
<1>4. clock \in Nat /\ until \in Nat
  <2>1. Instr(t).op = "timeout" => Instr(t).ms \in Nat
    BY <1>2, InstrFacts
  <2>2. clock \in Nat
    BY DEF RunInv
  <2> QED  BY <2>1, <2>2
<1> HIDE DEF until
<1>5. ASSUME NEW c \in Code PROVE WellFormedTask(Script(c)) /\ FirstWake(c) \in Nat \cup {-1}
  <2>1. WellFormedTask(Script(c))
    BY ProgramsAssumption DEF RunInv, P, WellFormed, Script, Code
  <2>2. 1 \in DOMAIN Script(c)
    BY <2>1, SequenceIn, EmptySeq DEF WellFormedTask
  <2>3. Script(c)[1].op = "sleep" => Script(c)[1].ms \in Nat
    BY <2>1, <2>2 DEF WellFormedTask
  <2> QED  BY <1>4, <2>1, <2>3 DEF FirstWake
<1>6. pc' \in [Code -> Nat \ {0}] /\ wake' \in [Code -> Nat \cup {-1}]
  BY <1>1, <1>3, <1>4, <1>5 DEF Threads
<1>7. \A c \in Code : HasValue(Script(c), pc'[c]) => pc'[c] = pc[c]
  BY <1>1, <1>3, <1>5, NoValueAtStart
<1>8. Threads'
  BY <1>2, <1>3, <1>6, <1>7 DEF Threads
<1> QED  BY <1>1, <1>2, <1>8, BornOwners, SameChannels

LEMMA JoinedStep ==
  ASSUME RunInv, demo' = demo, NEW t \in Task, Joined(t)
  PROVE  Owners' /\ Threads' /\ Channels'
<1> DEFINE vs == [k \in DOMAIN Instr(t).tasks |-> <<Result(Instr(t).tasks[k])>>]
<1>1. ~Over(t) /\ Instr(t).op = "join" /\ Next1(t, vs) /\ UNCHANGED <<st, chan, held, lock>>
  BY DEF Joined, At
<1>2. DOMAIN Instr(t).tasks = 1..Len(Instr(t).tasks) /\ Len(Instr(t).tasks) \in Nat
  BY <1>1, InstrFacts, SequenceIn
<1>3. Known(vs)
  <2> DEFINE S == {vs[k] : k \in DOMAIN vs}
  <2>1. vs \in [1..Len(Instr(t).tasks) -> S]
    BY <1>2
  <2>2. \A k \in 1..Len(Instr(t).tasks) : IsSequence(vs[k])
    BY <1>2, OneIsSequence
  <2> HIDE DEF vs, S
  <2>3. IsSequence(vs) /\ Len(vs) = Len(Instr(t).tasks)
    BY <1>2, <2>1, FunctionIsSequence
  <2> QED  BY <2>2, <2>3 DEF Known
<1> HIDE DEF vs
<1>4. Threads'
  BY <1>1, <1>3, NextThreads DEF Obtains
<1> QED  BY <1>1, <1>4, SameOwners, SameChannels

LEMMA SelectedStep ==
  ASSUME RunInv, demo' = demo, NEW t \in Task, Selected(t)
  PROVE  Owners' /\ Threads' /\ Channels'
<1>1. PICK S, x :
        /\ Finish(S, "cancelled")
        /\ reg' = [reg EXCEPT ![t] = Append(@, <<x>>)]
        /\ pc' = pc \/ pc' = [pc EXCEPT ![t] = @ + 1]
        /\ wake' = [wake EXCEPT ![t] = -1]
  BY DEF Selected
<1>2. Code' = Code /\ Task = Code /\ Threads /\ \A u : Script(u)' = Script(u)
  BY SameProgram DEF RunInv, Owners, Task, Script
<1>3. chan' = chan /\ "cancelled" \in Fates
  BY DEF Selected, Fates
<1>4. /\ pc' \in [Code -> Nat \ {0}] /\ wake' \in [Code -> Nat \cup {-1}]
      /\ DOMAIN reg' = Code /\ reg'[t] = Append(reg[t], <<x>>)
      /\ \A u \in Code \ {t} : pc'[u] = pc[u] /\ reg'[u] = reg[u]
  BY <1>1, <1>2 DEF Threads
<1>5. Known(reg'[t]) /\ reg'[t] # <<>>
  <2>1. Known(reg[t]) /\ IsSequence(<<x>>)
    BY <1>2, OneIsSequence DEF Threads
  <2> QED  BY <1>4, <2>1, AppendKnown
<1>6. Threads'
  BY <1>2, <1>4, <1>5 DEF Threads
<1> QED  BY <1>1, <1>3, <1>6, FinishOwners, SameChannels

LEMMA TimeoutStep ==
  ASSUME RunInv, demo' = demo, NEW t \in Task, TimeoutOver(t)
  PROVE  Owners' /\ Threads' /\ Channels'
<1>1. ~Over(t) /\ chan' = chan /\ "cancelled" \in Fates
  BY DEF TimeoutOver, At, Fates
<1>2. PICK x, S : Next1(t, <<<<x>>>>) /\ (UNCHANGED <<st, held, lock>> \/ Finish(S, "cancelled"))
  BY DEF TimeoutOver
<1>3. Known(<<<<x>>>>) /\ <<<<x>>>> # <<>>
  BY OneIsSequence, OneKnown
<1>4. Owners'
  BY <1>1, <1>2, SameOwners, FinishOwners
<1> QED  BY <1>1, <1>2, <1>3, <1>4, NextThreads, SameChannels

LEMMA PutStep ==
  ASSUME RunInv, demo' = demo, NEW t \in Task, ~Over(t), Instr(t).op \notin Obtains,
         NEW ch, NEW items, IsSequence(items), Put(t, ch, items)
  PROVE  Owners' /\ Threads' /\ Channels'
<1>1. CASE Gone(ch) /\ At(t, "send_last")
  <2>1. Instr(t).op = "send_last" /\ pc' = [pc EXCEPT ![t] = Instr(t).gone]
        /\ UNCHANGED <<st, wake, reg, chan, held, lock>>
    BY <1>1 DEF Put, At
  <2>2. Instr(t).gone \in Jumps(Instr(t))
    BY Zenon, <2>1 DEF Jumps
  <2> QED  BY <2>1, <2>2, JumpThreads, SameOwners, SameChannels
<1>2. CASE Gone(ch) /\ ~At(t, "send_last")
  <2>1. "panicked" \in Fates /\ Finish(Running(Inside(t)), "panicked")
        /\ UNCHANGED <<pc, wake, reg, chan>>
    BY <1>2 DEF Put, Fates
  <2> QED  BY <2>1, FinishOwners, SameThreads, SameChannels
<1>3. CASE ~Gone(ch)
  <2>1. /\ Len(chan[ch]) + Len(items) <= P.cap[ch]
        /\ chan' = [chan EXCEPT ![ch] = @ \o items]
        /\ Next1(t, <<>>) /\ UNCHANGED <<st, held, lock>>
    BY <1>3 DEF Put
  <2>2. P' = P /\ Channels
    BY SameProgram DEF RunInv
  <2>3. ASSUME NEW c \in DOMAIN chan PROVE IsSequence(chan'[c]) /\ Len(chan'[c]) <= P.cap[c]
    <3>1. CASE c = ch
      <4>1. chan'[c] = chan[c] \o items /\ IsSequence(chan[c])
        BY <2>1, <2>2, <3>1 DEF Channels
      <4>2. IsSequence(chan'[c]) /\ Len(chan'[c]) = Len(chan[c]) + Len(items)
        BY <4>1, ConcatIsSequence
      <4> QED  BY <2>1, <3>1, <4>2
    <3>2. CASE c # ch
      BY <2>1, <2>2, <3>2 DEF Channels
    <3> QED  BY <3>1, <3>2
  <2>4. Channels'
    BY <2>1, <2>2, <2>3 DEF Channels
  <2> QED  BY <2>1, <2>4, SameOwners, NextThreads, EmptyIsSequence
<1> QED  BY <1>1, <1>2, <1>3

LEMMA SendStep ==
  ASSUME RunInv, demo' = demo, NEW t \in Task, RunSend(t)
  PROVE  Owners' /\ Threads' /\ Channels'
<1>1. /\ ~Over(t) /\ Instr(t).op \in {"send", "send_last", "reply"}
      /\ t \in Code /\ Threads
  BY InstrFacts DEF RunSend, At, RunInv
<1>2. Instr(t).op \notin Obtains
  BY <1>1 DEF Obtains
<1>3. CASE At(t, "send") /\ Put(t, Instr(t).ch, Instr(t).items)
  <2>1. IsSequence(Instr(t).items)
    BY <1>1, <1>3, InstrFacts DEF At
  <2> QED  BY <1>1, <1>2, <1>3, <2>1, PutStep
<1>4. CASE At(t, "send_last") /\ Put(t, Instr(t).ch, Last(reg[t]))
  <2>1. reg[t] # <<>> /\ Known(reg[t])
    BY <1>1, <1>4, InstrFacts DEF At, UsesLast, Threads
  <2>2. IsSequence(Last(reg[t]))
    BY <2>1, LastIsSequence
  <2> QED  BY <1>1, <1>2, <1>4, <2>2, PutStep
<1>5. CASE At(t, "reply") /\ Put(t, Last(reg[t])[1], Instr(t).items)
  <2>1. IsSequence(Instr(t).items)
    BY <1>1, <1>5, InstrFacts DEF At
  <2> QED  BY <1>1, <1>2, <1>5, <2>1, PutStep
<1> QED  BY <1>3, <1>4, <1>5 DEF RunSend

LEMMA ReceiveStep ==
  ASSUME RunInv, demo' = demo, NEW t \in Task, RunReceive(t)
  PROVE  Owners' /\ Threads' /\ Channels'
<1> DEFINE ch == Instr(t).ch
<1>1. ~Over(t) /\ Instr(t).op \in {"recv", "read"} /\ UNCHANGED <<st, held, lock>>
  BY DEF RunReceive, At
<1>2. ch \in DOMAIN P.cap /\ P' = P /\ Channels
  BY <1>1, InstrFacts, SameProgram DEF RunInv
<1>3. IsSequence(chan[ch]) /\ Len(chan[ch]) \in Nat /\ Len(chan[ch]) <= P.cap[ch] /\ ch \in DOMAIN chan
  BY <1>2 DEF Channels, IsSequence
<1>4. P.cap[ch] \in Nat
  BY <1>2, ProgramsAssumption DEF RunInv, P, WellFormed
<1>5. CASE chan[ch] = <<>> /\ UNCHANGED <<wake, reg, chan>> /\ pc' = [pc EXCEPT ![t] = Instr(t).closed]
  <2>1. Instr(t).closed \in Jumps(Instr(t))
    <3>1. Instr(t).op # "goto"
      BY <1>1
    <3> QED  BY Zenon, <1>1, <3>1 DEF Jumps
  <2> QED  BY <1>1, <1>5, <2>1, JumpThreads, SameOwners, SameChannels
<1>6. ASSUME NEW n \in Nat, n <= Len(chan[ch]),
             Next1(t, <<SubSeq(chan[ch], 1, n)>>),
             chan' = [chan EXCEPT ![ch] = SubSeq(@, n + 1, Len(@))]
      PROVE  Threads' /\ Channels'
  <2>1. /\ IsSequence(SubSeq(chan[ch], 1, n))
        /\ IsSequence(SubSeq(chan[ch], n + 1, Len(chan[ch])))
        /\ Len(SubSeq(chan[ch], n + 1, Len(chan[ch]))) <= Len(chan[ch])
    BY <1>3, <1>6, PartsAreSequences
  <2>2. chan'[ch] = SubSeq(chan[ch], n + 1, Len(chan[ch])) /\ DOMAIN chan' = DOMAIN chan
        /\ \A c \in DOMAIN chan \ {ch} : chan'[c] = chan[c]
    BY <1>3, <1>6
  <2>3. Len(chan'[ch]) \in Nat /\ Len(chan'[ch]) <= P.cap[ch] /\ IsSequence(chan'[ch])
    <3>1. Len(SubSeq(chan[ch], n + 1, Len(chan[ch]))) \in Nat
      BY <2>1 DEF IsSequence
    <3> HIDE DEF ch
    <3> QED  BY <1>3, <1>4, <2>1, <2>2, <3>1
  <2>4. Channels'
    BY <1>2, <2>2, <2>3 DEF Channels
  <2>5. Threads'
    BY <1>1, <1>6, <2>1, OneKnown, NextThreads
  <2> QED  BY <2>4, <2>5
<1>7. Threads' /\ Channels'
  <2>1. CASE \E n \in IF Instr(t).op = "recv" THEN 1..1 ELSE 1..Len(chan[ch]) :
               /\ n <= Len(chan[ch])
               /\ Next1(t, <<SubSeq(chan[ch], 1, n)>>)
               /\ chan' = [chan EXCEPT ![ch] = SubSeq(@, n + 1, Len(@))]
    <3>1. PICK n \in IF Instr(t).op = "recv" THEN 1..1 ELSE 1..Len(chan[ch]) :
               /\ n <= Len(chan[ch])
               /\ Next1(t, <<SubSeq(chan[ch], 1, n)>>)
               /\ chan' = [chan EXCEPT ![ch] = SubSeq(@, n + 1, Len(@))]
      BY <2>1
    <3>2. n \in Nat
      BY <1>3
    <3> QED  BY <1>6, <3>1, <3>2
  <2>2. CASE chan[ch] = <<>> /\ UNCHANGED <<wake, reg, chan>> /\ pc' = [pc EXCEPT ![t] = Instr(t).closed]
    BY <1>5, <2>2, SameChannels, SameThreads, JumpThreads, <1>1
  <2> QED  BY <2>1, <2>2 DEF RunReceive
<1> QED  BY <1>1, <1>7, SameOwners

LEMMA LocalStep ==
  ASSUME RunInv, demo' = demo, NEW t \in Task, RunLocal(t)
  PROVE  Owners' /\ Threads' /\ Channels'
<1>1. /\ ~Over(t) /\ st[t] = "run" /\ st' = st /\ chan' = chan
      /\ Instr(t).op \in {"drop", "lock", "unlock", "push", "goto"}
      /\ held' \subseteq held /\ (lock' \in {lock, "none"} \/ lock' = t)
  BY DEF RunLocal, At
<1>2. Owners'
  BY <1>1, SameOwners
<1>3. CASE Next1(t, <<>>)
  <2>1. Instr(t).op \notin Obtains
    BY <1>1 DEF Obtains
  <2> QED  BY <1>1, <1>2, <1>3, <2>1, NextThreads, EmptyIsSequence, SameChannels
<1>4. CASE At(t, "goto") /\ pc' = [pc EXCEPT ![t] = Instr(t).to] /\ UNCHANGED <<wake, reg>>
  <2>1. Instr(t).to \in Jumps(Instr(t))
    BY <1>4 DEF Jumps, At
  <2> QED  BY <1>1, <1>2, <1>4, <2>1, JumpThreads, SameChannels
<1> QED  BY <1>3, <1>4 DEF RunLocal

LEMMA PanicStep ==
  ASSUME RunInv, demo' = demo, NEW t \in Task, RunPanic(t)
  PROVE  Owners' /\ Threads' /\ Channels'
<1>1. Finish(Running(Inside(t)), "panicked") /\ UNCHANGED <<pc, wake, reg, chan>>
      /\ "panicked" \in Fates
  BY DEF RunPanic, Fates
<1> QED  BY <1>1, FinishOwners, SameThreads, SameChannels

LEMMA ReturnStep ==
  ASSUME RunInv, demo' = demo, NEW t \in Task, Return(t)
  PROVE  Owners' /\ Threads' /\ Channels'
<1>1. UNCHANGED <<pc, wake, reg, chan>> /\ "done" \in Fates
  BY DEF Return, Fates
<1>2. Owners'
  <2>1. CASE t = "main"
    <3>1. Code' = Code /\ Task = Code /\ Owners
      BY SameProgram DEF RunInv, Owners, Task
    <3>2. /\ st' = [u \in Code |-> IF u = t THEN "done"
                                   ELSE IF st[u] = "run" THEN "cancelled" ELSE st[u]]
          /\ held' = {} /\ lock' = "none"
      BY <2>1, <3>1 DEF Return
    <3>3. st' \in [Code -> Fates]
      BY <3>1, <3>2 DEF Owners, Fates
    <3> QED  BY <3>1, <3>2, <3>3 DEF Owners
  <2>2. CASE t # "main"
    BY <1>1, <2>2, FinishOwners DEF Return
  <2> QED  BY <2>1, <2>2
<1> QED  BY <1>1, <1>2, SameThreads, SameChannels

LEMMA StepRunInv ==
  ASSUME RunInv, NEW t \in Task, Step(t)
  PROVE  RunInv'
<1>1. UNCHANGED <<demo, workers, clock>>
  BY DEF Step
<1>2. Owners' /\ Threads' /\ Channels'
  BY <1>1, SleepStep, SpawnStep, AwaitStep, AbortStep, StartStep, JoinedStep, SelectedStep,
     TimeoutStep, SendStep, ReceiveStep, LocalStep, PanicStep, ReturnStep DEF Step
<1> QED  BY <1>1, <1>2 DEF RunInv

(* The clock goes to the next deadline, which is one of them.              *)
LEMMA MinIsOneOf ==
  ASSUME NEW S \in SUBSET Nat, S # {}
  PROVE  Min(S) \in S
<1> DEFINE R == {ss \in Nat \X Nat : ss[1] < ss[2]}
<1>1. \E n \in S : \A m \in S : n <= m
  <2>1. IsWellFoundedOn(R, Nat)
    BY NatLessThanWellFounded DEF OpToRel
  <2>2. \A m, n \in Nat : ~(<<m, n>> \in R) => n <= m
    OBVIOUS
  <2> HIDE DEF R
  <2>3. \E n \in S : \A m \in S : ~(<<m, n>> \in R)
    BY <2>1, WFMin, S \subseteq Nat
  <2> QED  BY <2>2, <2>3, S \subseteq Nat
<1> QED  BY <1>1 DEF Min

LEMMA TickRunInv ==
  ASSUME RunInv, Tick
  PROVE  RunInv'
<1> DEFINE due == {wake[t] : t \in {u \in Task : st[u] = "run" /\ wake[u] > clock}}
<1>1. due # {} /\ clock' = Min(due)
      /\ UNCHANGED <<demo, workers, st, pc, wake, reg, chan, held, lock>>
  BY DEF Tick
<1>2. due \subseteq Nat
  BY DEF RunInv, Owners, Threads, Task
<1> HIDE DEF due
<1>3. clock' \in Nat
  BY <1>1, <1>2, MinIsOneOf
<1>4. Owners' /\ Threads' /\ Channels'
  BY <1>1, SameOwners, SameThreads, SameChannels
<1> QED  BY <1>1, <1>3, <1>4 DEF RunInv

LEMMA InitRunInv ==
  ASSUME NEW d \in DOMAIN Programs, NEW w \in 1..MaxWorkers, InitRun(d, w)
  PROVE  RunInv
<1>1. /\ demo = d /\ workers = w /\ clock = 0 /\ P = Programs[d] /\ WellFormed(P)
      /\ held = Senders(P) /\ lock = "none"
      /\ chan = [ch \in DOMAIN P.cap |-> <<>>]
      /\ st = [t \in Code |-> IF t = "main" THEN "run" ELSE "unborn"]
      /\ pc = [t \in Code |-> 1] /\ wake = [t \in Code |-> -1] /\ reg = [t \in Code |-> <<>>]
  BY ProgramsAssumption DEF InitRun, P, Code
<1>2. Owners
  <2>1. st \in [Code -> Fates] /\ \A t \in Code : ~Ended(t)
    BY <1>1 DEF Fates, Ended
  <2>2. \A h \in held : h[1] \in Code
    BY <1>1 DEF Senders, WellFormed, Code
  <2> QED  BY <1>1, <2>1, <2>2 DEF Owners
<1>3. Threads
  <2>1. \A t \in Code : Script(t) = P.code[t] /\ WellFormedTask(Script(t))
    BY <1>1 DEF Code, Script, WellFormed
  <2>2. \A t \in Code : ~HasValue(Script(t), pc[t])
    BY <1>1, <2>1, NoValueAtStart
  <2>3. \A t \in Code : Known(reg[t])
    BY <1>1, EmptyIsSequence
  <2> QED  BY <1>1, <2>2, <2>3 DEF Threads
<1>4. Channels
  BY <1>1, EmptyIsSequence DEF Channels, WellFormed
<1> QED  BY <1>1, <1>2, <1>3, <1>4 DEF RunInv

LEMMA RunInvHolds == Spec => []RunInv
<1>1. Init => RunInv
  BY InitRunInv, ProgramsAssumption, MaxWorkersAssumption DEF Init, Demos
<1>2. RunInv /\ [Next]_vars => RunInv'
  <2> SUFFICES ASSUME RunInv, [Next]_vars PROVE RunInv'
    OBVIOUS
  <2>1. CASE UNCHANGED rtvars
    <3>1. UNCHANGED <<demo, workers, clock, st, pc, wake, reg, chan, held, lock>>
      BY <2>1 DEF rtvars
    <3>2. Owners' /\ Threads' /\ Channels'
      BY <3>1, SameOwners, SameThreads, SameChannels
    <3> QED  BY <3>1, <3>2 DEF RunInv
  <2>2. CASE RunNext
    BY <2>2, StepRunInv, TickRunInv DEF RunNext
  <2> QED  BY <2>1, <2>2 DEF Next, vars
<1> QED  BY <1>1, <1>2, PTL DEF Spec

(* For every well-formed set of programs, not only the examples': a        *)
(* channel never holds more than its capacity, however its senders are     *)
(* interleaved, and neither abort, cancellation by select! or timeout nor  *)
(* a panic leaves a sender or a guard with a task that is gone.            *)
THEOREM TypeCorrect == Spec => []TypeOK
<1>1. RunInv /\ FutInv => TypeOK
  <2> SUFFICES ASSUME RunInv, FutInv PROVE TypeOK
    OBVIOUS
  <2>1. demo \in Demos \cup {"none"} /\ workers \in 1..MaxWorkers /\ clock \in Nat
    BY DEF RunInv, Demos
  <2>2. /\ Task = Code /\ st \in [Task -> {"unborn", "run", "done", "panicked", "cancelled"}]
        /\ \A h \in held : ~Ended(h[1])
        /\ lock \in Task \cup {"none"} /\ (lock # "none" => st[lock] = "run")
    BY DEF RunInv, Owners, Task, Fates
  <2>3. \A ch \in DOMAIN chan : Len(chan[ch]) <= P.cap[ch]
    BY DEF RunInv, Channels
  <2>4. fut \in Kinds \cup {"none"} /\ polls \in Nat /\ spurious \in 0..MaxSpurious
    BY DEF FutInv
  <2>5. alarms \in 0..1
    BY DEF FutInv, CountdownInv, DelayedInv, TwoStepInv, AsyncFnInv, Kinds
  <2> QED  BY <2>1, <2>2, <2>3, <2>4, <2>5 DEF TypeOK
<1> QED  BY <1>1, RunInvHolds, FutInvHolds, PTL
=============================================================================
