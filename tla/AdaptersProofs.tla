--------------------------- MODULE AdaptersProofs ---------------------------
(***************************************************************************)
(* Theorems about the adapters, for any devices, any relative motions and  *)
(* limit, and any bounds on the user's events and on the handoffs:         *)
(*   QueuesLeadToUser        the inductive invariant AdaptersInv           *)
(*   RemoteHoldsWhatUserHolds  HeldMatchesUser                             *)
(*   OwnReleaseNeverEnds     NoFalseLoss                                   *)
(*   ClicksWhereMeant        ClickWhereMeant                               *)
(*                                                                         *)
(* First what runs are (concatenated, appended to, read from the front);   *)
(* then what each event and report does to the run it is part of, and, by  *)
(* induction, what a whole batch does; then the steps, one lemma each.     *)
(***************************************************************************)
EXTENDS AdaptersInvariant, FiniteSetTheorems, WellFoundedInduction, TLAPS

-----------------------------------------------------------------------------
(* Induction: a set of numbers that is not empty has a least element.      *)

Less == {ss \in Nat \X Nat : ss[1] < ss[2]}

\* A set of numbers that is not empty has a least element.
LEMMA LeastNumber ==
  ASSUME NEW T \in SUBSET Nat, T # {}
  PROVE  \E x \in T : \A y \in T : x <= y
<1>1. OpToRel(<, Nat) = Less
  BY DEF OpToRel, Less
<1>2. IsWellFoundedOn(Less, Nat)
  BY <1>1, NatLessThanWellFounded
<1>3. PICK x \in T : \A y \in T : <<y, x>> \notin Less
  BY <1>2, WFMin
<1>4. ASSUME NEW y \in T PROVE x <= y
  <2>1. <<y, x>> \notin Less /\ <<y, x>> \in Nat \X Nat
    BY <1>3
  <2>2. ~ (y < x)
    BY <2>1 DEF Less
  <2> QED BY <2>2
<1> QED BY <1>4

\* What holds of 0, and of the number after each of which it holds, holds of all
\* of an initial segment.
LEMMA Induction ==
  ASSUME NEW n \in Nat, NEW T, 0 \in T,
         \A i \in 1..n : i - 1 \in T => i \in T
  PROVE  \A i \in 0..n : i \in T
<1> DEFINE U == {i \in 0..n : i \notin T}
<1> SUFFICES ASSUME U # {} PROVE FALSE
  OBVIOUS
<1>0. U \in SUBSET Nat
  OBVIOUS
<1>1. PICK x \in U : \A y \in U : x <= y
  BY <1>0, LeastNumber
<1>2. x \in 1..n
  BY <1>1
<1>3. x - 1 \in T
  BY <1>1, <1>2
<1> QED BY <1>1, <1>2, <1>3

-----------------------------------------------------------------------------
(* Runs *)

\* The empty queue leads nowhere.
LEMMA RunEmpty ==
  ASSUME NEW R, NEW S, NEW u \in S
  PROVE  /\ Run(R, S, <<>>, u, u)
         /\ \A v : Run(R, S, <<>>, u, v) => v = u
<1> DEFINE s == [i \in 0..0 |-> u]
<1>1. s \in [0..0 -> S] /\ s[0] = u /\ Len(<<>>) = 0
  OBVIOUS
<1> HIDE DEF s
<1>2. Run(R, S, <<>>, u, u)
  BY <1>1 DEF Run
<1>3. ASSUME NEW v, Run(R, S, <<>>, u, v) PROVE v = u
  BY <1>3 DEF Run
<1> QED BY <1>2, <1>3

\* A queue of one event takes one step.
LEMMA RunOne ==
  ASSUME NEW R, NEW S, NEW u \in S, NEW e, NEW v \in S, <<u, e, v>> \in R
  PROVE  Run(R, S, <<e>>, u, v)
<1> DEFINE s == [i \in 0..1 |-> IF i = 0 THEN u ELSE v]
<1>1. s \in [0..Len(<<e>>) -> S] /\ s[0] = u /\ s[1] = v
  OBVIOUS
<1>2. \A i \in 1..1 : <<s[i - 1], <<e>>[i], s[i]>> \in R
  BY <1>1
<1> HIDE DEF s
<1> QED BY <1>1, <1>2 DEF Run

\* One queue after another.
LEMMA RunConcat ==
  ASSUME NEW R, NEW S, NEW E, NEW p \in Seq(E), NEW q \in Seq(E), NEW u, NEW v, NEW w,
         Run(R, S, p, u, v), Run(R, S, q, v, w)
  PROVE  Run(R, S, p \o q, u, w)
<1>1. PICK s \in [0..Len(p) -> S] :
        s[0] = u /\ s[Len(p)] = v /\ \A i \in 1..Len(p) : <<s[i - 1], p[i], s[i]>> \in R
  BY DEF Run
<1>2. PICK t \in [0..Len(q) -> S] :
        t[0] = v /\ t[Len(q)] = w /\ \A i \in 1..Len(q) : <<t[i - 1], q[i], t[i]>> \in R
  BY DEF Run
<1>3. /\ Len(p) \in Nat /\ Len(q) \in Nat /\ Len(p \o q) = Len(p) + Len(q)
      /\ \A i \in 1..Len(p) : (p \o q)[i] = p[i]
      /\ \A i \in 1..Len(q) : (p \o q)[Len(p) + i] = q[i]
  OBVIOUS
<1> DEFINE r == [i \in 0..(Len(p) + Len(q)) |-> IF i <= Len(p) THEN s[i] ELSE t[i - Len(p)]]
<1>4. r \in [0..Len(p \o q) -> S]
  BY <1>1, <1>2, <1>3
<1>5. r[0] = u /\ r[Len(p) + Len(q)] = w
  BY <1>1, <1>2, <1>3
<1>6. ASSUME NEW i \in 1..(Len(p) + Len(q))
      PROVE  <<r[i - 1], (p \o q)[i], r[i]>> \in R
  <2>1. CASE i <= Len(p)
    <3>1. r[i - 1] = s[i - 1] /\ r[i] = s[i] /\ i \in 1..Len(p)
      BY <2>1, <1>3
    <3> QED BY <3>1, <1>1, <1>3
  <2>2. CASE i > Len(p)
    <3>1. /\ i - Len(p) \in 1..Len(q) /\ r[i] = t[i - Len(p)]
          /\ (p \o q)[i] = q[i - Len(p)]
      <4>1. i - Len(p) \in 1..Len(q) /\ i = Len(p) + (i - Len(p))
        BY <2>2, <1>3
      <4> QED BY <4>1, <2>2, <1>3
    <3>2. r[i - 1] = t[(i - Len(p)) - 1]
      <4>1. CASE i - 1 = Len(p)
        BY <4>1, <1>1, <1>2, <1>3
      <4>2. CASE i - 1 > Len(p)
        <5>1. (i - 1) - Len(p) = (i - Len(p)) - 1 /\ i - 1 \in 0..(Len(p) + Len(q))
          BY <4>2, <2>2, <1>3
        <5> QED BY <5>1, <4>2, <1>3
      <4>3. i - 1 = Len(p) \/ i - 1 > Len(p)
        BY <2>2, <1>3
      <4> QED BY <4>1, <4>2, <4>3
    <3> HIDE DEF r
    <3>3. <<t[(i - Len(p)) - 1], q[i - Len(p)], t[i - Len(p)]>> \in R
      BY <3>1, <1>2
    <3> QED BY <3>1, <3>2, <3>3
  <2>3. i <= Len(p) \/ i > Len(p)
    BY <1>3
  <2> HIDE DEF r
  <2> QED BY <2>1, <2>2, <2>3
<1> HIDE DEF r
<1> QED BY <1>3, <1>4, <1>5, <1>6 DEF Run

\* One more event at the end of a queue.
LEMMA RunAppend ==
  ASSUME NEW R, NEW S, NEW E, NEW q \in Seq(E), NEW e \in E, NEW u, NEW v \in S, NEW w \in S,
         Run(R, S, q, u, v), <<v, e, w>> \in R
  PROVE  Run(R, S, Append(q, e), u, w)
<1>1. Run(R, S, <<e>>, v, w)
  BY RunOne
<1>2. Append(q, e) = q \o <<e>> /\ <<e>> \in Seq(E)
  OBVIOUS
<1> QED BY <1>1, <1>2, RunConcat

\* The first step of a queue.
LEMMA RunTail ==
  ASSUME NEW R, NEW S, NEW E, NEW q \in Seq(E), q # <<>>, NEW u, NEW w, Run(R, S, q, u, w)
  PROVE  \E v \in S : <<u, Head(q), v>> \in R /\ Run(R, S, Tail(q), v, w)
<1>1. PICK s \in [0..Len(q) -> S] :
        s[0] = u /\ s[Len(q)] = w /\ \A i \in 1..Len(q) : <<s[i - 1], q[i], s[i]>> \in R
  BY DEF Run
<1>2. /\ Len(q) \in Nat /\ Len(q) > 0 /\ Head(q) = q[1] /\ Len(Tail(q)) = Len(q) - 1
      /\ \A i \in 1..(Len(q) - 1) : Tail(q)[i] = q[i + 1]
  OBVIOUS
<1> DEFINE t == [i \in 0..(Len(q) - 1) |-> s[i + 1]]
<1>3. t \in [0..Len(Tail(q)) -> S] /\ t[0] = s[1] /\ t[Len(q) - 1] = w
  BY <1>1, <1>2
<1>4. ASSUME NEW i \in 1..(Len(q) - 1) PROVE <<t[i - 1], Tail(q)[i], t[i]>> \in R
  <2>1. t[i - 1] = s[i] /\ t[i] = s[i + 1] /\ i + 1 \in 1..Len(q) /\ (i + 1) - 1 = i
    BY <1>2
  <2> QED BY <2>1, <1>1, <1>2
<1> HIDE DEF t
<1>5. Run(R, S, Tail(q), s[1], w)
  BY <1>2, <1>3, <1>4 DEF Run
<1>6. <<u, Head(q), s[1]>> \in R /\ s[1] \in S
  BY <1>1, <1>2
<1> QED BY <1>5, <1>6

-----------------------------------------------------------------------------
(* The folds of drain_batch and of the trackpad's reports *)

\* What drain_batch goes through, event by event.
LEMMA BatchFold ==
  ASSUME Len(eis) \in Nat
  PROVE  \E f : /\ f[0] = adapter
                /\ \A n \in 1..Len(eis) : f[n] = DrainEvent(f[n - 1], eis[n])
                /\ DrainBatch = FlushMotion(f[Len(eis)])
<1> DEFINE Is(f, m) == f = [n \in 0..m |-> IF n = 0 THEN adapter ELSE DrainEvent(f[n - 1], eis[n])]
           T == {m \in Nat : \E f : Is(f, m)}
<1>1. 0 \in T
  <2>1. Is([n \in 0..0 |-> adapter], 0)
    OBVIOUS
  <2> QED BY <2>1
<1>2. ASSUME NEW m \in 1..Len(eis), m - 1 \in T PROVE m \in T
  <2>1. PICK f : Is(f, m - 1)
    BY <1>2
  <2> DEFINE g == [n \in 0..m |-> IF n = m THEN DrainEvent(f[m - 1], eis[m]) ELSE f[n]]
  <2>2. \A n \in 0..(m - 1) : g[n] = f[n]
    OBVIOUS
  <2>3. ASSUME NEW n \in 0..m
        PROVE  g[n] = IF n = 0 THEN adapter ELSE DrainEvent(g[n - 1], eis[n])
    <3>1. CASE n = m
      <4>1. g[n] = DrainEvent(f[m - 1], eis[m]) /\ g[m - 1] = f[m - 1] /\ n # 0
        BY <3>1, <2>2
      <4> QED BY <4>1, <3>1
    <3>2. CASE n # m
      <4>1. n \in 0..(m - 1) /\ g[n] = f[n]
        BY <3>2, <2>2
      <4>2. f[n] = IF n = 0 THEN adapter ELSE DrainEvent(f[n - 1], eis[n])
        BY <2>1, <4>1
      <4>3. n # 0 => g[n - 1] = f[n - 1]
        BY <4>1, <2>2
      <4> QED BY <4>1, <4>2, <4>3
    <3> QED BY <3>1, <3>2
  <2>4. Is(g, m)
    <3>1. g = [n \in 0..m |-> g[n]]
      OBVIOUS
    <3> HIDE DEF g
    <3> QED BY <3>1, <2>3
  <2> HIDE DEF Is
  <2> QED BY <2>4
<1>3. Len(eis) \in T
  <2> HIDE DEF T
  <2>1. \A i \in 0..Len(eis) : i \in T
    BY <1>1, <1>2, Induction
  <2> QED BY <2>1
<1> DEFINE after == CHOOSE f : Is(f, Len(eis))
<1>4. Is(after, Len(eis))
  BY <1>3
<1>5. DrainBatch = FlushMotion(after[Len(eis)])
  BY DEF DrainBatch
<1> HIDE DEF after
<1>6. /\ after[0] = adapter
      /\ \A n \in 1..Len(eis) : after[n] = DrainEvent(after[n - 1], eis[n])
  BY <1>4
<1> QED BY <1>5, <1>6

\* What the trackpad's reader goes through, report by report.
LEMMA ReportFold ==
  ASSUME Len(ring) \in Nat
  PROVE  \E f : /\ f[0] = [raw |-> adapter.raw, out |-> <<>>]
                /\ \A n \in 1..Len(ring) : f[n] = Process(f[n - 1], ring[n])
                /\ DrainTrackpad = f[Len(ring)]
<1> DEFINE start == [raw |-> adapter.raw, out |-> <<>>]
           Is(f, m) == f = [n \in 0..m |-> IF n = 0 THEN start ELSE Process(f[n - 1], ring[n])]
           T == {m \in Nat : \E f : Is(f, m)}
<1>1. 0 \in T
  <2>1. Is([n \in 0..0 |-> start], 0)
    OBVIOUS
  <2> QED BY <2>1
<1>2. ASSUME NEW m \in 1..Len(ring), m - 1 \in T PROVE m \in T
  <2>1. PICK f : Is(f, m - 1)
    BY <1>2
  <2> DEFINE g == [n \in 0..m |-> IF n = m THEN Process(f[m - 1], ring[m]) ELSE f[n]]
  <2>2. \A n \in 0..(m - 1) : g[n] = f[n]
    OBVIOUS
  <2>3. ASSUME NEW n \in 0..m
        PROVE  g[n] = IF n = 0 THEN start ELSE Process(g[n - 1], ring[n])
    <3>1. CASE n = m
      <4>1. g[n] = Process(f[m - 1], ring[m]) /\ g[m - 1] = f[m - 1] /\ n # 0
        BY <3>1, <2>2
      <4> QED BY <4>1, <3>1
    <3>2. CASE n # m
      <4>1. n \in 0..(m - 1) /\ g[n] = f[n]
        BY <3>2, <2>2
      <4>2. f[n] = IF n = 0 THEN start ELSE Process(f[n - 1], ring[n])
        BY <2>1, <4>1
      <4>3. n # 0 => g[n - 1] = f[n - 1]
        BY <4>1, <2>2
      <4> QED BY <4>1, <4>2, <4>3
    <3> QED BY <3>1, <3>2
  <2>4. Is(g, m)
    <3>1. g = [n \in 0..m |-> g[n]]
      OBVIOUS
    <3> HIDE DEF g
    <3> QED BY <3>1, <2>3
  <2> HIDE DEF Is
  <2> QED BY <2>4
<1>3. Len(ring) \in T
  <2> HIDE DEF T
  <2>1. \A i \in 0..Len(ring) : i \in T
    BY <1>1, <1>2, Induction
  <2> QED BY <2>1
<1> DEFINE after == CHOOSE f : Is(f, Len(ring))
<1>4. Is(after, Len(ring))
  BY <1>3
<1>5. DrainTrackpad = after[Len(ring)]
  BY DEF DrainTrackpad
<1> HIDE DEF after
<1>6. /\ after[0] = start
      /\ \A n \in 1..Len(ring) : after[n] = Process(after[n - 1], ring[n])
  BY <1>4
<1> QED BY <1>5, <1>6

-----------------------------------------------------------------------------
(* What drain_batch does with an event *)

\* The fields that no captured event changes.
SameCapture(a, b) == b.active = a.active /\ b.expected = a.expected /\ b.raw = a.raw

\* flush of the coalesced motion.
LEMMA Flushed ==
  ASSUME NEW a \in AdapterStates
  PROVE  /\ FlushMotion(a) \in AdapterStates
         /\ FlushMotion(a).motion = 0 /\ SameCapture(a, FlushMotion(a))
         /\ FlushMotion(a).position = a.position /\ FlushMotion(a).remainder = a.remainder
         /\ FlushMotion(a).smooth = a.smooth /\ FlushMotion(a).pinch = a.pinch
         /\ a.motion = 0 => FlushMotion(a).pending = a.pending
         /\ a.motion # 0 => FlushMotion(a).pending = Append(a.pending, Motion(a.motion))
<1>1. CASE a.motion = 0
  BY <1>1 DEF FlushMotion, SameCapture
<1>2. CASE a.motion # 0
  <2> DEFINE q == Append(a.pending, Motion(a.motion))
  <2>1. q \in Seq(OutEvents)
    <3>1. Motion(a.motion) \in OutEvents
      BY DEF Motion, OutEvents, AdapterStates
    <3> QED BY <3>1 DEF AdapterStates
  <2>2. FlushMotion(a) = [a EXCEPT !.pending = q, !.motion = 0]
    BY <1>2 DEF FlushMotion
  <2> HIDE DEF q
  <2>4. FlushMotion(a) \in AdapterStates
    <3>1. FlushMotion(a) =
            [active |-> a.active, expected |-> a.expected, position |-> a.position,
             remainder |-> a.remainder, motion |-> 0, smooth |-> a.smooth, pinch |-> a.pinch,
             raw |-> a.raw, pending |-> q]
      BY <2>2 DEF AdapterStates
    <3> QED BY <3>1, <2>1 DEF AdapterStates
  <2>3. /\ FlushMotion(a) \in AdapterStates
        /\ FlushMotion(a).motion = 0 /\ SameCapture(a, FlushMotion(a))
        /\ FlushMotion(a).position = a.position /\ FlushMotion(a).remainder = a.remainder
        /\ FlushMotion(a).smooth = a.smooth /\ FlushMotion(a).pinch = a.pinch
        /\ FlushMotion(a).pending = q
    BY <2>1, <2>2, <2>4 DEF AdapterStates, SameCapture
  <2> QED BY <2>3, <1>2 DEF q
<1> QED BY <1>1, <1>2

\* Transitions are queued behind the motion before them.
LEMMA Queued ==
  ASSUME NEW a \in AdapterStates, NEW events \in Seq(OutEvents)
  PROVE  /\ Queue(a, events) \in AdapterStates
         /\ Queue(a, events).motion = 0 /\ SameCapture(a, Queue(a, events))
         /\ Queue(a, events).position = a.position /\ Queue(a, events).remainder = a.remainder
         /\ Queue(a, events).smooth = a.smooth /\ Queue(a, events).pinch = a.pinch
         /\ Queue(a, events).pending = FlushMotion(a).pending \o events
<1> DEFINE b == FlushMotion(a)
           q == b.pending \o events
<1>1. /\ b \in AdapterStates /\ b.motion = 0 /\ SameCapture(a, b) /\ b.position = a.position
      /\ b.remainder = a.remainder /\ b.smooth = a.smooth /\ b.pinch = a.pinch
  BY Flushed
<1>2. Queue(a, events) = [b EXCEPT !.pending = q]
  BY DEF Queue
<1>3. q \in Seq(OutEvents)
  <2>1. b.pending \in Seq(OutEvents)
    BY <1>1 DEF AdapterStates
  <2> HIDE DEF b
  <2> QED BY <2>1
<1> HIDE DEF b, q
<1>4. /\ Queue(a, events) \in AdapterStates
      /\ Queue(a, events).motion = 0 /\ SameCapture(a, Queue(a, events))
      /\ Queue(a, events).position = a.position /\ Queue(a, events).remainder = a.remainder
      /\ Queue(a, events).smooth = a.smooth /\ Queue(a, events).pinch = a.pinch
      /\ Queue(a, events).pending = q
  BY <1>1, <1>2, <1>3 DEF AdapterStates, SameCapture
<1> QED BY <1>4 DEF b, q

\* A step of the injector for one event.
LEMMA StepRuns ==
  ASSUME NEW l \in Ledgers, NEW e \in OutEvents, NEW m \in Ledgers, InjectorStep(l, e, m)
  PROVE  InjectorRun(<<e>>, l, m)
<1>1. <<l, e, m>> \in InjectorSteps
  BY DEF InjectorSteps
<1> QED BY <1>1, RunOne DEF InjectorRun

\* The empty queue leaves the ledgers alone.
LEMMA NoEventRuns ==
  ASSUME NEW l \in Ledgers
  PROVE  InjectorRun(<<>>, l, l) /\ \A m : InjectorRun(<<>>, l, m) => m = l
BY RunEmpty DEF InjectorRun

\* One queue of the injector after another.
LEMMA InjectorConcat ==
  ASSUME NEW p \in Seq(OutEvents), NEW q \in Seq(OutEvents), NEW l, NEW m, NEW n,
         InjectorRun(p, l, m), InjectorRun(q, m, n)
  PROVE  InjectorRun(p \o q, l, n)
BY RunConcat DEF InjectorRun

\* The ledgers once the coalesced motion has been injected.
MovedOn(l, d) == [l EXCEPT !.moved = @ + d]

\* The ledgers after the coalesced motion differ in the distance moved only.
LEMMA MovedOnIs ==
  ASSUME NEW l \in Ledgers, NEW d \in Int
  PROVE  /\ MovedOn(l, d) \in Ledgers /\ MovedOn(l, d).moved = l.moved + d
         /\ MovedOn(l, d).pressed = l.pressed /\ MovedOn(l, d).touches = l.touches
         /\ d = 0 => MovedOn(l, d) = l
BY DEF MovedOn, Ledgers

\* The flushed motion moves the injector by as much.
LEMMA FlushLeads ==
  ASSUME NEW a \in AdapterStates, NEW l, NEW m \in Ledgers, InjectorRun(a.pending, l, m)
  PROVE  InjectorRun(FlushMotion(a).pending, l, MovedOn(m, a.motion))
<1>1. a.motion \in Int /\ a.pending \in Seq(OutEvents)
  BY DEF AdapterStates
<1>2. CASE a.motion = 0
  BY <1>1, <1>2, Flushed, MovedOnIs
<1>3. CASE a.motion # 0
  <2> DEFINE e == Motion(a.motion)
             n == MovedOn(m, a.motion)
  <2>1. e \in OutEvents /\ e.kind = "motion" /\ e.by = a.motion
    BY <1>1 DEF Motion, OutEvents
  <2>2. n \in Ledgers /\ n = Injected(m, e)
    BY <1>1, <2>1, MovedOnIs DEF Injected, MovedOn
  <2>3. FlushMotion(a).pending = Append(a.pending, e)
    BY <1>3, Flushed
  <2> HIDE DEF e, n
  <2>4. InjectorStep(m, e, n)
    <3>1. TouchAllowed(m, e)
      BY <2>1 DEF TouchAllowed
    <3>2. ~(e.kind = "key" /\ e.code = Button /\ e.down)
      BY <2>1
    <3> QED BY <3>1, <3>2, <2>2 DEF InjectorStep
  <2>5. <<m, e, n>> \in InjectorSteps
    BY <2>1, <2>2, <2>4 DEF InjectorSteps
  <2>6. InjectorRun(Append(a.pending, e), l, n)
    BY <1>1, <2>1, <2>2, <2>5, RunAppend DEF InjectorRun
  <2> QED BY <2>3, <2>6 DEF n
<1> QED BY <1>2, <1>3

\* What is queued behind the motion leads on from where the motion leads.
LEMMA QueueLeads ==
  ASSUME NEW a \in AdapterStates, NEW events \in Seq(OutEvents), NEW l, NEW m \in Ledgers,
         NEW n \in Ledgers, InjectorRun(a.pending, l, m),
         InjectorRun(events, MovedOn(m, a.motion), n)
  PROVE  InjectorRun(Queue(a, events).pending, l, n)
<1>1. InjectorRun(FlushMotion(a).pending, l, MovedOn(m, a.motion))
  BY FlushLeads
<1>2. FlushMotion(a).pending \in Seq(OutEvents)
  BY Flushed DEF AdapterStates
<1>3. Queue(a, events).pending = FlushMotion(a).pending \o events
  BY Queued
<1> QED BY <1>1, <1>2, <1>3, InjectorConcat

-----------------------------------------------------------------------------
(* Single events at the injector *)

\* A key or a button is pressed, a button near to where it was meant to be.
LEMMA PressRuns ==
  ASSUME NEW l \in Ledgers, NEW code \in Controls, NEW at \in Places,
         code # Button \/ Near(at, 2 * l.moved)
  PROVE  /\ Key(code, TRUE, at) \in OutEvents
         /\ \E m \in Ledgers :
              /\ InjectorRun(<<Key(code, TRUE, at)>>, l, m)
              /\ m.touches = l.touches /\ m.moved = l.moved
              /\ m.pressed = l.pressed \union {code}
<1> DEFINE e == Key(code, TRUE, at)
<1>1. e \in OutEvents /\ e.kind = "key" /\ e.code = code /\ e.down = TRUE /\ e.at = at
  BY DEF Key, OutEvents
<1> HIDE DEF e
<1> DEFINE m == Injected(l, e)
<1>2. m = [l EXCEPT !.pressed = IF e.down THEN @ \union {e.code} ELSE @ \ {e.code}]
  BY <1>1 DEF Injected
<1>3. m \in Ledgers /\ m.touches = l.touches /\ m.moved = l.moved /\ m.pressed = l.pressed \union {code}
  BY <1>1, <1>2 DEF Ledgers
<1>4. InjectorStep(l, e, m)
  BY <1>1 DEF InjectorStep, TouchAllowed
<1> HIDE DEF m
<1>5. InjectorRun(<<e>>, l, m)
  BY <1>1, <1>3, <1>4, StepRuns
<1> QED BY <1>1, <1>3, <1>5 DEF e

\* Ctrl is pressed.
LEMMA CtrlPressRuns ==
  ASSUME NEW l \in Ledgers
  PROVE  /\ Key(LeftCtrl, TRUE, Nowhere) \in OutEvents
         /\ \E m \in Ledgers :
              /\ InjectorRun(<<Key(LeftCtrl, TRUE, Nowhere)>>, l, m)
              /\ m.touches = l.touches /\ m.moved = l.moved
              /\ m.pressed = l.pressed \union {LeftCtrl}
<1>1. LeftCtrl \in Controls /\ LeftCtrl # Button /\ Nowhere \in Places
  BY DEF Controls, LeftCtrl, Button, Nowhere, Places
<1>2. ASSUME NEW c \in Controls, c # Button, NEW z \in Places
      PROVE  /\ Key(c, TRUE, z) \in OutEvents
             /\ \E m \in Ledgers :
                  /\ InjectorRun(<<Key(c, TRUE, z)>>, l, m)
                  /\ m.touches = l.touches /\ m.moved = l.moved
                  /\ m.pressed = l.pressed \union {c}
  BY <1>2, PressRuns, Zenon
<1> QED BY <1>1, <1>2, Zenon

\* A key or a button is released.
LEMMA ReleaseRuns ==
  ASSUME NEW l \in Ledgers, NEW code \in Controls, NEW at \in Places
  PROVE  /\ Key(code, FALSE, at) \in OutEvents
         /\ \E m \in Ledgers :
              /\ InjectorRun(<<Key(code, FALSE, at)>>, l, m)
              /\ m.touches = l.touches /\ m.moved = l.moved
              /\ m.pressed = l.pressed \ {code}
<1> DEFINE e == Key(code, FALSE, at)
<1>1. e \in OutEvents /\ e.kind = "key" /\ e.code = code /\ e.down = FALSE /\ e.at = at
  BY DEF Key, OutEvents
<1> HIDE DEF e
<1> DEFINE m == Injected(l, e)
<1>2. m = [l EXCEPT !.pressed = IF e.down THEN @ \union {e.code} ELSE @ \ {e.code}]
  BY <1>1 DEF Injected
<1>3. m \in Ledgers /\ m.touches = l.touches /\ m.moved = l.moved /\ m.pressed = l.pressed \ {code}
  BY <1>1, <1>2 DEF Ledgers
<1>4. InjectorStep(l, e, m)
  BY <1>1 DEF InjectorStep, TouchAllowed
<1> HIDE DEF m
<1>5. InjectorRun(<<e>>, l, m)
  BY <1>1, <1>3, <1>4, StepRuns
<1> QED BY <1>1, <1>3, <1>5 DEF e

\* A step of the wheel.
LEMMA WheelRuns ==
  ASSUME NEW l \in Ledgers
  PROVE  Wheel \in OutEvents /\ InjectorRun(<<Wheel>>, l, l)
<1>1. Wheel \in OutEvents /\ Wheel.kind = "wheel"
  BY DEF Wheel, OutEvents
<1>2. InjectorStep(l, Wheel, l)
  BY <1>1 DEF InjectorStep, TouchAllowed, Injected
<1> QED BY <1>1, <1>2, StepRuns

\* A touch that the injector does not refuse.
LEMMA TouchRuns ==
  ASSUME NEW l \in Ledgers, NEW what \in {"down", "move", "up"}, NEW id \in Nat,
         what = "down" => id \notin l.touches, what = "move" => id \in l.touches
  PROVE  /\ Touch(what, id) \in OutEvents
         /\ \E m \in Ledgers :
              /\ InjectorRun(<<Touch(what, id)>>, l, m)
              /\ m.pressed = l.pressed /\ m.moved = l.moved
              /\ what = "down" => m.touches = l.touches \union {id}
              /\ what = "move" => m.touches = l.touches
              /\ what = "up" => m.touches = l.touches \ {id}
<1> DEFINE e == Touch(what, id)
<1>1. e \in OutEvents /\ e.kind = "touch" /\ e.phase = what /\ e.id = id
  BY DEF Touch, OutEvents
<1> HIDE DEF e
<1> DEFINE m == Injected(l, e)
<1>2. m = [l EXCEPT !.touches = IF e.phase = "up" THEN @ \ {e.id} ELSE @ \union {e.id}]
  BY <1>1 DEF Injected
<1>3. /\ m \in Ledgers /\ m.pressed = l.pressed /\ m.moved = l.moved
      /\ what = "down" => m.touches = l.touches \union {id}
      /\ what = "move" => m.touches = l.touches
      /\ what = "up" => m.touches = l.touches \ {id}
  BY <1>1, <1>2 DEF Ledgers
<1>4. InjectorStep(l, e, m)
  BY <1>1 DEF InjectorStep, TouchAllowed
<1> HIDE DEF m
<1>5. InjectorRun(<<e>>, l, m)
  BY <1>1, <1>3, <1>4, StepRuns
<1> QED BY <1>1, <1>3, <1>5 DEF e

\* A finger that goes, of whatever touch.
LEMMA LiftRuns ==
  ASSUME NEW l \in Ledgers, NEW id \in Nat
  PROVE  \E m \in Ledgers : /\ InjectorRun(<<Touch("up", id)>>, l, m)
                            /\ m.pressed = l.pressed /\ m.moved = l.moved
                            /\ m.touches = l.touches \ {id}
<1>1. ASSUME NEW what \in {"down", "move", "up"}, what = "up"
      PROVE  \E m \in Ledgers : /\ InjectorRun(<<Touch(what, id)>>, l, m)
                                /\ m.pressed = l.pressed /\ m.moved = l.moved
                                /\ m.touches = l.touches \ {id}
  <2>1. /\ what = "down" => id \notin l.touches
        /\ what = "move" => id \in l.touches
    BY <1>1
  <2> QED BY <1>1, <2>1, TouchRuns
<1> QED BY <1>1

-----------------------------------------------------------------------------
(* The pinch tracker *)

\* What a tracker becomes.
LEMMA PinchDownIs ==
  ASSUME NEW p \in Pinches, NEW id \in Nat
  PROVE  /\ PinchDown(p, id) \in Pinches /\ PinchDown(p, id).contacts = p.contacts \union {id}
         /\ PinchDown(p, id).held = p.held
BY DEF PinchDown, Pinches

\* A contact's motion leaves the pinch tracker's contacts alone and may take Ctrl.
LEMMA PinchMotionIs ==
  ASSUME NEW p \in Pinches, NEW id \in Nat, NEW step
  PROVE  /\ PinchMotion(p, id, step) \in Pinches /\ PinchMotion(p, id, step).contacts = p.contacts
         /\ PinchMotion(p, id, step).held <=> p.held \/ Zooms(p, id, step)
<1>1. CASE p.held \/ Zooms(p, id, step)
  <2>1. PinchMotion(p, id, step) = [p EXCEPT !.held = TRUE]
    BY <1>1 DEF PinchMotion
  <2> QED BY <1>1, <2>1 DEF Pinches
<1>2. CASE ~(p.held \/ Zooms(p, id, step))
  <2>1. PinchMotion(p, id, step) = [p EXCEPT !.held = FALSE]
    BY <1>2 DEF PinchMotion
  <2> QED BY <1>2, <2>1 DEF Pinches
<1> QED BY <1>1, <1>2

\* A contact that goes leaves the tracker, and fewer than two let go of Ctrl.
LEMMA PinchUpIs ==
  ASSUME NEW p \in Pinches, NEW id \in Nat
  PROVE  /\ PinchUp(p, id) \in Pinches /\ PinchUp(p, id).contacts = p.contacts \ {id}
         /\ PinchUp(p, id).held <=> p.held /\ Cardinality(p.contacts \ {id}) >= 2
<1> DEFINE left == p.contacts \ {id}
<1>1. left \in SUBSET Nat
  BY DEF Pinches
<1>2. CASE p.held /\ Cardinality(left) >= 2
  <2>1. PinchUp(p, id) = [contacts |-> left, held |-> TRUE]
    BY <1>2 DEF PinchUp
  <2> HIDE DEF left
  <2> QED BY <1>1, <1>2, <2>1 DEF Pinches, left
<1>3. CASE ~(p.held /\ Cardinality(left) >= 2)
  <2>1. PinchUp(p, id) = [contacts |-> left, held |-> FALSE]
    BY <1>3 DEF PinchUp
  <2> HIDE DEF left
  <2> QED BY <1>1, <1>3, <2>1 DEF Pinches, left
<1> QED BY <1>2, <1>3

\* The tracker's own events concern Ctrl and the wheel alone.
OnlyCtrl(l, m) ==
  m.touches = l.touches /\ m.moved = l.moved /\ (Button \in m.pressed <=> Button \in l.pressed)

\* Its events are transitions of the injector, whatever the ledgers.
LEMMA PinchEventsTyped ==
  ASSUME NEW p \in Pinches, NEW id \in Nat, NEW step \in BOOLEAN
  PROVE  /\ PinchMotionEvents(p, id, step) \in Seq(OutEvents)
         /\ PinchUpEvents(p, id) \in Seq(OutEvents)
<1>1. Key(LeftCtrl, TRUE, Nowhere) \in OutEvents /\ Key(LeftCtrl, FALSE, Nowhere) \in OutEvents
  BY DEF Key, OutEvents, Controls, Nowhere, Places
<1>2. Wheel \in OutEvents
  BY DEF OutEvents
<1> DEFINE press == Key(LeftCtrl, TRUE, Nowhere)
           release == Key(LeftCtrl, FALSE, Nowhere)
<1> HIDE DEF press, release
<1>3. <<press>> \o <<Wheel>> \in Seq(OutEvents) /\ <<>> \o <<Wheel>> \in Seq(OutEvents)
      /\ <<release>> \in Seq(OutEvents) /\ <<>> \in Seq(OutEvents)
  <2>1. press \in OutEvents /\ release \in OutEvents
    BY <1>1 DEF press, release
  <2>2. /\ <<press>> \in Seq(OutEvents) /\ <<Wheel>> \in Seq(OutEvents)
        /\ <<release>> \in Seq(OutEvents) /\ <<>> \in Seq(OutEvents)
    BY <1>2, <2>1
  <2> QED BY <2>2
<1>4. PinchMotionEvents(p, id, step) \in Seq(OutEvents)
  BY <1>3 DEF PinchMotionEvents, press
<1>5. PinchUpEvents(p, id) \in Seq(OutEvents)
  BY <1>3 DEF PinchUpEvents, release
<1> QED BY <1>4, <1>5

\* Ctrl is pressed with the first step of a pinch, and held on.
LEMMA PinchMotionRuns ==
  ASSUME NEW p \in Pinches, NEW id \in Nat, NEW step \in BOOLEAN, NEW l \in Ledgers,
         LeftCtrl \in l.pressed <=> p.held
  PROVE  \E m \in Ledgers : /\ InjectorRun(PinchMotionEvents(p, id, step), l, m)
                            /\ OnlyCtrl(l, m)
                            /\ LeftCtrl \in m.pressed <=> PinchMotion(p, id, step).held
<1>1. PinchMotion(p, id, step).held <=> p.held \/ Zooms(p, id, step)
  BY PinchMotionIs
<1>2. CASE ~Zooms(p, id, step)
  <2>1. PinchMotionEvents(p, id, step) = <<>>
    BY <1>2 DEF PinchMotionEvents
  <2> QED BY <1>1, <1>2, <2>1, NoEventRuns DEF OnlyCtrl
<1>3. CASE Zooms(p, id, step) /\ p.held
  <2>1. PinchMotionEvents(p, id, step) = <<>> \o <<Wheel>> /\ <<>> \o <<Wheel>> = <<Wheel>>
    BY <1>3 DEF PinchMotionEvents
  <2> QED BY <1>1, <1>3, <2>1, WheelRuns DEF OnlyCtrl
<1>4. CASE Zooms(p, id, step) /\ ~p.held
  <2> DEFINE e == Key(LeftCtrl, TRUE, Nowhere)
  <2>1. PinchMotionEvents(p, id, step) = <<e>> \o <<Wheel>>
    BY <1>4 DEF PinchMotionEvents
  <2>2. e \in OutEvents /\ \E m \in Ledgers : /\ InjectorRun(<<e>>, l, m)
                                             /\ m.touches = l.touches /\ m.moved = l.moved
                                             /\ m.pressed = l.pressed \union {LeftCtrl}
    BY CtrlPressRuns
  <2> HIDE DEF e
  <2>3. PICK m \in Ledgers : /\ InjectorRun(<<e>>, l, m)
                             /\ m.touches = l.touches /\ m.moved = l.moved
                             /\ m.pressed = l.pressed \union {LeftCtrl}
    BY <2>2
  <2>4. <<e>> \in Seq(OutEvents) /\ <<Wheel>> \in Seq(OutEvents)
    BY <2>2, WheelRuns
  <2>5. InjectorRun(<<e>> \o <<Wheel>>, l, m)
    BY <2>3, <2>4, WheelRuns, InjectorConcat
  <2>6. OnlyCtrl(l, m)
    BY <2>3 DEF OnlyCtrl, Button, LeftCtrl
  <2> QED BY <1>1, <1>4, <2>1, <2>3, <2>5, <2>6
<1> QED BY <1>2, <1>3, <1>4

\* Ctrl is released with the pinch.
LEMMA PinchUpRuns ==
  ASSUME NEW p \in Pinches, NEW id \in Nat, NEW l \in Ledgers,
         LeftCtrl \in l.pressed <=> p.held
  PROVE  \E m \in Ledgers : /\ InjectorRun(PinchUpEvents(p, id), l, m)
                            /\ OnlyCtrl(l, m)
                            /\ LeftCtrl \in m.pressed <=> PinchUp(p, id).held
<1>1. PinchUp(p, id).held => p.held
  BY PinchUpIs
<1>2. CASE ~(p.held /\ ~PinchUp(p, id).held)
  <2>1. PinchUpEvents(p, id) = <<>>
    BY <1>2 DEF PinchUpEvents
  <2> QED BY <1>1, <1>2, <2>1, NoEventRuns DEF OnlyCtrl
<1>3. CASE p.held /\ ~PinchUp(p, id).held
  <2> DEFINE e == Key(LeftCtrl, FALSE, Nowhere)
  <2>1. PinchUpEvents(p, id) = <<e>>
    BY <1>3 DEF PinchUpEvents
  <2>2. \E m \in Ledgers : /\ InjectorRun(<<e>>, l, m)
                           /\ m.touches = l.touches /\ m.moved = l.moved
                           /\ m.pressed = l.pressed \ {LeftCtrl}
    <3>1. LeftCtrl \in Controls /\ Nowhere \in Places
      BY DEF Controls, Nowhere, Places
    <3> QED BY <3>1, ReleaseRuns
  <2> HIDE DEF e
  <2>3. PICK m \in Ledgers : /\ InjectorRun(<<e>>, l, m)
                             /\ m.touches = l.touches /\ m.moved = l.moved
                             /\ m.pressed = l.pressed \ {LeftCtrl}
    BY <2>2
  <2>4. OnlyCtrl(l, m)
    BY <2>3 DEF OnlyCtrl, Button, LeftCtrl
  <2> QED BY <1>3, <2>1, <2>3, <2>4
<1> QED BY <1>2, <1>3

-----------------------------------------------------------------------------
(* The user that the ledgers stand for *)

\* What Behind is, field by field.
LEMMA BehindIs ==
  ASSUME NEW a \in AdapterStates, NEW l \in Ledgers
  PROVE  /\ Behind(a, l) \in UserStates
         /\ Behind(a, l).down <=> Button \in l.pressed
         /\ Behind(a, l).fingers = l.touches /\ Behind(a, l).x = a.position
         /\ Behind(a, l).moved = 2 * (l.moved + a.motion) + a.remainder
<1> DEFINE at == 2 * (l.moved + a.motion) + a.remainder
<1>1. at \in Int /\ l.touches \in SUBSET Nat /\ a.position \in Int
  BY DEF Ledgers, AdapterStates
<1>2. CASE Button \in l.pressed
  <2>1. Behind(a, l) = [down |-> TRUE, fingers |-> l.touches, x |-> a.position, moved |-> at]
    BY <1>2 DEF Behind
  <2> HIDE DEF at
  <2>2. /\ Behind(a, l) \in UserStates /\ Behind(a, l).down = TRUE
        /\ Behind(a, l).fingers = l.touches /\ Behind(a, l).x = a.position
        /\ Behind(a, l).moved = at
    BY <1>1, <2>1 DEF UserStates
  <2> QED BY <1>2, <2>2 DEF at
<1>3. CASE Button \notin l.pressed
  <2>0. (Button \in l.pressed) = FALSE
    BY <1>3
  <2>1. Behind(a, l) = [down |-> FALSE, fingers |-> l.touches, x |-> a.position, moved |-> at]
    BY <2>0, Zenon DEF Behind
  <2> HIDE DEF at
  <2>2. /\ Behind(a, l) \in UserStates /\ Behind(a, l).down = FALSE
        /\ Behind(a, l).fingers = l.touches /\ Behind(a, l).x = a.position
        /\ Behind(a, l).moved = at
    BY <1>1, <2>1 DEF UserStates
  <2> QED BY <1>3, <2>2 DEF at
<1> QED BY <1>2, <1>3

\* Users are the same when their fields are.
LEMMA SameUser ==
  ASSUME NEW u \in UserStates, NEW v \in UserStates, u.down <=> v.down,
         u.fingers = v.fingers, u.x = v.x, u.moved = v.moved
  PROVE  u = v
<1>1. /\ u = [down |-> u.down, fingers |-> u.fingers, x |-> u.x, moved |-> u.moved]
      /\ v = [down |-> v.down, fingers |-> v.fingers, x |-> v.x, moved |-> v.moved]
      /\ u.down \in BOOLEAN /\ v.down \in BOOLEAN
  BY DEF UserStates
<1>2. u.down = v.down
  BY <1>1
<1> QED BY <1>1, <1>2

\* The fields of a captured event.
LEMMA EventIs ==
  ASSUME NEW e \in EisEvents
  PROVE  /\ e.type \in {"absolute", "relative", "button", "smooth", "click", "frame", "down", "move", "up"}
         /\ e.type = "absolute" => e.x \in Nat
         /\ e.type = "relative" => e.by \in Int
         /\ e.type = "button" => e.down \in BOOLEAN /\ e.at \in Places
         /\ e.type \in {"down", "move", "up"} => e.id \in Nat
         /\ e.type = "move" => e.step \in BOOLEAN
         /\ e \in PointerEvents => e.type \notin {"down", "move", "up"}
BY DEF EisEvents, TouchEvents, PointerEvents

\* The same after an absolute position.
LEMMA AbsoluteStepIs ==
  ASSUME NEW u \in UserStates, NEW e \in EisEvents, NEW v, UserStep(u, e, v), e.type = "absolute"
  PROVE  /\ v \in UserStates /\ v.down = u.down /\ v.fingers = u.fingers /\ v.x = e.x
         /\ u.x = NoPosition => v.moved = u.moved
         /\ u.x # NoPosition => v.moved = u.moved + e.x - u.x
<1>1. v = [u EXCEPT !.x = e.x, !.moved = IF u.x = NoPosition THEN @ ELSE @ + e.x - u.x]
  BY DEF UserStep
<1>2. e.x \in Nat /\ u.moved \in Int /\ u.x \in Int
  BY EventIs DEF UserStates
<1>3. CASE u.x = NoPosition
  <2>1. v = [down |-> u.down, fingers |-> u.fingers, x |-> e.x, moved |-> u.moved]
    BY <1>1, <1>3 DEF UserStates
  <2> QED BY <1>2, <1>3, <2>1 DEF UserStates
<1>4. CASE u.x # NoPosition
  <2>1. PICK d \in Int : d = u.moved + e.x - u.x
    BY <1>2
  <2>2. v = [down |-> u.down, fingers |-> u.fingers, x |-> e.x, moved |-> d] /\ d \in Int
    BY <1>1, <1>4, <2>1 DEF UserStates
  <2> QED BY <1>2, <1>4, <2>1, <2>2 DEF UserStates
<1> QED BY <1>3, <1>4

\* f64::round leaves half a pixel at most, and nothing of whole pixels.
LEMMA Rounded ==
  ASSUME NEW h \in Int
  PROVE  /\ Round(h) \in Int /\ h - 2 * Round(h) \in -1..1
         /\ h % 2 = 0 => h - 2 * Round(h) = 0
BY DEF Round

\* The fields after a step of the user.
LEMMA UserStepIs ==
  ASSUME NEW u \in UserStates, NEW e \in EisEvents, NEW v, UserStep(u, e, v)
  PROVE  /\ v \in UserStates
         /\ e.type = "absolute" => /\ v.down = u.down /\ v.fingers = u.fingers /\ v.x = e.x
                                   /\ u.x = NoPosition => v.moved = u.moved
                                   /\ u.x # NoPosition => v.moved = u.moved + e.x - u.x
         /\ e.type = "relative" => /\ v.down = u.down /\ v.fingers = u.fingers /\ v.x = u.x
                                   /\ v.moved = u.moved + 2 * Round(e.by)
         /\ e.type = "button" => /\ v.down = e.down /\ v.fingers = u.fingers /\ v.x = u.x
                                 /\ v.moved = u.moved
                                 /\ e.down => e.at.moved - u.moved \in -e.at.drift..e.at.drift
         /\ e.type \in {"down", "move", "up"} => v.down = u.down /\ v.x = u.x /\ v.moved = u.moved
         /\ e.type = "down" => v.fingers = u.fingers \union {e.id} /\ e.id \notin u.fingers
         /\ e.type = "move" => v.fingers = u.fingers /\ e.id \in u.fingers
         /\ e.type = "up" => v.fingers = u.fingers \ {e.id} /\ e.id \in u.fingers
         /\ e.type \in {"smooth", "click", "frame"} => v = u
<1>0. /\ e.type = "absolute" => e.x \in Nat
      /\ e.type = "relative" => e.by \in Int
      /\ e.type = "button" => e.down \in BOOLEAN /\ e.at \in Places
      /\ e.type \in {"down", "move", "up"} => e.id \in Nat
      /\ e.type \in {"absolute", "relative", "button", "smooth", "click", "frame", "down", "move", "up"}
  BY EventIs
<1>1. CASE e.type = "absolute"
  BY <1>1, AbsoluteStepIs
<1>2. CASE e.type = "relative"
  <2>1. PICK p \in Int : p = Round(e.by)
    BY <1>0, <1>2, Rounded
  <2>2. v = [u EXCEPT !.moved = @ + 2 * p]
    BY <1>2, <2>1 DEF UserStep
  <2>3. /\ v \in UserStates
        /\ v.down = u.down /\ v.fingers = u.fingers /\ v.x = u.x /\ v.moved = u.moved + 2 * p
    BY <2>2 DEF UserStates
  <2>4. v.moved = u.moved + 2 * Round(e.by)
    BY <2>1, <2>3
  <2>5. e.type # "absolute" /\ e.type # "button" /\ e.type \notin {"down", "move", "up"}
        /\ e.type # "down" /\ e.type # "move" /\ e.type # "up" /\ e.type \notin {"smooth", "click", "frame"}
    BY <1>2
  <2> QED BY <2>3, <2>4, <2>5, Zenon
<1>3. CASE e.type = "button"
  BY <1>0, <1>3 DEF UserStep, UserStates
<1>4. CASE e.type = "down"
  BY <1>0, <1>4 DEF UserStep, UserStates
<1>5. CASE e.type = "move"
  BY <1>0, <1>5 DEF UserStep, UserStates
<1>6. CASE e.type = "up"
  BY <1>0, <1>6 DEF UserStep, UserStates
<1>7. CASE e.type \in {"smooth", "click", "frame"}
  BY <1>0, <1>7 DEF UserStep, UserStates
<1> QED BY <1>0, <1>1, <1>2, <1>3, <1>4, <1>5, <1>6, <1>7

-----------------------------------------------------------------------------
(* drain_batch, one event *)

\* AbsoluteMotionTracker: no half pixel is lost.
LEMMA AbsoluteIs ==
  ASSUME NEW a \in AdapterStates, RemainderOK(a), NEW x \in Nat
  PROVE  LET b == TrackAbsolute(a, x) IN
         /\ b \in AdapterStates /\ SameCapture(a, b) /\ RemainderOK(b)
         /\ b.pinch = a.pinch /\ b.smooth = a.smooth /\ b.pending = a.pending /\ b.position = x
         /\ a.position = NoPosition => 2 * b.motion + b.remainder = 2 * a.motion + a.remainder
         /\ a.position # NoPosition =>
              2 * b.motion + b.remainder = 2 * a.motion + a.remainder + x - a.position
<1> DEFINE b == TrackAbsolute(a, x)
<1>0. /\ a.position \in Int /\ a.remainder \in Int /\ a.motion \in Int /\ NoPosition = -1
      /\ a.position = NoPosition => a.remainder = 0
  BY DEF AdapterStates, RemainderOK, NoPosition
<1>1. CASE a.position = NoPosition
  <2>1. b = [active |-> a.active, expected |-> a.expected, position |-> x, remainder |-> 0,
             motion |-> a.motion, smooth |-> a.smooth, pinch |-> a.pinch, raw |-> a.raw,
             pending |-> a.pending]
    BY <1>1 DEF TrackAbsolute, AdapterStates
  <2> HIDE DEF b
  <2>2. b \in AdapterStates
    BY <1>0, <2>1 DEF AdapterStates
  <2> QED BY <1>0, <1>1, <2>1, <2>2 DEF b, SameCapture, RemainderOK
<1>2. CASE a.position # NoPosition
  <2>1. PICK d \in Int : d = x - a.position + a.remainder
    BY <1>0
  <2>2. PICK r \in Int : r = Round(d)
    BY <2>1, Rounded
  <2>3. PICK k \in Int : k = d - 2 * r
    BY <2>1, <2>2
  <2>4. k \in -1..1
    BY <2>1, <2>2, <2>3, Rounded
  <2>5. PICK j \in Int : j = a.motion + r
    BY <1>0, <2>2
  <2>6a. PICK c : c = [a EXCEPT !.position = x, !.remainder = k]
    OBVIOUS
  <2>6. b = QueueMotion(c, r)
    BY <1>2, <2>1, <2>2, <2>3, <2>6a DEF TrackAbsolute
  <2>7. c = [active |-> a.active, expected |-> a.expected, position |-> x, remainder |-> k,
             motion |-> a.motion, smooth |-> a.smooth, pinch |-> a.pinch, raw |-> a.raw,
             pending |-> a.pending]
    BY <2>6a DEF AdapterStates
  <2>8. b = [active |-> a.active, expected |-> a.expected, position |-> x, remainder |-> k,
             motion |-> j, smooth |-> a.smooth, pinch |-> a.pinch, raw |-> a.raw,
             pending |-> a.pending]
    BY <2>5, <2>6, <2>7 DEF QueueMotion
  <2> HIDE DEF b
  <2>9. j \in Int /\ k \in Int
    BY <2>3, <2>5
  <2>10. b \in AdapterStates
    BY <1>0, <2>8, <2>9 DEF AdapterStates
  <2>11. 2 * j + k = 2 * a.motion + a.remainder + x - a.position
    BY <1>0, <2>1, <2>2, <2>3, <2>5
  <2>12. x # NoPosition
    BY <1>0
  <2>13. b.motion = j /\ b.remainder = k /\ b.position = x /\ b.pinch = a.pinch /\ b.smooth = a.smooth
         /\ b.pending = a.pending /\ b.active = a.active /\ b.expected = a.expected /\ b.raw = a.raw
    BY <2>8
  <2>14. SameCapture(a, b) /\ RemainderOK(b)
    BY <2>4, <2>12, <2>13 DEF SameCapture, RemainderOK
  <2> QED BY <1>2, <2>10, <2>11, <2>13, <2>14 DEF b
<1> QED BY <1>1, <1>2

\* The pending events of a lead the injector from l to m, and it holds Ctrl
\* there while the touch screen's pinch lasts.
Follows(a, l, m) == InjectorRun(a.pending, l, m) /\ (LeftCtrl \in m.pressed <=> a.pinch.held)

\* Draining e makes b of a: whatever user a stands for, b stands for that user
\* after what the event says.
Drains(a, e, b) ==
  /\ b \in AdapterStates /\ SameCapture(a, b) /\ RemainderOK(b)
  /\ e \in PointerEvents => b.pinch = a.pinch
  /\ \A m \in Ledgers : \A l, v :
       Follows(a, l, m) /\ UserStep(Behind(a, m), e, v) =>
         \E n \in Ledgers : Follows(b, l, n) /\ Behind(b, n) = v

\* The same of the events that are queued for e, after the coalesced motion.
Handles(a, held, events, e) ==
  \A m \in Ledgers : \A v :
    (LeftCtrl \in m.pressed <=> a.pinch.held) /\ UserStep(Behind(a, m), e, v) =>
      \E n \in Ledgers : /\ InjectorRun(events, MovedOn(m, a.motion), n)
                         /\ LeftCtrl \in n.pressed <=> held
                         /\ n.moved = m.moved + a.motion
                         /\ Button \in n.pressed <=> v.down
                         /\ n.touches = v.fingers

\* Transitions are queued with the right user before them.
LEMMA QueueDrains ==
  ASSUME NEW a \in AdapterStates, NEW c \in AdapterStates, NEW events \in Seq(OutEvents),
         NEW e \in EisEvents, e.type \notin {"absolute", "relative"},
         RemainderOK(a), SameCapture(a, c), c.pending = a.pending, c.motion = a.motion,
         c.position = a.position, c.remainder = a.remainder,
         e \in PointerEvents => c.pinch = a.pinch,
         Handles(a, c.pinch.held, events, e)
  PROVE  Drains(a, e, Queue(c, events))
<1> DEFINE b == Queue(c, events)
<1>1. /\ b \in AdapterStates /\ b.motion = 0 /\ SameCapture(c, b) /\ b.position = a.position
      /\ b.remainder = a.remainder /\ b.pinch = c.pinch
  BY Queued
<1>2. SameCapture(a, b) /\ RemainderOK(b) /\ (e \in PointerEvents => b.pinch = a.pinch)
  <2> HIDE DEF b
  <2> QED BY <1>1 DEF SameCapture, RemainderOK
<1>3. ASSUME NEW m \in Ledgers, NEW l, NEW v, Follows(a, l, m), UserStep(Behind(a, m), e, v)
      PROVE  \E n \in Ledgers : Follows(b, l, n) /\ Behind(b, n) = v
  <2>1. InjectorRun(c.pending, l, m) /\ (LeftCtrl \in m.pressed <=> a.pinch.held)
    BY <1>3 DEF Follows
  <2>2. PICK n \in Ledgers : /\ InjectorRun(events, MovedOn(m, a.motion), n)
                             /\ LeftCtrl \in n.pressed <=> c.pinch.held
                             /\ n.moved = m.moved + a.motion
                             /\ Button \in n.pressed <=> v.down
                             /\ n.touches = v.fingers
    BY <1>3, <2>1 DEF Handles
  <2>3. InjectorRun(b.pending, l, n)
    <3>1. InjectorRun(events, MovedOn(m, c.motion), n)
      BY <2>2
    <3> QED BY <2>1, <2>2, <3>1, QueueLeads
  <2> HIDE DEF b
  <2>4. Follows(b, l, n)
    BY <2>2, <2>3, <1>1 DEF Follows
  <2>5. /\ Behind(a, m) \in UserStates
        /\ Behind(a, m).x = a.position
        /\ Behind(a, m).moved = 2 * (m.moved + a.motion) + a.remainder
    BY BehindIs
  <2>6. v \in UserStates /\ v.x = a.position /\ v.moved = 2 * (m.moved + a.motion) + a.remainder
    <3>1. e.type \in {"button", "smooth", "click", "frame", "down", "move", "up"}
      BY EventIs
    <3> QED BY <1>3, <2>5, <3>1, UserStepIs
  <2>7. /\ Behind(b, n) \in UserStates
        /\ Behind(b, n).down <=> Button \in n.pressed
        /\ Behind(b, n).fingers = n.touches /\ Behind(b, n).x = b.position
        /\ Behind(b, n).moved = 2 * (n.moved + b.motion) + b.remainder
    BY <1>1, <2>2, BehindIs
  <2>8. 2 * (n.moved + b.motion) + b.remainder = 2 * (m.moved + a.motion) + a.remainder
    <3>1. m.moved \in Int /\ a.motion \in Int /\ a.remainder \in Int /\ n.moved \in Int
      BY <2>2 DEF Ledgers, AdapterStates
    <3> QED BY <1>1, <2>2, <3>1
  <2>9. Behind(b, n) = v
    BY <1>1, <2>2, <2>6, <2>7, <2>8, SameUser
  <2> QED BY <2>2, <2>4, <2>9
<1> HIDE DEF b
<1>4. Drains(a, e, b)
  BY <1>1, <1>2, <1>3 DEF Drains
<1> QED BY <1>4 DEF b

\* What Handles starts from.
LEMMA MovedOnBehind ==
  ASSUME NEW a \in AdapterStates, RemainderOK(a), NEW m \in Ledgers
  PROVE  LET l == MovedOn(m, a.motion) IN
         /\ l \in Ledgers /\ l.moved = m.moved + a.motion
         /\ l.pressed = m.pressed /\ l.touches = m.touches
         /\ Behind(a, m) \in UserStates
         /\ Behind(a, m).down <=> Button \in l.pressed
         /\ Behind(a, m).fingers = l.touches
         /\ Behind(a, m).moved - 2 * l.moved \in -1..1
<1>1. a.motion \in Int /\ m.moved \in Int /\ a.remainder \in -1..1
  BY DEF AdapterStates, Ledgers, RemainderOK
<1>2. /\ Behind(a, m) \in UserStates
      /\ Behind(a, m).down <=> Button \in m.pressed
      /\ Behind(a, m).fingers = m.touches
      /\ Behind(a, m).moved = 2 * (m.moved + a.motion) + a.remainder
  BY BehindIs
<1>3. /\ MovedOn(m, a.motion) \in Ledgers /\ MovedOn(m, a.motion).moved = m.moved + a.motion
      /\ MovedOn(m, a.motion).pressed = m.pressed /\ MovedOn(m, a.motion).touches = m.touches
  BY <1>1, MovedOnIs
<1> QED BY <1>1, <1>2, <1>3

\* An absolute position.
LEMMA DrainAbsolute ==
  ASSUME NEW a \in AdapterStates, RemainderOK(a), NEW e \in EisEvents, e.type = "absolute"
  PROVE  Drains(a, e, DrainEvent(a, e))
<1>1. e.x \in Nat
  BY EventIs
<1> DEFINE b == TrackAbsolute(a, e.x)
<1>2. DrainEvent(a, e) = b
  BY DEF DrainEvent
<1>3. /\ b \in AdapterStates /\ SameCapture(a, b) /\ RemainderOK(b)
      /\ b.pinch = a.pinch /\ b.pending = a.pending /\ b.position = e.x
      /\ a.position = NoPosition => 2 * b.motion + b.remainder = 2 * a.motion + a.remainder
      /\ a.position # NoPosition =>
           2 * b.motion + b.remainder = 2 * a.motion + a.remainder + e.x - a.position
  BY <1>1, AbsoluteIs
<1> HIDE DEF b
<1>4. ASSUME NEW m \in Ledgers, NEW l, NEW v, Follows(a, l, m), UserStep(Behind(a, m), e, v)
      PROVE  \E n \in Ledgers : Follows(b, l, n) /\ Behind(b, n) = v
  <2>1. Follows(b, l, m)
    BY <1>3, <1>4 DEF Follows
  <2>2. /\ Behind(a, m) \in UserStates
        /\ Behind(a, m).down <=> Button \in m.pressed
        /\ Behind(a, m).fingers = m.touches /\ Behind(a, m).x = a.position
        /\ Behind(a, m).moved = 2 * (m.moved + a.motion) + a.remainder
    BY BehindIs
  <2>3. /\ Behind(b, m) \in UserStates
        /\ Behind(b, m).down <=> Button \in m.pressed
        /\ Behind(b, m).fingers = m.touches /\ Behind(b, m).x = b.position
        /\ Behind(b, m).moved = 2 * (m.moved + b.motion) + b.remainder
    BY <1>3, BehindIs
  <2>4. PICK u \in UserStates : u = Behind(a, m)
    BY <2>2
  <2>5. /\ v \in UserStates /\ v.down = u.down /\ v.fingers = u.fingers /\ v.x = e.x
        /\ u.x = NoPosition => v.moved = u.moved
        /\ u.x # NoPosition => v.moved = u.moved + e.x - u.x
    <3>1. UserStep(u, e, v) /\ u \in UserStates
      BY <1>4, <2>4
    <3> QED BY <3>1, AbsoluteStepIs
  <2>6. v.moved = 2 * (m.moved + b.motion) + b.remainder
    <3>1. /\ m.moved \in Int /\ a.motion \in Int /\ a.remainder \in Int /\ a.position \in Int
          /\ b.motion \in Int /\ b.remainder \in Int
      BY <1>3 DEF Ledgers, AdapterStates
    <3>2. u.x = a.position /\ u.moved = 2 * (m.moved + a.motion) + a.remainder
      BY <2>2, <2>4
    <3>3. CASE a.position = NoPosition
      <4>1. v.moved = u.moved /\ 2 * b.motion + b.remainder = 2 * a.motion + a.remainder
        BY <1>3, <2>5, <3>2, <3>3
      <4> QED BY <3>1, <3>2, <4>1
    <3>4. CASE a.position # NoPosition
      <4>1. /\ v.moved = u.moved + e.x - a.position
            /\ 2 * b.motion + b.remainder = 2 * a.motion + a.remainder + e.x - a.position
        BY <1>3, <2>5, <3>2, <3>4
      <4> QED BY <1>1, <3>1, <3>2, <4>1
    <3> QED BY <3>3, <3>4
  <2>7. Behind(b, m) = v
    BY <1>3, <2>2, <2>3, <2>4, <2>5, <2>6, SameUser
  <2> QED BY <2>1, <2>7
<1>5. Drains(a, e, b)
  BY <1>3, <1>4 DEF Drains
<1> QED BY <1>2, <1>5

\* A relative motion.
LEMMA DrainRelative ==
  ASSUME NEW a \in AdapterStates, RemainderOK(a), NEW e \in EisEvents, e.type = "relative"
  PROVE  Drains(a, e, DrainEvent(a, e))
<1>0. e.by \in Int
  BY EventIs
<1>1. PICK d \in Int : d = Round(e.by)
  BY <1>0, Rounded
<1> DEFINE b == QueueMotion(a, d)
<1>2. DrainEvent(a, e) = b
  BY <1>1 DEF DrainEvent
<1>3. /\ b \in AdapterStates /\ SameCapture(a, b) /\ RemainderOK(b)
      /\ b.pinch = a.pinch /\ b.pending = a.pending /\ b.position = a.position
      /\ b.motion = a.motion + d /\ b.remainder = a.remainder
  BY <1>1 DEF QueueMotion, AdapterStates, SameCapture, RemainderOK
<1> HIDE DEF b
<1>4. ASSUME NEW m \in Ledgers, NEW l, NEW v, Follows(a, l, m), UserStep(Behind(a, m), e, v)
      PROVE  \E n \in Ledgers : Follows(b, l, n) /\ Behind(b, n) = v
  <2>1. Follows(b, l, m)
    BY <1>3, <1>4 DEF Follows
  <2>2. /\ Behind(a, m) \in UserStates
        /\ Behind(a, m).down <=> Button \in m.pressed
        /\ Behind(a, m).fingers = m.touches /\ Behind(a, m).x = a.position
        /\ Behind(a, m).moved = 2 * (m.moved + a.motion) + a.remainder
    BY BehindIs
  <2>3. /\ Behind(b, m) \in UserStates
        /\ Behind(b, m).down <=> Button \in m.pressed
        /\ Behind(b, m).fingers = m.touches /\ Behind(b, m).x = b.position
        /\ Behind(b, m).moved = 2 * (m.moved + b.motion) + b.remainder
    BY <1>3, BehindIs
  <2>4. PICK u \in UserStates : u = Behind(a, m)
    BY <2>2
  <2>5. /\ v \in UserStates /\ v.down = u.down /\ v.fingers = u.fingers /\ v.x = u.x
        /\ v.moved = u.moved + 2 * d
    BY <1>1, <1>4, <2>4, UserStepIs
  <2>6. v.moved = 2 * (m.moved + b.motion) + b.remainder
    <3>1. m.moved \in Int /\ a.motion \in Int /\ a.remainder \in Int
      BY DEF Ledgers, AdapterStates
    <3>2. u.moved = 2 * (m.moved + a.motion) + a.remainder
      BY <2>2, <2>4
    <3> QED BY <1>1, <1>3, <2>5, <3>1, <3>2
  <2>7. Behind(b, m) = v
    BY <1>3, <2>2, <2>3, <2>4, <2>5, <2>6, SameUser
  <2> QED BY <2>1, <2>7
<1>5. Drains(a, e, b)
  BY <1>3, <1>4 DEF Drains
<1> QED BY <1>2, <1>5

\* A button: it is pressed where the user pressed it, but for the rounding.
LEMMA DrainButton ==
  ASSUME NEW a \in AdapterStates, RemainderOK(a), NEW e \in EisEvents, e.type = "button"
  PROVE  Drains(a, e, DrainEvent(a, e))
<1>0. e.down \in BOOLEAN /\ e.at \in Places
  BY EventIs
<1> DEFINE events == <<Key(Button, e.down, e.at)>>
<1>1. DrainEvent(a, e) = Queue(a, events)
  BY DEF DrainEvent
<1>2. events \in Seq(OutEvents)
  <2>1. Key(Button, e.down, e.at) \in OutEvents
    BY <1>0 DEF Key, OutEvents, Controls
  <2> QED BY <2>1
<1>3. ASSUME NEW m \in Ledgers, NEW v, LeftCtrl \in m.pressed <=> a.pinch.held,
             UserStep(Behind(a, m), e, v)
      PROVE  \E n \in Ledgers : /\ InjectorRun(events, MovedOn(m, a.motion), n)
                                /\ LeftCtrl \in n.pressed <=> a.pinch.held
                                /\ n.moved = m.moved + a.motion
                                /\ Button \in n.pressed <=> v.down
                                /\ n.touches = v.fingers
  <2>1. PICK l : l = MovedOn(m, a.motion)
    OBVIOUS
  <2>2. /\ l \in Ledgers /\ l.moved = m.moved + a.motion
        /\ l.pressed = m.pressed /\ l.touches = m.touches
        /\ Behind(a, m) \in UserStates /\ Behind(a, m).fingers = l.touches
        /\ Behind(a, m).moved - 2 * l.moved \in -1..1
    BY <2>1, MovedOnBehind
  <2>3. /\ v.down = e.down /\ v.fingers = l.touches
        /\ e.down => e.at.moved - Behind(a, m).moved \in -e.at.drift..e.at.drift
    BY <1>3, <2>2, UserStepIs
  <2>4. Button \in Controls /\ LeftCtrl # Button
    BY DEF Controls, LeftCtrl, Button
  <2>5. CASE e.down
    <3>1. events = <<Key(Button, TRUE, e.at)>>
      BY <1>0, <2>5
    <3>2. Near(e.at, 2 * l.moved)
      <4>1. /\ e.at.moved \in Int /\ e.at.drift \in Nat /\ l.moved \in Int
            /\ Behind(a, m).moved \in Int
        BY <1>0, <2>2 DEF Places, Ledgers, UserStates
      <4> QED BY <2>2, <2>3, <2>5, <4>1 DEF Near
    <3>3. \E n \in Ledgers : /\ InjectorRun(<<Key(Button, TRUE, e.at)>>, l, n)
                             /\ n.touches = l.touches /\ n.moved = l.moved
                             /\ n.pressed = l.pressed \union {Button}
      BY <1>0, <2>2, <2>4, <3>2, PressRuns
    <3> HIDE DEF events
    <3> QED BY <1>3, <2>1, <2>2, <2>3, <2>4, <2>5, <3>1, <3>3
  <2>6. CASE ~e.down
    <3>1. events = <<Key(Button, FALSE, e.at)>>
      BY <1>0, <2>6
    <3>2. \E n \in Ledgers : /\ InjectorRun(<<Key(Button, FALSE, e.at)>>, l, n)
                             /\ n.touches = l.touches /\ n.moved = l.moved
                             /\ n.pressed = l.pressed \ {Button}
      BY <1>0, <2>2, <2>4, ReleaseRuns
    <3> HIDE DEF events
    <3> QED BY <1>3, <2>1, <2>2, <2>3, <2>4, <2>6, <3>1, <3>2
  <2> QED BY <2>5, <2>6
<1> HIDE DEF events
<1>4. Handles(a, a.pinch.held, events, e)
  BY <1>3 DEF Handles
<1> QED BY <1>1, <1>2, <1>4, QueueDrains DEF SameCapture

\* Events about the wheel alone, or about nothing.
LEMMA WheelHandles ==
  ASSUME NEW a \in AdapterStates, RemainderOK(a), NEW e \in EisEvents,
         e.type \in {"smooth", "click", "frame"}, NEW events \in {<<>>, <<Wheel>>}
  PROVE  events \in Seq(OutEvents) /\ Handles(a, a.pinch.held, events, e)
<1>1. events \in Seq(OutEvents)
  <2>1. Wheel \in OutEvents
    BY DEF OutEvents
  <2>2. <<>> \in Seq(OutEvents) /\ <<Wheel>> \in Seq(OutEvents)
    BY <2>1
  <2> QED BY <2>2
<1>2. ASSUME NEW m \in Ledgers, NEW v, LeftCtrl \in m.pressed <=> a.pinch.held,
             UserStep(Behind(a, m), e, v)
      PROVE  \E n \in Ledgers : /\ InjectorRun(events, MovedOn(m, a.motion), n)
                                /\ LeftCtrl \in n.pressed <=> a.pinch.held
                                /\ n.moved = m.moved + a.motion
                                /\ Button \in n.pressed <=> v.down
                                /\ n.touches = v.fingers
  <2>1. PICK l : l = MovedOn(m, a.motion)
    OBVIOUS
  <2>2. /\ l \in Ledgers /\ l.moved = m.moved + a.motion
        /\ l.pressed = m.pressed /\ l.touches = m.touches
        /\ Behind(a, m) \in UserStates
        /\ Behind(a, m).down <=> Button \in l.pressed
        /\ Behind(a, m).fingers = l.touches
    BY <2>1, MovedOnBehind
  <2>3. v = Behind(a, m)
    BY <1>2, <2>2, UserStepIs
  <2>4. InjectorRun(events, l, l)
    BY <2>2, NoEventRuns, WheelRuns
  <2> QED BY <1>2, <2>1, <2>2, <2>3, <2>4
<1>3. Handles(a, a.pinch.held, events, e)
  BY <1>2 DEF Handles
<1> QED BY <1>1, <1>3

\* The wheel.
LEMMA DrainScroll ==
  ASSUME NEW a \in AdapterStates, RemainderOK(a), NEW e \in EisEvents, e.type \in {"smooth", "click"}
  PROVE  Drains(a, e, DrainEvent(a, e))
<1>1. CASE e.type = "smooth"
  <2>1. PICK c : c = [a EXCEPT !.smooth = TRUE]
    OBVIOUS
  <2>2. /\ c \in AdapterStates /\ SameCapture(a, c) /\ c.pending = a.pending /\ c.motion = a.motion
        /\ c.position = a.position /\ c.remainder = a.remainder /\ c.pinch = a.pinch
    BY <2>1 DEF AdapterStates, SameCapture
  <2>3. DrainEvent(a, e) = Queue(c, <<Wheel>>)
    BY <1>1, <2>1 DEF DrainEvent
  <2>4. <<Wheel>> \in Seq(OutEvents) /\ Handles(a, a.pinch.held, <<Wheel>>, e)
    BY <1>1, WheelHandles
  <2> QED BY <1>1, <2>2, <2>3, <2>4, QueueDrains
<1>2. CASE e.type = "click"
  <2>1. PICK events \in {<<>>, <<Wheel>>} : events = IF a.smooth THEN <<>> ELSE <<Wheel>>
    OBVIOUS
  <2>2. DrainEvent(a, e) = Queue(a, events)
    BY <1>2, <2>1 DEF DrainEvent
  <2>3. events \in Seq(OutEvents) /\ Handles(a, a.pinch.held, events, e)
    BY <1>2, <2>1, WheelHandles
  <2> QED BY <1>2, <2>2, <2>3, QueueDrains DEF SameCapture
<1> QED BY <1>1, <1>2

\* The flush of the coalesced motion leaves the user behind the adapter alone.
LEMMA FlushFollows ==
  ASSUME NEW a \in AdapterStates, RemainderOK(a)
  PROVE  LET b == FlushMotion(a) IN
         /\ b \in AdapterStates /\ SameCapture(a, b) /\ RemainderOK(b) /\ b.pinch = a.pinch
         /\ b.motion = 0
         /\ \A m \in Ledgers : \A l : Follows(a, l, m) =>
              \E n \in Ledgers : Follows(b, l, n) /\ Behind(b, n) = Behind(a, m)
<1> DEFINE b == FlushMotion(a)
<1>1. /\ b \in AdapterStates /\ b.motion = 0 /\ SameCapture(a, b)
      /\ b.position = a.position /\ b.remainder = a.remainder /\ b.pinch = a.pinch
  BY Flushed
<1>2. RemainderOK(b)
  <2> HIDE DEF b
  <2> QED BY <1>1 DEF RemainderOK
<1>3. ASSUME NEW m \in Ledgers, NEW l, Follows(a, l, m)
      PROVE  \E n \in Ledgers : Follows(b, l, n) /\ Behind(b, n) = Behind(a, m)
  <2>1. PICK n : n = MovedOn(m, a.motion)
    OBVIOUS
  <2>2. InjectorRun(b.pending, l, n)
    BY <1>3, <2>1, FlushLeads DEF Follows
  <2>3. /\ n \in Ledgers /\ n.moved = m.moved + a.motion
        /\ n.pressed = m.pressed /\ n.touches = m.touches
        /\ Behind(a, m) \in UserStates
    BY <2>1, MovedOnBehind
  <2> HIDE DEF b
  <2>4. Follows(b, l, n)
    BY <1>1, <1>3, <2>2, <2>3 DEF Follows
  <2>5. /\ Behind(a, m).down <=> Button \in m.pressed
        /\ Behind(a, m).fingers = m.touches /\ Behind(a, m).x = a.position
        /\ Behind(a, m).moved = 2 * (m.moved + a.motion) + a.remainder
    BY BehindIs
  <2>6. /\ Behind(b, n) \in UserStates
        /\ Behind(b, n).down <=> Button \in n.pressed
        /\ Behind(b, n).fingers = n.touches /\ Behind(b, n).x = b.position
        /\ Behind(b, n).moved = 2 * (n.moved + b.motion) + b.remainder
    BY <1>1, <2>3, BehindIs
  <2>7. Behind(a, m).moved = Behind(b, n).moved
    <3>1. m.moved \in Int /\ a.motion \in Int /\ a.remainder \in Int /\ n.moved \in Int
      BY <2>3 DEF Ledgers, AdapterStates
    <3> QED BY <1>1, <2>3, <2>5, <2>6, <3>1
  <2>8. Behind(b, n) = Behind(a, m)
    BY <1>1, <2>3, <2>5, <2>6, <2>7, SameUser
  <2> QED BY <2>3, <2>4, <2>8
<1> QED BY <1>1, <1>2, <1>3

\* The end of a frame.
LEMMA DrainFrame ==
  ASSUME NEW a \in AdapterStates, RemainderOK(a), NEW e \in EisEvents, e.type = "frame"
  PROVE  Drains(a, e, DrainEvent(a, e))
<1>1. PICK b : b = FlushMotion(a)
  OBVIOUS
<1>2. /\ b \in AdapterStates /\ SameCapture(a, b) /\ RemainderOK(b) /\ b.pinch = a.pinch
      /\ \A m \in Ledgers : \A l : Follows(a, l, m) =>
           \E n \in Ledgers : Follows(b, l, n) /\ Behind(b, n) = Behind(a, m)
  BY <1>1, FlushFollows
<1>3. PICK c : c = [b EXCEPT !.smooth = FALSE]
  OBVIOUS
<1>4. /\ c \in AdapterStates /\ SameCapture(a, c) /\ RemainderOK(c) /\ c.pinch = a.pinch
      /\ c.pending = b.pending /\ c.position = b.position /\ c.motion = b.motion
      /\ c.remainder = b.remainder
  BY <1>2, <1>3 DEF AdapterStates, SameCapture, RemainderOK
<1>5. DrainEvent(a, e) = c
  BY <1>1, <1>3 DEF DrainEvent
<1>6. ASSUME NEW m \in Ledgers, NEW l, NEW v, Follows(a, l, m), UserStep(Behind(a, m), e, v)
      PROVE  \E n \in Ledgers : Follows(c, l, n) /\ Behind(c, n) = v
  <2>1. PICK n \in Ledgers : Follows(b, l, n) /\ Behind(b, n) = Behind(a, m)
    BY <1>2, <1>6
  <2>2. Follows(c, l, n)
    BY <1>2, <1>4, <2>1 DEF Follows
  <2>3. Behind(c, n) = Behind(b, n)
    BY <1>4 DEF Behind
  <2>4. v = Behind(a, m)
    BY <1>6, BehindIs, UserStepIs
  <2> QED BY <2>1, <2>2, <2>3, <2>4
<1> QED BY <1>4, <1>5, <1>6 DEF Drains

\* The adapter with another state of the touch screen's pinch.
LEMMA WithPinch ==
  ASSUME NEW a \in AdapterStates, NEW p \in Pinches, NEW c, c = [a EXCEPT !.pinch = p]
  PROVE  /\ c \in AdapterStates /\ SameCapture(a, c) /\ c.pending = a.pending /\ c.motion = a.motion
         /\ c.position = a.position /\ c.remainder = a.remainder /\ c.pinch = p
BY DEF AdapterStates, SameCapture

\* A finger on the touch screen.
LEMMA DrainDown ==
  ASSUME NEW a \in AdapterStates, RemainderOK(a), NEW e \in EisEvents, e.type = "down"
  PROVE  Drains(a, e, DrainEvent(a, e))
<1>0. e.id \in Nat /\ e \notin PointerEvents /\ a.pinch \in Pinches
  BY EventIs DEF AdapterStates
<1>1. PICK p : p = PinchDown(a.pinch, e.id)
  OBVIOUS
<1>2. p \in Pinches /\ p.held = a.pinch.held
  BY <1>0, <1>1, PinchDownIs
<1>3. PICK c : c = [a EXCEPT !.pinch = p]
  OBVIOUS
<1>4. /\ c \in AdapterStates /\ SameCapture(a, c) /\ c.pending = a.pending /\ c.motion = a.motion
      /\ c.position = a.position /\ c.remainder = a.remainder /\ c.pinch = p
  BY <1>2, <1>3, WithPinch
<1> DEFINE events == <<Touch("down", e.id)>>
<1>5. DrainEvent(a, e) = Queue(c, events)
  BY <1>1, <1>3 DEF DrainEvent
<1>6. events \in Seq(OutEvents)
  <2>1. Touch("down", e.id) \in OutEvents
    BY <1>0 DEF Touch, OutEvents
  <2> QED BY <2>1
<1>7. ASSUME NEW m \in Ledgers, NEW v, LeftCtrl \in m.pressed <=> a.pinch.held,
             UserStep(Behind(a, m), e, v)
      PROVE  \E n \in Ledgers : /\ InjectorRun(events, MovedOn(m, a.motion), n)
                                /\ LeftCtrl \in n.pressed <=> p.held
                                /\ n.moved = m.moved + a.motion
                                /\ Button \in n.pressed <=> v.down
                                /\ n.touches = v.fingers
  <2>1. PICK l : l = MovedOn(m, a.motion)
    OBVIOUS
  <2>2. /\ l \in Ledgers /\ l.moved = m.moved + a.motion
        /\ l.pressed = m.pressed /\ l.touches = m.touches
        /\ Behind(a, m) \in UserStates
        /\ Behind(a, m).down <=> Button \in l.pressed
        /\ Behind(a, m).fingers = l.touches
    BY <2>1, MovedOnBehind
  <2>3. /\ v.down = Behind(a, m).down /\ v.fingers = l.touches \union {e.id}
        /\ e.id \notin l.touches
    BY <1>7, <2>2, UserStepIs
  <2>4. \E n \in Ledgers : /\ InjectorRun(<<Touch("down", e.id)>>, l, n)
                           /\ n.pressed = l.pressed /\ n.moved = l.moved
                           /\ n.touches = l.touches \union {e.id}
    BY <1>0, <2>2, <2>3, TouchRuns
  <2> QED BY <1>2, <1>7, <2>1, <2>2, <2>3, <2>4
<1> HIDE DEF events
<1>8. Handles(a, c.pinch.held, events, e)
  BY <1>4, <1>7 DEF Handles
<1> QED BY <1>0, <1>4, <1>5, <1>6, <1>8, QueueDrains

\* A finger moves on the touch screen, and may zoom.
LEMMA DrainMove ==
  ASSUME NEW a \in AdapterStates, RemainderOK(a), NEW e \in EisEvents, e.type = "move"
  PROVE  Drains(a, e, DrainEvent(a, e))
<1>0. e.id \in Nat /\ e \notin PointerEvents /\ a.pinch \in Pinches /\ e.step \in BOOLEAN
  BY EventIs DEF AdapterStates
<1>1. PICK p : p = PinchMotion(a.pinch, e.id, e.step)
  OBVIOUS
<1>2. p \in Pinches
  BY <1>0, <1>1, PinchMotionIs
<1>3. PICK c : c = [a EXCEPT !.pinch = p]
  OBVIOUS
<1>4. /\ c \in AdapterStates /\ SameCapture(a, c) /\ c.pending = a.pending /\ c.motion = a.motion
      /\ c.position = a.position /\ c.remainder = a.remainder /\ c.pinch = p
  BY <1>2, <1>3, WithPinch
<1> DEFINE q == PinchMotionEvents(a.pinch, e.id, e.step)
           t == Touch("move", e.id)
           events == Append(q, t)
<1>5. DrainEvent(a, e) = Queue(c, events)
  BY <1>1, <1>3 DEF DrainEvent
<1>6. q \in Seq(OutEvents) /\ t \in OutEvents
  <2>1. Touch("move", e.id) \in OutEvents
    BY <1>0 DEF Touch, OutEvents
  <2> QED BY <1>0, <2>1, PinchEventsTyped
<1>7. ASSUME NEW m \in Ledgers, NEW v, LeftCtrl \in m.pressed <=> a.pinch.held,
             UserStep(Behind(a, m), e, v)
      PROVE  \E n \in Ledgers : /\ InjectorRun(events, MovedOn(m, a.motion), n)
                                /\ LeftCtrl \in n.pressed <=> p.held
                                /\ n.moved = m.moved + a.motion
                                /\ Button \in n.pressed <=> v.down
                                /\ n.touches = v.fingers
  <2>1. PICK l : l = MovedOn(m, a.motion)
    OBVIOUS
  <2>2. /\ l \in Ledgers /\ l.moved = m.moved + a.motion
        /\ l.pressed = m.pressed /\ l.touches = m.touches
        /\ Behind(a, m) \in UserStates
        /\ Behind(a, m).down <=> Button \in l.pressed
        /\ Behind(a, m).fingers = l.touches
    BY <2>1, MovedOnBehind
  <2>3. /\ v.down = Behind(a, m).down /\ v.fingers = l.touches /\ e.id \in l.touches
    BY <1>7, <2>2, UserStepIs
  <2>4. PICK k \in Ledgers : /\ InjectorRun(q, l, k)
                             /\ OnlyCtrl(l, k)
                             /\ LeftCtrl \in k.pressed <=> PinchMotion(a.pinch, e.id, e.step).held
    BY <1>0, <1>7, <2>2, PinchMotionRuns
  <2>5. e.id \in k.touches
    BY <2>3, <2>4 DEF OnlyCtrl
  <2>6. PICK n \in Ledgers : /\ InjectorRun(<<t>>, k, n)
                             /\ n.pressed = k.pressed /\ n.moved = k.moved
                             /\ n.touches = k.touches
    BY <1>0, <2>4, <2>5, TouchRuns
  <2>7. events = q \o <<t>> /\ <<t>> \in Seq(OutEvents)
    <3> HIDE DEF q, t
    <3> QED BY <1>6
  <2>8. InjectorRun(events, l, n)
    <3> HIDE DEF q, t, events
    <3> QED BY <1>6, <2>4, <2>6, <2>7, InjectorConcat
  <2> HIDE DEF q, t, events
  <2> QED BY <1>1, <2>1, <2>2, <2>3, <2>4, <2>6, <2>8 DEF OnlyCtrl
<1>8. events \in Seq(OutEvents)
  <2> HIDE DEF q, t
  <2> QED BY <1>6
<1> HIDE DEF q, t, events
<1>9. Handles(a, c.pinch.held, events, e)
  BY <1>4, <1>7 DEF Handles
<1> QED BY <1>0, <1>4, <1>5, <1>8, <1>9, QueueDrains

\* A finger leaves the touch screen, and the pinch may end.
LEMMA DrainUp ==
  ASSUME NEW a \in AdapterStates, RemainderOK(a), NEW e \in EisEvents, e.type = "up"
  PROVE  Drains(a, e, DrainEvent(a, e))
<1>0. e.id \in Nat /\ e \notin PointerEvents /\ a.pinch \in Pinches
  BY EventIs DEF AdapterStates
<1>1. PICK p : p = PinchUp(a.pinch, e.id)
  OBVIOUS
<1>2. p \in Pinches
  BY <1>0, <1>1, PinchUpIs
<1>3. PICK c : c = [a EXCEPT !.pinch = p]
  OBVIOUS
<1>4. /\ c \in AdapterStates /\ SameCapture(a, c) /\ c.pending = a.pending /\ c.motion = a.motion
      /\ c.position = a.position /\ c.remainder = a.remainder /\ c.pinch = p
  BY <1>2, <1>3, WithPinch
<1> DEFINE q == PinchUpEvents(a.pinch, e.id)
           t == Touch("up", e.id)
           events == <<t>> \o q
<1>5. DrainEvent(a, e) = Queue(c, events)
  BY <1>1, <1>3 DEF DrainEvent
<1>6. q \in Seq(OutEvents) /\ t \in OutEvents /\ <<t>> \in Seq(OutEvents)
  <2>1. t \in OutEvents
    BY <1>0 DEF Touch, OutEvents
  <2>2. q \in Seq(OutEvents)
    <3>1. TRUE \in BOOLEAN
      OBVIOUS
    <3> QED BY <1>0, <3>1, PinchEventsTyped, Zenon
  <2> HIDE DEF t, q
  <2> QED BY <2>1, <2>2
<1>7. ASSUME NEW m \in Ledgers, NEW v, LeftCtrl \in m.pressed <=> a.pinch.held,
             UserStep(Behind(a, m), e, v)
      PROVE  \E n \in Ledgers : /\ InjectorRun(events, MovedOn(m, a.motion), n)
                                /\ LeftCtrl \in n.pressed <=> p.held
                                /\ n.moved = m.moved + a.motion
                                /\ Button \in n.pressed <=> v.down
                                /\ n.touches = v.fingers
  <2>1. PICK l : l = MovedOn(m, a.motion)
    OBVIOUS
  <2>2. /\ l \in Ledgers /\ l.moved = m.moved + a.motion
        /\ l.pressed = m.pressed /\ l.touches = m.touches
        /\ Behind(a, m) \in UserStates
        /\ Behind(a, m).down <=> Button \in l.pressed
        /\ Behind(a, m).fingers = l.touches
    BY <2>1, MovedOnBehind
  <2>3. v.down = Behind(a, m).down /\ v.fingers = l.touches \ {e.id}
    BY <1>7, <2>2, UserStepIs
  <2>4. PICK k \in Ledgers : /\ InjectorRun(<<t>>, l, k)
                             /\ k.pressed = l.pressed /\ k.moved = l.moved
                             /\ k.touches = l.touches \ {e.id}
    BY <1>0, <2>2, LiftRuns
  <2>5. PICK n \in Ledgers : /\ InjectorRun(q, k, n)
                             /\ OnlyCtrl(k, n)
                             /\ LeftCtrl \in n.pressed <=> PinchUp(a.pinch, e.id).held
    BY <1>0, <1>7, <2>2, <2>4, PinchUpRuns
  <2>6. InjectorRun(events, l, n)
    <3> HIDE DEF q, t
    <3> QED BY <1>6, <2>4, <2>5, InjectorConcat
  <2> HIDE DEF q, t, events
  <2> QED BY <1>1, <2>1, <2>2, <2>3, <2>4, <2>5, <2>6 DEF OnlyCtrl
<1>8. events \in Seq(OutEvents)
  <2> HIDE DEF q, t
  <2> QED BY <1>6
<1> HIDE DEF q, t, events
<1>9. Handles(a, c.pinch.held, events, e)
  BY <1>4, <1>7 DEF Handles
<1> QED BY <1>0, <1>4, <1>5, <1>8, <1>9, QueueDrains

\* Every event.
LEMMA DrainIs ==
  ASSUME NEW a \in AdapterStates, RemainderOK(a), NEW e \in EisEvents
  PROVE  Drains(a, e, DrainEvent(a, e))
BY EventIs, DrainAbsolute, DrainRelative, DrainButton, DrainScroll, DrainFrame, DrainDown,
   DrainMove, DrainUp

\* The whole batch: whatever user the adapter stands for, it stands for that
\* user after all that is in the socket.
LEMMA BatchIs ==
  ASSUME adapter \in AdapterStates, RemainderOK(adapter), eis \in Seq(EisEvents)
  PROVE  LET b == DrainBatch IN
         /\ b \in AdapterStates /\ SameCapture(adapter, b) /\ RemainderOK(b) /\ b.motion = 0
         /\ (\A i \in DOMAIN eis : eis[i] \in PointerEvents) => b.pinch = adapter.pinch
         /\ \A m \in Ledgers : \A l, v :
              Follows(adapter, l, m) /\ UserRun(eis, Behind(adapter, m), v) =>
                \E n \in Ledgers : Follows(b, l, n) /\ Behind(b, n) = v
<1>0. Len(eis) \in Nat /\ DOMAIN eis = 1..Len(eis) /\ \A i \in 1..Len(eis) : eis[i] \in EisEvents
  OBVIOUS
<1>1. PICK f : /\ f[0] = adapter
               /\ \A n \in 1..Len(eis) : f[n] = DrainEvent(f[n - 1], eis[n])
               /\ DrainBatch = FlushMotion(f[Len(eis)])
  <2>1. Len(eis) \in Nat
    BY <1>0
  <2> QED BY <2>1, BatchFold
<1> DEFINE Sound(i) ==
             /\ f[i] \in AdapterStates /\ SameCapture(adapter, f[i]) /\ RemainderOK(f[i])
             /\ (\A k \in DOMAIN eis : eis[k] \in PointerEvents) => f[i].pinch = adapter.pinch
           T == {i \in Nat : Sound(i)}
<1>2. \A i \in 0..Len(eis) : Sound(i)
  <2>1. 0 \in T
    BY <1>1 DEF SameCapture
  <2>2. ASSUME NEW i \in 1..Len(eis), i - 1 \in T PROVE i \in T
    <3>1. Sound(i - 1)
      BY <2>2
    <3>2. Drains(f[i - 1], eis[i], f[i])
      BY <1>0, <1>1, <3>1, DrainIs
    <3>3. Sound(i)
      BY <1>0, <3>1, <3>2 DEF Drains, SameCapture
    <3> QED BY <1>0, <3>3
  <2>3. \A i \in 0..Len(eis) : i \in T
    <3> HIDE DEF T
    <3> QED BY <1>0, <2>1, <2>2, Induction
  <2> QED BY <2>3
<1>3. Sound(Len(eis))
  BY <1>0, <1>2
<1>4. ASSUME NEW m \in Ledgers, NEW l, NEW v, Follows(adapter, l, m),
             UserRun(eis, Behind(adapter, m), v)
      PROVE  \E n \in Ledgers : Follows(f[Len(eis)], l, n) /\ Behind(f[Len(eis)], n) = v
  <2>1. PICK s \in [0..Len(eis) -> UserStates] :
          /\ s[0] = Behind(adapter, m) /\ s[Len(eis)] = v
          /\ \A i \in 1..Len(eis) : <<s[i - 1], eis[i], s[i]>> \in UserSteps
    BY <1>4 DEF UserRun, Run
  <2> DEFINE U == {i \in Nat : \E n \in Ledgers : Follows(f[i], l, n) /\ Behind(f[i], n) = s[i]}
  <2>2. 0 \in U
    BY <1>1, <1>4, <2>1
  <2>3. ASSUME NEW i \in 1..Len(eis), i - 1 \in U PROVE i \in U
    <3>1. PICK n \in Ledgers : Follows(f[i - 1], l, n) /\ Behind(f[i - 1], n) = s[i - 1]
      BY <2>3
    <3>2. UserStep(s[i - 1], eis[i], s[i])
      <4>1. <<s[i - 1], eis[i], s[i]>> \in UserSteps
        BY <2>1
      <4> QED BY <4>1 DEF UserSteps
    <3>3. Drains(f[i - 1], eis[i], f[i])
      <4>1. i - 1 \in 0..Len(eis)
        BY <1>0
      <4>2. f[i - 1] \in AdapterStates /\ RemainderOK(f[i - 1])
        BY <1>2, <4>1
      <4> QED BY <1>0, <1>1, <4>2, DrainIs
    <3>4. \E k \in Ledgers : Follows(f[i], l, k) /\ Behind(f[i], k) = s[i]
      BY <3>1, <3>2, <3>3 DEF Drains
    <3> QED BY <1>0, <3>4
  <2>4. \A i \in 0..Len(eis) : i \in U
    <3> HIDE DEF U
    <3> QED BY <1>0, <2>2, <2>3, Induction
  <2>5. Len(eis) \in U
    <3> HIDE DEF U
    <3> QED BY <1>0, <2>4
  <2> QED BY <2>1, <2>5
<1>5. PICK a : a = f[Len(eis)]
  OBVIOUS
<1>6. /\ a \in AdapterStates /\ SameCapture(adapter, a) /\ RemainderOK(a)
      /\ (\A k \in DOMAIN eis : eis[k] \in PointerEvents) => a.pinch = adapter.pinch
  BY <1>3, <1>5
<1>7. PICK b : b = DrainBatch
  OBVIOUS
<1>8. /\ b \in AdapterStates /\ SameCapture(a, b) /\ RemainderOK(b) /\ b.pinch = a.pinch
      /\ b.motion = 0
      /\ \A m \in Ledgers : \A l : Follows(a, l, m) =>
           \E n \in Ledgers : Follows(b, l, n) /\ Behind(b, n) = Behind(a, m)
  BY <1>1, <1>5, <1>6, <1>7, FlushFollows
<1>9. ASSUME NEW m \in Ledgers, NEW l, NEW v, Follows(adapter, l, m),
             UserRun(eis, Behind(adapter, m), v)
      PROVE  \E n \in Ledgers : Follows(b, l, n) /\ Behind(b, n) = v
  <2>1. PICK k \in Ledgers : Follows(a, l, k) /\ Behind(a, k) = v
    BY <1>4, <1>5, <1>9
  <2> QED BY <1>8, <2>1
<1>10. SameCapture(adapter, b)
  BY <1>6, <1>8 DEF SameCapture
<1> QED BY <1>6, <1>7, <1>8, <1>9, <1>10

-----------------------------------------------------------------------------
(* The trackpad, one report *)

\* What a report does to the contact in its slot, to the pinch and to what is
\* forwarded.
ReportEffect(p, was, r, now, pinch, out) ==
  \/ /\ r.what = "lift" /\ now = NoContact
     /\ was.forwarded => pinch = PinchUp(p, was.id) /\ out = PinchUpEvents(p, was.id)
     /\ ~was.forwarded => pinch = p /\ out = <<>>
  \/ /\ r.what = "land" /\ now.id = r.id /\ now.forwarded = r.full /\ out = <<>>
     /\ r.full => pinch = PinchDown(p, r.id)
     /\ ~r.full => pinch = p
  \/ /\ r.what = "move" /\ now.id = was.id /\ (now.forwarded <=> was.id # None)
     /\ was.forwarded => /\ pinch = PinchMotion(p, was.id, r.step)
                         /\ out = PinchMotionEvents(p, was.id, r.step)
     /\ ~was.forwarded /\ was.id # None => pinch = PinchDown(p, was.id) /\ out = <<>>
     /\ ~was.forwarded /\ was.id = None => pinch = p /\ out = <<>>

Contacts == [id : Nat, forwarded : BOOLEAN]
SlotIn(raw, r) == IF r.slot = SameSlot THEN raw.slot ELSE r.slot

\* One report of the trackpad, its slot resolved, changes one contact and the pinch.
LEMMA ProcessIs ==
  ASSUME NEW acc, acc.raw \in Raws, acc.out \in Seq(OutEvents), NEW r \in Reports
  PROVE  LET raw == acc.raw
             s == SlotIn(raw, r)
         IN \E now \in Contacts, pinch \in Pinches, out \in Seq(OutEvents) :
              /\ Process(acc, r) = [raw |-> [slot |-> s, contacts |-> [raw.contacts EXCEPT ![s] = now],
                                             pinch |-> pinch],
                                    out |-> acc.out \o out]
              /\ ReportEffect(raw.pinch, raw.contacts[s], r, now, pinch, out)
<1> DEFINE raw == acc.raw
           s == SlotIn(raw, r)
           was == raw.contacts[s]
           now == CASE r.what = "lift" -> NoContact
                    [] r.what = "land" -> [id |-> r.id, forwarded |-> r.full]
                    [] OTHER -> [was EXCEPT !.forwarded = was.id # None]
           pinch == CASE r.what = "lift" -> IF was.forwarded THEN PinchUp(raw.pinch, was.id) ELSE raw.pinch
                      [] now.forwarded /\ (r.what = "land" \/ ~was.forwarded) -> PinchDown(raw.pinch, now.id)
                      [] r.what = "move" /\ was.forwarded -> PinchMotion(raw.pinch, was.id, r.step)
                      [] OTHER -> raw.pinch
           out == CASE r.what = "lift" /\ was.forwarded -> PinchUpEvents(raw.pinch, was.id)
                    [] r.what = "move" /\ was.forwarded -> PinchMotionEvents(raw.pinch, was.id, r.step)
                    [] OTHER -> <<>>
<1>1. Process(acc, r) = [raw |-> [slot |-> s, contacts |-> [raw.contacts EXCEPT ![s] = now],
                                  pinch |-> pinch],
                         out |-> acc.out \o out]
  BY DEF Process, SlotIn
<1>2. /\ was \in Contacts /\ raw.pinch \in Pinches /\ was.id \in Nat /\ was.forwarded \in BOOLEAN
      /\ r.what \in {"land", "move", "lift"} /\ r.id \in Nat /\ r.full \in BOOLEAN
      /\ r.step \in BOOLEAN
  <2>1. s \in Slots
    BY DEF Raws, Reports, SlotIn, Slots, SameSlot
  <2> HIDE DEF s
  <2> QED BY <2>1 DEF Raws, Reports, Contacts
<1> HIDE DEF raw, s, was
<1>3. CASE r.what = "lift"
  <2>1. now = NoContact /\ now \in Contacts
    BY <1>3 DEF NoContact, Contacts, None
  <2>2. /\ was.forwarded => pinch = PinchUp(raw.pinch, was.id) /\ out = PinchUpEvents(raw.pinch, was.id)
        /\ ~was.forwarded => pinch = raw.pinch /\ out = <<>>
    <3>0. ~now.forwarded
      BY <2>1 DEF NoContact
    <3> HIDE DEF now
    <3>1. CASE was.forwarded
      BY <1>3, <3>0, <3>1
    <3>2. CASE ~was.forwarded
      BY <1>3, <3>0, <3>2
    <3> QED BY <3>1, <3>2
  <2> HIDE DEF now, pinch, out
  <2>3. pinch \in Pinches
    <3>1. PinchUp(raw.pinch, was.id) \in Pinches
      BY <1>2, PinchUpIs
    <3> QED BY <1>2, <2>2, <3>1
  <2>4. out \in Seq(OutEvents)
    <3>1. PinchUpEvents(raw.pinch, was.id) \in Seq(OutEvents)
      BY <1>2, PinchEventsTyped
    <3>2. <<>> \in Seq(OutEvents)
      OBVIOUS
    <3> QED BY <1>2, <2>2, <3>1, <3>2
  <2>5. ReportEffect(raw.pinch, was, r, now, pinch, out)
    BY <1>3, <2>1, <2>2 DEF ReportEffect
  <2> QED BY <1>1, <2>1, <2>3, <2>4, <2>5 DEF was, s, raw
<1>4. CASE r.what = "land"
  <2>1. now = [id |-> r.id, forwarded |-> r.full] /\ now \in Contacts
        /\ now.id = r.id /\ now.forwarded = r.full
    BY <1>2, <1>4 DEF Contacts
  <2>2. /\ r.full => pinch = PinchDown(raw.pinch, r.id)
        /\ ~r.full => pinch = raw.pinch
        /\ out = <<>>
    <3> HIDE DEF now
    <3> QED BY <1>4, <2>1
  <2> HIDE DEF now, pinch, out
  <2>3. pinch \in Pinches
    <3>1. PinchDown(raw.pinch, r.id) \in Pinches
      BY <1>2, PinchDownIs
    <3> QED BY <1>2, <2>2, <3>1
  <2>4. out \in Seq(OutEvents)
    BY <2>2
  <2>5. ReportEffect(raw.pinch, was, r, now, pinch, out)
    BY <1>4, <2>1, <2>2 DEF ReportEffect
  <2> QED BY <1>1, <2>1, <2>3, <2>4, <2>5 DEF was, s, raw
<1>5. CASE r.what = "move"
  <2>1. now \in Contacts /\ now.id = was.id /\ (now.forwarded <=> was.id # None)
    <3>1. CASE was.id # None
      <4>1. now = [was EXCEPT !.forwarded = TRUE]
        BY <1>5, <3>1
      <4> QED BY <1>2, <3>1, <4>1 DEF Contacts
    <3>2. CASE was.id = None
      <4>1. now = [was EXCEPT !.forwarded = FALSE]
        BY <1>5, <3>2
      <4> QED BY <1>2, <3>2, <4>1 DEF Contacts
    <3> QED BY <3>1, <3>2
  <2>2. /\ was.forwarded => /\ pinch = PinchMotion(raw.pinch, was.id, r.step)
                            /\ out = PinchMotionEvents(raw.pinch, was.id, r.step)
        /\ ~was.forwarded /\ was.id # None => pinch = PinchDown(raw.pinch, was.id) /\ out = <<>>
        /\ ~was.forwarded /\ was.id = None => pinch = raw.pinch /\ out = <<>>
    <3> HIDE DEF now
    <3> QED BY <1>2, <1>5, <2>1
  <2> HIDE DEF now, pinch, out
  <2>3. pinch \in Pinches
    <3>1. PinchMotion(raw.pinch, was.id, r.step) \in Pinches /\ PinchDown(raw.pinch, was.id) \in Pinches
      BY <1>2, PinchMotionIs, PinchDownIs
    <3> QED BY <1>2, <2>2, <3>1
  <2>4. out \in Seq(OutEvents)
    <3>1. PinchMotionEvents(raw.pinch, was.id, r.step) \in Seq(OutEvents)
      BY <1>2, PinchEventsTyped
    <3>2. <<>> \in Seq(OutEvents)
      OBVIOUS
    <3> QED BY <1>2, <2>2, <3>1, <3>2
  <2>5. ReportEffect(raw.pinch, was, r, now, pinch, out)
    BY <1>5, <2>1, <2>2 DEF ReportEffect
  <2> QED BY <1>1, <2>1, <2>3, <2>4, <2>5 DEF was, s, raw
<1> QED BY <1>2, <1>3, <1>4, <1>5

\* What a report forwards concerns Ctrl and the wheel alone, and Ctrl is held
\* while the pinch lasts.
LEMMA ProcessLeads ==
  ASSUME NEW p \in Pinches, NEW was \in Contacts, NEW r \in Reports, NEW now, NEW pinch, NEW out,
         ReportEffect(p, was, r, now, pinch, out),
         NEW l \in Ledgers, LeftCtrl \in l.pressed <=> p.held
  PROVE  \E m \in Ledgers : /\ InjectorRun(out, l, m) /\ OnlyCtrl(l, m)
                            /\ LeftCtrl \in m.pressed <=> pinch.held
<1>0. was.id \in Nat /\ was.forwarded \in BOOLEAN /\ r.id \in Nat /\ r.full \in BOOLEAN
      /\ r.step \in BOOLEAN
  BY DEF Contacts, Reports
<1>1. CASE r.what = "lift" /\ was.forwarded
  <2>1. pinch = PinchUp(p, was.id) /\ out = PinchUpEvents(p, was.id)
    BY <1>1 DEF ReportEffect
  <2> QED BY <1>0, <2>1, PinchUpRuns
<1>2. CASE r.what = "move" /\ was.forwarded
  <2>1. pinch = PinchMotion(p, was.id, r.step) /\ out = PinchMotionEvents(p, was.id, r.step)
    BY <1>2 DEF ReportEffect
  <2> QED BY <1>0, <2>1, PinchMotionRuns
<1>3. CASE ~(r.what \in {"lift", "move"} /\ was.forwarded)
  <2>1. /\ out = <<>>
        /\ pinch = p \/ pinch = PinchDown(p, r.id) \/ pinch = PinchDown(p, was.id)
    BY <1>0, <1>3 DEF ReportEffect
  <2>2. pinch.held = p.held
    BY <1>0, <2>1, PinchDownIs
  <2> QED BY <2>1, <2>2, NoEventRuns DEF OnlyCtrl
<1> QED BY <1>1, <1>2, <1>3

\* What a report does to the contacts of the pinch.
LEMMA ReportContacts ==
  ASSUME NEW p \in Pinches, NEW was \in Contacts, NEW r \in Reports, NEW now \in Contacts,
         NEW pinch \in Pinches, NEW out, ReportEffect(p, was, r, now, pinch, out),
         p.held => p.contacts # {}
  PROVE  /\ \A c \in pinch.contacts : c \in p.contacts \/ (now.forwarded /\ c = now.id)
         /\ r.what = "lift" /\ was.forwarded => was.id \notin pinch.contacts
         /\ pinch.held => pinch.contacts # {}
<1>0. was.id \in Nat /\ was.forwarded \in BOOLEAN /\ r.id \in Nat /\ r.full \in BOOLEAN
      /\ r.step \in BOOLEAN
  BY DEF Contacts, Reports
<1>1. CASE r.what = "lift" /\ was.forwarded
  <2>1. pinch = PinchUp(p, was.id)
    BY <1>1 DEF ReportEffect
  <2>2. /\ PinchUp(p, was.id).contacts = p.contacts \ {was.id}
        /\ PinchUp(p, was.id).held => Cardinality(p.contacts \ {was.id}) >= 2
    <3>1. /\ PinchUp(p, was.id).contacts = p.contacts \ {was.id}
          /\ PinchUp(p, was.id).held <=> p.held /\ Cardinality(p.contacts \ {was.id}) >= 2
      BY <1>0, PinchUpIs
    <3> QED BY <3>1
  <2>3. Cardinality({}) = 0
    BY FS_EmptySet
  <2>4. p.contacts \ {was.id} = {} => ~(Cardinality(p.contacts \ {was.id}) >= 2)
    <3>1. CASE p.contacts \ {was.id} = {}
      <4>1. Cardinality(p.contacts \ {was.id}) = 0
        BY <2>3, <3>1
      <4> QED BY <4>1
    <3> QED BY <3>1
  <2> QED BY <2>1, <2>2, <2>4
<1>2. CASE r.what = "move" /\ was.forwarded
  <2>1. pinch = PinchMotion(p, was.id, r.step)
    BY <1>2 DEF ReportEffect
  <2>2. /\ PinchMotion(p, was.id, r.step).contacts = p.contacts
        /\ PinchMotion(p, was.id, r.step).held <=> p.held \/ Zooms(p, was.id, r.step)
    BY <1>0, PinchMotionIs
  <2>3. Zooms(p, was.id, r.step) => was.id \in p.contacts
    BY DEF Zooms
  <2> QED BY <1>2, <2>1, <2>2, <2>3
<1>3. CASE ~(r.what \in {"lift", "move"} /\ was.forwarded)
  <2>1. \/ pinch = p
        \/ /\ now.forwarded /\ pinch = PinchDown(p, now.id)
    BY <1>0, <1>3 DEF ReportEffect
  <2>2. now.id \in Nat
    BY DEF Contacts
  <2>3. PinchDown(p, now.id).contacts = p.contacts \union {now.id}
    BY <2>2, PinchDownIs
  <2> QED BY <1>3, <2>1, <2>3
<1> QED BY <1>1, <1>2, <1>3

\* The tracker keeps to the fingers, also while it takes slot 1 for slot 0.
LEMMA ReportTracks ==
  ASSUME NEW raw \in Raws, NEW t \in Tracks, NEW v, NEW r \in Reports,
         Tracked(raw, t), ReportStep(t, r, v),
         NEW now \in Contacts, NEW pinch \in Pinches, NEW out,
         ReportEffect(raw.pinch, raw.contacts[SlotIn(raw, r)], r, now, pinch, out),
         NEW w, w = [slot |-> SlotIn(raw, r),
                     contacts |-> [raw.contacts EXCEPT ![SlotIn(raw, r)] = now], pinch |-> pinch]
  PROVE  Tracked(w, v)
<1>1. PICK s : s = SlotIn(raw, r)
  OBVIOUS
<1>2. PICK k : k = SlotOf(t, r)
  OBVIOUS
<1>3. /\ Slots = {0, 1} /\ raw.slot \in Slots /\ t.slot \in Slots /\ s \in Slots /\ k \in Slots
      /\ r.slot \in {0, 1, SameSlot} /\ SameSlot \notin {0, 1} /\ r.slot # t.slot
      /\ r.slot = SameSlot => s = raw.slot /\ k = t.slot
      /\ r.slot # SameSlot => s = r.slot /\ k = r.slot
      /\ r.what \in {"land", "move", "lift"} /\ r.id \in Nat
  BY <1>1, <1>2 DEF Raws, Tracks, Reports, SlotIn, SlotOf, Slots, SameSlot, ReportStep
<1>4. PICK was \in Contacts : was = raw.contacts[s]
  BY <1>3 DEF Raws, Contacts
<1>5. /\ raw.contacts \in [Slots -> Contacts] /\ raw.pinch \in Pinches
      /\ t.slots \in [Slots -> Nat]
  BY DEF Raws, Contacts, Tracks
<1>6. /\ v.slot = k /\ v.slots = [t.slots EXCEPT ![k] = IF r.what = "lift" THEN None ELSE r.id]
      /\ r.what = "land" => t.slots[k] = None /\ r.id # None /\ (k = 1 => t.slots[0] # None)
      /\ r.what # "land" => t.slots[k] # None
      /\ r.what = "move" => r.id # None
  BY <1>2, <1>3 DEF ReportStep
<1>7. /\ \A i \in Slots : raw.contacts[i].id # None => t.slots[i] # None
      /\ \A i \in Slots : raw.contacts[i].forwarded => raw.contacts[i].id # None
      /\ \A c \in raw.pinch.contacts : \E i \in Slots : raw.contacts[i].forwarded /\ raw.contacts[i].id = c
      /\ raw.pinch.held => raw.pinch.contacts # {}
      /\ raw.slot # t.slot =>
           /\ raw.slot = 0 /\ t.slot = 1 /\ raw.contacts[1].id = None
           /\ raw.contacts[0].id # None => t.slots[1] # None
  BY DEF Tracked
<1>8. r.what = "land" => was.id = None
  BY <1>3, <1>4, <1>6, <1>7
<1>9. ReportEffect(raw.pinch, was, r, now, pinch, out)
  BY <1>1, <1>4
<1>10. /\ was.forwarded \in BOOLEAN /\ now.forwarded \in BOOLEAN
       /\ was.forwarded => was.id # None
       /\ r.what = "lift" => now.id = None /\ ~now.forwarded
       /\ r.what = "land" => now.id = r.id
       /\ r.what = "move" => now.id = was.id /\ (now.forwarded <=> was.id # None)
       /\ now.forwarded => now.id # None
  BY <1>3, <1>4, <1>6, <1>7, <1>9 DEF ReportEffect, NoContact, Contacts
<1>11. /\ \A c \in pinch.contacts : c \in raw.pinch.contacts \/ (now.forwarded /\ c = now.id)
       /\ r.what = "lift" /\ was.forwarded => was.id \notin pinch.contacts
       /\ pinch.held => pinch.contacts # {}
  BY <1>4, <1>5, <1>7, <1>9, ReportContacts
<1>12. /\ w.slot = s /\ w.pinch = pinch /\ w.contacts[s] = now
       /\ \A i \in Slots : i # s => w.contacts[i] = raw.contacts[i]
  BY <1>1, <1>3, <1>5
<1>13. /\ v.slots[k] = IF r.what = "lift" THEN None ELSE r.id
       /\ \A i \in Slots : i # k => v.slots[i] = t.slots[i]
  BY <1>3, <1>5, <1>6
<1>14. ASSUME NEW i \in Slots, w.contacts[i].id # None PROVE v.slots[i] # None
  <2>1. CASE s = k
    BY <1>3, <1>4, <1>6, <1>7, <1>8, <1>10, <1>12, <1>13, <1>14, <2>1
  <2>2. CASE s # k
    <3>1. /\ r.slot = SameSlot /\ s = 0 /\ k = 1 /\ raw.contacts[1].id = None
          /\ raw.contacts[0].id # None => t.slots[1] # None
      BY <1>3, <1>7, <2>2
    <3>2. i = 0
      BY <1>3, <1>12, <1>14, <3>1
    <3>3. v.slots[0] = t.slots[0]
      BY <1>3, <1>13, <3>1
    <3>4. r.what = "land" => t.slots[0] # None
      BY <1>6, <3>1
    <3>5. r.what = "move" => t.slots[0] # None
      BY <1>3, <1>4, <1>7, <1>10, <1>12, <1>14, <3>1, <3>2
    <3>6. r.what # "lift"
      BY <1>10, <1>12, <1>14, <3>1, <3>2
    <3> QED BY <1>3, <3>2, <3>3, <3>4, <3>5, <3>6
  <2> QED BY <2>1, <2>2
<1>15. ASSUME NEW i \in Slots, w.contacts[i].forwarded PROVE w.contacts[i].id # None
  BY <1>7, <1>10, <1>12, <1>15
<1>16. ASSUME NEW c \in pinch.contacts
       PROVE  \E i \in Slots : w.contacts[i].forwarded /\ w.contacts[i].id = c
  <2>1. CASE now.forwarded /\ c = now.id
    BY <1>3, <1>12, <2>1
  <2>2. CASE c \in raw.pinch.contacts
    <3>1. PICK i \in Slots : raw.contacts[i].forwarded /\ raw.contacts[i].id = c
      BY <1>7, <2>2
    <3>2. CASE i # s
      BY <1>12, <3>1, <3>2
    <3>3. CASE i = s
      <4>1. was.forwarded /\ was.id = c
        BY <1>4, <3>1, <3>3
      <4>2. r.what = "move"
        BY <1>3, <1>8, <1>10, <1>11, <1>16, <4>1
      <4>3. now.forwarded /\ now.id = c
        BY <1>10, <4>1, <4>2
      <4> QED BY <1>3, <1>12, <4>3
    <3> QED BY <3>2, <3>3
  <2> QED BY <1>11, <2>1, <2>2
<1>17. ASSUME w.slot # v.slot
       PROVE  /\ w.slot = 0 /\ v.slot = 1 /\ w.contacts[1].id = None
              /\ w.contacts[0].id # None => v.slots[1] # None
  <2>1. s # k
    BY <1>6, <1>12, <1>17
  <2>2. r.slot = SameSlot /\ s = 0 /\ k = 1 /\ raw.contacts[1].id = None
    BY <1>3, <1>7, <2>1
  <2>3. w.contacts[1].id = None /\ w.contacts[0] = now
    BY <1>3, <1>12, <2>2
  <2>4. now.id # None => v.slots[1] # None
    BY <1>3, <1>6, <1>10, <1>13, <2>2
  <2> QED BY <1>6, <1>12, <2>2, <2>3, <2>4
<1> QED BY <1>11, <1>12, <1>14, <1>15, <1>16, <1>17 DEF Tracked

\* A report makes b of what came before it.
Reported(acc, r, b) ==
  /\ b.raw \in Raws /\ b.out \in Seq(OutEvents)
  /\ \A m \in Ledgers : \A l :
       InjectorRun(acc.out, l, m) /\ (LeftCtrl \in m.pressed <=> acc.raw.pinch.held) =>
         \E n \in Ledgers : /\ InjectorRun(b.out, l, n) /\ OnlyCtrl(m, n)
                            /\ LeftCtrl \in n.pressed <=> b.raw.pinch.held
  /\ \A t \in Tracks : \A v : Tracked(acc.raw, t) /\ ReportStep(t, r, v) => Tracked(b.raw, v)

\* process_raw_trackpad takes the report as the kernel meant it: what it gives out the
\* injector accepts, and its tracker stays with the fingers.
LEMMA ProcessReports ==
  ASSUME NEW acc, acc.raw \in Raws, acc.out \in Seq(OutEvents), NEW r \in Reports
  PROVE  Reported(acc, r, Process(acc, r))
<1>1. PICK raw \in Raws : raw = acc.raw
  OBVIOUS
<1>2. PICK s : s = SlotIn(raw, r)
  OBVIOUS
<1>3. PICK now \in Contacts, pinch \in Pinches, out \in Seq(OutEvents) :
        /\ Process(acc, r) = [raw |-> [slot |-> s, contacts |-> [raw.contacts EXCEPT ![s] = now],
                                       pinch |-> pinch],
                              out |-> acc.out \o out]
        /\ ReportEffect(raw.pinch, raw.contacts[s], r, now, pinch, out)
  BY <1>1, <1>2, ProcessIs
<1>4. PICK w : w = [slot |-> s, contacts |-> [raw.contacts EXCEPT ![s] = now], pinch |-> pinch]
  OBVIOUS
<1>5. PICK b : b = Process(acc, r)
  OBVIOUS
<1>6. b.raw = w /\ b.out = acc.out \o out /\ w.pinch = pinch
  BY <1>3, <1>4, <1>5
<1>7. s \in Slots /\ raw.contacts[s] \in Contacts /\ raw.pinch \in Pinches
      /\ raw.contacts \in [Slots -> Contacts]
  <2>1. s \in Slots
    BY <1>1, <1>2 DEF Raws, Reports, SlotIn, Slots, SameSlot
  <2> QED BY <1>1, <2>1 DEF Raws, Contacts
<1>8. w \in Raws
  <2>1. now \in Contacts /\ pinch \in Pinches
    BY <1>3
  <2>2. [raw.contacts EXCEPT ![s] = now] \in [Slots -> Contacts]
    BY <1>7, <2>1
  <2> QED BY <1>4, <1>7, <2>1, <2>2 DEF Raws, Contacts
<1>9. b.out \in Seq(OutEvents) /\ out \in Seq(OutEvents)
  BY <1>3, <1>6
<1>10. ASSUME NEW m \in Ledgers, NEW l, InjectorRun(acc.out, l, m),
              LeftCtrl \in m.pressed <=> acc.raw.pinch.held
       PROVE  \E n \in Ledgers : /\ InjectorRun(b.out, l, n) /\ OnlyCtrl(m, n)
                                 /\ LeftCtrl \in n.pressed <=> b.raw.pinch.held
  <2>1. PICK n \in Ledgers : /\ InjectorRun(out, m, n) /\ OnlyCtrl(m, n)
                             /\ LeftCtrl \in n.pressed <=> pinch.held
    <3>1. LeftCtrl \in m.pressed <=> raw.pinch.held
      BY <1>1, <1>10
    <3> QED BY <1>3, <1>7, <3>1, ProcessLeads
  <2>2. InjectorRun(b.out, l, n)
    BY <1>6, <1>9, <1>10, <2>1, InjectorConcat
  <2> QED BY <1>6, <2>1, <2>2
<1>11. ASSUME NEW t \in Tracks, NEW v, Tracked(acc.raw, t), ReportStep(t, r, v)
       PROVE  Tracked(b.raw, v)
  <2>1. ReportEffect(raw.pinch, raw.contacts[SlotIn(raw, r)], r, now, pinch, out)
        /\ w = [slot |-> SlotIn(raw, r), contacts |-> [raw.contacts EXCEPT ![SlotIn(raw, r)] = now],
                pinch |-> pinch]
        /\ now \in Contacts /\ pinch \in Pinches /\ Tracked(raw, t) /\ raw \in Raws
    BY <1>1, <1>2, <1>3, <1>4, <1>11
  <2>2. Tracked(w, v)
    BY <1>11, <2>1, ReportTracks
  <2> QED BY <1>6, <2>2
<1>12. Reported(acc, r, b)
  BY <1>6, <1>8, <1>9, <1>10, <1>11 DEF Reported
<1> QED BY <1>5, <1>12

\* All the reports of the trackpad.
LEMMA TrackpadIs ==
  ASSUME adapter \in AdapterStates, ring \in Seq(Reports)
  PROVE  LET b == DrainTrackpad IN
         /\ b.raw \in Raws /\ b.out \in Seq(OutEvents)
         /\ \A m \in Ledgers : (LeftCtrl \in m.pressed <=> adapter.raw.pinch.held) =>
              \E n \in Ledgers : /\ InjectorRun(b.out, m, n) /\ OnlyCtrl(m, n)
                                 /\ LeftCtrl \in n.pressed <=> b.raw.pinch.held
         /\ \A t \in Tracks : \A v : Tracked(adapter.raw, t) /\ ReportRun(ring, t, v) => Tracked(b.raw, v)
<1>0. Len(ring) \in Nat /\ DOMAIN ring = 1..Len(ring) /\ \A i \in 1..Len(ring) : ring[i] \in Reports
  OBVIOUS
<1>1. PICK f : /\ f[0] = [raw |-> adapter.raw, out |-> <<>>]
               /\ \A n \in 1..Len(ring) : f[n] = Process(f[n - 1], ring[n])
               /\ DrainTrackpad = f[Len(ring)]
  <2>1. Len(ring) \in Nat
    BY <1>0
  <2> QED BY <2>1, ReportFold
<1>2. f[0].raw = adapter.raw /\ f[0].out = <<>> /\ adapter.raw \in Raws
  BY <1>1 DEF AdapterStates
<1> DEFINE Sound(i) == f[i].raw \in Raws /\ f[i].out \in Seq(OutEvents)
           T == {i \in Nat : Sound(i)}
<1>3. \A i \in 0..Len(ring) : Sound(i)
  <2>1. 0 \in T
    <3>1. <<>> \in Seq(OutEvents)
      OBVIOUS
    <3>2. Sound(0)
      BY <1>2, <3>1
    <3> QED BY <3>2
  <2>2. ASSUME NEW i \in 1..Len(ring), i - 1 \in T PROVE i \in T
    <3>1. Reported(f[i - 1], ring[i], f[i])
      BY <1>0, <1>1, <2>2, ProcessReports
    <3> QED BY <1>0, <3>1 DEF Reported
  <2>3. \A i \in 0..Len(ring) : i \in T
    <3> HIDE DEF T
    <3> QED BY <1>0, <2>1, <2>2, Induction
  <2> QED BY <2>3
<1>4. ASSUME NEW i \in 1..Len(ring) PROVE Reported(f[i - 1], ring[i], f[i])
  <2>1. Sound(i - 1)
    BY <1>0, <1>3
  <2> QED BY <1>0, <1>1, <2>1, ProcessReports
<1>5. ASSUME NEW m \in Ledgers, LeftCtrl \in m.pressed <=> adapter.raw.pinch.held
      PROVE  \E n \in Ledgers : /\ InjectorRun(f[Len(ring)].out, m, n) /\ OnlyCtrl(m, n)
                                /\ LeftCtrl \in n.pressed <=> f[Len(ring)].raw.pinch.held
  <2> DEFINE P(i) == \E n \in Ledgers : /\ InjectorRun(f[i].out, m, n) /\ OnlyCtrl(m, n)
                                        /\ LeftCtrl \in n.pressed <=> f[i].raw.pinch.held
             U == {i \in Nat : P(i)}
  <2>1. P(0)
    BY <1>2, <1>5, NoEventRuns DEF OnlyCtrl
  <2>2. ASSUME NEW i \in 1..Len(ring), P(i - 1) PROVE P(i)
    <3>1. PICK n \in Ledgers : /\ InjectorRun(f[i - 1].out, m, n) /\ OnlyCtrl(m, n)
                               /\ LeftCtrl \in n.pressed <=> f[i - 1].raw.pinch.held
      BY <2>2
    <3>2. PICK k \in Ledgers : /\ InjectorRun(f[i].out, m, k) /\ OnlyCtrl(n, k)
                               /\ LeftCtrl \in k.pressed <=> f[i].raw.pinch.held
      BY <1>4, <3>1 DEF Reported
    <3>3. OnlyCtrl(m, k)
      BY <3>1, <3>2 DEF OnlyCtrl
    <3> QED BY <3>2, <3>3
  <2> HIDE DEF P
  <2>3. \A i \in 0..Len(ring) : i \in U
    <3>1. 0 \in U /\ \A i \in 1..Len(ring) : i - 1 \in U => i \in U
      BY <1>0, <2>1, <2>2
    <3> HIDE DEF U
    <3> QED BY <1>0, <3>1, Induction
  <2>4. P(Len(ring))
    BY <1>0, <2>3
  <2> QED BY <2>4 DEF P
<1>6. ASSUME NEW t \in Tracks, NEW v, Tracked(adapter.raw, t), ReportRun(ring, t, v)
      PROVE  Tracked(f[Len(ring)].raw, v)
  <2>1. PICK s \in [0..Len(ring) -> Tracks] :
          /\ s[0] = t /\ s[Len(ring)] = v
          /\ \A i \in 1..Len(ring) : <<s[i - 1], ring[i], s[i]>> \in ReportSteps
    BY <1>6 DEF ReportRun, Run
  <2> DEFINE U == {i \in Nat : Tracked(f[i].raw, s[i])}
  <2>2. 0 \in U
    BY <1>2, <1>6, <2>1
  <2>3. ASSUME NEW i \in 1..Len(ring), i - 1 \in U PROVE i \in U
    <3>1. Tracked(f[i - 1].raw, s[i - 1]) /\ s[i - 1] \in Tracks
      BY <1>0, <2>1, <2>3
    <3>2. ReportStep(s[i - 1], ring[i], s[i])
      <4>1. <<s[i - 1], ring[i], s[i]>> \in ReportSteps
        BY <2>1
      <4> QED BY <4>1 DEF ReportSteps
    <3>3. Tracked(f[i].raw, s[i])
      BY <1>4, <3>1, <3>2 DEF Reported
    <3> QED BY <1>0, <3>3
  <2>4. Len(ring) \in U
    <3>1. \A i \in 0..Len(ring) : i \in U
      <4> HIDE DEF U
      <4> QED BY <1>0, <2>2, <2>3, Induction
    <3> QED BY <1>0, <3>1
  <2> QED BY <2>1, <2>4
<1>7. Sound(Len(ring))
  BY <1>0, <1>3
<1> QED BY <1>1, <1>5, <1>6, <1>7

-----------------------------------------------------------------------------
(* What the last event about a control decides *)

\* A is the events about a control, D those that press it, H the times at which
\* it is held.
LEMMA LastDecides ==
  ASSUME NEW n \in Nat, NEW A, NEW D, NEW H,
         \A i \in 1..n : i \in A => (i \in H <=> i \in D),
         \A i \in 1..n : i \notin A => (i \in H <=> i - 1 \in H)
  PROVE  n \in H <=> \/ \E i \in 1..n : i \in A /\ i \in D /\ \A j \in 1..n : j \in A => j <= i
                     \/ 0 \in H /\ \A i \in 1..n : i \notin A
<1> DEFINE R(k) == \/ \E i \in 1..k : i \in A /\ i \in D /\ \A j \in 1..k : j \in A => j <= i
                   \/ 0 \in H /\ \A i \in 1..k : i \notin A
           U == {k \in Nat : k \in H <=> R(k)}
<1>1. 0 \in U
  OBVIOUS
<1>2. ASSUME NEW k \in 1..n, k - 1 \in U PROVE k \in U
  <2>1. k - 1 \in H <=> R(k - 1)
    BY <1>2
  <2>2. CASE k \in A /\ k \in D
    <3>1. R(k)
      BY <2>2
    <3> QED BY <2>2, <3>1
  <2>3. CASE k \in A /\ k \notin D
    <3>1. ~R(k)
      <4>1. ASSUME NEW i \in 1..k, i \in A, i \in D, \A j \in 1..k : j \in A => j <= i
            PROVE  FALSE
        BY <2>3, <4>1
      <4>2. ~(\A i \in 1..k : i \notin A)
        BY <2>3
      <4> QED BY <4>1, <4>2
    <3> HIDE DEF R
    <3> QED BY <2>3, <3>1
  <2>4. CASE k \notin A
    <3>1. R(k - 1) => R(k)
      <4>1. \A j \in 1..k : j \in A => j \in 1..(k - 1)
        BY <2>4
      <4> QED BY <4>1
    <3>2. R(k) => R(k - 1)
      <4>1. \A j \in 1..k : j \in A => j \in 1..(k - 1)
        BY <2>4
      <4>2. \A j \in 1..(k - 1) : j \in 1..k
        OBVIOUS
      <4> QED BY <4>1, <4>2
    <3>3. k \in H <=> k - 1 \in H
      BY <2>4
    <3> HIDE DEF R
    <3> QED BY <2>1, <3>1, <3>2, <3>3
  <2> QED BY <2>2, <2>3, <2>4
<1>3. \A k \in 0..n : k \in U
  <2> HIDE DEF U
  <2> QED BY <1>1, <1>2, Induction
<1> QED BY <1>3

\* The ledger after a step, as to one control.
LEMMA StepPresses ==
  ASSUME NEW l \in Ledgers, NEW e \in OutEvents, NEW m \in Ledgers, InjectorStep(l, e, m),
         NEW code \in Controls
  PROVE  /\ e.kind = "key" /\ e.code = code => (code \in m.pressed <=> e.down)
         /\ ~(e.kind = "key" /\ e.code = code) => (code \in m.pressed <=> code \in l.pressed)
<1>1. m = Injected(l, e)
  BY DEF InjectorStep
<1>2. e.kind \in {"motion", "key", "wheel", "touch"}
      /\ e.kind = "key" => e.down \in BOOLEAN
  BY DEF OutEvents, Wheel
<1>3. CASE e.kind = "key"
  <2>1. m = [l EXCEPT !.pressed = IF e.down THEN @ \union {e.code} ELSE @ \ {e.code}]
    BY <1>1, <1>3 DEF Injected
  <2>2. m.pressed = IF e.down THEN l.pressed \union {e.code} ELSE l.pressed \ {e.code}
    BY <2>1 DEF Ledgers
  <2> QED BY <1>3, <2>2
<1>4. CASE e.kind # "key"
  <2>1. m.pressed = l.pressed
    BY <1>1, <1>2, <1>4 DEF Injected, Ledgers
  <2> QED BY <1>4, <2>1
<1> QED BY <1>3, <1>4

\* Effective is what the injector holds once the queue is injected.
LEMMA EffectiveIs ==
  ASSUME NEW queue \in Seq(OutEvents), NEW m, InjectorRun(queue, injector, m), NEW code \in Controls
  PROVE  Effective(code, queue) <=> code \in m.pressed
<1>1. PICK s \in [0..Len(queue) -> Ledgers] :
        /\ s[0] = injector /\ s[Len(queue)] = m
        /\ \A i \in 1..Len(queue) : <<s[i - 1], queue[i], s[i]>> \in InjectorSteps
  BY DEF InjectorRun, Run
<1>2. Len(queue) \in Nat /\ DOMAIN queue = 1..Len(queue) /\ \A i \in 1..Len(queue) : queue[i] \in OutEvents
  OBVIOUS
<1> DEFINE A == {i \in 1..Len(queue) : queue[i].kind = "key" /\ queue[i].code = code}
           D == {i \in 1..Len(queue) : queue[i].down}
           H == {i \in 0..Len(queue) : code \in s[i].pressed}
<1>3. ASSUME NEW i \in 1..Len(queue)
      PROVE  /\ i \in A => (i \in H <=> i \in D)
             /\ i \notin A => (i \in H <=> i - 1 \in H)
  <2>1. <<s[i - 1], queue[i], s[i]>> \in InjectorSteps
    BY <1>1
  <2>2. /\ s[i - 1] \in Ledgers /\ queue[i] \in OutEvents /\ s[i] \in Ledgers
        /\ InjectorStep(s[i - 1], queue[i], s[i])
    BY <2>1 DEF InjectorSteps
  <2>3. /\ queue[i].kind = "key" /\ queue[i].code = code => (code \in s[i].pressed <=> queue[i].down)
        /\ ~(queue[i].kind = "key" /\ queue[i].code = code) =>
             (code \in s[i].pressed <=> code \in s[i - 1].pressed)
    BY <2>2, StepPresses
  <2>4. i \in 0..Len(queue) /\ i - 1 \in 0..Len(queue)
    BY <1>2
  <2> QED BY <2>3, <2>4
<1>4. /\ 0 \in H <=> code \in injector.pressed
      /\ Len(queue) \in H <=> code \in m.pressed
  BY <1>1, <1>2
<1>5. Effective(code, queue) <=>
        \/ \E i \in 1..Len(queue) : i \in A /\ i \in D /\ \A j \in 1..Len(queue) : j \in A => j <= i
        \/ code \in injector.pressed /\ \A i \in 1..Len(queue) : i \notin A
  BY <1>2 DEF Effective
<1> HIDE DEF A, D, H
<1>6. Len(queue) \in H <=>
        \/ \E i \in 1..Len(queue) : i \in A /\ i \in D /\ \A j \in 1..Len(queue) : j \in A => j <= i
        \/ 0 \in H /\ \A i \in 1..Len(queue) : i \notin A
  BY <1>2, <1>3, LastDecides
<1> QED BY <1>4, <1>5, <1>6

\* Only a button changes what the user holds down.
LEMMA StepButton ==
  ASSUME NEW u \in UserStates, NEW e \in EisEvents, NEW v, UserStep(u, e, v)
  PROVE  /\ e.type = "button" => v.down = e.down
         /\ e.type # "button" => v.down = u.down
<1>1. CASE e.type = "absolute"
  BY <1>1, AbsoluteStepIs
<1>2. CASE e.type = "button"
  BY <1>2, UserStepIs
<1>3. CASE e.type = "relative"
  BY <1>3, UserStepIs
<1>4. CASE e.type \in {"down", "move", "up"}
  BY <1>4, UserStepIs
<1>5. CASE e.type \in {"smooth", "click", "frame"}
  BY <1>5, UserStepIs
<1>6. e.type \in {"absolute", "relative", "button", "smooth", "click", "frame", "down", "move", "up"}
  BY EventIs
<1> QED BY <1>1, <1>2, <1>3, <1>4, <1>5, <1>6

\* EffectiveButton is what the user holds.
LEMMA EffectiveButtonIs ==
  ASSUME eis \in Seq(EisEvents), adapter \in AdapterStates, NEW m \in Ledgers,
         InjectorRun(adapter.pending, injector, m), NEW v, UserRun(eis, Behind(adapter, m), v)
  PROVE  EffectiveButton <=> v.down
<1>1. PICK s \in [0..Len(eis) -> UserStates] :
        /\ s[0] = Behind(adapter, m) /\ s[Len(eis)] = v
        /\ \A i \in 1..Len(eis) : <<s[i - 1], eis[i], s[i]>> \in UserSteps
  BY DEF UserRun, Run
<1>2. Len(eis) \in Nat /\ DOMAIN eis = 1..Len(eis) /\ \A i \in 1..Len(eis) : eis[i] \in EisEvents
  OBVIOUS
<1> DEFINE A == {i \in 1..Len(eis) : eis[i].type = "button"}
           D == {i \in 1..Len(eis) : eis[i].down}
           H == {i \in 0..Len(eis) : s[i].down}
<1>3. ASSUME NEW i \in 1..Len(eis)
      PROVE  /\ i \in A => (i \in H <=> i \in D)
             /\ i \notin A => (i \in H <=> i - 1 \in H)
  <2>1. <<s[i - 1], eis[i], s[i]>> \in UserSteps
    BY <1>1
  <2>2. /\ s[i - 1] \in UserStates /\ eis[i] \in EisEvents /\ s[i] \in UserStates
        /\ UserStep(s[i - 1], eis[i], s[i])
    BY <2>1 DEF UserSteps
  <2>3. /\ eis[i].type = "button" => s[i].down = eis[i].down
        /\ eis[i].type # "button" => s[i].down = s[i - 1].down
    BY <2>2, StepButton
  <2>4. i \in 0..Len(eis) /\ i - 1 \in 0..Len(eis)
    BY <1>2
  <2> QED BY <2>3, <2>4
<1>4. /\ 0 \in H <=> Behind(adapter, m).down
      /\ Len(eis) \in H <=> v.down
  BY <1>1, <1>2
<1>5. Effective(Button, adapter.pending) <=> Behind(adapter, m).down
  <2>1. Button \in Controls /\ adapter.pending \in Seq(OutEvents)
    BY DEF Controls, AdapterStates
  <2>2. Effective(Button, adapter.pending) <=> Button \in m.pressed
    BY <2>1, EffectiveIs
  <2> QED BY <2>2, BehindIs
<1>6. EffectiveButton <=>
        \/ \E i \in 1..Len(eis) : i \in A /\ i \in D /\ \A j \in 1..Len(eis) : j \in A => j <= i
        \/ Effective(Button, adapter.pending) /\ \A i \in 1..Len(eis) : i \notin A
  BY <1>2 DEF EffectiveButton
<1> HIDE DEF A, D, H
<1>7. Len(eis) \in H <=>
        \/ \E i \in 1..Len(eis) : i \in A /\ i \in D /\ \A j \in 1..Len(eis) : j \in A => j <= i
        \/ 0 \in H /\ \A i \in 1..Len(eis) : i \notin A
  BY <1>2, <1>3, LastDecides
<1> QED BY <1>4, <1>5, <1>6, <1>7

-----------------------------------------------------------------------------
(* take_pending *)

\* The ledgers stay ledgers.
LEMMA InjectedTyped ==
  ASSUME NEW l \in Ledgers, NEW e \in OutEvents
  PROVE  Injected(l, e) \in Ledgers
<1>1. CASE e.kind = "motion"
  <2>1. e.by \in Int
    BY <1>1 DEF OutEvents, Wheel
  <2> QED BY <1>1, <2>1 DEF Injected, Ledgers
<1>2. CASE e.kind = "key"
  <2>1. e.code \in Controls
    BY <1>2 DEF OutEvents, Wheel
  <2> QED BY <1>2, <2>1 DEF Injected, Ledgers
<1>3. CASE e.kind = "touch"
  <2>1. e.id \in Nat
    BY <1>3 DEF OutEvents, Wheel
  <2> QED BY <1>3, <2>1 DEF Injected, Ledgers
<1>4. CASE e.kind = "wheel"
  BY <1>4 DEF Injected
<1>5. e.kind \in {"motion", "key", "wheel", "touch"}
  BY DEF OutEvents, Wheel
<1> QED BY <1>1, <1>2, <1>3, <1>4, <1>5

\* An event that leads where the rest of the queue leads from is not refused,
\* unless it is a motion beyond the limit, with which the session ends.
LEMMA Taken ==
  ASSUME NEW a \in AdapterStates, injector \in Ledgers, phase = "forwarding", TakePending(a)
  PROVE  /\ adapter' \in AdapterStates /\ injector' \in Ledgers /\ phase' \in {"forwarding"} \union Endings
         /\ SameCapture(a, adapter') /\ adapter'.position = a.position
         /\ adapter'.remainder = a.remainder /\ adapter'.motion = a.motion /\ adapter'.pinch = a.pinch
         /\ \A m \in Ledgers : InjectorRun(a.pending, injector, m) =>
              /\ \/ phase' = "motion"
                 \/ phase' = "forwarding" /\ InjectorRun(adapter'.pending, injector', m)
              /\ lastClick' = lastClick \/ Near(lastClick.meant, lastClick.was)'
<1>1. CASE a.pending = <<>>
  <2>1. adapter' = a /\ injector' = injector /\ phase' = phase /\ lastClick' = lastClick
    BY <1>1 DEF TakePending
  <2> QED BY <2>1 DEF SameCapture
<1>2. CASE a.pending # <<>>
  <2>1. PICK q \in Seq(OutEvents) : q = a.pending
    BY DEF AdapterStates
  <2>2. PICK e \in OutEvents : e = Head(q)
    BY <1>2, <2>1
  <2>3. adapter' = [a EXCEPT !.pending = Tail(q)] /\ Forward(e)
    BY <1>2, <2>1, <2>2 DEF TakePending
  <2>4. Tail(q) \in Seq(OutEvents) /\ q # <<>>
    BY <1>2, <2>1
  <2>5. /\ adapter' \in AdapterStates
        /\ SameCapture(a, adapter') /\ adapter'.position = a.position
        /\ adapter'.remainder = a.remainder /\ adapter'.motion = a.motion /\ adapter'.pinch = a.pinch
        /\ adapter'.pending = Tail(q)
    BY <2>3, <2>4 DEF AdapterStates, SameCapture
  <2>6. injector' \in Ledgers /\ phase' \in {"forwarding"} \union Endings
    <3>1. NothingHeld \in Ledgers
      BY DEF NothingHeld, Ledgers
    <3>2. ~Accepts(injector, e) => e.kind \in Endings
      BY DEF Accepts, TouchAllowed, WithinLimit, Endings
    <3> QED BY <2>2, <2>3, <3>1, <3>2, InjectedTyped DEF Forward
  <2>7. ASSUME NEW m \in Ledgers, InjectorRun(q, injector, m)
        PROVE  /\ \/ phase' = "motion"
                  \/ phase' = "forwarding" /\ InjectorRun(Tail(q), injector', m)
               /\ lastClick' = lastClick \/ Near(lastClick.meant, lastClick.was)'
    <3>1. PICK n \in Ledgers : /\ <<injector, e, n>> \in InjectorSteps
                               /\ InjectorRun(Tail(q), n, m)
      BY <2>1, <2>2, <2>4, <2>7, RunTail DEF InjectorRun
    <3>2. InjectorStep(injector, e, n)
      BY <3>1 DEF InjectorSteps
    <3>3. TouchAllowed(injector, e) /\ n = Injected(injector, e)
      BY <3>2 DEF InjectorStep
    <3>4. phase' = "motion" \/ (phase' = "forwarding" /\ injector' = n)
      <4>1. CASE WithinLimit(e)
        BY <2>3, <3>3, <4>1 DEF Forward, Accepts
      <4>2. CASE ~WithinLimit(e)
        <5>1. e.kind = "motion" /\ ~Accepts(injector, e)
          BY <4>2 DEF WithinLimit, Accepts
        <5> QED BY <2>3, <5>1 DEF Forward
      <4> QED BY <4>1, <4>2
    <3>5. CASE e.kind = "key" /\ e.code = Button /\ e.down
      <4>1. lastClick' = [meant |-> e.at, was |-> 2 * injector.moved]
        BY <2>3, <3>5 DEF Forward
      <4>2. Near(e.at, 2 * injector.moved)
        BY <3>2, <3>5 DEF InjectorStep
      <4> QED BY <3>1, <3>4, <4>1, <4>2
    <3>6. CASE ~(e.kind = "key" /\ e.code = Button /\ e.down)
      <4>1. lastClick' = lastClick
        BY <2>3, <3>6 DEF Forward
      <4> QED BY <3>1, <3>4, <4>1
    <3> QED BY <3>5, <3>6
  <2> QED BY <2>1, <2>5, <2>6, <2>7
<1> QED BY <1>1, <1>2

-----------------------------------------------------------------------------
(* Types                                                                   *)

\* The fields of the adapter, of its users and of the signals.
LEMMA AdapterTyped ==
  ASSUME NEW a \in AdapterStates
  PROVE  /\ a.active \in Nat /\ a.expected \in Nat /\ a.position \in Int /\ a.remainder \in Int
         /\ a.motion \in Int /\ a.smooth \in BOOLEAN /\ a.pinch \in Pinches /\ a.raw \in Raws
         /\ a.pending \in Seq(OutEvents)
BY DEF AdapterStates

\* The fields of the user's state.
LEMMA UserTyped ==
  ASSUME NEW w \in Users
  PROVE  /\ w.device \in Devices /\ w.events \in Nat /\ w.activations \in Nat /\ w.down \in BOOLEAN
         /\ w.fingers \in SUBSET Nat /\ w.slots \in [Slots -> Nat] /\ w.slot \in Slots
         /\ w.x \in Int /\ w.moved \in Int /\ w.rounded \in Int /\ w.drift \in Nat
         /\ [down |-> w.down, fingers |-> w.fingers, x |-> w.x, moved |-> w.rounded] \in UserStates
         /\ [slot |-> w.slot, slots |-> w.slots] \in Tracks
BY DEF Users, UserStates, Tracks

\* The fields of a signal, which is one of two kinds.
LEMMA SignalTyped ==
  ASSUME NEW s \in SignalSet
  PROVE  /\ s.type \in {"Activated", "Deactivated"} /\ s.id \in Nat
         /\ IsActivated(s) <=> ~IsDeactivated(s)
BY DEF SignalSet, IsActivated, IsDeactivated

\* What a host without history has in hand.
LEMMA NothingTyped ==
  /\ NothingHeld \in Ledgers /\ NoPinch \in Pinches /\ NoTrackpad \in Raws /\ NoContact \in Contacts
  /\ 0 \in Slots /\ 1 \in Slots /\ None \in Nat /\ None = 0 /\ NoPosition = -1
  /\ NothingHeld.pressed = {} /\ NothingHeld.touches = {} /\ NothingHeld.moved = 0
  /\ NoPinch.held = FALSE /\ NoPinch.contacts = {} /\ NoTrackpad.pinch = NoPinch
BY DEF NothingHeld, Ledgers, NoPinch, Pinches, NoTrackpad, Raws, NoContact, Contacts, Slots, None, NoPosition

-----------------------------------------------------------------------------
(* The invariant: initially                                                *)

\* At the start nothing is captured, queued or held.
LEMMA AdaptersInit == Init => AdaptersInv
<1> SUFFICES ASSUME Init PROVE AdaptersInv
  OBVIOUS
<1>1. PICK device \in Devices :
         user = [device |-> device, events |-> 0, activations |-> 0, down |-> FALSE, fingers |-> {},
                 slots |-> [s \in Slots |-> None], slot |-> 0, x |-> NoPosition,
                 moved |-> 0, rounded |-> 0, drift |-> 0]
  BY DEF Init
<1>2. /\ capturing = None /\ signals = <<>> /\ eis = <<>> /\ ring = <<>>
      /\ phase = "waiting" /\ injector = NothingHeld
      /\ lastClick = NoClick /\ stale = FALSE /\ lost = FALSE
  BY DEF Init
<1>3. adapter = [active |-> None, expected |-> None, position |-> NoPosition, remainder |-> 0, motion |-> 0,
                 smooth |-> FALSE, pinch |-> NoPinch, raw |-> NoTrackpad, pending |-> <<>>]
  BY DEF Init
<1>4. user \in Users
  BY <1>1, NothingTyped DEF Users
<1>5. adapter \in AdapterStates
  <2>1. <<>> \in Seq(OutEvents)
    OBVIOUS
  <2> QED BY <1>3, <2>1, NothingTyped DEF AdapterStates
<1>6. Typing
  <2>1. <<>> \in Seq(SignalSet) /\ <<>> \in Seq(EisEvents) /\ <<>> \in Seq(Reports)
    OBVIOUS
  <2> QED BY <1>2, <1>4, <1>5, <2>1, NothingTyped DEF Typing
<1>7. SignalsAlternate /\ SignalsMatch /\ AnswersOnly
  BY <1>2 DEF SignalsAlternate, SignalsMatch, AnswersOnly, Crossed
<1>8. OneDevice
  BY <1>2, <1>3 DEF OneDevice
<1>9. Coalesced /\ RemainderOK(adapter) /\ DriftBounded /\ AdapterClean
  BY <1>1, <1>2, <1>3 DEF Coalesced, RemainderOK, DriftBounded, AdapterClean
<1>10. FreshCapture
  BY <1>2 DEF FreshCapture
<1>11. SocketBefore
  BY <1>2 DEF SocketBefore
<1>12. InHandoff /\ OnThePad
  BY <1>2 DEF InHandoff, OnThePad
<1>13. ClickWhereMeant /\ NoFalseLoss
  BY <1>2 DEF ClickWhereMeant, NoFalseLoss, NoClick, Near, Nowhere
<1> QED BY <1>6, <1>7, <1>8, <1>9, <1>10, <1>11, <1>12, <1>13 DEF AdaptersInv

-----------------------------------------------------------------------------
(* The user                                                                *)

\* One more event in the socket.
LEMMA OneMoreEvent ==
  ASSUME NEW q \in Seq(EisEvents), NEW e \in EisEvents, NEW u, NEW v \in UserStates, NEW w \in UserStates,
         UserRun(q, u, v), UserStep(v, e, w)
  PROVE  UserRun(Append(q, e), u, w)
<1>1. <<v, e, w>> \in UserSteps
  BY DEF UserSteps
<1> QED BY <1>1, RunAppend DEF UserRun

\* What the user does on the pointer or the screen, captured or not.
LEMMA CapturedKeeps ==
  ASSUME AdaptersInv, phase \notin Endings, NEW e \in EisEvents, NEW now \in Users, Captured(e, now),
         user.device # "trackpad", user.device # "touch" => e \in PointerEvents,
         now.device = user.device, now.activations = user.activations,
         now.slots = user.slots, now.slot = user.slot,
         now.moved - now.rounded \in -now.drift..now.drift,
         NEW w, w = [down |-> now.down, fingers |-> now.fingers, x |-> now.x, moved |-> now.rounded],
         capturing # None => UserStep(UserState, e, w)
  PROVE  AdaptersInv'
<1>0. /\ user \in Users /\ capturing \in {None, user.activations} /\ signals \in Seq(SignalSet)
      /\ eis \in Seq(EisEvents) /\ adapter \in AdapterStates
  BY DEF AdaptersInv, Typing
<1>1. /\ user' = [now EXCEPT !.events = @ + 1]
      /\ eis' = IF capturing = None THEN eis ELSE Append(eis, e)
      /\ UNCHANGED <<signals, adapter, phase, injector, lastClick, stale, lost, capturing, ring>>
  BY DEF Captured, Hosts
<1>2. /\ user' \in Users /\ user'.device = user.device /\ user'.activations = user.activations
      /\ user'.slots = user.slots /\ user'.slot = user.slot
      /\ user'.down = now.down /\ user'.fingers = now.fingers /\ user'.x = now.x
      /\ user'.moved = now.moved /\ user'.rounded = now.rounded /\ user'.drift = now.drift
  <2>1. PICK n \in Nat : n = now.events + 1
    BY DEF Users
  <2>2. user' = [now EXCEPT !.events = n]
    BY <1>1, <2>1
  <2>3. user' \in Users
    BY <2>2 DEF Users
  <2>4. /\ user'.device = now.device /\ user'.activations = now.activations
        /\ user'.slots = now.slots /\ user'.slot = now.slot
        /\ user'.down = now.down /\ user'.fingers = now.fingers /\ user'.x = now.x
        /\ user'.moved = now.moved /\ user'.rounded = now.rounded /\ user'.drift = now.drift
    BY <2>2 DEF Users
  <2> QED BY <2>3, <2>4
<1>3. UserState' = w /\ w \in UserStates /\ UserState \in UserStates /\ OnTrackpad' = OnTrackpad
  BY <1>0, <1>2, UserTyped DEF UserState, OnTrackpad
<1>4. eis' \in Seq(EisEvents) /\ (capturing # None => eis' = Append(eis, e) /\ eis' # <<>>)
  BY <1>0, <1>1
<1>5. ASSUME NEW u, UserRun(eis, u, UserState), capturing # None
      PROVE  UserRun(eis', u, UserState')
  BY <1>0, <1>3, <1>4, <1>5, OneMoreEvent
<1>6. Typing'
  BY <1>1, <1>2, <1>4 DEF AdaptersInv, Typing
<1>7. SignalsAlternate' /\ SignalsMatch' /\ AnswersOnly'
  BY <1>1, <1>2 DEF AdaptersInv, SignalsAlternate, SignalsMatch, AnswersOnly, Crossed, Announced, LastSignal
<1>8. OneDevice'
  <2>1. user.device # "touch" => \A i \in DOMAIN eis' : eis'[i] \in PointerEvents
    <3>1. user.device # "touch" => \A i \in DOMAIN eis : eis[i] \in PointerEvents
      BY DEF AdaptersInv, OneDevice
    <3>2. CASE capturing = None
      BY <1>1, <3>1, <3>2
    <3>3. CASE capturing # None
      BY <1>0, <1>4, <3>1, <3>3
    <3> QED BY <3>2, <3>3
  <2> QED BY <1>1, <1>2, <2>1 DEF AdaptersInv, OneDevice
<1>9. Coalesced' /\ RemainderOK(adapter)' /\ DriftBounded' /\ AdapterClean'
  <2>1. DriftBounded'
    BY <1>2 DEF DriftBounded
  <2> QED BY <1>1, <2>1 DEF AdaptersInv, Coalesced, RemainderOK, DriftBounded, AdapterClean
<1>10. FreshCapture'
  BY <1>1, <1>4 DEF FreshCapture
<1>11. SocketBefore'
  <2>1. phase = "waiting" /\ capturing # None => \E i \in DOMAIN signals : IsActivated(signals[i])
    <3> SUFFICES ASSUME phase = "waiting", capturing # None
                 PROVE  \E i \in DOMAIN signals : IsActivated(signals[i])
      OBVIOUS
    <3>1. signals # <<>> /\ IsActivated(signals[Len(signals)])
      BY DEF AdaptersInv, SignalsMatch, Announced, LastSignal
    <3>2. Len(signals) \in DOMAIN signals
      BY <1>0, <3>1
    <3> QED BY <3>1, <3>2
  <2>2. ~stale /\ phase = "waiting" /\ eis' # <<>> => \E i \in DOMAIN signals : IsActivated(signals[i])
    BY <1>1, <2>1 DEF AdaptersInv, SocketBefore
  <2>3. ~stale /\ phase = "waiting" /\ capturing # None =>
          Overtaken \/ UserRun(eis', Behind(adapter, NothingHeld), UserState')
    BY <1>5 DEF AdaptersInv, SocketBefore
  <2>4. ~stale /\ phase = "entering" /\ capturing = adapter.active =>
          UserRun(eis', Behind(adapter, NothingHeld), UserState')
    BY <1>5 DEF AdaptersInv, SocketBefore, SignalsMatch, Crossed
  <2>5. Overtaken => Overtaken'
    BY <1>1 DEF Overtaken
  <2> QED BY <1>1, <2>2, <2>3, <2>4, <2>5 DEF SocketBefore
<1>12. InHandoff'
  <2> SUFFICES ASSUME ~stale, phase = "forwarding"
               PROVE  \E m : /\ Leads(adapter, injector, m)
                             /\ capturing = adapter.active => UserRun(eis', Behind(adapter, m), UserState')
    BY <1>1 DEF InHandoff
  <2>1. PICK m : /\ Leads(adapter, injector, m)
                 /\ capturing = adapter.active => UserRun(eis, Behind(adapter, m), UserState)
    BY DEF AdaptersInv, InHandoff
  <2>2. capturing = adapter.active => capturing # None
    BY DEF AdaptersInv, SignalsMatch, Crossed
  <2> QED BY <1>5, <2>1, <2>2
<1>13. OnThePad'
  BY <1>1, <1>3 DEF AdaptersInv, OnThePad
<1>14. ClickWhereMeant' /\ NoFalseLoss'
  BY <1>1 DEF AdaptersInv, ClickWhereMeant, NoFalseLoss
<1> QED BY <1>6, <1>7, <1>8, <1>9, <1>10, <1>11, <1>12, <1>13, <1>14 DEF AdaptersInv

\* A button and a coordinate, by what they make of the user.
LEMMA ButtonStep ==
  ASSUME NEW u \in UserStates, NEW e, NEW down \in BOOLEAN, e.type = "button", e.down = down,
         down => e.at.moved - u.moved \in -e.at.drift..e.at.drift,
         NEW w \in UserStates, w.down = down, w.fingers = u.fingers,
         w.x = u.x, w.moved = u.moved
  PROVE  UserStep(u, e, w)
<1>1. w = [u EXCEPT !.down = down]
  BY DEF UserStates
<1> QED BY <1>1 DEF UserStep

\* An absolute position as a step of the user.
LEMMA CoordinateStep ==
  ASSUME NEW u \in UserStates, NEW e, NEW x \in Int, NEW moved \in Int, e.type = "absolute", e.x = x,
         moved = IF u.x = NoPosition THEN u.moved ELSE u.moved + x - u.x,
         NEW w \in UserStates, w.down = u.down, w.fingers = u.fingers, w.x = x, w.moved = moved
  PROVE  UserStep(u, e, w)
<1>1. [u EXCEPT !.x = x, !.moved = moved]
        = [down |-> u.down, fingers |-> u.fingers, x |-> x, moved |-> moved]
  BY DEF UserStates
<1>2. w = [u EXCEPT !.x = x, !.moved = moved]
  BY <1>1 DEF UserStates
<1>3. w = [u EXCEPT !.x = e.x, !.moved = IF u.x = NoPosition THEN @ ELSE @ + e.x - u.x]
  BY <1>2
<1> QED BY <1>3 DEF UserStep

\* On the pointer.
LEMMA MovesToKeeps ==
  ASSUME AdaptersInv, NEW x \in 0..3, MovesTo(x)
  PROVE  AdaptersInv'
<1>0. user \in Users
  BY DEF AdaptersInv, Typing
<1>1. PICK j \in Int : j = Jump(x)
  <2>1. user.x \in Int
    BY <1>0, UserTyped
  <2> QED BY <2>1 DEF Jump
<1>2. PICK e : e = [type |-> "absolute", x |-> x]
  OBVIOUS
<1>3. PICK u : u = [user EXCEPT !.x = x]
  OBVIOUS
<1>4. PICK v : v = [u EXCEPT !.moved = @ + j]
  OBVIOUS
<1>5. PICK now : now = [v EXCEPT !.rounded = @ + j]
  OBVIOUS
<1>6. PICK w : w = [down |-> now.down, fingers |-> now.fingers, x |-> now.x, moved |-> now.rounded]
  OBVIOUS
<1>7. e \in PointerEvents /\ e \in EisEvents
  BY <1>2 DEF PointerEvents, EisEvents
<1>8. /\ now \in Users /\ now.device = user.device /\ now.activations = user.activations
      /\ now.slots = user.slots /\ now.slot = user.slot /\ now.x = x
      /\ now.moved = user.moved + j /\ now.rounded = user.rounded + j /\ now.drift = user.drift
      /\ now.down = user.down /\ now.fingers = user.fingers
  <2>1. /\ u \in Users /\ u.device = user.device /\ u.activations = user.activations
        /\ u.slots = user.slots /\ u.slot = user.slot /\ u.x = x
        /\ u.down = user.down /\ u.fingers = user.fingers
        /\ u.moved = user.moved /\ u.rounded = user.rounded /\ u.drift = user.drift
    BY <1>0, <1>3 DEF Users
  <2>2. /\ v \in Users /\ v.device = u.device /\ v.activations = u.activations
        /\ v.slots = u.slots /\ v.slot = u.slot /\ v.x = x
        /\ v.down = u.down /\ v.fingers = u.fingers
        /\ v.moved = u.moved + j /\ v.rounded = u.rounded /\ v.drift = u.drift
    BY <1>4, <2>1 DEF Users
  <2> QED BY <1>5, <2>1, <2>2 DEF Users
<1>9. user.device = "pointer" /\ phase \notin Endings /\ Captured(e, now)
  <2>1. now = [user EXCEPT !.x = x, !.moved = @ + Jump(x), !.rounded = @ + Jump(x)]
    <3>1. u.moved = user.moved /\ v.rounded = user.rounded
      BY <1>0, <1>3, <1>4 DEF Users
    <3> QED BY <1>1, <1>3, <1>4, <1>5, <3>1
  <2> QED BY <1>2, <2>1 DEF MovesTo, Acts
<1>10. now.moved - now.rounded \in -now.drift..now.drift
  <2>1. user.moved \in Int /\ user.rounded \in Int /\ user.drift \in Nat
    BY <1>0, UserTyped
  <2>2. user.moved - user.rounded \in -user.drift..user.drift
    BY DEF AdaptersInv, DriftBounded
  <2> QED BY <1>1, <1>8, <2>1, <2>2
<1>11. UserStep(UserState, e, w)
  <2>1. UserState \in UserStates
    BY <1>0, UserTyped DEF UserState
  <2>2. w \in UserStates
    BY <1>6, <1>8, UserTyped
  <2>3. x \in Int /\ e.type = "absolute" /\ e.x = x
    BY <1>2
  <2>4. PICK moved \in Int : moved = now.rounded
    BY <1>8, UserTyped
  <2>5. moved = IF UserState.x = NoPosition THEN UserState.moved ELSE UserState.moved + x - UserState.x
    <3>1. user.x \in Int /\ user.rounded \in Int
      BY <1>0, UserTyped
    <3> QED BY <1>1, <1>8, <2>4, <3>1 DEF UserState, Jump
  <2>6. w.down = UserState.down /\ w.fingers = UserState.fingers /\ w.x = x /\ w.moved = moved
    BY <1>6, <1>8, <2>4 DEF UserState
  <2> QED BY <2>1, <2>2, <2>3, <2>4, <2>5, <2>6, CoordinateStep
<1> QED BY <1>0, <1>6, <1>7, <1>8, <1>9, <1>10, <1>11, CapturedKeeps

\* A relative motion keeps the invariant.
LEMMA MovesByKeeps ==
  ASSUME AdaptersInv, NEW d \in Deltas, MovesBy(d)
  PROVE  AdaptersInv'
<1>0. user \in Users /\ d \in Int
  BY DeltasAssumption DEF AdaptersInv, Typing
<1>1. PICK p \in Int : p = Round(d)
  BY <1>0, Rounded
<1>2. PICK half \in 0..1 : half = d % 2
  BY <1>0
<1>3. d - 2 * p \in -half..half
  <2>1. d - 2 * p \in -1..1 /\ (half = 0 => d - 2 * p = 0)
    BY <1>0, <1>1, <1>2, Rounded
  <2> QED BY <1>0, <1>1, <1>2, <2>1
<1>4. PICK e : e = [type |-> "relative", by |-> d]
  OBVIOUS
<1>5. PICK now : now = [user EXCEPT !.moved = @ + d, !.rounded = @ + 2 * p, !.drift = @ + half]
  OBVIOUS
<1>6. PICK w : w = [down |-> now.down, fingers |-> now.fingers, x |-> now.x, moved |-> now.rounded]
  OBVIOUS
<1>7. user.device = "pointer" /\ phase \notin Endings /\ Captured(e, now)
  BY <1>1, <1>2, <1>4, <1>5 DEF MovesBy, Acts
<1>8. e \in PointerEvents /\ e \in EisEvents
  BY <1>0, <1>4 DEF PointerEvents, EisEvents
<1>9. /\ now \in Users /\ now.device = user.device /\ now.activations = user.activations
      /\ now.slots = user.slots /\ now.slot = user.slot /\ now.x = user.x
      /\ now.moved = user.moved + d /\ now.rounded = user.rounded + 2 * p /\ now.drift = user.drift + half
      /\ now.down = user.down /\ now.fingers = user.fingers
  <2>0. user.moved \in Int /\ user.rounded \in Int /\ user.drift \in Nat
    BY <1>0, UserTyped
  <2>1. PICK moved \in Int : moved = user.moved + d
    BY <1>0, <2>0
  <2>2. PICK rounded \in Int : rounded = user.rounded + 2 * p
    BY <2>0
  <2>3. PICK drift \in Nat : drift = user.drift + half
    BY <2>0
  <2>4. now = [user EXCEPT !.moved = moved, !.rounded = rounded, !.drift = drift]
    BY <1>5, <2>1, <2>2, <2>3
  <2>5. /\ now \in Users /\ now.device = user.device /\ now.activations = user.activations
        /\ now.slots = user.slots /\ now.slot = user.slot /\ now.x = user.x
        /\ now.moved = moved /\ now.rounded = rounded /\ now.drift = drift
        /\ now.down = user.down /\ now.fingers = user.fingers
    BY <1>0, <2>4 DEF Users
  <2> QED BY <2>1, <2>2, <2>3, <2>5
<1>10. now.moved - now.rounded \in -now.drift..now.drift
  <2>1. user.moved \in Int /\ user.rounded \in Int /\ user.drift \in Nat
    BY <1>0, UserTyped
  <2>2. user.moved - user.rounded \in -user.drift..user.drift
    BY DEF AdaptersInv, DriftBounded
  <2> QED BY <1>0, <1>3, <1>9, <2>1, <2>2
<1>11. UserStep(UserState, e, w)
  <2>1. w = [UserState EXCEPT !.moved = @ + 2 * p]
    BY <1>6, <1>9 DEF UserState
  <2>2. e.type = "relative" /\ e.by = d
    BY <1>4
  <2> QED BY <1>1, <2>1, <2>2 DEF UserStep
<1> QED BY <1>0, <1>6, <1>7, <1>8, <1>9, <1>10, <1>11, CapturedKeeps

\* A press of the button keeps the invariant.
LEMMA PressesKeeps ==
  ASSUME AdaptersInv, Presses
  PROVE  AdaptersInv'
<1>0. user \in Users
  BY DEF AdaptersInv, Typing
<1>1. PICK down \in BOOLEAN : down = TRUE
  OBVIOUS
<1>2. PICK at \in Places : at = [moved |-> user.moved, drift |-> user.drift]
  BY <1>0, UserTyped DEF Places
<1>3. PICK e : e = [type |-> "button", down |-> down, at |-> at]
  OBVIOUS
<1>4. PICK held \in BOOLEAN : held = (capturing # None)
  OBVIOUS
<1>5. PICK now : now = [user EXCEPT !.down = held]
  OBVIOUS
<1>6. PICK w : w = [down |-> now.down, fingers |-> now.fingers, x |-> now.x, moved |-> now.rounded]
  OBVIOUS
<1>7. user.device = "pointer" /\ phase \notin Endings /\ Captured(e, now)
  BY <1>1, <1>2, <1>3, <1>4, <1>5 DEF Presses, Acts
<1>8. e \in PointerEvents /\ e \in EisEvents
  BY <1>3 DEF PointerEvents, EisEvents
<1>9. /\ now \in Users /\ now.device = user.device /\ now.activations = user.activations
      /\ now.slots = user.slots /\ now.slot = user.slot /\ now.down = held
      /\ now.fingers = user.fingers /\ now.x = user.x /\ now.moved = user.moved
      /\ now.rounded = user.rounded /\ now.drift = user.drift
  BY <1>0, <1>5 DEF Users
<1>10. capturing # None => UserStep(UserState, e, w)
  <2> SUFFICES ASSUME capturing # None PROVE UserStep(UserState, e, w)
    OBVIOUS
  <2>1. UserState \in UserStates
    BY <1>0, UserTyped DEF UserState
  <2>2. w \in UserStates
    BY <1>6, <1>9, UserTyped
  <2>3. e.type = "button" /\ e.down = down /\ e.at = at
    BY <1>3
  <2>4. held = down
    BY <1>1, <1>4
  <2>5. /\ w.down = down /\ w.fingers = UserState.fingers
        /\ w.x = UserState.x /\ w.moved = UserState.moved
    BY <1>6, <1>9, <2>4 DEF UserState
  <2>6. e.at.moved - UserState.moved \in -e.at.drift..e.at.drift
    BY <1>2, <2>3 DEF UserState, AdaptersInv, DriftBounded
  <2> QED BY <1>1, <2>1, <2>2, <2>3, <2>5, <2>6, ButtonStep
<1>11. now.moved - now.rounded \in -now.drift..now.drift
  BY <1>9 DEF AdaptersInv, DriftBounded
<1> QED BY <1>0, <1>6, <1>7, <1>8, <1>9, <1>10, <1>11, CapturedKeeps

\* A release of the button keeps the invariant.
LEMMA ReleasesKeeps ==
  ASSUME AdaptersInv, Releases
  PROVE  AdaptersInv'
<1>0. user \in Users
  BY DEF AdaptersInv, Typing
<1>1. PICK down \in BOOLEAN : down = FALSE
  OBVIOUS
<1>2. PICK at \in Places : at = Nowhere
  <2>1. Nowhere \in Places
    BY DEF Places, Nowhere
  <2> QED BY <2>1
<1>3. PICK e : e = [type |-> "button", down |-> down, at |-> at]
  OBVIOUS
<1>4. PICK held \in BOOLEAN : held = FALSE
  OBVIOUS
<1>5. PICK now : now = [user EXCEPT !.down = held]
  OBVIOUS
<1>6. PICK w : w = [down |-> now.down, fingers |-> now.fingers, x |-> now.x, moved |-> now.rounded]
  OBVIOUS
<1>7. user.device = "pointer" /\ phase \notin Endings /\ Captured(e, now)
  BY <1>1, <1>2, <1>3, <1>4, <1>5 DEF Releases, Acts
<1>8. e \in PointerEvents /\ e \in EisEvents
  BY <1>3 DEF PointerEvents, EisEvents
<1>9. /\ now \in Users /\ now.device = user.device /\ now.activations = user.activations
      /\ now.slots = user.slots /\ now.slot = user.slot /\ now.down = held
      /\ now.fingers = user.fingers /\ now.x = user.x /\ now.moved = user.moved
      /\ now.rounded = user.rounded /\ now.drift = user.drift
  BY <1>0, <1>5 DEF Users
<1>10. capturing # None => UserStep(UserState, e, w)
  <2> SUFFICES ASSUME capturing # None PROVE UserStep(UserState, e, w)
    OBVIOUS
  <2>1. UserState \in UserStates
    BY <1>0, UserTyped DEF UserState
  <2>2. w \in UserStates
    BY <1>6, <1>9, UserTyped
  <2>3. e.type = "button" /\ e.down = down /\ e.at = at
    BY <1>3
  <2>4. held = down
    BY <1>1, <1>4
  <2>5. /\ w.down = down /\ w.fingers = UserState.fingers
        /\ w.x = UserState.x /\ w.moved = UserState.moved
    BY <1>6, <1>9, <2>4 DEF UserState
  <2> QED BY <1>1, <2>1, <2>2, <2>3, <2>5, ButtonStep
<1>11. now.moved - now.rounded \in -now.drift..now.drift
  BY <1>9 DEF AdaptersInv, DriftBounded
<1> QED BY <1>0, <1>6, <1>7, <1>8, <1>9, <1>10, <1>11, CapturedKeeps

\* A wheel or frame event, which holds nothing, keeps the invariant.
LEMMA ScrollsKeeps ==
  ASSUME AdaptersInv, NEW how \in {"smooth", "click", "frame"}, Acts("pointer"),
         Captured([type |-> how], user)
  PROVE  AdaptersInv'
<1> DEFINE e == [type |-> how]
           w == [down |-> user.down, fingers |-> user.fingers, x |-> user.x, moved |-> user.rounded]
<1>1. user \in Users /\ user.device = "pointer" /\ phase \notin Endings /\ Captured(e, user)
  BY DEF AdaptersInv, Typing, Acts
<1>2. e \in PointerEvents /\ e \in EisEvents
  BY DEF PointerEvents, EisEvents
<1>3. w = UserState /\ e.type \in {"smooth", "click", "frame"}
  BY DEF UserState
<1> HIDE DEF e, w
<1>4. UserStep(UserState, e, w)
  BY <1>3 DEF UserStep
<1>5. user.moved - user.rounded \in -user.drift..user.drift
  BY DEF AdaptersInv, DriftBounded
<1> QED BY <1>1, <1>2, <1>4, <1>5, CapturedKeeps DEF w

\* On the screen.
LEMMA TouchesDownKeeps ==
  ASSUME AdaptersInv, NEW id \in {1, 2}, TouchesDown(id)
  PROVE  AdaptersInv'
<1> DEFINE e == [type |-> "down", id |-> id]
           now == [user EXCEPT !.fingers = @ \union {id}]
           w == [down |-> now.down, fingers |-> now.fingers, x |-> now.x, moved |-> now.rounded]
<1>1. /\ user \in Users /\ user.device = "touch" /\ phase \notin Endings /\ Captured(e, now)
      /\ id \notin user.fingers
  BY DEF AdaptersInv, Typing, TouchesDown, Acts
<1>2. e \in EisEvents
  BY DEF TouchEvents, EisEvents
<1>3. /\ now \in Users /\ now.device = user.device /\ now.activations = user.activations
      /\ now.slots = user.slots /\ now.slot = user.slot
  BY <1>1 DEF Users
<1>4. UserStep(UserState, e, w)
  <2>1. PICK fingers : fingers = user.fingers \union {id}
    OBVIOUS
  <2>2. w = [UserState EXCEPT !.fingers = fingers]
    BY <1>1, <2>1 DEF UserState, Users
  <2>3. UserState.fingers = user.fingers /\ e.type = "down" /\ e.id = id
    BY DEF UserState
  <2> HIDE DEF e, w
  <2> QED BY <1>1, <2>1, <2>2, <2>3 DEF UserStep
<1>5. now.moved - now.rounded \in -now.drift..now.drift
  BY <1>1 DEF AdaptersInv, DriftBounded, Users
<1> HIDE DEF e, now
<1> QED BY <1>1, <1>2, <1>3, <1>4, <1>5, CapturedKeeps

\* A finger that moves on the touch screen keeps the invariant.
LEMMA TouchesMoveKeeps ==
  ASSUME AdaptersInv, NEW id \in {1, 2}, NEW step \in BOOLEAN, TouchesMove(id, step)
  PROVE  AdaptersInv'
<1> DEFINE e == [type |-> "move", id |-> id, step |-> step]
           w == [down |-> user.down, fingers |-> user.fingers, x |-> user.x, moved |-> user.rounded]
<1>1. /\ user \in Users /\ user.device = "touch" /\ phase \notin Endings /\ Captured(e, user)
      /\ id \in user.fingers
  BY DEF AdaptersInv, Typing, TouchesMove, Acts
<1>2. e \in EisEvents
  BY DEF TouchEvents, EisEvents
<1>3. w = UserState /\ e.type = "move" /\ e.id \in UserState.fingers
  BY <1>1 DEF UserState
<1> HIDE DEF e, w
<1>4. UserStep(UserState, e, w)
  BY <1>3 DEF UserStep
<1>5. user.moved - user.rounded \in -user.drift..user.drift
  BY DEF AdaptersInv, DriftBounded
<1> QED BY <1>1, <1>2, <1>4, <1>5, CapturedKeeps DEF w

\* A finger that leaves the touch screen keeps the invariant.
LEMMA TouchesUpKeeps ==
  ASSUME AdaptersInv, NEW id \in {1, 2}, TouchesUp(id)
  PROVE  AdaptersInv'
<1> DEFINE e == [type |-> "up", id |-> id]
           now == [user EXCEPT !.fingers = @ \ {id}]
           w == [down |-> now.down, fingers |-> now.fingers, x |-> now.x, moved |-> now.rounded]
<1>1. /\ user \in Users /\ user.device = "touch" /\ phase \notin Endings /\ Captured(e, now)
      /\ id \in user.fingers
  BY DEF AdaptersInv, Typing, TouchesUp, Acts
<1>2. e \in EisEvents
  BY DEF TouchEvents, EisEvents
<1>3. /\ now \in Users /\ now.device = user.device /\ now.activations = user.activations
      /\ now.slots = user.slots /\ now.slot = user.slot
  BY <1>1 DEF Users
<1>4. UserStep(UserState, e, w)
  <2>1. PICK fingers : fingers = user.fingers \ {id}
    OBVIOUS
  <2>2. w = [UserState EXCEPT !.fingers = fingers]
    <3>1. now = [user EXCEPT !.fingers = fingers]
      BY <2>1
    <3>2. PICK after : after = now
      OBVIOUS
    <3>3. after.down = user.down /\ after.fingers = fingers /\ after.x = user.x /\ after.rounded = user.rounded
      BY <1>1, <3>1, <3>2 DEF Users
    <3> HIDE DEF now
    <3> QED BY <3>2, <3>3 DEF UserState
  <2>3. UserState.fingers = user.fingers /\ e.type = "up" /\ e.id = id
    BY DEF UserState
  <2> HIDE DEF e, w
  <2> QED BY <1>1, <2>1, <2>2, <2>3 DEF UserStep
<1>5. now.moved - now.rounded \in -now.drift..now.drift
  BY <1>1 DEF AdaptersInv, DriftBounded, Users
<1> HIDE DEF e, now
<1> QED BY <1>1, <1>2, <1>3, <1>4, <1>5, CapturedKeeps

\* On the trackpad: its device is read past the compositor.
LEMMA ReportKeeps ==
  ASSUME AdaptersInv, NEW slot \in Slots, NEW what \in {"land", "move", "lift"}, NEW id \in Nat,
         NEW full \in BOOLEAN, NEW step \in BOOLEAN, Report(slot, what, id, full, step),
         what = "land" => /\ user.slots[slot] = None /\ id # None
                          /\ slot = 1 => user.slots[0] # None,
         what # "land" => user.slots[slot] # None,
         what = "move" => id # None
  PROVE  AdaptersInv'
<1>0. /\ user \in Users /\ ring \in Seq(Reports) /\ adapter \in AdapterStates
      /\ user.device = "trackpad" /\ phase \notin Endings
  BY DEF AdaptersInv, Typing, Report, Acts
<1>1. PICK r : r = [slot |-> IF slot = user.slot THEN SameSlot ELSE slot, what |-> what, id |-> id,
                    full |-> full, step |-> step]
  OBVIOUS
<1>2. r \in Reports /\ r.what = what /\ r.id = id /\ r.slot = IF slot = user.slot THEN SameSlot ELSE slot
  BY <1>1 DEF Reports
<1>3. /\ ring' = Append(ring, r)
      /\ user' = [user EXCEPT !.events = @ + 1, !.slot = slot,
                              !.slots[slot] = IF what = "lift" THEN None ELSE id]
      /\ UNCHANGED <<signals, adapter, phase, injector, lastClick, stale, lost, capturing, eis>>
  BY <1>1 DEF Report, Hosts
<1>4. /\ user' \in Users /\ user'.device = user.device /\ user'.activations = user.activations
      /\ user'.slot = slot /\ user'.slots = [user.slots EXCEPT ![slot] = IF what = "lift" THEN None ELSE id]
      /\ user'.down = user.down /\ user'.fingers = user.fingers /\ user'.x = user.x
      /\ user'.moved = user.moved /\ user'.rounded = user.rounded /\ user'.drift = user.drift
  <2>1. PICK held \in Nat : held = IF what = "lift" THEN None ELSE id
    BY NothingTyped
  <2>2. PICK slots : slots = [user.slots EXCEPT ![slot] = held]
    OBVIOUS
  <2>3. PICK events : events = user.events + 1
    OBVIOUS
  <2>4. slots \in [Slots -> Nat] /\ events \in Nat
    <3>1. user.slots \in [Slots -> Nat] /\ user.events \in Nat
      BY <1>0, UserTyped
    <3> QED BY <2>1, <2>2, <2>3, <3>1
  <2>5. PICK u : u = [user EXCEPT !.events = events]
    OBVIOUS
  <2>6. PICK v : v = [u EXCEPT !.slot = slot]
    OBVIOUS
  <2>7. /\ u \in Users /\ u.device = user.device /\ u.activations = user.activations
        /\ u.slots = user.slots /\ u.down = user.down /\ u.fingers = user.fingers
        /\ u.x = user.x /\ u.moved = user.moved /\ u.rounded = user.rounded /\ u.drift = user.drift
    BY <1>0, <2>4, <2>5 DEF Users
  <2>8. /\ v \in Users /\ v.device = u.device /\ v.activations = u.activations
        /\ v.slot = slot /\ v.slots = u.slots /\ v.down = u.down /\ v.fingers = u.fingers
        /\ v.x = u.x /\ v.moved = u.moved /\ v.rounded = u.rounded /\ v.drift = u.drift
    BY <2>6, <2>7 DEF Users
  <2>9. user' = [v EXCEPT !.slots = slots]
    BY <1>3, <2>1, <2>2, <2>3, <2>5, <2>6, <2>7, <2>8
  <2> QED BY <2>1, <2>2, <2>4, <2>7, <2>8, <2>9 DEF Users
<1>5. UserState' = UserState
  BY <1>4 DEF UserState
<1>6. OnTrackpad \in Tracks /\ OnTrackpad' \in Tracks
  BY <1>0, <1>4, UserTyped DEF OnTrackpad
<1>7. ReportStep(OnTrackpad, r, OnTrackpad')
  <2>1. SlotOf(OnTrackpad, r) = slot /\ r.slot # OnTrackpad.slot
    BY <1>0, <1>2, UserTyped DEF SlotOf, OnTrackpad, SameSlot, Slots
  <2> QED BY <1>2, <1>4, <2>1 DEF ReportStep, OnTrackpad
<1>8. ASSUME NEW t, ReportRun(ring, t, OnTrackpad)
      PROVE  ReportRun(ring', t, OnTrackpad')
  <2>1. <<OnTrackpad, r, OnTrackpad'>> \in ReportSteps
    BY <1>2, <1>6, <1>7 DEF ReportSteps
  <2> QED BY <1>0, <1>2, <1>3, <1>6, <1>8, <2>1, RunAppend DEF ReportRun
<1>9. Typing'
  <2>1. ring' \in Seq(Reports)
    BY <1>0, <1>2, <1>3
  <2> QED BY <1>3, <1>4, <2>1 DEF AdaptersInv, Typing
<1>10. SignalsAlternate' /\ SignalsMatch' /\ AnswersOnly'
  BY <1>3, <1>4 DEF AdaptersInv, SignalsAlternate, SignalsMatch, AnswersOnly, Crossed, Announced, LastSignal
<1>11. OneDevice'
  BY <1>0, <1>3, <1>4 DEF AdaptersInv, OneDevice
<1>12. Coalesced' /\ RemainderOK(adapter)' /\ DriftBounded' /\ AdapterClean'
  BY <1>3 DEF AdaptersInv, Coalesced, RemainderOK, DriftBounded, AdapterClean
<1>13. FreshCapture'
  BY <1>3, <1>4 DEF AdaptersInv, FreshCapture, FreshUser
<1>14. SocketBefore'
  BY <1>3, <1>5 DEF AdaptersInv, SocketBefore, Overtaken
<1>15. InHandoff'
  BY <1>3, <1>5 DEF AdaptersInv, InHandoff
<1>16. OnThePad'
  BY <1>3, <1>8 DEF AdaptersInv, OnThePad
<1>17. ClickWhereMeant' /\ NoFalseLoss'
  BY <1>3 DEF AdaptersInv, ClickWhereMeant, NoFalseLoss
<1> QED BY <1>9, <1>10, <1>11, <1>12, <1>13, <1>14, <1>15, <1>16, <1>17 DEF AdaptersInv

\* Whatever the user does keeps the invariant.
LEMMA UserKeeps ==
  ASSUME AdaptersInv, User
  PROVE  AdaptersInv'
<1>1. ASSUME NEW x \in 0..3, MovesTo(x) PROVE AdaptersInv'
  BY <1>1, MovesToKeeps
<1>2. ASSUME NEW d \in Deltas, MovesBy(d) PROVE AdaptersInv'
  BY <1>2, MovesByKeeps
<1>3. CASE FrameEnds
  <2>1. Acts("pointer") /\ Captured([type |-> "frame"], user)
    BY <1>3 DEF FrameEnds
  <2> QED BY <2>1, ScrollsKeeps
<1>4. ASSUME NEW how \in {"smooth", "click"}, Scrolls(how) PROVE AdaptersInv'
  <2>1. Acts("pointer") /\ Captured([type |-> how], user) /\ how \in {"smooth", "click", "frame"}
    BY <1>4 DEF Scrolls
  <2> QED BY <2>1, ScrollsKeeps
<1>5. ASSUME NEW id \in {1, 2}, NEW step \in BOOLEAN, TouchesMove(id, step) PROVE AdaptersInv'
  BY <1>5, TouchesMoveKeeps
<1>6. ASSUME NEW id \in {1, 2}, TouchesDown(id) \/ TouchesUp(id) PROVE AdaptersInv'
  BY <1>6, TouchesDownKeeps, TouchesUpKeeps
<1>7. ASSUME NEW slot \in Slots, NEW b \in BOOLEAN, FingerLands(slot, b) PROVE AdaptersInv'
  <2>1. PICK what : what = "land"
    OBVIOUS
  <2>2. PICK id : id = user.events + 1
    OBVIOUS
  <2>3. PICK no \in BOOLEAN : no = FALSE
    OBVIOUS
  <2>4. Report(slot, what, id, b, no)
    BY <1>7, <2>1, <2>2, <2>3 DEF FingerLands
  <2>5. id \in Nat /\ id # None
    <3>1. user.events \in Nat
      BY UserTyped DEF AdaptersInv, Typing
    <3> QED BY <2>2, <3>1 DEF None
  <2>6. user.slots[slot] = None /\ (slot = 1 => user.slots[0] # None)
    BY <1>7 DEF FingerLands, Slots
  <2> QED BY <2>1, <2>3, <2>4, <2>5, <2>6, ReportKeeps
<1>8. ASSUME NEW slot \in Slots, NEW b \in BOOLEAN, FingerMoves(slot, b) PROVE AdaptersInv'
  <2>1. PICK what : what = "move"
    OBVIOUS
  <2>2. PICK id : id = user.slots[slot]
    OBVIOUS
  <2>3. PICK yes \in BOOLEAN : yes = TRUE
    OBVIOUS
  <2>4. Report(slot, what, id, yes, b)
    BY <1>8, <2>1, <2>2, <2>3 DEF FingerMoves
  <2>5. id \in Nat /\ id # None
    BY <1>8, <2>2, UserTyped DEF AdaptersInv, Typing, FingerMoves
  <2> QED BY <2>1, <2>2, <2>3, <2>4, <2>5, ReportKeeps
<1>9. ASSUME NEW slot \in Slots, FingerLifts(slot) PROVE AdaptersInv'
  <2>1. PICK what : what = "lift"
    OBVIOUS
  <2>2. PICK id : id = None
    OBVIOUS
  <2>3. PICK yes \in BOOLEAN, no \in BOOLEAN : yes = TRUE /\ no = FALSE
    OBVIOUS
  <2>4. Report(slot, what, id, yes, no) /\ user.slots[slot] # None
    BY <1>9, <2>1, <2>2, <2>3 DEF FingerLifts
  <2>5. id \in Nat
    BY <2>2, NothingTyped
  <2> QED BY <2>1, <2>3, <2>4, <2>5, ReportKeeps
<1> QED
  BY <1>1, <1>2, <1>3, <1>4, <1>5, <1>6, <1>7, <1>8, <1>9, PressesKeeps, ReleasesKeeps DEF User

-----------------------------------------------------------------------------
(* The portal                                                              *)

\* One more signal, and one less.
LEMMA SignalsAppended ==
  ASSUME NEW q \in Seq(SignalSet), NEW s \in SignalSet, NEW r, r = Append(q, s)
  PROVE  /\ r \in Seq(SignalSet) /\ Len(r) = Len(q) + 1 /\ Len(q) \in Nat /\ r # <<>>
         /\ DOMAIN q = 1..Len(q) /\ DOMAIN r = 1..(Len(q) + 1)
         /\ \A i \in 1..Len(q) : r[i] = q[i] /\ q[i] \in SignalSet
         /\ r[Len(q) + 1] = s /\ r[Len(r)] = s
OBVIOUS

\* What is left of the signals when the first has been read.
LEMMA SignalsRead ==
  ASSUME NEW q \in Seq(SignalSet), q # <<>>, NEW r, r = Tail(q)
  PROVE  /\ r \in Seq(SignalSet) /\ Len(r) = Len(q) - 1 /\ Len(q) \in Nat /\ Len(q) >= 1
         /\ DOMAIN q = 1..Len(q) /\ DOMAIN r = 1..(Len(q) - 1)
         /\ \A i \in 1..(Len(q) - 1) : r[i] = q[i + 1]
         /\ \A i \in 1..Len(q) : q[i] \in SignalSet
         /\ Head(q) = q[1] /\ Head(q) \in SignalSet
         /\ r # <<>> <=> Len(q) # 1
         /\ r # <<>> => r[Len(r)] = q[Len(q)]
<1>1. PICK n : n = Len(q)
  OBVIOUS
<1>2. n \in Nat /\ n >= 1 /\ DOMAIN q = 1..n /\ \A i \in 1..n : q[i] \in SignalSet
  BY <1>1
<1>3. r \in Seq(SignalSet) /\ Len(r) = n - 1 /\ DOMAIN r = 1..(n - 1)
  BY <1>1
<1>4. \A i \in 1..(n - 1) : r[i] = q[i + 1]
  BY <1>1
<1>5. r # <<>> <=> n # 1
  BY <1>2, <1>3
<1>6. Head(q) = q[1] /\ 1 \in 1..n
  BY <1>2
<1>7. r # <<>> => r[Len(r)] = q[n]
  <2> SUFFICES ASSUME r # <<>> PROVE r[n - 1] = q[n]
    BY <1>3
  <2>1. n - 1 \in 1..(n - 1)
    BY <1>2, <1>5
  <2> QED BY <1>2, <1>4, <2>1
<1> QED BY <1>1, <1>2, <1>3, <1>4, <1>5, <1>6, <1>7

\* An activation that is announced is the last signal.
LEMMA ActivatedAlternates ==
  ASSUME signals \in Seq(SignalSet), SignalsAlternate, signals = <<>> \/ IsDeactivated(LastSignal),
         user.activations \in Nat, NEW k, k = user.activations + 1, user'.activations = k,
         signals' = Append(signals, [type |-> "Activated", id |-> k])
  PROVE  SignalsAlternate'
<1>1. PICK s : s = [type |-> "Activated", id |-> k]
  OBVIOUS
<1>2. s \in SignalSet /\ s.type = "Activated" /\ s.id = k
  BY <1>1 DEF SignalSet
<1>3. PICK n : n = Len(signals)
  OBVIOUS
<1>4. /\ n \in Nat /\ DOMAIN signals = 1..n /\ DOMAIN signals' = 1..(n + 1)
      /\ \A i \in 1..n : signals'[i] = signals[i] /\ signals[i] \in SignalSet
      /\ signals'[n + 1] = s
  BY <1>1, <1>2, <1>3, SignalsAppended
<1>5. n # 0 => signals[n].type = "Deactivated"
  <2>1. n # 0 => signals # <<>>
    BY <1>3
  <2> QED BY <1>3, <2>1 DEF LastSignal, IsDeactivated
<1>6. \A i \in 1..(n + 1) : i + 1 \in 1..(n + 1) => signals'[i].type # signals'[i + 1].type
  <2> SUFFICES ASSUME NEW i \in 1..n PROVE signals'[i].type # signals'[i + 1].type
    BY <1>4
  <2>1. CASE i = n
    BY <1>2, <1>4, <1>5, <2>1
  <2>2. CASE i # n
    <3>1. i + 1 \in 1..n
      BY <1>4, <2>2
    <3>2. signals[i].type # signals[i + 1].type
      BY <1>4, <3>1 DEF SignalsAlternate
    <3> QED BY <1>4, <3>1, <3>2
  <2> QED BY <2>1, <2>2
<1>7. \A i \in 1..(n + 1) : IsActivated(signals'[i]) =>
        signals'[i].id \in 1..k /\ (i # n + 1 => signals'[i].id < k)
  <2> SUFFICES ASSUME NEW i \in 1..(n + 1), IsActivated(signals'[i])
               PROVE  signals'[i].id \in 1..k /\ (i # n + 1 => signals'[i].id < k)
    OBVIOUS
  <2>1. CASE i = n + 1
    BY <1>2, <1>4, <2>1
  <2>2. CASE i # n + 1
    <3>1. i \in 1..n
      BY <1>4, <2>2
    <3>2. signals[i].id \in 1..user.activations
      BY <1>4, <3>1 DEF SignalsAlternate
    <3> QED BY <1>4, <3>1, <3>2
  <2> QED BY <2>1, <2>2
<1>8. \A i, j \in 1..(n + 1) :
        i < j /\ IsActivated(signals'[i]) /\ IsActivated(signals'[j]) => signals'[i].id < signals'[j].id
  <2> SUFFICES ASSUME NEW i \in 1..(n + 1), NEW j \in 1..(n + 1), i < j,
                      IsActivated(signals'[i]), IsActivated(signals'[j])
               PROVE  signals'[i].id < signals'[j].id
    OBVIOUS
  <2>1. CASE j = n + 1
    BY <1>2, <1>4, <1>7, <2>1
  <2>2. CASE j # n + 1
    <3>1. i \in 1..n /\ j \in 1..n
      BY <1>4, <2>2
    <3> QED BY <1>4, <3>1 DEF SignalsAlternate
  <2> QED BY <2>1, <2>2
<1> QED BY <1>4, <1>6, <1>7, <1>8 DEF SignalsAlternate

\* A capture that ends is announced after its activation.
LEMMA DeactivatedAlternates ==
  ASSUME signals \in Seq(SignalSet), SignalsAlternate, signals = <<>> \/ IsActivated(LastSignal),
         user'.activations = user.activations, NEW id \in Nat,
         signals' = Append(signals, [type |-> "Deactivated", id |-> id])
  PROVE  SignalsAlternate'
<1>1. PICK s : s = [type |-> "Deactivated", id |-> id]
  OBVIOUS
<1>2. s \in SignalSet /\ s.type = "Deactivated" /\ ~IsActivated(s)
  BY <1>1 DEF SignalSet, IsActivated
<1>3. PICK n : n = Len(signals)
  OBVIOUS
<1>4. /\ n \in Nat /\ DOMAIN signals = 1..n /\ DOMAIN signals' = 1..(n + 1)
      /\ \A i \in 1..n : signals'[i] = signals[i] /\ signals[i] \in SignalSet
      /\ signals'[n + 1] = s
  BY <1>1, <1>2, <1>3, SignalsAppended
<1>5. n # 0 => signals[n].type = "Activated"
  <2>1. n # 0 => signals # <<>>
    BY <1>3
  <2> QED BY <1>3, <2>1 DEF LastSignal, IsActivated
<1>6. \A i \in 1..(n + 1) : i + 1 \in 1..(n + 1) => signals'[i].type # signals'[i + 1].type
  <2> SUFFICES ASSUME NEW i \in 1..n PROVE signals'[i].type # signals'[i + 1].type
    BY <1>4
  <2>1. CASE i = n
    BY <1>2, <1>4, <1>5, <2>1
  <2>2. CASE i # n
    <3>1. i + 1 \in 1..n
      BY <1>4, <2>2
    <3>2. signals[i].type # signals[i + 1].type
      BY <1>4, <3>1 DEF SignalsAlternate
    <3> QED BY <1>4, <3>1, <3>2
  <2> QED BY <2>1, <2>2
<1>7. \A i \in 1..(n + 1) : IsActivated(signals'[i]) => i \in 1..n
  BY <1>2, <1>4
<1> QED BY <1>4, <1>6, <1>7 DEF SignalsAlternate

\* Reading a signal leaves the others as they are.
LEMMA ReadAlternates ==
  ASSUME signals \in Seq(SignalSet), SignalsAlternate, signals # <<>>, signals' = Tail(signals),
         user'.activations = user.activations
  PROVE  SignalsAlternate'
<1>1. PICK n : n = Len(signals)
  OBVIOUS
<1>2. /\ n \in Nat /\ n >= 1 /\ DOMAIN signals = 1..n /\ DOMAIN signals' = 1..(n - 1)
      /\ \A i \in 1..(n - 1) : signals'[i] = signals[i + 1]
  BY <1>1, SignalsRead
<1>3. \A i \in 1..(n - 1) : i + 1 \in 1..(n - 1) => signals'[i].type # signals'[i + 1].type
  BY <1>2 DEF SignalsAlternate
<1>4. \A i, j \in 1..(n - 1) :
        i < j /\ IsActivated(signals'[i]) /\ IsActivated(signals'[j]) => signals'[i].id < signals'[j].id
  BY <1>2 DEF SignalsAlternate
<1>5. \A i \in 1..(n - 1) : IsActivated(signals'[i]) => signals'[i].id \in 1..user.activations
  BY <1>2 DEF SignalsAlternate
<1> QED BY <1>2, <1>3, <1>4, <1>5 DEF SignalsAlternate

\* Of a session that has ended, only what is true of every phase is left to show.
LEMMA EndedKeeps ==
  ASSUME phase' \in Endings, Typing', SignalsAlternate', OneDevice', Coalesced',
         RemainderOK(adapter)', DriftBounded',
         ClickWhereMeant', NoFalseLoss'
  PROVE  AdaptersInv'
<1>1. SignalsMatch'
  BY DEF SignalsMatch, Crossed, Endings
<1>2. AnswersOnly'
  BY DEF AnswersOnly, Crossed, Endings
<1>3. AdapterClean' /\ FreshCapture' /\ SocketBefore' /\ InHandoff' /\ OnThePad'
  BY DEF AdapterClean, FreshCapture, SocketBefore, InHandoff, OnThePad, Endings
<1> QED BY <1>1, <1>2, <1>3 DEF AdaptersInv

\* A user who has done nothing is what an adapter that is clean stands for.
LEMMA CleanBehind ==
  ASSUME NEW a \in AdapterStates, a.motion = 0, a.position = NoPosition, a.remainder = 0,
         NEW v \in UserStates, v.down = FALSE, v.fingers = {}, v.x = NoPosition, v.moved = 0
  PROVE  UserRun(<<>>, Behind(a, NothingHeld), v)
<1>1. PICK l \in Ledgers : l = NothingHeld
  BY NothingTyped
<1>2. l.pressed = {} /\ l.touches = {} /\ l.moved = 0
  BY <1>1, NothingTyped
<1>3. Behind(a, l) \in UserStates
  BY BehindIs
<1>4. /\ Behind(a, l).down <=> v.down
      /\ Behind(a, l).fingers = v.fingers /\ Behind(a, l).x = v.x
      /\ Behind(a, l).moved = v.moved
  BY <1>2, BehindIs
<1>5. Behind(a, l) = v
  BY <1>3, <1>4, SameUser
<1> QED BY <1>1, <1>5, RunEmpty DEF UserRun

\* A new activation keeps the invariant.
LEMMA PortalActivatesKeeps ==
  ASSUME AdaptersInv, PortalActivates
  PROVE  AdaptersInv'
<1>0. /\ user \in Users /\ signals \in Seq(SignalSet) /\ eis \in Seq(EisEvents) /\ adapter \in AdapterStates
      /\ user.activations \in Nat /\ user.device \in Devices
  BY UserTyped DEF AdaptersInv, Typing
<1>1. PICK k : k = user.activations + 1
  OBVIOUS
<1>2. PICK s : s = [type |-> "Activated", id |-> k]
  OBVIOUS
<1>3. /\ capturing = None /\ phase = "waiting" /\ capturing' = k
      /\ user' = [user EXCEPT !.activations = @ + 1, !.down = FALSE, !.fingers = {}, !.x = NoPosition,
                            !.moved = 0, !.rounded = 0, !.drift = 0]
      /\ signals' = Append(signals, s)
      /\ UNCHANGED <<eis, ring, adapter, phase, injector, lastClick, stale, lost>>
  BY <1>1, <1>2 DEF PortalActivates
<1>4. s \in SignalSet /\ IsActivated(s) /\ ~IsDeactivated(s) /\ s.id = k /\ k # None /\ k \in Nat
  BY <1>0, <1>1, <1>2 DEF SignalSet, IsActivated, IsDeactivated, None
<1>5. /\ user' \in Users /\ user'.device = user.device /\ user'.activations = k
      /\ user'.slots = user.slots /\ user'.slot = user.slot
      /\ user'.down = FALSE /\ user'.fingers = {} /\ user'.x = NoPosition
      /\ user'.moved = 0 /\ user'.rounded = 0 /\ user'.drift = 0
  <2>1. PICK u : u = [user EXCEPT !.activations = k]
    OBVIOUS
  <2>2. PICK v : v = [u EXCEPT !.down = FALSE]
    OBVIOUS
  <2>3. PICK w : w = [v EXCEPT !.fingers = {}]
    OBVIOUS
  <2>4. PICK x : x = [w EXCEPT !.x = NoPosition]
    OBVIOUS
  <2>5. /\ u \in Users /\ u.device = user.device /\ u.activations = k
        /\ u.slots = user.slots /\ u.slot = user.slot
    BY <1>0, <1>4, <2>1 DEF Users
  <2>6. /\ v \in Users /\ v.device = user.device /\ v.activations = k
        /\ v.slots = user.slots /\ v.slot = user.slot /\ v.down = FALSE
    BY <2>2, <2>5 DEF Users
  <2>7. /\ w \in Users /\ w.device = user.device /\ w.activations = k
        /\ w.slots = user.slots /\ w.slot = user.slot /\ w.down = v.down /\ w.fingers = {}
    BY <2>3, <2>6 DEF Users
  <2>8. /\ x \in Users /\ x.device = user.device /\ x.activations = k
        /\ x.slots = user.slots /\ x.slot = user.slot /\ x.down = w.down /\ x.fingers = {} /\ x.x = NoPosition
    BY <2>4, <2>7 DEF Users, NoPosition
  <2>9. PICK z \in Nat : z = 0
    OBVIOUS
  <2>10. PICK y : y = [x EXCEPT !.moved = z]
    OBVIOUS
  <2>11. PICK yy : yy = [y EXCEPT !.rounded = z]
    OBVIOUS
  <2>12. user' = [yy EXCEPT !.drift = z]
    BY <1>1, <1>3, <2>1, <2>2, <2>3, <2>4, <2>9, <2>10, <2>11
  <2>13. /\ y \in Users /\ y.device = user.device /\ y.activations = k
         /\ y.slots = user.slots /\ y.slot = user.slot
         /\ y.down = x.down /\ y.fingers = x.fingers /\ y.x = x.x /\ y.moved = z
    BY <2>8, <2>9, <2>10 DEF Users
  <2>14. /\ yy \in Users /\ yy.device = user.device /\ yy.activations = k
         /\ yy.slots = user.slots /\ yy.slot = user.slot
         /\ yy.down = x.down /\ yy.fingers = x.fingers /\ yy.x = x.x /\ yy.moved = z /\ yy.rounded = z
    BY <2>9, <2>11, <2>13 DEF Users
  <2>15. /\ user' \in Users /\ user'.device = user.device /\ user'.activations = k
         /\ user'.slots = user.slots /\ user'.slot = user.slot
         /\ user'.down = x.down /\ user'.fingers = x.fingers /\ user'.x = x.x
         /\ user'.moved = z /\ user'.rounded = z /\ user'.drift = z
    BY <2>9, <2>12, <2>14 DEF Users
  <2> QED BY <2>6, <2>7, <2>8, <2>9, <2>15
<1>6. FreshUser'
  BY <1>5 DEF FreshUser
<1>7. /\ UserState' \in UserStates /\ UserState'.down = FALSE /\ UserState'.fingers = {}
      /\ UserState'.x = NoPosition /\ UserState'.moved = 0
  <2>1. UserState' \in UserStates
    BY <1>5, UserTyped DEF UserState
  <2>2. UserState'.down = user'.down
    BY DEF UserState
  <2> QED BY <1>5, <2>1, <2>2 DEF UserState
<1>8. PICK n : n = Len(signals)
  OBVIOUS
<1>9. /\ n \in Nat /\ DOMAIN signals = 1..n /\ DOMAIN signals' = 1..(n + 1) /\ Len(signals') = n + 1
      /\ \A i \in 1..n : signals'[i] = signals[i] /\ signals[i] \in SignalSet
      /\ signals'[n + 1] = s /\ signals' # <<>> /\ signals' \in Seq(SignalSet)
  BY <1>0, <1>3, <1>4, <1>8, SignalsAppended
<1>10. signals = <<>> \/ IsDeactivated(LastSignal)
  BY <1>3 DEF AdaptersInv, SignalsMatch
<1>11. Typing'
  BY <1>3, <1>5, <1>9 DEF AdaptersInv, Typing
<1>12. SignalsAlternate'
  BY <1>0, <1>1, <1>2, <1>3, <1>5, <1>10, ActivatedAlternates DEF AdaptersInv
<1>13. SignalsMatch'
  BY <1>3, <1>4, <1>9 DEF SignalsMatch, Announced, LastSignal, Crossed
<1>14. AnswersOnly'
  <2>1. \A i \in 1..(n + 1) : IsDeactivated(signals'[i]) => i \in 1..n
    BY <1>4, <1>9
  <2> QED BY <1>3, <1>9, <2>1 DEF AdaptersInv, AnswersOnly, Crossed
<1>15. OneDevice' /\ Coalesced' /\ RemainderOK(adapter)' /\ DriftBounded' /\ AdapterClean'
  <2>1. DriftBounded'
    BY <1>5 DEF DriftBounded
  <2> QED BY <1>3, <1>5, <2>1 DEF AdaptersInv, OneDevice, Coalesced, RemainderOK, AdapterClean
<1>16. FreshCapture'
  BY <1>3, <1>6 DEF FreshCapture
<1>17. SocketBefore'
  <2>1. \E i \in DOMAIN signals' : IsActivated(signals'[i])
    BY <1>4, <1>9
  <2>2. ASSUME ~stale PROVE Overtaken' \/ UserRun(eis', Behind(adapter, NothingHeld)', UserState')
    <3>1. CASE eis = <<>>
      <4>1. adapter.position = NoPosition /\ adapter.remainder = 0 /\ adapter.motion = 0
        BY <1>3, <2>2 DEF AdaptersInv, AdapterClean, Coalesced
      <4>2. UserRun(<<>>, Behind(adapter, NothingHeld), UserState')
        BY <1>0, <1>7, <4>1, CleanBehind
      <4> QED BY <1>3, <3>1, <4>2
    <3>2. CASE eis # <<>>
      <4>1. PICK i \in 1..n : IsActivated(signals[i])
        BY <1>3, <1>9, <2>2, <3>2 DEF AdaptersInv, SocketBefore
      <4>2. signals # <<>>
        BY <1>8, <1>9, <4>1
      <4>3. IsDeactivated(signals[n]) /\ n \in 1..n
        BY <1>8, <1>9, <1>10, <4>1, <4>2 DEF LastSignal
      <4>4. i # n
        BY <1>9, <4>1, <4>3, SignalTyped
      <4>5. i < n /\ IsActivated(signals'[i]) /\ IsDeactivated(signals'[n])
        BY <1>9, <4>1, <4>3, <4>4
      <4>6. i \in DOMAIN signals' /\ n \in DOMAIN signals'
        BY <1>9, <4>3
      <4> QED BY <4>5, <4>6 DEF Overtaken
    <3> QED BY <3>1, <3>2
  <2> QED BY <1>3, <2>1, <2>2 DEF SocketBefore
<1>18. InHandoff' /\ OnThePad'
  BY <1>3 DEF InHandoff, OnThePad
<1>19. ClickWhereMeant' /\ NoFalseLoss'
  BY <1>3 DEF AdaptersInv, ClickWhereMeant, NoFalseLoss
<1> QED BY <1>11, <1>12, <1>13, <1>14, <1>15, <1>16, <1>17, <1>18, <1>19 DEF AdaptersInv

\* A capture the compositor ends by itself keeps the invariant.
LEMMA PortalDeactivatesKeeps ==
  ASSUME AdaptersInv, PortalDeactivates
  PROVE  AdaptersInv'
<1>0. /\ user \in Users /\ signals \in Seq(SignalSet) /\ adapter \in AdapterStates
      /\ capturing \in {None, user.activations} /\ user.activations \in Nat
  BY UserTyped DEF AdaptersInv, Typing
<1>1. PICK id \in {capturing, None} : signals' = Append(signals, [type |-> "Deactivated", id |-> id])
  BY DEF PortalDeactivates
<1>2. id \in Nat
  BY <1>0, <1>1, NothingTyped
<1>3. PICK s : s = [type |-> "Deactivated", id |-> id]
  OBVIOUS
<1>4. s \in SignalSet /\ IsDeactivated(s) /\ ~IsActivated(s)
  BY <1>2, <1>3 DEF SignalSet, IsActivated, IsDeactivated
<1>5. /\ capturing # None /\ phase \notin Endings /\ capturing' = None /\ lost' = TRUE
      /\ UNCHANGED <<user, eis, ring, adapter, phase, injector, lastClick, stale>>
  BY DEF PortalDeactivates
<1>6. PICK n : n = Len(signals)
  OBVIOUS
<1>7. /\ n \in Nat /\ DOMAIN signals = 1..n /\ DOMAIN signals' = 1..(n + 1) /\ Len(signals') = n + 1
      /\ \A i \in 1..n : signals'[i] = signals[i] /\ signals[i] \in SignalSet
      /\ signals'[n + 1] = s /\ signals' # <<>> /\ signals' \in Seq(SignalSet)
  BY <1>0, <1>1, <1>3, <1>4, <1>6, SignalsAppended
<1>8. phase \in {"waiting", "entering", "forwarding"}
  BY <1>5 DEF AdaptersInv, Typing
<1>9. signals = <<>> \/ IsActivated(LastSignal)
  BY <1>5, <1>8 DEF AdaptersInv, SignalsMatch, Crossed, Announced
<1>10. Typing'
  <2>1. lost' \in BOOLEAN
    BY <1>5
  <2> QED BY <1>5, <1>7, <2>1 DEF AdaptersInv, Typing
<1>11. SignalsAlternate'
  BY <1>0, <1>1, <1>2, <1>5, <1>9, DeactivatedAlternates DEF AdaptersInv
<1>12. LastSignal' = s
  BY <1>7 DEF LastSignal
<1>13. SignalsMatch'
  <2>1. Crossed => adapter.active # None /\ IsDeactivated(signals'[1])
    <3> SUFFICES ASSUME Crossed PROVE adapter.active # None /\ IsDeactivated(signals'[1])
      OBVIOUS
    <3>1. adapter.active # None
      BY DEF AdaptersInv, SignalsMatch
    <3>2. CASE signals = <<>>
      <4>1. n = 0
        BY <1>6, <3>2
      <4> QED BY <1>4, <1>7, <3>1, <4>1
    <3>3. CASE signals # <<>>
      <4>1. n # 0
        BY <1>0, <1>6, <3>3
      <4>2. IsDeactivated(signals[1])
        BY <3>3 DEF AdaptersInv, SignalsMatch
      <4> QED BY <1>7, <3>1, <4>1, <4>2
    <3> QED BY <3>2, <3>3
  <2> QED BY <1>4, <1>5, <1>7, <1>12, <2>1 DEF SignalsMatch, Crossed
<1>14. AnswersOnly'
  BY <1>5 DEF AnswersOnly
<1>15. OneDevice' /\ Coalesced' /\ RemainderOK(adapter)' /\ DriftBounded' /\ AdapterClean'
  BY <1>5 DEF AdaptersInv, OneDevice, Coalesced, RemainderOK, DriftBounded, AdapterClean
<1>16. FreshCapture'
  BY <1>5 DEF FreshCapture
<1>17. SocketBefore'
  <2>1. ASSUME ~stale, phase = "waiting", eis # <<>>
        PROVE  \E i \in DOMAIN signals' : IsActivated(signals'[i])
    <3>1. PICK i \in 1..n : IsActivated(signals[i])
      BY <1>7, <2>1 DEF AdaptersInv, SocketBefore
    <3> QED BY <1>7, <3>1
  <2>2. phase = "entering" => adapter.active # None
    BY DEF AdaptersInv, SignalsMatch, Crossed
  <2> QED BY <1>5, <2>1, <2>2 DEF SocketBefore
<1>18. InHandoff'
  <2>1. phase = "forwarding" => adapter.active # None
    BY DEF AdaptersInv, SignalsMatch, Crossed
  <2> QED BY <1>5, <2>1 DEF AdaptersInv, InHandoff
<1>19. OnThePad'
  <2>1. OnTrackpad' = OnTrackpad
    BY <1>5 DEF OnTrackpad
  <2> QED BY <1>5, <2>1 DEF AdaptersInv, OnThePad
<1>20. ClickWhereMeant' /\ NoFalseLoss'
  BY <1>5 DEF AdaptersInv, ClickWhereMeant, NoFalseLoss
<1> QED BY <1>10, <1>11, <1>13, <1>14, <1>15, <1>16, <1>17, <1>18, <1>19, <1>20 DEF AdaptersInv

-----------------------------------------------------------------------------
(* wait_for_left_activation                                                *)

\* The first signal is an activation: of this capture, and then it is the
\* only one, or of a capture that is over, and then its end follows.
LEMMA ActivatedKeeps ==
  ASSUME AdaptersInv, WaitForActivation, IsActivated(Head(signals))
  PROVE  AdaptersInv'
<1>0. /\ user \in Users /\ signals \in Seq(SignalSet) /\ adapter \in AdapterStates
      /\ capturing \in {None, user.activations} /\ user.activations \in Nat
      /\ phase = "waiting" /\ signals # <<>> /\ signals' = Tail(signals)
      /\ UNCHANGED <<user, capturing, eis, ring, injector, lastClick, stale, lost>>
  BY UserTyped DEF AdaptersInv, Typing, WaitForActivation
<1>1. PICK n : n = Len(signals)
  OBVIOUS
<1>2. /\ n \in Nat /\ n >= 1 /\ DOMAIN signals = 1..n /\ DOMAIN signals' = 1..(n - 1)
      /\ Len(signals') = n - 1 /\ signals' \in Seq(SignalSet)
      /\ \A i \in 1..(n - 1) : signals'[i] = signals[i + 1]
      /\ \A i \in 1..n : signals[i] \in SignalSet
      /\ Head(signals) = signals[1] /\ Head(signals) \in SignalSet
      /\ signals' # <<>> <=> n # 1
      /\ signals' # <<>> => LastSignal' = LastSignal
  BY <1>0, <1>1, SignalsRead DEF LastSignal
<1>3. PICK id \in Nat : id = Head(signals).id
  BY <1>2, SignalTyped
<1>4. phase' = "entering" /\ adapter' = ResetMotion([adapter EXCEPT !.active = id])
  BY <1>3 DEF WaitForActivation, IsActivated
<1>5. /\ adapter' \in AdapterStates /\ adapter'.active = id /\ adapter'.pending = adapter.pending
      /\ adapter'.pinch = adapter.pinch /\ adapter'.raw = adapter.raw /\ adapter'.motion = adapter.motion
      /\ adapter'.position = NoPosition /\ adapter'.remainder = 0
  <2>1. PICK a : a = [adapter EXCEPT !.active = id]
    OBVIOUS
  <2>2. /\ a \in AdapterStates /\ a.active = id /\ a.pending = adapter.pending
        /\ a.pinch = adapter.pinch /\ a.raw = adapter.raw /\ a.motion = adapter.motion
    BY <1>0, <2>1 DEF AdapterStates
  <2>3. PICK b : b = [a EXCEPT !.position = NoPosition]
    OBVIOUS
  <2>4. /\ b \in AdapterStates /\ b.active = id /\ b.pending = adapter.pending
        /\ b.pinch = adapter.pinch /\ b.raw = adapter.raw /\ b.motion = adapter.motion
        /\ b.position = NoPosition
    BY <2>2, <2>3 DEF AdapterStates, NoPosition
  <2>5. adapter' = [b EXCEPT !.remainder = 0]
    BY <1>4, <2>1, <2>3 DEF ResetMotion
  <2> QED BY <2>4, <2>5 DEF AdapterStates
<1>6. 1 \in 1..n /\ n \in 1..n /\ IsActivated(signals[1]) /\ signals[1].id = id
  BY <1>2, <1>3
<1>7. id \in 1..user.activations /\ id # None
  <2>1. id \in 1..user.activations
    BY <1>2, <1>6 DEF AdaptersInv, SignalsAlternate
  <2> QED BY <2>1 DEF None
<1>8. /\ capturing = None => IsDeactivated(LastSignal)
      /\ capturing # None => IsActivated(LastSignal) /\ LastSignal.id = capturing
  BY <1>0 DEF AdaptersInv, SignalsMatch, Announced
<1>9. n = 1 => LastSignal = signals[1]
  BY <1>1 DEF LastSignal
<1>10. capturing = id => n = 1
  <2> SUFFICES ASSUME capturing = id, n # 1 PROVE FALSE
    OBVIOUS
  <2>1. IsActivated(signals[n]) /\ signals[n].id = id
    BY <1>1, <1>7, <1>8 DEF LastSignal
  <2>2. 1 < n
    BY <1>2
  <2>3. signals[1].id < signals[n].id
    BY <1>2, <1>6, <2>1, <2>2 DEF AdaptersInv, SignalsAlternate
  <2> QED BY <1>6, <2>1, <2>3
<1>11. capturing # id => n # 1
  <2> SUFFICES ASSUME capturing # id, n = 1 PROVE FALSE
    OBVIOUS
  <2>1. ~IsDeactivated(signals[1])
    BY <1>2, <1>6, SignalTyped
  <2> QED BY <1>6, <1>8, <1>9, <2>1
<1>12. n # 1 => IsDeactivated(signals[2]) /\ 2 \in 1..n /\ signals'[1] = signals[2]
  <2> SUFFICES ASSUME n # 1 PROVE IsDeactivated(signals[2]) /\ 2 \in 1..n /\ signals'[1] = signals[2]
    OBVIOUS
  <2>1. 2 \in 1..n /\ 1 \in 1..(n - 1) /\ 1 + 1 = 2
    BY <1>2
  <2>2. signals[1].type # signals[2].type
    BY <1>2, <1>6, <2>1 DEF AdaptersInv, SignalsAlternate
  <2>3. signals[2] \in SignalSet
    BY <1>2, <2>1
  <2>4. IsDeactivated(signals[2])
    BY <1>6, <2>2, <2>3, SignalTyped DEF IsActivated, IsDeactivated
  <2> QED BY <1>2, <2>1, <2>4
<1>13. Typing'
  BY <1>0, <1>2, <1>4, <1>5 DEF AdaptersInv, Typing
<1>14. SignalsAlternate'
  BY <1>0, ReadAlternates DEF AdaptersInv
<1>15. SignalsMatch'
  <2>1. adapter'.active # None
    BY <1>5, <1>7
  <2>2. capturing = id => signals' = <<>>
    BY <1>2, <1>10
  <2>3. capturing # id => signals' # <<>> /\ IsDeactivated(signals'[1])
    BY <1>2, <1>11, <1>12
  <2>4. capturing = None => IsDeactivated(LastSignal')
    BY <1>2, <1>7, <1>8, <1>11
  <2>5. capturing \notin {None, id} => Announced'
    BY <1>0, <1>2, <1>8, <1>11 DEF Announced
  <2> QED BY <1>0, <1>4, <1>5, <2>1, <2>2, <2>3, <2>4, <2>5 DEF SignalsMatch
<1>16. AnswersOnly'
  <2>1. ~lost => n = 1
    <3> SUFFICES ASSUME ~lost, n # 1 PROVE FALSE
      OBVIOUS
    <3>1. 2 = 1
      BY <1>0, <1>2, <1>12 DEF AdaptersInv, AnswersOnly
    <3> QED BY <3>1
  <2> QED BY <1>0, <1>2, <1>4, <2>1 DEF AnswersOnly
<1>17. OneDevice' /\ Coalesced' /\ RemainderOK(adapter)' /\ DriftBounded'
  BY <1>0, <1>5 DEF AdaptersInv, OneDevice, Coalesced, RemainderOK, DriftBounded
<1>18. AdapterClean'
  BY <1>0, <1>4, <1>5 DEF AdaptersInv, AdapterClean
<1>19. FreshCapture'
  BY <1>0, <1>4 DEF AdaptersInv, FreshCapture, FreshUser
<1>20. SocketBefore'
  <2> SUFFICES ASSUME ~stale, capturing = id
               PROVE  UserRun(eis, Behind(adapter', NothingHeld), UserState)
    <3>1. UserState' = UserState
      BY <1>0 DEF UserState
    <3> QED BY <1>0, <1>4, <1>5, <3>1 DEF SocketBefore
  <2>1. ~Overtaken
    <3> SUFFICES ASSUME NEW i \in 1..n, NEW j \in 1..n, i < j PROVE FALSE
      BY <1>2 DEF Overtaken
    <3> QED BY <1>10
  <2>2. UserRun(eis, Behind(adapter, NothingHeld), UserState)
    BY <1>0, <1>7, <2>1 DEF AdaptersInv, SocketBefore
  <2>3. Behind(adapter', NothingHeld) = Behind(adapter, NothingHeld)
    BY <1>0, <1>5 DEF AdaptersInv, AdapterClean, Behind
  <2> QED BY <2>2, <2>3
<1>21. InHandoff' /\ OnThePad'
  BY <1>4 DEF InHandoff, OnThePad
<1>22. ClickWhereMeant' /\ NoFalseLoss'
  BY <1>0, <1>4 DEF AdaptersInv, ClickWhereMeant, NoFalseLoss
<1> QED BY <1>13, <1>14, <1>15, <1>16, <1>17, <1>18, <1>19, <1>20, <1>21, <1>22 DEF AdaptersInv

\* The first signal is the end of a capture: the answer to the adapter's own
\* release is taken as that, whatever follows it.
LEMMA AnsweredKeeps ==
  ASSUME AdaptersInv, WaitForActivation, IsDeactivated(Head(signals)),
         IsExpectedReleaseDeactivation(Head(signals).id)
  PROVE  AdaptersInv'
<1>0. /\ user \in Users /\ signals \in Seq(SignalSet) /\ adapter \in AdapterStates
      /\ phase = "waiting" /\ signals # <<>> /\ signals' = Tail(signals)
      /\ UNCHANGED <<user, capturing, eis, ring, injector, lastClick, stale, lost>>
  BY DEF AdaptersInv, Typing, WaitForActivation
<1>1. PICK n : n = Len(signals)
  OBVIOUS
<1>2. /\ n \in Nat /\ n >= 1 /\ DOMAIN signals = 1..n /\ DOMAIN signals' = 1..(n - 1)
      /\ Len(signals') = n - 1 /\ signals' \in Seq(SignalSet)
      /\ \A i \in 1..(n - 1) : signals'[i] = signals[i + 1]
      /\ \A i \in 1..n : signals[i] \in SignalSet
      /\ Head(signals) = signals[1] /\ Head(signals) \in SignalSet
      /\ signals' # <<>> <=> n # 1
      /\ signals' # <<>> => LastSignal' = LastSignal
  BY <1>0, <1>1, SignalsRead DEF LastSignal
<1>3. phase' = "waiting" /\ adapter' = [adapter EXCEPT !.expected = None]
  BY <1>0 DEF WaitForActivation, IsDeactivated
<1>4. /\ adapter' \in AdapterStates /\ adapter'.active = adapter.active /\ adapter'.pending = adapter.pending
      /\ adapter'.pinch = adapter.pinch /\ adapter'.raw = adapter.raw /\ adapter'.motion = adapter.motion
      /\ adapter'.position = adapter.position /\ adapter'.remainder = adapter.remainder
  BY <1>0, <1>3, NothingTyped DEF AdapterStates
<1>5. 1 \in 1..n /\ IsDeactivated(signals[1]) /\ ~IsActivated(signals[1])
  BY <1>2, SignalTyped
<1>6. \A i \in 1..n : IsActivated(signals[i]) => i - 1 \in 1..(n - 1) /\ signals'[i - 1] = signals[i]
  <2> SUFFICES ASSUME NEW i \in 1..n, IsActivated(signals[i])
               PROVE  i - 1 \in 1..(n - 1) /\ signals'[i - 1] = signals[i]
    OBVIOUS
  <2>1. i # 1
    BY <1>5
  <2>2. i - 1 \in 1..(n - 1) /\ (i - 1) + 1 = i
    BY <1>2, <2>1
  <2> QED BY <1>2, <2>2
<1>7. Typing'
  BY <1>0, <1>2, <1>3, <1>4 DEF AdaptersInv, Typing
<1>8. SignalsAlternate'
  BY <1>0, ReadAlternates DEF AdaptersInv
<1>9. SignalsMatch'
  <2>1. capturing = None => signals' = <<>> \/ IsDeactivated(LastSignal')
    BY <1>0, <1>2 DEF AdaptersInv, SignalsMatch
  <2>2. capturing # None => Announced'
    <3> SUFFICES ASSUME capturing # None PROVE Announced'
      OBVIOUS
    <3>1. IsActivated(LastSignal) /\ LastSignal.id = capturing
      BY <1>0 DEF AdaptersInv, SignalsMatch, Announced
    <3>2. n # 1
      BY <1>1, <1>5, <3>1 DEF LastSignal
    <3> QED BY <1>0, <1>2, <3>1, <3>2 DEF Announced
  <2> QED BY <1>0, <1>3, <2>1, <2>2 DEF SignalsMatch, Crossed
<1>10. AnswersOnly'
  <2>1. ASSUME ~lost, NEW i \in 1..(n - 1), IsDeactivated(signals'[i])
        PROVE  FALSE
    <3>1. i + 1 \in 1..n /\ signals'[i] = signals[i + 1]
      BY <1>2
    <3>2. i + 1 = 1
      BY <1>0, <1>2, <2>1, <3>1 DEF AdaptersInv, AnswersOnly
    <3> QED BY <3>2
  <2> QED BY <1>0, <1>2, <1>3, <2>1 DEF AnswersOnly, Crossed
<1>11. OneDevice' /\ Coalesced' /\ RemainderOK(adapter)' /\ DriftBounded'
  BY <1>0, <1>4 DEF AdaptersInv, OneDevice, Coalesced, RemainderOK, DriftBounded
<1>12. AdapterClean'
  BY <1>0, <1>3, <1>4 DEF AdaptersInv, AdapterClean
<1>13. FreshCapture'
  BY <1>0, <1>3 DEF AdaptersInv, FreshCapture, FreshUser
<1>14. SocketBefore'
  <2>1. ~stale /\ eis # <<>> => \E i \in DOMAIN signals' : IsActivated(signals'[i])
    <3> SUFFICES ASSUME ~stale, eis # <<>> PROVE \E i \in 1..(n - 1) : IsActivated(signals'[i])
      BY <1>2
    <3>1. PICK i \in 1..n : IsActivated(signals[i])
      BY <1>0, <1>2 DEF AdaptersInv, SocketBefore
    <3>2. PICK k : k = i - 1
      OBVIOUS
    <3> QED BY <1>6, <3>1, <3>2
  <2>2. Overtaken => Overtaken'
    <3> SUFFICES ASSUME Overtaken PROVE Overtaken'
      OBVIOUS
    <3>1. PICK i \in 1..n, j \in 1..n : i < j /\ IsActivated(signals[i]) /\ IsDeactivated(signals[j])
      BY <1>2 DEF Overtaken
    <3>2. PICK k, h : k = i - 1 /\ h = j - 1
      OBVIOUS
    <3>3. k \in 1..(n - 1) /\ signals'[k] = signals[i]
      BY <1>6, <3>1, <3>2
    <3>4. h \in 1..(n - 1) /\ h + 1 = j /\ k < h
      BY <1>2, <3>1, <3>2, <3>3
    <3>5. signals'[h] = signals[j]
      BY <1>2, <3>4
    <3> QED BY <1>2, <3>1, <3>3, <3>4, <3>5 DEF Overtaken
  <2>3. Behind(adapter', NothingHeld) = Behind(adapter, NothingHeld)
    BY <1>4 DEF Behind
  <2>4. UserState' = UserState
    BY <1>0 DEF UserState
  <2>5. ~stale /\ capturing # None => Overtaken \/ UserRun(eis, Behind(adapter, NothingHeld), UserState)
    BY <1>0 DEF AdaptersInv, SocketBefore
  <2> QED BY <1>0, <1>3, <2>1, <2>2, <2>3, <2>4, <2>5 DEF SocketBefore
<1>15. InHandoff' /\ OnThePad'
  BY <1>3 DEF InHandoff, OnThePad
<1>16. ClickWhereMeant' /\ NoFalseLoss'
  BY <1>0, <1>3 DEF AdaptersInv, ClickWhereMeant, NoFalseLoss
<1> QED BY <1>7, <1>8, <1>9, <1>10, <1>11, <1>12, <1>13, <1>14, <1>15, <1>16 DEF AdaptersInv

\* An end that nobody asked for ends the session: the compositor's own.
LEMMA UnexpectedKeeps ==
  ASSUME AdaptersInv, WaitForActivation, IsDeactivated(Head(signals)),
         ~IsExpectedReleaseDeactivation(Head(signals).id)
  PROVE  AdaptersInv'
<1>0. /\ user \in Users /\ signals \in Seq(SignalSet)
      /\ phase = "waiting" /\ signals # <<>> /\ signals' = Tail(signals)
      /\ UNCHANGED <<user, capturing, eis, ring, injector, lastClick, stale, lost>>
  BY DEF AdaptersInv, Typing, WaitForActivation
<1>1. phase' = "signal" /\ adapter' = adapter
  BY <1>0 DEF WaitForActivation, IsDeactivated
<1>2. signals' \in Seq(SignalSet) /\ 1 \in DOMAIN signals /\ Head(signals) = signals[1]
  BY <1>0
<1>3. lost
  BY <1>0, <1>2 DEF AdaptersInv, AnswersOnly, IsExpectedReleaseDeactivation
<1>4. Typing'
  BY <1>0, <1>1, <1>2 DEF AdaptersInv, Typing, Endings
<1>5. SignalsAlternate'
  BY <1>0, ReadAlternates DEF AdaptersInv
<1>6. OneDevice' /\ Coalesced' /\ RemainderOK(adapter)' /\ DriftBounded' /\ ClickWhereMeant'
  BY <1>0, <1>1 DEF AdaptersInv, OneDevice, Coalesced, RemainderOK, DriftBounded, ClickWhereMeant
<1>7. phase' \in Endings /\ NoFalseLoss'
  BY <1>0, <1>1, <1>3 DEF NoFalseLoss, Endings
<1> QED BY <1>0, <1>1, <1>3, <1>4, <1>5, <1>6, <1>7, EndedKeeps

\* wait_for_left_activation keeps the invariant, whichever signal it reads.
LEMMA WaitForActivationKeeps ==
  ASSUME AdaptersInv, WaitForActivation
  PROVE  AdaptersInv'
<1>1. IsActivated(Head(signals)) \/ IsDeactivated(Head(signals))
  BY DEF WaitForActivation, IsActivated, IsDeactivated
<1> QED BY <1>1, ActivatedKeeps, AnsweredKeeps, UnexpectedKeeps

-----------------------------------------------------------------------------
(* begin_remote_input                                                      *)

\* begin_remote_input keeps the invariant: the trackpad begins anew.
LEMMA BeginsKeeps ==
  ASSUME AdaptersInv, BeginRemoteInput
  PROVE  AdaptersInv'
<1>0. /\ user \in Users /\ adapter \in AdapterStates /\ injector \in Ledgers
      /\ phase = "entering" /\ phase' = "forwarding" /\ ring' = <<>>
      /\ adapter' = [adapter EXCEPT !.raw = NoTrackpad]
      /\ UNCHANGED <<user, capturing, signals, eis, injector, lastClick, stale, lost>>
  BY DEF AdaptersInv, Typing, BeginRemoteInput
<1>1. /\ adapter' \in AdapterStates /\ adapter'.active = adapter.active /\ adapter'.expected = adapter.expected
      /\ adapter'.pending = adapter.pending /\ adapter'.pinch = adapter.pinch /\ adapter'.raw = NoTrackpad
      /\ adapter'.motion = adapter.motion
      /\ adapter'.position = adapter.position /\ adapter'.remainder = adapter.remainder
  BY <1>0, NothingTyped DEF AdapterStates
<1>2. UserState' = UserState /\ OnTrackpad' = OnTrackpad /\ OnTrackpad \in Tracks
  BY <1>0, UserTyped DEF UserState, OnTrackpad
<1>3. Typing'
  <2>1. ring' \in Seq(Reports)
    BY <1>0
  <2> QED BY <1>0, <1>1, <2>1 DEF AdaptersInv, Typing
<1>4. SignalsAlternate' /\ SignalsMatch' /\ AnswersOnly'
  BY <1>0, <1>1 DEF AdaptersInv, SignalsAlternate, SignalsMatch, AnswersOnly, Crossed, Announced, LastSignal
<1>5. OneDevice' /\ Coalesced' /\ RemainderOK(adapter)' /\ DriftBounded' /\ AdapterClean'
  BY <1>0, <1>1 DEF AdaptersInv, OneDevice, Coalesced, RemainderOK, DriftBounded, AdapterClean
<1>6. FreshCapture'
  BY <1>0 DEF AdaptersInv, FreshCapture, FreshUser
<1>7. SocketBefore'
  BY <1>0 DEF SocketBefore
<1>8. InHandoff'
  <2> SUFFICES ASSUME ~stale
               PROVE  \E m : /\ Leads(adapter', injector, m)
                             /\ capturing = adapter.active => UserRun(eis, Behind(adapter', m), UserState)
    BY <1>0, <1>1, <1>2 DEF InHandoff
  <2>1. adapter.pending = <<>> /\ adapter.pinch = NoPinch /\ injector = NothingHeld
    BY <1>0 DEF AdaptersInv, AdapterClean
  <2>2. Behind(adapter', injector) = Behind(adapter, NothingHeld)
    BY <1>1, <2>1 DEF Behind
  <2>3. capturing = adapter.active => UserRun(eis, Behind(adapter', injector), UserState)
    BY <1>0, <2>2 DEF AdaptersInv, SocketBefore
  <2>4. InjectorRun(adapter'.pending, injector, injector)
    BY <1>0, <1>1, <2>1, NoEventRuns
  <2>5. ~adapter'.pinch.held /\ ~adapter'.raw.pinch.held /\ LeftCtrl \notin injector.pressed
    BY <1>1, <2>1, NothingTyped
  <2>6. Leads(adapter', injector, injector)
    BY <1>0, <2>4, <2>5 DEF Leads
  <2> QED BY <2>3, <2>6
<1>9. OnThePad'
  <2>1. ReportRun(<<>>, OnTrackpad, OnTrackpad)
    BY <1>2, RunEmpty DEF ReportRun
  <2>2. Tracked(NoTrackpad, OnTrackpad)
    <3>1. OnTrackpad.slot \in Slots
      BY <1>2 DEF Tracks
    <3>2. /\ NoTrackpad.slot = 0 /\ \A s \in Slots : NoTrackpad.contacts[s] = NoContact
          /\ NoContact.id = None /\ NoContact.forwarded = FALSE
      BY DEF NoTrackpad, NoContact
    <3>3. NoTrackpad.pinch.contacts = {} /\ ~NoTrackpad.pinch.held /\ 0 \in Slots /\ 1 \in Slots
      BY NothingTyped
    <3> HIDE DEF NoTrackpad, NoContact
    <3>4. \A s \in Slots : NoTrackpad.contacts[s].id = None /\ ~NoTrackpad.contacts[s].forwarded
      BY <3>2
    <3> QED BY <3>1, <3>2, <3>3, <3>4 DEF Tracked, Slots
  <2> QED BY <1>0, <1>1, <1>2, <2>1, <2>2 DEF OnThePad
<1>10. ClickWhereMeant' /\ NoFalseLoss'
  BY <1>0 DEF AdaptersInv, ClickWhereMeant, NoFalseLoss
<1> QED BY <1>3, <1>4, <1>5, <1>6, <1>7, <1>8, <1>9, <1>10 DEF AdaptersInv

-----------------------------------------------------------------------------
(* next_input                                                              *)

\* Whatever a source has put into the queue, and the injector can follow.
LEMMA TakenKeeps ==
  ASSUME AdaptersInv, phase = "forwarding", NEW a \in AdapterStates, TakePending(a),
         UNCHANGED <<user, capturing, signals, stale, lost>>,
         a.active = adapter.active, a.expected = adapter.expected, a.motion = 0, RemainderOK(a),
         eis' \in Seq(EisEvents), ring' \in Seq(Reports),
         user.device # "touch" => a.pinch = NoPinch /\ \A i \in DOMAIN eis' : eis'[i] \in PointerEvents,
         user.device # "trackpad" => ring' = <<>> /\ a.raw = NoTrackpad,
         user.device = "trackpad" => eis' = <<>>,
         capturing \notin {None, adapter.active} /\ eis' = <<>> => FreshUser,
         ~stale => \E m : /\ Leads(a, injector, m)
                          /\ capturing = adapter.active => UserRun(eis', Behind(a, m), UserState),
         \E t \in Tracks : Tracked(a.raw, t) /\ ReportRun(ring', t, OnTrackpad)
  PROVE  AdaptersInv'
<1>0. user \in Users /\ injector \in Ledgers
  BY DEF AdaptersInv, Typing
<1>1. /\ adapter' \in AdapterStates /\ injector' \in Ledgers /\ phase' \in {"forwarding"} \union Endings
      /\ adapter'.active = a.active /\ adapter'.expected = a.expected /\ adapter'.raw = a.raw
      /\ adapter'.position = a.position /\ adapter'.remainder = a.remainder
      /\ adapter'.motion = a.motion /\ adapter'.pinch = a.pinch
  BY <1>0, Taken DEF SameCapture
<1>2. ASSUME NEW m \in Ledgers, InjectorRun(a.pending, injector, m)
      PROVE  /\ \/ phase' = "motion"
                \/ phase' = "forwarding" /\ InjectorRun(adapter'.pending, injector', m)
             /\ lastClick' = lastClick \/ Near(lastClick.meant, lastClick.was)'
  BY <1>0, <1>2, Taken
<1>3. UserState' = UserState /\ OnTrackpad' = OnTrackpad
  BY DEF UserState, OnTrackpad
<1>4. Typing'
  BY <1>1 DEF AdaptersInv, Typing
<1>5. SignalsAlternate' /\ SignalsMatch' /\ AnswersOnly'
  BY <1>1 DEF AdaptersInv, SignalsAlternate, SignalsMatch, AnswersOnly, Crossed, Announced, LastSignal, Endings
<1>6. OneDevice' /\ Coalesced' /\ RemainderOK(adapter)' /\ DriftBounded'
  BY <1>1 DEF AdaptersInv, OneDevice, Coalesced, RemainderOK, DriftBounded
<1>7. AdapterClean' /\ SocketBefore'
  BY <1>1 DEF AdapterClean, SocketBefore, Endings
<1>8. FreshCapture'
  BY <1>1 DEF FreshCapture, FreshUser, Endings
<1>9. ASSUME ~stale
      PROVE  /\ Near(lastClick.meant, lastClick.was)'
             /\ \/ phase' = "motion"
                \/ /\ phase' = "forwarding"
                   /\ \E m : /\ Leads(adapter', injector', m)
                             /\ capturing = adapter.active =>
                                  UserRun(eis', Behind(adapter', m), UserState)
  <2>1. PICK m : /\ Leads(a, injector, m)
                 /\ capturing = adapter.active => UserRun(eis', Behind(a, m), UserState)
    BY <1>9
  <2>2. /\ m \in Ledgers /\ InjectorRun(a.pending, injector, m)
        /\ LeftCtrl \in m.pressed <=> a.pinch.held \/ a.raw.pinch.held
    BY <2>1 DEF Leads
  <2>3. /\ \/ phase' = "motion"
           \/ phase' = "forwarding" /\ InjectorRun(adapter'.pending, injector', m)
        /\ lastClick' = lastClick \/ Near(lastClick.meant, lastClick.was)'
    BY <1>2, <2>2
  <2>4. Near(lastClick.meant, lastClick.was)
    BY <1>9 DEF AdaptersInv, ClickWhereMeant
  <2>5. lastClick' = lastClick => Near(lastClick.meant, lastClick.was)'
    BY <2>4
  <2>6. phase' = "forwarding" /\ InjectorRun(adapter'.pending, injector', m) => Leads(adapter', injector', m)
    BY <1>1, <2>2 DEF Leads
  <2>7. Behind(adapter', m) = Behind(a, m)
    BY <1>1 DEF Behind
  <2> QED BY <2>1, <2>3, <2>5, <2>6, <2>7
<1>10. InHandoff'
  BY <1>1, <1>3, <1>9 DEF InHandoff
<1>11. OnThePad'
  BY <1>1, <1>3 DEF OnThePad
<1>12. ClickWhereMeant'
  BY <1>9 DEF ClickWhereMeant
<1>13. NoFalseLoss'
  BY <1>9 DEF NoFalseLoss
<1> QED BY <1>4, <1>5, <1>6, <1>7, <1>8, <1>10, <1>11, <1>12, <1>13 DEF AdaptersInv

\* What is pending.
LEMMA NextPendingKeeps ==
  ASSUME AdaptersInv, NextPending
  PROVE  AdaptersInv'
<1>1. /\ phase = "forwarding" /\ TakePending(adapter)
      /\ UNCHANGED <<user, capturing, signals, eis, ring, stale, lost>>
  BY DEF NextPending
<1>2. /\ adapter \in AdapterStates /\ eis \in Seq(EisEvents) /\ ring \in Seq(Reports)
      /\ adapter.motion = 0 /\ RemainderOK(adapter)
  BY DEF AdaptersInv, Typing, Coalesced
<1>3. /\ user.device # "touch" => adapter.pinch = NoPinch /\ \A i \in DOMAIN eis : eis[i] \in PointerEvents
      /\ user.device # "trackpad" => ring = <<>> /\ adapter.raw = NoTrackpad
      /\ user.device = "trackpad" => eis = <<>>
  BY DEF AdaptersInv, OneDevice
<1>4. capturing \notin {None, adapter.active} /\ eis = <<>> => FreshUser
  BY <1>1 DEF AdaptersInv, FreshCapture
<1>5. ~stale => \E m : /\ Leads(adapter, injector, m)
                       /\ capturing = adapter.active => UserRun(eis, Behind(adapter, m), UserState)
  BY <1>1 DEF AdaptersInv, InHandoff
<1>6. \E t \in Tracks : Tracked(adapter.raw, t) /\ ReportRun(ring, t, OnTrackpad)
  BY <1>1 DEF AdaptersInv, OnThePad
<1> QED BY <1>1, <1>2, <1>3, <1>4, <1>5, <1>6, TakenKeeps

\* The trackpad's reports.
LEMMA NextTrackpadKeeps ==
  ASSUME AdaptersInv, NextTrackpad
  PROVE  AdaptersInv'
<1>1. PICK b : b = DrainTrackpad
  OBVIOUS
<1>2. PICK a : a = [adapter EXCEPT !.raw = b.raw, !.pending = b.out]
  OBVIOUS
<1>3. /\ phase = "forwarding" /\ adapter.pending = <<>> /\ ring # <<>> /\ ring' = <<>> /\ TakePending(a)
      /\ UNCHANGED <<user, capturing, signals, eis, stale, lost>>
  BY <1>1, <1>2 DEF NextTrackpad
<1>4. /\ adapter \in AdapterStates /\ ring \in Seq(Reports) /\ injector \in Ledgers /\ user \in Users
      /\ eis \in Seq(EisEvents) /\ adapter.motion = 0 /\ RemainderOK(adapter)
  BY DEF AdaptersInv, Typing, Coalesced
<1>5. user.device = "trackpad" /\ eis = <<>> /\ adapter.pinch = NoPinch
  BY <1>3 DEF AdaptersInv, OneDevice
<1>6. b.raw \in Raws /\ b.out \in Seq(OutEvents)
  BY <1>1, <1>4, TrackpadIs
<1>7. /\ a \in AdapterStates /\ a.active = adapter.active /\ a.expected = adapter.expected
      /\ a.motion = adapter.motion /\ a.position = adapter.position /\ a.remainder = adapter.remainder
      /\ a.pinch = adapter.pinch /\ a.raw = b.raw /\ a.pending = b.out
  <2>1. PICK c : c = [adapter EXCEPT !.raw = b.raw]
    OBVIOUS
  <2>2. /\ c \in AdapterStates /\ c.active = adapter.active /\ c.expected = adapter.expected
        /\ c.motion = adapter.motion /\ c.position = adapter.position /\ c.remainder = adapter.remainder
        /\ c.pinch = adapter.pinch /\ c.raw = b.raw
    BY <1>4, <1>6, <2>1 DEF AdapterStates
  <2>3. a = [c EXCEPT !.pending = b.out]
    BY <1>2, <2>1
  <2> QED BY <1>6, <2>2, <2>3 DEF AdapterStates
<1>8. RemainderOK(a) /\ a.motion = 0
  BY <1>4, <1>7 DEF RemainderOK
<1>9. eis' \in Seq(EisEvents) /\ ring' \in Seq(Reports) /\ eis' = <<>> /\ DOMAIN eis' = {}
  BY <1>3, <1>4, <1>5
<1>10. capturing \notin {None, adapter.active} /\ eis' = <<>> => FreshUser
  BY <1>3, <1>5 DEF AdaptersInv, FreshCapture
<1>11. ASSUME ~stale
       PROVE  \E m : /\ Leads(a, injector, m)
                     /\ capturing = adapter.active => UserRun(eis', Behind(a, m), UserState)
  <2>1. PICK m : /\ Leads(adapter, injector, m)
                 /\ capturing = adapter.active => UserRun(eis, Behind(adapter, m), UserState)
    BY <1>3, <1>11 DEF AdaptersInv, InHandoff
  <2>2. m = injector
    BY <1>3, <1>4, <2>1, NoEventRuns DEF Leads
  <2>3. LeftCtrl \in injector.pressed <=> adapter.raw.pinch.held
    BY <1>5, <2>1, <2>2, NothingTyped DEF Leads
  <2>4. PICK n \in Ledgers : /\ InjectorRun(b.out, injector, n) /\ OnlyCtrl(injector, n)
                             /\ LeftCtrl \in n.pressed <=> b.raw.pinch.held
    BY <1>1, <1>4, <2>3, TrackpadIs
  <2>5. Leads(a, injector, n)
    BY <1>5, <1>7, <2>4, NothingTyped DEF Leads
  <2>6. Behind(a, n) \in UserStates /\ Behind(adapter, injector) \in UserStates
    BY <1>4, <1>7, <2>4, BehindIs
  <2>7. Behind(a, n) = Behind(adapter, injector)
    <3>1. /\ Behind(a, n).down <=> Behind(adapter, injector).down
          /\ Behind(a, n).fingers = Behind(adapter, injector).fingers
      BY <1>4, <1>7, <2>4, BehindIs DEF OnlyCtrl
    <3>2. Behind(a, n).x = Behind(adapter, injector).x /\ Behind(a, n).moved = Behind(adapter, injector).moved
      BY <1>4, <1>7, <2>4, BehindIs DEF OnlyCtrl
    <3> QED BY <2>6, <3>1, <3>2, SameUser
  <2> QED BY <1>3, <2>1, <2>2, <2>5, <2>7
<1>12. \E t \in Tracks : Tracked(a.raw, t) /\ ReportRun(ring', t, OnTrackpad)
  <2>1. PICK t \in Tracks : Tracked(adapter.raw, t) /\ ReportRun(ring, t, OnTrackpad)
    BY <1>3 DEF AdaptersInv, OnThePad
  <2>2. Tracked(b.raw, OnTrackpad)
    BY <1>1, <1>4, <2>1, TrackpadIs
  <2>3. OnTrackpad \in Tracks
    BY <1>4, UserTyped DEF OnTrackpad
  <2>4. ReportRun(<<>>, OnTrackpad, OnTrackpad)
    BY <2>3, RunEmpty DEF ReportRun
  <2> QED BY <1>3, <1>7, <2>2, <2>3, <2>4
<1> QED BY <1>3, <1>5, <1>7, <1>8, <1>9, <1>10, <1>11, <1>12, TakenKeeps

\* The captured events, when the portal has nothing to say.
LEMMA NextBatchKeeps ==
  ASSUME AdaptersInv, NextBatch
  PROVE  AdaptersInv'
<1>1. PICK b : b = DrainBatch
  OBVIOUS
<1>2. /\ phase = "forwarding" /\ adapter.pending = <<>> /\ ring = <<>> /\ signals = <<>>
      /\ eis # <<>> /\ eis' = <<>> /\ TakePending(b)
      /\ UNCHANGED <<user, capturing, signals, ring, stale, lost>>
  BY <1>1 DEF NextBatch
<1>3. /\ adapter \in AdapterStates /\ ring \in Seq(Reports) /\ injector \in Ledgers /\ user \in Users
      /\ eis \in Seq(EisEvents) /\ adapter.motion = 0 /\ RemainderOK(adapter)
  BY DEF AdaptersInv, Typing, Coalesced
<1>4. /\ user.device # "trackpad" /\ adapter.raw = NoTrackpad
      /\ user.device # "touch" => adapter.pinch = NoPinch /\ \A i \in DOMAIN eis : eis[i] \in PointerEvents
  BY <1>2 DEF AdaptersInv, OneDevice
<1>5. /\ b \in AdapterStates /\ SameCapture(adapter, b) /\ RemainderOK(b) /\ b.motion = 0
      /\ (\A i \in DOMAIN eis : eis[i] \in PointerEvents) => b.pinch = adapter.pinch
  BY <1>1, <1>3, BatchIs
<1>6. b.active = adapter.active /\ b.expected = adapter.expected /\ b.raw = NoTrackpad
  BY <1>4, <1>5 DEF SameCapture
<1>7. user.device # "touch" => b.pinch = NoPinch
  BY <1>4, <1>5
<1>8. capturing = adapter.active
  BY <1>2 DEF AdaptersInv, SignalsMatch, Crossed
<1>9. eis' \in Seq(EisEvents) /\ ring' \in Seq(Reports) /\ DOMAIN eis' = {}
  BY <1>2, <1>3
<1>10. ASSUME ~stale
       PROVE  \E m : /\ Leads(b, injector, m)
                     /\ capturing = adapter.active => UserRun(eis', Behind(b, m), UserState)
  <2>1. PICK m : /\ Leads(adapter, injector, m)
                 /\ capturing = adapter.active => UserRun(eis, Behind(adapter, m), UserState)
    BY <1>2, <1>10 DEF AdaptersInv, InHandoff
  <2>2. m \in Ledgers /\ UserRun(eis, Behind(adapter, m), UserState)
    BY <1>8, <2>1 DEF Leads
  <2>3. Follows(adapter, injector, m)
    BY <1>4, <2>1, NothingTyped DEF Leads, Follows
  <2>4. PICK n \in Ledgers : Follows(b, injector, n) /\ Behind(b, n) = UserState
    BY <1>1, <1>3, <2>2, <2>3, BatchIs
  <2>5. Leads(b, injector, n)
    BY <1>6, <2>4, NothingTyped DEF Leads, Follows
  <2>6. UserState \in UserStates
    BY <1>3, UserTyped DEF UserState
  <2>7. UserRun(<<>>, UserState, UserState)
    BY <2>6, RunEmpty DEF UserRun
  <2> QED BY <1>2, <2>4, <2>5, <2>7
<1>11. \E t \in Tracks : Tracked(b.raw, t) /\ ReportRun(ring', t, OnTrackpad)
  BY <1>2, <1>4, <1>6 DEF AdaptersInv, OnThePad
<1> QED BY <1>2, <1>4, <1>5, <1>6, <1>7, <1>8, <1>9, <1>10, <1>11, TakenKeeps

\* A signal that is read in a handoff is the end of its capture.
LEMMA NextSignalKeeps ==
  ASSUME AdaptersInv, NextSignal
  PROVE  AdaptersInv'
<1>0. /\ user \in Users /\ signals \in Seq(SignalSet)
      /\ phase = "forwarding" /\ signals # <<>> /\ signals' = Tail(signals)
      /\ phase' = IF Head(signals).type = "Deactivated" THEN "signal" ELSE phase
      /\ UNCHANGED <<user, capturing, eis, ring, adapter, injector, lastClick, stale, lost>>
  BY DEF AdaptersInv, Typing, NextSignal
<1>1. signals' \in Seq(SignalSet) /\ 1 \in DOMAIN signals /\ Head(signals) = signals[1]
  BY <1>0
<1>2. IsDeactivated(signals[1])
  BY <1>0 DEF AdaptersInv, SignalsMatch, Crossed
<1>3. phase' = "signal"
  BY <1>0, <1>1, <1>2 DEF IsDeactivated
<1>4. lost
  BY <1>0 DEF AdaptersInv, AnswersOnly, Crossed
<1>5. Typing'
  BY <1>0, <1>1, <1>3 DEF AdaptersInv, Typing, Endings
<1>6. SignalsAlternate'
  BY <1>0, ReadAlternates DEF AdaptersInv
<1>7. OneDevice' /\ Coalesced' /\ RemainderOK(adapter)' /\ DriftBounded' /\ ClickWhereMeant'
  BY <1>0 DEF AdaptersInv, OneDevice, Coalesced, RemainderOK, DriftBounded, ClickWhereMeant
<1>8. phase' \in Endings /\ NoFalseLoss'
  BY <1>0, <1>3, <1>4 DEF NoFalseLoss, Endings
<1> QED BY <1>0, <1>3, <1>4, <1>5, <1>6, <1>7, <1>8, EndedKeeps

-----------------------------------------------------------------------------
(* return_to_local                                                         *)

\* return_to_local keeps the invariant: what is held is released, what waits may go stale.
LEMMA ReturnKeeps ==
  ASSUME AdaptersInv, ReturnToLocal
  PROVE  AdaptersInv'
<1>0. /\ user \in Users /\ signals \in Seq(SignalSet) /\ adapter \in AdapterStates /\ eis \in Seq(EisEvents)
      /\ capturing \in {None, user.activations} /\ user.activations \in Nat /\ adapter.pending \in Seq(OutEvents)
  BY UserTyped, AdapterTyped DEF AdaptersInv, Typing
<1>1. PICK sent \in 0..Len(adapter.pending) :
        /\ adapter' = Released([adapter EXCEPT !.pending = SubSeq(adapter.pending, sent + 1, Len(adapter.pending))])
        /\ stale' = (SubSeq(adapter.pending, sent + 1, Len(adapter.pending)) # <<>>
                       \/ eis # <<>> \/ adapter.pinch # NoPinch)
  BY DEF ReturnToLocal
<1>2. PICK left : left = SubSeq(adapter.pending, sent + 1, Len(adapter.pending))
  OBVIOUS
<1>3. /\ adapter' = Released([adapter EXCEPT !.pending = left])
      /\ stale' = (left # <<>> \/ eis # <<>> \/ adapter.pinch # NoPinch)
  BY <1>1, <1>2
<1>4. left \in Seq(OutEvents)
  BY <1>0, <1>1, <1>2
<1>5. /\ phase = "forwarding" /\ phase' = "waiting" /\ injector' = NothingHeld /\ lastClick' = NoClick
      /\ UNCHANGED <<user, eis, ring, lost>>
  BY DEF ReturnToLocal
<1>6. /\ adapter' \in AdapterStates /\ adapter'.active = None /\ adapter'.expected = adapter.active
      /\ adapter'.position = NoPosition /\ adapter'.remainder = 0 /\ adapter'.motion = 0
      /\ adapter'.pinch = adapter.pinch /\ adapter'.raw = adapter.raw /\ adapter'.pending = left
  <2>1. PICK a : a = [adapter EXCEPT !.pending = left]
    OBVIOUS
  <2>2. /\ a \in AdapterStates /\ a.active = adapter.active /\ a.pending = left
        /\ a.pinch = adapter.pinch /\ a.raw = adapter.raw
    BY <1>0, <1>4, <2>1 DEF AdapterStates
  <2>3. PICK b : b = [a EXCEPT !.position = NoPosition]
    OBVIOUS
  <2>4. /\ b \in AdapterStates /\ b.active = adapter.active /\ b.pending = left
        /\ b.pinch = adapter.pinch /\ b.raw = adapter.raw /\ b.position = NoPosition
    BY <2>2, <2>3 DEF AdapterStates, NoPosition
  <2>5. PICK c : c = [b EXCEPT !.remainder = 0]
    OBVIOUS
  <2>6. /\ c \in AdapterStates /\ c.pending = left
        /\ c.pinch = adapter.pinch /\ c.raw = adapter.raw /\ c.position = NoPosition /\ c.remainder = 0
    BY <2>4, <2>5 DEF AdapterStates
  <2>7. PICK d : d = [c EXCEPT !.active = None]
    OBVIOUS
  <2>8. /\ d \in AdapterStates /\ d.active = None /\ d.pending = left
        /\ d.pinch = adapter.pinch /\ d.raw = adapter.raw /\ d.position = NoPosition /\ d.remainder = 0
    BY <2>6, <2>7, NothingTyped DEF AdapterStates
  <2>9. PICK e : e = [d EXCEPT !.motion = 0]
    OBVIOUS
  <2>10. /\ e \in AdapterStates /\ e.active = None /\ e.pending = left /\ e.motion = 0
         /\ e.pinch = adapter.pinch /\ e.raw = adapter.raw /\ e.position = NoPosition /\ e.remainder = 0
    BY <2>8, <2>9 DEF AdapterStates
  <2>11. adapter.active \in Nat
    BY <1>0, AdapterTyped
  <2>12. adapter' = [e EXCEPT !.expected = adapter.active]
    BY <1>3, <2>1, <2>2, <2>3, <2>5, <2>7, <2>9 DEF Released, ResetMotion
  <2> QED BY <2>10, <2>11, <2>12 DEF AdapterStates
<1>7. adapter.active # None
  BY <1>5 DEF AdaptersInv, SignalsMatch, Crossed
<1>8. /\ capturing = adapter.active =>
           /\ capturing' = None /\ signals = <<>>
           /\ signals' = Append(signals, [type |-> "Deactivated", id |-> capturing])
      /\ capturing # adapter.active => capturing' = capturing /\ signals' = signals
  <2>1. capturing = adapter.active => signals = <<>>
    BY <1>5 DEF AdaptersInv, SignalsMatch, Crossed
  <2>2. CASE capturing = adapter.active
    BY <2>1, <2>2 DEF ReturnToLocal
  <2>3. CASE capturing # adapter.active
    BY <2>3 DEF ReturnToLocal
  <2> QED BY <2>2, <2>3
<1>9. PICK s : s = [type |-> "Deactivated", id |-> capturing]
  OBVIOUS
<1>10. s \in SignalSet /\ IsDeactivated(s) /\ ~IsActivated(s) /\ s.id = capturing
  <2>1. capturing \in Nat
    BY <1>0, NothingTyped
  <2> QED BY <1>9, <2>1 DEF SignalSet, IsActivated, IsDeactivated
<1>11. capturing = adapter.active =>
         /\ signals' \in Seq(SignalSet) /\ DOMAIN signals' = {1} /\ signals'[1] = s /\ Len(signals') = 1
         /\ signals' # <<>>
  <2> SUFFICES ASSUME capturing = adapter.active
               PROVE  /\ signals' \in Seq(SignalSet) /\ DOMAIN signals' = {1} /\ signals'[1] = s
                      /\ Len(signals') = 1 /\ signals' # <<>>
    OBVIOUS
  <2>1. signals' = Append(signals, s) /\ Len(signals) = 0
    BY <1>8, <1>9
  <2>2. /\ signals' \in Seq(SignalSet) /\ Len(signals') = Len(signals) + 1 /\ signals' # <<>>
        /\ DOMAIN signals' = 1..(Len(signals) + 1) /\ signals'[Len(signals) + 1] = s
    BY <1>0, <1>10, <2>1, SignalsAppended
  <2> QED BY <2>1, <2>2
<1>12. Typing'
  <2>1. capturing' \in {None, user'.activations} /\ signals' \in Seq(SignalSet)
    BY <1>0, <1>5, <1>8, <1>11
  <2>2. stale' \in BOOLEAN
    BY <1>3
  <2> QED BY <1>5, <1>6, <2>1, <2>2, NothingTyped DEF AdaptersInv, Typing
<1>13. SignalsAlternate'
  <2>1. CASE capturing = adapter.active
    <3>1. \A i \in DOMAIN signals' : i = 1 /\ i + 1 \notin DOMAIN signals' /\ ~IsActivated(signals'[i])
      BY <1>10, <1>11, <2>1
    <3> QED BY <3>1 DEF SignalsAlternate
  <2>2. CASE capturing # adapter.active
    BY <1>5, <1>8, <2>2 DEF AdaptersInv, SignalsAlternate
  <2> QED BY <2>1, <2>2
<1>14. SignalsMatch'
  <2>1. CASE capturing = adapter.active
    BY <1>5, <1>8, <1>10, <1>11, <2>1 DEF SignalsMatch, Crossed, LastSignal
  <2>2. CASE capturing # adapter.active
    BY <1>5, <1>8, <2>2 DEF AdaptersInv, SignalsMatch, Crossed, LastSignal, Announced
  <2> QED BY <2>1, <2>2
<1>15. AnswersOnly'
  <2>1. CASE capturing = adapter.active
    BY <1>5, <1>6, <1>7, <1>10, <1>11, <2>1 DEF AnswersOnly, Crossed
  <2>2. CASE capturing # adapter.active
    <3>1. lost
      BY <1>5, <2>2 DEF AdaptersInv, SignalsMatch, AnswersOnly, Crossed
    <3> QED BY <1>5, <3>1 DEF AnswersOnly
  <2> QED BY <2>1, <2>2
<1>16. OneDevice' /\ Coalesced' /\ RemainderOK(adapter)' /\ DriftBounded'
  BY <1>5, <1>6 DEF AdaptersInv, OneDevice, Coalesced, RemainderOK, DriftBounded
<1>17. AdapterClean'
  BY <1>3, <1>5, <1>6 DEF AdapterClean
<1>18. capturing' # None /\ eis = <<>> => FreshUser
  BY <1>5, <1>8 DEF AdaptersInv, FreshCapture
<1>19. FreshCapture'
  BY <1>5, <1>18 DEF FreshCapture, FreshUser
<1>20. SocketBefore'
  <2>1. UserState' = UserState
    BY <1>5 DEF UserState
  <2>2. ASSUME ~stale', capturing' # None
        PROVE  UserRun(<<>>, Behind(adapter', NothingHeld), UserState)
    <3>1. FreshUser
      BY <1>3, <1>18, <2>2
    <3>2. /\ UserState \in UserStates /\ UserState.down = user.down /\ UserState.fingers = user.fingers
          /\ UserState.x = user.x /\ UserState.moved = user.rounded
      BY <1>0, UserTyped DEF UserState
    <3>3. user.down = FALSE /\ user.fingers = {} /\ user.x = NoPosition /\ user.rounded = 0
      BY <3>1 DEF FreshUser
    <3> QED BY <1>6, <3>2, <3>3, CleanBehind
  <2>3. ~stale' => eis = <<>>
    BY <1>3
  <2> QED BY <1>5, <2>1, <2>2, <2>3 DEF SocketBefore
<1>21. InHandoff' /\ OnThePad'
  BY <1>5 DEF InHandoff, OnThePad
<1>22. ClickWhereMeant' /\ NoFalseLoss'
  BY <1>5 DEF ClickWhereMeant, NoFalseLoss, NoClick, Near, Nowhere
<1> QED BY <1>12, <1>13, <1>14, <1>15, <1>16, <1>17, <1>19, <1>20, <1>21, <1>22 DEF AdaptersInv

\* Only an activation that the compositor has ended is refused.
LEMMA ReturnRefusedKeeps ==
  ASSUME AdaptersInv, ReturnRefused
  PROVE  AdaptersInv'
<1>1. /\ phase = "forwarding" /\ capturing # adapter.active /\ phase' = "release" /\ injector' = NothingHeld
      /\ UNCHANGED <<user, capturing, signals, eis, ring, adapter, lastClick, stale, lost>>
  BY DEF ReturnRefused
<1>2. lost
  BY <1>1 DEF AdaptersInv, SignalsMatch, AnswersOnly, Crossed
<1>3. Typing'
  BY <1>1, NothingTyped DEF AdaptersInv, Typing, Endings
<1>4. SignalsAlternate' /\ OneDevice' /\ Coalesced' /\ RemainderOK(adapter)' /\ DriftBounded' /\ ClickWhereMeant'
  BY <1>1 DEF AdaptersInv, SignalsAlternate, OneDevice, Coalesced, RemainderOK, DriftBounded, ClickWhereMeant
<1>5. phase' \in Endings /\ NoFalseLoss'
  BY <1>1, <1>2 DEF NoFalseLoss, Endings
<1> QED BY <1>1, <1>2, <1>3, <1>4, <1>5, EndedKeeps

\* A read that fails ends the session, for a cause of its own.
LEMMA ReadFailsKeeps ==
  ASSUME AdaptersInv, ReadFails
  PROVE  AdaptersInv'
<1>1. /\ phase' = "read" /\ injector' = NothingHeld
      /\ UNCHANGED <<user, capturing, signals, eis, ring, adapter, lastClick, stale, lost>>
  BY DEF ReadFails
<1>2. Typing'
  BY <1>1, NothingTyped DEF AdaptersInv, Typing, Endings
<1>3. /\ SignalsAlternate' /\ OneDevice' /\ Coalesced' /\ RemainderOK(adapter)' /\ DriftBounded'
      /\ ClickWhereMeant'
  BY <1>1 DEF AdaptersInv, SignalsAlternate, OneDevice, Coalesced, RemainderOK, DriftBounded, ClickWhereMeant
<1>4. phase' \in Endings /\ NoFalseLoss'
  BY <1>1 DEF NoFalseLoss, Endings
<1> QED BY <1>1, <1>2, <1>3, <1>4, EndedKeeps

-----------------------------------------------------------------------------
(* The invariant holds                                                     *)

\* Every call of the adapter keeps the invariant.
LEMMA AdapterKeeps ==
  ASSUME AdaptersInv, Adapter
  PROVE  AdaptersInv'
BY WaitForActivationKeeps, BeginsKeeps, ReturnKeeps, ReturnRefusedKeeps, NextPendingKeeps,
   NextTrackpadKeeps, NextSignalKeeps, NextBatchKeeps, ReadFailsKeeps DEF Adapter

\* A step of the environment alone.
LEMMA StutterKeeps ==
  ASSUME AdaptersInv, UNCHANGED vars
  PROVE  AdaptersInv'
<1>1. UNCHANGED <<user, capturing, signals, eis, ring, adapter, phase, injector, lastClick, stale, lost>>
  BY DEF vars
<1>2. UserState' = UserState /\ OnTrackpad' = OnTrackpad /\ Overtaken' = Overtaken
  BY <1>1 DEF UserState, OnTrackpad, Overtaken
<1>3. Typing' /\ SignalsAlternate' /\ SignalsMatch' /\ AnswersOnly'
  BY <1>1 DEF AdaptersInv, Typing, SignalsAlternate, SignalsMatch, AnswersOnly, Crossed, Announced, LastSignal
<1>4. OneDevice' /\ Coalesced' /\ RemainderOK(adapter)' /\ DriftBounded' /\ AdapterClean' /\ FreshCapture'
  BY <1>1 DEF AdaptersInv, OneDevice, Coalesced, RemainderOK, DriftBounded, AdapterClean, FreshCapture, FreshUser
<1>5. SocketBefore' /\ InHandoff' /\ OnThePad'
  BY <1>1, <1>2 DEF AdaptersInv, SocketBefore, InHandoff, OnThePad
<1>6. ClickWhereMeant' /\ NoFalseLoss'
  BY <1>1 DEF AdaptersInv, ClickWhereMeant, NoFalseLoss
<1> QED BY <1>3, <1>4, <1>5, <1>6 DEF AdaptersInv

\* The inductive invariant of next_input, wait_for_left_activation and return_to_local:
\* what is queued, drained or in the kernel leads from the remote desktop to the user.
THEOREM QueuesLeadToUser == Spec => []AdaptersInv
<1>1. AdaptersInv /\ [Next]_vars => AdaptersInv'
  BY UserKeeps, PortalActivatesKeeps, PortalDeactivatesKeeps, AdapterKeeps, StutterKeeps DEF Next
<1> QED BY <1>1, AdaptersInit, PTL DEF Spec

-----------------------------------------------------------------------------
(* What the runs check                                                     *)

\* A pinch that the trackpad's tracker holds has fingers on the trackpad, or
\* reports of them are still to be read.
LEMMA PinchHasFingers ==
  ASSUME AdaptersInv, phase = "forwarding", adapter.raw.pinch.held
  PROVE  FingerOnTrackpad
<1> SUFFICES ASSUME ring = <<>> PROVE \E s \in Slots : user.slots[s] # None
  BY DEF FingerOnTrackpad
<1>1. PICK t \in Tracks : Tracked(adapter.raw, t) /\ ReportRun(ring, t, OnTrackpad)
  BY DEF AdaptersInv, OnThePad
<1>2. OnTrackpad = t
  BY <1>1, RunEmpty DEF ReportRun
<1>3. PICK c : c \in adapter.raw.pinch.contacts
  BY <1>1 DEF Tracked
<1>4. PICK s \in Slots : adapter.raw.contacts[s].forwarded /\ adapter.raw.contacts[s].id = c
  BY <1>1, <1>3 DEF Tracked
<1>5. t.slots[s] # None
  BY <1>1, <1>4 DEF Tracked
<1> QED BY <1>2, <1>5 DEF OnTrackpad

\* What the three runs lead to is what the user holds.
LEMMA HeldIs ==
  ASSUME AdaptersInv
  PROVE  HeldMatchesUser
<1> SUFFICES ASSUME phase = "forwarding", ~stale
             PROVE  /\ capturing = adapter.active => (EffectiveButton <=> user.down)
                    /\ Effective(LeftCtrl, adapter.pending) <=> adapter.pinch.held \/ adapter.raw.pinch.held
                    /\ adapter.raw.pinch.held => FingerOnTrackpad
  BY DEF HeldMatchesUser
<1>1. eis \in Seq(EisEvents) /\ adapter \in AdapterStates /\ adapter.pending \in Seq(OutEvents)
  BY AdapterTyped DEF AdaptersInv, Typing
<1>2. PICK m : /\ Leads(adapter, injector, m)
               /\ capturing = adapter.active => UserRun(eis, Behind(adapter, m), UserState)
  BY DEF AdaptersInv, InHandoff
<1>3. /\ m \in Ledgers /\ InjectorRun(adapter.pending, injector, m)
      /\ LeftCtrl \in m.pressed <=> adapter.pinch.held \/ adapter.raw.pinch.held
  BY <1>2 DEF Leads
<1>4. UserState.down = user.down
  BY DEF UserState
<1>5. capturing = adapter.active => (EffectiveButton <=> UserState.down)
  BY <1>1, <1>2, <1>3, EffectiveButtonIs
<1>6. LeftCtrl \in Controls
  BY DEF Controls
<1>7. Effective(LeftCtrl, adapter.pending) <=> LeftCtrl \in m.pressed
  BY <1>1, <1>3, <1>6, EffectiveIs
<1> QED BY <1>3, <1>4, <1>5, <1>7, PinchHasFingers

\* While a handoff runs that nothing stale was left to, what the remote desktop
\* is about to hold is what the user holds (drain_batch, take_pending and the
\* two pinch trackers, seamless.rs:401-650 and 755-980).
THEOREM RemoteHoldsWhatUserHolds == Spec => []HeldMatchesUser
BY QueuesLeadToUser, HeldIs, PTL

\* The adapter's own release never ends a session: not the Deactivated signal
\* that answers it (is_expected_release_deactivation, seamless.rs:661, read at 913
\* and 959), not its refusal, unless the compositor has ended a capture; and no
\* touch of a handoff that nothing stale was left to is refused.  Reads that fail
\* and motion beyond the injector's limit do end sessions, and are not denied.
THEOREM OwnReleaseNeverEnds == Spec => []NoFalseLoss
<1>1. AdaptersInv => NoFalseLoss
  BY DEF AdaptersInv
<1> QED BY <1>1, QueuesLeadToUser, PTL

\* A button is pressed where the user pressed it, to half a pixel and half a pixel
\* more for each fractional relative motion since the crossing, which is rounded
\* by itself (seamless.rs:771-773), however the motion before it was coalesced
\* (queue_motion and flush_motion, seamless.rs:743-753; the comment at 853).
THEOREM ClicksWhereMeant == Spec => []ClickWhereMeant
<1>1. AdaptersInv => ClickWhereMeant
  BY DEF AdaptersInv
<1> QED BY <1>1, QueuesLeadToUser, PTL
=============================================================================
