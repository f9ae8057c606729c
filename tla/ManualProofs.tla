----------------------------- MODULE ManualProofs -----------------------------
(***************************************************************************)
(* Theorems about the manual mode, for any devices and keys, any capacity  *)
(* of the queue and of the connection, and any number of faults:           *)
(*                                                                         *)
(*   TypeCorrect  the types and the bounds of the queue and the connection *)
(*   NoKeySticks  what the remote desktop holds down the user holds down,  *)
(*                or its release is on the way, while the session lasts    *)
(*                                                                         *)
(* An event passes through five stages: the kernel's buffer of its device, *)
(* the batch of the worker, the queue, the record being sent and the       *)
(* connection, the report of the sink.  The invariant says of every press  *)
(* on the way that a release of the same key follows it: in its own stage, *)
(* in a stage behind it, or in the hand of the user who still holds it.    *)
(***************************************************************************)
EXTENDS Manual, TLAPS

AllKeys == UNION {Keys[d] : d \in Devices}

Up(k) == Key(k, FALSE)
Down(k) == Key(k, TRUE)

KeyEvents == {Key(k, down) : k \in AllKeys, down \in BOOLEAN}
Events == KeyEvents \cup {Syn}
Records == Events \cup {Heartbeat, ReleaseAll, Goodbye}

Typing ==
  /\ TypeOK
  /\ physical \in [Devices -> SUBSET AllKeys]
  /\ kernel \in [Devices -> Seq(Events)]
  /\ batch \in [Devices -> Seq(Events)]
  /\ queue \in Seq(Events)
  /\ out \in Events \cup {Heartbeat}
  /\ wire \in Seq(Records)
  /\ pending \in Seq(KeyEvents)
  /\ held \in SUBSET AllKeys

UpIn(s, k) == \E j \in DOMAIN s : s[j] = Up(k)

\* Every press of k in s is followed by a release in s, or by what comes after.
Answered(s, k, after) ==
  \A i \in DOMAIN s : s[i] = Down(k) => after \/ \E j \in DOMAIN s : j > i /\ s[j] = Up(k)

\* A release of k that comes after everything in the stage the name says.
AfterBatch(d, k) == k \in physical[d] \/ UpIn(kernel[d], k)
AfterQueue(k) == \E d \in Devices : AfterBatch(d, k) \/ UpIn(batch[d], k)
AfterOut(k) == AfterQueue(k) \/ UpIn(queue, k)
Sending(e) == pc = "sending" /\ out = e
AfterWire(k) == AfterOut(k) \/ Sending(Up(k))
AfterReport(k) == AfterWire(k) \/ UpIn(wire, k)
AfterHeld(k) == AfterReport(k) \/ UpIn(pending, k)

Captured(d, k) ==
  /\ Answered(kernel[d], k, k \in physical[d])
  /\ Answered(batch[d], k, AfterBatch(d, k))

Carried(k) ==
  /\ Answered(queue, k, AfterQueue(k))
  /\ Sending(Down(k)) => AfterOut(k)
  /\ Answered(wire, k, AfterWire(k))
  /\ Answered(pending, k, AfterReport(k))
  /\ k \in held => AfterHeld(k)

\* Nothing has been lost yet, and the loop has not ended.
Session == ~stop /\ ~cut /\ ~lost /\ pc \in {"forwarding", "sending"}

Gone == held = {} /\ pending = <<>> /\ wire = <<>>

\* The inductive invariant.
ManualInv ==
  /\ Typing
  /\ \A d \in Devices, k \in AllKeys : Captured(d, k)
  /\ Session => \A k \in AllKeys : Carried(k)
  /\ ~running => Gone

-----------------------------------------------------------------------------
(* Facts about the stages *)

\* Records of different kinds are different.
LEMMA KindsDiffer ==
  ASSUME NEW k
  PROVE  /\ Up(k) # Down(k)
         /\ Up(k) \notin {Syn, Heartbeat, ReleaseAll, Goodbye}
         /\ Down(k) \notin {Syn, Heartbeat, ReleaseAll, Goodbye}
<1>1. /\ Up(k).kind = "key" /\ Down(k).kind = "key" /\ ~Up(k).down /\ Down(k).down
  BY DEF Up, Down, Key
<1>2. /\ Syn.kind = "syn" /\ Heartbeat.kind = "heartbeat"
      /\ ReleaseAll.kind = "release" /\ Goodbye.kind = "goodbye"
  BY DEF Syn, Heartbeat, ReleaseAll, Goodbye
<1> QED BY <1>1, <1>2

\* An empty stage has nothing in it.
LEMMA EmptyStage ==
  ASSUME NEW k, NEW after
  PROVE  ~UpIn(<<>>, k) /\ Answered(<<>>, k, after)
BY DEF UpIn, Answered

\* What follows a stage may be weakened.
LEMMA LaterRelease ==
  ASSUME NEW s, NEW k, NEW before, NEW after, Answered(s, k, before), before => after
  PROVE  Answered(s, k, after)
BY DEF Answered

\* An event goes into a stage.
LEMMA EventIn ==
  ASSUME NEW S, NEW s \in Seq(S), NEW e \in S, NEW k, NEW before, NEW after,
         Answered(s, k, before), before => after \/ e = Up(k), e = Down(k) => after
  PROVE  /\ Answered(Append(s, e), k, after)
         /\ UpIn(Append(s, e), k) <=> UpIn(s, k) \/ e = Up(k)
<1>1. DOMAIN Append(s, e) = 1..(Len(s) + 1) /\ DOMAIN s = 1..Len(s) /\ Len(s) \in Nat
  OBVIOUS
<1>2. Append(s, e)[Len(s) + 1] = e /\ \A i \in 1..Len(s) : Append(s, e)[i] = s[i]
  OBVIOUS
<1>3. UpIn(Append(s, e), k) <=> UpIn(s, k) \/ e = Up(k)
  BY <1>1, <1>2 DEF UpIn
<1>4. ASSUME NEW i \in 1..(Len(s) + 1), Append(s, e)[i] = Down(k), ~after
      PROVE  \E j \in 1..(Len(s) + 1) : j > i /\ Append(s, e)[j] = Up(k)
  <2>1. i \in 1..Len(s) /\ s[i] = Down(k)
    BY <1>1, <1>2, <1>4
  <2>2. before \/ \E j \in 1..Len(s) : j > i /\ s[j] = Up(k)
    BY <2>1, <1>1 DEF Answered
  <2>3. CASE before
    <3>1. e = Up(k)
      BY <2>3, <1>4
    <3> QED BY <3>1, <2>1, <1>1, <1>2
  <2>4. CASE \E j \in 1..Len(s) : j > i /\ s[j] = Up(k)
    BY <2>4, <1>1, <1>2
  <2> QED BY <2>2, <2>3, <2>4
<1>5. Answered(Append(s, e), k, after)
  BY <1>1, <1>4 DEF Answered
<1> QED BY <1>3, <1>5

\* The first event leaves a stage.
LEMMA EventOut ==
  ASSUME NEW S, NEW s \in Seq(S), s # <<>>, NEW k, NEW after, Answered(s, k, after)
  PROVE  /\ Head(s) \in S /\ Tail(s) \in Seq(S)
         /\ Answered(Tail(s), k, after)
         /\ UpIn(s, k) <=> Head(s) = Up(k) \/ UpIn(Tail(s), k)
         /\ Head(s) = Down(k) => after \/ UpIn(Tail(s), k)
<1>1. /\ Len(s) \in Nat /\ Len(s) > 0 /\ DOMAIN s = 1..Len(s)
      /\ Head(s) = s[1] /\ Head(s) \in S /\ Tail(s) \in Seq(S)
      /\ DOMAIN Tail(s) = 1..(Len(s) - 1)
      /\ \A i \in 1..(Len(s) - 1) : Tail(s)[i] = s[i + 1]
  OBVIOUS
<1>2. ASSUME NEW j \in 1..Len(s), j > 1
      PROVE  j - 1 \in 1..(Len(s) - 1) /\ Tail(s)[j - 1] = s[j]
  BY <1>1, <1>2
<1>3. UpIn(s, k) <=> Head(s) = Up(k) \/ UpIn(Tail(s), k)
  <2>1. ASSUME UpIn(s, k), Head(s) # Up(k)
        PROVE  UpIn(Tail(s), k)
    <3>1. PICK j \in 1..Len(s) : s[j] = Up(k)
      BY <2>1, <1>1 DEF UpIn
    <3>2. j > 1
      BY <3>1, <2>1, <1>1
    <3> QED BY <3>1, <3>2, <1>1, <1>2 DEF UpIn
  <2>2. ASSUME UpIn(Tail(s), k)
        PROVE  UpIn(s, k)
    <3>1. PICK j \in 1..(Len(s) - 1) : Tail(s)[j] = Up(k)
      BY <2>2, <1>1 DEF UpIn
    <3> QED BY <3>1, <1>1 DEF UpIn
  <2>3. Head(s) = Up(k) => UpIn(s, k)
    BY <1>1 DEF UpIn
  <2> QED BY <2>1, <2>2, <2>3
<1>4. ASSUME NEW i \in 1..Len(s), s[i] = Down(k), ~after
      PROVE  \E j \in 1..(Len(s) - 1) : j > i - 1 /\ Tail(s)[j] = Up(k)
  <2>1. PICK j \in 1..Len(s) : j > i /\ s[j] = Up(k)
    BY <1>4, <1>1 DEF Answered
  <2>2. j > 1
    BY <2>1
  <2>3. j - 1 \in 1..(Len(s) - 1) /\ Tail(s)[j - 1] = Up(k) /\ j - 1 > i - 1
    BY <2>1, <2>2, <1>1, <1>2
  <2> QED BY <2>3
<1>5. Answered(Tail(s), k, after)
  <2>1. ASSUME NEW i \in 1..(Len(s) - 1), Tail(s)[i] = Down(k), ~after
        PROVE  \E j \in 1..(Len(s) - 1) : j > i /\ Tail(s)[j] = Up(k)
    <3>1. i + 1 \in 1..Len(s) /\ s[i + 1] = Down(k)
      BY <2>1, <1>1
    <3>2. PICK j \in 1..(Len(s) - 1) : j > (i + 1) - 1 /\ Tail(s)[j] = Up(k)
      BY <3>1, <2>1, <1>4
    <3> QED BY <3>2
  <2> QED BY <2>1, <1>1 DEF Answered
<1>6. Head(s) = Down(k) => after \/ UpIn(Tail(s), k)
  <2>1. ASSUME Head(s) = Down(k), ~after
        PROVE  UpIn(Tail(s), k)
    <3>1. 1 \in 1..Len(s) /\ s[1] = Down(k)
      BY <1>1, <2>1
    <3>2. PICK j \in 1..(Len(s) - 1) : Tail(s)[j] = Up(k)
      BY <3>1, <2>1, <1>4
    <3> QED BY <3>2, <1>1 DEF UpIn
  <2> QED BY <2>1
<1> QED BY <1>1, <1>3, <1>5, <1>6

\* A report takes effect: what it leaves pressed was held and is not named, or
\* is pressed last; in neither case does the report end with its release.
LEMMA ReportTakesEffect ==
  ASSUME NEW s \in Seq(KeyEvents), NEW k, NEW keys, NEW after,
         Answered(s, k, after), k \in keys => after \/ UpIn(s, k),
         k \in (keys \ Names(s)) \cup Presses(s)
  PROVE  after
<1>1. DOMAIN s = 1..Len(s) /\ Len(s) \in Nat /\ \A i \in DOMAIN s : s[i] \in KeyEvents
  OBVIOUS
<1>2. \A i \in DOMAIN s : s[i] = Up(k) => s[i].code = k
  BY DEF Up, Key
<1>3. CASE k \in keys \ Names(s)
  <2>1. ~UpIn(s, k)
    BY <1>2, <1>3 DEF UpIn, Names
  <2> QED BY <2>1, <1>3
<1>4. CASE k \in Presses(s)
  <2>1. PICK j \in DOMAIN s : /\ s[j].code = k /\ s[j].down
                               /\ \A l \in DOMAIN s : l > j => s[l].code # k
    BY <1>4 DEF Presses
  <2>2. s[j] = Down(k)
    <3>1. PICK c \in AllKeys, b \in BOOLEAN : s[j] = Key(c, b)
      BY <1>1 DEF KeyEvents
    <3> QED BY <3>1, <2>1 DEF Key, Down
  <2> QED BY <2>1, <2>2, <1>2 DEF Answered
<1> QED BY <1>3, <1>4

-----------------------------------------------------------------------------
(* Types *)

\* An event of a key.
LEMMA KeyTyped ==
  ASSUME NEW k \in AllKeys, NEW down \in BOOLEAN
  PROVE  Key(k, down) \in KeyEvents /\ Key(k, down) \in Events
<1>1. \E c \in AllKeys, b \in BOOLEAN : Key(k, down) = Key(c, b)
  BY Zenon
<1>2. Key(k, down) \in KeyEvents
  BY <1>1 DEF KeyEvents
<1> QED BY <1>2 DEF Events

\* The keys of a report.
LEMMA ReportTyped ==
  ASSUME NEW s \in Seq(KeyEvents)
  PROVE  Names(s) \subseteq AllKeys /\ Presses(s) \subseteq AllKeys
<1>1. \A i \in DOMAIN s : s[i] \in KeyEvents
  OBVIOUS
<1>2. \A e \in KeyEvents : e.code \in AllKeys
  BY DEF KeyEvents, Key
<1> QED BY <1>1, <1>2 DEF Names, Presses

\* The initial state is typed.
LEMMA TypingInit == Init => Typing
<1> SUFFICES ASSUME Init PROVE Typing
  OBVIOUS
<1>1. TypeOK
  <2>1. Len(<<>>) = 0 /\ 0 \in 0..MaxEvents /\ 0 \in 0..MaxFaults /\ 0 <= Capacity /\ 0 <= Window
    BY ManualAssumption
  <2>2. worker \in [Devices -> {"running", "ended"}]
    BY DEF Init
  <2> QED BY <2>1, <2>2 DEF Init, TypeOK
<1>2. \A S : <<>> \in Seq(S)
  OBVIOUS
<1> QED BY <1>1, <1>2 DEF Init, Typing, Events, Records

\* Every step keeps the types.
LEMMA TypingStep == Typing /\ [Next]_vars => Typing'
<1> SUFFICES ASSUME Typing, [Next]_vars PROVE Typing'
  OBVIOUS
<1> USE DEF capture, host, client, history
<1>0. /\ physical \in [Devices -> SUBSET AllKeys] /\ worker \in [Devices -> {"running", "ended"}]
      /\ kernel \in [Devices -> Seq(Events)] /\ batch \in [Devices -> Seq(Events)]
      /\ queue \in Seq(Events) /\ wire \in Seq(Records) /\ pending \in Seq(KeyEvents)
      /\ Len(queue) <= Capacity /\ Len(wire) <= Window
      /\ Capacity \in Nat \ {0} /\ Window \in Nat \ {0} /\ MaxEvents \in Nat /\ MaxFaults \in Nat
      /\ out \in Events \cup {Heartbeat}
      /\ pc \in {"forwarding", "sending", "releasing", "leaving", "joining", "ended"}
      /\ stop \in BOOLEAN /\ graceful \in BOOLEAN /\ cut \in BOOLEAN
      /\ running \in BOOLEAN /\ hung \in BOOLEAN
      /\ events \in 0..MaxEvents /\ faults \in 0..MaxFaults
      /\ held \in SUBSET AllKeys
      /\ \A S : <<>> \in Seq(S) /\ Len(<<>>) = 0
  BY ManualAssumption DEF Typing, TypeOK
<1>a. ASSUME NEW d \in Devices, WorkerEnds(d)
      PROVE  /\ worker' \in [Devices -> {"running", "ended"}]
             /\ kernel' \in [Devices -> Seq(Events)] /\ batch' \in [Devices -> Seq(Events)]
  BY <1>0, <1>a DEF WorkerEnds
<1>b. ASSUME NEW record \in Records, Written(record)
      PROVE  wire' \in Seq(Records) /\ Len(wire') <= Window
  <2>1. CASE UNCHANGED wire
    BY <2>1, <1>0
  <2>2. CASE Len(wire) < Window /\ wire' = Append(wire, record)
    <3>1. Append(wire, record) \in Seq(Records) /\ Len(Append(wire, record)) = Len(wire) + 1
      BY <1>0
    <3>2. Len(wire) \in Nat /\ Window \in Nat
      BY <1>0
    <3> QED BY <3>1, <3>2, <2>2
  <2> QED BY <2>1, <2>2, <1>b DEF Written
<1>c. ASSUME Ends
      PROVE  /\ running' \in BOOLEAN /\ hung' \in BOOLEAN /\ pending' \in Seq(KeyEvents) /\ held' \in SUBSET AllKeys
             /\ wire' \in Seq(Records) /\ Len(wire') <= Window
  <2>1. running' = FALSE /\ hung' = hung /\ pending' = <<>> /\ held' = {} /\ wire' = <<>>
    BY <1>c DEF Ends, Released
  <2>2. <<>> \in Seq(KeyEvents) /\ <<>> \in Seq(Records) /\ Len(<<>>) = 0 /\ 0 <= Window
    BY ManualAssumption
  <2> QED BY <2>1, <2>2, <1>0
<1>d. /\ Syn \in Events /\ Events \subseteq Records
      /\ {Heartbeat, ReleaseAll, Goodbye} \subseteq Records
  BY DEF Events, Records
<1>1. ASSUME NEW d \in Devices, NEW k \in Keys[d], UserKey(d, k)
      PROVE  Typing'
  <2>1. k \in AllKeys
    BY DEF AllKeys
  <2>2. physical' \in [Devices -> SUBSET AllKeys]
    BY <1>0, <1>1, <2>1 DEF UserKey
  <2>3. Key(k, k \notin physical[d]) \in Events
    <3>1. CASE k \in physical[d]
      <4>1. Key(k, k \notin physical[d]) = Key(k, FALSE)
        BY <3>1 DEF Key
      <4> QED BY <4>1, <2>1, KeyTyped
    <3>2. CASE k \notin physical[d]
      <4>1. Key(k, k \notin physical[d]) = Key(k, TRUE)
        BY <3>2 DEF Key
      <4> QED BY <4>1, <2>1, KeyTyped
    <3> QED BY <3>1, <3>2
  <2>4. kernel' \in [Devices -> Seq(Events)]
    <3>1. <<Key(k, k \notin physical[d]), Syn>> \in Seq(Events)
      BY <2>3, <1>d
    <3>2. kernel[d] \o <<Key(k, k \notin physical[d]), Syn>> \in Seq(Events)
      BY <3>1, <1>0
    <3> QED BY <3>2, <1>0, <1>1 DEF UserKey
  <2> QED BY <2>2, <2>4, <1>0, <1>1 DEF UserKey, Typing, TypeOK
<1>2. ASSUME NEW d \in Devices, Fetch(d)
      PROVE  Typing'
  BY <1>0, <1>2 DEF Fetch, Typing, TypeOK
<1>3. ASSUME NEW d \in Devices, StopSeen(d)
      PROVE  Typing'
  BY <1>0, <1>3, <1>a DEF StopSeen, Typing, TypeOK
<1>4. ASSUME NEW d \in Devices, Enqueue(d)
      PROVE  Typing'
  <2>1. CASE Full
    BY <1>0, <1>4, <1>a, <2>1 DEF Enqueue, Overflow, Typing, TypeOK
  <2>2. CASE ~Full
    <3>1. /\ queue' = Append(queue, Head(batch[d]))
          /\ batch' = [batch EXCEPT ![d] = Tail(@)]
          /\ batch[d] # <<>>
          /\ UNCHANGED <<stop, worker, kernel, physical, host, wire, cut, client, history>>
      BY <1>4, <2>2 DEF Enqueue
    <3>2. Head(batch[d]) \in Events /\ Tail(batch[d]) \in Seq(Events)
      BY <3>1, <1>0
    <3>3. queue' \in Seq(Events) /\ Len(queue') <= Capacity
      BY <3>1, <3>2, <2>2, <1>0 DEF Full
    <3>4. batch' \in [Devices -> Seq(Events)]
      BY <3>1, <3>2, <1>0
    <3> QED BY <3>1, <3>3, <3>4, <1>0 DEF Typing, TypeOK
  <2> QED BY <2>1, <2>2
<1>5. ASSUME NEW d \in Devices, DeviceLost(d)
      PROVE  Typing'
  <2>1. faults' \in 0..MaxFaults
    BY <1>0, <1>5 DEF DeviceLost
  <2> QED BY <1>0, <1>5, <1>a, <2>1 DEF DeviceLost, Typing, TypeOK
<1>6. ASSUME Take
      PROVE  Typing'
  <2>1. Head(queue) \in Events /\ Tail(queue) \in Seq(Events) /\ Len(Tail(queue)) <= Capacity
    BY <1>0, <1>6 DEF Take
  <2>2. out' \in Events \cup {Heartbeat}
    BY <1>0, <1>6, <2>1 DEF Take
  <2> QED BY <1>0, <1>6, <2>1, <2>2 DEF Take, HostElsewhere, Typing, TypeOK
<1>7. ASSUME SendsHeartbeat \/ Disconnected
      PROVE  Typing'
  BY <1>0, <1>7 DEF SendsHeartbeat, Disconnected, HostElsewhere, Typing, TypeOK
<1>8. ASSUME Sent
      PROVE  Typing'
  <2>1. wire' \in Seq(Records) /\ Len(wire') <= Window
    BY <1>8, <1>b, <1>d, <1>0 DEF Sent
  <2> QED BY <1>0, <1>8, <2>1 DEF Sent, HostElsewhere, Typing, TypeOK
<1>9. ASSUME SendRelease \/ SendGoodbye
      PROVE  Typing'
  <2>1. wire' \in Seq(Records) /\ Len(wire') <= Window
    BY <1>9, <1>b, <1>d DEF SendRelease, SendGoodbye
  <2> QED BY <1>0, <1>9, <2>1 DEF SendRelease, SendGoodbye, HostElsewhere, Typing, TypeOK
<1>10. ASSUME WriteFails
       PROVE  Typing'
  BY <1>0, <1>10 DEF WriteFails, HostElsewhere, Typing, TypeOK
<1>11. ASSUME Join
       PROVE  Typing'
  BY <1>0, <1>11 DEF Join, Shutdown, Typing, TypeOK
<1>12. ASSUME Receive
       PROVE  Typing'
  <2>1. Head(wire) \in Records /\ Tail(wire) \in Seq(Records) /\ Len(Tail(wire)) <= Window
    BY <1>0, <1>12 DEF Receive
  <2>2. CASE Ends
    BY <1>0, <1>12, <1>c, <2>2 DEF Receive, ClientElsewhere, Typing, TypeOK
  <2>3. CASE wire' = Tail(wire) /\ UNCHANGED <<running, hung>>
    <3>1. pending' \in Seq(KeyEvents)
      <4>1. CASE Head(wire).kind \in {"key", "syn"} /\ Inject(Head(wire))
        <5>1. Head(wire) # Syn => Head(wire) \in KeyEvents
          BY <2>1, <4>1 DEF Records, Events, Heartbeat, ReleaseAll, Goodbye
        <5>2. CASE Head(wire) = Syn
          BY <5>2, <4>1, <1>0 DEF Inject
        <5>3. CASE Head(wire) # Syn
          <6>1. pending' = Append(pending, Head(wire))
            BY <5>3, <4>1 DEF Inject
          <6> QED BY <6>1, <5>1, <5>3, <1>0
        <5> QED BY <5>2, <5>3
      <4>2. CASE UNCHANGED pending
        BY <4>2, <1>0
      <4>3. CASE Released
        BY <4>3, <1>0 DEF Released
      <4>4. CASE Ends
        BY <4>4, <1>c
      <4> QED BY <1>12, <4>1, <4>2, <4>3, <4>4 DEF Receive
    <3>2. held' \in SUBSET AllKeys
      <4>1. CASE Inject(Head(wire))
        <5>1. Names(pending) \subseteq AllKeys /\ Presses(pending) \subseteq AllKeys
          BY <1>0, ReportTyped
        <5> QED BY <5>1, <4>1, <1>0 DEF Inject
      <4>2. CASE UNCHANGED held
        BY <4>2, <1>0
      <4>3. CASE Released
        BY <4>3 DEF Released
      <4>4. CASE Ends
        BY <4>4, <1>c
      <4> QED BY <1>12, <4>1, <4>2, <4>3, <4>4 DEF Receive
    <3> QED BY <1>0, <1>12, <2>1, <2>3, <3>1, <3>2 DEF Receive, ClientElsewhere, Typing, TypeOK
  <2> QED BY <1>12, <2>2, <2>3 DEF Receive
<1>13. ASSUME HostGone \/ PeerTimeout
       PROVE  Typing'
  BY <1>0, <1>13, <1>c DEF HostGone, PeerTimeout, ClientElsewhere, Typing, TypeOK
<1>14. ASSUME InjectFails \/ ClientKilled
       PROVE  Typing'
  <2>1. faults' \in 0..MaxFaults
    BY <1>0, <1>14 DEF InjectFails, ClientKilled
  <2> QED BY <1>0, <1>14, <1>c, <2>1 DEF InjectFails, ClientKilled, Typing, TypeOK
<1>15. ASSUME HostKilled
       PROVE  Typing'
  <2>1. faults' \in 0..MaxFaults
    BY <1>0, <1>15 DEF HostKilled
  <2> QED BY <1>0, <1>15, <2>1 DEF HostKilled, Typing, TypeOK
<1>16. ASSUME NetworkCut
       PROVE  Typing'
  <2>1. faults' \in 0..MaxFaults
    BY <1>0, <1>16 DEF NetworkCut
  <2> QED BY <1>0, <1>16, <2>1 DEF NetworkCut, Typing, TypeOK
<1>17. ASSUME PeerHangs
       PROVE  Typing'
  <2>1. faults' \in 0..MaxFaults
    BY <1>0, <1>17 DEF PeerHangs
  <2> QED BY <1>0, <1>17, <2>1 DEF PeerHangs, Typing, TypeOK
<1>18. CASE UNCHANGED vars
  BY <1>0, <1>18 DEF vars, Typing, TypeOK
<1> QED
  BY <1>1, <1>2, <1>3, <1>4, <1>5, <1>6, <1>7, <1>8, <1>9, <1>10, <1>11, <1>12, <1>13, <1>14,
     <1>15, <1>16, <1>17, <1>18 DEF Next, Worker, Host, Client, Fault

\* The types and the bounds of the queue and of the connection, for any devices,
\* keys, capacity and faults: a worker never puts an event beyond the capacity
\* (linux_input.rs:348-353).
THEOREM TypeCorrect == Spec => []TypeOK
<1>1. Typing => TypeOK
  BY DEF Typing
<1> QED BY TypingInit, TypingStep, <1>1, PTL DEF Spec

-----------------------------------------------------------------------------
(* What the workers have *)

\* The steps that leave the devices, their buffers and their batches alone.
Beside == UNCHANGED <<physical, kernel, batch>>

\* A worker that ends drops its events; what the others have is as it was.
LEMMA CapturedAtEnd ==
  ASSUME NEW e \in Devices, NEW d \in Devices, NEW k \in AllKeys,
         Typing, Captured(d, k), WorkerEnds(e), UNCHANGED physical
  PROVE  Captured(d, k)'
<1>1. /\ kernel \in [Devices -> Seq(Events)] /\ batch \in [Devices -> Seq(Events)]
      /\ kernel' = [kernel EXCEPT ![e] = <<>>] /\ batch' = [batch EXCEPT ![e] = <<>>]
  BY DEF WorkerEnds, Typing
<1>2. CASE d = e
  <2>1. kernel'[d] = <<>> /\ batch'[d] = <<>>
    BY <1>1, <1>2
  <2> QED BY <2>1, EmptyStage DEF Captured
<1>3. CASE d # e
  <2>1. kernel'[d] = kernel[d] /\ batch'[d] = batch[d] /\ physical'[d] = physical[d]
    BY <1>1, <1>3
  <2> QED BY <2>1 DEF Captured, AfterBatch
<1> QED BY <1>2, <1>3

\* Every press that a worker has is answered behind it, whatever happens.
LEMMA CapturedStep ==
  ASSUME Typing, \A d \in Devices, k \in AllKeys : Captured(d, k), [Next]_vars
  PROVE  \A d \in Devices, k \in AllKeys : Captured(d, k)'
<1> SUFFICES ASSUME NEW d \in Devices, NEW k \in AllKeys PROVE Captured(d, k)'
  OBVIOUS
<1> USE DEF capture, host, client, history
<1>0. /\ physical \in [Devices -> SUBSET AllKeys]
      /\ kernel \in [Devices -> Seq(Events)] /\ batch \in [Devices -> Seq(Events)]
      /\ Captured(d, k)
  BY DEF Typing
<1>1. ASSUME NEW e \in Devices, NEW c \in Keys[e], UserKey(e, c)
      PROVE  Captured(d, k)'
  <2>1. /\ physical' = [physical EXCEPT ![e] = IF c \notin physical[e] THEN @ \cup {c} ELSE @ \ {c}]
        /\ kernel' = [kernel EXCEPT ![e] = @ \o <<Key(c, c \notin physical[e]), Syn>>]
        /\ batch' = batch
    BY <1>1 DEF UserKey
  <2>2. CASE d # e
    <3>1. physical'[d] = physical[d] /\ kernel'[d] = kernel[d]
      BY <2>1, <2>2, <1>0
    <3> QED BY <3>1, <2>1, <1>0 DEF Captured, AfterBatch
  <2>3. CASE d = e
    <3>1. PICK b \in BOOLEAN : /\ b <=> c \notin physical[e]
                               /\ Key(c, c \notin physical[e]) = Key(c, b)
      <4>1. CASE c \in physical[e]
        BY <4>1 DEF Key
      <4>2. CASE c \notin physical[e]
        BY <4>2 DEF Key
      <4> QED BY <4>1, <4>2
    <3>2. Key(c, b) \in Events /\ Syn \in Events
      BY KeyTyped DEF AllKeys, Events
    <3>3. /\ Append(kernel[d], Key(c, b)) \in Seq(Events)
          /\ kernel'[d] = Append(Append(kernel[d], Key(c, b)), Syn)
      <4>1. kernel'[d] = kernel[d] \o <<Key(c, b), Syn>>
        BY <2>1, <2>3, <3>1, <1>0
      <4> QED BY <4>1, <3>2, <1>0
    <3>4. IF b THEN physical'[d] = physical[d] \cup {c} ELSE physical'[d] = physical[d] \ {c}
      BY <2>1, <2>3, <3>1, <1>0
    <3>5. (Key(c, b) = Up(k) <=> c = k /\ ~b) /\ (Key(c, b) = Down(k) <=> c = k /\ b)
      BY DEF Key, Up, Down
    <3>6. (k \in physical[d] => k \in physical'[d] \/ Key(c, b) = Up(k))
          /\ (Key(c, b) = Down(k) => k \in physical'[d])
      BY <3>4, <3>5
    <3>7. /\ Answered(Append(kernel[d], Key(c, b)), k, k \in physical'[d])
          /\ UpIn(Append(kernel[d], Key(c, b)), k) <=> UpIn(kernel[d], k) \/ Key(c, b) = Up(k)
      <4>1. Answered(kernel[d], k, k \in physical[d])
        BY <1>0 DEF Captured
      <4> QED BY <4>1, <3>6, <3>2, <1>0, EventIn
    <3>8. /\ Answered(kernel'[d], k, k \in physical'[d])
          /\ UpIn(kernel'[d], k) <=> UpIn(kernel[d], k) \/ Key(c, b) = Up(k)
      <4>1. Syn # Up(k) /\ Syn # Down(k)
        BY KindsDiffer
      <4> DEFINE t == Append(kernel[d], Key(c, b))
      <4>2. t \in Seq(Events) /\ Answered(t, k, k \in physical'[d]) /\ kernel'[d] = Append(t, Syn)
        BY <3>7, <3>3
      <4> HIDE DEF t
      <4>3. Answered(Append(t, Syn), k, k \in physical'[d]) /\ (UpIn(Append(t, Syn), k) <=> UpIn(t, k))
        BY <4>1, <4>2, <3>2, EventIn
      <4> QED BY <4>2, <4>3, <3>7 DEF t
    <3>9. AfterBatch(d, k) => AfterBatch(d, k)'
      BY <3>6, <3>8 DEF AfterBatch
    <3> QED BY <3>8, <3>9, <2>1, <1>0, LaterRelease DEF Captured
  <2> QED BY <2>2, <2>3
<1>2. ASSUME NEW e \in Devices, Fetch(e)
      PROVE  Captured(d, k)'
  <2>1. /\ batch[e] = <<>> /\ physical' = physical
        /\ batch' = [batch EXCEPT ![e] = kernel[e]] /\ kernel' = [kernel EXCEPT ![e] = <<>>]
    BY <1>2 DEF Fetch
  <2>2. CASE d # e
    <3>1. batch'[d] = batch[d] /\ kernel'[d] = kernel[d] /\ physical'[d] = physical[d]
      BY <2>1, <2>2, <1>0
    <3> QED BY <3>1, <1>0 DEF Captured, AfterBatch
  <2>3. CASE d = e
    <3>1. batch'[d] = kernel[d] /\ kernel'[d] = <<>> /\ physical'[d] = physical[d]
      BY <2>1, <2>3, <1>0
    <3>2. Answered(kernel[d], k, AfterBatch(d, k)')
      <4>1. Answered(kernel[d], k, k \in physical[d])
        BY <1>0 DEF Captured
      <4>2. k \in physical[d] => AfterBatch(d, k)'
        BY <3>1 DEF AfterBatch
      <4> QED BY <4>1, <4>2 DEF Answered
    <3> QED BY <3>1, <3>2, EmptyStage DEF Captured
  <2> QED BY <2>2, <2>3
<1>3. ASSUME NEW e \in Devices, StopSeen(e) \/ DeviceLost(e) \/ (Enqueue(e) /\ Full)
      PROVE  Captured(d, k)'
  BY <1>3, <1>0, CapturedAtEnd DEF StopSeen, DeviceLost, Enqueue, Overflow
<1>4. ASSUME NEW e \in Devices, Enqueue(e), ~Full
      PROVE  Captured(d, k)'
  <2>1. /\ batch[e] # <<>> /\ batch' = [batch EXCEPT ![e] = Tail(@)]
        /\ kernel' = kernel /\ physical' = physical
    BY <1>4 DEF Enqueue
  <2>2. AfterBatch(d, k)' = AfterBatch(d, k)
    BY <2>1 DEF AfterBatch
  <2>3. CASE d # e
    <3>1. batch'[d] = batch[d]
      BY <2>1, <2>3, <1>0
    <3> QED BY <3>1, <2>1, <2>2, <1>0 DEF Captured
  <2>4. CASE d = e
    <3>1. batch'[d] = Tail(batch[d])
      BY <2>1, <2>4, <1>0
    <3>2. Answered(Tail(batch[d]), k, AfterBatch(d, k))
      BY <2>1, <2>4, <1>0, EventOut DEF Captured
    <3> QED BY <3>1, <3>2, <2>1, <2>2, <1>0 DEF Captured
  <2> QED BY <2>3, <2>4
<1>5. ASSUME HostKilled
      PROVE  Captured(d, k)'
  <2>1. kernel'[d] = <<>> /\ batch'[d] = <<>>
    BY <1>5 DEF HostKilled
  <2> QED BY <2>1, EmptyStage DEF Captured
<1>6. ASSUME Beside
      PROVE  Captured(d, k)'
  BY <1>6, <1>0 DEF Beside, Captured, AfterBatch
<1>7. ASSUME \/ Host \/ Client \/ PeerTimeout \/ ClientKilled \/ PeerHangs
             \/ NetworkCut \/ InjectFails \/ UNCHANGED vars
      PROVE  Beside
  BY <1>7 DEF Beside, Host, Client, Take, SendsHeartbeat, Disconnected, Sent, SendRelease, SendGoodbye,
    WriteFails, Join, HostElsewhere, Receive, HostGone, ClientElsewhere, PeerTimeout, ClientKilled,
    PeerHangs, NetworkCut, InjectFails, vars
<1> QED
  BY <1>1, <1>2, <1>3, <1>4, <1>5, <1>6, <1>7 DEF Next, Worker, Fault

-----------------------------------------------------------------------------
(* What is on its way to the client, and what the client holds *)

\* A client that does not run has nothing.
LEMMA GoneStep ==
  ASSUME ~running => Gone, [Next]_vars, ~running'
  PROVE  Gone'
<1> USE DEF capture, host, client, history
<1>1. CASE Ends
  BY <1>1 DEF Ends, Released, Gone
<1>2. CASE UNCHANGED client /\ wire' = wire
  BY <1>2 DEF Gone
<1>3. CASE UNCHANGED client /\ (\E record : Written(record))
  BY <1>3 DEF Written, Broken, Gone
<1>4. CASE NetworkCut
  BY <1>4 DEF NetworkCut, Gone
<1>5. ASSUME NEW d \in Devices, Worker(d) \/ DeviceLost(d) \/ (\E k \in Keys[d] : UserKey(d, k))
      PROVE  UNCHANGED client /\ wire' = wire
  BY <1>5 DEF Worker, Fetch, StopSeen, Enqueue, DeviceLost, UserKey
<1>6. ASSUME Host
      PROVE  UNCHANGED client /\ (wire' = wire \/ \E record : Written(record))
  <2>1. UNCHANGED client
    BY <1>6 DEF Host, Take, SendsHeartbeat, Disconnected, Sent, SendRelease, SendGoodbye, WriteFails,
      Join, HostElsewhere
  <2>2. CASE Sent \/ SendRelease \/ SendGoodbye
    BY <2>1, <2>2 DEF Sent, SendRelease, SendGoodbye
  <2>3. CASE Take \/ SendsHeartbeat \/ Disconnected \/ WriteFails \/ Join
    BY <2>1, <2>3 DEF Take, SendsHeartbeat, Disconnected, WriteFails, Join
  <2> QED BY <1>6, <2>2, <2>3 DEF Host
<1>7. CASE Receive \/ HostGone \/ PeerTimeout \/ ClientKilled \/ InjectFails
  BY <1>1, <1>7 DEF Receive, HostGone, PeerTimeout, ClientKilled, InjectFails, Runs
<1>8. CASE HostKilled \/ UNCHANGED vars
  BY <1>2, <1>8 DEF HostKilled, vars
<1>9. CASE PeerHangs
  BY <1>9 DEF PeerHangs, Gone
<1> QED
  BY <1>2, <1>3, <1>4, <1>5, <1>6, <1>7, <1>8, <1>9 DEF Next, Client, Fault

\* What the client's side answers stays answered while the stages before it do.
LEMMA SinkKept ==
  ASSUME NEW k, Carried(k), AfterWire(k) => AfterWire(k)', UNCHANGED <<wire, pending, held>>
  PROVE  /\ Answered(wire, k, AfterWire(k))'
         /\ Answered(pending, k, AfterReport(k))'
         /\ k \in held' => AfterHeld(k)'
<1>1. Answered(wire', k, AfterWire(k)')
  BY DEF Carried, Answered
<1>2. AfterReport(k) => AfterReport(k)'
  BY DEF AfterReport, UpIn
<1>3. Answered(pending', k, AfterReport(k)')
  BY <1>2 DEF Carried, Answered
<1>4. AfterHeld(k) => AfterHeld(k)'
  BY <1>2 DEF AfterHeld, UpIn
<1> QED BY <1>1, <1>3, <1>4 DEF Carried

\* The same for the host's side, when no event goes into or out of the queue.
LEMMA LoopKept ==
  ASSUME NEW k, Carried(k), AfterQueue(k) => AfterQueue(k)',
         UNCHANGED <<queue, pc, out, wire, pending, held>>
  PROVE  Carried(k)'
<1>1. Answered(queue', k, AfterQueue(k)')
  BY DEF Carried, Answered
<1>2. AfterOut(k) => AfterOut(k)'
  BY DEF AfterOut, UpIn
<1>3. Sending(Down(k))' => AfterOut(k)'
  BY <1>2 DEF Carried, Sending
<1>4. AfterWire(k) => AfterWire(k)'
  BY <1>2 DEF AfterWire, Sending
<1> QED BY <1>1, <1>3, <1>4, SinkKept DEF Carried
\* A client that has ended answers everything: it has nothing.
LEMMA SinkEmpty ==
  ASSUME NEW k, Gone'
  PROVE  /\ Answered(wire, k, AfterWire(k))'
         /\ Answered(pending, k, AfterReport(k))'
         /\ k \in held' => AfterHeld(k)'
BY EmptyStage DEF Gone

\* The user presses or lets go of a key.
LEMMA CarriedUserKey ==
  ASSUME Typing, NEW k \in AllKeys, Carried(k),
         NEW e \in Devices, NEW c \in Keys[e], UserKey(e, c)
  PROVE  Carried(k)'
<1> USE DEF capture, host, client, history
<1>0. /\ physical \in [Devices -> SUBSET AllKeys] /\ kernel \in [Devices -> Seq(Events)]
  BY DEF Typing
<1>1. ASSUME NEW d \in Devices, AfterBatch(d, k)
      PROVE  AfterBatch(d, k)'
  <2>1. CASE d # e
    <3>1. physical'[d] = physical[d] /\ kernel'[d] = kernel[d]
      BY <2>1, <1>0 DEF UserKey
    <3> QED BY <3>1, <1>1 DEF AfterBatch
  <2>2. CASE d = e
    <3> DEFINE event == Key(c, c \notin physical[e])
    <3>1. /\ kernel'[d] = kernel[d] \o <<event, Syn>>
          /\ physical'[d] = IF c \notin physical[e] THEN physical[d] \cup {c} ELSE physical[d] \ {c}
      BY <2>2, <1>0 DEF UserKey
    <3>2. event \in Events /\ Syn \in Events
      <4>1. c \in AllKeys
        BY DEF AllKeys
      <4>2. CASE c \in physical[e]
        <5>1. event = Key(c, FALSE)
          BY <4>2 DEF Key
        <5> QED BY <5>1, <4>1, KeyTyped DEF Events
      <4>3. CASE c \notin physical[e]
        <5>1. event = Key(c, TRUE)
          BY <4>3 DEF Key
        <5> QED BY <5>1, <4>1, KeyTyped DEF Events
      <4> QED BY <4>2, <4>3
    <3>3. k \in physical[d] => k \in physical'[d] \/ event = Up(k)
      BY <3>1, <2>2 DEF Key, Up
    <3> HIDE DEF event
    <3>4. /\ \A j \in DOMAIN kernel[d] : j \in DOMAIN kernel'[d] /\ kernel'[d][j] = kernel[d][j]
          /\ \E j \in DOMAIN kernel'[d] : kernel'[d][j] = event
      <4>1. kernel[d] \in Seq(Events)
        BY <1>0
      <4>2. /\ DOMAIN kernel[d] = 1..Len(kernel[d]) /\ DOMAIN kernel'[d] = 1..(Len(kernel[d]) + 2)
            /\ \A j \in 1..Len(kernel[d]) : kernel'[d][j] = kernel[d][j]
            /\ kernel'[d][Len(kernel[d]) + 1] = event /\ Len(kernel[d]) \in Nat
        BY <4>1, <3>1, <3>2
      <4> QED BY <4>2
    <3> QED BY <1>1, <3>3, <3>4 DEF AfterBatch, UpIn
  <2> QED BY <2>1, <2>2
<1>2. UNCHANGED <<queue, pc, out, wire, pending, held, batch>>
  BY DEF UserKey
<1>3. AfterQueue(k) => AfterQueue(k)'
  BY <1>1, <1>2 DEF AfterQueue
<1> QED BY <1>2, <1>3, LoopKept

\* A worker fetches what the kernel has of its device.
LEMMA CarriedFetch ==
  ASSUME Typing, NEW k \in AllKeys, Carried(k), NEW e \in Devices, Fetch(e)
  PROVE  Carried(k)'
<1> USE DEF capture, host, client, history
<1>0. kernel \in [Devices -> Seq(Events)] /\ batch \in [Devices -> Seq(Events)]
  BY DEF Typing
<1>1. UNCHANGED <<queue, pc, out, wire, pending, held, physical>>
  BY DEF Fetch
<1>2. ASSUME NEW d \in Devices, AfterBatch(d, k) \/ UpIn(batch[d], k)
      PROVE  (AfterBatch(d, k) \/ UpIn(batch[d], k))'
  <2>1. CASE d # e
    <3>1. kernel'[d] = kernel[d] /\ batch'[d] = batch[d] /\ physical'[d] = physical[d]
      BY <2>1, <1>0, <1>1 DEF Fetch
    <3> QED BY <3>1, <1>2 DEF AfterBatch
  <2>2. CASE d = e
    <3>1. batch[d] = <<>> /\ batch'[d] = kernel[d] /\ physical'[d] = physical[d]
      BY <2>2, <1>0, <1>1 DEF Fetch
    <3> QED BY <3>1, <1>2, EmptyStage DEF AfterBatch
  <2> QED BY <2>1, <2>2
<1>3. AfterQueue(k) => AfterQueue(k)'
  BY <1>2 DEF AfterQueue
<1> QED BY <1>1, <1>3, LoopKept

\* A worker hands one event to the queue.
LEMMA CarriedEnqueue ==
  ASSUME Typing, NEW k \in AllKeys, Carried(k), NEW e \in Devices, Captured(e, k),
         Enqueue(e), ~Full
  PROVE  Carried(k)'
<1> USE DEF capture, host, client, history
<1>0. /\ batch \in [Devices -> Seq(Events)] /\ queue \in Seq(Events)
      /\ queue' = Append(queue, Head(batch[e])) /\ batch' = [batch EXCEPT ![e] = Tail(@)]
      /\ batch[e] # <<>> /\ UNCHANGED <<kernel, physical, pc, out, wire, pending, held>>
  BY DEF Typing, Enqueue
<1>1. /\ Head(batch[e]) \in Events
      /\ UpIn(batch[e], k) <=> Head(batch[e]) = Up(k) \/ UpIn(Tail(batch[e]), k)
      /\ Head(batch[e]) = Down(k) => AfterBatch(e, k) \/ UpIn(Tail(batch[e]), k)
  BY <1>0, EventOut DEF Captured
<1>2. \A d \in Devices : AfterBatch(d, k)' <=> AfterBatch(d, k)
  BY <1>0 DEF AfterBatch
<1>3. AfterQueue(k) => AfterQueue(k)' \/ Head(batch[e]) = Up(k)
  <2>1. ASSUME NEW d \in Devices, AfterBatch(d, k) \/ UpIn(batch[d], k), Head(batch[e]) # Up(k)
        PROVE  (AfterBatch(d, k) \/ UpIn(batch[d], k))'
    <3>1. CASE d # e
      <4>1. batch'[d] = batch[d]
        BY <3>1, <1>0
      <4> QED BY <4>1, <2>1, <1>2
    <3>2. CASE d = e
      <4>1. batch'[d] = Tail(batch[d])
        BY <3>2, <1>0
      <4> QED BY <4>1, <3>2, <2>1, <1>1, <1>2
    <3> QED BY <3>1, <3>2
  <2> QED BY <2>1 DEF AfterQueue
<1>4. Head(batch[e]) = Down(k) => AfterQueue(k)'
  <2>1. batch'[e] = Tail(batch[e])
    BY <1>0
  <2> QED BY <2>1, <1>1, <1>2 DEF AfterQueue
<1>5. /\ Answered(queue', k, AfterQueue(k)')
      /\ UpIn(queue', k) <=> UpIn(queue, k) \/ Head(batch[e]) = Up(k)
  <2>1. Answered(queue, k, AfterQueue(k))
    BY DEF Carried
  <2> QED BY <2>1, <1>0, <1>1, <1>3, <1>4, EventIn
<1>6. AfterOut(k) => AfterOut(k)'
  BY <1>3, <1>5 DEF AfterOut
<1>7. AfterWire(k) => AfterWire(k)'
  BY <1>6, <1>0 DEF AfterWire, Sending
<1>8. Sending(Down(k))' => AfterOut(k)'
  BY <1>6, <1>0 DEF Sending, Carried
<1> QED BY <1>0, <1>5, <1>7, <1>8, SinkKept DEF Carried

\* The loop takes an event from the queue and goes on to send it.
LEMMA CarriedTake ==
  ASSUME Typing, NEW k \in AllKeys, Carried(k), Take, Session'
  PROVE  Carried(k)'
<1> USE DEF capture, host, client, history
<1>0. /\ queue \in Seq(Events) /\ queue # <<>> /\ queue' = Tail(queue) /\ pc = "forwarding"
      /\ pc' = "sending" /\ out' = Head(queue)
      /\ UNCHANGED <<kernel, batch, physical, wire, pending, held>>
  BY DEF Typing, Take, HostElsewhere, Session
<1>1. AfterQueue(k)' <=> AfterQueue(k)
  BY <1>0 DEF AfterQueue, AfterBatch
<1>2. /\ Answered(Tail(queue), k, AfterQueue(k))
      /\ UpIn(queue, k) <=> Head(queue) = Up(k) \/ UpIn(Tail(queue), k)
      /\ Head(queue) = Down(k) => AfterQueue(k) \/ UpIn(Tail(queue), k)
  BY <1>0, EventOut DEF Carried
<1>3. Answered(queue', k, AfterQueue(k)')
  BY <1>0, <1>1, <1>2 DEF Answered
<1>4. Sending(Down(k))' => AfterOut(k)'
  BY <1>0, <1>1, <1>2 DEF Sending, AfterOut
<1>5. AfterWire(k) => AfterWire(k)'
  BY <1>0, <1>1, <1>2 DEF AfterWire, AfterOut, Sending
<1> QED BY <1>0, <1>3, <1>4, <1>5, SinkKept DEF Carried

\* The loop has nothing to send but a heartbeat.
LEMMA CarriedHeartbeat ==
  ASSUME NEW k \in AllKeys, Carried(k), SendsHeartbeat
  PROVE  Carried(k)'
<1> USE DEF capture, host, client, history
<1>0. /\ pc = "forwarding" /\ out' = Heartbeat
      /\ UNCHANGED <<queue, kernel, batch, physical, wire, pending, held>>
  BY DEF SendsHeartbeat, HostElsewhere
<1>1. AfterQueue(k)' <=> AfterQueue(k)
  BY <1>0 DEF AfterQueue, AfterBatch
<1>2. Answered(queue', k, AfterQueue(k)')
  BY <1>0, <1>1 DEF Answered, Carried
<1>3. ~Sending(Down(k))'
  BY <1>0, KindsDiffer DEF Sending
<1>4. AfterWire(k) => AfterWire(k)'
  BY <1>0, <1>1 DEF AfterWire, AfterOut, Sending
<1> QED BY <1>0, <1>2, <1>3, <1>4, SinkKept DEF Carried

\* The record goes to the connection, or is lost with a client that has ended.
LEMMA CarriedSent ==
  ASSUME Typing, NEW k \in AllKeys, Carried(k), ~running => Gone, Sent, Session, Session'
  PROVE  Carried(k)'
<1> USE DEF capture, host, client, history
<1>0. /\ wire \in Seq(Records) /\ out \in Records /\ pc = "sending" /\ pc' = "forwarding"
      /\ out' = Heartbeat /\ ~cut
      /\ UNCHANGED <<queue, kernel, batch, physical, pending, held, running, cut>>
  BY DEF Typing, Records, Sent, HostElsewhere, Session
<1>1. AfterQueue(k)' <=> AfterQueue(k)
  BY <1>0 DEF AfterQueue, AfterBatch
<1>2. AfterOut(k)' <=> AfterOut(k)
  BY <1>0, <1>1 DEF AfterOut
<1>3. Answered(queue', k, AfterQueue(k)') /\ ~Sending(Down(k))'
  BY <1>0, <1>1 DEF Answered, Carried, Sending
<1>4. CASE ~running
  <2>1. Gone'
    BY <1>4, <1>0 DEF Sent, Written, Broken, Gone
  <2> QED BY <2>1, <1>3, SinkEmpty DEF Carried
<1>5. CASE running
  <2>1. wire' = Append(wire, out)
    BY <1>5, <1>0 DEF Sent, Written, Broken
  <2>2. /\ AfterWire(k) => AfterWire(k)' \/ out = Up(k)
        /\ out = Down(k) => AfterWire(k)'
    BY <1>0, <1>2 DEF AfterWire, Sending, Carried
  <2>3. /\ Answered(wire', k, AfterWire(k)')
        /\ UpIn(wire', k) <=> UpIn(wire, k) \/ out = Up(k)
    <3>1. Answered(wire, k, AfterWire(k))
      BY DEF Carried
    <3> QED BY <3>1, <2>1, <2>2, <1>0, EventIn
  <2>4. AfterReport(k) => AfterReport(k)'
    BY <2>2, <2>3 DEF AfterReport
  <2>5. Answered(pending', k, AfterReport(k)')
    BY <2>4, <1>0 DEF Answered, Carried
  <2>6. k \in held' => AfterHeld(k)'
    BY <2>4, <1>0 DEF Carried, AfterHeld
  <2> QED BY <2>3, <2>5, <2>6, <1>3 DEF Carried
<1> QED BY <1>4, <1>5

\* The client takes a record: an event into its report, a whole report into
\* effect, a heartbeat, or one that releases everything.
LEMMA CarriedReceive ==
  ASSUME Typing, NEW k \in AllKeys, Carried(k), Receive
  PROVE  Carried(k)'
<1> USE DEF capture, host, client, history
<1>0. /\ wire \in Seq(Records) /\ wire # <<>> /\ pending \in Seq(KeyEvents)
      /\ UNCHANGED <<queue, pc, out, kernel, batch, physical>>
  BY DEF Typing, Receive, ClientElsewhere
<1>1. AfterQueue(k)' <=> AfterQueue(k)
  BY <1>0 DEF AfterQueue, AfterBatch
<1>2. (AfterOut(k)' <=> AfterOut(k)) /\ (AfterWire(k)' <=> AfterWire(k))
  BY <1>0, <1>1 DEF AfterOut, AfterWire, Sending
<1>3. Answered(queue', k, AfterQueue(k)') /\ (Sending(Down(k))' => AfterOut(k)')
  BY <1>0, <1>1, <1>2 DEF Answered, Carried, Sending
<1>4. CASE Ends
  BY <1>4, <1>3, SinkEmpty DEF Ends, Released, Gone, Carried
<1>5. CASE wire' = Tail(wire)
  <2> DEFINE r == Head(wire)
  <2>1. /\ r \in Records
        /\ Answered(Tail(wire), k, AfterWire(k))
        /\ UpIn(wire, k) <=> r = Up(k) \/ UpIn(Tail(wire), k)
        /\ r = Down(k) => AfterWire(k) \/ UpIn(Tail(wire), k)
    BY <1>0, EventOut DEF Carried
  <2>2. Answered(wire', k, AfterWire(k)')
    BY <2>1, <1>2, <1>5 DEF Answered
  <2>3. /\ AfterReport(k) => AfterReport(k)' \/ r = Up(k)
        /\ r = Down(k) => AfterReport(k)'
    BY <2>1, <1>2, <1>5 DEF AfterReport
  <2>4. Answered(pending, k, AfterReport(k)) /\ (k \in held => AfterHeld(k))
    BY DEF Carried
  <2> HIDE DEF r
  <2>5. CASE Released
    BY <2>2, <2>5, <1>3, EmptyStage DEF Released, Carried
  <2>6. CASE r # Up(k) /\ UNCHANGED <<pending, held>>
    <3>1. AfterReport(k) => AfterReport(k)'
      BY <2>3, <2>6
    <3>2. Answered(pending', k, AfterReport(k)') /\ (k \in held' => AfterHeld(k)')
      BY <3>1, <2>4, <2>6 DEF Answered, AfterHeld
    <3> QED BY <3>2, <2>2, <1>3 DEF Carried
  <2>7. CASE r = Syn /\ Inject(r)
    <3>1. pending' = <<>> /\ held' = (held \ Names(pending)) \cup Presses(pending)
      BY <2>7 DEF Inject
    <3>2. AfterReport(k) => AfterReport(k)'
      BY <2>3, <2>7, KindsDiffer
    <3>3. k \in held' => AfterReport(k)
      BY <3>1, <2>4, <1>0, ReportTakesEffect DEF AfterHeld
    <3>4. Answered(pending', k, AfterReport(k)') /\ (k \in held' => AfterHeld(k)')
      BY <3>1, <3>2, <3>3, EmptyStage DEF AfterHeld
    <3> QED BY <3>4, <2>2, <1>3 DEF Carried
  <2>8. CASE r # Syn /\ r.kind \in {"key", "syn"} /\ Inject(r)
    <3>1. r \in KeyEvents /\ pending' = Append(pending, r) /\ held' = held
      BY <2>1, <2>8 DEF Records, Events, Heartbeat, ReleaseAll, Goodbye, Inject
    <3>2. /\ Answered(pending', k, AfterReport(k)')
          /\ UpIn(pending', k) <=> UpIn(pending, k) \/ r = Up(k)
      BY <3>1, <2>3, <2>4, <1>0, EventIn
    <3>3. k \in held' => AfterHeld(k)'
      BY <3>1, <3>2, <2>3, <2>4 DEF AfterHeld
    <3> QED BY <3>2, <3>3, <2>2, <1>3 DEF Carried
  <2> QED
    <3>1. Heartbeat # Up(k)
      BY KindsDiffer
    <3> QED BY <3>1, <2>5, <2>6, <2>7, <2>8, <1>4 DEF Receive, r
<1> QED BY <1>4, <1>5 DEF Receive

\* In a session every press on its way stays answered.
LEMMA CarriedStep ==
  ASSUME Typing, \A d \in Devices, k \in AllKeys : Captured(d, k),
         Session => \A k \in AllKeys : Carried(k), ~running => Gone,
         [Next]_vars, Session'
  PROVE  \A k \in AllKeys : Carried(k)'
<1> USE DEF capture, host, client, history
<1>1. Session
  <2>1. /\ stop \in BOOLEAN /\ cut \in BOOLEAN
        /\ pc \in {"forwarding", "sending", "releasing", "leaving", "joining", "ended"}
    BY DEF Typing, TypeOK
  <2>2. CASE \E d \in Devices : Worker(d) \/ DeviceLost(d) \/ (\E k \in Keys[d] : UserKey(d, k))
    <3>1. CASE \E d \in Devices : Fetch(d) \/ (\E k \in Keys[d] : UserKey(d, k))
      <4>1. CASE \E d \in Devices : Fetch(d)
        BY <4>1 DEF Fetch, Session
      <4>2. CASE \E d \in Devices : \E k \in Keys[d] : UserKey(d, k)
        BY <4>2 DEF UserKey, Session
      <4> QED BY <3>1, <4>1, <4>2
    <3>2. CASE \E d \in Devices : StopSeen(d) \/ DeviceLost(d)
      BY <3>2 DEF StopSeen, DeviceLost, Session
    <3>3. CASE \E d \in Devices : Enqueue(d)
      BY <3>3 DEF Enqueue, Overflow, Session
    <3> QED BY <2>2, <3>1, <3>2, <3>3 DEF Worker
  <2>3. CASE Take \/ SendsHeartbeat \/ Disconnected \/ Sent \/ SendRelease
    BY <2>3 DEF Take, SendsHeartbeat, Disconnected, Sent, SendRelease, HostElsewhere, Session
  <2>4. CASE SendGoodbye \/ Join \/ HostKilled
    BY <2>4 DEF SendGoodbye, Join, Shutdown, HostKilled, HostElsewhere, Session
  <2>5. CASE WriteFails
    <3>1. pc' \notin {"forwarding", "sending"}
      BY <2>5 DEF WriteFails
    <3> QED BY <3>1 DEF Session
  <2>6. CASE \/ Client \/ PeerTimeout \/ ClientKilled \/ PeerHangs \/ InjectFails
            \/ NetworkCut \/ UNCHANGED vars
    BY <2>6 DEF Client, Receive, HostGone, PeerTimeout, ClientKilled, PeerHangs, InjectFails, NetworkCut,
      ClientElsewhere, vars, Session
  <2> QED BY <2>2, <2>3, <2>4, <2>5, <2>6 DEF Next, Host, Fault
<1> SUFFICES ASSUME NEW k \in AllKeys PROVE Carried(k)'
  OBVIOUS
<1>2. Carried(k) /\ \A d \in Devices : Captured(d, k)
  BY <1>1
<1>3. CASE UNCHANGED <<physical, kernel, batch, queue, pc, out, wire, pending, held>>
  <2>1. AfterQueue(k) => AfterQueue(k)'
    BY <1>3 DEF AfterQueue, AfterBatch
  <2> QED BY <1>2, <1>3, <2>1, LoopKept
<1>4. CASE Ends /\ UNCHANGED <<physical, kernel, batch, queue, pc, out>>
  <2>1. AfterQueue(k)' <=> AfterQueue(k)
    BY <1>4 DEF AfterQueue, AfterBatch
  <2>2. Answered(queue', k, AfterQueue(k)') /\ (Sending(Down(k))' => AfterOut(k)')
    BY <2>1, <1>2, <1>4 DEF Answered, Carried, Sending, AfterOut
  <2> QED BY <2>2, <1>4, SinkEmpty DEF Ends, Released, Gone, Carried
<1>5. CASE \E d \in Devices : \E c \in Keys[d] : UserKey(d, c)
  BY <1>2, <1>5, CarriedUserKey
<1>6. CASE \E d \in Devices : Fetch(d)
  BY <1>2, <1>6, CarriedFetch
<1>7. CASE \E d \in Devices : Enqueue(d)
  <2>1. PICK d \in Devices : Enqueue(d)
    BY <1>7
  <2>2. ~Full
    BY <2>1 DEF Enqueue, Overflow, Session
  <2> QED BY <2>1, <2>2, <1>2, CarriedEnqueue
<1>8. CASE Take
  BY <1>2, <1>8, CarriedTake
<1>9. CASE SendsHeartbeat
  BY <1>2, <1>9, CarriedHeartbeat
<1>10. CASE Sent
  BY <1>1, <1>2, <1>10, CarriedSent
<1>11. CASE Receive
  BY <1>2, <1>11, CarriedReceive
<1>12. CASE HostGone \/ PeerTimeout \/ ClientKilled \/ InjectFails
  BY <1>4, <1>12 DEF HostGone, PeerTimeout, ClientKilled, InjectFails, ClientElsewhere
<1>13. CASE PeerHangs \/ UNCHANGED vars
  BY <1>3, <1>13 DEF PeerHangs, vars
<1>14. ASSUME Disconnected \/ SendRelease \/ SendGoodbye \/ WriteFails \/ Join \/ HostKilled
       PROVE  FALSE
  <2>1. pc' \notin {"forwarding", "sending"}
    BY <1>14 DEF Disconnected, SendRelease, SendGoodbye, WriteFails, Join, HostKilled
  <2> QED BY <2>1 DEF Session
<1>15. ASSUME NEW d \in Devices, StopSeen(d) \/ DeviceLost(d)
       PROVE  FALSE
  BY <1>15 DEF StopSeen, DeviceLost, Session
<1>16. ASSUME NetworkCut
       PROVE  FALSE
  BY <1>16 DEF NetworkCut, Session
<1> QED
  BY <1>5, <1>6, <1>7, <1>8, <1>9, <1>10, <1>11, <1>12, <1>13, <1>14, <1>15, <1>16
  DEF Next, Worker, Host, Client, Fault

-----------------------------------------------------------------------------

\* Nothing is held or under way at the start.
LEMMA ManualInvInit == Init => ManualInv
<1> SUFFICES ASSUME Init PROVE ManualInv
  OBVIOUS
<1>1. \A d \in Devices, k \in AllKeys : Captured(d, k)
  <2> SUFFICES ASSUME NEW d \in Devices, NEW k \in AllKeys PROVE Captured(d, k)
    OBVIOUS
  <2>1. kernel[d] = <<>> /\ batch[d] = <<>>
    BY DEF Init
  <2> QED BY <2>1, EmptyStage DEF Captured
<1>2. \A k \in AllKeys : Carried(k)
  BY EmptyStage DEF Init, Carried, Sending
<1>3. running
  BY DEF Init
<1> QED BY <1>1, <1>2, <1>3, TypingInit DEF ManualInv

\* Every step keeps the invariant.
LEMMA ManualInvStep == ManualInv /\ [Next]_vars => ManualInv'
<1> SUFFICES ASSUME ManualInv, [Next]_vars PROVE ManualInv'
  OBVIOUS
<1>1. Typing'
  BY TypingStep DEF ManualInv
<1>2. \A d \in Devices, k \in AllKeys : Captured(d, k)'
  BY CapturedStep DEF ManualInv
<1>3. Session' => \A k \in AllKeys : Carried(k)'
  BY CarriedStep DEF ManualInv
<1>4. ~running' => Gone'
  BY GoneStep DEF ManualInv
<1> QED BY <1>1, <1>2, <1>3, <1>4 DEF ManualInv

\* A release in a stage is under way.
LEMMA UpUnderWay ==
  ASSUME NEW S, NEW s \in Seq(S), NEW t \in Seq(S), NEW k
  PROVE  /\ UpIn(s, k) => Contains(s \o t, Up(k))
         /\ UpIn(t, k) => Contains(s \o t, Up(k))
         /\ Contains(s \o t, Up(k)) => UpIn(s \o t, k)
<1>1. /\ DOMAIN s = 1..Len(s) /\ DOMAIN t = 1..Len(t) /\ Len(s) \in Nat /\ Len(t) \in Nat
      /\ DOMAIN (s \o t) = 1..Len(s \o t)
      /\ Len(s \o t) = Len(s) + Len(t)
      /\ \A j \in 1..Len(s) : (s \o t)[j] = s[j]
      /\ \A j \in 1..Len(t) : (s \o t)[Len(s) + j] = t[j]
  OBVIOUS
<1>2. UpIn(s, k) => Contains(s \o t, Up(k))
  BY <1>1 DEF UpIn, Contains
<1>3. ASSUME UpIn(t, k)
      PROVE  Contains(s \o t, Up(k))
  <2>1. PICK j \in 1..Len(t) : t[j] = Up(k)
    BY <1>1, <1>3 DEF UpIn
  <2>2. Len(s) + j \in 1..Len(s \o t) /\ (s \o t)[Len(s) + j] = Up(k)
    BY <1>1, <2>1
  <2> QED BY <2>2 DEF Contains
<1> QED BY <1>1, <1>2, <1>3 DEF UpIn, Contains

\* No control sticks in a session of the manual mode, for any devices, keys that
\* devices share, capacities and users: what the remote desktop holds down the
\* user holds down, or its release is on the way (linux_input.rs:293, 348-353).
THEOREM NoKeySticks == Spec => []NothingStuck
<1>1. ManualInv => NothingStuck
  <2> SUFFICES ASSUME ManualInv, Session, NEW k \in held
               PROVE  ReleaseUnderWay(k) \/ \E d \in Devices : k \in physical[d]
    BY DEF NothingStuck, Session
  <2>1. /\ kernel \in [Devices -> Seq(Events)] /\ batch \in [Devices -> Seq(Events)]
        /\ queue \in Seq(Records) /\ wire \in Seq(Records) /\ pending \in Seq(Records)
    BY DEF ManualInv, Typing, Records, Events
  <2>2. AfterHeld(k)
    <3>1. k \in AllKeys
      BY DEF ManualInv, Typing
    <3> QED BY <3>1 DEF ManualInv, Carried
  <2>3. CASE \E d \in Devices : AfterBatch(d, k) \/ UpIn(batch[d], k)
    BY <2>1, <2>3, UpUnderWay DEF AfterBatch, ReleaseUnderWay, Up
  <2>4. CASE UpIn(queue, k) \/ UpIn(wire, k) \/ UpIn(pending, k)
    <3>1. queue \o wire \in Seq(Records)
      BY <2>1
    <3>2. UpIn(queue, k) \/ UpIn(wire, k) => UpIn(queue \o wire, k)
      BY <2>1, UpUnderWay
    <3>3. Contains((queue \o wire) \o pending, Up(k))
      BY <2>1, <2>4, <3>1, <3>2, UpUnderWay
    <3> QED BY <3>3 DEF ReleaseUnderWay, Up
  <2>5. CASE Sending(Up(k))
    BY <2>5 DEF Sending, ReleaseUnderWay, Up
  <2> QED BY <2>2, <2>3, <2>4, <2>5 DEF AfterHeld, AfterReport, AfterWire, AfterOut, AfterQueue
<1> QED BY ManualInvInit, ManualInvStep, <1>1, PTL DEF Spec
=============================================================================
