---------------------------- MODULE SeamlessProofs ----------------------------
(***************************************************************************)
(* Safety of the seamless mode for every number of activations, faults and *)
(* queued messages, every layout and every set of controls.                *)
(***************************************************************************)
EXTENDS SeamlessInvariant, SeamlessOwnership, HandoffGeometry

-----------------------------------------------------------------------------
(***************************************************************************)
(* Queues.                                                                 *)
(***************************************************************************)

\* What the invariants' facts about a queue q become when a message m is
\* appended, giving r, and when the first message h is taken, leaving r.
Grows(q, r, m) ==
  /\ \A k : InFlight(r, k) <=> InFlight(q, k) \/ m.kind = k
  /\ \A K : OnlyKinds(q, K) /\ m.kind \in K => OnlyKinds(r, K)
  /\ \A K : AtMostOne(q, K) /\ (m.kind \in K => \A k \in K : ~InFlight(q, k))
              => AtMostOne(r, K)
  /\ InputFirst(q) /\ (m.kind = "Input" => OnlyKinds(q, Benign)) => InputFirst(r)
  /\ \A a : About(q, a) /\ (m.kind # "DiagnosticPong" => m.act = a) => About(r, a)
  /\ r[Len(r)] = m

Shrinks(q, r, h) ==
  /\ InFlight(q, h.kind)
  /\ \A k : InFlight(r, k) => InFlight(q, k)
  /\ \A K : OnlyKinds(q, K) => OnlyKinds(r, K) /\ h.kind \in K
  /\ \A K : AtMostOne(q, K) => AtMostOne(r, K)
  /\ \A K : AtMostOne(q, K) /\ h.kind \in K => \A k \in K : ~InFlight(r, k)
  /\ InputFirst(q) => InputFirst(r)
  /\ InputFirst(q) /\ InFlight(r, "Input") => h.kind \in Benign
  /\ \A a : About(q, a) => About(r, a) /\ (h.kind # "DiagnosticPong" => h.act = a)
  /\ r # <<>> => r[Len(r)] = q[Len(q)]
  /\ r = <<>> => h = q[Len(q)]

\* What a queue holds after a message is appended.
LEMMA AppendAt ==
  ASSUME NEW S, NEW q \in Seq(S), NEW m \in S
  PROVE  /\ Append(q, m) \in Seq(S)
         /\ Len(Append(q, m)) = Len(q) + 1 /\ Len(q) \in Nat
         /\ \A i \in 1 .. Len(q) : Append(q, m)[i] = q[i]
         /\ Append(q, m)[Len(q) + 1] = m
  OBVIOUS

\* What a queue holds after its first message is taken.
LEMMA TailAt ==
  ASSUME NEW S, NEW q \in Seq(S), q # <<>>
  PROVE  /\ Tail(q) \in Seq(S) /\ Head(q) \in S /\ Head(q) = q[1]
         /\ Len(q) \in Nat /\ Len(q) >= 1 /\ Len(Tail(q)) = Len(q) - 1
         /\ \A i \in 1 .. Len(Tail(q)) : Tail(q)[i] = q[i + 1]
  OBVIOUS

\* The invariants' facts about queues, of the empty queue.
LEMMA EmptyQueue ==
  /\ \A S : <<>> \in Seq(S)
  /\ \A k : ~InFlight(<<>>, k)
  /\ \A K : OnlyKinds(<<>>, K) /\ AtMostOne(<<>>, K)
  /\ InputFirst(<<>>)
  /\ \A a : About(<<>>, a)
<1>1. Len(<<>>) = 0 /\ \A S : <<>> \in Seq(S)
  OBVIOUS
<1> QED BY <1>1 DEF InFlight, OnlyKinds, AtMostOne, InputFirst, About

\* The same of a queue that grows.
LEMMA AppendQueue ==
  ASSUME NEW S, NEW q \in Seq(S), NEW m \in S
  PROVE  Append(q, m) \in Seq(S) /\ Grows(q, Append(q, m), m)
<1> DEFINE r == Append(q, m)
           n == Len(q)
<1>1. /\ r \in Seq(S) /\ n \in Nat /\ Len(r) = n + 1
      /\ \A i \in 1 .. n : r[i] = q[i]
      /\ r[n + 1] = m
  BY AppendAt
<1> HIDE DEF r
<1>2. \A i \in 1 .. Len(r) : i = n + 1 \/ i \in 1 .. n
  BY <1>1
<1>3. n + 1 \in 1 .. Len(r) /\ \A i \in 1 .. n : i \in 1 .. Len(r)
  BY <1>1
<1>4. \A k : InFlight(r, k) <=> InFlight(q, k) \/ m.kind = k
  BY <1>1, <1>2, <1>3 DEF InFlight
<1>5. \A K : OnlyKinds(q, K) /\ m.kind \in K => OnlyKinds(r, K)
  BY <1>1, <1>2 DEF OnlyKinds
<1>6. \A K : AtMostOne(q, K) /\ (m.kind \in K => \A k \in K : ~InFlight(q, k))
        => AtMostOne(r, K)
  BY <1>1, <1>2 DEF AtMostOne, InFlight
<1>7. InputFirst(q) /\ (m.kind = "Input" => OnlyKinds(q, Benign)) => InputFirst(r)
  <2> SUFFICES ASSUME InputFirst(q), m.kind = "Input" => OnlyKinds(q, Benign),
                      NEW i \in 1 .. Len(r), r[i].kind = "Input", NEW j \in 1 .. i
               PROVE  r[j].kind \in Benign
    BY DEF InputFirst
  <2>1. CASE i = n + 1
    <3>1. m.kind = "Input"
      BY <1>1, <2>1
    <3>2. j = n + 1 \/ j \in 1 .. n
      BY <1>1, <2>1
    <3> QED BY <1>1, <3>1, <3>2 DEF OnlyKinds, Benign
  <2>2. CASE i \in 1 .. n
    <3>1. j \in 1 .. n /\ q[i].kind = "Input"
      BY <1>1, <2>2
    <3> QED BY <1>1, <2>2, <3>1 DEF InputFirst
  <2> QED BY <1>2, <2>1, <2>2
<1>8. \A a : About(q, a) /\ (m.kind # "DiagnosticPong" => m.act = a) => About(r, a)
  BY <1>1, <1>2 DEF About
<1>9. r[Len(r)] = m
  BY <1>1
<1> QED BY <1>1, <1>4, <1>5, <1>6, <1>7, <1>8, <1>9 DEF r, Grows

\* The last message of a queue is in it.
LEMMA LastInFlight ==
  ASSUME NEW S, NEW q \in Seq(S), q # <<>>
  PROVE  InFlight(q, q[Len(q)].kind)
<1>1. Len(q) \in 1 .. Len(q)
  OBVIOUS
<1> QED BY <1>1 DEF InFlight

\* The same of a queue that loses its first message h.
LEMMA TailQueue ==
  ASSUME NEW S, NEW q \in Seq(S), q # <<>>
  PROVE  Tail(q) \in Seq(S) /\ Head(q) \in S /\ Shrinks(q, Tail(q), Head(q))
<1> DEFINE t == Tail(q)
           h == Head(q)
           n == Len(q)
<1>1. /\ t \in Seq(S) /\ h \in S /\ h = q[1] /\ n \in Nat /\ n >= 1
      /\ Len(t) = n - 1 /\ \A i \in 1 .. Len(t) : t[i] = q[i + 1]
  BY TailAt
<1>2. 1 \in 1 .. n /\ \A i \in 1 .. Len(t) : i + 1 \in 1 .. n /\ i + 1 # 1
  BY <1>1
<1>3. t # <<>> => Len(t) \in 1 .. Len(t) /\ Len(t) + 1 = n
  BY <1>1
<1> HIDE DEF t, h, n
<1>4. t = <<>> => n = 1
  <2>1. Len(<<>>) = 0
    OBVIOUS
  <2> QED BY <1>1, <2>1
<1>5. InFlight(q, h.kind) /\ \A k : InFlight(t, k) => InFlight(q, k)
  BY <1>1, <1>2 DEF InFlight, n
<1>6. \A K : OnlyKinds(q, K) => OnlyKinds(t, K) /\ h.kind \in K
  BY <1>1, <1>2 DEF OnlyKinds, n
<1>7. \A K : AtMostOne(q, K) => AtMostOne(t, K)
  <2> SUFFICES ASSUME NEW K, AtMostOne(q, K),
                      NEW i \in 1 .. Len(t), NEW j \in 1 .. Len(t),
                      t[i].kind \in K, t[j].kind \in K
               PROVE  i = j
    BY DEF AtMostOne
  <2>1. i + 1 = j + 1
    BY <1>1, <1>2 DEF AtMostOne, n
  <2> QED BY <1>1, <2>1
<1>8. \A K : AtMostOne(q, K) /\ h.kind \in K => \A k \in K : ~InFlight(t, k)
  BY <1>1, <1>2 DEF AtMostOne, InFlight, n
<1>9. InputFirst(q) => InputFirst(t)
  <2> SUFFICES ASSUME InputFirst(q), NEW i \in 1 .. Len(t), t[i].kind = "Input",
                      NEW j \in 1 .. i
               PROVE  t[j].kind \in Benign
    BY DEF InputFirst
  <2>1. j \in 1 .. Len(t) /\ j + 1 \in 1 .. i + 1
    BY <1>1
  <2> QED BY <1>1, <1>2, <2>1 DEF InputFirst, n
<1>10. InputFirst(q) /\ InFlight(t, "Input") => h.kind \in Benign
  <2> SUFFICES ASSUME InputFirst(q), NEW i \in 1 .. Len(t), t[i].kind = "Input"
               PROVE  h.kind \in Benign
    BY DEF InFlight
  <2>1. 1 \in 1 .. i + 1
    BY <1>1
  <2> QED BY <1>1, <1>2, <2>1 DEF InputFirst, n
<1>11. \A a : About(q, a) => About(t, a) /\ (h.kind # "DiagnosticPong" => h.act = a)
  BY <1>1, <1>2 DEF About, n
<1>12. (t # <<>> => t[Len(t)] = q[Len(q)]) /\ (t = <<>> => h = q[Len(q)])
  BY <1>1, <1>3, <1>4 DEF n
<1> QED BY <1>1, <1>5, <1>6, <1>7, <1>8, <1>9, <1>10, <1>11, <1>12 DEF t, h, Shrinks

-----------------------------------------------------------------------------
(***************************************************************************)
(* Types.  NaturalBounds collects what the assumptions say of the bounds.  *)
(***************************************************************************)

\* The bounds are natural numbers.
LEMMA NaturalBounds ==
  /\ MaxActivations \in Nat /\ MaxFaults \in Nat /\ ActivationYs \subseteq Int
  /\ Acts \subseteq Nat /\ 0 \in Acts /\ 1 .. MaxActivations \subseteq Acts
  /\ \A a \in Acts : a # 0 => a \in 1 .. MaxActivations
  BY HostAssumption, FaultAssumption DEF Acts

\* A write appends its message or loses it.
LEMMA HostSendQueue ==
  ASSUME TypeOK, NEW m \in HostMessages, HostSend(m)
  PROVE  /\ toClient' \in Seq(HostMessages)
         /\ toClient' = toClient \/ (clientOpen /\ Grows(toClient, toClient', m))
<1>1. CASE clientOpen /\ ~cut
  <2>1. toClient' = Append(toClient, m) /\ toClient \in Seq(HostMessages)
    BY <1>1 DEF HostSend, TypeOK
  <2> QED BY <1>1, <2>1, AppendQueue
<1>2. CASE ~(clientOpen /\ ~cut)
  BY <1>2 DEF HostSend, TypeOK
<1> QED BY <1>1, <1>2

\* The same of the client's writes.
LEMMA ClientSendQueue ==
  ASSUME TypeOK, NEW m \in ClientMessages, ClientSend(m)
  PROVE  /\ toHost' \in Seq(ClientMessages)
         /\ toHost' = toHost \/ (hostOpen /\ Grows(toHost, toHost', m))
<1>1. CASE hostOpen /\ ~cut
  <2>1. toHost' = Append(toHost, m) /\ toHost \in Seq(ClientMessages)
    BY <1>1 DEF ClientSend, TypeOK
  <2> QED BY <1>1, <2>1, AppendQueue
<1>2. CASE ~(hostOpen /\ ~cut)
  BY <1>2 DEF ClientSend, TypeOK
<1> QED BY <1>1, <1>2

\* The host reads a message.
LEMMA HostReadsQueue ==
  ASSUME TypeOK, HostCanRead, toHost' = Tail(toHost)
  PROVE  /\ toHost # <<>> /\ toHost' \in Seq(ClientMessages)
         /\ Head(toHost) \in ClientMessages
         /\ Shrinks(toHost, toHost', Head(toHost))
  BY TailQueue DEF TypeOK, HostCanRead

\* The client reads a message.
LEMMA ClientReadsQueue ==
  ASSUME TypeOK, NEW kind, Receives(kind)
  PROVE  /\ cpc = "recv" /\ toClient # <<>> /\ toClient' \in Seq(HostMessages)
         /\ Head(toClient) \in HostMessages /\ Head(toClient).kind = kind
         /\ Shrinks(toClient, toClient', Head(toClient))
         /\ UNCHANGED <<barrier, hostOpen, clientOpen, cut>>
  BY TailQueue DEF TypeOK, Receives, ClientCanRead

\* The messages without a body are messages of the host.
LEMMA ReleaseMessage ==
  ASSUME NEW a \in Acts, NEW k \in {"Heartbeat", "DiagnosticPing", "HandoffRelease"}
  PROVE  Msg(k, a, NoBody) \in HostMessages
  BY DEF Msg, HostMessages, Acts

\* The barrier reports a point of the plane.
LEMMA BarrierPointType ==
  ASSUME NEW y \in ActivationYs PROVE BarrierPoint(y) \in Point
<1>1. EdgeX(Layout.local, Layout.edge) \in Int /\ y \in Int
  BY HostAssumption, EdgeInside, RectFacts DEF Layouts
<1> QED BY <1>1 DEF BarrierPoint, Point

\* The controller's constant states are states.
LEMMA ControllerConstants ==
  Local \in ControllerStates /\ RemoteActive \in ControllerStates
  BY DEF ControllerStates

\* Closing keeps the host's part of the type invariant.
LEMMA HostCloseType ==
  ASSUME TypeOK, HostClose
  PROVE  controller' = Local /\ activation' = 0 /\ toClient' \in Seq(HostMessages)
<1>1. controller' = Local /\ activation' = 0
  BY DEF HostClose, DisconnectOrCancel
<1>2. Msg("HandoffRelease", lastActivation, NoBody) \in HostMessages
  BY ReleaseMessage DEF TypeOK
<1>3. toClient' \in Seq(HostMessages)
  BY <1>2, HostSendQueue DEF HostClose, TypeOK
<1> QED BY <1>1, <1>3

\* The user makes input.
LEMMA UserInputStep ==
  ASSUME TypeOK, ProtocolInv, HostDoes(UserInput)
  PROVE  TypeOK' /\ ProtocolInv'
<1> USE DEF ProtocolInv, HostDoes, ClientDoes, hostVars, clientVars, linkVars
<1>1. TypeOK'
  BY NaturalBounds DEF TypeOK, UserInput, CapturedEvents
<1>2. ProtocolInv'
  BY DEF SocketsInv, HostInv, ClientInv, ToClientInv, ToHostInv, HandoffInv,
      AllBenign, OnlyPongs, ExpectsInput, Released, UserInput
<1> QED BY <1>1, <1>2

\* A session starts with empty queues, Local, and a released client.
LEMMA SessionStartsStep ==
  ASSUME TypeOK, ProtocolInv, SessionStarts
  PROVE  TypeOK' /\ ProtocolInv'
<1> USE DEF ProtocolInv, HostDoes, ClientDoes, hostVars, clientVars, linkVars
<1>1. TypeOK'
  BY EmptyQueue DEF TypeOK, HostPoints, ClientPoints, SessionStarts,
      HostSessionStarts, ClientSessionStarts, LinkOpens
<1>2. ProtocolInv'
  BY EmptyQueue DEF SocketsInv, HostInv, ClientInv, ToClientInv, ToHostInv,
      HandoffInv, Talking, Forwarding, Released, SessionStarts,
      HostSessionStarts, ClientSessionStarts, LinkOpens
<1> QED BY <1>1, <1>2

\* A host process starts.
LEMMA HostConnectStep ==
  ASSUME TypeOK, ProtocolInv, HostDoes(HostConnect)
  PROVE  TypeOK' /\ ProtocolInv'
<1> USE DEF ProtocolInv, HostDoes, ClientDoes, hostVars, clientVars, linkVars
<1>1. TypeOK'
  BY DEF TypeOK, HostPoints, HostConnect
<1>2. ProtocolInv'
  BY DEF SocketsInv, HostInv, ClientInv, ToClientInv, ToHostInv, HandoffInv,
      Talking, Forwarding, OnlyPongs, ExpectsInput, Released, HostConnect
<1> QED BY <1>1, <1>2

\* The host gets no answer.
LEMMA ReplyFailsStep ==
  ASSUME TypeOK, ProtocolInv, HostDoes(ReplyFails)
  PROVE  TypeOK' /\ ProtocolInv'
<1> USE DEF ProtocolInv, HostDoes, ClientDoes, hostVars, clientVars, linkVars
<1>1. TypeOK'
  BY DEF TypeOK, HostPoints, ReplyFails
<1>2. ProtocolInv'
  BY DEF SocketsInv, HostInv, ClientInv, ToClientInv, ToHostInv, HandoffInv,
      Talking, Forwarding, OnlyPongs, ExpectsInput, Released, ReplyFails
<1> QED BY <1>1, <1>2

\* The host sends a latency probe.
LEMMA SendProbeStep ==
  ASSUME TypeOK, ProtocolInv, HostDoes(SendProbe)
  PROVE  TypeOK' /\ ProtocolInv'
<1> USE DEF ProtocolInv, HostDoes, ClientDoes, hostVars, clientVars, linkVars
<1> DEFINE m == Msg("DiagnosticPing", lastActivation, NoBody)
<1>a. m \in HostMessages /\ m.kind = "DiagnosticPing" /\ m.act = lastActivation
  BY ReleaseMessage DEF TypeOK, Msg
<1>b. /\ toClient' \in Seq(HostMessages)
      /\ toClient' = toClient \/ (clientOpen /\ Grows(toClient, toClient', m))
  BY <1>a, HostSendQueue DEF SendProbe
<1> HIDE DEF m
<1>1. TypeOK'
  BY <1>b DEF TypeOK, SendProbe
<1>2. ProtocolInv'
  BY <1>a, <1>b DEF SocketsInv, HostInv, ClientInv, ToClientInv, ToHostInv,
      HandoffInv, Benign, AllBenign, OnlyPongs, ExpectsInput, Released,
      SendProbe, Grows
<1> QED BY <1>1, <1>2

\* The host takes a captured event.
LEMMA NextInputStep ==
  ASSUME TypeOK, ProtocolInv, HostDoes(NextInput)
  PROVE  TypeOK' /\ ProtocolInv'
<1> USE DEF ProtocolInv, HostDoes, ClientDoes, hostVars, clientVars, linkVars
<1>1. TypeOK'
  BY DEF TypeOK, HostPoints, NextInput
<1>2. ProtocolInv'
  BY DEF TypeOK, SocketsInv, HostInv, ClientInv, ToClientInv, ToHostInv,
      HandoffInv, Talking, Forwarding, AllBenign, ExpectsInput, Released,
      NextInput
<1> QED BY <1>1, <1>2

\* The host sends a heartbeat.
LEMMA SendHeartbeatStep ==
  ASSUME TypeOK, ProtocolInv, HostDoes(SendHeartbeat)
  PROVE  TypeOK' /\ ProtocolInv'
<1> USE DEF ProtocolInv, HostDoes, ClientDoes, hostVars, clientVars, linkVars
<1> DEFINE m == Msg("Heartbeat", lastActivation, NoBody)
<1>a. m \in HostMessages /\ m.kind = "Heartbeat" /\ m.act = lastActivation
  BY ReleaseMessage DEF TypeOK, Msg
<1>b. /\ toClient' \in Seq(HostMessages)
      /\ toClient' = toClient \/ (clientOpen /\ Grows(toClient, toClient', m))
  BY <1>a, HostSendQueue DEF SendHeartbeat
<1> HIDE DEF m
<1>1. TypeOK'
  BY <1>b DEF TypeOK, SendHeartbeat
<1>2. ProtocolInv'
  BY <1>a, <1>b DEF SocketsInv, HostInv, ClientInv, ToClientInv, ToHostInv,
      HandoffInv, Benign, AllBenign, OnlyPongs, ExpectsInput, Released,
      SendHeartbeat, Grows
<1> QED BY <1>1, <1>2

\* The host forwards the event it has selected.
LEMMA ForwardStep ==
  ASSUME TypeOK, ProtocolInv, HostDoes(Forward)
  PROVE  TypeOK' /\ ProtocolInv'
<1> USE DEF ProtocolInv, HostDoes, ClientDoes, hostVars, clientVars, linkVars
<1>0. selected \in CapturedEvents /\ selected.act \in 1 .. MaxActivations
  BY DEF Forward, HostInv, CapturedEvents
<1> DEFINE m == Msg("Input", selected.act,
                    [control |-> selected.control, down |-> selected.down])
<1>a. m \in HostMessages /\ m.kind = "Input" /\ m.act = selected.act
  BY <1>0 DEF Msg, HostMessages, CapturedEvents
<1>b. /\ toClient' \in Seq(HostMessages)
      /\ toClient' = toClient \/ (clientOpen /\ Grows(toClient, toClient', m))
  BY <1>a, HostSendQueue DEF Forward
<1> HIDE DEF m
<1>1. TypeOK'
  BY <1>b DEF TypeOK, HostPoints, Forward
<1>2. ProtocolInv'
  BY <1>a, <1>b DEF SocketsInv, HostInv, ClientInv, ToClientInv, ToHostInv,
      HandoffInv, Talking, Forwarding, Benign, AllBenign, ExpectsInput,
      Released, Forward, Grows
<1> QED BY <1>1, <1>2

\* The host finds its connection broken.
LEMMA HostIoErrorStep ==
  ASSUME TypeOK, ProtocolInv, HostDoes(HostIoError)
  PROVE  TypeOK' /\ ProtocolInv'
<1> USE DEF ProtocolInv, HostDoes, ClientDoes, hostVars, clientVars, linkVars
<1>1. TypeOK'
  BY DEF TypeOK, HostPoints, HostIoError
<1>2. ProtocolInv'
  BY DEF SocketsInv, HostInv, ClientInv, ToClientInv, ToHostInv, HandoffInv,
      Talking, Forwarding, ExpectsInput, HostIoError
<1> QED BY <1>1, <1>2

\* The compositor ends the capture.
LEMMA CaptureEndsStep ==
  ASSUME TypeOK, ProtocolInv, CaptureEnds, UNCHANGED clientVars,
         faults' \in 0 .. MaxFaults
  PROVE  TypeOK' /\ ProtocolInv'
<1> USE DEF ProtocolInv, HostDoes, ClientDoes, hostVars, clientVars, linkVars
<1>1. TypeOK'
  BY DEF TypeOK, HostPoints, CaptureEnds
<1>2. ProtocolInv'
  BY DEF SocketsInv, HostInv, ClientInv, ToClientInv, ToHostInv, HandoffInv,
      Talking, Forwarding, ExpectsInput, CaptureEnds
<1> QED BY <1>1, <1>2

\* The host process is killed.
LEMMA HostCrashStep ==
  ASSUME TypeOK, ProtocolInv, HostCrash, UNCHANGED clientVars, faults' \in 0 .. MaxFaults
  PROVE  TypeOK' /\ ProtocolInv'
<1> USE DEF ProtocolInv, HostDoes, ClientDoes, hostVars, clientVars, linkVars
<1>1. TypeOK'
  BY NaturalBounds, ControllerConstants, EmptyQueue DEF TypeOK, HostPoints,
      HostCrash, HostProcessEnds, HostCloses
<1>2. ProtocolInv'
  BY EmptyQueue DEF SocketsInv, HostInv, ClientInv, ToClientInv, ToHostInv,
      HandoffInv, Talking, Forwarding, OnlyPongs, ExpectsInput, Released,
      HostCrash, HostProcessEnds, HostCloses
<1> QED BY <1>1, <1>2

\* The host reads the answer to its Enter.
LEMMA ReceiveReplyStep ==
  ASSUME TypeOK, ProtocolInv, HostDoes(ReceiveReply)
  PROVE  TypeOK' /\ ProtocolInv'
<1> USE DEF ProtocolInv, HostDoes, ClientDoes, hostVars, clientVars, linkVars
<1> DEFINE h == Head(toHost)
<1>a. /\ toHost # <<>> /\ toHost' \in Seq(ClientMessages) /\ h \in ClientMessages
      /\ Shrinks(toHost, toHost', h)
  BY HostReadsQueue DEF ReceiveReply
<1>b. /\ hpc = "await"
      /\ UNCHANGED <<lastActivation, captured, selected, pendingProbe, hostOpen,
                     clientOpen, cut, clientVars, faults>>
  BY DEF ReceiveReply
<1> HIDE DEF h
<1>1. CASE h.kind = "EnterAck"
  <2>a. /\ controller' = RemoteActive /\ UNCHANGED <<activation, toClient>>
        /\ hpc' \in {"loop", "cleanup"}
        /\ ~InFlight(toHost', "EnterAck") /\ ~InFlight(toHost', "EnterRejected")
    BY <1>a, <1>b, <1>1 DEF ReceiveReply, PeerEntryAcknowledged, ToHostInv,
       Talking, Replies,
       Shrinks, h
  <2>1. TypeOK'
    BY <1>a, <1>b, <2>a, ControllerConstants DEF TypeOK, HostPoints
  <2>2. ProtocolInv'
    BY <1>a, <1>b, <1>1, <2>a DEF SocketsInv, HostInv, ClientInv,
        ToClientInv, ToHostInv, HandoffInv, Talking, AllBenign, OnlyPongs,
        Replies, ExpectsInput, Released, Shrinks
  <2> QED BY <2>1, <2>2
<1>2. CASE h.kind = "EnterRejected"
  <2>a. /\ controller' = Local /\ activation' = 0 /\ UNCHANGED toClient
        /\ hpc' \in {"arm", "cleanup"}
        /\ ~InFlight(toHost', "EnterAck") /\ ~InFlight(toHost', "EnterRejected")
    BY <1>a, <1>b, <1>2 DEF ReceiveReply, PeerEntryRejected, ToHostInv, Talking, Replies,
       Shrinks, h
  <2>1. TypeOK'
    BY <1>a, <1>b, <2>a, NaturalBounds, ControllerConstants DEF TypeOK,
        HostPoints
  <2>2. ProtocolInv'
    BY <1>a, <1>b, <1>2, <2>a DEF SocketsInv, HostInv, ClientInv,
        ToClientInv, ToHostInv, HandoffInv, Talking, Forwarding, OnlyPongs,
        Replies, ExpectsInput, Released, Shrinks
  <2> QED BY <2>1, <2>2
<1>3. CASE h.kind \notin {"EnterAck", "EnterRejected"}
  <2>c. HostClose /\ hpc' = "cleanup"
    BY <1>3 DEF ReceiveReply, h
  <2>d. controller' = Local /\ activation' = 0 /\ toClient' \in Seq(HostMessages)
    BY <2>c, HostCloseType
  <2> DEFINE m == Msg("HandoffRelease", lastActivation, NoBody)
  <2>a. m \in HostMessages /\ m.kind = "HandoffRelease" /\ m.act = lastActivation
    BY ReleaseMessage DEF TypeOK, Msg
  <2>b. /\ toClient' \in Seq(HostMessages)
        /\ toClient' = toClient \/ (clientOpen /\ Grows(toClient, toClient', m))
    BY <2>a, HostSendQueue, <2>c DEF HostClose, TypeOK
  <2> HIDE DEF m
  <2>1. TypeOK'
    BY <1>a, <1>b, <2>c, <2>d, NaturalBounds, ControllerConstants DEF
        TypeOK, HostPoints
  <2>2. ProtocolInv'
    BY <1>a, <1>b, <2>a, <2>b, <2>c DEF SocketsInv, HostInv, ClientInv,
        ToClientInv, ToHostInv, HandoffInv, Talking, Forwarding, OnlyPongs,
        ExpectsInput, Released, Shrinks, Grows
  <2> QED BY <2>1, <2>2
<1> QED BY <1>1, <1>2, <1>3 

\* The host reads a message in the course of a handoff.
LEMMA PollControlStep ==
  ASSUME TypeOK, ProtocolInv, HostDoes(PollControl)
  PROVE  TypeOK' /\ ProtocolInv'
<1> USE DEF ProtocolInv, HostDoes, ClientDoes, hostVars, clientVars, linkVars
<1> DEFINE h == Head(toHost)
<1>a. /\ toHost # <<>> /\ toHost' \in Seq(ClientMessages) /\ h \in ClientMessages
      /\ Shrinks(toHost, toHost', h)
  BY HostReadsQueue DEF PollControl
<1>b. /\ hpc \in {"loop", "recheck"} /\ controller = RemoteActive
      /\ UNCHANGED <<lastActivation, captured, hostOpen, clientOpen, cut,
                     clientVars, faults>>
  BY DEF PollControl, PollPoints, HostInv, Forwarding
<1>c. NoEvent = [act |-> 0, control |-> "none", down |-> FALSE]
  BY DEF NoEvent
<1>1. CASE /\ h.kind = "DiagnosticPong" /\ pendingProbe' = FALSE
              /\ UNCHANGED <<controller, activation, selected, toClient>>
              /\ hpc' = AfterControl
  <2>a. (hpc = "loop" /\ hpc' = "loop") \/ (hpc = "recheck" /\ hpc' = "forward")
    BY <1>1, <1>b DEF AfterControl, RemoteActive
  <2>1. TypeOK'
    BY <1>a, <1>b, <1>1, <2>a DEF TypeOK, HostPoints
  <2>2. ProtocolInv'
    BY <1>a, <1>b, <1>1, <2>a DEF SocketsInv, HostInv, ClientInv,
        ToClientInv, ToHostInv, HandoffInv, Talking, Forwarding, AllBenign,
        ExpectsInput, Released, Shrinks
  <2> QED BY <2>1, <2>2
<1>2. CASE /\ h.kind = "ExitRequest" /\ controller' = Local /\ activation' = 0
              /\ HostSend(Msg("HandoffRelease", lastActivation, NoBody))
              /\ hpc' = AfterControl /\ selected' = NoEvent /\ UNCHANGED pendingProbe
  <2>c. /\ hpc' = "arm" /\ ~InFlight(toHost', "ExitRequest")
        /\ clientOpen => returnPending /\ AllBenign
    BY <1>a, <1>2, <1>b DEF AfterControl, Local, ToHostInv, Talking, Shrinks
  <2> DEFINE m == Msg("HandoffRelease", lastActivation, NoBody)
  <2>a. m \in HostMessages /\ m.kind = "HandoffRelease" /\ m.act = lastActivation
    BY ReleaseMessage DEF TypeOK, Msg
  <2>b. /\ toClient' \in Seq(HostMessages)
        /\ toClient' = toClient \/ (clientOpen /\ Grows(toClient, toClient', m))
    BY <2>a, HostSendQueue, <1>2
  <2> HIDE DEF m
  <2>1. TypeOK'
    BY <1>a, <1>b, <1>2, <2>b, <2>c, NaturalBounds, ControllerConstants DEF
        TypeOK, HostPoints
  <2>2. ProtocolInv'
    BY <1>a, <1>b, <1>2, <2>a, <2>b, <2>c DEF SocketsInv, HostInv,
        ClientInv, ToClientInv, ToHostInv, HandoffInv, Talking, Forwarding,
        Replies, ExpectsInput, Released, Shrinks, Grows
  <2> QED BY <2>1, <2>2
<1>3. CASE /\ controller' = Local /\ activation' = 0 /\ hpc' = "cleanup"
              /\ selected' = NoEvent /\ UNCHANGED <<toClient, pendingProbe>>
  <2>1. TypeOK'
    BY <1>a, <1>b, <1>3, NaturalBounds, ControllerConstants DEF TypeOK,
        HostPoints
  <2>2. ProtocolInv'
    BY <1>b, <1>3 DEF SocketsInv, HostInv, ClientInv, ToClientInv,
        ToHostInv, HandoffInv, Talking, Forwarding, ExpectsInput
  <2> QED BY <2>1, <2>2
<1>4. CASE HostClose /\ hpc' = "cleanup" /\ selected' = NoEvent /\ UNCHANGED pendingProbe
  <2>c. controller' = Local /\ activation' = 0 /\ toClient' \in Seq(HostMessages)
    BY <1>4, HostCloseType
  <2> DEFINE m == Msg("HandoffRelease", lastActivation, NoBody)
  <2>a. m \in HostMessages /\ m.kind = "HandoffRelease" /\ m.act = lastActivation
    BY ReleaseMessage DEF TypeOK, Msg
  <2>b. /\ toClient' \in Seq(HostMessages)
        /\ toClient' = toClient \/ (clientOpen /\ Grows(toClient, toClient', m))
    BY <2>a, HostSendQueue, <1>4 DEF HostClose, TypeOK
  <2> HIDE DEF m
  <2>1. TypeOK'
    BY <1>a, <1>b, <1>4, <2>c, NaturalBounds, ControllerConstants DEF
        TypeOK, HostPoints
  <2>2. ProtocolInv'
    BY <1>b, <1>4, <2>a, <2>b DEF SocketsInv, HostInv, ClientInv,
        ToClientInv, ToHostInv, HandoffInv, Talking, Forwarding,
        ExpectsInput, Grows
  <2> QED BY <2>1, <2>2
<1> QED BY <1>1, <1>2, <1>3, <1>4 DEF PollControl, PeerExitActivated

\* The host process closes and exits.
LEMMA HostCleanupStep ==
  ASSUME TypeOK, ProtocolInv, HostDoes(HostCleanup)
  PROVE  TypeOK' /\ ProtocolInv'
<1> USE DEF ProtocolInv, HostDoes, ClientDoes, hostVars, clientVars, linkVars
<1>c. hpc = "cleanup" /\ HostProcessEnds /\ HostClose
  BY DEF HostCleanup
<1>d. controller' = Local /\ activation' = 0 /\ toClient' \in Seq(HostMessages)
  BY <1>c, HostCloseType
<1> DEFINE m == Msg("HandoffRelease", lastActivation, NoBody)
<1>a. m \in HostMessages /\ m.kind = "HandoffRelease" /\ m.act = lastActivation
  BY ReleaseMessage DEF TypeOK, Msg
<1>b.  toClient' = toClient \/ (clientOpen /\ Grows(toClient, toClient', m))
  BY <1>a, HostSendQueue, <1>c DEF HostClose, TypeOK
<1> HIDE DEF m
<1>1. TypeOK'
  BY <1>c, <1>d, NaturalBounds, ControllerConstants, EmptyQueue DEF TypeOK,
      HostPoints, HostProcessEnds, HostCloses
<1>2. ProtocolInv'
  BY <1>a, <1>b, <1>c, <1>d, EmptyQueue DEF SocketsInv, HostInv, ClientInv,
      ToClientInv, ToHostInv, HandoffInv, Talking, Forwarding, OnlyPongs,
      ExpectsInput, Released, HostProcessEnds, HostCloses, Grows
<1> QED BY <1>1, <1>2

\* The pointer reaches the return barrier.
LEMMA BarrierHitStep ==
  ASSUME TypeOK, ProtocolInv, ClientDoes(BarrierHit)
  PROVE  TypeOK' /\ ProtocolInv'
<1> USE DEF ProtocolInv, HostDoes, ClientDoes, hostVars, clientVars, linkVars
<1>1. TypeOK'
  BY NaturalBounds DEF TypeOK, BarrierHit
<1>2. ProtocolInv'
  BY DEF SocketsInv, HostInv, ClientInv, ToClientInv, ToHostInv, HandoffInv,
      AllBenign, OnlyPongs, ExpectsInput, Released, BarrierHit
<1> QED BY <1>1, <1>2

\* The compositor ends the session of the return barrier.
LEMMA PollExitFailsStep ==
  ASSUME TypeOK, ProtocolInv, PollExitFails, UNCHANGED hostVars,
         faults' \in 0 .. MaxFaults
  PROVE  TypeOK' /\ ProtocolInv'
<1> USE DEF ProtocolInv, HostDoes, ClientDoes, hostVars, clientVars, linkVars
<1>1. TypeOK'
  BY DEF TypeOK, ClientPoints, PollExitFails
<1>2. ProtocolInv'
  BY DEF SocketsInv, HostInv, ClientInv, ToClientInv, ToHostInv, HandoffInv,
      AllBenign, OnlyPongs, ExpectsInput, Released, PollExitFails
<1> QED BY <1>1, <1>2

\* The client has asked for the return and releases.
LEMMA FinishExitStep ==
  ASSUME TypeOK, ProtocolInv, ClientDoes(FinishExit)
  PROVE  TypeOK' /\ ProtocolInv'
<1> USE DEF ProtocolInv, HostDoes, ClientDoes, hostVars, clientVars, linkVars
<1>1. TypeOK'
  BY DEF TypeOK, ClientPoints, FinishExit, ClientClose
<1>2. ProtocolInv'
  BY DEF SocketsInv, HostInv, ClientInv, ToClientInv, ToHostInv, HandoffInv,
      AllBenign, OnlyPongs, ExpectsInput, Released, FinishExit, ClientClose
<1> QED BY <1>1, <1>2

\* The client accepts a handoff; it is never in one then.
LEMMA HandleEnterStep ==
  ASSUME TypeOK, ProtocolInv, ClientDoes(HandleEnter)
  PROVE  TypeOK' /\ ProtocolInv'
<1> USE DEF ProtocolInv, HostDoes, ClientDoes, hostVars, clientVars, linkVars
<1> DEFINE h == Head(toClient)
<1>0. /\ cpc = "recv" /\ toClient # <<>> /\ toClient' \in Seq(HostMessages)
      /\ h \in HostMessages /\ h.kind = "Enter" /\ Shrinks(toClient, toClient', h)
      /\ UNCHANGED <<barrier, hostOpen, clientOpen, cut>>
  BY ClientReadsQueue DEF HandleEnter
<1> HIDE DEF h
<1>e. /\ ~remoteActive /\ OnlyPongs /\ ~InFlight(toClient', "Enter")
      /\ InputFirst(toClient') /\ ~InFlight(toClient', "Input")
      /\ hpc \in Talking => /\ hpc = "await" /\ toClient' = <<>>
                             /\ h.act = lastActivation
  <2>1. ~remoteActive /\ OnlyPongs /\ ~InFlight(toClient', "Enter")
        /\ InputFirst(toClient') /\ ~InFlight(toClient', "Input")
    BY <1>0 DEF ToClientInv, Released, Shrinks, Benign
  <2>2. ASSUME toClient' # <<>> PROVE toClient[Len(toClient)].kind # "Enter"
    BY <1>0, <2>1, <2>2, LastInFlight DEF Shrinks
  <2> QED BY <1>0, <2>1, <2>2 DEF ToClientInv, Shrinks
<1>f. /\ cpc' = "top" /\ ClientSend(Msg("EnterAck", h.act, NoBody))
      /\ remoteActive' = TRUE /\ returnPending' = FALSE /\ pressed' = pressed
      /\ entry' = h.body /\ entry' \in Point
      /\ handoff' = h.act /\ handoff' \in 1 .. MaxActivations
      /\ UNCHANGED <<hostVars, faults>>
  BY <1>0, <1>e DEF HandleEnter, HostMessages, h
<1> DEFINE m == Msg("EnterAck", h.act, NoBody)
<1>a. m \in ClientMessages /\ m.kind = "EnterAck" /\ m.act = h.act
  BY <1>0, NaturalBounds DEF Msg, ClientMessages, HostMessages, Acts
<1>b. /\ toHost' \in Seq(ClientMessages)
      /\ toHost' = toHost \/ (hostOpen /\ Grows(toHost, toHost', m))
  BY <1>a, ClientSendQueue, <1>f
<1> HIDE DEF m
<1>1. TypeOK'
  BY <1>0, <1>b, <1>f, NaturalBounds DEF TypeOK, ClientPoints
<1>2. SocketsInv' /\ HostInv' /\ ClientInv'
  BY <1>0, <1>b, <1>f DEF SocketsInv, HostInv, ClientInv
<1>3. ToClientInv'
  BY <1>0 DEF ToClientInv, Benign, Shrinks
<1>4. ToHostInv'
  BY <1>0, <1>a, <1>b, <1>e, <1>f, EmptyQueue DEF SocketsInv, ToHostInv,
      Benign, AllBenign, Replies, ExpectsInput, Shrinks, Grows
<1>5. HandoffInv'
  BY <1>e, <1>f, EmptyQueue DEF HandoffInv, Talking, Forwarding, AllBenign
<1> QED BY <1>1, <1>2, <1>3, <1>4, <1>5 DEF ProtocolInv

\* The client cannot prepare a handoff and ends the session.
LEMMA HandleEnterFailsStep ==
  ASSUME TypeOK, ProtocolInv, ClientDoes(HandleEnterFails)
  PROVE  TypeOK' /\ ProtocolInv'
<1> USE DEF ProtocolInv, HostDoes, ClientDoes, hostVars, clientVars, linkVars
<1> DEFINE h == Head(toClient)
<1>0. /\ cpc = "recv" /\ toClient # <<>> /\ toClient' \in Seq(HostMessages)
      /\ h \in HostMessages /\ h.kind = "Enter" /\ Shrinks(toClient, toClient', h)
      /\ UNCHANGED <<barrier, hostOpen, clientOpen, cut>>
  BY ClientReadsQueue DEF HandleEnterFails
<1> HIDE DEF h
<1>e. /\ ~remoteActive /\ OnlyPongs /\ ~InFlight(toClient', "Enter")
      /\ InputFirst(toClient') /\ ~InFlight(toClient', "Input")
      /\ hpc \in Talking => /\ hpc = "await" /\ toClient' = <<>>
                             /\ h.act = lastActivation
  <2>1. ~remoteActive /\ OnlyPongs /\ ~InFlight(toClient', "Enter")
        /\ InputFirst(toClient') /\ ~InFlight(toClient', "Input")
    BY <1>0 DEF ToClientInv, Released, Shrinks, Benign
  <2>2. ASSUME toClient' # <<>> PROVE toClient[Len(toClient)].kind # "Enter"
    BY <1>0, <2>1, <2>2, LastInFlight DEF Shrinks
  <2> QED BY <1>0, <2>1, <2>2 DEF ToClientInv, Shrinks
<1> DEFINE m == Msg("EnterRejected", h.act, NoBody)
<1>a. m \in ClientMessages /\ m.kind = "EnterRejected" /\ m.act = h.act
  BY <1>0, NaturalBounds DEF Msg, ClientMessages, HostMessages, Acts
<1>b. /\ toHost' \in Seq(ClientMessages)
      /\ toHost' = toHost \/ (hostOpen /\ Grows(toHost, toHost', m))
  BY <1>a, ClientSendQueue DEF HandleEnterFails, h
<1> HIDE DEF m
<1>1. TypeOK'
  BY <1>0, <1>b DEF TypeOK, ClientPoints, HandleEnterFails
<1>2. ProtocolInv'
  BY <1>0, <1>a, <1>b, <1>e DEF SocketsInv, HostInv, ClientInv, ToClientInv,
      ToHostInv, HandoffInv, Benign, AllBenign, Replies, Released,
      HandleEnterFails, Shrinks, Grows
<1> QED BY <1>1, <1>2

\* The client injects an event or, its return pending, drops it.
LEMMA HandleInputStep ==
  ASSUME TypeOK, ProtocolInv, ClientDoes(HandleInput)
  PROVE  TypeOK' /\ ProtocolInv'
<1> USE DEF ProtocolInv, HostDoes, ClientDoes, hostVars, clientVars, linkVars
<1> DEFINE h == Head(toClient)
<1>0. /\ cpc = "recv" /\ toClient # <<>> /\ toClient' \in Seq(HostMessages)
      /\ h \in HostMessages /\ h.kind = "Input" /\ Shrinks(toClient, toClient', h)
      /\ UNCHANGED <<barrier, hostOpen, clientOpen, cut>>
  BY ClientReadsQueue DEF HandleInput
<1> HIDE DEF h
<1>g. remoteActive => pressed' \subseteq [control : Controls, act : Acts]
  <2>1. h.body.control \in Controls /\ h.act \in Acts
    BY <1>0, NaturalBounds DEF HostMessages
  <2>2. [control |-> h.body.control, act |-> h.act] \in [control : Controls, act : Acts]
    BY <2>1
  <2> QED BY <2>2 DEF HandleInput, Inject, TypeOK, h
<1>1. TypeOK'
  BY <1>0, <1>g DEF TypeOK, ClientPoints, HandleInput, ClientClose
<1>2. ProtocolInv'
  BY <1>0 DEF SocketsInv, HostInv, ClientInv, ToClientInv, ToHostInv,
      HandoffInv, AllBenign, OnlyPongs, ExpectsInput, Released, HandleInput,
      Shrinks
<1> QED BY <1>1, <1>2

\* The client cannot inject an event and ends the session.
LEMMA HandleInputFailsStep ==
  ASSUME TypeOK, ProtocolInv, ClientDoes(HandleInputFails)
  PROVE  TypeOK' /\ ProtocolInv'
<1> USE DEF ProtocolInv, HostDoes, ClientDoes, hostVars, clientVars, linkVars
<1> DEFINE h == Head(toClient)
<1>0. /\ cpc = "recv" /\ toClient # <<>> /\ toClient' \in Seq(HostMessages)
      /\ h \in HostMessages /\ h.kind = "Input" /\ Shrinks(toClient, toClient', h)
      /\ UNCHANGED <<barrier, hostOpen, clientOpen, cut>>
  BY ClientReadsQueue DEF HandleInputFails
<1> HIDE DEF h
<1>1. TypeOK'
  BY <1>0 DEF TypeOK, ClientPoints, HandleInputFails
<1>2. ProtocolInv'
  BY <1>0 DEF SocketsInv, HostInv, ClientInv, ToClientInv, ToHostInv,
      HandoffInv, AllBenign, ExpectsInput, Released, HandleInputFails,
      Shrinks
<1> QED BY <1>1, <1>2

\* The client reads a heartbeat.
LEMMA HandleHeartbeatStep ==
  ASSUME TypeOK, ProtocolInv, ClientDoes(HandleHeartbeat)
  PROVE  TypeOK' /\ ProtocolInv'
<1> USE DEF ProtocolInv, HostDoes, ClientDoes, hostVars, clientVars, linkVars
<1> DEFINE h == Head(toClient)
<1>0. /\ cpc = "recv" /\ toClient # <<>> /\ toClient' \in Seq(HostMessages)
      /\ h \in HostMessages /\ h.kind = "Heartbeat" /\ Shrinks(toClient, toClient', h)
      /\ UNCHANGED <<barrier, hostOpen, clientOpen, cut>>
  BY ClientReadsQueue DEF HandleHeartbeat
<1> HIDE DEF h
<1>1. TypeOK'
  BY <1>0 DEF TypeOK, ClientPoints, HandleHeartbeat
<1>2. ProtocolInv'
  BY <1>0 DEF SocketsInv, HostInv, ClientInv, ToClientInv, ToHostInv,
      HandoffInv, AllBenign, OnlyPongs, ExpectsInput, Released,
      HandleHeartbeat, Shrinks
<1> QED BY <1>1, <1>2

\* The client is released.
LEMMA HandleReleaseStep ==
  ASSUME TypeOK, ProtocolInv, ClientDoes(HandleRelease)
  PROVE  TypeOK' /\ ProtocolInv'
<1> USE DEF ProtocolInv, HostDoes, ClientDoes, hostVars, clientVars, linkVars
<1> DEFINE h == Head(toClient)
<1>0. /\ cpc = "recv" /\ toClient # <<>> /\ toClient' \in Seq(HostMessages)
      /\ h \in HostMessages /\ h.kind = "HandoffRelease"
      /\ Shrinks(toClient, toClient', h)
      /\ UNCHANGED <<barrier, hostOpen, clientOpen, cut>>
  BY ClientReadsQueue DEF HandleRelease
<1> HIDE DEF h
<1>1. TypeOK'
  BY <1>0 DEF TypeOK, ClientPoints, HandleRelease, ClientClose
<1>2. SocketsInv' /\ HostInv' /\ ClientInv'
  BY <1>0 DEF SocketsInv, HostInv, ClientInv, HandleRelease, ClientClose
<1>3. ToClientInv'
  BY <1>0 DEF ToClientInv, Benign, OnlyPongs, Released, HandleRelease,
      Shrinks, ClientClose
<1>4. ToHostInv'
  BY <1>0 DEF ToHostInv, Benign, AllBenign, HandleRelease, Shrinks
<1>5. HandoffInv'
  BY <1>0, NaturalBounds, EmptyQueue DEF HandoffInv, Benign, AllBenign,
      Released, HandleRelease, Shrinks, ClientClose
<1> QED BY <1>1, <1>2, <1>3, <1>4, <1>5 DEF ProtocolInv

\* The client echoes a latency probe.
LEMMA HandlePingStep ==
  ASSUME TypeOK, ProtocolInv, ClientDoes(HandlePing)
  PROVE  TypeOK' /\ ProtocolInv'
<1> USE DEF ProtocolInv, HostDoes, ClientDoes, hostVars, clientVars, linkVars
<1> DEFINE h == Head(toClient)
<1>0. /\ cpc = "recv" /\ toClient # <<>> /\ toClient' \in Seq(HostMessages)
      /\ h \in HostMessages /\ h.kind = "DiagnosticPing"
      /\ Shrinks(toClient, toClient', h)
      /\ UNCHANGED <<barrier, hostOpen, clientOpen, cut>>
  BY ClientReadsQueue DEF HandlePing
<1> HIDE DEF h
<1> DEFINE m == Msg("DiagnosticPong", handoff, NoBody)
<1>a. m \in ClientMessages /\ m.kind = "DiagnosticPong" /\ m.act = handoff
  BY NaturalBounds DEF Msg, ClientMessages, TypeOK
<1>b. /\ toHost' \in Seq(ClientMessages)
      /\ toHost' = toHost \/ (hostOpen /\ Grows(toHost, toHost', m))
  BY <1>a, ClientSendQueue DEF HandlePing
<1> HIDE DEF m
<1>1. TypeOK'
  BY <1>0, <1>b DEF TypeOK, ClientPoints, HandlePing
<1>2. ProtocolInv'
  BY <1>0, <1>a, <1>b DEF SocketsInv, HostInv, ClientInv, ToClientInv,
      ToHostInv, HandoffInv, Talking, Forwarding, Benign, AllBenign,
      OnlyPongs, Replies, ExpectsInput, Released, HandlePing, Shrinks, Grows
<1> QED BY <1>1, <1>2

\* Nothing has arrived at the client.
LEMMA NothingReceivedStep ==
  ASSUME TypeOK, ProtocolInv, ClientDoes(NothingReceived)
  PROVE  TypeOK' /\ ProtocolInv'
<1> USE DEF ProtocolInv, HostDoes, ClientDoes, hostVars, clientVars, linkVars
<1>1. TypeOK'
  BY DEF TypeOK, ClientPoints, NothingReceived
<1>2. ProtocolInv'
  BY DEF SocketsInv, HostInv, ClientInv, ToClientInv, ToHostInv, HandoffInv,
      AllBenign, OnlyPongs, ExpectsInput, Released, NothingReceived
<1> QED BY <1>1, <1>2

\* The client has waited too long for the host.
LEMMA PeerTimeoutStep ==
  ASSUME TypeOK, ProtocolInv, ClientDoes(PeerTimeout)
  PROVE  TypeOK' /\ ProtocolInv'
<1> USE DEF ProtocolInv, HostDoes, ClientDoes, hostVars, clientVars, linkVars
<1>1. TypeOK'
  BY DEF TypeOK, ClientPoints, PeerTimeout
<1>2. ProtocolInv'
  BY DEF SocketsInv, HostInv, ClientInv, ToClientInv, ToHostInv, HandoffInv,
      AllBenign, ExpectsInput, Released, PeerTimeout
<1> QED BY <1>1, <1>2

\* The client finds its connection broken.
LEMMA ClientIoErrorStep ==
  ASSUME TypeOK, ProtocolInv, ClientDoes(ClientIoError)
  PROVE  TypeOK' /\ ProtocolInv'
<1> USE DEF ProtocolInv, HostDoes, ClientDoes, hostVars, clientVars, linkVars
<1>1. TypeOK'
  BY DEF TypeOK, ClientPoints, ClientIoError
<1>2. ProtocolInv'
  BY DEF SocketsInv, HostInv, ClientInv, ToClientInv, ToHostInv, HandoffInv,
      AllBenign, OnlyPongs, ExpectsInput, Released, ClientIoError
<1> QED BY <1>1, <1>2

\* The client releases and drops the connection.
LEMMA ClientCleanupStep ==
  ASSUME TypeOK, ProtocolInv, ClientDoes(ClientCleanup)
  PROVE  TypeOK' /\ ProtocolInv'
<1> USE DEF ProtocolInv, HostDoes, ClientDoes, hostVars, clientVars, linkVars
<1>1. TypeOK'
  BY EmptyQueue DEF TypeOK, ClientPoints, ClientCleanup, ClientClose,
      ClientCloses
<1>2. ProtocolInv'
  BY EmptyQueue DEF SocketsInv, HostInv, ClientInv, ToClientInv, ToHostInv,
      HandoffInv, ClientCleanup, ClientClose, ClientCloses
<1> QED BY <1>1, <1>2

\* The client process is killed.
LEMMA ClientCrashStep ==
  ASSUME TypeOK, ProtocolInv, ClientCrash, UNCHANGED hostVars, faults' \in 0 .. MaxFaults
  PROVE  TypeOK' /\ ProtocolInv'
<1> USE DEF ProtocolInv, HostDoes, ClientDoes, hostVars, clientVars, linkVars
<1>1. TypeOK'
  BY EmptyQueue DEF TypeOK, ClientPoints, ClientCrash, ClientClose,
      ClientCloses
<1>2. ProtocolInv'
  BY EmptyQueue DEF SocketsInv, HostInv, ClientInv, ToClientInv, ToHostInv,
      HandoffInv, ClientCrash, ClientClose, ClientCloses
<1> QED BY <1>1, <1>2

\* The network fails.
LEMMA LinkCutStep ==
  ASSUME TypeOK, ProtocolInv, LinkCut, UNCHANGED <<hostVars, clientVars>>,
         faults' \in 0 .. MaxFaults
  PROVE  TypeOK' /\ ProtocolInv'
<1> USE DEF ProtocolInv, HostDoes, ClientDoes, hostVars, clientVars, linkVars
<1>1. TypeOK'
  BY DEF TypeOK, LinkCut
<1>2. ProtocolInv'
  BY DEF SocketsInv, HostInv, ClientInv, ToClientInv, ToHostInv, HandoffInv,
      AllBenign, OnlyPongs, ExpectsInput, Released, LinkCut
<1> QED BY <1>1, <1>2

\* A handoff starts; nothing of the last one is on its way to the host.
LEMMA ActivateStep ==
  ASSUME TypeOK, ProtocolInv, NEW y \in ActivationYs, HostDoes(Activate(y))
  PROVE  TypeOK' /\ ProtocolInv'
<1> USE DEF ProtocolInv, HostDoes, ClientDoes, hostVars, clientVars, linkVars
<1> DEFINE p == BarrierPoint(y)
           e == EntryPoint(Layout, p)
<1>a. p \in Point /\ e \in Point /\ OnDepartureEdge(Layout, p)
  <2>1. p \in Point /\ OnDepartureEdge(Layout, p)
    BY BarrierPointType DEF Activate, LocalEdgeActivated
  <2> QED BY <2>1, EntryPointInside, HostAssumption
<1>b. /\ hpc = "arm" /\ lastActivation' = lastActivation + 1
      /\ activation' = lastActivation' /\ controller' = EntryPending(e, p)
      /\ controller' \in ControllerStates /\ controller'.tag = "EntryPending"
      /\ controller'.entry = e
      /\ UNCHANGED <<captured, selected, pendingProbe, toHost, hostOpen,
                     clientOpen, cut, clientVars, faults>>
  BY <1>a DEF Activate, LocalEdgeActivated, EntryPending, ControllerStates
<1>c. lastActivation' \in 1 .. MaxActivations
  BY NaturalBounds DEF Activate, Acts, TypeOK
<1>d. OnlyPongs /\ About(toHost, lastActivation')
  <2>1. \A i \in 1 .. Len(toHost) :
          toHost[i].kind \in Replies \cup {"ExitRequest", "DiagnosticPong"}
    BY DEF TypeOK, ClientMessages, Replies
  <2> QED BY <1>b, <2>1
          DEF ToHostInv, Talking, Replies, InFlight, OnlyPongs, OnlyKinds, About
<1>e. ~InFlight(toClient, "Enter")
  BY <1>b DEF ToClientInv, Talking
<1> HIDE DEF p, e
<1>1. CASE HostSend(Msg("Enter", lastActivation', e)) /\ hpc' = "await"
  <2> DEFINE m == Msg("Enter", lastActivation', e)
  <2>a. m \in HostMessages /\ m.kind = "Enter" /\ m.act = lastActivation'
    BY <1>a, <1>c DEF Msg, HostMessages
  <2>b. /\ toClient' \in Seq(HostMessages)
        /\ toClient' = toClient \/ (clientOpen /\ Grows(toClient, toClient', m))
    BY <2>a, HostSendQueue, <1>1
  <2> HIDE DEF m
  <2>1. TypeOK'
    BY <1>b, <1>c, <1>1, <2>b, NaturalBounds DEF TypeOK, HostPoints
  <2>2. SocketsInv' /\ HostInv' /\ ClientInv'
    BY <1>b, <1>1, <2>b, NaturalBounds DEF TypeOK, SocketsInv, HostInv,
        ClientInv, Talking, Forwarding
  <2>3. ToClientInv'
    BY <1>b, <1>d, <1>1, <2>a, <2>b DEF ToClientInv, HandoffInv, Talking,
        OnlyPongs, ExpectsInput, Released, Grows
  <2>4. ToHostInv'
    BY <1>b, <1>d DEF ToHostInv, Talking, Replies
  <2>5. HandoffInv'
    BY <1>b, <1>1 DEF HandoffInv, Forwarding, Released
  <2> QED BY <2>1, <2>2, <2>3, <2>4, <2>5 DEF ProtocolInv
<1>2. CASE hpc' = "cleanup" /\ UNCHANGED toClient
  <2>1. TypeOK'
    BY <1>b, <1>c, <1>2, NaturalBounds DEF TypeOK, HostPoints
  <2>2. ProtocolInv'
    BY <1>b, <1>2 DEF SocketsInv, HostInv, ClientInv, ToClientInv,
        ToHostInv, HandoffInv, Talking, Forwarding, ExpectsInput
  <2> QED BY <2>1, <2>2
<1> QED BY <1>1, <1>2, <1>b DEF Activate

\* The compositor reports a height outside the display.
LEMMA ActivateOutsideStep ==
  ASSUME TypeOK, ProtocolInv, NEW y \in ActivationYs, HostDoes(ActivateOutside(y))
  PROVE  TypeOK' /\ ProtocolInv'
<1> USE DEF ProtocolInv, HostDoes, ClientDoes, hostVars, clientVars, linkVars
<1>0. lastActivation' \in 1 .. MaxActivations
  BY NaturalBounds DEF ActivateOutside, Acts, TypeOK
<1>1. TypeOK'
  BY <1>0, NaturalBounds DEF TypeOK, HostPoints, ActivateOutside
<1>2. ProtocolInv'
  BY DEF SocketsInv, HostInv, ClientInv, ToClientInv, ToHostInv, HandoffInv,
      Talking, Forwarding, ExpectsInput, ActivateOutside
<1> QED BY <1>1, <1>2

\* The client looks at the return barrier and, in a handoff, asks for the return.
LEMMA PollExitStep ==
  ASSUME TypeOK, ProtocolInv, ClientDoes(PollExit)
  PROVE  TypeOK' /\ ProtocolInv'
<1> USE DEF ProtocolInv, HostDoes, ClientDoes, hostVars, clientVars, linkVars
<1>a. /\ cpc = "top"
      /\ UNCHANGED <<remoteActive, entry, pressed, handoff, toClient, hostOpen,
                     clientOpen, cut, hostVars, faults>>
  BY DEF PollExit
<1>1. CASE cpc' = "recv" /\ UNCHANGED <<returnPending, toHost>>
  <2>a. barrier' \in Seq(Acts)
    BY <1>1, TailAt DEF PollExit, TypeOK
  <2>1. TypeOK'
    BY <1>a, <1>1, <2>a DEF TypeOK, ClientPoints
  <2>2. ProtocolInv'
    BY <1>a, <1>1 DEF SocketsInv, HostInv, ClientInv, ToClientInv,
        ToHostInv, HandoffInv, AllBenign, OnlyPongs, ExpectsInput, Released
  <2> QED BY <2>1, <2>2
<1>2. CASE /\ barrier # <<>> /\ remoteActive /\ barrier' = Tail(barrier)
              /\ \E y \in ExitYs :
                   ClientSend(Msg("ExitRequest", handoff,
                     [edge |-> ReturnEdge, at |-> [x |-> ReturnX, y |-> y]]))
              /\ returnPending' = TRUE /\ cpc' = "exiting"
  <2>0. PICK y \in ExitYs :
               ClientSend(Msg("ExitRequest", handoff,
                 [edge |-> ReturnEdge, at |-> [x |-> ReturnX, y |-> y]]))
    BY <1>2
  <2>t. ReturnX \in Int /\ handoff \in Nat
    BY <1>2, NaturalBounds DEF ReturnX, ClientInv, Point, TypeOK
  <2> DEFINE m == Msg("ExitRequest", handoff,
                  [edge |-> ReturnEdge, at |-> [x |-> ReturnX, y |-> y]])
  <2>a. m \in ClientMessages /\ m.kind = "ExitRequest" /\ m.act = handoff
    BY <2>t DEF Msg, ClientMessages
  <2>b. /\ toHost' \in Seq(ClientMessages)
        /\ toHost' = toHost \/ (hostOpen /\ Grows(toHost, toHost', m))
    BY <2>a, ClientSendQueue, <2>0
  <2> HIDE DEF m
  <2>c. hpc \in Talking =>
          /\ hpc \notin {"arm"} /\ handoff = lastActivation /\ AllBenign
          /\ ~InFlight(toHost, "ExitRequest") /\ ~InFlight(toHost, "EnterRejected")
    BY <1>a, <1>2 DEF HandoffInv, ToHostInv, ClientInv, SocketsInv, Talking, Forwarding,
       Released
  <2>1. TypeOK'
    BY <1>a, <1>2, <2>b DEF TypeOK, ClientPoints
  <2>2. SocketsInv' /\ HostInv' /\ ClientInv'
    BY <1>a, <1>2, <2>b DEF SocketsInv, HostInv, ClientInv
  <2>3. ToClientInv'
    BY <1>a, <1>2 DEF ToClientInv, ExpectsInput, Released
  <2>4. ToHostInv'
    BY <1>a, <1>2, <2>a, <2>b DEF SocketsInv, ClientInv, ToHostInv,
        HandoffInv, Talking, Forwarding, AllBenign, Replies, ExpectsInput,
        Released, Grows
  <2>5. HandoffInv'
    BY <1>a, <1>2 DEF HandoffInv, AllBenign, ExpectsInput, Released
  <2> QED BY <2>1, <2>2, <2>3, <2>4, <2>5 DEF ProtocolInv
<1>3. CASE /\ barrier # <<>> /\ barrier' = Tail(barrier) /\ cpc' = "cleanup"
           /\ UNCHANGED <<returnPending, toHost>>
  <2>1. TypeOK'
    BY <1>a, <1>3 DEF TypeOK, ClientPoints
  <2>2. ProtocolInv'
    BY <1>a, <1>3 DEF SocketsInv, HostInv, ClientInv, ToClientInv,
        ToHostInv, HandoffInv, AllBenign, OnlyPongs, ExpectsInput, Released
  <2> QED BY <2>1, <2>2
<1> QED BY <1>1, <1>2, <1>3 DEF PollExit

\* A step that changes nothing.
LEMMA StutteringStep ==
  ASSUME TypeOK, ProtocolInv, UNCHANGED vars
  PROVE  TypeOK' /\ ProtocolInv'
<1> USE DEF vars, hostVars, clientVars, linkVars
<1>1. TypeOK'
  BY DEF TypeOK
<1>2. ProtocolInv'
  BY DEF ProtocolInv, SocketsInv, HostInv, ClientInv, ToClientInv, ToHostInv, HandoffInv,
     ExpectsInput, AllBenign, OnlyPongs, Released
<1> QED BY <1>1, <1>2

-----------------------------------------------------------------------------
(***************************************************************************)
(* The invariant holds at first and is kept by every step.                 *)
(***************************************************************************)

\* No process, no session.
LEMMA InvariantInit == Init => TypeOK /\ ProtocolInv
<1> SUFFICES ASSUME Init PROVE TypeOK /\ ProtocolInv
  OBVIOUS
<1> USE DEF Init, HostInit, HandoffInit, ClientInit, LinkInit
<1>1. hpc \in HostPoints /\ cpc \in ClientPoints /\ captured \in Seq(CapturedEvents)
      /\ barrier \in Seq(Acts) /\ toClient \in Seq(HostMessages)
      /\ toHost \in Seq(ClientMessages) /\ pressed = {} /\ faults \in 0 .. MaxFaults
  BY NaturalBounds, EmptyQueue DEF HostPoints, ClientPoints
<1>2. TypeOK
  BY <1>1, NaturalBounds, ControllerConstants DEF TypeOK
<1>3. ProtocolInv
  BY EmptyQueue DEF ProtocolInv, SocketsInv, HostInv, ClientInv, ToClientInv, ToHostInv,
     HandoffInv, Talking, Forwarding
<1> QED BY <1>2, <1>3

\* Every step keeps it, whichever of the actors takes it.
LEMMA InvariantNext ==
  ASSUME TypeOK, ProtocolInv, [Next]_vars
  PROVE  TypeOK' /\ ProtocolInv'
<1>1. CASE SessionStarts
  BY <1>1, SessionStartsStep
<1>2. CASE HostActs
  <2>1. CASE HostDoes(HostConnect)
    BY <2>1, HostConnectStep
  <2>2. CASE \E y \in ActivationYs : HostDoes(Activate(y))
    BY <2>2, ActivateStep
  <2>3. CASE \E y \in ActivationYs : HostDoes(ActivateOutside(y))
    BY <2>3, ActivateOutsideStep
  <2>4. CASE HostDoes(ReceiveReply) \/ HostDoes(ReplyFails)
    BY <2>4, ReceiveReplyStep, ReplyFailsStep
  <2>5. CASE HostDoes(PollControl) \/ HostDoes(SendProbe)
    BY <2>5, PollControlStep, SendProbeStep
  <2>6. CASE HostDoes(NextInput) \/ HostDoes(SendHeartbeat) \/ HostDoes(Forward)
    BY <2>6, NextInputStep, SendHeartbeatStep, ForwardStep
  <2>7. CASE HostDoes(HostIoError) \/ HostDoes(HostCleanup)
    BY <2>7, HostIoErrorStep, HostCleanupStep
  <2> QED BY <1>2, <2>1, <2>2, <2>3, <2>4, <2>5, <2>6, <2>7
             DEF HostActs, HostStep, HostDoes
<1>3. CASE ClientActs
  <2>1. CASE ClientDoes(PollExit) \/ ClientDoes(FinishExit)
    BY <2>1, PollExitStep, FinishExitStep
  <2>2. CASE ClientDoes(HandleEnter) \/ ClientDoes(HandleEnterFails)
    BY <2>2, HandleEnterStep, HandleEnterFailsStep
  <2>3. CASE ClientDoes(HandleInput) \/ ClientDoes(HandleInputFails)
    BY <2>3, HandleInputStep, HandleInputFailsStep
  <2>4. CASE \/ ClientDoes(HandleHeartbeat) \/ ClientDoes(HandlePing)
             \/ ClientDoes(HandleRelease)
    BY <2>4, HandleHeartbeatStep, HandlePingStep, HandleReleaseStep
  <2>5. CASE ClientDoes(NothingReceived) \/ ClientDoes(PeerTimeout)
    BY <2>5, NothingReceivedStep, PeerTimeoutStep
  <2>6. CASE ClientDoes(ClientIoError) \/ ClientDoes(ClientCleanup)
    BY <2>6, ClientIoErrorStep, ClientCleanupStep
  <2> QED BY <1>3, <2>1, <2>2, <2>3, <2>4, <2>5, <2>6
             DEF ClientActs, ClientStep, ClientDoes
<1>4. CASE User
  BY <1>4, UserInputStep DEF User, HostDoes
<1>5. CASE Barrier
  BY <1>5, BarrierHitStep DEF Barrier, ClientDoes
<1>6. CASE Fault
  <2>1. faults' \in 0 .. MaxFaults
    BY <1>6, NaturalBounds DEF Fault, TypeOK
  <2> QED BY <1>6, <2>1, HostCrashStep, CaptureEndsStep, ClientCrashStep,
          PollExitFailsStep, LinkCutStep DEF Fault
<1>7. CASE UNCHANGED vars
  BY <1>7, StutteringStep
<1> QED BY <1>1, <1>2, <1>3, <1>4, <1>5, <1>6, <1>7 DEF Next

-----------------------------------------------------------------------------
(***************************************************************************)
(* The safety properties, each from the invariant.                         *)
(***************************************************************************)

\* A message the client reads is one in flight to it.
LEMMA ReadsInFlight ==
  ASSUME TypeOK, NEW kind, ClientReads(kind)
  PROVE  InFlight(toClient, kind)
  BY TailQueue DEF TypeOK, ClientReads, ClientCanRead, Shrinks

\* Input reaches a client that expects it.
LEMMA InputExpected == TypeOK /\ ProtocolInv => NoInputBeforeEntry
  BY ReadsInFlight DEF ProtocolInv, ToClientInv, ExpectsInput, NoInputBeforeEntry

\* An Enter reaches a client that has been released.
LEMMA EnterExpected == TypeOK /\ ProtocolInv => NoEnterWhileActive
  BY ReadsInFlight DEF ProtocolInv, ToClientInv, Released, NoEnterWhileActive, ClientReads

\* Only a client under remote control holds controls down.
LEMMA ControlsHeldInHandoff == ProtocolInv => NoStuckControls
  BY DEF ProtocolInv, ClientInv, NoStuckControls

\* The host's program, its controller and its activation move together.
LEMMA CaptureFollowsController == TypeOK /\ ProtocolInv => CaptureMatchesController
  BY DEF TypeOK, HostPoints, ProtocolInv, HostInv, CaptureMatchesController, Forwarding,
     Local, RemoteActive

\* What is on its way to the host concerns the handoff it is in.
LEMMA AnswersCurrent == TypeOK /\ ProtocolInv => AnswersThisActivation
<1> SUFFICES ASSUME TypeOK, ProtocolInv, hpc \notin {"dead", "handshake", "cleanup"},
                    NEW i \in 1 .. Len(toHost), toHost[i].kind # "DiagnosticPong"
             PROVE  toHost[i].act = lastActivation /\ hpc # "arm"
  BY DEF AnswersThisActivation
<1>1. hpc \in Talking /\ toHost[i] \in ClientMessages
  BY DEF TypeOK, HostPoints, Talking
<1>2. toHost[i].kind \in {"EnterAck", "EnterRejected", "ExitRequest"}
  BY <1>1 DEF ClientMessages
<1>3. InFlight(toHost, toHost[i].kind)
  BY DEF InFlight
<1> QED BY <1>1, <1>2, <1>3 DEF ProtocolInv, ToHostInv, About, Replies

\* Every reachable state satisfies both parts of the inductive invariant:
\* TypeOK, the type invariant of the run seamless_safety, and ProtocolInv.
THEOREM ProtocolInvariant == Spec => [](TypeOK /\ ProtocolInv)
<1>1. Init => TypeOK /\ ProtocolInv
  BY InvariantInit
<1>2. TypeOK /\ ProtocolInv /\ [Next]_vars => TypeOK' /\ ProtocolInv'
  BY InvariantNext
<1> QED BY <1>1, <1>2, PTL DEF Spec

\* Every variable of the two processes and of the connection keeps its type.
THEOREM TypeCorrect == Spec => []TypeOK
  BY ProtocolInvariant, PTL

\* The client never meets input outside a handoff: SeamlessClient::handle
\* never returns InputBeforeEntry to a host that runs this code.
THEOREM InputOnlyInHandoff == Spec => []NoInputBeforeEntry
  BY ProtocolInvariant, InputExpected, PTL

\* The client never meets an Enter in the course of a handoff: whatever the
\* host or the user does, the release of the last handoff is read first.
THEOREM EnterOnlyWhenReleased == Spec => []NoEnterWhileActive
  BY ProtocolInvariant, EnterExpected, PTL

\* No way out of a handoff leaves a key or button of the client held down.
THEOREM ControlsNeverStuck == Spec => []NoStuckControls
  BY ProtocolInvariant, ControlsHeldInHandoff, PTL

\* The compositor captures the physical input exactly while the controller
\* has left Local, except in a host that is on its way out.
THEOREM CaptureAlwaysMatches == Spec => []CaptureMatchesController
  BY ProtocolInvariant, CaptureFollowsController, PTL

\* Nothing the client answers or asks in one handoff reaches the host in a
\* later one, but the echo of a latency probe.
THEOREM AnswersNeverStale == Spec => []AnswersThisActivation
  BY ProtocolInvariant, AnswersCurrent, PTL

-----------------------------------------------------------------------------
(***************************************************************************)
(* The two sides agree on who has the input: neither stays in a handoff    *)
(* that the other has left without the message that ends it on the way.    *)
(* And the seamless mode implements Ownership, for every value of the      *)
(* constants: the initial state maps to an initial state, and every step   *)
(* to a step of Ownership or to none.                                      *)
(***************************************************************************)

(***************************************************************************)
(* Messages that stay on their way.                                        *)
(***************************************************************************)

\* A write removes nothing, and arrives on a working connection.
LEMMA HostSendKeeps ==
  ASSUME TypeOK, NEW m \in HostMessages, HostSend(m)
  PROVE  /\ \A k : InFlight(toClient, k) => InFlight(toClient', k)
         /\ clientOpen /\ ~cut => InFlight(toClient', m.kind)
<1>1. CASE clientOpen /\ ~cut
  <2>1. toClient' = Append(toClient, m) /\ toClient \in Seq(HostMessages)
    BY <1>1 DEF HostSend, TypeOK
  <2> QED BY <2>1, AppendQueue DEF Grows
<1>2. CASE ~(clientOpen /\ ~cut)
  BY <1>2 DEF HostSend
<1> QED BY <1>1, <1>2

\* The same of the client's writes.
LEMMA ClientSendKeeps ==
  ASSUME TypeOK, NEW m \in ClientMessages, ClientSend(m)
  PROVE  /\ \A k : InFlight(toHost, k) => InFlight(toHost', k)
         /\ hostOpen /\ ~cut => InFlight(toHost', m.kind)
<1>1. CASE hostOpen /\ ~cut
  <2>1. toHost' = Append(toHost, m) /\ toHost \in Seq(ClientMessages)
    BY <1>1 DEF ClientSend, TypeOK
  <2> QED BY <2>1, AppendQueue DEF Grows
<1>2. CASE ~(hostOpen /\ ~cut)
  BY <1>2 DEF ClientSend
<1> QED BY <1>1, <1>2

\* Reading a message of one kind removes none of another.
LEMMA TailKeeps ==
  ASSUME NEW S, NEW q \in Seq(S), q # <<>>, NEW k, Head(q).kind # k, InFlight(q, k)
  PROVE  InFlight(Tail(q), k)
<1>1. PICK i \in 1 .. Len(q) : q[i].kind = k
  BY DEF InFlight
<1>2. /\ Len(q) \in Nat /\ Head(q) = q[1] /\ Len(Tail(q)) = Len(q) - 1
      /\ \A j \in 1 .. Len(Tail(q)) : Tail(q)[j] = q[j + 1]
  BY TailAt
<1>3. i # 1
  BY <1>1, <1>2
<1>4. i - 1 \in 1 .. Len(Tail(q)) /\ (i - 1) + 1 = i
  BY <1>1, <1>2, <1>3
<1>5. Tail(q)[i - 1].kind = k
  BY <1>1, <1>2, <1>4
<1> QED BY <1>4, <1>5 DEF InFlight

\* The client reads a message that is not the release.
LEMMA ReceivesKeeps ==
  ASSUME TypeOK, NEW kind, Receives(kind)
  PROVE  /\ cpc = "recv" /\ InFlight(toClient, kind)
         /\ \A k : k # kind /\ InFlight(toClient, k) => InFlight(toClient', k)
         /\ UNCHANGED <<barrier, hostOpen, clientOpen, cut>>
<1>1. /\ toClient # <<>> /\ toClient \in Seq(HostMessages)
      /\ Head(toClient).kind = kind /\ toClient' = Tail(toClient)
  BY DEF Receives, ClientCanRead, TypeOK
<1> QED BY <1>1, TailKeeps, ClientReadsQueue DEF Shrinks

\* A release is a message of the host.
LEMMA ReleaseSent ==
  ASSUME TypeOK, HostSend(Msg("HandoffRelease", lastActivation, NoBody))
  PROVE  /\ \A k : InFlight(toClient, k) => InFlight(toClient', k)
         /\ clientOpen /\ ~cut => InFlight(toClient', "HandoffRelease")
<1>1. /\ Msg("HandoffRelease", lastActivation, NoBody) \in HostMessages
      /\ Msg("HandoffRelease", lastActivation, NoBody).kind = "HandoffRelease"
  BY ReleaseMessage DEF TypeOK, Msg
<1> QED BY <1>1, HostSendKeeps

\* The host takes nothing back from what it has written.
LEMMA HostWritesStay ==
  ASSUME TypeOK, ProtocolInv, HostActs, NEW k, InFlight(toClient, k)
  PROVE  InFlight(toClient', k)
<1> USE DEF linkVars, HostClose
<1>1. ASSUME NEW y \in ActivationYs, Activate(y) PROVE InFlight(toClient', k)
  <2> DEFINE e == EntryPoint(Layout, BarrierPoint(y))
  <2>1. OnDepartureEdge(Layout, BarrierPoint(y)) /\ controller'.entry = e
    BY <1>1 DEF Activate, LocalEdgeActivated, EntryPending
  <2>2. e \in Point
    BY <2>1, BarrierPointType, EntryPointInside, HostAssumption
  <2>3. lastActivation' \in 1 .. MaxActivations
    BY <1>1, NaturalBounds DEF Activate, TypeOK, Acts
  <2>4. Msg("Enter", lastActivation', controller'.entry) \in HostMessages
    BY <2>1, <2>2, <2>3 DEF Msg, HostMessages
  <2> QED BY <1>1, <2>4, HostSendKeeps DEF Activate
<1>2. CASE ReceiveReply
  BY <1>2, ReleaseSent DEF ReceiveReply
<1>3. CASE PollControl
  BY <1>3, ReleaseSent DEF PollControl
<1>4. CASE SendProbe \/ SendHeartbeat
  <2>1. /\ Msg("DiagnosticPing", lastActivation, NoBody) \in HostMessages
        /\ Msg("Heartbeat", lastActivation, NoBody) \in HostMessages
    BY ReleaseMessage DEF TypeOK
  <2> QED BY <1>4, <2>1, HostSendKeeps DEF SendProbe, SendHeartbeat
<1>5. CASE Forward
  <2>1. selected \in CapturedEvents
    BY <1>5 DEF Forward, ProtocolInv, HostInv
  <2>2. Msg("Input", selected.act, [control |-> selected.control, down |-> selected.down])
          \in HostMessages
    BY <2>1 DEF Msg, HostMessages, CapturedEvents
  <2> QED BY <1>5, <2>2, HostSendKeeps DEF Forward
<1>6. CASE HostCleanup
  BY <1>6, ReleaseSent DEF HostCleanup
<1>7. CASE HostConnect \/ ReplyFails \/ NextInput \/ HostIoError
  BY <1>7 DEF HostConnect, ReplyFails, NextInput, HostIoError
<1>8. ASSUME NEW y \in ActivationYs, ActivateOutside(y) PROVE InFlight(toClient', k)
  BY <1>8 DEF ActivateOutside
<1> QED BY <1>1, <1>2, <1>3, <1>4, <1>5, <1>6, <1>7, <1>8
        DEF HostActs, HostDoes, HostStep

-----------------------------------------------------------------------------
(***************************************************************************)
(* The client.                                                             *)
(***************************************************************************)

\* A handoff ends at the host with a release on its way, or with the process.
LEMMA HostEndsHandoff ==
  ASSUME TypeOK, ProtocolInv, HostActs, controller # Local, remoteActive,
         hpc # "cleanup", hpc' # "cleanup", hostOpen', ~cut, cpc # "cleanup"
  PROVE  \/ controller' # Local /\ lastActivation' = lastActivation
         \/ InFlight(toClient', "HandoffRelease")
<1> USE DEF ProtocolInv, linkVars
<1>0. clientOpen
  BY DEF SocketsInv, ClientInv
<1>1. ASSUME NEW y \in ActivationYs, Activate(y) \/ ActivateOutside(y) PROVE FALSE
  BY <1>1 DEF Activate, ActivateOutside, HostInv
<1>2. ASSUME ReceiveReply PROVE controller' # Local /\ lastActivation' = lastActivation
  <2>1. Head(toHost).kind # "EnterRejected"
    <3>1. hpc = "await" /\ InFlight(toHost, Head(toHost).kind)
      BY <1>2, HostReadsQueue DEF ReceiveReply, Shrinks
    <3> QED BY <3>1, <1>0 DEF ToHostInv, Talking, SocketsInv
  <2> QED BY <1>2, <2>1 DEF ReceiveReply, PeerEntryAcknowledged, RemoteActive, Local
<1>3. ASSUME PollControl
      PROVE  \/ controller' # Local /\ lastActivation' = lastActivation
             \/ InFlight(toClient', "HandoffRelease")
  BY <1>0, <1>3, ReleaseSent DEF PollControl
<1>4. ASSUME HostConnect \/ SendProbe \/ NextInput \/ SendHeartbeat \/ Forward
      PROVE  controller' # Local /\ lastActivation' = lastActivation
  BY <1>4 DEF HostConnect, SendProbe, NextInput, SendHeartbeat, Forward, hostVars
<1>5. ASSUME ReplyFails \/ HostIoError \/ HostCleanup PROVE FALSE
  BY <1>5 DEF ReplyFails, HostIoError, HostCleanup, HostProcessEnds, HostCloses
<1> QED BY <1>1, <1>2, <1>3, <1>4, <1>5 DEF HostActs, HostDoes, HostStep

\* Every step of the host keeps the client from being orphaned.
LEMMA HostKeepsClient ==
  ASSUME TypeOK, ProtocolInv, ClientNotOrphaned, HostActs
  PROVE  ClientNotOrphaned'
<1> SUFFICES ASSUME remoteActive, hostOpen', ~cut', cpc # "cleanup", hpc' # "cleanup",
                    ~(controller' # Local /\ handoff = lastActivation')
             PROVE  InFlight(toClient', "HandoffRelease")
  BY DEF ClientNotOrphaned, HostActs, HostDoes, clientVars
<1>1. hostOpen /\ ~cut /\ hpc # "cleanup"
  <2>1. hostOpen' = hostOpen /\ cut' = cut /\ hpc # "cleanup"
    <3> USE DEF linkVars, hostVars
    <3>1. ASSUME NEW y \in ActivationYs, Activate(y) \/ ActivateOutside(y)
          PROVE  hostOpen' = hostOpen /\ cut' = cut /\ hpc # "cleanup"
      BY <3>1 DEF Activate, ActivateOutside
    <3>2. CASE HostConnect \/ ReceiveReply \/ ReplyFails
      BY <3>2 DEF HostConnect, ReceiveReply, ReplyFails
    <3>3. CASE \/ PollControl \/ SendProbe \/ NextInput \/ SendHeartbeat
               \/ Forward \/ HostIoError
      BY <3>3 DEF PollControl, PollPoints, SendProbe, NextInput, SendHeartbeat, Forward,
         HostIoError
    <3>4. ASSUME HostCleanup PROVE FALSE
      BY <3>4 DEF HostCleanup, HostProcessEnds, HostCloses
    <3> QED BY <3>1, <3>2, <3>3, <3>4 DEF HostActs, HostDoes, HostStep
  <2> QED BY <2>1
<1>2. \/ InFlight(toClient, "HandoffRelease")
      \/ controller # Local /\ handoff = lastActivation
  BY <1>1 DEF ClientNotOrphaned
<1> QED BY <1>1, <1>2, HostWritesStay, HostEndsHandoff

\* The client reads an Enter when it is released, and while the host waits for
\* the answer.
LEMMA EnterRead ==
  ASSUME TypeOK, ProtocolInv, HandleEnter
  PROVE  /\ cpc = "recv" /\ cpc' = "top" /\ remoteActive'
         /\ ClientSend(Msg("EnterAck", handoff', NoBody))
         /\ hpc \in Talking => hpc = "await" /\ handoff' = lastActivation
<1> USE DEF ProtocolInv
<1> DEFINE h == Head(toClient)
<1>1. /\ cpc = "recv" /\ toClient # <<>> /\ toClient' \in Seq(HostMessages)
      /\ h \in HostMessages /\ h.kind = "Enter" /\ Shrinks(toClient, toClient', h)
  BY ClientReadsQueue DEF HandleEnter
<1>2. ~remoteActive /\ ~InFlight(toClient', "Enter")
  BY <1>1 DEF ToClientInv, Released, Shrinks
<1>3. ASSUME toClient' # <<>> PROVE toClient[Len(toClient)].kind # "Enter"
  BY <1>1, <1>2, <1>3, LastInFlight DEF Shrinks
<1>4. hpc \in Talking => hpc = "await" /\ h.act = lastActivation
  BY <1>1, <1>3 DEF ToClientInv, Shrinks
<1> QED BY <1>1, <1>2, <1>4 DEF HandleEnter

\* Every step of the client, too: its release is read only by letting go.
LEMMA ClientKeepsClient ==
  ASSUME TypeOK, ProtocolInv, ClientNotOrphaned, ClientActs
  PROVE  ClientNotOrphaned'
<1> SUFFICES ASSUME remoteActive', hostOpen, ~cut, cpc' # "cleanup", hpc # "cleanup",
                    controller = Local \/ handoff' # lastActivation
             PROVE  InFlight(toClient', "HandoffRelease")
  BY DEF ClientNotOrphaned, ClientActs, ClientDoes, hostVars, ClientStep, PollExit,
     FinishExit, HandleEnter, HandleEnterFails, HandleInput, HandleInputFails,
     HandleHeartbeat, HandlePing, HandleRelease, NothingReceived, PeerTimeout,
     ClientIoError, ClientCleanup, ClientCloses, Receives, linkVars
<1> USE DEF ProtocolInv, linkVars
<1>1. ASSUME remoteActive, handoff' = handoff, cpc # "cleanup"
      PROVE  InFlight(toClient, "HandoffRelease")
  BY <1>1 DEF ClientNotOrphaned
<1>2. ASSUME HandleEnter PROVE FALSE
  BY <1>2, EnterRead DEF SocketsInv, Talking, HostInv, Local
<1>3. ASSUME NEW kind \in {"Input", "Heartbeat", "DiagnosticPing"}, Receives(kind),
             UNCHANGED <<remoteActive, handoff>>
      PROVE  InFlight(toClient', "HandoffRelease")
  <2>1. cpc = "recv" /\ (InFlight(toClient, "HandoffRelease") =>
                           InFlight(toClient', "HandoffRelease"))
    BY <1>3, ReceivesKeeps
  <2>2. remoteActive /\ handoff' = handoff
    BY <1>3
  <2> QED BY <1>1, <2>1, <2>2
<1>4. CASE HandleInput
  BY <1>3, <1>4 DEF HandleInput, ClientClose
<1>5. CASE HandleHeartbeat \/ HandlePing
  BY <1>3, <1>5 DEF HandleHeartbeat, HandlePing
<1>6. CASE PollExit \/ NothingReceived
  BY <1>1, <1>6 DEF PollExit, NothingReceived
<1>7. ASSUME \/ FinishExit \/ HandleRelease \/ HandleEnterFails \/ HandleInputFails
             \/ PeerTimeout \/ ClientIoError \/ ClientCleanup
      PROVE  FALSE
  BY <1>7 DEF FinishExit, HandleRelease, HandleEnterFails, HandleInputFails,
     PeerTimeout, ClientIoError, ClientCleanup, ClientClose
<1> QED BY <1>2, <1>4, <1>5, <1>6, <1>7 DEF ClientActs, ClientDoes, ClientStep

\* So does everything else.
LEMMA ClientNeverOrphanedNext ==
  ASSUME TypeOK, ProtocolInv, ClientNotOrphaned, [Next]_vars
  PROVE  ClientNotOrphaned'
<1>1. CASE SessionStarts
  BY <1>1 DEF SessionStarts, ClientSessionStarts, ProtocolInv, ClientInv, ClientNotOrphaned
<1>2. CASE User \/ Barrier \/ UNCHANGED vars
  BY <1>2 DEF User, UserInput, Barrier, BarrierHit, vars, hostVars, clientVars, linkVars,
     ClientNotOrphaned, InFlight
<1>3. CASE Fault
  <2>1. CASE HostCrash
    BY <2>1 DEF HostCrash, HostProcessEnds, HostCloses, ClientNotOrphaned
  <2>2. CASE CaptureEnds
    BY <2>2 DEF CaptureEnds, ClientNotOrphaned
  <2>3. CASE PollExitFails
    BY <2>3 DEF PollExitFails, ClientNotOrphaned
  <2>4. CASE ClientCrash
    BY <2>4 DEF ClientCrash, ClientClose, ClientNotOrphaned
  <2>5. CASE LinkCut
    BY <2>5 DEF LinkCut, ClientNotOrphaned
  <2> QED BY <1>3, <2>1, <2>2, <2>3, <2>4, <2>5 DEF Fault
<1> QED BY <1>1, <1>2, <1>3, HostKeepsClient, ClientKeepsClient DEF Next

-----------------------------------------------------------------------------
(***************************************************************************)
(* The host.                                                               *)
(***************************************************************************)

\* The host is, or is about to be, in a handoff that the client is in, unless
\* the client has asked for its end.
HandoffShared ==
  /\ controller = RemoteActive \/ InFlight(toHost, "EnterAck")
  /\ hpc \in Talking /\ InSession /\ ~cut
  => \/ remoteActive /\ handoff = lastActivation /\ cpc # "exiting"
     \/ InFlight(toHost, "ExitRequest")

\* It says of the host that it is not orphaned.
LEMMA SharedSuffices == TypeOK /\ ProtocolInv /\ HandoffShared => HostNotOrphaned
  BY DEF TypeOK, HostPoints, ProtocolInv, HostInv, Talking, HandoffShared, HostNotOrphaned,
     Local, RemoteActive

\* Every step of the host keeps the handoff shared.
LEMMA HostKeepsShared ==
  ASSUME TypeOK, ProtocolInv, ProtocolInv', HandoffShared, HostActs
  PROVE  HandoffShared'
<1> SUFFICES ASSUME controller' = RemoteActive \/ InFlight(toHost', "EnterAck"),
                    hpc' \in Talking, InSession', ~cut'
             PROVE  \/ remoteActive /\ handoff = lastActivation' /\ cpc # "exiting"
                    \/ InFlight(toHost', "ExitRequest")
  BY DEF HandoffShared, HostActs, HostDoes, clientVars
<1> USE DEF ProtocolInv, linkVars, hostVars
<1>1. ASSUME hpc \in Talking, hostOpen' = hostOpen, clientOpen' = clientOpen, cut' = cut,
             controller = RemoteActive \/ InFlight(toHost, "EnterAck"),
             lastActivation' = lastActivation,
             InFlight(toHost, "ExitRequest") => InFlight(toHost', "ExitRequest")
      PROVE  \/ remoteActive /\ handoff = lastActivation' /\ cpc # "exiting"
             \/ InFlight(toHost', "ExitRequest")
  BY <1>1 DEF HandoffShared, InSession, HostActs, HostDoes, clientVars
<1>2. ASSUME NEW y \in ActivationYs, Activate(y) \/ ActivateOutside(y) PROVE FALSE
  <2>1. hpc = "arm" /\ toHost' = toHost
    BY <1>2 DEF Activate, ActivateOutside
  <2>2. ~InFlight(toHost, "EnterAck")
    BY <2>1 DEF ToHostInv, Talking, Replies
  <2>3. controller' # RemoteActive \/ hpc' = "cleanup"
    BY <1>2 DEF Activate, ActivateOutside, LocalEdgeActivated, EntryPending, RemoteActive
  <2> QED BY <2>1, <2>2, <2>3 DEF Talking
<1>3. CASE ReceiveReply
  <2>1. hpc = "await" /\ hpc' \in {"loop", "arm"} /\ toHost # <<>> /\ toHost' = Tail(toHost)
    BY <1>3 DEF ReceiveReply, HostCanRead, Talking
  <2>2. Head(toHost).kind = "EnterAck" /\ lastActivation' = lastActivation
        /\ UNCHANGED <<hostOpen, clientOpen, cut>>
    <3>1. UNCHANGED <<lastActivation, hostOpen, clientOpen, cut>>
      BY <1>3 DEF ReceiveReply
    <3>2. hpc' # "arm" \/ controller' # Local
      BY <2>1 DEF ToHostInv, Talking, Replies, Local, RemoteActive
    <3>3. CASE Head(toHost).kind = "EnterRejected"
      BY <1>3, <2>1, <3>2, <3>3 DEF ReceiveReply, PeerEntryRejected
    <3>4. CASE Head(toHost).kind \notin {"EnterAck", "EnterRejected"}
      BY <1>3, <2>1, <3>4 DEF ReceiveReply
    <3> QED BY <3>1, <3>3, <3>4
  <2>3. InFlight(toHost, "EnterAck")
    BY <1>3, <2>2, HostReadsQueue DEF ReceiveReply, Shrinks
  <2>4. InFlight(toHost, "ExitRequest") => InFlight(toHost', "ExitRequest")
    BY <2>1, <2>2, TailKeeps DEF TypeOK
  <2> QED BY <1>1, <2>1, <2>2, <2>3, <2>4 DEF Talking
<1>4. CASE PollControl
  <2>1. /\ hpc \in {"loop", "recheck"} /\ controller = RemoteActive /\ toHost # <<>>
        /\ toHost' = Tail(toHost) /\ UNCHANGED <<lastActivation, hostOpen, clientOpen, cut>>
    BY <1>4 DEF PollControl, PollPoints, HostCanRead, HostInv, Forwarding
  <2>2. CASE Head(toHost).kind = "DiagnosticPong"
    <3>1. InFlight(toHost, "ExitRequest") => InFlight(toHost', "ExitRequest")
      BY <2>1, <2>2, TailKeeps DEF TypeOK
    <3> QED BY <1>1, <2>1, <3>1 DEF Talking
  <2>3. CASE Head(toHost).kind # "DiagnosticPong"
    <3>1. controller' = Local /\ hpc' = "arm"
      BY <1>4, <2>1, <2>3 DEF PollControl, PeerExitActivated, AfterControl, Talking, Local
    <3> QED BY <3>1 DEF ToHostInv, Talking, Replies, Local, RemoteActive
  <2> QED BY <2>2, <2>3
<1>5. CASE SendProbe \/ NextInput \/ SendHeartbeat \/ Forward
  <2>1. hpc \in Forwarding /\ toHost' = toHost /\ controller' = controller
        /\ lastActivation' = lastActivation /\ UNCHANGED <<hostOpen, clientOpen, cut>>
    BY <1>5 DEF SendProbe, NextInput, SendHeartbeat, Forward, Forwarding
  <2> QED BY <1>1, <2>1 DEF Forwarding, Talking
<1>6. ASSUME HostConnect \/ ReplyFails \/ HostIoError \/ HostCleanup PROVE FALSE
  BY <1>6 DEF HostConnect, ReplyFails, HostIoError, HostCleanup, HostProcessEnds, Talking
<1> QED BY <1>2, <1>3, <1>4, <1>5, <1>6 DEF HostActs, HostDoes, HostStep

\* Every step of the client, too.
LEMMA ClientKeepsShared ==
  ASSUME TypeOK, ProtocolInv, ProtocolInv', HandoffShared, ClientActs
  PROVE  HandoffShared'
<1> SUFFICES ASSUME controller = RemoteActive \/ InFlight(toHost', "EnterAck"),
                    hpc \in Talking, InSession', ~cut
             PROVE  \/ remoteActive' /\ handoff' = lastActivation /\ cpc' # "exiting"
                    \/ InFlight(toHost', "ExitRequest")
  BY DEF HandoffShared, ClientActs, ClientDoes, hostVars, ClientStep, PollExit,
     FinishExit, HandleEnter, HandleEnterFails, HandleInput, HandleInputFails,
     HandleHeartbeat, HandlePing, HandleRelease, NothingReceived, PeerTimeout,
     ClientIoError, ClientCleanup, ClientCloses, Receives, linkVars
<1> USE DEF ProtocolInv, linkVars
<1>0. hostOpen
  BY DEF SocketsInv
<1>1. ASSUME clientOpen, cpc \in {"top", "recv", "exiting"}, toHost' = toHost,
             handoff' = handoff, remoteActive' = remoteActive, cpc' # "exiting"
      PROVE  \/ remoteActive' /\ handoff' = lastActivation /\ cpc' # "exiting"
             \/ InFlight(toHost', "ExitRequest")
  BY <1>0, <1>1 DEF HandoffShared, InSession
<1>2. CASE HandleEnter
  BY <1>2, EnterRead
<1>3. CASE HandleInput
  <2>1. Receives("Input") /\ cpc' # "cleanup"
    BY <1>3 DEF HandleInput, InSession
  <2> QED BY <1>1, <1>3, <2>1 DEF HandleInput, Receives, InSession
<1>4. CASE HandleHeartbeat \/ NothingReceived
  BY <1>1, <1>4 DEF HandleHeartbeat, NothingReceived, Receives, InSession
<1>5. CASE HandlePing
  <2> DEFINE m == Msg("DiagnosticPong", handoff, NoBody)
  <2>1. m \in ClientMessages /\ m.kind = "DiagnosticPong" /\ ClientSend(m)
    BY <1>5, NaturalBounds DEF HandlePing, Msg, ClientMessages, TypeOK
  <2> HIDE DEF m
  <2>2. /\ InFlight(toHost', "EnterAck") => InFlight(toHost, "EnterAck")
        /\ InFlight(toHost, "ExitRequest") => InFlight(toHost', "ExitRequest")
    BY <2>1, ClientSendQueue DEF Grows
  <2>3. /\ cpc = "recv" /\ cpc' = "top" /\ clientOpen' = clientOpen
        /\ remoteActive' = remoteActive /\ handoff' = handoff
    BY <1>5 DEF HandlePing, Receives
  <2>4. clientOpen
    BY <2>3 DEF SocketsInv
  <2> QED BY <1>0, <2>2, <2>3, <2>4 DEF HandoffShared, InSession
<1>6. ASSUME HandleRelease PROVE FALSE
  <2>1. cpc = "recv" /\ InFlight(toClient, "HandoffRelease") /\ toHost' = toHost
    BY <1>6, ReceivesKeeps DEF HandleRelease
  <2>2. clientOpen
    BY <2>1 DEF SocketsInv
  <2>3. AllBenign
    BY <2>1, <2>2 DEF ToHostInv, HandoffInv, HostInv, Talking, Forwarding, Local,
       RemoteActive
  <2> QED BY <2>1, <2>3 DEF AllBenign, OnlyKinds, InFlight, Benign
<1>7. CASE PollExit
  <2>1. cpc = "top" /\ UNCHANGED <<remoteActive, handoff, clientOpen>> /\ clientOpen
    BY <1>7 DEF PollExit, SocketsInv
  <2>2. CASE cpc' = "exiting"
    <3>1. PICK y \in ExitYs :
            ClientSend(Msg("ExitRequest", handoff,
              [edge |-> ReturnEdge, at |-> [x |-> ReturnX, y |-> y]]))
      BY <1>7, <2>2 DEF PollExit
    <3>2. ReturnX \in Int /\ handoff \in Nat
      BY <1>7, <2>2, NaturalBounds DEF PollExit, ReturnX, ClientInv, Point, TypeOK
    <3> DEFINE m == Msg("ExitRequest", handoff,
                        [edge |-> ReturnEdge, at |-> [x |-> ReturnX, y |-> y]])
    <3>3. m \in ClientMessages /\ m.kind = "ExitRequest"
      BY <3>2 DEF Msg, ClientMessages
    <3> QED BY <1>0, <3>1, <3>3, ClientSendKeeps
  <2>3. CASE cpc' # "exiting"
    <3>1. toHost' = toHost
      BY <1>7, <2>3 DEF PollExit
    <3> QED BY <1>1, <2>1, <2>3, <3>1
  <2> QED BY <2>2, <2>3
<1>8. CASE FinishExit
  <2>1. cpc = "exiting" /\ toHost' = toHost
    BY <1>8 DEF FinishExit
  <2> QED BY <1>0, <2>1 DEF HandoffShared, InSession, SocketsInv
<1>9. ASSUME HandleEnterFails \/ HandleInputFails \/ PeerTimeout \/ ClientIoError
             \/ ClientCleanup
      PROVE  FALSE
  BY <1>9 DEF HandleEnterFails, HandleInputFails, PeerTimeout, ClientIoError,
     ClientCleanup, InSession
<1> QED BY <1>2, <1>3, <1>4, <1>5, <1>6, <1>7, <1>8, <1>9 DEF ClientActs, ClientDoes,
           ClientStep

\* So does everything else.
LEMMA HandoffSharedNext ==
  ASSUME TypeOK, ProtocolInv, ProtocolInv', HandoffShared, [Next]_vars
  PROVE  HandoffShared'
<1>1. CASE SessionStarts
  BY <1>1, EmptyQueue DEF SessionStarts, HostSessionStarts, LinkOpens, ProtocolInv,
     HostInv, HandoffShared, Local, RemoteActive
<1>2. CASE User \/ Barrier \/ UNCHANGED vars
  BY <1>2 DEF User, UserInput, Barrier, BarrierHit, vars, hostVars, clientVars, linkVars,
     HandoffShared, InSession, InFlight
<1>3. CASE Fault
  <2>1. CASE HostCrash
    BY <2>1 DEF HostCrash, HostProcessEnds, HandoffShared, Talking
  <2>2. CASE CaptureEnds
    BY <2>2 DEF CaptureEnds, HandoffShared, Talking
  <2>3. CASE PollExitFails
    BY <2>3 DEF PollExitFails, HandoffShared, InSession
  <2>4. CASE ClientCrash
    BY <2>4 DEF ClientCrash, HandoffShared, InSession
  <2>5. CASE LinkCut
    BY <2>5 DEF LinkCut, HandoffShared
  <2> QED BY <1>3, <2>1, <2>2, <2>3, <2>4, <2>5 DEF Fault
<1> QED BY <1>1, <1>2, <1>3, HostKeepsShared, ClientKeepsShared DEF Next

-----------------------------------------------------------------------------
(***************************************************************************)
(* Both, of every reachable state.                                         *)
(***************************************************************************)

\* A client under remote control is in the handoff its host believes in, or
\* the release, the end of the host or the loss of the network is to come.
THEOREM ClientNeverOrphaned == Spec => []ClientNotOrphaned
<1>1. Init => ClientNotOrphaned
  BY DEF Init, ClientInit, ClientNotOrphaned
<1>2. TypeOK /\ ProtocolInv /\ ClientNotOrphaned /\ [Next]_vars => ClientNotOrphaned'
  BY ClientNeverOrphanedNext
<1> QED BY <1>1, <1>2, ProtocolInvariant, PTL DEF Spec

\* A host that forwards its user's input has a client that takes it, or an
\* ExitRequest or an error to find on the connection.
THEOREM HostNeverOrphaned == Spec => []HostNotOrphaned
<1>1. Init => HandoffShared
  BY EmptyQueue DEF Init, HostInit, HandoffInit, LinkInit, HandoffShared, Local,
     RemoteActive
<1>2. TypeOK /\ ProtocolInv /\ TypeOK' /\ ProtocolInv' /\ HandoffShared /\ [Next]_vars
        => HandoffShared'
  BY HandoffSharedNext
<1> QED BY <1>1, <1>2, SharedSuffices, ProtocolInvariant, PTL DEF Spec

-----------------------------------------------------------------------------
(* Ownership *)

\* A step that changes nothing of what Ownership speaks of.
Unowned == UNCHANGED <<HostRole, ClientRole, lastActivation, handoff>>

\* An acknowledgement on its way to a working host is of its own handoff, and
\* comes from the last one the client has taken.
AckCurrent ==
  hpc \in Talking /\ InFlight(toHost, "EnterAck") => handoff = lastActivation

-----------------------------------------------------------------------------
(***************************************************************************)
(* The roles.                                                              *)
(***************************************************************************)

\* The roles a state gives to the two processes.
LEMMA Roles ==
  /\ HostRole = "home" <=> hpc = "arm"
  /\ HostRole = "asking" <=> hpc = "await"
  /\ HostRole = "away" <=> hpc \in Forwarding
  /\ HostRole = "gone" <=> hpc \notin Talking
  /\ ClientRole = "absent" <=> cpc = "accept"
  /\ ClientRole = "leaving" <=> cpc \in {"exiting", "cleanup"}
  /\ ClientRole = "driven" <=> cpc \notin {"accept", "exiting", "cleanup"} /\ remoteActive
  /\ ClientRole = "idle" <=> cpc \notin {"accept", "exiting", "cleanup"} /\ ~remoteActive
  BY DEF HostRole, ClientRole, Forwarding, Talking

\* The same after the step.
LEMMA RolesAfter ==
  /\ HostRole' = "home" <=> hpc' = "arm"
  /\ HostRole' = "asking" <=> hpc' = "await"
  /\ HostRole' = "away" <=> hpc' \in Forwarding
  /\ HostRole' = "gone" <=> hpc' \notin Talking
  /\ ClientRole' = "absent" <=> cpc' = "accept"
  /\ ClientRole' = "leaving" <=> cpc' \in {"exiting", "cleanup"}
  /\ ClientRole' = "driven" <=> cpc' \notin {"accept", "exiting", "cleanup"} /\ remoteActive'
  /\ ClientRole' = "idle" <=> cpc' \notin {"accept", "exiting", "cleanup"} /\ ~remoteActive'
  BY DEF HostRole, ClientRole, Forwarding, Talking

\* A step of one side leaves the other's role alone.
LEMMA RoleKept ==
  /\ hpc' = hpc => HostRole' = HostRole
  /\ cpc' = cpc /\ remoteActive' = remoteActive => ClientRole' = ClientRole
  BY DEF HostRole, ClientRole

-----------------------------------------------------------------------------
(***************************************************************************)
(* AckCurrent.                                                             *)
(***************************************************************************)

\* Every step of the client keeps it: only an Enter makes an acknowledgement.
LEMMA ClientKeepsAck ==
  ASSUME TypeOK, ProtocolInv, AckCurrent, ClientActs
  PROVE  AckCurrent'
<1> USE DEF linkVars
<1>1. hpc' = hpc /\ lastActivation' = lastActivation
  BY DEF ClientActs, ClientDoes, hostVars
<1>2. ASSUME handoff' = handoff, InFlight(toHost', "EnterAck") => InFlight(toHost, "EnterAck")
      PROVE  AckCurrent'
  BY <1>1, <1>2 DEF AckCurrent
<1>3. CASE HandleEnter
  BY <1>1, <1>3, EnterRead DEF AckCurrent
<1>4. CASE HandleEnterFails
  <2>1. Receives("Enter") /\ Head(toClient).act \in Nat /\ handoff' = handoff
    BY <1>4, ClientReadsQueue, NaturalBounds DEF HandleEnterFails, Receives, HostMessages
  <2>2. Msg("EnterRejected", Head(toClient).act, NoBody) \in ClientMessages
    BY <2>1 DEF Msg, ClientMessages
  <2>3. Msg("EnterRejected", Head(toClient).act, NoBody).kind # "EnterAck"
    BY DEF Msg
  <2> QED BY <1>2, <1>4, <2>1, <2>2, <2>3, ClientSendQueue DEF HandleEnterFails, Grows
<1>5. CASE HandlePing
  <2>1. Msg("DiagnosticPong", handoff, NoBody) \in ClientMessages
    BY NaturalBounds DEF Msg, ClientMessages, TypeOK
  <2>2. Msg("DiagnosticPong", handoff, NoBody).kind # "EnterAck"
    BY DEF Msg
  <2> QED BY <1>2, <1>5, <2>1, <2>2, ClientSendQueue DEF HandlePing, Grows
<1>6. CASE PollExit
  <2>1. handoff' = handoff
    BY <1>6 DEF PollExit
  <2>2. CASE toHost' = toHost
    BY <1>2, <2>1, <2>2
  <2>3. CASE toHost' # toHost
    <3> DEFINE M(y) == Msg("ExitRequest", handoff,
                           [edge |-> ReturnEdge, at |-> [x |-> ReturnX, y |-> y]])
    <3>1. PICK y \in ExitYs : ClientSend(M(y)) /\ remoteActive
      BY <1>6, <2>3 DEF PollExit
    <3>2. ReturnX \in Int /\ handoff \in Nat
      BY <3>1, NaturalBounds DEF ReturnX, ProtocolInv, ClientInv, Point, TypeOK
    <3>3. M(y) \in ClientMessages /\ M(y).kind # "EnterAck"
      BY <3>2 DEF Msg, ClientMessages
    <3> HIDE DEF M
    <3> QED BY <1>2, <2>1, <3>1, <3>3, ClientSendQueue DEF Grows
  <2> QED BY <2>2, <2>3
<1>7. CASE \/ FinishExit \/ HandleInput \/ HandleInputFails \/ HandleHeartbeat
           \/ HandleRelease \/ NothingReceived \/ PeerTimeout \/ ClientIoError
           \/ ClientCleanup
  <2>1. handoff' = handoff /\ toHost' = toHost
    BY <1>7 DEF FinishExit, HandleInput, HandleInputFails, HandleHeartbeat, HandleRelease,
       NothingReceived, PeerTimeout, ClientIoError, ClientCleanup
  <2> QED BY <1>2, <2>1
<1> QED BY <1>3, <1>4, <1>5, <1>6, <1>7 DEF ClientActs, ClientDoes, ClientStep

\* Every step of the host: a new handoff begins with nothing on its way.
LEMMA HostKeepsAck ==
  ASSUME TypeOK, ProtocolInv, AckCurrent, HostActs
  PROVE  AckCurrent'
<1> USE DEF linkVars, hostVars
<1>1. handoff' = handoff
  BY DEF HostActs, HostDoes, clientVars
<1>2. ASSUME hpc \in Talking, lastActivation' = lastActivation,
             InFlight(toHost', "EnterAck") => InFlight(toHost, "EnterAck")
      PROVE  AckCurrent'
  BY <1>1, <1>2 DEF AckCurrent
<1>3. ASSUME NEW y \in ActivationYs, Activate(y) \/ ActivateOutside(y) PROVE AckCurrent'
  <2>1. hpc = "arm" /\ toHost' = toHost
    BY <1>3 DEF Activate, ActivateOutside
  <2>2. ~InFlight(toHost, "EnterAck")
    BY <2>1 DEF ProtocolInv, ToHostInv, Talking, Replies
  <2> QED BY <2>1, <2>2 DEF AckCurrent
<1>4. CASE ReceiveReply \/ PollControl
  <2>1. hpc \in Talking /\ lastActivation' = lastActivation /\ HostCanRead
        /\ toHost' = Tail(toHost)
    BY <1>4 DEF ReceiveReply, PollControl, PollPoints, Talking
  <2> QED BY <1>2, <2>1, HostReadsQueue DEF Shrinks
<1>5. CASE SendProbe \/ NextInput \/ SendHeartbeat \/ Forward \/ ReplyFails \/ HostIoError
  <2>1. hpc \in Talking /\ lastActivation' = lastActivation /\ toHost' = toHost
    BY <1>5 DEF SendProbe, NextInput, SendHeartbeat, Forward, ReplyFails, HostIoError, Talking
  <2> QED BY <1>2, <2>1
<1>6. CASE HostConnect \/ HostCleanup
  BY <1>6 DEF HostConnect, HostCleanup, HostProcessEnds, AckCurrent, Talking
<1> QED BY <1>3, <1>4, <1>5, <1>6 DEF HostActs, HostDoes, HostStep

\* So does everything else.
LEMMA AckCurrentNext ==
  TypeOK /\ ProtocolInv /\ AckCurrent /\ [Next]_vars => AckCurrent'
<1> SUFFICES ASSUME TypeOK, ProtocolInv, AckCurrent, [Next]_vars PROVE AckCurrent'
  OBVIOUS
<1> USE DEF linkVars
<1>1. CASE SessionStarts
  BY <1>1, EmptyQueue DEF SessionStarts, LinkOpens, AckCurrent
<1>2. CASE User \/ Barrier \/ UNCHANGED vars
  BY <1>2 DEF User, UserInput, Barrier, BarrierHit, vars, hostVars, clientVars, AckCurrent
<1>3. CASE Fault
  BY <1>3 DEF Fault, HostCrash, HostProcessEnds, CaptureEnds, PollExitFails, ClientCrash,
     LinkCut, clientVars, hostVars, AckCurrent, Talking
<1> QED BY <1>1, <1>2, <1>3, HostKeepsAck, ClientKeepsAck DEF Next

-----------------------------------------------------------------------------
(***************************************************************************)
(* Every step is a step of Ownership, or none.                             *)
(***************************************************************************)

\* What the invariant says of the client when the host is armed, or an answer
\* of the client that ends the handoff has arrived.
LEMMA ClientNotDriven ==
  ASSUME TypeOK, ProtocolInv,
         \/ hpc = "arm"
         \/ hpc \in Talking /\ InFlight(toHost, "ExitRequest")
         \/ hpc \in Talking /\ InFlight(toHost, "EnterRejected")
  PROVE  ClientRole # "driven"
<1> SUFFICES ASSUME cpc \notin {"accept", "exiting", "cleanup"}, remoteActive PROVE FALSE
  BY Roles
<1>1. clientOpen
  BY DEF ProtocolInv, SocketsInv
<1>2. CASE hpc = "arm"
  BY <1>1, <1>2 DEF ProtocolInv, HandoffInv, Released
<1>3. CASE hpc \in Talking /\ InFlight(toHost, "ExitRequest")
  BY <1>1, <1>3 DEF ProtocolInv, ToHostInv, ClientInv
<1>4. CASE hpc \in Talking /\ InFlight(toHost, "EnterRejected")
  BY <1>1, <1>4 DEF ProtocolInv, ToHostInv
<1> QED BY <1>2, <1>3, <1>4

\* The host's steps.
LEMMA HostOwns ==
  ASSUME TypeOK, ProtocolInv, AckCurrent, HostActs
  PROVE  Owner!Next \/ Unowned
<1> USE DEF hostVars, linkVars
<1>1. /\ cpc' = cpc /\ remoteActive' = remoteActive /\ handoff' = handoff
      /\ ClientRole' = ClientRole
  BY RoleKept DEF HostActs, HostDoes, clientVars
<1>2. ASSUME HostRole' = "gone", lastActivation' = lastActivation PROVE Owner!Next
  BY <1>1, <1>2 DEF Owner!Next, Owner!HostGone
<1>3. ASSUME HostRole' = HostRole, lastActivation' = lastActivation PROVE Unowned
  BY <1>1, <1>3 DEF Unowned
<1>4. ASSUME NEW y \in ActivationYs, Activate(y) \/ ActivateOutside(y) PROVE Owner!Next
  <2>1. hpc = "arm" /\ hpc' \in {"await", "cleanup"} /\ lastActivation' = lastActivation + 1
    BY <1>4 DEF Activate, ActivateOutside
  <2>2. HostRole = "home" /\ HostRole' \in {"asking", "gone"} /\ ClientRole # "driven"
    BY <2>1, Roles, RolesAfter, ClientNotDriven DEF Talking
  <2> QED BY <1>1, <2>1, <2>2 DEF Owner!Next, Owner!Ask
<1>5. ASSUME ReceiveReply PROVE Owner!Next
  <2>1. hpc = "await" /\ HostCanRead /\ toHost' = Tail(toHost)
        /\ lastActivation' = lastActivation
    BY <1>5 DEF ReceiveReply
  <2>2. InFlight(toHost, Head(toHost).kind)
    BY <2>1, HostReadsQueue DEF Shrinks
  <2>3. HostRole = "asking"
    BY <2>1, Roles
  <2>4. CASE hpc' = "cleanup"
    BY <1>2, <2>1, <2>4, RolesAfter DEF Talking
  <2>5. CASE hpc' = "loop"
    <3>1. Head(toHost).kind = "EnterAck"
      BY <1>5, <2>5 DEF ReceiveReply
    <3>2. handoff = lastActivation
      BY <2>1, <2>2, <3>1 DEF AckCurrent, Talking
    <3>3. HostRole' = "away"
      BY <2>5, RolesAfter DEF Forwarding
    <3> QED BY <1>1, <2>1, <2>3, <3>2, <3>3 DEF Owner!Next, Owner!Begin
  <2>6. CASE hpc' = "arm"
    <3>1. Head(toHost).kind = "EnterRejected"
      BY <1>5, <2>6 DEF ReceiveReply
    <3>2. ClientRole # "driven"
      BY <2>1, <2>2, <3>1, ClientNotDriven DEF Talking
    <3>3. HostRole' = "home"
      BY <2>6, RolesAfter
    <3> QED BY <1>1, <2>1, <2>3, <3>2, <3>3 DEF Owner!Next, Owner!Return
  <2> QED BY <1>5, <2>4, <2>5, <2>6 DEF ReceiveReply
<1>6. ASSUME PollControl PROVE Owner!Next \/ Unowned
  <2>1. /\ hpc \in {"loop", "recheck"} /\ HostCanRead /\ toHost' = Tail(toHost)
        /\ lastActivation' = lastActivation
    BY <1>6 DEF PollControl, PollPoints
  <2>2. InFlight(toHost, Head(toHost).kind)
    BY <2>1, HostReadsQueue DEF Shrinks
  <2>3. HostRole = "away" /\ controller = RemoteActive
    BY <2>1, Roles DEF Forwarding, ProtocolInv, HostInv
  <2>4. CASE hpc' = "cleanup"
    BY <1>2, <2>1, <2>4, RolesAfter DEF Talking
  <2>5. CASE hpc' # "cleanup" /\ Head(toHost).kind = "ExitRequest"
    <3>1. hpc' = "arm"
      BY <1>6, <2>5 DEF PollControl, PeerExitActivated, AfterControl, Local
    <3>2. HostRole' = "home" /\ ClientRole # "driven"
      BY <2>1, <2>2, <2>5, <3>1, RolesAfter, ClientNotDriven DEF Talking
    <3> QED BY <1>1, <2>1, <2>3, <3>2 DEF Owner!Next, Owner!Return
  <2>6. CASE hpc' # "cleanup" /\ Head(toHost).kind # "ExitRequest"
    <3>1. controller' = controller /\ hpc' = AfterControl
      BY <1>6, <2>6 DEF PollControl
    <3>2. hpc' \in Forwarding
      BY <2>3, <3>1 DEF AfterControl, RemoteActive, Forwarding
    <3>3. HostRole' = HostRole
      BY <2>3, <3>2, RolesAfter
    <3> QED BY <1>3, <2>1, <3>3
  <2> QED BY <2>4, <2>5, <2>6
<1>7. ASSUME SendProbe \/ NextInput \/ SendHeartbeat \/ Forward PROVE Unowned
  <2>1. hpc \in Forwarding /\ hpc' \in Forwarding /\ lastActivation' = lastActivation
    BY <1>7 DEF SendProbe, NextInput, SendHeartbeat, Forward, Forwarding
  <2>2. HostRole = "away" /\ HostRole' = "away"
    BY <2>1, Roles, RolesAfter
  <2> QED BY <1>3, <2>1, <2>2
<1>8. ASSUME HostConnect \/ ReplyFails \/ HostIoError \/ HostCleanup PROVE Owner!Next
  <2>1. hpc' \notin Talking /\ lastActivation' = lastActivation
    BY <1>8 DEF HostConnect, ReplyFails, HostIoError, HostCleanup, HostProcessEnds, Talking
  <2> QED BY <1>2, <2>1, RolesAfter
<1> QED BY <1>4, <1>5, <1>6, <1>7, <1>8 DEF HostActs, HostDoes, HostStep

\* The client's steps.
LEMMA ClientOwns ==
  ASSUME TypeOK, TypeOK', ProtocolInv, ClientActs
  PROVE  Owner!Next \/ Unowned
<1> USE DEF linkVars
<1>1. hpc' = hpc /\ lastActivation' = lastActivation /\ HostRole' = HostRole
  BY RoleKept DEF ClientActs, ClientDoes, hostVars
<1>2. ASSUME handoff' = handoff, cpc \in {"top", "recv"}, cpc' \in {"exiting", "cleanup"}
      PROVE  Owner!Next
  <2>1. ClientRole \in {"idle", "driven"} /\ ClientRole' = "leaving"
    <3>1. CASE remoteActive
      BY <1>2, <3>1, Roles, RolesAfter
    <3>2. CASE ~remoteActive
      BY <1>2, <3>2, Roles, RolesAfter
    <3> QED BY <3>1, <3>2
  <2> QED BY <1>1, <1>2, <2>1 DEF Owner!Next, Owner!Leave
<1>3. ASSUME handoff' = handoff, cpc \in {"top", "recv"}, cpc' \in {"top", "recv"},
             remoteActive' = remoteActive
      PROVE  Unowned
  <2>1. ClientRole' = ClientRole
    <3>1. CASE remoteActive
      BY <1>3, <3>1, Roles, RolesAfter
    <3>2. CASE ~remoteActive
      BY <1>3, <3>2, Roles, RolesAfter
    <3> QED BY <3>1, <3>2
  <2> QED BY <1>1, <1>3, <2>1 DEF Unowned
<1>4. CASE PollExit
  BY <1>2, <1>3, <1>4 DEF PollExit
<1>5. CASE FinishExit
  <2>1. cpc = "exiting" /\ cpc' = "top" /\ ~remoteActive' /\ handoff' = handoff
    BY <1>5 DEF FinishExit, ClientClose
  <2>2. ClientRole = "leaving" /\ ClientRole' = "idle"
    BY <2>1, Roles, RolesAfter
  <2> QED BY <1>1, <2>1, <2>2 DEF Owner!Next, Owner!LetGo
<1>6. CASE HandleEnter
  <2>1. /\ cpc = "recv" /\ cpc' = "top" /\ remoteActive'
        /\ hpc \in Talking => hpc = "await" /\ handoff' = lastActivation
    BY <1>6, EnterRead
  <2>2. CASE remoteActive
    <3>1. handoff' = handoff
      BY <1>6, <2>2 DEF HandleEnter
    <3>2. remoteActive' = remoteActive
      BY <1>6, <2>2 DEF HandleEnter
    <3> QED BY <1>3, <2>1, <3>1, <3>2
  <2>3. CASE ~remoteActive
    <3>1. ClientRole = "idle" /\ ClientRole' = "driven"
      BY <2>1, <2>3, Roles, RolesAfter
    <3>2. (HostRole = "asking" /\ handoff' = lastActivation) \/ HostRole = "gone"
      BY <2>1, Roles
    <3>3. handoff' \in Nat
      BY NaturalBounds DEF TypeOK, Acts
    <3> QED BY <1>1, <3>1, <3>2, <3>3 DEF Owner!Next, Owner!Take
  <2> QED BY <2>2, <2>3
<1>7. CASE HandleInput
  <2>1. handoff' = handoff /\ cpc = "recv" /\ cpc' \in {"top", "cleanup"}
    BY <1>7 DEF HandleInput, Receives
  <2>2. cpc' = "top" => remoteActive' = remoteActive
    BY <1>7 DEF HandleInput
  <2> QED BY <1>2, <1>3, <2>1, <2>2
<1>8. CASE HandleHeartbeat \/ HandlePing \/ NothingReceived
  <2>1. handoff' = handoff /\ cpc = "recv" /\ cpc' = "top" /\ remoteActive' = remoteActive
    BY <1>8 DEF HandleHeartbeat, HandlePing, NothingReceived, Receives
  <2> QED BY <1>3, <2>1
<1>9. CASE HandleRelease
  <2>1. /\ cpc = "recv" /\ cpc' = "top" /\ ~remoteActive' /\ handoff' = handoff
        /\ InFlight(toClient, "HandoffRelease")
    BY <1>9, ReceivesKeeps DEF HandleRelease, ClientClose
  <2>2. CASE ~remoteActive
    BY <1>1, <2>1, <2>2, Roles, RolesAfter DEF Unowned
  <2>3. CASE remoteActive
    <3>1. clientOpen /\ ~Released /\ ~AllBenign
      BY <2>1, <2>3 DEF ProtocolInv, SocketsInv, Released, AllBenign, OnlyKinds, InFlight,
         Benign
    <3>2. hpc \notin Talking
      BY <3>1 DEF ProtocolInv, HandoffInv, Talking, Forwarding
    <3>3. HostRole = "gone" /\ ClientRole = "driven" /\ ClientRole' = "idle"
      BY <2>1, <2>3, <3>2, Roles, RolesAfter
    <3> QED BY <1>1, <2>1, <3>3 DEF Owner!Next, Owner!Dismiss
  <2> QED BY <2>2, <2>3
<1>10. CASE HandleEnterFails \/ HandleInputFails \/ PeerTimeout \/ ClientIoError
  <2>1. handoff' = handoff /\ cpc = "recv" /\ cpc' = "cleanup"
    BY <1>10 DEF HandleEnterFails, HandleInputFails, PeerTimeout, ClientIoError, Receives
  <2> QED BY <1>2, <2>1
<1>11. CASE ClientCleanup
  <2>1. cpc' = "accept" /\ handoff' = handoff
    BY <1>11 DEF ClientCleanup
  <2> QED BY <1>1, <2>1, RolesAfter DEF Owner!Next, Owner!ClientGone
<1> QED BY <1>4, <1>5, <1>6, <1>7, <1>8, <1>9, <1>10, <1>11 DEF ClientActs, ClientDoes,
           ClientStep

\* Every step of the system.
LEMMA StepOwns ==
  TypeOK /\ TypeOK' /\ ProtocolInv /\ AckCurrent /\ [Next]_vars => Owner!Next \/ Unowned
<1> SUFFICES ASSUME TypeOK, TypeOK', ProtocolInv, AckCurrent, [Next]_vars
             PROVE  Owner!Next \/ Unowned
  OBVIOUS
<1> USE DEF linkVars
<1>1. CASE SessionStarts
  <2>1. /\ hpc = "handshake" /\ hpc' = "arm" /\ cpc = "accept" /\ cpc' = "top"
        /\ ~remoteActive' /\ UNCHANGED <<lastActivation, handoff>>
    BY <1>1 DEF SessionStarts, HostSessionStarts, ClientSessionStarts, ProtocolInv, ClientInv
  <2>2. /\ HostRole = "gone" /\ HostRole' = "home"
        /\ ClientRole = "absent" /\ ClientRole' = "idle"
    BY <2>1, Roles, RolesAfter DEF Talking
  <2> QED BY <2>1, <2>2 DEF Owner!Next, Owner!Connect
<1>2. CASE User \/ Barrier \/ UNCHANGED vars
  <2>1. UNCHANGED <<hpc, cpc, remoteActive, lastActivation, handoff>>
    BY <1>2 DEF User, UserInput, Barrier, BarrierHit, vars, hostVars, clientVars
  <2> QED BY <2>1, RoleKept DEF Unowned
<1>3. CASE Fault
  <2>1. CASE (HostCrash \/ CaptureEnds) /\ UNCHANGED clientVars
    <3>1. /\ hpc' \notin Talking
          /\ UNCHANGED <<cpc, remoteActive, lastActivation, handoff>>
      BY <2>1 DEF HostCrash, HostProcessEnds, CaptureEnds, Talking, clientVars
    <3>2. HostRole' = "gone" /\ ClientRole' = ClientRole
      BY <3>1, RolesAfter, RoleKept
    <3> QED BY <3>1, <3>2 DEF Owner!Next, Owner!HostGone
  <2>2. CASE PollExitFails /\ UNCHANGED hostVars
    <3>1. /\ cpc = "top" /\ cpc' = "cleanup"
          /\ UNCHANGED <<hpc, lastActivation, handoff>>
      BY <2>2 DEF PollExitFails, hostVars
    <3>2. ClientRole \in {"idle", "driven"} /\ ClientRole' = "leaving"
      <4>1. CASE remoteActive
        BY <3>1, <4>1, Roles, RolesAfter
      <4>2. CASE ~remoteActive
        BY <3>1, <4>2, Roles, RolesAfter
      <4> QED BY <4>1, <4>2
    <3>3. HostRole' = HostRole
      BY <3>1, RoleKept
    <3> QED BY <3>1, <3>2, <3>3 DEF Owner!Next, Owner!Leave
  <2>3. CASE ClientCrash /\ UNCHANGED hostVars
    <3>1. cpc' = "accept" /\ UNCHANGED <<hpc, lastActivation, handoff>>
      BY <2>3 DEF ClientCrash, hostVars
    <3>2. ClientRole' = "absent" /\ HostRole' = HostRole
      BY <3>1, RolesAfter, RoleKept
    <3> QED BY <3>1, <3>2 DEF Owner!Next, Owner!ClientGone
  <2>4. CASE LinkCut /\ UNCHANGED <<hostVars, clientVars>>
    <3>1. UNCHANGED <<hpc, cpc, remoteActive, lastActivation, handoff>>
      BY <2>4 DEF hostVars, clientVars
    <3> QED BY <3>1, RoleKept DEF Unowned
  <2> QED BY <1>3, <2>1, <2>2, <2>3, <2>4 DEF Fault
<1> QED BY <1>1, <1>2, <1>3, HostOwns, ClientOwns DEF Next

-----------------------------------------------------------------------------
(***************************************************************************)
(* The theorems.                                                           *)
(***************************************************************************)

\* The two processes implement Ownership: the input changes hands only as it
\* allows, whatever is delayed, lost, or fails.
THEOREM SeamlessImplementsOwnership == Spec => ImplementsOwnership
<1>1. Init => Owner!Init
  <2> SUFFICES ASSUME Init PROVE Owner!Init
    OBVIOUS
  <2>1. hpc = "dead" /\ cpc = "accept" /\ lastActivation = 0 /\ handoff = 0
    BY DEF Init, HostInit, ClientInit
  <2> QED BY <2>1, Roles DEF Owner!Init, Talking
<1>2. Init => AckCurrent
  BY EmptyQueue DEF Init, LinkInit, AckCurrent
<1>3. TypeOK /\ ProtocolInv /\ AckCurrent /\ [Next]_vars => AckCurrent'
  BY AckCurrentNext
<1>4. TypeOK /\ TypeOK' /\ ProtocolInv /\ AckCurrent /\ [Next]_vars
        => [Owner!Next]_(Owner!ownerVars)
  BY StepOwns DEF Unowned, Owner!ownerVars
<1> QED BY <1>1, <1>2, <1>3, <1>4, ProtocolInvariant, PTL
        DEF Spec, ImplementsOwnership, Owner!Spec

\* Ownership's promise, of the two processes: while the user works on the host
\* nothing drives the client (a client whose ExitRequest has arrived at the
\* host may still be letting go, and takes nothing more), and while the input
\* is away it drives the client under the lease of the host only.
THEOREM OnlyOneOwner == Spec => []Owner!OneOwner
<1>1. Owner!Init => Owner!OneOwner
  BY DEF Owner!Init, Owner!OneOwner
<1>2. Owner!OneOwner /\ [Owner!Next]_(Owner!ownerVars) => Owner!OneOwner'
  BY DEF Owner!OneOwner, Owner!ownerVars, Owner!Next, Owner!Connect, Owner!Ask, Owner!Take,
     Owner!Begin, Owner!Leave, Owner!LetGo, Owner!Dismiss, Owner!Return, Owner!HostGone,
     Owner!ClientGone
<1> QED BY <1>1, <1>2, SeamlessImplementsOwnership, PTL DEF ImplementsOwnership, Owner!Spec
=============================================================================
