--------------------------- MODULE ClipboardProofs ---------------------------
(***************************************************************************)
(* No echo: what the mirror sends is what its user copied, for every set   *)
(* of values, size of the connection, number of copies and of lost         *)
(* sessions, provided that a wl-copy that was started owns the selection   *)
(* when the mirror next looks at it.                                       *)
(***************************************************************************)
EXTENDS Clipboard, TLAPS

\* A wl-copy that is starting will own the baseline, and nothing is being sent.
\* A selection the user did not make is the baseline, or about to be, or about
\* to be replaced by it.
Quiet(p) ==
  /\ provider[p].st = "starting" =>
       sending[p] = NoTransfer /\ provider[p].val = last[p]
  /\ fresh[p] = FALSE =>
       \/ provider[p].st = "starting"
       \/ sel[p] \notin Contents
       \/ sending[p] = NoTransfer /\ sel[p] = last[p]
       \/ sending[p] # NoTransfer /\ sel[p] = sending[p].val

EchoInv == TypeOK /\ \A p \in Peers : Quiet(p)

\* The type invariant in two parts: the histories, and the rest.
HistoryOK == fresh \in [Peers -> BOOLEAN] /\ crossed \in BOOLEAN

DataOK ==
  /\ mode \in [Peers -> {"down", "waiting", "running"}]
  /\ sel \in [Peers -> Selections]
  /\ last \in [Peers -> Contents \cup {NoContent}]
  /\ provider \in [Peers -> Providers]
  /\ incoming \in [Peers -> Transfers] /\ sending \in [Peers -> Transfers]
  /\ wire \in [Peers -> Seq([val : Contents, part : Nat])]
  /\ batch \in [Peers -> 0..Batch]
  /\ copies \in 0..MaxCopies /\ drops \in 0..MaxDrops

\* The two parts are the whole.
LEMMA TypeParts == TypeOK <=> DataOK /\ HistoryOK
BY DEF TypeOK, DataOK, HistoryOK

\* What the two ends of a record and of a transfer are.
LEMMA RecordTypes ==
  /\ NoTransfer \in Transfers
  /\ NoProvider \in Providers
  /\ \A v \in Contents, i \in Nat :
       /\ Record(v, i) \in [val : Contents, part : Nat]
       /\ [val |-> v, next |-> i] \in Transfers
       /\ [val |-> v, next |-> i] # NoTransfer
BY ClipboardAssumption DEF Transfers, NoTransfer, Providers, NoProvider, Record, Selections

\* The bounds are numbers.
LEMMA Bounds == Batch \in Nat /\ MaxCopies \in Nat /\ MaxDrops \in Nat
BY ClipboardAssumption

\* Sequences keep their elements.
LEMMA SeqFacts ==
  ASSUME NEW S, NEW s \in Seq(S)
  PROVE  /\ s # <<>> => Head(s) \in S /\ Tail(s) \in Seq(S)
         /\ \A r \in S : Append(s, r) \in Seq(S)
OBVIOUS

\* The first record of a direction is a record, and what is left are records.
LEMMA HeadTyped ==
  ASSUME TypeOK, NEW p \in Peers, wire[p] # <<>>
  PROVE  /\ Head(wire[p]).val \in Contents /\ Head(wire[p]).part \in Nat
         /\ Tail(wire[p]) \in Seq([val : Contents, part : Nat])
<1>1. wire[p] \in Seq([val : Contents, part : Nat])
  BY DEF TypeOK
<1>2. Head(wire[p]) \in [val : Contents, part : Nat]
  BY <1>1, SeqFacts
<1>3. Tail(wire[p]) \in Seq([val : Contents, part : Nat])
  BY <1>1, SeqFacts
<1> QED BY <1>2, <1>3

\* The desktops and the loops start with nothing to send.
LEMMA InitTypes == Init => TypeOK
<1> SUFFICES ASSUME Init PROVE TypeOK
  OBVIOUS
<1>1. DataOK
  BY ClipboardAssumption, RecordTypes DEF Init, DataOK, Selections, Local
<1>2. HistoryOK
  BY DEF Init, HistoryOK
<1> QED BY <1>1, <1>2, TypeParts

\* Initially no selection is there to echo.
LEMMA InitEcho == Init => EchoInv
<1> SUFFICES ASSUME Init, NEW p \in Peers PROVE Quiet(p)
  BY InitTypes DEF EchoInv
<1> QED BY ClipboardAssumption DEF Init, Quiet, Local, Selections, NoProvider

-----------------------------------------------------------------------------
(***************************************************************************)
(* Types.                                                                  *)
(***************************************************************************)

\* A new session resets the mirror and keeps the desktop.
LEMMA ConnectTypes == TypeOK /\ Connect => TypeOK'
<1> SUFFICES ASSUME TypeOK, Connect PROVE TypeOK'
  OBVIOUS
<1>1. DataOK'
  BY ClipboardAssumption, RecordTypes, TypeParts DEF DataOK, Connect, Peers
<1>2. HistoryOK'
  BY TypeParts DEF HistoryOK, Connect
<1> QED BY <1>1, <1>2, TypeParts DEF TypeOK, DataOK, HistoryOK

\* A session that ends changes nothing but the mode.
LEMMA EndTypes == TypeOK /\ (EndSession \/ Drop) => TypeOK'
<1> SUFFICES ASSUME TypeOK, EndSession \/ Drop PROVE TypeOK'
  OBVIOUS
<1>1. DataOK'
  <2>1. CASE EndSession
    BY <2>1, TypeParts DEF DataOK, EndSession
  <2>2. CASE Drop
    <3>1. drops' \in 0..MaxDrops
      BY <2>2, Bounds, TypeParts DEF DataOK, Drop
    <3> QED BY <2>2, <3>1, TypeParts DEF DataOK, Drop
  <2> QED BY <2>1, <2>2
<1>2. HistoryOK'
  BY TypeParts DEF HistoryOK, EndSession, Drop
<1> QED BY <1>1, <1>2 DEF TypeOK, DataOK, HistoryOK

\* The desktop changes the selection and the provider.
LEMMA DesktopTypes ==
  ASSUME TypeOK, NEW p \in Peers,
         ProviderTakes(p) \/ \E s \in Copies[p] : UserCopies(p, s)
  PROVE  TypeOK'
<1>1. CASE ProviderTakes(p)
  <2>1. provider[p].val \in Contents
    BY <1>1 DEF TypeOK, Providers, NoProvider, ProviderTakes
  <2>2. [provider[p] EXCEPT !.st = "owner"] \in Providers
    BY <1>1, <2>1 DEF TypeOK, Providers, NoProvider, ProviderTakes
  <2>4. DataOK'
    BY <1>1, <2>1, <2>2, TypeParts DEF DataOK, ProviderTakes, mirror, Selections
  <2>3. HistoryOK'
    BY <1>1, TypeParts DEF HistoryOK, ProviderTakes, mirror
  <2> QED BY <2>3, <2>4 DEF TypeOK, DataOK, HistoryOK
<1>2. ASSUME NEW s \in Copies[p], UserCopies(p, s) PROVE TypeOK'
  <2>1. s \in Selections
    BY ClipboardAssumption
  <2>2. DataOK'
    <3>1. copies' \in 0..MaxCopies
      BY <1>2, Bounds, TypeParts DEF DataOK, UserCopies
    <3>2. provider' \in [Peers -> Providers]
      <4>1. provider \in [Peers -> Providers]
        BY TypeParts DEF DataOK
      <4>2. NoProvider \in Providers
        BY RecordTypes
      <4> QED BY <1>2, <4>1, <4>2 DEF UserCopies
    <3> QED BY <1>2, <2>1, <3>1, <3>2, TypeParts DEF DataOK, UserCopies, mirror
  <2>3. HistoryOK'
    BY <1>2, TypeParts DEF HistoryOK, UserCopies, mirror
  <2> QED BY <2>2, <2>3 DEF TypeOK, DataOK, HistoryOK
<1> QED BY <1>1, <1>2

\* A received value is written to the desktop and becomes the baseline.
LEMMA DeliverTypes ==
  ASSUME TypeOK, NEW p \in Peers, NEW v \in Contents, Deliver(p, v)
  PROVE  /\ provider' \in [Peers -> Providers]
         /\ sel' \in [Peers -> Selections]
         /\ fresh' \in [Peers -> BOOLEAN]
         /\ last' \in [Peers -> Contents \cup {NoContent}]
<1>1. StoppedSelection(p) \in Selections
  BY DEF TypeOK, StoppedSelection, Selections, Local
<1>2. \A st \in {"starting", "owner"} : [st |-> st, val |-> v] \in Providers
  BY DEF Providers
<1>3. fresh' \in [Peers -> BOOLEAN]
  BY DEF TypeOK, Deliver, WriteContent
<1> QED BY <1>1, <1>2, <1>3, ClipboardAssumption
        DEF TypeOK, Deliver, WriteContent, UpdateReceivedBaseline, Selections

\* One record is taken in.
LEMMA ReceiveTypes ==
  ASSUME TypeOK, NEW p \in Peers, Receive(p)
  PROVE  TypeOK'
<1> DEFINE o == Other(p)
           r == Head(wire[o])
           next == [val |-> r.val, next |-> r.part + 1]
<1>0. o \in Peers
  BY DEF Peers, Other
<1>1. CASE EndSession
  BY <1>1, EndTypes
<1>2. CASE ~EndSession
  <2>1. /\ batch[p] < Batch /\ wire[o] # <<>>
        /\ mode' = [mode EXCEPT ![p] = "running"]
        /\ wire' = [wire EXCEPT ![o] = Tail(@)]
        /\ batch' = [batch EXCEPT ![p] = @ + 1]
        /\ UNCHANGED <<sending, crossed, copies, drops>>
        /\ \/ Deliver(p, r.val) /\ (\/ incoming' = incoming
                                   \/ incoming' = [incoming EXCEPT ![p] = NoTransfer])
           \/ Accepted(p, next)
    BY <1>2 DEF Receive, BatchOpen
  <2>2. r.val \in Contents /\ r.part \in Nat /\ Tail(wire[o]) \in Seq([val : Contents, part : Nat])
    BY <1>0, <2>1, HeadTyped
  <2>3. incoming' \in [Peers -> Transfers]
    <3>1. next \in Transfers
      BY <2>2, RecordTypes
    <3> QED BY <2>1, <3>1, RecordTypes DEF TypeOK, Accepted
  <2>4. /\ provider' \in [Peers -> Providers]
        /\ sel' \in [Peers -> Selections]
        /\ fresh' \in [Peers -> BOOLEAN]
        /\ last' \in [Peers -> Contents \cup {NoContent}]
    <3>1. CASE Deliver(p, r.val)
      BY <3>1, <2>2, DeliverTypes
    <3>2. CASE Accepted(p, next)
      BY <3>2 DEF Accepted, TypeOK
    <3> QED BY <2>1, <3>1, <3>2
  <2>5. batch' \in [Peers -> 0..Batch]
    BY <2>1, ClipboardAssumption DEF TypeOK
  <2>6. mode' \in [Peers -> {"down", "waiting", "running"}]
        /\ wire' \in [Peers -> Seq([val : Contents, part : Nat])]
    BY <2>1, <2>2, <1>0 DEF TypeOK
  <2> QED BY <2>1, <2>3, <2>4, <2>5, <2>6 DEF TypeOK
<1> QED BY <1>1, <1>2

\* The other steps of a loop: a pass ends, or a value is sent.
LEMMA LoopTypes ==
  ASSUME TypeOK, NEW p \in Peers, Loop(p)
  PROVE  TypeOK'
<1>1. CASE Receive(p)
  BY <1>1, ReceiveTypes
<1>2. CASE EndPass(p)
  <2>1. DataOK'
    <3>1. batch' \in [Peers -> 0..Batch]
      BY <1>2, Bounds, TypeParts DEF DataOK, EndPass
    <3> QED BY <1>2, <3>1, TypeParts DEF DataOK, EndPass
  <2>2. HistoryOK'
    BY <1>2, TypeParts DEF HistoryOK, EndPass
  <2> QED BY <2>1, <2>2 DEF TypeOK, DataOK, HistoryOK
<1>3. CASE PollSends(p)
  <2>1. StoppedSelection(p) \in Selections
    BY DEF TypeOK, StoppedSelection, Selections, Local
  <2>2. [val |-> sel[p], next |-> 0] \in Transfers
    BY <1>3, RecordTypes DEF PollSends
  <2>3. HistoryOK'
    BY <1>3, TypeParts DEF HistoryOK, PollSends
  <2>4. DataOK'
    <3>1. batch' \in [Peers -> 0..Batch]
      BY <1>3, Bounds, TypeParts DEF DataOK, PollSends
    <3>2. provider' \in [Peers -> Providers]
      BY <1>3, RecordTypes, TypeParts DEF DataOK, PollSends
    <3>3. sel' \in [Peers -> Selections] /\ sending' \in [Peers -> Transfers]
      BY <1>3, <2>1, <2>2, TypeParts DEF DataOK, PollSends
    <3> QED BY <1>3, <3>1, <3>2, <3>3, TypeParts DEF DataOK, PollSends
  <2> QED BY <2>3, <2>4 DEF TypeOK, DataOK, HistoryOK
<1>4. CASE PollFails(p)
  BY <1>4, EndTypes DEF PollFails
<1>5. CASE SendRecord(p)
  <2> DEFINE v == sending[p].val
             i == sending[p].next
  <2>1. sending[p] \in Transfers /\ v \in Contents /\ i \in Nat
    BY <1>5 DEF TypeOK, Transfers, SendRecord
  <2>2. i + 1 \in Nat /\ [sending[p] EXCEPT !.next = i + 1] \in Transfers
    BY <1>5, <2>1 DEF Transfers, SendRecord
  <2>3. sending' \in [Peers -> Transfers] /\ last' \in [Peers -> Contents \cup {NoContent}]
    BY <1>5, <2>1, <2>2, RecordTypes DEF TypeOK, SendRecord
  <2>4. wire' \in [Peers -> Seq([val : Contents, part : Nat])]
    <3>1. wire[p] \in Seq([val : Contents, part : Nat])
      BY DEF TypeOK
    <3>3. Append(wire[p], Record(v, i)) \in Seq([val : Contents, part : Nat])
      <4>1. Record(v, i) \in [val : Contents, part : Nat]
        BY <2>1, RecordTypes
      <4> QED BY <3>1, <4>1, SeqFacts
    <3> QED BY <1>5, <3>3 DEF TypeOK, SendRecord
  <2>5. HistoryOK'
    BY <1>5, TypeParts DEF HistoryOK, SendRecord
  <2>6. DataOK'
    BY <1>5, <2>3, <2>4, TypeParts DEF DataOK, SendRecord
  <2> QED BY <2>5, <2>6 DEF TypeOK, DataOK, HistoryOK
<1> QED BY <1>1, <1>2, <1>3, <1>4, <1>5 DEF Loop

-----------------------------------------------------------------------------
(***************************************************************************)
(* No echo.                                                                *)
(***************************************************************************)

\* One step keeps what EchoInv says of the two desktops.
LEMMA QuietSteps ==
  ASSUME PromptProvider = TRUE, EchoInv, [Next]_vars, NEW q \in Peers
  PROVE  Quiet(q)'
<1>0. /\ TypeOK /\ Quiet(q)
      /\ fresh \in [Peers -> BOOLEAN] /\ sel \in [Peers -> Selections]
      /\ last \in [Peers -> Contents \cup {NoContent}]
      /\ sending \in [Peers -> Transfers] /\ provider \in [Peers -> Providers]
  BY DEF EchoInv, TypeOK
<1>1. CASE Connect
  BY <1>1, ClipboardAssumption DEF Connect, Quiet, NoProvider
<1>2. CASE Drop
  BY <1>0, <1>2 DEF Drop, Quiet
<1>3. ASSUME NEW p \in Peers, NEW s \in Copies[p], UserCopies(p, s) PROVE Quiet(q)'
  <2>0. /\ provider'[q] = provider[q] \/ provider'[q].st # "starting"
        /\ sending' = sending /\ last' = last
    BY <1>0, <1>3 DEF UserCopies, mirror, NoProvider
  <2>1. CASE p = q
    <3>1. fresh'[q] = TRUE
      BY <1>0, <1>3, <2>1 DEF UserCopies
    <3> QED BY <1>0, <2>0, <3>1 DEF Quiet
  <2>2. CASE p # q
    <3>1. fresh'[q] = fresh[q] /\ sel'[q] = sel[q] /\ provider'[q] = provider[q]
      BY <1>0, <1>3, <2>2 DEF UserCopies
    <3> QED BY <1>0, <2>0, <3>1 DEF Quiet
  <2> QED BY <2>1, <2>2
<1>4. ASSUME NEW p \in Peers, ProviderTakes(p) PROVE Quiet(q)'
  <2>1. sending' = sending /\ last' = last
    BY <1>4 DEF ProviderTakes, mirror
  <2>2. CASE p = q
    <3>1. provider'[q].st # "starting" /\ sel'[q] = provider[q].val
      BY <1>0, <1>4, <2>2 DEF ProviderTakes
    <3>2. sending[q] = NoTransfer /\ provider[q].val = last[q]
      BY <1>0, <1>4, <2>2 DEF ProviderTakes, Quiet
    <3> QED BY <2>1, <3>1, <3>2 DEF Quiet
  <2>3. CASE p # q
    <3>1. fresh'[q] = fresh[q] /\ sel'[q] = sel[q] /\ provider'[q] = provider[q]
      BY <1>0, <1>4, <2>3 DEF ProviderTakes
    <3> QED BY <1>0, <2>1, <3>1 DEF Quiet
  <2> QED BY <2>2, <2>3
<1>5. ASSUME NEW p \in Peers, Loop(p) PROVE Quiet(q)'
  <2>1. CASE EndSession
    BY <1>0, <2>1 DEF EndSession, Quiet
  <2>2. CASE Receive(p) /\ ~EndSession
    <3> DEFINE v == Head(wire[Other(p)]).val
    <3>1. /\ wire[Other(p)] # <<>> /\ sending' = sending /\ sending[p] = NoTransfer
          /\ \/ Deliver(p, v)
             \/ last' = last /\ provider' = provider /\ sel' = sel /\ fresh' = fresh
      BY <2>2 DEF Receive, Accepted
    <3>2. CASE Deliver(p, v)
      <4>1. /\ provider' = [provider EXCEPT ![p] = [st |-> "starting", val |-> v]]
            /\ sel' = [sel EXCEPT ![p] = StoppedSelection(p)] /\ fresh' = fresh
            /\ last' = [last EXCEPT ![p] = v]
        BY <3>2 DEF Deliver, WriteContent, UpdateReceivedBaseline
      <4>2. CASE p = q
        BY <1>0, <3>1, <4>1, <4>2 DEF Quiet
      <4>3. CASE p # q
        BY <1>0, <3>1, <4>1, <4>3 DEF Quiet
      <4> QED BY <4>2, <4>3
    <3>3. CASE last' = last /\ provider' = provider /\ sel' = sel /\ fresh' = fresh
      BY <1>0, <3>1, <3>3 DEF Quiet
    <3> QED BY <3>1, <3>2, <3>3
  <2>3. CASE EndPass(p)
    BY <1>0, <2>3 DEF EndPass, Quiet
  <2>4. CASE PollSends(p)
    <3>1. CASE p = q
      <4>1. sending'[q] = [val |-> sel[q], next |-> 0] /\ sel[q] \in Contents
        BY <1>0, <2>4, <3>1 DEF PollSends
      <4>2. sending'[q] # NoTransfer
        BY <4>1, RecordTypes
      <4>3. sel'[q] \in {sel[q], "none"} /\ provider'[q].st # "starting"
        BY <1>0, <2>4, <3>1 DEF PollSends, StoppedSelection, NoProvider
      <4>4. "none" \notin Contents
        BY ClipboardAssumption DEF Local
      <4> QED BY <4>1, <4>2, <4>3, <4>4 DEF Quiet
    <3>2. CASE p # q
      BY <1>0, <2>4, <3>2 DEF PollSends, Quiet
    <3> QED BY <3>1, <3>2
  <2>5. CASE SendRecord(p)
    <3>1. /\ sel' = sel /\ fresh' = fresh /\ provider' = provider
          /\ sending[p] # NoTransfer /\ provider[p].st # "starting"
      BY <2>5 DEF SendRecord, EchoInv, Quiet
    <3>2. CASE p = q
      <4>1. CASE /\ sending' = [sending EXCEPT ![p] = NoTransfer]
                 /\ last' = [last EXCEPT ![p] = sending[p].val]
        BY <1>0, <3>1, <3>2, <4>1 DEF Quiet
      <4>2. CASE sending' = [sending EXCEPT ![p].next = sending[p].next + 1]
        <5>1. sending[p] \in [val : Contents, next : Nat]
          BY <1>0, <3>1 DEF Transfers
        <5>2. sending'[q].val = sending[q].val /\ sending[q].val \in Contents
          BY <1>0, <3>2, <4>2, <5>1
        <5>3. sending'[q] # NoTransfer
          BY <5>2, ClipboardAssumption DEF NoTransfer, Selections
        <5> QED BY <1>0, <3>1, <3>2, <5>2, <5>3 DEF Quiet
      <4> QED BY <2>5, <4>1, <4>2 DEF SendRecord
    <3>3. CASE p # q
      <4>1. sending'[q] = sending[q] /\ last'[q] = last[q]
        BY <1>0, <2>5, <3>3 DEF SendRecord
      <4> QED BY <1>0, <3>1, <4>1 DEF Quiet
    <3> QED BY <3>2, <3>3
  <2> QED BY <1>5, <2>1, <2>2, <2>3, <2>4, <2>5 DEF Loop, PollFails
<1>6. CASE UNCHANGED vars
  BY <1>0, <1>6 DEF vars, Quiet
<1> QED BY <1>1, <1>2, <1>3, <1>4, <1>5, <1>6 DEF Next

\* Every step keeps the types.
LEMMA TypeSteps == TypeOK /\ [Next]_vars => TypeOK'
<1> SUFFICES ASSUME TypeOK, [Next]_vars PROVE TypeOK'
  OBVIOUS
<1>1. CASE UNCHANGED vars
  <2>1. DataOK'
    BY <1>1, TypeParts DEF DataOK, vars
  <2>2. HistoryOK'
    BY <1>1, TypeParts DEF HistoryOK, vars
  <2> QED BY <2>1, <2>2 DEF TypeOK, DataOK, HistoryOK
<1>2. CASE Next
  BY <1>2, ConnectTypes, EndTypes, DesktopTypes, LoopTypes DEF Next
<1> QED BY <1>1, <1>2

\* The mirror's variables always have their types, whatever the provider does
\* (clipboard.rs:159-264).
THEOREM ClipboardTypeCorrect == Spec => []TypeOK
<1>1. Init => TypeOK
  BY InitTypes
<1> QED BY <1>1, TypeSteps, PTL DEF Spec

\* A mirror sends only what its user copied since it last sent: neither what it
\* received nor what it sent before goes out again (clipboard.rs:153-154), if
\* the wl-copy that write_content spawns owns the selection when it is next
\* looked at (clipboard.rs:195, 1138).
THEOREM NeverEchoes ==
  ASSUME PromptProvider = TRUE
  PROVE  Spec => NoEcho
<1>1. Init => EchoInv
  BY InitEcho
<1>2. EchoInv /\ [Next]_vars => EchoInv'
  BY TypeSteps, QuietSteps DEF EchoInv
<1>3. EchoInv /\ [Next]_vars =>
        [\A p \in Peers :
           sending[p] = NoTransfer /\ sending'[p] # NoTransfer => fresh[p]]_vars
  <2> SUFFICES ASSUME EchoInv, Next, NEW p \in Peers,
                      sending[p] = NoTransfer, sending'[p] # NoTransfer
               PROVE  fresh[p]
    OBVIOUS
  <2>0. /\ Quiet(p) /\ fresh \in [Peers -> BOOLEAN]
        /\ sending \in [Peers -> Transfers]
    BY DEF EchoInv, TypeOK
  <2>1. PICK r \in Peers : Loop(r)
    BY <2>0 DEF Next, Connect, Drop, UserCopies, ProviderTakes, mirror
  <2>2. r = p /\ PollSends(p)
    BY <2>0, <2>1 DEF Loop, Receive, EndPass, PollFails, SendRecord, PollSends, EndSession
  <2>3. sel[p] \in Contents /\ sel[p] # last[p] /\ provider[p].st # "starting"
    BY <2>2 DEF PollSends, Polls
  <2> QED BY <2>0, <2>3 DEF Quiet
<1> QED BY <1>1, <1>2, <1>3, PTL DEF Spec, NoEcho

-----------------------------------------------------------------------------
(***************************************************************************)
(* Blocking.  What an end may find on the connection when it starts to     *)
(* send is what is left after a batch: nothing, or at most Slack records   *)
(* when the connection holds more than a batch.                            *)
(***************************************************************************)

\* The room a batch does not cover.
Slack == IF Batch >= Window THEN 0 ELSE Window - Batch

Idle(p) == sending[p] = NoTransfer

\* The records p has on the connection that are not of the value it is sending.
Older(p) ==
  IF Idle(p) THEN Len(wire[p])
  ELSE IF Len(wire[p]) > sending[p].next THEN Len(wire[p]) - sending[p].next ELSE 0

\* What is older is small, or came with the batch the other end is taking in.
Fits(p) == Older(p) <= Slack \/ Older(p) + batch[Other(p)] <= Window

\* The connection holds its window, and an end that sends has ended its pass
\* and is within its value.
Bounded(p) ==
  /\ Len(wire[p]) <= Window
  /\ ~Idle(p) => batch[p] = 0 /\ sending[p].next <= Chunks[sending[p].val]

\* Two ends that send have not both much in front of their values: the second
\* to start had emptied the connection, or taken a batch from it.
Room(p, q) ==
  /\ Idle(p) /\ Idle(q) => Fits(p) \/ Fits(q)
  /\ Idle(p) /\ ~Idle(q) => Older(p) <= Slack \/ Fits(q)
  /\ ~Idle(p) /\ ~Idle(q) => Older(p) <= Slack \/ Older(q) <= Slack

RoomInv ==
  /\ TypeOK
  /\ \A p \in Peers : Bounded(p) /\ Room(p, Other(p))

\* Two values each of at most min(Window, Batch) records never block.
BlockOnlyPastBatch ==
  BothBlocked => \E p \in Peers : \/ Chunks[sending[p].val] + 1 > Window
                                  \/ Chunks[sending[p].val] + 1 > Batch

\* The numbers the argument is about.
LEMMA RoomTypes ==
  ASSUME TypeOK, NEW p \in Peers
  PROVE  /\ Other(p) \in Peers /\ Other(p) # p /\ Other(Other(p)) = p
         /\ \A r \in Peers : r = p \/ r = Other(p)
         /\ Window \in Nat \ {0} /\ Batch \in Nat \ {0} /\ Slack \in Nat
         /\ Batch >= Window => Slack = 0
         /\ Batch < Window => Slack = Window - Batch
         /\ Len(wire[p]) \in Nat /\ batch[p] \in 0..Batch /\ Older(p) \in Nat
         /\ ~Idle(p) => /\ sending[p].next \in Nat /\ sending[p].val \in Contents
                        /\ Chunks[sending[p].val] \in Nat
<1>1. Window \in Nat \ {0} /\ Batch \in Nat \ {0} /\ Slack \in Nat
  BY ClipboardAssumption DEF Slack
<1>2. wire[p] \in Seq([val : Contents, part : Nat]) /\ batch[p] \in 0..Batch
  BY DEF TypeOK
<1>3. ~Idle(p) => sending[p].next \in Nat /\ sending[p].val \in Contents
  BY DEF TypeOK, Transfers, Idle
<1>4. ~Idle(p) => Chunks[sending[p].val] \in Nat
  BY <1>3, ClipboardAssumption
<1>5. Len(wire[p]) \in Nat
  BY <1>2
<1>6. Older(p) \in Nat
  BY <1>3, <1>5 DEF Older
<1> QED BY <1>1, <1>2, <1>3, <1>4, <1>5, <1>6 DEF Peers, Other, Slack

\* The connection starts empty, and so does every session.
LEMMA RoomEmpty ==
  ASSUME NEW p \in Peers, sending[p] = NoTransfer, sending[Other(p)] = NoTransfer,
         wire[p] = <<>>
  PROVE  Bounded(p) /\ Room(p, Other(p))
<1>1. Len(wire[p]) = 0 /\ Window \in Nat \ {0} /\ Slack \in Nat
  BY ClipboardAssumption DEF Slack
<1>2. Idle(p) /\ Idle(Other(p)) /\ Older(p) <= Slack
  BY <1>1 DEF Idle, Older
<1> QED BY <1>1, <1>2 DEF Bounded, Room, Fits

\* What RoomInv says of an end depends only on the connection, the transfers
\* and the batches.
LEMMA RoomSame ==
  ASSUME RoomInv, NEW p \in Peers, sending' = sending, wire' = wire, batch' = batch
  PROVE  Bounded(p)' /\ Room(p, Other(p))'
BY DEF RoomInv, Bounded, Room, Fits, Older, Idle

\* A session starts with an empty connection.
LEMMA RoomEmptyNext ==
  ASSUME NEW p \in Peers, sending'[p] = NoTransfer, sending'[Other(p)] = NoTransfer,
         wire'[p] = <<>>
  PROVE  Bounded(p)' /\ Room(p, Other(p))'
<1>1. Len(wire'[p]) = 0 /\ Window \in Nat \ {0} /\ Slack \in Nat
  BY ClipboardAssumption DEF Slack
<1>2. Idle(p)' /\ Idle(Other(p))' /\ Older(p)' <= Slack
  BY <1>1 DEF Idle, Older
<1> QED BY <1>1, <1>2 DEF Bounded, Room, Fits

\* Room(p, Other(p)) for both ends follows from what it says seen from one.
LEMMA RoomBoth ==
  ASSUME NEW p \in Peers, Bounded(p), Bounded(Other(p)),
         Room(p, Other(p)), Room(Other(p), p)
  PROVE  \A r \in Peers : Bounded(r) /\ Room(r, Other(r))
BY DEF Peers, Other

\* Taking the head off shortens a sequence by one.
LEMMA TailLength ==
  ASSUME NEW S, NEW t \in Seq(S), t # <<>>
  PROVE  Len(Tail(t)) = Len(t) - 1 /\ Len(t) \in Nat \ {0}
OBVIOUS

\* A record that is taken in leaves the connection and joins the batch.
LEMMA ReceiveRoom ==
  ASSUME RoomInv, NEW p \in Peers, Idle(p), wire[Other(p)] # <<>>, batch[p] < Batch,
         wire' = [wire EXCEPT ![Other(p)] = Tail(@)],
         batch' = [batch EXCEPT ![p] = @ + 1], sending' = sending
  PROVE  \A r \in Peers : (Bounded(r) /\ Room(r, Other(r)))'
<1> DEFINE o == Other(p)
<1>0. /\ TypeOK /\ o \in Peers /\ o # p /\ Other(o) = p
      /\ Bounded(p) /\ Bounded(o) /\ Room(p, o) /\ Room(o, p)
  BY RoomTypes DEF RoomInv
<1>1. /\ batch'[p] = batch[p] + 1 /\ batch'[o] = batch[o]
      /\ wire'[p] = wire[p] /\ wire'[o] = Tail(wire[o])
      /\ batch[p] \in Nat /\ batch[o] \in Nat
  BY <1>0, RoomTypes DEF TypeOK
<1>2. Len(wire'[o]) = Len(wire[o]) - 1 /\ Len(wire[o]) \in Nat \ {0}
  <2>1. wire[o] \in Seq([val : Contents, part : Nat]) /\ wire[o] # <<>>
    BY <1>0 DEF TypeOK
  <2> QED BY <1>1, <2>1, TailLength
<1>3. /\ Idle(p)' = Idle(p) /\ Idle(o)' = Idle(o)
      /\ Older(p)' = Older(p) /\ Fits(p)' = Fits(p)
  BY <1>1 DEF Idle, Older, Fits
<1>4. /\ Older(o)' <= Older(o) /\ Older(o)' \in Nat /\ Older(o) \in Nat
      /\ Older(o)' = 0 \/ Older(o)' + 1 = Older(o)
  <2>1. CASE Idle(o)
    BY <1>2, <1>3, <2>1 DEF Older
  <2>2. CASE ~Idle(o)
    <3>1. sending[o].next \in Nat /\ sending'[o] = sending[o]
      BY <1>0, <2>2, RoomTypes
    <3> QED BY <1>2, <1>3, <2>2, <3>1 DEF Older
  <2> QED BY <2>1, <2>2
<1>5. Slack \in Nat /\ Window \in Nat
  BY <1>0, RoomTypes
<1>6. Fits(o) => Fits(o)'
  BY <1>0, <1>1, <1>4, <1>5 DEF Fits
<1>7. Bounded(p)' /\ Bounded(o)'
  BY <1>0, <1>1, <1>2, <1>3, <1>5 DEF Bounded, Idle
<1>8. Room(p, o)' /\ Room(o, p)'
  BY <1>0, <1>3, <1>4, <1>5, <1>6 DEF Room
<1> QED BY <1>0, <1>7, <1>8, RoomBoth DEF Peers, Other

\* A pass that ends leaves the connection as it is.
LEMMA EndPassRoom ==
  ASSUME RoomInv, NEW p \in Peers, EndPass(p)
  PROVE  \A r \in Peers : (Bounded(r) /\ Room(r, Other(r)))'
<1> DEFINE o == Other(p)
<1>0. /\ TypeOK /\ o \in Peers /\ o # p /\ Other(o) = p
      /\ Bounded(p) /\ Bounded(o) /\ Room(p, o) /\ Room(o, p)
  BY RoomTypes DEF RoomInv
<1>1. /\ batch'[p] = 0 /\ batch'[o] = batch[o] /\ wire' = wire /\ sending' = sending
      /\ batch[p] \in Nat /\ Older(o) \in Nat /\ Slack \in Nat /\ Window \in Nat
  <2>1. batch \in [Peers -> 0..Batch]
    BY <1>0 DEF TypeOK
  <2>2. Older(o) \in Nat /\ Slack \in Nat /\ Window \in Nat /\ batch[p] \in 0..Batch
    BY <1>0, RoomTypes
  <2> QED BY <1>0, <2>1, <2>2 DEF EndPass
<1>2. /\ \A r \in {p, o} : Idle(r)' = Idle(r) /\ Older(r)' = Older(r)
      /\ Fits(p)' = Fits(p)
  BY <1>1 DEF Idle, Older, Fits
<1>3. Fits(o) => Fits(o)'
  BY <1>0, <1>1, <1>2 DEF Fits
<1>4. Bounded(p)' /\ Bounded(o)'
  BY <1>0, <1>1 DEF Bounded, Idle
<1>5. Room(p, o)' /\ Room(o, p)'
  BY <1>0, <1>2, <1>3 DEF Room
<1> QED BY <1>0, <1>4, <1>5, RoomBoth DEF Peers, Other

\* An end begins to send when nothing more has come or after a whole batch.
LEMMA PollSendsRoom ==
  ASSUME RoomInv, NEW p \in Peers, PollSends(p)
  PROVE  \A r \in Peers : (Bounded(r) /\ Room(r, Other(r)))'
<1> DEFINE o == Other(p)
<1>0. /\ TypeOK /\ o \in Peers /\ o # p /\ Other(o) = p
      /\ Bounded(p) /\ Bounded(o) /\ Room(p, o) /\ Room(o, p)
  BY RoomTypes DEF RoomInv
<1>1. /\ batch'[p] = 0 /\ batch'[o] = batch[o] /\ wire' = wire
      /\ sending'[p] = [val |-> sel[p], next |-> 0] /\ sending'[o] = sending[o]
      /\ Idle(p) /\ sel[p] \in Contents
      /\ batch[p] >= Batch \/ wire[o] = <<>>
  <2>1. /\ batch \in [Peers -> 0..Batch] /\ sending \in [Peers -> Transfers]
        /\ Batch \in Nat
    BY <1>0, RoomTypes DEF TypeOK
  <2> QED BY <1>0, <2>1 DEF PollSends, Polls, Drained, BatchOpen, Idle
<1>2. /\ batch[p] \in Nat /\ batch[o] \in Nat /\ Slack \in Nat
      /\ Window \in Nat \ {0} /\ Batch \in Nat \ {0}
      /\ Len(wire[p]) \in Nat /\ Len(wire[o]) \in Nat /\ Older(o) \in Nat
      /\ Batch >= Window => Slack = 0
      /\ Batch < Window => Slack = Window - Batch
  BY <1>0, RoomTypes
<1>3. ~Idle(p)' /\ Idle(o)' = Idle(o) /\ sending'[p].next = 0
  BY <1>1, RecordTypes DEF Idle
<1>4. Older(p)' = Older(p) /\ Older(o)' = Older(o)
  <2>1. Older(p)' = Len(wire[p])
    BY <1>1, <1>2, <1>3 DEF Older
  <2>2. Older(p) = Len(wire[p])
    BY <1>1 DEF Older
  <2> QED BY <1>1, <1>3, <2>1, <2>2 DEF Older
<1>5. Fits(p)' = Fits(p)
  BY <1>1, <1>4 DEF Fits
<1>6. Fits(o) => Older(o) <= Slack
  <2>1. CASE wire[o] = <<>>
    <3>1. Len(wire[o]) = 0
      BY <2>1
    <3>2. Older(o) = 0
      BY <3>1, <1>0, RoomTypes DEF Older
    <3> QED BY <3>2, <1>2
  <2>2. CASE batch[p] >= Batch
    BY <1>0, <1>2, <2>2 DEF Fits
  <2> QED BY <1>1, <2>1, <2>2
<1>7. Bounded(p)' /\ Bounded(o)'
  <2>1. Chunks[sel[p]] \in Nat /\ sending'[p].val = sel[p]
    BY <1>1, ClipboardAssumption
  <2> QED BY <1>0, <1>1, <1>3, <2>1 DEF Bounded, Idle
<1>8. Idle(o) => Older(o) <= Slack \/ Fits(p)
  BY <1>0, <1>1, <1>6 DEF Room
<1>9. ~Idle(o) => Older(p) <= Slack \/ Older(o) <= Slack
  BY <1>0, <1>1, <1>6 DEF Room
<1>10. Room(p, o)' /\ Room(o, p)'
  BY <1>0, <1>3, <1>4, <1>5, <1>8, <1>9 DEF Room
<1> QED BY <1>0, <1>7, <1>10, RoomBoth DEF Peers, Other

\* A record of a value that is being sent adds nothing to what is older; when
\* the value is sent whole, the other end's batch still fits.
LEMMA SendRecordRoom ==
  ASSUME RoomInv, NEW p \in Peers, SendRecord(p)
  PROVE  \A r \in Peers : (Bounded(r) /\ Room(r, Other(r)))'
<1> DEFINE o == Other(p)
           v == sending[p].val
           i == sending[p].next
<1>0. /\ TypeOK /\ o \in Peers /\ o # p /\ Other(o) = p
      /\ Bounded(p) /\ Bounded(o) /\ Room(p, o) /\ Room(o, p)
  BY RoomTypes DEF RoomInv
<1>1. /\ ~Idle(p) /\ v \in Contents /\ i \in Nat /\ Chunks[v] \in Nat
      /\ sending[p] \in [val : Contents, next : Nat]
      /\ batch[p] = 0 /\ i <= Chunks[v] /\ Len(wire[p]) < Window
  BY <1>0, RoomTypes DEF TypeOK, SendRecord, Idle, Transfers, Bounded
<1>2. /\ batch' = batch /\ wire'[o] = wire[o] /\ sending'[o] = sending[o]
      /\ wire'[p] = Append(wire[p], Record(v, i))
      /\ \/ i = Chunks[v] /\ sending'[p] = NoTransfer
         \/ i # Chunks[v] /\ sending'[p] = [sending[p] EXCEPT !.next = i + 1]
  BY <1>0 DEF TypeOK, SendRecord
<1>3. Len(wire'[p]) = Len(wire[p]) + 1
  <2>1. wire[p] \in Seq([val : Contents, part : Nat])
    BY DEF RoomInv, TypeOK
  <2>2. Record(v, i) \in [val : Contents, part : Nat]
    BY <1>1, RecordTypes
  <2> QED BY <1>2, <2>1, <2>2
<1>4. /\ batch[o] \in Nat /\ Slack \in Nat /\ Window \in Nat
      /\ Len(wire[p]) \in Nat /\ Len(wire[o]) \in Nat /\ Older(o) \in Nat /\ Older(p) \in Nat
  BY <1>0, RoomTypes
<1>5. /\ Idle(o)' = Idle(o) /\ Older(o)' = Older(o)
      /\ Fits(o)' = Fits(o)
  BY <1>0, <1>2 DEF Idle, Older, Fits
<1>6. Older(o) <= Len(wire[o])
  BY <1>0, <1>4, RoomTypes DEF Older
<1>7. Fits(o)'
  <2>1. Older(o) + batch[p] <= Window
    BY <1>0, <1>1, <1>4, <1>6 DEF Bounded
  <2> QED BY <1>0, <1>5, <2>1 DEF Fits
<1>8. Len(wire'[p]) <= Window /\ Bounded(o)'
  BY <1>0, <1>1, <1>2, <1>3, <1>4 DEF Bounded, Idle
<1>9. CASE sending'[p] = NoTransfer
  <2>1. Idle(p)'
    BY <1>9 DEF Idle
  <2>2. Bounded(p)' /\ Room(p, o)' /\ Room(o, p)'
    BY <1>7, <1>8, <2>1 DEF Bounded, Room
  <2> QED BY <1>0, <1>8, <2>2, RoomBoth DEF Peers, Other
<1>10. CASE i # Chunks[v] /\ sending'[p] = [sending[p] EXCEPT !.next = i + 1]
  <2>1. sending'[p].val = v /\ sending'[p].next = i + 1 /\ ~Idle(p)'
    <3>1. sending'[p].val = v /\ sending'[p].next = i + 1
      BY <1>1, <1>10
    <3> QED BY <1>1, <3>1, ClipboardAssumption DEF Idle, NoTransfer, Selections
  <2>2. Older(p)' = Older(p)
    <3>1. Older(p)' = IF Len(wire'[p]) > i + 1 THEN Len(wire'[p]) - (i + 1) ELSE 0
      BY <2>1 DEF Older
    <3>2. Older(p) = IF Len(wire[p]) > i THEN Len(wire[p]) - i ELSE 0
      BY <1>1 DEF Older
    <3> HIDE DEF i
    <3> QED BY <1>1, <1>3, <1>4, <3>1, <3>2
  <2>3. Fits(p)' = Fits(p)
    BY <1>0, <1>2, <2>2 DEF Fits
  <2>4. Bounded(p)'
    BY <1>1, <1>2, <1>8, <1>10, <2>1 DEF Bounded
  <2>5. Room(p, o)' /\ Room(o, p)'
    BY <1>0, <1>1, <1>5, <2>1, <2>2, <2>3 DEF Room
  <2> QED BY <1>0, <1>8, <2>4, <2>5, RoomBoth DEF Peers, Other
<1> QED BY <1>2, <1>9, <1>10

\* Every step keeps the room.
LEMMA RoomSteps == RoomInv /\ [Next]_vars => RoomInv'
<1> SUFFICES ASSUME RoomInv, [Next]_vars
             PROVE  \A r \in Peers : (Bounded(r) /\ Room(r, Other(r)))'
  BY TypeSteps DEF RoomInv
<1>1. CASE Connect
  <2>1. \A r \in Peers : wire'[r] = <<>> /\ sending'[r] = NoTransfer
    BY <1>1 DEF Connect
  <2> QED BY <2>1, RoomEmptyNext, RoomTypes DEF RoomInv
<1>2. CASE sending' = sending /\ wire' = wire /\ batch' = batch
  BY <1>2, RoomSame
<1>3. ASSUME NEW p \in Peers, Loop(p), ~EndSession
      PROVE  \A r \in Peers : (Bounded(r) /\ Room(r, Other(r)))'
  <2>1. CASE Receive(p)
    <3>1. /\ Idle(p) /\ wire[Other(p)] # <<>> /\ batch[p] < Batch
          /\ wire' = [wire EXCEPT ![Other(p)] = Tail(@)]
          /\ batch' = [batch EXCEPT ![p] = @ + 1] /\ sending' = sending
      BY <1>3, <2>1 DEF Receive, BatchOpen, Idle
    <3> QED BY <3>1, ReceiveRoom
  <2> QED BY <1>3, <2>1, EndPassRoom, PollSendsRoom, SendRecordRoom DEF Loop, PollFails
<1> QED BY <1>1, <1>2, <1>3
        DEF Next, Drop, ProviderTakes, UserCopies, mirror, vars, EndSession

\* The mirrors wait on each other only when one of them sends a value of more
\* records than the connection holds or than a batch takes in
\* (clipboard.rs:177-185, 582), whatever the sizes of the two.
THEOREM BlocksPastBatch == Spec => []BlockOnlyPastBatch
<1>1. Init => RoomInv
  <2> SUFFICES ASSUME Init PROVE \A p \in Peers : Bounded(p) /\ Room(p, Other(p))
    BY InitTypes DEF RoomInv
  <2> QED BY InitTypes, RoomTypes, RoomEmpty DEF Init
<1>2. RoomInv => BlockOnlyPastBatch
  <2> SUFFICES ASSUME RoomInv, BothBlocked,
                      \A p \in Peers : /\ Chunks[sending[p].val] + 1 <= Window
                                       /\ Chunks[sending[p].val] + 1 <= Batch
               PROVE  FALSE
    <3>1. RoomInv /\ BothBlocked =>
            \A p \in Peers : Chunks[sending[p].val] \in Nat /\ Window \in Nat /\ Batch \in Nat
      BY RoomTypes DEF RoomInv, BothBlocked, Idle
    <3> QED BY <3>1 DEF BlockOnlyPastBatch
  <2>1. ASSUME NEW p \in Peers PROVE Older(p) > Slack
    <3>1. /\ TypeOK /\ ~Idle(p) /\ Len(wire[p]) = Window /\ Bounded(p)
          /\ Chunks[sending[p].val] + 1 <= Window /\ Chunks[sending[p].val] + 1 <= Batch
      BY DEF RoomInv, BothBlocked, Idle
    <3>2. sending[p].next <= Chunks[sending[p].val]
      BY <3>1 DEF Bounded
    <3>3. Older(p) = Window - sending[p].next
      BY <3>1, <3>2, RoomTypes DEF Older
    <3> QED BY <3>1, <3>2, <3>3, RoomTypes
  <2>2. /\ "host" \in Peers /\ Room("host", Other("host")) /\ TypeOK
        /\ ~Idle("host") /\ ~Idle(Other("host")) /\ Other("host") \in Peers
    BY DEF RoomInv, BothBlocked, Idle, Peers, Other
  <2> QED BY <2>1, <2>2, RoomTypes DEF Room
<1> QED BY <1>1, <1>2, RoomSteps, PTL DEF Spec

\* Small copies never block: on a connection that holds no more than a batch,
\* the two mirrors wait on each other for ever only when one of them sends a
\* value that alone does not fit the connection (clipboard.rs:177-185, 582).
THEOREM SmallCopiesNeverBlock ==
  ASSUME Batch >= Window
  PROVE  Spec => []BlockOnlyOnLarge
<1>1. TypeOK /\ BlockOnlyPastBatch => BlockOnlyOnLarge
  <2> SUFFICES ASSUME TypeOK, BlockOnlyPastBatch, BothBlocked
               PROVE  \E p \in Peers : Chunks[sending[p].val] + 1 > Window
    BY DEF BlockOnlyOnLarge
  <2>1. PICK p \in Peers : \/ Chunks[sending[p].val] + 1 > Window
                           \/ Chunks[sending[p].val] + 1 > Batch
    BY DEF BlockOnlyPastBatch
  <2>2. Chunks[sending[p].val] \in Nat /\ Window \in Nat /\ Batch \in Nat
    BY RoomTypes DEF BothBlocked, Idle
  <2> QED BY <2>1, <2>2
<1> QED BY <1>1, BlocksPastBatch, ClipboardTypeCorrect, PTL

=============================================================================
