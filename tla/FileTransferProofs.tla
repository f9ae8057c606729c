-------------------------- MODULE FileTransferProofs --------------------------
(***************************************************************************)
(* What a file transfer publishes, for every number of transfers, files,   *)
(* chunks and faults.                                                      *)
(***************************************************************************)
EXTENDS FileTransfer, FiniteSetTheorems, WellFoundedInduction, TLAPS

Records == [kind : {"start", "finish"}] \cup [kind : {"chunk"}, file : Nat, at : Nat]

\* Every chunk of every file of the transfer is in its staging directory.
AllWhole(t) == \A i \in DOMAIN manifest[t] : staged[t][i] = manifest[t][i].size

\* What the type invariant leaves open.
QueuesOK ==
  /\ manifest \in [Transfers -> Seq(FileInfo)]
  /\ staged \in [Transfers -> Seq(Nat)]
  /\ toRcv \in [Transfers -> Seq(Records)]

\* How far a transfer has come: the receiver begins after the sender, stages as
\* many files as are offered, closes them in order when they are whole, and
\* publishes when all are.
Stage(t) ==
  /\ snd[t].pc = "idle" =>
       rcv[t].pc = "listening" /\ toRcv[t] = <<>> /\ staged[t] = <<>>
  /\ Len(staged[t]) \in {0, Len(manifest[t])}
  /\ rcv[t].pc \in {"listening", "asking"} => rcv[t].file = 1
  /\ rcv[t].pc \in {"asking", "receiving", "publishing"} => Len(manifest[t]) >= 1
  /\ rcv[t].pc = "receiving" =>
       /\ Len(staged[t]) = Len(manifest[t])
       /\ rcv[t].file \in 1 .. Len(manifest[t]) + 1
       /\ \A i \in DOMAIN manifest[t] :
            i < rcv[t].file => staged[t][i] = manifest[t][i].size
  /\ rcv[t].pc = "publishing" => rcv[t].file \in 1 .. Len(manifest[t])
  /\ rcv[t].pc \in {"publishing", "done"} => AllWhole(t)

\* What is published belongs to a transfer that was whole, and stays so.
PublishedInv ==
  \A f \in published :
    rcv[f[1]].pc \in {"publishing", "done", "failed"} /\ AllWhole(f[1])

\* Paths picked one at a time are free until they are published under.
PathsInv ==
  raced \/ /\ \A t \in Transfers : chosen[t] # NoPath => folder[chosen[t]] = Free
           /\ \A t, u \in Transfers : chosen[t] = chosen[u] /\ chosen[t] # NoPath => t = u
           /\ \A p \in Existing : folder[p] = UserFile
           /\ \A f \in published : \E p \in Paths : folder[p] = f

TransferInv ==
  /\ TypeOK /\ QueuesOK
  /\ \A t \in Transfers : Stage(t)
  /\ PublishedInv
  /\ PathsInv

-----------------------------------------------------------------------------
(***************************************************************************)
(* Steps that publish nothing.                                             *)
(***************************************************************************)

\* The folder is not touched by a step that leaves its variables alone.
LEMMA DiskKept ==
  ASSUME TransferInv, UNCHANGED disk
  PROVE  /\ PathsInv' /\ published' = published
         /\ folder' \in [Paths -> {Free, UserFile} \cup (Transfers \X (Nat \ {0}))]
         /\ chosen' \in [Transfers -> Paths \cup {NoPath}]
         /\ published' \subseteq Transfers \X (Nat \ {0}) /\ raced' \in BOOLEAN
  BY DEF TransferInv, TypeOK, PathsInv, disk

\* A step of one transfer leaves the others where they are.
LEMMA OthersKept ==
  ASSUME TransferInv, NEW u \in Transfers,
         snd'[u] = snd[u], rcv'[u] = rcv[u], manifest'[u] = manifest[u],
         staged'[u] = staged[u], toRcv'[u] = toRcv[u]
  PROVE  Stage(u)'
  BY DEF TransferInv, Stage, AllWhole

\* A transfer that has published keeps what it has staged.
LEMMA PublishedStays ==
  ASSUME TransferInv, published' = published,
         \A u \in Transfers :
           rcv[u].pc \in {"publishing", "done", "failed"} =>
             /\ rcv'[u].pc \in {"publishing", "done", "failed"}
             /\ manifest'[u] = manifest[u] /\ staged'[u] = staged[u]
  PROVE  PublishedInv'
<1> SUFFICES ASSUME NEW f \in published
             PROVE  rcv'[f[1]].pc \in {"publishing", "done", "failed"} /\ AllWhole(f[1])'
  BY DEF PublishedInv
<1>1. f[1] \in Transfers
  BY DEF TransferInv, TypeOK
<1>2. rcv[f[1]].pc \in {"publishing", "done", "failed"} /\ AllWhole(f[1])
  BY DEF TransferInv, PublishedInv
<1> QED BY <1>1, <1>2 DEF AllWhole

\* What is assigned to one transfer.
LEMMA Assigned ==
  ASSUME NEW S, NEW P, NEW r \in [S -> P], NEW t \in S, NEW x \in P, NEW q,
         q = [r EXCEPT ![t] = x]
  PROVE  q \in [S -> P] /\ q[t] = x /\ \A u \in S : u # t => q[u] = r[u]
  OBVIOUS

SenderStates ==
  [pc : {"idle", "offered", "streaming", "completed", "declined", "failed"},
   file : Nat, sent : Nat]
ReceiverStates ==
  [pc : {"listening", "asking", "receiving", "publishing", "done", "declined", "failed"},
   file : Nat]

\* A step of one sender that leaves the receiver, the manifest and the staging
\* directory alone: it starts nothing anew.
LEMMA SenderKeeps ==
  ASSUME TransferInv, NEW t \in Transfers,
         snd' \in [Transfers -> SenderStates], snd'[t].pc # "idle",
         \A u \in Transfers : u # t => snd'[u] = snd[u],
         toRcv' \in [Transfers -> Seq(Records)],
         \A u \in Transfers : u # t => toRcv'[u] = toRcv[u],
         Len(toRcv'[t]) <= Window,
         answer' \in [Transfers -> {"none", "accept", "reject"}],
         faults' \in 0 .. MaxFaults,
         UNCHANGED <<rcv, manifest, staged, disk>>
  PROVE  TransferInv'
<1>1. TypeOK' /\ QueuesOK' /\ PathsInv'
  <2>1. \A u \in Transfers : Len(toRcv'[u]) <= Window
    BY DEF TransferInv, TypeOK
  <2> QED BY <2>1, DiskKept DEF TransferInv, TypeOK, QueuesOK, SenderStates
<1>2. Stage(t)'
  BY DEF TransferInv, Stage, AllWhole
<1>3. \A u \in Transfers : u # t => Stage(u)'
  BY OthersKept
<1>4. PublishedInv'
  BY PublishedStays, DiskKept
<1> QED BY <1>1, <1>2, <1>3, <1>4 DEF TransferInv

-----------------------------------------------------------------------------
(***************************************************************************)
(* The sender.                                                             *)
(***************************************************************************)

\* What the type invariant says of the transfers.
LEMMA TransferTypes ==
  ASSUME TransferInv
  PROVE  /\ snd \in [Transfers -> SenderStates] /\ rcv \in [Transfers -> ReceiverStates]
         /\ manifest \in [Transfers -> Seq(FileInfo)] /\ staged \in [Transfers -> Seq(Nat)]
         /\ toRcv \in [Transfers -> Seq(Records)]
         /\ \A t \in Transfers : Len(toRcv[t]) <= Window
         /\ answer \in [Transfers -> {"none", "accept", "reject"}]
         /\ faults \in 0 .. MaxFaults
  BY DEF TransferInv, TypeOK, QueuesOK, SenderStates, ReceiverStates

\* A record sent is one more in its window.
LEMMA Sent ==
  ASSUME TransferInv, NEW t \in Transfers, NEW r \in Records, Len(toRcv[t]) < Window,
         toRcv' = [toRcv EXCEPT ![t] = Append(@, r)]
  PROVE  /\ toRcv' \in [Transfers -> Seq(Records)]
         /\ \A u \in Transfers : u # t => toRcv'[u] = toRcv[u]
         /\ Len(toRcv'[t]) <= Window
<1>1. toRcv \in [Transfers -> Seq(Records)] /\ toRcv'[t] = Append(toRcv[t], r)
  BY DEF TransferInv, QueuesOK
<1>2. Append(toRcv[t], r) \in Seq(Records) /\ Len(toRcv'[t]) = Len(toRcv[t]) + 1
  BY <1>1
<1>3. Len(toRcv[t]) \in Nat /\ Window \in Nat
  BY <1>1, FileTransferAssumption
<1> QED BY <1>1, <1>2, <1>3

\* send_files makes an offer or refuses the list.
LEMMA OfferStep ==
  ASSUME TransferInv, NEW t \in Transfers, NEW q \in Requests, Offer(t, q)
  PROVE  TransferInv'
<1>0. /\ snd[t].pc = "idle" /\ rcv[t].pc = "listening" /\ staged[t] = <<>>
      /\ UNCHANGED <<rcv, staged, answer, disk, faults>>
  BY DEF Offer, TransferInv, Stage
<1>1. PICK pc \in {"offered", "failed"} : snd' = [snd EXCEPT ![t].pc = pc]
  BY DEF Offer
<1>2. /\ snd' \in [Transfers -> SenderStates] /\ snd'[t].pc # "idle"
      /\ \A u \in Transfers : u # t => snd'[u] = snd[u]
  BY <1>1, TransferTypes DEF SenderStates
<1>3. /\ manifest' \in [Transfers -> Seq(FileInfo)]
      /\ \A u \in Transfers : u # t => manifest'[u] = manifest[u]
  BY RegularAssumption, TransferTypes DEF Offer
<1>4. /\ toRcv' \in [Transfers -> Seq(Records)]
      /\ \A u \in Transfers : Len(toRcv'[u]) <= Window
      /\ \A u \in Transfers : u # t => toRcv'[u] = toRcv[u]
  <2> DEFINE one == <<[kind |-> "start"]>>
  <2>1. one \in Seq(Records) /\ Len(one) = 1 /\ Window >= 1
    BY FileTransferAssumption DEF Records
  <2>2. toRcv' = toRcv \/ toRcv' = [toRcv EXCEPT ![t] = one]
    BY DEF Offer
  <2> HIDE DEF one
  <2> QED BY <2>1, <2>2, TransferTypes
<1>5. TypeOK' /\ QueuesOK' /\ PathsInv'
  <2>1. DOMAIN staged'[t] = {}
    BY <1>0
  <2>2. \A u \in Transfers : DOMAIN staged'[u] \subseteq DOMAIN manifest'[u]
    BY <1>0, <1>3, <2>1 DEF TransferInv, TypeOK
  <2> QED BY <1>0, <1>2, <1>3, <1>4, <2>2, DiskKept DEF TransferInv, TypeOK, QueuesOK,
             SenderStates
<1>6. Stage(t)'
  <2>1. rcv[t].file = 1 /\ Len(staged[t]) = 0
    BY <1>0 DEF TransferInv, Stage
  <2> QED BY <1>0, <1>2, <2>1 DEF Stage
<1>7. \A u \in Transfers : u # t => Stage(u)'
  BY <1>0, <1>2, <1>3, <1>4, OthersKept
<1>8. PublishedInv'
  BY <1>0, <1>3, PublishedStays, DiskKept
<1> QED BY <1>5, <1>6, <1>7, <1>8 DEF TransferInv

\* The steps of a sender that has offered.
LEMMA SenderStep ==
  ASSUME TransferInv, NEW t \in Transfers, Sender(t)
  PROVE  TransferInv'
<1>1. ASSUME NEW pc \in {"streaming", "completed", "declined", "failed"},
             snd' = [snd EXCEPT ![t].pc = pc]
      PROVE  /\ snd' \in [Transfers -> SenderStates] /\ snd'[t].pc # "idle"
             /\ \A u \in Transfers : u # t => snd'[u] = snd[u]
  BY <1>1, TransferTypes DEF SenderStates
<1>2. CASE ReadDecision(t)
  <2>1. PICK pc \in {"streaming", "declined"} : snd' = [snd EXCEPT ![t].pc = pc]
    BY <1>2 DEF ReadDecision
  <2>2. answer' \in [Transfers -> {"none", "accept", "reject"}]
    BY <1>2, TransferTypes DEF ReadDecision
  <2>3. UNCHANGED <<rcv, manifest, staged, disk, toRcv, faults>>
    BY <1>2 DEF ReadDecision
  <2> QED BY <1>1, <2>1, <2>2, <2>3, TransferTypes, SenderKeeps
<1>3. CASE GiveUp(t)
  <2>1. snd' = [snd EXCEPT ![t].pc = "failed"]
    BY <1>3 DEF GiveUp
  <2>2. UNCHANGED <<rcv, manifest, staged, disk, toRcv, answer, faults>>
    BY <1>3 DEF GiveUp
  <2> QED BY <1>1, <2>1, <2>2, TransferTypes, SenderKeeps
<1>4. CASE SendChunk(t)
  <2> DEFINE r == [kind |-> "chunk", file |-> snd[t].file, at |-> snd[t].sent]
  <2>1. /\ snd[t].pc = "streaming" /\ Len(toRcv[t]) < Window
        /\ snd' = [snd EXCEPT ![t].sent = @ + 1]
        /\ toRcv' = [toRcv EXCEPT ![t] = Append(@, r)]
        /\ UNCHANGED <<rcv, manifest, staged, answer, disk, faults>>
    BY <1>4 DEF SendChunk, Reading
  <2>2. snd[t].sent \in Nat /\ snd[t].file \in Nat
    BY TransferTypes DEF SenderStates
  <2>3. /\ snd' \in [Transfers -> SenderStates] /\ snd'[t].pc # "idle"
        /\ \A u \in Transfers : u # t => snd'[u] = snd[u]
    BY <2>1, <2>2, TransferTypes DEF SenderStates
  <2>4. r \in Records
    BY <2>2 DEF Records
  <2> HIDE DEF r
  <2>5. /\ toRcv' \in [Transfers -> Seq(Records)]
        /\ \A u \in Transfers : u # t => toRcv'[u] = toRcv[u]
        /\ Len(toRcv'[t]) <= Window
    BY <2>1, <2>4, Sent
  <2> QED BY <2>1, <2>3, <2>5, TransferTypes, SenderKeeps
<1>5. CASE EndOfFile(t)
  <2>1. snd[t].pc = "streaming" /\ UNCHANGED <<rcv, manifest, staged, toRcv, answer, disk, faults>>
    BY <1>5 DEF EndOfFile, Reading
  <2>2. snd[t].file + 1 \in Nat
    BY TransferTypes DEF SenderStates
  <2>3. CASE SizeMatches(t)
    <3> DEFINE new == [pc |-> "streaming", file |-> snd[t].file + 1, sent |-> 0]
    <3>1. new \in SenderStates /\ new.pc # "idle" /\ snd' = [snd EXCEPT ![t] = new]
      BY <1>5, <2>2, <2>3 DEF EndOfFile, SenderStates
    <3> QED BY <2>1, <3>1, Assigned, TransferTypes, SenderKeeps
  <2>4. CASE ~SizeMatches(t)
    <3>1. snd' = [snd EXCEPT ![t].pc = "failed"]
      BY <1>5, <2>4 DEF EndOfFile
    <3> QED BY <1>1, <2>1, <3>1, TransferTypes, SenderKeeps
  <2> QED BY <2>3, <2>4
<1>6. CASE SendFinish(t)
  <2>1. /\ Len(toRcv[t]) < Window /\ snd' = [snd EXCEPT ![t].pc = "completed"]
        /\ toRcv' = [toRcv EXCEPT ![t] = Append(@, [kind |-> "finish"])]
        /\ UNCHANGED <<rcv, manifest, staged, answer, disk, faults>>
    BY <1>6 DEF SendFinish
  <2>2. [kind |-> "finish"] \in Records
    BY DEF Records
  <2>3. /\ toRcv' \in [Transfers -> Seq(Records)]
        /\ \A u \in Transfers : u # t => toRcv'[u] = toRcv[u]
        /\ Len(toRcv'[t]) <= Window
    BY <2>1, <2>2, Sent
  <2> QED BY <1>1, <2>1, <2>3, TransferTypes, SenderKeeps
<1> QED BY <1>2, <1>3, <1>4, <1>5, <1>6 DEF Sender

\* The connection is lost.
LEMMA LoseStep ==
  ASSUME TransferInv, NEW t \in Transfers, Lose(t)
  PROVE  TransferInv'
<1>1. PICK pc \in {"completed", "declined", "failed"} : snd' = [snd EXCEPT ![t].pc = pc]
  <2>1. SenderEnded(t) => snd[t].pc \in {"completed", "declined", "failed"}
    BY DEF SenderEnded
  <2>2. snd' = [snd EXCEPT ![t].pc = IF SenderEnded(t) THEN snd[t].pc ELSE "failed"]
    BY TransferTypes DEF Lose, SenderStates
  <2> QED BY <2>1, <2>2
<1>2. /\ snd' \in [Transfers -> SenderStates] /\ snd'[t].pc # "idle"
      /\ \A u \in Transfers : u # t => snd'[u] = snd[u]
  BY <1>1, TransferTypes DEF SenderStates
<1>3. /\ toRcv' \in [Transfers -> Seq(Records)]
      /\ \A u \in Transfers : u # t => toRcv'[u] = toRcv[u]
      /\ Len(toRcv'[t]) <= Window
  <2>1. toRcv' = [toRcv EXCEPT ![t] = <<>>] /\ <<>> \in Seq(Records) /\ Len(<<>>) = 0
    BY DEF Lose
  <2> QED BY <2>1, TransferTypes, FileTransferAssumption
<1>4. answer' \in [Transfers -> {"none", "accept", "reject"}]
  BY TransferTypes DEF Lose
<1>5. faults' \in 0 .. MaxFaults
  BY TransferTypes, FileTransferAssumption DEF Lose
<1>6. UNCHANGED <<rcv, manifest, staged, disk>>
  BY DEF Lose
<1> QED BY <1>2, <1>3, <1>4, <1>5, <1>6, SenderKeeps

-----------------------------------------------------------------------------
(***************************************************************************)
(* The receiver.                                                           *)
(***************************************************************************)

\* A step of one receiver that renames nothing.
LEMMA ReceiverKeeps ==
  ASSUME TransferInv, NEW t \in Transfers, Stage(t)', PathsInv',
         rcv' \in [Transfers -> ReceiverStates],
         \A u \in Transfers : u # t => rcv'[u] = rcv[u],
         staged' \in [Transfers -> Seq(Nat)],
         \A u \in Transfers : u # t => staged'[u] = staged[u],
         toRcv' \in [Transfers -> Seq(Records)],
         \A u \in Transfers : u # t => toRcv'[u] = toRcv[u],
         Len(toRcv'[t]) <= Window,
         answer' \in [Transfers -> {"none", "accept", "reject"}],
         faults' \in 0 .. MaxFaults,
         chosen' \in [Transfers -> Paths \cup {NoPath}], raced' \in BOOLEAN,
         UNCHANGED <<snd, manifest, folder, published>>,
         rcv[t].pc \in {"publishing", "done", "failed"} =>
           rcv'[t].pc \in {"publishing", "done", "failed"} /\ staged'[t] = staged[t]
  PROVE  TransferInv'
<1>1. \A u \in Transfers : u # t => Stage(u)'
  BY OthersKept
<1>2. \A u \in Transfers : DOMAIN staged'[u] \subseteq DOMAIN manifest'[u]
  <2>1. staged'[t] \in Seq(Nat) /\ manifest[t] \in Seq(FileInfo)
        /\ Len(staged'[t]) \in {0, Len(manifest[t])}
    BY TransferTypes DEF Stage
  <2>2. DOMAIN staged'[t] \subseteq DOMAIN manifest[t]
    BY <2>1
  <2> QED BY <2>2 DEF TransferInv, TypeOK
<1>3. PublishedInv'
  BY PublishedStays
<1>4. \A u \in Transfers : Len(toRcv'[u]) <= Window
  BY TransferTypes
<1>5. TypeOK' /\ QueuesOK'
  BY <1>2, <1>4 DEF TransferInv, TypeOK, QueuesOK, ReceiverStates
<1> QED BY <1>1, <1>3, <1>5 DEF TransferInv

\* A record taken leaves the others on their way.
LEMMA TakenKeeps ==
  ASSUME TransferInv, NEW t \in Transfers, toRcv[t] # <<>>, Taken(t)
  PROVE  /\ toRcv' \in [Transfers -> Seq(Records)]
         /\ \A u \in Transfers : u # t => toRcv'[u] = toRcv[u]
         /\ Len(toRcv'[t]) <= Window
         /\ snd[t].pc # "idle"
<1>1. toRcv \in [Transfers -> Seq(Records)] /\ Len(toRcv[t]) <= Window
  BY TransferTypes
<1>2. toRcv'[t] = Tail(toRcv[t]) /\ toRcv' = [toRcv EXCEPT ![t] = Tail(toRcv[t])]
  BY <1>1 DEF Taken
<1>3. Tail(toRcv[t]) \in Seq(Records) /\ Len(Tail(toRcv[t])) = Len(toRcv[t]) - 1
  BY <1>1
<1>4. Len(toRcv[t]) \in Nat /\ Window \in Nat
  BY <1>1, FileTransferAssumption
<1>5. snd[t].pc # "idle"
  BY DEF TransferInv, Stage
<1> QED BY <1>1, <1>2, <1>3, <1>4, <1>5

\* The receiver's state changes its name only.
LEMMA ReceiverTurns ==
  ASSUME TransferInv, NEW t \in Transfers,
         NEW pc \in {"listening", "asking", "receiving", "publishing", "done",
                     "declined", "failed"},
         rcv' = [rcv EXCEPT ![t].pc = pc]
  PROVE  /\ rcv' \in [Transfers -> ReceiverStates]
         /\ rcv'[t].pc = pc /\ rcv'[t].file = rcv[t].file
         /\ \A u \in Transfers : u # t => rcv'[u] = rcv[u]
  BY TransferTypes DEF ReceiverStates

\* A receiver that stops keeps what it has staged.
LEMMA FailedStage ==
  ASSUME TransferInv, NEW t \in Transfers, snd[t].pc # "idle",
         rcv'[t].pc \in {"declined", "failed"}, staged'[t] = staged[t],
         UNCHANGED <<snd, manifest>>
  PROVE  Stage(t)'
  BY DEF TransferInv, Stage

\* A sender that has not begun has a receiver that listens.
LEMMA Begun ==
  ASSUME TransferInv, NEW t \in Transfers, rcv[t].pc # "listening"
  PROVE  snd[t].pc # "idle"
  BY DEF TransferInv, Stage

\* The offer is put to the user.
LEMMA TakeOfferStep ==
  ASSUME TransferInv, NEW t \in Transfers, TakeOffer(t)
  PROVE  TransferInv'
<1>1. /\ rcv[t].pc = "listening" /\ toRcv[t] # <<>> /\ Taken(t)
      /\ UNCHANGED <<snd, manifest, staged, answer, disk, faults>>
  BY DEF TakeOffer, Arrives, sender
<1>2. CASE Acceptable(manifest[t])
  <2>1. rcv' = [rcv EXCEPT ![t].pc = "asking"]
    BY <1>2 DEF TakeOffer
  <2>2. Len(manifest[t]) >= 1
    BY <1>2, TransferTypes DEF Acceptable
  <2>3. /\ rcv' \in [Transfers -> ReceiverStates]
        /\ rcv'[t].pc = "asking" /\ rcv'[t].file = rcv[t].file
        /\ \A u \in Transfers : u # t => rcv'[u] = rcv[u]
    BY <2>1, ReceiverTurns
  <2>4. Stage(t)'
    BY <1>1, <2>2, <2>3, TakenKeeps DEF TransferInv, Stage
  <2> QED BY <1>1, <2>3, <2>4, TakenKeeps, TransferTypes, DiskKept, ReceiverKeeps DEF disk
<1>3. CASE ~Acceptable(manifest[t])
  <2>1. rcv' = [rcv EXCEPT ![t].pc = "failed"]
    BY <1>3 DEF TakeOffer, Fails
  <2>2. /\ rcv' \in [Transfers -> ReceiverStates] /\ rcv'[t].pc = "failed"
        /\ \A u \in Transfers : u # t => rcv'[u] = rcv[u]
    BY <2>1, ReceiverTurns
  <2>3. Stage(t)'
    BY <1>1, <2>2, TakenKeeps, FailedStage
  <2> QED BY <1>1, <2>2, <2>3, TakenKeeps, TransferTypes, DiskKept, ReceiverKeeps DEF disk
<1> QED BY <1>2, <1>3

\* The user accepts: the staging directory is made.
LEMMA AcceptStep ==
  ASSUME TransferInv, NEW t \in Transfers, Accept(t)
  PROVE  TransferInv'
<1>1. /\ rcv[t].pc = "asking" /\ rcv[t].file = 1 /\ snd[t].pc # "idle"
      /\ staged' = [staged EXCEPT ![t] = Staging(t)]
      /\ UNCHANGED <<snd, manifest, toRcv, disk, faults>>
  BY DEF Accept, sender, TransferInv, Stage
<1>2. /\ Staging(t) \in Seq(Nat) /\ Len(Staging(t)) = Len(manifest[t])
      /\ Len(manifest[t]) >= 1 /\ Len(manifest[t]) \in Nat
  <2>1. manifest[t] \in Seq(FileInfo)
    BY TransferTypes
  <2> QED BY <1>1, <2>1 DEF Staging, TransferInv, Stage
<1>3. /\ staged' \in [Transfers -> Seq(Nat)] /\ staged'[t] = Staging(t)
      /\ \A u \in Transfers : u # t => staged'[u] = staged[u]
  BY <1>1, <1>2, TransferTypes
<1>4. answer' \in [Transfers -> {"none", "accept", "reject"}]
  BY TransferTypes DEF Accept
<1>5. PICK pc \in {"receiving", "failed"} : rcv' = [rcv EXCEPT ![t].pc = pc]
  BY DEF Accept, Fails
<1>6. /\ rcv' \in [Transfers -> ReceiverStates] /\ rcv'[t].pc = pc /\ rcv'[t].file = 1
      /\ \A u \in Transfers : u # t => rcv'[u] = rcv[u]
  BY <1>1, <1>5, ReceiverTurns
<1>7. Stage(t)'
  <2>1. 1 \in 1 .. Len(manifest[t]) + 1
    BY <1>2
  <2>2. \A i \in DOMAIN manifest[t] : ~(i < 1)
    BY TransferTypes
  <2> QED BY <1>1, <1>2, <1>3, <1>6, <2>1, <2>2 DEF Stage
<1> QED BY <1>1, <1>3, <1>4, <1>6, <1>7, TransferTypes, DiskKept, ReceiverKeeps DEF disk

\* The user declines.
LEMMA DeclineStep ==
  ASSUME TransferInv, NEW t \in Transfers, Decline(t)
  PROVE  TransferInv'
<1>1. /\ rcv[t].pc = "asking" /\ rcv' = [rcv EXCEPT ![t].pc = "declined"]
      /\ UNCHANGED <<snd, manifest, staged, toRcv, disk, faults>>
  BY DEF Decline, sender
<1>2. answer' \in [Transfers -> {"none", "accept", "reject"}]
  BY TransferTypes DEF Decline
<1>3. /\ rcv' \in [Transfers -> ReceiverStates] /\ rcv'[t].pc = "declined"
      /\ \A u \in Transfers : u # t => rcv'[u] = rcv[u]
  BY <1>1, ReceiverTurns
<1>4. Stage(t)'
  BY <1>1, <1>3, Begun, FailedStage
<1> QED BY <1>1, <1>2, <1>3, <1>4, TransferTypes, DiskKept, ReceiverKeeps DEF disk

\* A chunk is staged, or refused.
LEMMA TakeChunkStep ==
  ASSUME TransferInv, NEW t \in Transfers, TakeChunk(t)
  PROVE  TransferInv'
<1> DEFINE r    == Head(toRcv[t])
           file == rcv[t].file
           got  == staged[t][file]
           size == manifest[t][file].size
           fits == r.file = file /\ file <= Len(manifest[t]) /\ r.at = got /\ got < size
<1>1. /\ rcv[t].pc = "receiving" /\ toRcv[t] # <<>> /\ Taken(t)
      /\ UNCHANGED <<snd, manifest, answer, disk, faults>>
  BY DEF TakeChunk, Arrives, sender
<1>2. CASE ~fits
  <2>1. rcv' = [rcv EXCEPT ![t].pc = "failed"] /\ staged' = staged
    BY <1>2 DEF TakeChunk, Fails
  <2>2. /\ rcv' \in [Transfers -> ReceiverStates] /\ rcv'[t].pc = "failed"
        /\ \A u \in Transfers : u # t => rcv'[u] = rcv[u]
    BY <2>1, ReceiverTurns
  <2>3. Stage(t)'
    BY <1>1, <2>1, <2>2, TakenKeeps, FailedStage
  <2> QED BY <1>1, <2>1, <2>2, <2>3, TakenKeeps, TransferTypes, DiskKept, ReceiverKeeps DEF disk
<1>3. CASE fits
  <2>1. /\ Len(staged[t]) = Len(manifest[t]) /\ file \in 1 .. Len(manifest[t])
        /\ Len(manifest[t]) \in Nat
        /\ \A i \in DOMAIN manifest[t] : i < file => staged[t][i] = manifest[t][i].size
    <3>1. manifest[t] \in Seq(FileInfo) /\ file \in 1 .. Len(manifest[t]) + 1
      BY <1>1, TransferTypes DEF TransferInv, Stage
    <3> QED BY <1>1, <1>3, <3>1 DEF TransferInv, Stage
  <2>2. staged[t] \in Seq(Nat) /\ manifest[t] \in Seq(FileInfo) /\ got \in Nat
        /\ DOMAIN staged[t] = 1 .. Len(staged[t]) /\ DOMAIN manifest[t] = 1 .. Len(manifest[t])
    BY <2>1, TransferTypes
  <2> DEFINE new == [staged[t] EXCEPT ![file] = got + 1]
  <2>3. /\ new \in Seq(Nat) /\ Len(new) = Len(staged[t]) /\ new[file] = got + 1
        /\ \A i \in 1 .. Len(staged[t]) : i # file => new[i] = staged[t][i]
    BY <2>1, <2>2
  <2>4. staged' = [staged EXCEPT ![t] = new]
    BY <1>3, TransferTypes DEF TakeChunk
  <2> HIDE DEF new
  <2>5. /\ staged' \in [Transfers -> Seq(Nat)] /\ staged'[t] = new
        /\ \A u \in Transfers : u # t => staged'[u] = staged[u]
    BY <2>3, <2>4, TransferTypes
  <2>6. CASE got + 1 = size
    <3>1. rcv' = [rcv EXCEPT ![t] = CloseFile(t)]
      BY <1>3, <2>6 DEF TakeChunk
    <3>2. CloseFile(t) \in ReceiverStates /\ CloseFile(t).pc = "receiving"
          /\ CloseFile(t).file = file + 1
      <4>1. rcv[t] \in ReceiverStates /\ file + 1 \in Nat
        BY <2>1, TransferTypes
      <4> QED BY <1>1, <4>1 DEF CloseFile, ReceiverStates
    <3>3. /\ rcv' \in [Transfers -> ReceiverStates] /\ rcv'[t].pc = "receiving"
          /\ rcv'[t].file = file + 1 /\ \A u \in Transfers : u # t => rcv'[u] = rcv[u]
      BY <3>1, <3>2, TransferTypes
    <3>4. \A i \in DOMAIN manifest[t] : i < file + 1 => new[i] = manifest[t][i].size
      <4>1. ASSUME NEW i \in 1 .. Len(manifest[t]), i < file + 1
            PROVE  new[i] = manifest[t][i].size
        <5>1. i < file \/ i = file
          BY <2>1, <4>1
        <5> QED BY <2>1, <2>2, <2>3, <2>6, <4>1, <5>1
      <4> QED BY <2>2, <4>1
    <3>5. file + 1 \in 1 .. Len(manifest[t]) + 1
      BY <2>1
    <3>6. Stage(t)'
      BY <1>1, <2>1, <2>3, <2>5, <3>3, <3>4, <3>5, TakenKeeps DEF Stage
    <3> QED BY <1>1, <2>5, <3>3, <3>6, TakenKeeps, TransferTypes, DiskKept, ReceiverKeeps
            DEF disk
  <2>7. CASE got + 1 # size
    <3>1. rcv' = [rcv EXCEPT ![t] = rcv[t]]
      BY <1>3, <2>7, TransferTypes DEF TakeChunk
    <3>2. rcv' = rcv
      BY <3>1, TransferTypes
    <3>3. \A i \in DOMAIN manifest[t] : i < file => new[i] = manifest[t][i].size
      BY <2>1, <2>2, <2>3
    <3>4. file \in 1 .. Len(manifest[t]) + 1
      BY <2>1
    <3>5. Stage(t)'
      BY <1>1, <2>1, <2>3, <2>5, <3>2, <3>3, <3>4, TakenKeeps DEF Stage
    <3> QED BY <1>1, <2>5, <3>2, <3>5, TakenKeeps, TransferTypes, DiskKept, ReceiverKeeps
            DEF disk
  <2> QED BY <2>6, <2>7
<1> QED BY <1>2, <1>3

\* The finish record: everything is there, or it is refused.
LEMMA TakeFinishStep ==
  ASSUME TransferInv, NEW t \in Transfers, TakeFinish(t)
  PROVE  TransferInv'
<1>1. /\ rcv[t].pc = "receiving" /\ toRcv[t] # <<>> /\ Taken(t)
      /\ UNCHANGED <<snd, manifest, staged, answer, disk, faults>>
  BY DEF TakeFinish, Arrives, sender
<1>2. CASE Whole(t)
  <2> DEFINE new == [pc |-> "publishing", file |-> 1]
  <2>1. rcv' = [rcv EXCEPT ![t] = new] /\ new \in ReceiverStates
    BY <1>2 DEF TakeFinish, ReceiverStates
  <2>2. /\ rcv' \in [Transfers -> ReceiverStates] /\ rcv'[t] = new
        /\ \A u \in Transfers : u # t => rcv'[u] = rcv[u]
    BY <2>1, TransferTypes
  <2>3. manifest[t] \in Seq(FileInfo) /\ Len(manifest[t]) >= 1
    BY <1>1, TransferTypes DEF TransferInv, Stage
  <2>4. AllWhole(t)
    <3>1. \A i \in DOMAIN manifest[t] : i < rcv[t].file
      BY <1>2, <2>3 DEF Whole
    <3> QED BY <1>1, <3>1 DEF TransferInv, Stage, AllWhole
  <2>5. AllWhole(t)' /\ 1 \in 1 .. Len(manifest[t])
    BY <1>1, <2>3, <2>4 DEF AllWhole
  <2>6. Stage(t)'
    BY <1>1, <2>2, <2>3, <2>5, TakenKeeps DEF TransferInv, Stage
  <2> QED BY <1>1, <2>2, <2>6, TakenKeeps, TransferTypes, DiskKept, ReceiverKeeps DEF disk
<1>3. CASE ~Whole(t)
  <2>1. rcv' = [rcv EXCEPT ![t].pc = "failed"]
    BY <1>3 DEF TakeFinish, Fails
  <2>2. /\ rcv' \in [Transfers -> ReceiverStates] /\ rcv'[t].pc = "failed"
        /\ \A u \in Transfers : u # t => rcv'[u] = rcv[u]
    BY <2>1, ReceiverTurns
  <2>3. Stage(t)'
    BY <1>1, <2>2, TakenKeeps, FailedStage
  <2> QED BY <1>1, <2>2, <2>3, TakenKeeps, TransferTypes, DiskKept, ReceiverKeeps DEF disk
<1> QED BY <1>2, <1>3

\* The connection ends.
LEMMA PeerClosedStep ==
  ASSUME TransferInv, NEW t \in Transfers, PeerClosed(t)
  PROVE  TransferInv'
<1>1. /\ rcv[t].pc \in {"listening", "receiving"} /\ snd[t].pc # "idle"
      /\ rcv' = [rcv EXCEPT ![t].pc = "failed"]
      /\ UNCHANGED <<snd, manifest, staged, toRcv, answer, disk, faults>>
  BY DEF PeerClosed, Fails, SenderEnded, sender
<1>2. /\ rcv' \in [Transfers -> ReceiverStates] /\ rcv'[t].pc = "failed"
      /\ \A u \in Transfers : u # t => rcv'[u] = rcv[u]
  BY <1>1, ReceiverTurns
<1>3. Stage(t)'
  BY <1>1, <1>2, FailedStage
<1> QED BY <1>1, <1>2, <1>3, TransferTypes, DiskKept, ReceiverKeeps DEF disk

-----------------------------------------------------------------------------
(***************************************************************************)
(* Publishing.                                                             *)
(***************************************************************************)

\* No path is NoPath, a free one is not the user's, and neither is published.
LEMMA Marks ==
  /\ NoPath \notin Paths /\ Free # UserFile
  /\ \A f \in Transfers \X (Nat \ {0}) : f # Free /\ f # UserFile
  BY FileTransferAssumption DEF NoPath, Paths, Free, UserFile

\* A file operation fails, with a path picked or without.
LEMMA DiskFailsStep ==
  ASSUME TransferInv, NEW t \in Transfers, DiskFails(t)
  PROVE  TransferInv'
<1>1. /\ rcv[t].pc \in {"asking", "receiving", "publishing"} /\ faults < MaxFaults
      /\ faults' = faults + 1
      /\ rcv' = [rcv EXCEPT ![t].pc = "failed"] /\ chosen' = [chosen EXCEPT ![t] = NoPath]
      /\ UNCHANGED <<snd, manifest, staged, toRcv, answer, folder, published, raced>>
  BY DEF DiskFails, Fails, sender
<1>2. /\ rcv' \in [Transfers -> ReceiverStates] /\ rcv'[t].pc = "failed"
      /\ \A u \in Transfers : u # t => rcv'[u] = rcv[u]
  BY <1>1, ReceiverTurns
<1>3. Stage(t)'
  BY <1>1, <1>2, Begun, FailedStage
<1>4. chosen' \in [Transfers -> Paths \cup {NoPath}]
      /\ chosen'[t] = NoPath /\ \A u \in Transfers : u # t => chosen'[u] = chosen[u]
  BY <1>1 DEF TransferInv, TypeOK
<1>5. PathsInv'
  BY <1>1, <1>4 DEF TransferInv, PathsInv
<1>6. faults' \in 0 .. MaxFaults /\ raced' \in BOOLEAN
  BY <1>1, FileTransferAssumption DEF TransferInv, TypeOK
<1> QED BY <1>1, <1>2, <1>3, <1>4, <1>5, <1>6, TransferTypes, ReceiverKeeps

\* A path is picked.
LEMMA ChoosePathStep ==
  ASSUME TransferInv, NEW t \in Transfers, ChoosePath(t)
  PROVE  TransferInv'
<1>1. /\ rcv[t].pc = "publishing" /\ chosen[t] = NoPath
      /\ UNCHANGED <<snd, manifest, staged, toRcv, answer, folder, published, faults>>
  BY DEF ChoosePath, sender
<1>2. CASE FirstFree(Name(t)) = {}
  <2>1. rcv' = [rcv EXCEPT ![t].pc = "failed"] /\ UNCHANGED <<chosen, raced>>
    BY <1>2 DEF ChoosePath, Fails
  <2>2. /\ rcv' \in [Transfers -> ReceiverStates] /\ rcv'[t].pc = "failed"
        /\ \A u \in Transfers : u # t => rcv'[u] = rcv[u]
    BY <2>1, ReceiverTurns
  <2>3. Stage(t)'
    BY <1>1, <2>2, Begun, FailedStage
  <2>4. UNCHANGED disk
    BY <1>1, <2>1 DEF disk
  <2> QED BY <1>1, <2>1, <2>2, <2>3, <2>4, TransferTypes, DiskKept, ReceiverKeeps
<1>3. CASE FirstFree(Name(t)) # {}
  <2>1. PICK p \in FirstFree(Name(t)) :
          /\ chosen' = [chosen EXCEPT ![t] = p]
          /\ raced' = (raced \/ \E u \in Transfers : chosen[u] = p)
          /\ UNCHANGED rcv
    BY <1>3 DEF ChoosePath
  <2>2. Name(t) \in Names
    <3>1. rcv[t].file \in 1 .. Len(manifest[t]) /\ manifest[t] \in Seq(FileInfo)
      BY <1>1, TransferTypes DEF TransferInv, Stage
    <3>2. manifest[t][rcv[t].file] \in FileInfo
      BY <3>1
    <3> QED BY <3>2 DEF Name, FileInfo
  <2>3. p \in Paths /\ folder[p] = Free
    BY <2>1, <2>2 DEF FirstFree, Paths
  <2>4. chosen' \in [Transfers -> Paths \cup {NoPath}]
        /\ chosen'[t] = p /\ \A u \in Transfers : u # t => chosen'[u] = chosen[u]
    BY <2>1, <2>3 DEF TransferInv, TypeOK
  <2>5. raced' \in BOOLEAN
    BY <2>1 DEF TransferInv, TypeOK
  <2>6. PathsInv'
    <3>1. CASE raced'
      BY <3>1 DEF PathsInv
    <3>2. CASE ~raced'
      <4>1. ~raced /\ \A u \in Transfers : chosen[u] # p
        BY <2>1, <3>2
      <4> QED BY <1>1, <2>3, <2>4, <4>1 DEF TransferInv, PathsInv
    <3> QED BY <3>1, <3>2
  <2>7. Stage(t)'
    BY <1>1, <2>1 DEF TransferInv, Stage, AllWhole
  <2> QED BY <1>1, <2>1, <2>4, <2>5, <2>6, <2>7, TransferTypes, ReceiverKeeps
<1> QED BY <1>2, <1>3

\* A file is renamed to the path picked for it.
LEMMA PublishStep ==
  ASSUME TransferInv, NEW t \in Transfers, Publish(t)
  PROVE  TransferInv'
<1> DEFINE file == rcv[t].file
           f    == <<t, file>>
           c    == chosen[t]
<1>1. /\ rcv[t].pc = "publishing" /\ c # NoPath
      /\ folder' = [folder EXCEPT ![c] = f] /\ published' = published \cup {f}
      /\ chosen' = [chosen EXCEPT ![t] = NoPath]
      /\ UNCHANGED <<snd, manifest, staged, toRcv, answer, raced, faults>>
  BY DEF Publish, sender
<1>2. file \in 1 .. Len(manifest[t]) /\ Len(manifest[t]) \in Nat /\ AllWhole(t)
  <2>1. manifest[t] \in Seq(FileInfo)
    BY TransferTypes
  <2>2. Stage(t)
    BY DEF TransferInv
  <2> QED BY <1>1, <2>1, <2>2 DEF Stage
<1>3. f \in Transfers \X (Nat \ {0}) /\ file \in Nat \ {0}
  BY <1>2
<1>4. c \in Paths
  BY <1>1 DEF TransferInv, TypeOK
<1>5. /\ folder' \in [Paths -> {Free, UserFile} \cup (Transfers \X (Nat \ {0}))]
      /\ folder'[c] = f /\ \A p \in Paths : p # c => folder'[p] = folder[p]
  BY <1>1, <1>3, <1>4 DEF TransferInv, TypeOK
<1>6. chosen' \in [Transfers -> Paths \cup {NoPath}]
      /\ chosen'[t] = NoPath /\ \A u \in Transfers : u # t => chosen'[u] = chosen[u]
  BY <1>1 DEF TransferInv, TypeOK
<1>7. PICK pc \in {"publishing", "done"} :
        /\ rcv' = [rcv EXCEPT ![t] = [pc |-> pc, file |-> file + 1]]
        /\ pc = "publishing" => file # Len(manifest[t])
  BY <1>1, TransferTypes DEF Publish
<1>8. /\ rcv' \in [Transfers -> ReceiverStates] /\ rcv'[t].pc = pc
      /\ rcv'[t].file = file + 1 /\ \A u \in Transfers : u # t => rcv'[u] = rcv[u]
  <2>1. [pc |-> pc, file |-> file + 1] \in ReceiverStates
    BY <1>3 DEF ReceiverStates
  <2> QED BY <1>7, <2>1, TransferTypes
<1>9. Stage(t)'
  <2>1. pc = "publishing" => file + 1 \in 1 .. Len(manifest[t])
    BY <1>2, <1>7
  <2>2. AllWhole(t)' /\ Len(manifest[t]) >= 1
    BY <1>1, <1>2 DEF AllWhole
  <2>3. snd[t].pc # "idle" /\ Len(staged[t]) \in {0, Len(manifest[t])}
    BY <1>1, Begun DEF TransferInv, Stage
  <2> QED BY <1>1, <1>8, <2>1, <2>2, <2>3 DEF Stage
<1>10. \A u \in Transfers : u # t => Stage(u)'
  BY <1>1, <1>8, OthersKept
<1>11. PublishedInv'
  <2> SUFFICES ASSUME NEW g \in published'
               PROVE  rcv'[g[1]].pc \in {"publishing", "done", "failed"} /\ AllWhole(g[1])'
    BY DEF PublishedInv
  <2>1. CASE g = f
    BY <1>1, <1>2, <1>8, <2>1 DEF AllWhole
  <2>2. CASE g \in published
    <3>1. g[1] \in Transfers /\ rcv[g[1]].pc \in {"publishing", "done", "failed"}
          /\ AllWhole(g[1])
      BY <2>2 DEF TransferInv, TypeOK, PublishedInv
    <3> QED BY <1>1, <1>8, <3>1 DEF AllWhole
  <2> QED BY <1>1, <2>1, <2>2
<1>12. PathsInv'
  <2> SUFFICES ASSUME ~raced PROVE PathsInv'
    BY <1>1 DEF PathsInv
  <2>1. folder[c] = Free /\ \A u \in Transfers : u # t => chosen[u] # c
    BY <1>1 DEF TransferInv, PathsInv
  <2>2. \A u \in Transfers : chosen'[u] # NoPath => folder'[chosen'[u]] = Free
    <3> SUFFICES ASSUME NEW u \in Transfers, chosen'[u] # NoPath
                 PROVE  folder'[chosen'[u]] = Free
      OBVIOUS
    <3>1. u # t /\ chosen'[u] = chosen[u] /\ chosen[u] # c /\ chosen[u] \in Paths
      BY <1>6, <2>1 DEF TransferInv, TypeOK
    <3> QED BY <1>5, <3>1 DEF TransferInv, PathsInv
  <2>3. \A u, v \in Transfers : chosen'[u] = chosen'[v] /\ chosen'[u] # NoPath => u = v
    BY <1>6 DEF TransferInv, PathsInv
  <2>4. \A p \in Existing : folder'[p] = UserFile
    BY <1>5, <2>1, Marks, FileTransferAssumption DEF TransferInv, PathsInv
  <2>5. ASSUME NEW g \in published' PROVE \E p \in Paths : folder'[p] = g
    <3>1. CASE g = f
      BY <1>4, <1>5, <3>1
    <3>2. CASE g \in published
      <4>1. PICK p \in Paths : folder[p] = g
        BY <3>2 DEF TransferInv, PathsInv
      <4>2. g # Free
        BY <3>2, Marks DEF TransferInv, TypeOK
      <4> QED BY <1>5, <2>1, <4>1, <4>2
    <3> QED BY <1>1, <2>5, <3>1, <3>2
  <2> QED BY <2>2, <2>3, <2>4, <2>5 DEF PathsInv
<1>13. TypeOK' /\ QueuesOK'
  BY <1>1, <1>3, <1>5, <1>6, <1>8 DEF TransferInv, TypeOK, QueuesOK, ReceiverStates
<1> QED BY <1>9, <1>10, <1>11, <1>12, <1>13 DEF TransferInv

-----------------------------------------------------------------------------
(***************************************************************************)
(* The theorems.                                                           *)
(***************************************************************************)

\* The invariant holds at the start.
LEMMA TransferInit == Init => TransferInv
<1> SUFFICES ASSUME Init PROVE TransferInv
  OBVIOUS
<1>1. /\ <<>> \in Seq(Records) /\ <<>> \in Seq(Nat) /\ <<>> \in Seq(FileInfo)
      /\ Len(<<>>) = 0 /\ DOMAIN <<>> = {}
  OBVIOUS
<1>2. TypeOK
  <2>1. snd \in [Transfers -> SenderStates] /\ rcv \in [Transfers -> ReceiverStates]
    BY DEF Init, SenderStates, ReceiverStates
  <2>2. \A t \in Transfers : Len(toRcv[t]) <= Window /\ DOMAIN staged[t] \subseteq DOMAIN manifest[t]
    <3> SUFFICES ASSUME NEW t \in Transfers
                 PROVE  Len(toRcv[t]) <= Window /\ DOMAIN staged[t] \subseteq DOMAIN manifest[t]
      OBVIOUS
    <3>1. toRcv[t] = <<>> /\ staged[t] = <<>> /\ manifest[t] = <<>>
      BY DEF Init
    <3>2. Window >= 0
      BY FileTransferAssumption
    <3> QED BY <1>1, <3>1, <3>2
  <2>3. folder \in [Paths -> {Free, UserFile} \cup (Transfers \X (Nat \ {0}))]
    <3>1. folder = [p \in Paths |-> IF p \in Existing THEN UserFile ELSE Free]
      BY DEF Init
    <3> QED BY <3>1
  <2>4. chosen \in [Transfers -> Paths \cup {NoPath}]
    BY DEF Init
  <2>5. answer \in [Transfers -> {"none", "accept", "reject"}]
    BY DEF Init
  <2>6. published \subseteq Transfers \X (Nat \ {0}) /\ raced \in BOOLEAN
    BY DEF Init
  <2>7. faults \in 0 .. MaxFaults
    BY FileTransferAssumption DEF Init
  <2> QED BY <2>1, <2>2, <2>3, <2>4, <2>5, <2>6, <2>7 DEF TypeOK, SenderStates, ReceiverStates
<1>3. QueuesOK /\ PublishedInv /\ \A t \in Transfers : Stage(t)
  BY <1>1 DEF Init, QueuesOK, PublishedInv, Stage
<1>4. PathsInv
  BY FileTransferAssumption DEF Init, PathsInv
<1> QED BY <1>2, <1>3, <1>4 DEF TransferInv

\* Every step preserves it.
LEMMA TransferNext == TransferInv /\ [Next]_vars => TransferInv'
<1> SUFFICES ASSUME TransferInv, [Next]_vars PROVE TransferInv'
  OBVIOUS
<1>1. CASE UNCHANGED vars
  <2>1. UNCHANGED <<snd, rcv, manifest, staged, toRcv, answer, folder, chosen, published,
                    raced, faults>>
    BY <1>1 DEF vars
  <2>2. TypeOK' /\ QueuesOK' /\ PathsInv'
    BY <2>1 DEF TransferInv, TypeOK, QueuesOK, PathsInv
  <2>3. \A t \in Transfers : Stage(t)'
    BY <2>1, OthersKept
  <2>4. PublishedInv'
    BY <2>1, PublishedStays
  <2> QED BY <2>2, <2>3, <2>4 DEF TransferInv
<1>2. CASE Next
  <2>1. PICK t \in Transfers :
          \/ \E q \in Requests : Offer(t, q)
          \/ Sender(t) \/ Receiver(t)
          \/ Accept(t) \/ Decline(t)
          \/ Lose(t) \/ DiskFails(t)
    BY <1>2 DEF Next
  <2> QED BY <2>1, OfferStep, SenderStep, TakeOfferStep, TakeChunkStep, TakeFinishStep,
             PeerClosedStep, ChoosePathStep, PublishStep, AcceptStep, DeclineStep, LoseStep,
             DiskFailsStep DEF Receiver
<1> QED BY <1>1, <1>2

\* It holds always.
THEOREM TransferInvariant == Spec => []TransferInv
BY TransferInit, TransferNext, PTL DEF Spec

\* Type correctness, the window of every connection included.
THEOREM TransferTypeCorrect == Spec => []TypeOK
<1>1. TransferInv => TypeOK
  BY DEF TransferInv
<1> QED BY <1>1, TransferInvariant, PTL

\* A file is published only when every file of its transfer is whole, however
\* many transfers there are, whatever the files do while they are read and
\* whichever operation fails.
THEOREM OnlyWholePublished == Spec => []PublishedWhole
<1>1. TransferInv => PublishedWhole
  BY DEF TransferInv, PublishedInv, AllWhole, PublishedWhole
<1> QED BY <1>1, TransferInvariant, PTL

\* Publishing replaces nothing, unless two threads have picked a path at once.
THEOREM PublishedNotReplaced == Spec => []PublishedKept
<1>1. TransferInv => PublishedKept
  BY DEF TransferInv, PathsInv, PublishedKept
<1> QED BY <1>1, TransferInvariant, PTL

-----------------------------------------------------------------------------
(***************************************************************************)
(* Delivery: a transfer whose sender reports success is not refused by its *)
(* receiver.                                                               *)
(***************************************************************************)

\* No request holds a regular file of no bytes.
NoEmptyFiles ==
  \A q \in Requests : \A i \in DOMAIN Regular(q) : Regular(q)[i].size > 0

\* Every name has more paths than the user's files and one file of each other
\* transfer can take.
EnoughPaths ==
  /\ IsFiniteSet(Transfers)
  /\ \A n \in Names :
       Cardinality({k \in 1..MaxIndex : <<n, k>> \in Existing}) + Cardinality(Transfers)
         <= MaxIndex

\* What was offered is acceptable, and no file of it is empty.
Manifest(t) ==
  \/ manifest[t] = <<>>
  \/ /\ Acceptable(manifest[t])
     /\ \A i \in DOMAIN manifest[t] : manifest[t][i].size > 0

\* The place in the transfer after `at' chunks of a file: a whole file is left
\* for the next one.
Place(t, file, at) ==
  IF file <= Len(manifest[t]) /\ at = manifest[t][file].size
  THEN <<file + 1, 0>> ELSE <<file, at>>
EndPlace(t) == <<Len(manifest[t]) + 1, 0>>

SenderAt(t) == Place(t, snd[t].file, snd[t].sent)
ReceiverAt(t) ==
  IF rcv[t].file <= Len(manifest[t]) THEN <<rcv[t].file, staged[t][rcv[t].file]>>
  ELSE <<rcv[t].file, 0>>

\* The place of the j-th record on the connection; past the last one, the
\* sender's.
RecordAt(t, j) ==
  IF j > Len(toRcv[t]) THEN SenderAt(t)
  ELSE IF toRcv[t][j].kind = "chunk" THEN <<toRcv[t][j].file, toRcv[t][j].at>>
  ELSE EndPlace(t)

\* A chunk of an offered file is followed by the record of the next place; only
\* the last record of a completed transfer is its end.
Follows(t, j) ==
  \/ /\ toRcv[t][j].kind = "chunk"
     /\ toRcv[t][j].file \in 1 .. Len(manifest[t])
     /\ toRcv[t][j].at < manifest[t][toRcv[t][j].file].size
     /\ RecordAt(t, j + 1) = Place(t, toRcv[t][j].file, toRcv[t][j].at + 1)
  \/ toRcv[t][j].kind = "finish" /\ j = Len(toRcv[t]) /\ snd[t].pc = "completed"

\* The sender is within what it offered.
InManifest(t) ==
  /\ snd[t].file \in 1 .. Len(manifest[t]) + 1
  /\ IF snd[t].file <= Len(manifest[t]) THEN snd[t].sent <= SizeOf(t) ELSE snd[t].sent = 0

\* The records on the connection lead from the receiver's place to the sender's.
Stream(t) ==
  /\ InManifest(t)
  /\ \A i \in DOMAIN manifest[t] : i > rcv[t].file => staged[t][i] = 0
  /\ ReceiverAt(t) = RecordAt(t, 1)
  /\ \A j \in 1 .. Len(toRcv[t]) : Follows(t, j)
  /\ snd[t].pc = "completed" =>
       /\ toRcv[t] # <<>> /\ snd[t].file = Len(manifest[t]) + 1
       /\ toRcv[t][Len(toRcv[t])].kind = "finish"

\* A file has grown past its offer: the sender will fail at its end.
Overrun(t) == snd[t].file \in 1 .. Len(manifest[t]) /\ snd[t].sent > SizeOf(t)

\* An offer, from its record to the answer.
Offered(t) ==
  /\ snd[t].file = 1 /\ snd[t].sent = 0 /\ Len(manifest[t]) >= 1
  /\ \/ rcv[t].pc = "listening" /\ toRcv[t] = <<[kind |-> "start"]>> /\ answer[t] = "none"
     \/ rcv[t].pc = "asking" /\ toRcv[t] = <<>> /\ answer[t] = "none"
     \/ /\ rcv[t].pc = "receiving" /\ toRcv[t] = <<>> /\ answer[t] = "accept"
        /\ rcv[t].file = 1 /\ \A i \in DOMAIN manifest[t] : staged[t][i] = 0
     \/ rcv[t].pc = "declined" /\ toRcv[t] = <<>> /\ answer[t] = "reject"

\* How sender and receiver stand to each other when nothing fails.
InStep(t) ==
  /\ snd[t].pc = "idle" =>
       snd[t].file = 1 /\ snd[t].sent = 0 /\ answer[t] = "none" /\ manifest[t] = <<>>
  /\ snd[t].pc = "offered" => Offered(t)
  /\ snd[t].pc = "streaming" => Overrun(t) \/ (rcv[t].pc = "receiving" /\ Stream(t))
  /\ snd[t].pc = "completed" =>
       rcv[t].pc \in {"publishing", "done"} \/ (rcv[t].pc = "receiving" /\ Stream(t))

\* A path of the folder is free, the user's, or has the published file of its
\* name.
Owned(p) ==
  \/ folder[p] = Free
  \/ folder[p] = UserFile /\ p \in Existing
  \/ \E u \in Transfers : \E i \in DOMAIN manifest[u] :
       /\ folder[p] = <<u, i>> /\ <<u, i>> \in published
       /\ manifest[u][i].name = p[1] /\ i < rcv[u].file

\* And a file is published once.
FolderInv ==
  /\ \A p \in Paths : Owned(p)
  /\ \A p, q \in Paths : folder[p] = folder[q] /\ folder[p] \notin {Free, UserFile} => p = q

\* The path picked is one of the name of the file that is published next.
Picked(t) ==
  chosen[t] # NoPath => rcv[t].pc = "publishing" /\ chosen[t][1] = Name(t)

DeliveryInv ==
  /\ TransferInv
  /\ \A t \in Transfers : Manifest(t) /\ Picked(t)
  /\ FolderInv
  /\ faults = 0 => \A t \in Transfers : InStep(t)

-----------------------------------------------------------------------------
(***************************************************************************)
(* The paths of a name.                                                    *)
(***************************************************************************)

Less == {ss \in Nat \X Nat : ss[1] < ss[2]}

\* A set of numbers that is not empty has a least element.
LEMMA LeastNumber ==
  ASSUME NEW T \in SUBSET Nat, T # {}
  PROVE  \E x \in T : \A y \in T : x <= y
<1>1. OpToRel(<, Nat) = Less
  BY DEF OpToRel, Less
<1>2. IsWellFoundedOn(Less, Nat)
  BY <1>1, NatLessThanWellFounded
<1>3. PICK x \in T : \A y \in T : <<y, x>> \notin Less
  BY <1>2, WFMin
<1>4. ASSUME NEW y \in T PROVE x <= y
  <2>1. <<y, x>> \notin Less /\ <<y, x>> \in Nat \X Nat
    BY <1>3
  <2>2. ~ (y < x)
    BY <2>1 DEF Less
  <2> QED BY <2>2
<1> QED BY <1>4

\* unique_destination_path finds a path when one is free.
LEMMA FreePathFound ==
  ASSUME NEW n \in Names, NEW k \in 1..MaxIndex, folder[<<n, k>>] = Free
  PROVE  FirstFree(n) # {}
<1> DEFINE T == {j \in 1..MaxIndex : folder[<<n, j>>] = Free}
<1>1. PICK x \in T : \A y \in T : x <= y
  <2>1. T \in SUBSET Nat /\ T # {}
    OBVIOUS
  <2> HIDE DEF T
  <2> QED BY <2>1, LeastNumber
<1>2. x \in 1..MaxIndex /\ folder[<<n, x>>] = Free
  OBVIOUS
<1>3. ASSUME NEW j \in 1 .. (x - 1) PROVE folder[<<n, j>>] # Free
  <2>1. j \in 1..MaxIndex /\ ~(x <= j)
    BY <1>2, FileTransferAssumption
  <2> QED BY <1>1, <2>1
<1>4. <<n, x>> \in FirstFree(n)
  BY <1>2, <1>3 DEF FirstFree
<1> QED BY <1>4

\* The paths of a name that are not the user's and not free are as many
\* transfers, the publishing one not among them.
LEMMA NameLasts ==
  ASSUME EnoughPaths, DeliveryInv, NEW t \in Transfers, rcv[t].pc = "publishing"
  PROVE  FirstFree(Name(t)) # {}
<1> DEFINE n == Name(t)
           E == {k \in 1..MaxIndex : <<n, k>> \in Existing}
           W == (1..MaxIndex) \ E
<1>1. n \in Names /\ rcv[t].file \in DOMAIN manifest[t]
  <2>1. rcv[t].file \in 1 .. Len(manifest[t]) /\ manifest[t] \in Seq(FileInfo)
    BY TransferTypes DEF DeliveryInv, TransferInv, Stage
  <2>2. manifest[t][rcv[t].file] \in FileInfo
    BY <2>1
  <2> QED BY <2>1, <2>2 DEF Name, FileInfo
<1> SUFFICES ASSUME \A k \in 1..MaxIndex : folder[<<n, k>>] # Free
             PROVE  FALSE
  BY <1>1, FreePathFound
<1>2. ASSUME NEW k \in W
      PROVE  \E u \in Transfers \ {t} : \E i \in DOMAIN manifest[u] :
               folder[<<n, k>>] = <<u, i>> /\ manifest[u][i].name = n
  <2>1. <<n, k>> \in Paths /\ <<n, k>> \notin Existing
    BY <1>1 DEF Paths
  <2>2. PICK u \in Transfers : \E i \in DOMAIN manifest[u] :
          folder[<<n, k>>] = <<u, i>> /\ manifest[u][i].name = n /\ i < rcv[u].file
    BY <2>1 DEF DeliveryInv, FolderInv, Owned
  <2>3. u # t
    <3> SUFFICES ASSUME u = t PROVE FALSE
      OBVIOUS
    <3>1. PICK i \in DOMAIN manifest[t] : manifest[t][i].name = n /\ i < rcv[t].file
      BY <2>2
    <3>2. manifest[t] # <<>>
      BY <3>1
    <3>3. i = rcv[t].file
      BY <1>1, <3>1, <3>2 DEF DeliveryInv, Manifest, Acceptable, Name
    <3>4. rcv[t].file \in Nat
      BY TransferTypes DEF DeliveryInv, ReceiverStates
    <3> QED BY <3>1, <3>3, <3>4
  <2> QED BY <2>2, <2>3
<1> DEFINE g == [k \in W |-> folder[<<n, k>>][1]]
<1>3. g \in Injection(W, Transfers \ {t})
  <2>1. \A k \in W : g[k] \in Transfers \ {t}
    BY <1>2
  <2>2. ASSUME NEW k \in W, NEW m \in W, g[k] = g[m] PROVE k = m
    <3>a. PICK u \in Transfers \ {t} : \E i \in DOMAIN manifest[u] :
            folder[<<n, k>>] = <<u, i>> /\ manifest[u][i].name = n
      BY <1>2
    <3>b. PICK v \in Transfers \ {t} : \E j \in DOMAIN manifest[v] :
            folder[<<n, m>>] = <<v, j>> /\ manifest[v][j].name = n
      BY <1>2
    <3>1. PICK i \in DOMAIN manifest[u] :
            folder[<<n, k>>] = <<u, i>> /\ manifest[u][i].name = n
      BY <3>a
    <3>2. PICK j \in DOMAIN manifest[v] :
            folder[<<n, m>>] = <<v, j>> /\ manifest[v][j].name = n
      BY <3>b
    <3>3. u = v
      BY <2>2, <3>1, <3>2
    <3>4. manifest[u] # <<>>
      BY <3>1
    <3>5. i = j
      BY <3>1, <3>2, <3>3, <3>4 DEF DeliveryInv, Manifest, Acceptable
    <3>6. <<n, k>> \in Paths /\ <<n, m>> \in Paths
      BY <1>1 DEF Paths
    <3>7. <<u, i>> \notin {Free, UserFile}
      BY FileTransferAssumption DEF Free, UserFile
    <3>8. <<n, k>> = <<n, m>>
      BY <3>1, <3>2, <3>3, <3>5, <3>6, <3>7 DEF DeliveryInv, FolderInv
    <3> QED BY <3>8
  <2> QED BY <2>1, <2>2 DEF Injection, IsInjective
<1>4. /\ IsFiniteSet(Transfers \ {t}) /\ Cardinality(Transfers) \in Nat
      /\ Cardinality(Transfers \ {t}) = Cardinality(Transfers) - 1
  BY FS_RemoveElement, FS_CardinalityType DEF EnoughPaths
<1>5. IsFiniteSet(W) /\ Cardinality(W) <= Cardinality(Transfers) - 1
  BY <1>3, <1>4, FS_Injection
<1>6. IsFiniteSet(1..MaxIndex) /\ Cardinality(1..MaxIndex) = MaxIndex /\ MaxIndex \in Nat \ {0}
  BY FileTransferAssumption, FS_Interval
<1>7. E \in SUBSET (1..MaxIndex) /\ IsFiniteSet(E) /\ Cardinality(E) \in Nat
  BY <1>6, FS_Subset, FS_CardinalityType
<1>8. Cardinality(W) = MaxIndex - Cardinality(E)
  <2>1. (1..MaxIndex) \cap E = E
    OBVIOUS
  <2> HIDE DEF E
  <2> QED BY <1>6, <2>1, FS_Difference
<1>9. Cardinality(E) + Cardinality(Transfers) <= MaxIndex
  BY <1>1 DEF EnoughPaths
<1> HIDE DEF E, W
<1> QED BY <1>4, <1>5, <1>6, <1>7, <1>8, <1>9
-----------------------------------------------------------------------------
(***************************************************************************)
(* What a step leaves alone.                                               *)
(***************************************************************************)

\* One step of one transfer.
Step(t) ==
  \/ \E q \in Requests : Offer(t, q)
  \/ Sender(t) \/ Receiver(t)
  \/ Accept(t) \/ Decline(t)
  \/ Lose(t) \/ DiskFails(t)

\* A step of a transfer leaves the others as they are.
LEMMA OthersSame ==
  ASSUME TransferInv, NEW t \in Transfers, Step(t), NEW u \in Transfers, u # t
  PROVE  /\ snd'[u] = snd[u] /\ rcv'[u] = rcv[u] /\ manifest'[u] = manifest[u]
         /\ staged'[u] = staged[u] /\ toRcv'[u] = toRcv[u] /\ answer'[u] = answer[u]
         /\ chosen'[u] = chosen[u]
<1>0. /\ snd \in [Transfers -> SenderStates] /\ rcv \in [Transfers -> ReceiverStates]
      /\ manifest \in [Transfers -> Seq(FileInfo)] /\ staged \in [Transfers -> Seq(Nat)]
      /\ toRcv \in [Transfers -> Seq(Records)]
      /\ answer \in [Transfers -> {"none", "accept", "reject"}]
      /\ chosen \in [Transfers -> Paths \cup {NoPath}]
  BY TransferTypes DEF TransferInv, TypeOK
<1>1. ASSUME NEW q \in Requests, Offer(t, q) PROVE snd'[u] = snd[u] /\ rcv' = rcv
        /\ manifest'[u] = manifest[u] /\ staged' = staged /\ toRcv'[u] = toRcv[u]
        /\ answer' = answer /\ chosen' = chosen
  BY <1>0, <1>1 DEF Offer, disk
<1>2. CASE Sender(t)
  BY <1>0, <1>2 DEF Sender, ReadDecision, GiveUp, SendChunk, EndOfFile, SendFinish, disk
<1>3. CASE Receiver(t)
  <2>1. CASE TakeOffer(t)
    BY <1>0, <2>1 DEF TakeOffer, Taken, Fails, sender, disk
  <2>2. CASE TakeChunk(t)
    BY <1>0, <2>2 DEF TakeChunk, Taken, Fails, sender, disk
  <2>3. CASE TakeFinish(t)
    BY <1>0, <2>3 DEF TakeFinish, Taken, Fails, sender, disk
  <2>4. CASE PeerClosed(t)
    BY <1>0, <2>4 DEF PeerClosed, Fails, sender, disk
  <2>5. CASE ChoosePath(t)
    BY <1>0, <2>5 DEF ChoosePath, Fails, sender
  <2>6. CASE Publish(t)
    BY <1>0, <2>6 DEF Publish, sender
  <2> QED BY <1>3, <2>1, <2>2, <2>3, <2>4, <2>5, <2>6 DEF Receiver
<1>4. CASE Accept(t) \/ Decline(t)
  BY <1>0, <1>4 DEF Accept, Decline, Fails, sender, disk
<1>5. CASE Lose(t) \/ DiskFails(t)
  BY <1>0, <1>5 DEF Lose, DiskFails, Fails, sender, disk
<1> QED BY <1>1, <1>2, <1>3, <1>4, <1>5 DEF Step

\* And they stand as they did.
LEMMA OthersInStep ==
  ASSUME NEW u \in Transfers, InStep(u), Manifest(u), Picked(u),
         snd'[u] = snd[u], rcv'[u] = rcv[u], manifest'[u] = manifest[u],
         staged'[u] = staged[u], toRcv'[u] = toRcv[u], answer'[u] = answer[u],
         chosen'[u] = chosen[u]
  PROVE  InStep(u)'
<1>1. Stream(u)' = Stream(u)
  BY DEF Stream, InManifest, ReceiverAt, RecordAt, SenderAt, Place, EndPlace, Follows, SizeOf
<1>2. Overrun(u)' = Overrun(u) /\ Offered(u)' = Offered(u)
  BY DEF Overrun, Offered, SizeOf
<1> QED BY <1>1, <1>2 DEF InStep

\* The manifest and the path picked stand as they did.
LEMMA OthersStand ==
  ASSUME NEW u \in Transfers, Manifest(u), Picked(u),
         rcv'[u] = rcv[u], manifest'[u] = manifest[u], chosen'[u] = chosen[u]
  PROVE  Manifest(u)' /\ Picked(u)'
BY DEF Manifest, Picked, Name

\* No step takes back a fault.
LEMMA FaultsGrow ==
  ASSUME TransferInv, NEW t \in Transfers, Step(t), faults' = 0
  PROVE  faults = 0 /\ ~Lose(t) /\ ~DiskFails(t)
<1>1. faults \in Nat
  BY TransferTypes
<1>2. faults' = faults \/ faults' = faults + 1
  BY DEF Step, Offer, Sender, ReadDecision, GiveUp, SendChunk, EndOfFile, SendFinish,
         Receiver, TakeOffer, TakeChunk, TakeFinish, PeerClosed, ChoosePath, Publish,
         Accept, Decline, Lose, DiskFails
<1>3. Lose(t) \/ DiskFails(t) => faults' = faults + 1
  BY DEF Lose, DiskFails
<1> QED BY <1>1, <1>2, <1>3

\* So a step keeps the invariant when it keeps what it says of its transfer and
\* of the folder.
LEMMA OneTransfer ==
  ASSUME DeliveryInv, TransferInv', NEW t \in Transfers, Step(t),
         Manifest(t)', Picked(t)', FolderInv', faults' = 0 => InStep(t)'
  PROVE  DeliveryInv'
<1>1. \A u \in Transfers : Manifest(u)' /\ Picked(u)'
  BY OthersSame, OthersStand DEF DeliveryInv
<1>2. ASSUME faults' = 0, NEW u \in Transfers PROVE InStep(u)'
  BY <1>2, FaultsGrow, OthersSame, OthersInStep DEF DeliveryInv
<1> QED BY <1>1, <1>2 DEF DeliveryInv

\* What a step of a transfer that publishes nothing leaves of the folder.
LEMMA FolderStays ==
  ASSUME DeliveryInv, NEW t \in Transfers, Step(t), folder' = folder, published' = published,
         rcv[t].pc \in {"publishing", "done", "failed"} =>
           manifest'[t] = manifest[t] /\ rcv'[t].file = rcv[t].file
  PROVE  FolderInv'
<1>1. ASSUME NEW p \in Paths PROVE Owned(p)'
  <2>1. CASE \E u \in Transfers : \E i \in DOMAIN manifest[u] :
       /\ folder[p] = <<u, i>> /\ <<u, i>> \in published
       /\ manifest[u][i].name = p[1] /\ i < rcv[u].file
    <3>1. PICK u \in Transfers : \E i \in DOMAIN manifest[u] :
            /\ folder[p] = <<u, i>> /\ <<u, i>> \in published
            /\ manifest[u][i].name = p[1] /\ i < rcv[u].file
      BY <2>1
    <3>2. rcv[u].pc \in {"publishing", "done", "failed"}
      BY <3>1 DEF DeliveryInv, TransferInv, PublishedInv
    <3>3. manifest'[u] = manifest[u] /\ rcv'[u].file = rcv[u].file
      BY <3>2, OthersSame DEF DeliveryInv
    <3> QED BY <3>1, <3>3 DEF Owned
  <2> QED BY <2>1 DEF DeliveryInv, FolderInv, Owned
<1> QED BY <1>1 DEF DeliveryInv, FolderInv

\* Nor is a path picked, or the one picked given up, by a step that is not one
\* of publishing.
LEMMA PickedStays ==
  ASSUME DeliveryInv, NEW t \in Transfers, chosen' = chosen,
         \/ rcv' = rcv /\ manifest' = manifest
         \/ rcv[t].pc # "publishing"
  PROVE  Picked(t)'
BY DEF DeliveryInv, Picked, Name

-----------------------------------------------------------------------------
(***************************************************************************)
(* The sender.                                                             *)
(***************************************************************************)

\* What is known of a transfer while nothing has failed.
LEMMA DeliveryTypes ==
  ASSUME DeliveryInv, NEW t \in Transfers
  PROVE  /\ TransferInv /\ Stage(t) /\ Manifest(t) /\ Picked(t)
         /\ faults = 0 => InStep(t)
         /\ snd \in [Transfers -> SenderStates] /\ rcv \in [Transfers -> ReceiverStates]
         /\ snd[t].file \in Nat /\ snd[t].sent \in Nat /\ rcv[t].file \in Nat
         /\ manifest \in [Transfers -> Seq(FileInfo)] /\ staged \in [Transfers -> Seq(Nat)]
         /\ toRcv \in [Transfers -> Seq(Records)] /\ Len(toRcv[t]) \in Nat
         /\ manifest[t] \in Seq(FileInfo) /\ Len(manifest[t]) \in Nat
         /\ DOMAIN manifest[t] = 1 .. Len(manifest[t])
         /\ \A i \in 1 .. Len(manifest[t]) :
              manifest[t][i].size \in Nat /\ manifest[t][i].size > 0
         /\ answer \in [Transfers -> {"none", "accept", "reject"}]
         /\ chosen \in [Transfers -> Paths \cup {NoPath}]
<1>1. /\ snd \in [Transfers -> SenderStates] /\ rcv \in [Transfers -> ReceiverStates]
      /\ manifest \in [Transfers -> Seq(FileInfo)] /\ staged \in [Transfers -> Seq(Nat)]
      /\ toRcv \in [Transfers -> Seq(Records)]
      /\ answer \in [Transfers -> {"none", "accept", "reject"}]
      /\ chosen \in [Transfers -> Paths \cup {NoPath}]
  BY TransferTypes DEF DeliveryInv, TransferInv, TypeOK
<1>2. manifest[t] \in Seq(FileInfo) /\ toRcv[t] \in Seq(Records)
  BY <1>1
<1>3. ASSUME NEW i \in 1 .. Len(manifest[t])
      PROVE  manifest[t][i].size \in Nat /\ manifest[t][i].size > 0
  <2>1. manifest[t][i] \in FileInfo /\ manifest[t] # <<>>
    BY <1>2
  <2> QED BY <1>2, <2>1 DEF FileInfo, DeliveryInv, Manifest
<1>4. snd[t].file \in Nat /\ snd[t].sent \in Nat /\ rcv[t].file \in Nat
  BY <1>1 DEF SenderStates, ReceiverStates
<1>5. /\ TransferInv /\ Stage(t) /\ Manifest(t) /\ Picked(t)
      /\ faults = 0 => InStep(t)
  BY DEF DeliveryInv, TransferInv
<1> QED BY <1>1, <1>2, <1>3, <1>4, <1>5

\* send_files: the offer is on its way to a receiver that listens.
LEMMA OfferDelivers ==
  ASSUME DeliveryInv, TransferInv', NoEmptyFiles, NEW t \in Transfers,
         NEW q \in Requests, Offer(t, q)
  PROVE  DeliveryInv'
<1>1. /\ snd[t].pc = "idle" /\ rcv[t].pc = "listening"
      /\ UNCHANGED <<rcv, staged, answer, disk, faults>>
  BY DeliveryTypes DEF Offer, Stage
<1>2. FolderInv' /\ Picked(t)'
  BY <1>1, FolderStays, PickedStays DEF Step, disk
<1>3. Manifest(t)'
  <2>1. CASE Acceptable(Regular(q))
    <3>1. manifest'[t] = Regular(q)
      BY <2>1, DeliveryTypes DEF Offer
    <3> QED BY <2>1, <3>1 DEF Manifest, NoEmptyFiles
  <2>2. CASE ~Acceptable(Regular(q))
    BY <2>2, DeliveryTypes DEF Offer, Manifest
  <2> QED BY <2>1, <2>2
<1>4. ASSUME faults' = 0 PROVE InStep(t)'
  <2>1. snd[t].file = 1 /\ snd[t].sent = 0 /\ answer[t] = "none"
    BY <1>1, <1>4, DeliveryTypes DEF InStep
  <2>2. CASE Acceptable(Regular(q))
    <3>0. /\ snd' = [snd EXCEPT ![t].pc = "offered"]
          /\ manifest' = [manifest EXCEPT ![t] = Regular(q)]
          /\ toRcv' = [toRcv EXCEPT ![t] = <<[kind |-> "start"]>>]
      BY <2>2 DEF Offer
    <3>1. /\ snd'[t].pc = "offered" /\ snd'[t].file = 1 /\ snd'[t].sent = 0
          /\ manifest'[t] = Regular(q) /\ toRcv'[t] = <<[kind |-> "start"]>>
          /\ answer'[t] = "none" /\ rcv'[t].pc = "listening"
      BY <1>1, <2>1, <3>0, DeliveryTypes DEF SenderStates
    <3>2. Len(manifest'[t]) >= 1
      BY <2>2, <3>1, FileTransferAssumption DEF Acceptable
    <3> QED BY <3>1, <3>2 DEF InStep, Offered
  <2>3. CASE ~Acceptable(Regular(q))
    <3>1. snd'[t].pc = "failed"
      BY <2>3, DeliveryTypes DEF Offer, SenderStates
    <3> QED BY <3>1 DEF InStep
  <2> QED BY <2>2, <2>3
<1> QED BY <1>2, <1>3, <1>4, OneTransfer DEF Step

\* What the steps of a sender leave of the folder and the manifest.
LEMMA SenderLeaves ==
  ASSUME DeliveryInv, NEW t \in Transfers, Sender(t) \/ Lose(t)
  PROVE  FolderInv' /\ Picked(t)' /\ Manifest(t)'
<1>1. UNCHANGED <<rcv, manifest, staged, disk>>
  BY DEF Sender, ReadDecision, GiveUp, SendChunk, EndOfFile, SendFinish, Lose
<1>2. Manifest(t)'
  BY <1>1, DeliveryTypes DEF Manifest
<1> QED BY <1>1, <1>2, FolderStays, PickedStays DEF Step, disk

\* The answer is read: with it both are at the beginning of the first file.
LEMMA ReadDecisionInStep ==
  ASSUME DeliveryInv, NEW t \in Transfers, ReadDecision(t), faults = 0
  PROVE  InStep(t)'
<1>1. /\ snd[t].pc = "offered" /\ answer[t] # "none" /\ Offered(t)
      /\ UNCHANGED <<rcv, manifest, staged, toRcv, disk>>
  BY DeliveryTypes DEF ReadDecision, InStep
<1>2. CASE answer[t] = "accept"
  <2>1. /\ snd'[t].pc = "streaming" /\ snd'[t].file = 1 /\ snd'[t].sent = 0
        /\ rcv[t].pc = "receiving" /\ toRcv[t] = <<>> /\ rcv[t].file = 1
        /\ \A i \in DOMAIN manifest[t] : staged[t][i] = 0
        /\ Len(manifest[t]) >= 1
    BY <1>1, <1>2, DeliveryTypes DEF ReadDecision, Offered, SenderStates
  <2>2. 1 \in 1 .. Len(manifest[t]) /\ manifest[t][1].size > 0 /\ manifest[t][1].size \in Nat
        /\ staged[t][1] = 0
    BY <2>1, DeliveryTypes
  <2>3. SenderAt(t)' = <<1, 0>>
    BY <1>1, <2>1, <2>2 DEF SenderAt, Place
  <2>4. ReceiverAt(t)' = <<1, 0>>
    BY <1>1, <2>1, <2>2 DEF ReceiverAt
  <2>5. Len(toRcv'[t]) = 0
    BY <1>1, <2>1
  <2>6. RecordAt(t, 1)' = SenderAt(t)'
    BY <2>5 DEF RecordAt
  <2>7. InManifest(t)'
    BY <1>1, <2>1, <2>2 DEF InManifest, SizeOf
  <2>8. Stream(t)'
    BY <1>1, <2>1, <2>3, <2>4, <2>5, <2>6, <2>7 DEF Stream
  <2> QED BY <1>1, <2>1, <2>8 DEF InStep
<1>3. CASE answer[t] # "accept"
  <2>1. snd'[t].pc = "declined"
    BY <1>3, DeliveryTypes DEF ReadDecision, SenderStates
  <2> QED BY <2>1 DEF InStep
<1> QED BY <1>2, <1>3

\* A sender that gives up promises nothing.
LEMMA GiveUpInStep ==
  ASSUME DeliveryInv, NEW t \in Transfers, GiveUp(t)
  PROVE  InStep(t)'
<1>1. snd'[t].pc = "failed"
  BY DeliveryTypes DEF GiveUp, SenderStates
<1> QED BY <1>1 DEF InStep

\* A record at the end of the connection leaves those before it where they are.
LEMMA RecordsBefore ==
  ASSUME DeliveryInv, NEW t \in Transfers, NEW r \in Records, manifest' = manifest,
         NEW n \in Nat, n = Len(toRcv[t]),
         toRcv' = [toRcv EXCEPT ![t] = Append(@, r)],
         r.kind = "chunk" => SenderAt(t) = <<r.file, r.at>>,
         r.kind # "chunk" => SenderAt(t) = EndPlace(t)
  PROVE  /\ Len(toRcv'[t]) = n + 1
         /\ \A j \in 1 .. n : toRcv'[t][j] = toRcv[t][j]
         /\ toRcv'[t][n + 1] = r
         /\ \A j \in 1 .. n + 1 : RecordAt(t, j)' = RecordAt(t, j)
         /\ RecordAt(t, n + 2)' = SenderAt(t)'
<1>1. toRcv[t] \in Seq(Records) /\ toRcv'[t] = Append(toRcv[t], r)
  BY DeliveryTypes
<1>2. /\ Len(toRcv'[t]) = n + 1 /\ toRcv'[t][n + 1] = r
      /\ \A j \in 1 .. n : toRcv'[t][j] = toRcv[t][j]
  BY <1>1
<1>3. ASSUME NEW j \in 1 .. n PROVE RecordAt(t, j)' = RecordAt(t, j)
  <2>1. ~(j > n) /\ ~(j > n + 1)
    OBVIOUS
  <2> QED BY <1>2, <2>1 DEF RecordAt, EndPlace
<1>4. RecordAt(t, n + 1)' = RecordAt(t, n + 1)
  <2>1. n + 1 > n /\ ~(n + 1 > n + 1)
    OBVIOUS
  <2>2. RecordAt(t, n + 1) = SenderAt(t)
    BY <2>1 DEF RecordAt
  <2>3. RecordAt(t, n + 1)' = IF r.kind = "chunk" THEN <<r.file, r.at>> ELSE EndPlace(t)
    BY <1>2, <2>1 DEF RecordAt, EndPlace
  <2> QED BY <2>2, <2>3
<1>5. RecordAt(t, n + 2)' = SenderAt(t)'
  <2>1. n + 2 > n + 1
    OBVIOUS
  <2> QED BY <1>2, <2>1 DEF RecordAt
<1>6. \A j \in 1 .. n + 1 : j \in 1 .. n \/ j = n + 1
  OBVIOUS
<1> QED BY <1>2, <1>3, <1>4, <1>5, <1>6

\* A chunk is sent: it is at the sender's place, and the sender at the next.
LEMMA SendChunkInStep ==
  ASSUME DeliveryInv, NEW t \in Transfers, SendChunk(t), faults = 0
  PROVE  InStep(t)'
<1>0. PICK f \in Nat, s \in Nat, n \in Nat :
        f = snd[t].file /\ s = snd[t].sent /\ n = Len(toRcv[t])
  BY DeliveryTypes
<1>r. PICK r \in Records : r = [kind |-> "chunk", file |-> f, at |-> s]
  BY DEF Records
<1>1. /\ snd[t].pc = "streaming" /\ f <= Len(manifest[t])
      /\ toRcv' = [toRcv EXCEPT ![t] = Append(@, r)]
      /\ UNCHANGED <<rcv, manifest, staged, answer, disk>>
      /\ Overrun(t) \/ (rcv[t].pc = "receiving" /\ Stream(t))
  BY <1>0, <1>r, DeliveryTypes DEF SendChunk, Reading, InStep
<1>2. snd'[t].pc = "streaming" /\ snd'[t].file = f /\ snd'[t].sent = s + 1
  BY <1>0, <1>1, DeliveryTypes DEF SendChunk, SenderStates
<1>3. Len(manifest[t]) \in Nat
  BY DeliveryTypes
<1>4. CASE Overrun(t)
  <2>1. f \in 1 .. Len(manifest[t]) /\ manifest[t][f].size \in Nat
    BY <1>0, <1>4, DeliveryTypes DEF Overrun
  <2>2. Overrun(t)'
    BY <1>0, <1>1, <1>2, <1>3, <1>4, <2>1 DEF Overrun, SizeOf
  <2> QED BY <1>2, <2>2 DEF InStep
<1>5. CASE rcv[t].pc = "receiving" /\ Stream(t)
  <2>1. /\ f \in 1 .. Len(manifest[t]) /\ s <= SizeOf(t) /\ SizeOf(t) \in Nat
        /\ SizeOf(t) = manifest[t][f].size /\ SizeOf(t)' = manifest[t][f].size
    BY <1>0, <1>1, <1>2, <1>3, <1>5, DeliveryTypes DEF Stream, InManifest, SizeOf
  <2>2. CASE s = SizeOf(t)
    <3>1. Overrun(t)'
      BY <1>1, <1>2, <1>3, <2>1, <2>2 DEF Overrun
    <3> QED BY <1>2, <3>1 DEF InStep
  <2>3. CASE s < SizeOf(t)
    <3>1. r \in Records /\ r.kind = "chunk" /\ r.file = f /\ r.at = s
      BY <1>r
    <3>2. SenderAt(t) = <<f, s>>
      BY <1>0, <2>1, <2>3 DEF SenderAt, Place, SizeOf
    <3>3. SenderAt(t)' = Place(t, f, s + 1)
      BY <1>1, <1>2 DEF SenderAt, Place
    <3>5. /\ Len(toRcv'[t]) = n + 1
          /\ \A j \in 1 .. n : toRcv'[t][j] = toRcv[t][j]
          /\ toRcv'[t][n + 1] = r
          /\ \A j \in 1 .. n + 1 : RecordAt(t, j)' = RecordAt(t, j)
          /\ RecordAt(t, n + 2)' = SenderAt(t)'
      <4>1. /\ r.kind = "chunk" => SenderAt(t) = <<r.file, r.at>>
            /\ r.kind # "chunk" => SenderAt(t) = EndPlace(t)
        BY <3>1, <3>2
      <4>2. r \in Records /\ manifest' = manifest /\ n = Len(toRcv[t])
            /\ toRcv' = [toRcv EXCEPT ![t] = Append(@, r)]
        BY <1>0, <1>1, <3>1
      <4> QED BY <4>1, <4>2, RecordsBefore
    <3>6. ASSUME NEW j \in 1 .. n PROVE Follows(t, j)'
      <4>1. Follows(t, j) /\ toRcv[t][j].kind = "chunk"
        BY <1>0, <1>1, <1>5 DEF Stream, Follows
      <4>2. j + 1 \in 1 .. n + 1
        BY <1>3
      <4> QED BY <1>1, <3>5, <4>1, <4>2 DEF Follows, Place
    <3>7. Follows(t, n + 1)'
      <4>1. (n + 1) + 1 = n + 2
        BY <1>3
      <4>2. toRcv'[t][n + 1].kind = "chunk" /\ toRcv'[t][n + 1].file = f /\ toRcv'[t][n + 1].at = s
        BY <3>1, <3>5
      <4>3. manifest'[t] = manifest[t] /\ s < manifest[t][f].size
        BY <1>1, <2>1, <2>3
      <4>4. RecordAt(t, (n + 1) + 1)' = Place(t, f, s + 1)'
        BY <1>1, <3>3, <3>5, <4>1 DEF Place
      <4> QED BY <2>1, <4>2, <4>3, <4>4 DEF Follows
    <3>8. \A j \in 1 .. Len(toRcv'[t]) : Follows(t, j)'
      <4>1. \A j \in 1 .. n + 1 : j \in 1 .. n \/ j = n + 1
        BY <1>3
      <4> QED BY <3>5, <3>6, <3>7, <4>1
    <3>9. InManifest(t)'
      BY <1>1, <1>2, <1>3, <2>1, <2>3 DEF InManifest
    <3>10. ReceiverAt(t)' = RecordAt(t, 1)'
      <4>1. ReceiverAt(t)' = ReceiverAt(t)
        BY <1>1 DEF ReceiverAt
      <4>2. 1 \in 1 .. n + 1
        BY <1>3
      <4> QED BY <1>5, <3>5, <4>1, <4>2 DEF Stream
    <3>11. Stream(t)'
      BY <1>1, <1>2, <1>5, <3>8, <3>9, <3>10 DEF Stream
    <3> QED BY <1>1, <1>2, <1>5, <3>11 DEF InStep
  <2> QED BY <2>1, <2>2, <2>3
<1> QED BY <1>1, <1>4, <1>5
\* At the end of a file that is as it was offered the sender's place is the
\* same; one that is not is the end of the transfer.
LEMMA EndOfFileInStep ==
  ASSUME DeliveryInv, NEW t \in Transfers, EndOfFile(t), faults = 0
  PROVE  InStep(t)'
<1>0. PICK f \in Nat, s \in Nat : f = snd[t].file /\ s = snd[t].sent
  BY DeliveryTypes
<1>1. /\ snd[t].pc = "streaming" /\ f <= Len(manifest[t])
      /\ UNCHANGED <<rcv, manifest, staged, toRcv, answer, disk>>
      /\ Overrun(t) \/ (rcv[t].pc = "receiving" /\ Stream(t))
  BY <1>0, DeliveryTypes DEF EndOfFile, Reading, InStep
<1>2. CASE ~SizeMatches(t)
  <2>1. snd'[t].pc = "failed"
    BY <1>2, DeliveryTypes DEF EndOfFile, SenderStates
  <2> QED BY <2>1 DEF InStep
<1>3. CASE SizeMatches(t)
  <2>1. snd'[t].pc = "streaming" /\ snd'[t].file = f + 1 /\ snd'[t].sent = 0
    BY <1>0, <1>3, DeliveryTypes DEF EndOfFile
  <2>2. s = SizeOf(t) /\ SizeOf(t) = manifest[t][f].size
    BY <1>0, <1>3 DEF SizeMatches, SizeOf
  <2>3. rcv[t].pc = "receiving" /\ Stream(t)
    <3>1. ~Overrun(t)
      BY <1>0, <2>2 DEF Overrun
    <3> QED BY <1>1, <3>1
  <2>4. f \in 1 .. Len(manifest[t]) /\ Len(manifest[t]) \in Nat
    BY <1>0, <1>1, <2>3, DeliveryTypes DEF Stream, InManifest
  <2>5. f + 1 <= Len(manifest[t]) =>
          manifest[t][f + 1].size \in Nat /\ manifest[t][f + 1].size > 0
    <3>1. f + 1 <= Len(manifest[t]) => f + 1 \in 1 .. Len(manifest[t])
      BY <2>4
    <3> QED BY <3>1, DeliveryTypes
  <2>6. SenderAt(t) = <<f + 1, 0>>
    BY <1>0, <2>2, <2>4 DEF SenderAt, Place
  <2>7. SenderAt(t)' = <<f + 1, 0>>
    <3>1. SenderAt(t)' = IF f + 1 <= Len(manifest[t]) /\ 0 = manifest[t][f + 1].size
                         THEN <<(f + 1) + 1, 0>> ELSE <<f + 1, 0>>
      BY <1>1, <2>1 DEF SenderAt, Place
    <3> QED BY <2>5, <3>1
  <2>8. \A j : RecordAt(t, j)' = RecordAt(t, j)
    BY <1>1, <2>6, <2>7 DEF RecordAt, EndPlace
  <2>9. \A j \in 1 .. Len(toRcv[t]) : Follows(t, j)'
    BY <1>1, <2>3, <2>8 DEF Stream, Follows, Place
  <2>10. InManifest(t)'
    <3>1. f + 1 \in 1 .. Len(manifest[t]) + 1
      BY <2>4
    <3> QED BY <1>1, <2>1, <2>5, <3>1 DEF InManifest, SizeOf
  <2>11. ReceiverAt(t)' = ReceiverAt(t)
    BY <1>1 DEF ReceiverAt
  <2>12. Stream(t)'
    BY <1>1, <2>1, <2>3, <2>8, <2>9, <2>10, <2>11 DEF Stream
  <2> QED BY <1>1, <2>1, <2>3, <2>12 DEF InStep
<1> QED BY <1>2, <1>3

\* The end of a transfer is sent after its last chunk.
LEMMA SendFinishInStep ==
  ASSUME DeliveryInv, NEW t \in Transfers, SendFinish(t), faults = 0
  PROVE  InStep(t)'
<1>0. PICK n \in Nat : n = Len(toRcv[t])
  BY DeliveryTypes
<1>r. PICK r \in Records : r = [kind |-> "finish"]
  BY DEF Records
<1>1. /\ snd[t].pc = "streaming" /\ snd[t].file = Len(manifest[t]) + 1
      /\ toRcv' = [toRcv EXCEPT ![t] = Append(@, r)]
      /\ UNCHANGED <<rcv, manifest, staged, answer, disk>>
  BY <1>r, DeliveryTypes DEF SendFinish
<1>2. /\ snd'[t].pc = "completed" /\ snd'[t].file = snd[t].file /\ snd'[t].sent = snd[t].sent
  BY DeliveryTypes DEF SendFinish, SenderStates
<1>3. Len(manifest[t]) \in Nat
  BY DeliveryTypes
<1>4. rcv[t].pc = "receiving" /\ Stream(t)
  <2>1. ~Overrun(t)
    BY <1>1, <1>3 DEF Overrun
  <2> QED BY <1>1, <2>1, DeliveryTypes DEF InStep
<1>5. ~(snd[t].file <= Len(manifest[t])) /\ snd[t].sent = 0
  BY <1>1, <1>3, <1>4 DEF Stream, InManifest
<1>6. SenderAt(t) = EndPlace(t) /\ SenderAt(t)' = SenderAt(t)
  BY <1>1, <1>2, <1>5 DEF SenderAt, Place, EndPlace
<1>7. /\ Len(toRcv'[t]) = n + 1
      /\ \A j \in 1 .. n : toRcv'[t][j] = toRcv[t][j]
      /\ toRcv'[t][n + 1] = r
      /\ \A j \in 1 .. n + 1 : RecordAt(t, j)' = RecordAt(t, j)
  <2>1. /\ r.kind = "chunk" => SenderAt(t) = <<r.file, r.at>>
        /\ r.kind # "chunk" => SenderAt(t) = EndPlace(t)
    BY <1>r, <1>6
  <2>2. r \in Records /\ manifest' = manifest /\ n = Len(toRcv[t])
        /\ toRcv' = [toRcv EXCEPT ![t] = Append(@, r)]
    BY <1>0, <1>1
  <2> QED BY <2>1, <2>2, RecordsBefore
<1>8. \A j \in 1 .. Len(toRcv'[t]) : Follows(t, j)'
  <2>1. ASSUME NEW j \in 1 .. n PROVE Follows(t, j)'
    <3>1. Follows(t, j) /\ toRcv[t][j].kind = "chunk"
      BY <1>0, <1>1, <1>4 DEF Stream, Follows
    <3>2. j + 1 \in 1 .. n + 1
      OBVIOUS
    <3> QED BY <1>1, <1>7, <3>1, <3>2 DEF Follows, Place
  <2>2. Follows(t, n + 1)'
    BY <1>r, <1>2, <1>7 DEF Follows
  <2>3. \A j \in 1 .. n + 1 : j \in 1 .. n \/ j = n + 1
    OBVIOUS
  <2> QED BY <1>7, <2>1, <2>2, <2>3
<1>9. InManifest(t)' /\ ReceiverAt(t)' = ReceiverAt(t)
  BY <1>1, <1>2, <1>4, <1>5 DEF Stream, InManifest, ReceiverAt
<1>10. ReceiverAt(t)' = RecordAt(t, 1)'
  <2>1. 1 \in 1 .. n + 1
    OBVIOUS
  <2> QED BY <1>4, <1>7, <1>9, <2>1 DEF Stream
<1>11. toRcv'[t] # <<>> /\ toRcv'[t][Len(toRcv'[t])].kind = "finish"
  <2>1. n + 1 # 0 /\ Len(<<>>) = 0
    OBVIOUS
  <2> QED BY <1>r, <1>7, <2>1
<1>12. Stream(t)'
  BY <1>1, <1>2, <1>4, <1>8, <1>9, <1>10, <1>11 DEF Stream
<1> QED BY <1>1, <1>2, <1>4, <1>12 DEF InStep

\* The steps of a sender.
LEMMA SenderDelivers ==
  ASSUME DeliveryInv, TransferInv', NEW t \in Transfers, Sender(t)
  PROVE  DeliveryInv'
<1>1. FolderInv' /\ Picked(t)' /\ Manifest(t)' /\ Step(t)
  BY SenderLeaves DEF Step
<1>2. ASSUME faults' = 0 PROVE InStep(t)'
  <2>1. faults = 0
    BY <1>1, <1>2, FaultsGrow, DeliveryTypes
  <2> QED BY <2>1, ReadDecisionInStep, GiveUpInStep, SendChunkInStep, EndOfFileInStep,
             SendFinishInStep DEF Sender
<1> QED BY <1>1, <1>2, OneTransfer

\* The connection is lost: a fault.
LEMMA LoseDelivers ==
  ASSUME DeliveryInv, TransferInv', NEW t \in Transfers, Lose(t)
  PROVE  DeliveryInv'
<1>1. FolderInv' /\ Picked(t)' /\ Manifest(t)' /\ Step(t)
  BY SenderLeaves DEF Step
<1>2. faults' # 0
  BY <1>1, FaultsGrow, DeliveryTypes
<1> QED BY <1>1, <1>2, OneTransfer

-----------------------------------------------------------------------------
(***************************************************************************)
(* The receiver.                                                           *)
(***************************************************************************)

\* A step of a receiver that is not publishing leaves the folder and the path.
LEMMA ReceiverLeaves ==
  ASSUME DeliveryInv, NEW t \in Transfers,
         TakeOffer(t) \/ TakeChunk(t) \/ TakeFinish(t) \/ PeerClosed(t) \/ Accept(t) \/ Decline(t)
  PROVE  FolderInv' /\ Picked(t)' /\ Manifest(t)' /\ Step(t)
<1>1. /\ rcv[t].pc \in {"listening", "asking", "receiving"}
      /\ UNCHANGED <<sender, disk>>
  BY DEF TakeOffer, TakeChunk, TakeFinish, PeerClosed, Accept, Decline, disk
<1>2. Step(t)
  BY DEF Step, Receiver
<1>3. Manifest(t)'
  BY <1>1, DeliveryTypes DEF Manifest, sender
<1> QED BY <1>1, <1>2, <1>3, FolderStays, PickedStays DEF sender, disk

\* A sender whose file has grown past its offer stays so; one that has ended
\* without success promises nothing.
LEMMA NothingPromised ==
  ASSUME DeliveryInv, NEW t \in Transfers, snd' = snd, manifest' = manifest,
         snd[t].pc \in {"declined", "failed"} \/ (snd[t].pc = "streaming" /\ Overrun(t))
  PROVE  InStep(t)'
BY DEF InStep, Overrun, SizeOf

\* The offer is taken: the user is asked, for it is acceptable.
LEMMA TakeOfferInStep ==
  ASSUME DeliveryInv, NEW t \in Transfers, TakeOffer(t), faults = 0
  PROVE  InStep(t)'
<1>1. /\ rcv[t].pc = "listening" /\ toRcv[t] # <<>> /\ Taken(t)
      /\ UNCHANGED <<snd, manifest, staged, answer>>
      /\ InStep(t) /\ Stage(t) /\ snd[t].pc # "idle"
  BY DeliveryTypes, TakenKeeps DEF TakeOffer, Arrives, sender
<1>2. CASE snd[t].pc = "offered"
  <2>1. /\ Offered(t) /\ toRcv[t] = <<[kind |-> "start"]>> /\ answer[t] = "none"
        /\ Len(manifest[t]) >= 1
    BY <1>1, <1>2 DEF InStep, Offered
  <2>2. Acceptable(manifest[t])
    <3>1. manifest[t] # <<>>
      BY <2>1
    <3> QED BY <3>1, DeliveryTypes DEF Manifest
  <2>3. rcv'[t].pc = "asking"
    BY <2>2, DeliveryTypes DEF TakeOffer, ReceiverStates
  <2>4. toRcv'[t] = <<>>
    BY <1>1, <2>1, DeliveryTypes DEF Taken
  <2> QED BY <1>1, <1>2, <2>1, <2>3, <2>4 DEF InStep, Offered
<1>3. CASE snd[t].pc # "offered"
  <2>1. snd[t].pc \in {"declined", "failed"} \/ (snd[t].pc = "streaming" /\ Overrun(t))
    BY <1>1, <1>3, DeliveryTypes DEF InStep, SenderStates
  <2> QED BY <1>1, <2>1, NothingPromised
<1> QED BY <1>2, <1>3

\* The user answers: the answer is on its way to a sender that waits for it.
LEMMA AnswerInStep ==
  ASSUME DeliveryInv, NEW t \in Transfers, Accept(t) \/ Decline(t), faults = 0
  PROVE  InStep(t)'
<1>1. /\ rcv[t].pc = "asking" /\ UNCHANGED <<snd, manifest, toRcv>>
      /\ InStep(t) /\ Stage(t) /\ snd[t].pc # "idle"
  BY DeliveryTypes DEF Accept, Decline, sender, Stage
<1>2. CASE snd[t].pc = "offered"
  <2>1. Offered(t) /\ toRcv[t] = <<>> /\ answer[t] = "none" /\ rcv[t].file = 1
    BY <1>1, <1>2 DEF InStep, Offered, Stage
  <2>2. CASE Accept(t)
    <3>1. rcv'[t].pc = "receiving" /\ rcv'[t].file = 1 /\ answer'[t] = "accept"
      <4>1. /\ rcv' = [rcv EXCEPT ![t].pc = "receiving"]
            /\ answer' = [answer EXCEPT ![t] = "accept"]
        BY <1>2, <2>2 DEF Accept, SenderEnded
      <4> QED BY <2>1, <4>1, DeliveryTypes DEF ReceiverStates
    <3>2. staged'[t] = Staging(t)
      BY <2>2, DeliveryTypes DEF Accept
    <3> QED BY <1>1, <1>2, <2>1, <3>1, <3>2 DEF InStep, Offered, Staging
  <2>3. CASE Decline(t)
    <3>1. rcv'[t].pc = "declined" /\ answer'[t] = "reject"
      BY <2>3, DeliveryTypes DEF Decline, ReceiverStates
    <3> QED BY <1>1, <1>2, <2>1, <3>1 DEF InStep, Offered
  <2> QED BY <2>2, <2>3
<1>3. CASE snd[t].pc # "offered"
  <2>1. snd[t].pc \in {"declined", "failed"} \/ (snd[t].pc = "streaming" /\ Overrun(t))
    BY <1>1, <1>3, DeliveryTypes DEF InStep, SenderStates
  <2> QED BY <1>1, <2>1, NothingPromised
<1> QED BY <1>2, <1>3
\* The records after the first one come one place forward.
LEMMA RecordsTaken ==
  ASSUME DeliveryInv, NEW t \in Transfers, toRcv[t] # <<>>, Taken(t),
         snd' = snd, manifest' = manifest, NEW n \in Nat, n = Len(toRcv[t])
  PROVE  /\ n >= 1 /\ Head(toRcv[t]) = toRcv[t][1] /\ Len(toRcv'[t]) = n - 1
         /\ \A j \in 1 .. n - 1 : toRcv'[t][j] = toRcv[t][j + 1]
         /\ \A j \in 1 .. n : RecordAt(t, j)' = RecordAt(t, j + 1)
<1>1. toRcv[t] \in Seq(Records) /\ toRcv'[t] = Tail(toRcv[t])
  BY DeliveryTypes DEF Taken
<1>2. /\ n >= 1 /\ Head(toRcv[t]) = toRcv[t][1] /\ Len(toRcv'[t]) = n - 1
      /\ \A j \in 1 .. n - 1 : toRcv'[t][j] = toRcv[t][j + 1]
  BY <1>1
<1>3. SenderAt(t)' = SenderAt(t)
  BY DEF SenderAt, Place
<1>4. ASSUME NEW j \in 1 .. n PROVE RecordAt(t, j)' = RecordAt(t, j + 1)
  <2>1. CASE j = n
    <3>1. j > n - 1 /\ j + 1 > n
      BY <2>1
    <3> QED BY <1>2, <1>3, <3>1 DEF RecordAt
  <2>2. CASE j \in 1 .. n - 1
    <3>1. ~(j > n - 1) /\ ~(j + 1 > n)
      BY <2>2
    <3> QED BY <1>2, <2>2, <3>1 DEF RecordAt, EndPlace
  <2> QED BY <2>1, <2>2
<1> QED BY <1>2, <1>4

\* So every record but the first is still followed by the next.
LEMMA FollowsTaken ==
  ASSUME DeliveryInv, NEW t \in Transfers, toRcv[t] # <<>>, Taken(t),
         snd' = snd, manifest' = manifest, Stream(t)
  PROVE  /\ \A j \in 1 .. Len(toRcv'[t]) : Follows(t, j)'
         /\ InManifest(t)' /\ RecordAt(t, 1)' = RecordAt(t, 2)
         /\ Follows(t, 1) /\ Head(toRcv[t]) = toRcv[t][1]
         /\ Head(toRcv[t]).kind = "chunk" => Len(toRcv[t]) = Len(toRcv'[t]) + 1
         /\ snd[t].pc = "completed" /\ Head(toRcv[t]).kind = "chunk" =>
              toRcv'[t] # <<>> /\ toRcv'[t][Len(toRcv'[t])].kind = "finish"
<1>0. PICK n \in Nat : n = Len(toRcv[t])
  BY DeliveryTypes
<1>1. /\ n >= 1 /\ Head(toRcv[t]) = toRcv[t][1] /\ Len(toRcv'[t]) = n - 1
      /\ \A j \in 1 .. n - 1 : toRcv'[t][j] = toRcv[t][j + 1]
      /\ \A j \in 1 .. n : RecordAt(t, j)' = RecordAt(t, j + 1)
  BY <1>0, RecordsTaken
<1>2. \A j \in 1 .. n : Follows(t, j)
  BY <1>0 DEF Stream
<1>3. ASSUME NEW j \in 1 .. n - 1 PROVE Follows(t, j)'
  <2>1. j + 1 \in 1 .. n /\ j \in 1 .. n /\ (j + 1) + 1 = j + 2 /\ (j + 1 = n <=> j = n - 1)
    BY <1>1
  <2>2. Follows(t, j + 1) /\ toRcv'[t][j] = toRcv[t][j + 1]
    BY <1>1, <1>2, <2>1
  <2>3. RecordAt(t, j + 1)' = RecordAt(t, (j + 1) + 1)
    BY <1>1, <2>1
  <2> QED BY <1>0, <1>1, <2>1, <2>2, <2>3 DEF Follows, Place
<1>4. InManifest(t)'
  BY DEF Stream, InManifest, SizeOf
<1>5. RecordAt(t, 1)' = RecordAt(t, 2) /\ Follows(t, 1)
  <2>1. 1 \in 1 .. n /\ 1 + 1 = 2
    BY <1>1
  <2> QED BY <1>1, <1>2, <2>1
<1>6. ASSUME snd[t].pc = "completed", Head(toRcv[t]).kind = "chunk"
      PROVE  toRcv'[t] # <<>> /\ toRcv'[t][Len(toRcv'[t])].kind = "finish"
  <2>1. toRcv[t][n].kind = "finish"
    BY <1>0, <1>6 DEF Stream
  <2>2. n # 1
    BY <1>1, <1>6, <2>1
  <2>3. n - 1 \in 1 .. n - 1 /\ (n - 1) + 1 = n
    BY <1>1, <2>2
  <2> QED BY <1>1, <2>1, <2>3
<1> QED BY <1>0, <1>1, <1>3, <1>4, <1>5, <1>6

\* A chunk that arrives is the one the receiver waits for.
LEMMA TakeChunkInStep ==
  ASSUME DeliveryInv, NEW t \in Transfers, TakeChunk(t), faults = 0
  PROVE  InStep(t)'
<1>1. /\ rcv[t].pc = "receiving" /\ toRcv[t] # <<>> /\ Head(toRcv[t]).kind = "chunk"
      /\ Taken(t) /\ UNCHANGED <<snd, manifest, answer>>
      /\ InStep(t) /\ Stage(t) /\ snd[t].pc # "idle"
  BY DeliveryTypes, TakenKeeps DEF TakeChunk, Arrives, sender
<1>2. CASE ~(snd[t].pc \in {"streaming", "completed"} /\ Stream(t))
  <2>1. snd[t].pc # "offered"
    BY <1>1 DEF InStep, Offered
  <2>2. snd[t].pc \in {"declined", "failed"} \/ (snd[t].pc = "streaming" /\ Overrun(t))
    BY <1>1, <1>2, <2>1, DeliveryTypes DEF InStep, SenderStates
  <2> QED BY <1>1, <2>2, NothingPromised
<1>3. CASE snd[t].pc \in {"streaming", "completed"} /\ Stream(t)
  <2>0. PICK f \in Nat, g \in Nat : f = rcv[t].file /\ g = toRcv[t][1].at
    <3>1. toRcv[t] \in Seq(Records)
      BY DeliveryTypes
    <3>2. toRcv[t][1] \in Records /\ toRcv[t][1] = Head(toRcv[t])
      BY <1>1, <3>1
    <3> QED BY <1>1, <3>2, DeliveryTypes DEF Records
  <2>1. /\ \A j \in 1 .. Len(toRcv'[t]) : Follows(t, j)'
        /\ InManifest(t)' /\ RecordAt(t, 1)' = RecordAt(t, 2)
        /\ Follows(t, 1) /\ Head(toRcv[t]) = toRcv[t][1]
        /\ snd[t].pc = "completed" =>
             toRcv'[t] # <<>> /\ toRcv'[t][Len(toRcv'[t])].kind = "finish"
    BY <1>1, <1>3, FollowsTaken
  <2>2. RecordAt(t, 1) = <<toRcv[t][1].file, g>> /\ Len(toRcv[t]) >= 1
    <3>1. Len(toRcv[t]) >= 1
      BY <1>1, DeliveryTypes
    <3>2. ~(1 > Len(toRcv[t]))
      BY <3>1, DeliveryTypes
    <3> QED BY <1>1, <2>0, <2>1, <3>1, <3>2 DEF RecordAt
  <2>3. /\ toRcv[t][1].file \in 1 .. Len(manifest[t])
        /\ g < manifest[t][toRcv[t][1].file].size
        /\ RecordAt(t, 1 + 1) = Place(t, toRcv[t][1].file, g + 1)
    BY <1>1, <2>0, <2>1 DEF Follows
  <2>4. ReceiverAt(t) = <<toRcv[t][1].file, g>>
    BY <1>3, <2>2 DEF Stream
  <2>5. f = toRcv[t][1].file /\ f \in 1 .. Len(manifest[t]) /\ g = staged[t][f]
        /\ f <= Len(manifest[t]) /\ g < manifest[t][f].size
    <3>1. f = toRcv[t][1].file
      BY <2>0, <2>4 DEF ReceiverAt
    <3>2. f <= Len(manifest[t])
      BY <2>3, <3>1, DeliveryTypes
    <3> QED BY <2>0, <2>3, <2>4, <3>1, <3>2 DEF ReceiverAt
  <2>6. staged' = [staged EXCEPT ![t][f] = g + 1]
        /\ rcv' = [rcv EXCEPT ![t] = IF g + 1 = manifest[t][f].size THEN CloseFile(t) ELSE @]
    BY <2>0, <2>1, <2>5 DEF TakeChunk
  <2>7. DOMAIN staged[t] = 1 .. Len(manifest[t]) /\ DOMAIN manifest[t] = 1 .. Len(manifest[t])
    <3>1. Len(staged[t]) = Len(manifest[t]) /\ staged[t] \in Seq(Nat)
      BY <1>1, DeliveryTypes DEF Stage
    <3> QED BY <3>1, DeliveryTypes
  <2>8. staged'[t][f] = g + 1 /\ \A i \in 1 .. Len(manifest[t]) : i # f => staged'[t][i] = staged[t][i]
    BY <2>5, <2>6, <2>7, DeliveryTypes
  <2>9. \A i \in 1 .. Len(manifest[t]) : i > f => staged[t][i] = 0
    BY <1>3, <2>0, <2>7 DEF Stream
  <2>10. RecordAt(t, 1)' = Place(t, f, g + 1)
    BY <2>1, <2>3, <2>5
  <2>11. CASE g + 1 = manifest[t][f].size
    <3>1. rcv' = [rcv EXCEPT ![t] = [rcv[t] EXCEPT !.file = f + 1]]
      BY <2>0, <2>6, <2>11 DEF CloseFile
    <3>2. rcv'[t].pc = "receiving" /\ rcv'[t].file = f + 1
      BY <1>1, <3>1, DeliveryTypes DEF ReceiverStates
    <3>3. Place(t, f, g + 1) = <<f + 1, 0>>
      BY <2>5, <2>11 DEF Place
    <3>4. \A i \in 1 .. Len(manifest[t]) : i >= f + 1 => staged'[t][i] = 0
      BY <2>8, <2>9
    <3>5. ReceiverAt(t)' = <<f + 1, 0>>
      <4>1. f + 1 <= Len(manifest[t]) => f + 1 \in 1 .. Len(manifest[t]) /\ f + 1 >= f + 1
        BY DeliveryTypes
      <4> QED BY <1>1, <3>2, <3>4, <4>1 DEF ReceiverAt
    <3>6. \A i \in DOMAIN manifest'[t] : i > rcv'[t].file => staged'[t][i] = 0
      BY <1>1, <2>7, <3>2, <3>4
    <3>7. Stream(t)'
      BY <1>1, <1>3, <2>1, <2>10, <3>3, <3>5, <3>6 DEF Stream
    <3> QED BY <1>1, <1>3, <3>2, <3>7 DEF InStep
  <2>12. CASE g + 1 # manifest[t][f].size
    <3>1. rcv'[t] = rcv[t]
      BY <2>6, <2>12, DeliveryTypes
    <3>2. Place(t, f, g + 1) = <<f, g + 1>>
      BY <2>5, <2>12 DEF Place
    <3>3. ReceiverAt(t)' = <<f, g + 1>>
      BY <1>1, <2>0, <2>5, <2>8, <3>1 DEF ReceiverAt
    <3>4. \A i \in DOMAIN manifest'[t] : i > rcv'[t].file => staged'[t][i] = 0
      BY <1>1, <2>0, <2>7, <2>8, <2>9, <3>1
    <3>5. Stream(t)'
      BY <1>1, <1>3, <2>1, <2>10, <3>2, <3>3, <3>4 DEF Stream
    <3> QED BY <1>1, <1>3, <3>1, <3>5 DEF InStep
  <2> QED BY <2>11, <2>12
<1> QED BY <1>2, <1>3
\* The end of a transfer arrives when every file is whole.
LEMMA TakeFinishInStep ==
  ASSUME DeliveryInv, NEW t \in Transfers, TakeFinish(t), faults = 0
  PROVE  InStep(t)'
<1>1. /\ rcv[t].pc = "receiving" /\ toRcv[t] # <<>> /\ Head(toRcv[t]).kind = "finish"
      /\ Taken(t) /\ UNCHANGED <<snd, manifest, staged, answer>>
      /\ InStep(t) /\ Stage(t) /\ snd[t].pc # "idle"
  BY DeliveryTypes, TakenKeeps DEF TakeFinish, Arrives, sender
<1>2. CASE ~(snd[t].pc \in {"streaming", "completed"} /\ Stream(t))
  <2>1. snd[t].pc # "offered"
    BY <1>1 DEF InStep, Offered
  <2>2. snd[t].pc \in {"declined", "failed"} \/ (snd[t].pc = "streaming" /\ Overrun(t))
    BY <1>1, <1>2, <2>1, DeliveryTypes DEF InStep, SenderStates
  <2> QED BY <1>1, <2>2, NothingPromised
<1>3. CASE snd[t].pc \in {"streaming", "completed"} /\ Stream(t)
  <2>1. Follows(t, 1) /\ toRcv[t][1].kind = "finish"
    BY <1>1, <1>3, FollowsTaken
  <2>2. snd[t].pc = "completed" /\ Len(toRcv[t]) = 1
    BY <2>1 DEF Follows
  <2>3. RecordAt(t, 1) = EndPlace(t)
    <3>1. ~(1 > Len(toRcv[t]))
      BY <2>2
    <3> QED BY <2>1, <3>1 DEF RecordAt
  <2>4. rcv[t].file = Len(manifest[t]) + 1
    BY <1>3, <2>3 DEF Stream, ReceiverAt, EndPlace
  <2>5. staged[t] = [i \in DOMAIN manifest[t] |-> manifest[t][i].size]
    <3>1. staged[t] \in Seq(Nat) /\ Len(staged[t]) = Len(manifest[t])
      BY <1>1, DeliveryTypes DEF Stage
    <3>2. \A i \in 1 .. Len(manifest[t]) : staged[t][i] = manifest[t][i].size
      <4>1. \A i \in 1 .. Len(manifest[t]) : i < Len(manifest[t]) + 1
        BY DeliveryTypes
      <4> QED BY <1>1, <2>4, <4>1, DeliveryTypes DEF Stage
    <3>3. DOMAIN manifest[t] = 1 .. Len(manifest[t])
      BY DeliveryTypes
    <3>4. staged[t] = [i \in 1 .. Len(staged[t]) |-> staged[t][i]]
      BY <3>1
    <3> QED BY <3>1, <3>2, <3>3, <3>4
  <2>6. Whole(t)
    BY <2>4, <2>5 DEF Whole, TotalSize
  <2>7. rcv'[t].pc = "publishing"
    BY <2>6, DeliveryTypes DEF TakeFinish
  <2> QED BY <1>1, <2>2, <2>7 DEF InStep
<1> QED BY <1>2, <1>3

\* The connection is not closed on a receiver that the sender counts on.
LEMMA PeerClosedInStep ==
  ASSUME DeliveryInv, NEW t \in Transfers, PeerClosed(t), faults = 0
  PROVE  InStep(t)'
<1>1. /\ rcv[t].pc \in {"listening", "receiving"} /\ toRcv[t] = <<>>
      /\ snd[t].pc \in {"completed", "declined", "failed"}
      /\ UNCHANGED <<snd, manifest>> /\ InStep(t)
  BY DeliveryTypes DEF PeerClosed, SenderEnded, sender
<1>2. snd[t].pc # "completed"
  BY <1>1 DEF InStep, Stream
<1> QED BY <1>1, <1>2, NothingPromised

\* The steps of a receiver before it publishes.
LEMMA ReceiverDelivers ==
  ASSUME DeliveryInv, TransferInv', NEW t \in Transfers,
         TakeOffer(t) \/ TakeChunk(t) \/ TakeFinish(t) \/ PeerClosed(t) \/ Accept(t) \/ Decline(t)
  PROVE  DeliveryInv'
<1>1. FolderInv' /\ Picked(t)' /\ Manifest(t)' /\ Step(t)
  BY ReceiverLeaves
<1>2. ASSUME faults' = 0 PROVE InStep(t)'
  <2>1. faults = 0
    BY <1>1, <1>2, FaultsGrow, DeliveryTypes
  <2> QED BY <2>1, TakeOfferInStep, TakeChunkInStep, TakeFinishInStep, PeerClosedInStep,
             AnswerInStep
<1> QED BY <1>1, <1>2, OneTransfer

\* A receiver that publishes goes on to, or has ended.
LEMMA PublishingInStep ==
  ASSUME DeliveryInv, NEW t \in Transfers, rcv[t].pc = "publishing", faults = 0,
         rcv'[t].pc \in {"publishing", "done"}, snd' = snd, manifest' = manifest
  PROVE  InStep(t)'
<1>1. InStep(t) /\ snd[t].pc # "idle" /\ snd[t].pc # "offered"
  BY DeliveryTypes, Begun DEF InStep, Offered
<1>2. CASE snd[t].pc = "completed"
  BY <1>2 DEF InStep
<1>3. CASE snd[t].pc # "completed"
  <2>1. snd[t].pc \in {"declined", "failed"} \/ (snd[t].pc = "streaming" /\ Overrun(t))
    BY <1>1, <1>3, DeliveryTypes DEF InStep, SenderStates
  <2> QED BY <2>1, NothingPromised
<1> QED BY <1>2, <1>3

\* There is always a path to pick.
LEMMA ChoosePathDelivers ==
  ASSUME EnoughPaths, DeliveryInv, TransferInv', NEW t \in Transfers, ChoosePath(t)
  PROVE  DeliveryInv'
<1>1. /\ rcv[t].pc = "publishing" /\ FirstFree(Name(t)) # {}
      /\ UNCHANGED <<snd, manifest, folder, published, faults>>
  BY NameLasts DEF ChoosePath, sender
<1>2. PICK p \in FirstFree(Name(t)) : chosen' = [chosen EXCEPT ![t] = p] /\ UNCHANGED rcv
  BY <1>1 DEF ChoosePath
<1>3. Step(t) /\ FolderInv'
  BY <1>1, <1>2, FolderStays DEF Step, Receiver
<1>4. Manifest(t)'
  BY <1>1, DeliveryTypes DEF Manifest
<1>5. Picked(t)'
  <2>1. p[1] = Name(t) /\ chosen'[t] = p
    BY <1>2, DeliveryTypes DEF FirstFree
  <2> QED BY <1>1, <1>2, <2>1 DEF Picked, Name
<1>6. faults' = 0 => InStep(t)'
  BY <1>1, <1>2, PublishingInStep
<1> QED BY <1>3, <1>4, <1>5, <1>6, OneTransfer

\* A file is published under a path of its name, once.
LEMMA PublishDelivers ==
  ASSUME DeliveryInv, TransferInv', NEW t \in Transfers, Publish(t)
  PROVE  DeliveryInv'
<1>0. PICK i \in Nat : i = rcv[t].file
  BY DeliveryTypes
<1> DEFINE f == <<t, i>>
<1>1. /\ rcv[t].pc = "publishing" /\ chosen[t] # NoPath
      /\ folder' = [folder EXCEPT ![chosen[t]] = f] /\ published' = published \cup {f}
      /\ chosen' = [chosen EXCEPT ![t] = NoPath]
      /\ rcv' = [rcv EXCEPT ![t] = [pc |-> IF i = Len(manifest[t]) THEN "done" ELSE rcv[t].pc,
                                    file |-> i + 1]]
      /\ UNCHANGED <<snd, manifest, staged, toRcv, answer, faults>>
  BY <1>0, DeliveryTypes DEF Publish, sender
<1>2. PICK c \in Paths : c = chosen[t] /\ c[1] = manifest[t][i].name
  <2>1. chosen[t] \in Paths /\ chosen[t][1] = Name(t)
    BY <1>1, DeliveryTypes DEF Picked
  <2> QED BY <1>0, <2>1 DEF Name
<1>3. i \in DOMAIN manifest[t]
  BY <1>0, <1>1, DeliveryTypes DEF Stage
<1>4. rcv'[t].pc \in {"publishing", "done"} /\ rcv'[t].file = i + 1
  BY <1>1, DeliveryTypes
<1>5. folder'[c] = f /\ \A p \in Paths : p # c => folder'[p] = folder[p]
  BY <1>1, <1>2 DEF DeliveryInv, TransferInv, TypeOK
<1>6. Step(t)
  BY DEF Step, Receiver
<1>7. Manifest(t)' /\ Picked(t)'
  <2>1. chosen'[t] = NoPath
    BY <1>1, DeliveryTypes
  <2> QED BY <1>1, <2>1, DeliveryTypes DEF Manifest, Picked
<1>8. ASSUME NEW p \in Paths PROVE Owned(p)'
  <2>1. CASE p = c
    <3>1. /\ folder'[p] = <<t, i>> /\ <<t, i>> \in published'
          /\ i \in DOMAIN manifest'[t] /\ manifest'[t][i].name = p[1] /\ i < rcv'[t].file
      BY <1>1, <1>2, <1>3, <1>4, <1>5, <2>1
    <3> QED BY <3>1 DEF Owned
  <2>2. CASE p # c
    <3>1. folder'[p] = folder[p] /\ Owned(p)
      BY <1>5, <2>2 DEF DeliveryInv, FolderInv
    <3>2. ASSUME NEW u \in Transfers PROVE rcv[u].file <= rcv'[u].file /\ rcv'[u].file \in Nat /\ rcv[u].file \in Nat
      <4>1. rcv[u].file \in Nat /\ TransferInv
        BY DeliveryTypes
      <4>2. u # t => rcv'[u] = rcv[u]
        BY <1>6, <4>1, OthersSame
      <4> QED BY <1>0, <1>4, <4>1, <4>2
    <3>3. CASE \E u \in Transfers : \E j \in DOMAIN manifest[u] :
                 /\ folder[p] = <<u, j>> /\ <<u, j>> \in published
                 /\ manifest[u][j].name = p[1] /\ j < rcv[u].file
      <4>1. PICK u \in Transfers : \E j \in DOMAIN manifest[u] :
                 /\ folder[p] = <<u, j>> /\ <<u, j>> \in published
                 /\ manifest[u][j].name = p[1] /\ j < rcv[u].file
        BY <3>3
      <4>2. PICK j \in DOMAIN manifest[u] :
                 /\ folder[p] = <<u, j>> /\ <<u, j>> \in published
                 /\ manifest[u][j].name = p[1] /\ j < rcv[u].file
        BY <4>1
      <4>3. j < rcv'[u].file
        BY <3>2, <4>2, DeliveryTypes
      <4> QED BY <1>1, <3>1, <4>2, <4>3 DEF Owned
    <3> QED BY <3>1, <3>3 DEF Owned
  <2> QED BY <2>1, <2>2
<1>9. \A p \in Paths : folder[p] # f
  <2> SUFFICES ASSUME NEW p \in Paths, folder[p] = f PROVE FALSE
    OBVIOUS
  <2>1. f # Free /\ f # UserFile
    BY FileTransferAssumption DEF Free, UserFile
  <2>2. PICK u \in Transfers : \E j \in DOMAIN manifest[u] :
          f = <<u, j>> /\ j < rcv[u].file
    <3>1. Owned(p)
      BY DEF DeliveryInv, FolderInv
    <3>2. folder[p] # Free /\ folder[p] # UserFile /\ folder[p] = f
      BY <2>1
    <3> HIDE DEF f
    <3> QED BY <3>1, <3>2 DEF Owned
  <2>3. i < rcv[t].file
    BY <2>2
  <2> QED BY <1>0, <2>3
<1>10. FolderInv'
  <2>1. ASSUME NEW p \in Paths, NEW q \in Paths, folder'[p] = folder'[q],
               folder'[p] \notin {Free, UserFile}
        PROVE  p = q
    BY <1>5, <1>9, <2>1 DEF DeliveryInv, FolderInv
  <2> QED BY <1>8, <2>1 DEF FolderInv
<1>11. faults' = 0 => InStep(t)'
  BY <1>1, <1>4, PublishingInStep
<1> QED BY <1>6, <1>7, <1>10, <1>11, OneTransfer

\* A file operation fails: a fault.
LEMMA DiskFailsDelivers ==
  ASSUME DeliveryInv, TransferInv', NEW t \in Transfers, DiskFails(t)
  PROVE  DeliveryInv'
<1>1. /\ UNCHANGED <<snd, manifest, folder, published>>
      /\ rcv' = [rcv EXCEPT ![t].pc = "failed"] /\ chosen' = [chosen EXCEPT ![t] = NoPath]
  BY DEF DiskFails, Fails, sender
<1>2. rcv'[t].file = rcv[t].file /\ chosen'[t] = NoPath
  BY <1>1, DeliveryTypes DEF ReceiverStates
<1>3. Step(t) /\ FolderInv'
  BY <1>1, <1>2, FolderStays DEF Step
<1>4. Manifest(t)' /\ Picked(t)'
  BY <1>1, <1>2, DeliveryTypes DEF Manifest, Picked
<1>5. faults' # 0
  BY <1>3, FaultsGrow, DeliveryTypes
<1> QED BY <1>3, <1>4, <1>5, OneTransfer

-----------------------------------------------------------------------------

\* It holds at the start.
LEMMA DeliveryInit == Init => DeliveryInv
<1> SUFFICES ASSUME Init PROVE DeliveryInv
  OBVIOUS
<1>1. \A t \in Transfers : Manifest(t) /\ Picked(t) /\ InStep(t)
  BY DEF Init, Manifest, Picked, InStep
<1>2. \A p \in Paths : folder[p] \in {Free, UserFile} /\ Owned(p)
  BY DEF Init, Owned
<1> QED BY <1>1, <1>2, TransferInit DEF DeliveryInv, FolderInv

\* Every step keeps it.
LEMMA DeliveryNext ==
  ASSUME NoEmptyFiles, EnoughPaths
  PROVE  DeliveryInv /\ [Next]_vars => DeliveryInv'
<1> SUFFICES ASSUME DeliveryInv, [Next]_vars PROVE DeliveryInv'
  OBVIOUS
<1>0. TransferInv'
  BY TransferNext DEF DeliveryInv
<1>1. CASE UNCHANGED vars
  <2>1. \A t \in Transfers : /\ Manifest(t)' /\ Picked(t)'
                             /\ faults' = 0 => InStep(t)'
    BY <1>1, OthersStand, OthersInStep DEF vars, DeliveryInv
  <2>2. FolderInv'
    BY <1>1 DEF vars, DeliveryInv, FolderInv, Owned
  <2> QED BY <1>0, <2>1, <2>2 DEF DeliveryInv
<1>2. CASE Next
  <2>1. PICK t \in Transfers :
          \/ \E q \in Requests : Offer(t, q)
          \/ Sender(t) \/ Receiver(t)
          \/ Accept(t) \/ Decline(t)
          \/ Lose(t) \/ DiskFails(t)
    BY <1>2 DEF Next
  <2> QED BY <1>0, <2>1, OfferDelivers, SenderDelivers, LoseDelivers, ReceiverDelivers,
             ChoosePathDelivers, PublishDelivers, DiskFailsDelivers DEF Receiver
<1> QED BY <1>1, <1>2

\* A sender that reports success is right, when nothing fails: its receiver is
\* never one that refused the files, however the records and the other
\* transfers interleave and however files change while they are read
\* (clipboard.rs:485, 782-946, 1515-1580).  It takes that no file is empty (the
\* receiver leaves a file only with a chunk of it, clipboard.rs:892-907) and that the 9999 paths tried for a
\* name are not all taken (clipboard.rs:1570).
THEOREM CompletedIsRight ==
  ASSUME NoEmptyFiles, EnoughPaths
  PROVE  Spec => []CompletedIsPublished
<1>1. DeliveryInv => CompletedIsPublished
  <2> SUFFICES ASSUME DeliveryInv, NEW t \in Transfers, snd[t].pc = "completed", faults = 0
               PROVE  rcv[t].pc # "failed"
    BY DEF CompletedIsPublished
  <2> QED BY DeliveryTypes DEF InStep
<1> QED BY <1>1, DeliveryInit, DeliveryNext, PTL DEF Spec
=============================================================================
