----------------------------- MODULE FileTransfer -----------------------------
(***************************************************************************)
(* Explicit file transfers (src/clipboard.rs): a short-lived `send-files`  *)
(* process offers files on a connection of its own; a listener thread of   *)
(* the receiving desktop asks its user, stages the files and publishes     *)
(* them in the folder Downloads/CachyBridge that all its threads share.    *)
(*                                                                         *)
(* Sizes are counted in the chunks a file is read and sent in.  Transfer   *)
(* identifiers are random and a connection carries one transfer, so        *)
(* records carry none.  The status file for the tray is left out.          *)
(***************************************************************************)
EXTENDS Integers, Sequences

CONSTANTS
  Transfers,    \* connections that may carry a file offer
  Requests,     \* path lists a user may ask to send: sequences of
                \* [name, size, regular]
  Names,        \* the names that occur in them
  MaxCount,     \* MAX_FILE_COUNT
  MaxTotal,     \* MAX_FILE_TRANSFER_BYTES, in chunks
  MaxIndex,     \* paths tried for a name: the name itself, "name (2)", ...
  Existing,     \* paths the user's own files take in the folder
  Window,       \* records one direction of a connection holds
  FilesChange,  \* TRUE: files may grow or shrink while they are read
  MaxFaults     \* bound on lost connections and failing file operations

FileInfo == [name : Names, size : Nat, regular : BOOLEAN]
Paths == Names \X (1..MaxIndex)
Free == <<"free", 0>>
UserFile == <<"user", 0>>
NoPath == <<"none", 0>>

ASSUME FileTransferAssumption ==
  /\ \A q \in Requests : q \in Seq(FileInfo)
  /\ Existing \subseteq Paths
  /\ Free[1] \notin Transfers /\ UserFile[1] \notin Transfers
  /\ MaxCount \in Nat /\ MaxTotal \in Nat /\ MaxIndex \in Nat \ {0}
  /\ Window \in Nat \ {0} /\ FilesChange \in BOOLEAN /\ MaxFaults \in Nat

VARIABLES
  snd,        \* sender process: its state, the file it reads, chunks sent of it
  rcv,        \* receiver thread: its state and the file it receives or publishes
  manifest,   \* the offered files
  staged,     \* chunks in the staging directory, per file
  toRcv,      \* records on their way to the receiver
  answer,     \* the decision on its way to the sender
  folder,     \* Downloads/CachyBridge: path -> free, the user's, or <<t, file>>
  chosen,     \* the path picked for the file published next
  published,  \* history: the files whose rename succeeded
  raced,      \* history: two threads held the same picked path at a time
  faults

sender == <<snd, manifest>>
disk == <<folder, chosen, published, raced>>
vars == <<snd, rcv, manifest, staged, toRcv, answer, folder, chosen, published,
          raced, faults>>

SenderEnded(t) == snd[t].pc \in {"completed", "declined", "failed"}
ReceiverEnded(t) == rcv[t].pc \in {"done", "declined", "failed"}

Init ==
  /\ snd = [t \in Transfers |-> [pc |-> "idle", file |-> 1, sent |-> 0]]
  /\ rcv = [t \in Transfers |-> [pc |-> "listening", file |-> 1]]
  /\ manifest = [t \in Transfers |-> <<>>]
  /\ staged = [t \in Transfers |-> <<>>]
  /\ toRcv = [t \in Transfers |-> <<>>]
  /\ answer = [t \in Transfers |-> "none"]
  /\ folder = [p \in Paths |-> IF p \in Existing THEN UserFile ELSE Free]
  /\ chosen = [t \in Transfers |-> NoPath]
  /\ published = {}
  /\ raced = FALSE
  /\ faults = 0

-----------------------------------------------------------------------------
(* The sender process *)

Sum(s) ==
  LET sum[i \in 0..Len(s)] == IF i = 0 THEN 0 ELSE sum[i - 1] + s[i]
  IN  sum[Len(s)]

TotalSize(fs) == Sum([i \in DOMAIN fs |-> fs[i].size])

\* file_selection_from_paths leaves out what is not a regular file and refuses
\* an empty, too long or too large list and two equal names; decode_file_start
\* refuses the same lists in an offer.
Regular(q) == SelectSeq(q, LAMBDA f : f.regular)

ASSUME RegularAssumption == \A q \in Requests : Regular(q) \in Seq(FileInfo)

Acceptable(fs) ==
  /\ Len(fs) \in 1..MaxCount
  /\ TotalSize(fs) <= MaxTotal
  /\ \A i, j \in DOMAIN fs : fs[i].name = fs[j].name => i = j

\* send_files: the offer, or an error before anything is sent.
Offer(t, q) ==
  /\ snd[t].pc = "idle"
  /\ IF Acceptable(Regular(q))
     THEN /\ snd' = [snd EXCEPT ![t].pc = "offered"]
          /\ manifest' = [manifest EXCEPT ![t] = Regular(q)]
          /\ toRcv' = [toRcv EXCEPT ![t] = <<[kind |-> "start"]>>]
     ELSE /\ snd' = [snd EXCEPT ![t].pc = "failed"]
          /\ UNCHANGED <<manifest, toRcv>>
  /\ UNCHANGED <<rcv, staged, answer, disk, faults>>

\* wait_for_file_approval reads the decision.
ReadDecision(t) ==
  /\ snd[t].pc = "offered" /\ answer[t] # "none"
  /\ snd' = [snd EXCEPT ![t].pc = IF answer[t] = "accept" THEN "streaming"
                                                          ELSE "declined"]
  /\ answer' = [answer EXCEPT ![t] = "none"]
  /\ UNCHANGED <<rcv, manifest, staged, toRcv, disk, faults>>

\* mutant: the offer has no deadline
WaitForPeer(t) ==
  /\ snd[t].pc \in {"offered", "streaming"} /\ ReceiverEnded(t)
  /\ answer[t] = "none"
  /\ snd' = [snd EXCEPT ![t].pc = "failed"]
  /\ UNCHANGED <<rcv, manifest, staged, toRcv, answer, disk, faults>>

\* No answer within two minutes, or the other end of the connection is gone.
GiveUp(t) ==
  /\ \/ snd[t].pc = "offered" /\ answer[t] = "none"
     \/ snd[t].pc = "streaming" /\ ReceiverEnded(t)
  /\ snd' = [snd EXCEPT ![t].pc = "failed"]
  /\ UNCHANGED <<rcv, manifest, staged, toRcv, answer, disk, faults>>

Reading(t) == snd[t].pc = "streaming" /\ snd[t].file <= Len(manifest[t])
SizeOf(t) == manifest[t][snd[t].file].size

\* One chunk read and sent; a file that grows has one more than was offered.
SendChunk(t) ==
  /\ Reading(t) /\ Len(toRcv[t]) < Window
  /\ snd[t].sent < SizeOf(t) + (IF FilesChange THEN 1 ELSE 0)
  /\ toRcv' = [toRcv EXCEPT
       ![t] = Append(@, [kind |-> "chunk", file |-> snd[t].file, at |-> snd[t].sent])]
  /\ snd' = [snd EXCEPT ![t].sent = @ + 1]
  /\ UNCHANGED <<rcv, manifest, staged, answer, disk, faults>>

\* mutant: the size of the file is not compared with the offer
SizeUnchecked(t) == TRUE

\* The file that was read is the one that was offered.
SizeMatches(t) == snd[t].sent = SizeOf(t)

\* End of file: on to the next one, unless its size is not the offered one.
EndOfFile(t) ==
  /\ Reading(t)
  /\ FilesChange \/ snd[t].sent = SizeOf(t)
  /\ snd' = IF SizeMatches(t)
            THEN [snd EXCEPT ![t] = [pc |-> "streaming", file |-> snd[t].file + 1, sent |-> 0]]
            ELSE [snd EXCEPT ![t].pc = "failed"]
  /\ UNCHANGED <<rcv, manifest, staged, toRcv, answer, disk, faults>>

\* The finish record; nothing acknowledges it, the sender reports success.
SendFinish(t) ==
  /\ snd[t].pc = "streaming" /\ snd[t].file = Len(manifest[t]) + 1
  /\ Len(toRcv[t]) < Window
  /\ toRcv' = [toRcv EXCEPT ![t] = Append(@, [kind |-> "finish"])]
  /\ snd' = [snd EXCEPT ![t].pc = "completed"]
  /\ UNCHANGED <<rcv, manifest, staged, answer, disk, faults>>

\* The connection is lost with what was under way in both directions.
Lose(t) ==
  /\ faults < MaxFaults /\ snd[t].pc \notin {"idle", "failed"}
  /\ faults' = faults + 1
  /\ snd' = [snd EXCEPT ![t].pc = IF SenderEnded(t) THEN @ ELSE "failed"]
  /\ toRcv' = [toRcv EXCEPT ![t] = <<>>]
  /\ answer' = [answer EXCEPT ![t] = "none"]
  /\ UNCHANGED <<rcv, manifest, staged, disk>>

-----------------------------------------------------------------------------
(* The receiver thread *)

Arrives(t, kind) == toRcv[t] # <<>> /\ Head(toRcv[t]).kind = kind
Taken(t) == toRcv' = [toRcv EXCEPT ![t] = Tail(@)]
Fails(t) == rcv' = [rcv EXCEPT ![t].pc = "failed"]

\* The first record of the connection is an offer: the user is asked.
TakeOffer(t) ==
  /\ rcv[t].pc = "listening" /\ Arrives(t, "start")
  /\ Taken(t)
  /\ IF Acceptable(manifest[t]) THEN rcv' = [rcv EXCEPT ![t].pc = "asking"]
                                ELSE Fails(t)
  /\ UNCHANGED <<sender, staged, answer, disk, faults>>

\* mutant: a staging file too many
StagingFromZero(t) == [i \in 0..Len(manifest[t]) |-> 0]

\* An empty staging file for each file of the manifest.
Staging(t) == [i \in DOMAIN manifest[t] |-> 0]

\* The user accepts: the staging directory is filled, then the answer
\* sent.  The sender may have given up meanwhile.
Accept(t) ==
  /\ rcv[t].pc = "asking"
  /\ staged' = [staged EXCEPT ![t] = Staging(t)]
  /\ \/ /\ rcv' = [rcv EXCEPT ![t].pc = "receiving"]
        /\ answer' = [answer EXCEPT ![t] = "accept"]
     \/ /\ SenderEnded(t)
        /\ Fails(t)
        /\ UNCHANGED answer
  /\ UNCHANGED <<sender, toRcv, disk, faults>>

Decline(t) ==
  /\ rcv[t].pc = "asking"
  /\ rcv' = [rcv EXCEPT ![t].pc = "declined"]
  /\ answer' = [answer EXCEPT ![t] = "reject"]
  /\ UNCHANGED <<sender, staged, toRcv, disk, faults>>

\* mutant: a whole file is published without waiting for the rest
PublishEarly(t) == [pc |-> "publishing", file |-> 1]

\* A file that is whole is closed; the thread goes on with the next one.
CloseFile(t) == [rcv[t] EXCEPT !.file = @ + 1]

\* A chunk must be the next one of the current file and fit it.  A file that
\* is whole is closed with the chunk that completes it, and only then.
TakeChunk(t) ==
  LET r    == Head(toRcv[t])
      file == rcv[t].file
      got  == staged[t][file]
      size == manifest[t][file].size
  IN
  /\ rcv[t].pc = "receiving" /\ Arrives(t, "chunk")
  /\ Taken(t)
  /\ IF r.file = file /\ file <= Len(manifest[t]) /\ r.at = got /\ got < size
     THEN /\ staged' = [staged EXCEPT ![t][file] = got + 1]
          /\ rcv' = [rcv EXCEPT ![t] = IF got + 1 = size THEN CloseFile(t) ELSE @]
     ELSE Fails(t) /\ UNCHANGED staged
  /\ UNCHANGED <<sender, answer, disk, faults>>

\* Every file has been closed and every byte is there.
Whole(t) ==
  /\ rcv[t].file = Len(manifest[t]) + 1
  /\ Sum(staged[t]) = TotalSize(manifest[t])

TakeFinish(t) ==
  /\ rcv[t].pc = "receiving" /\ Arrives(t, "finish")
  /\ Taken(t)
  /\ IF Whole(t) THEN rcv' = [rcv EXCEPT ![t] = [pc |-> "publishing", file |-> 1]]
                 ELSE Fails(t)
  /\ UNCHANGED <<sender, staged, answer, disk, faults>>

\* The connection ends with nothing left to read; the staging directory stays.
PeerClosed(t) ==
  /\ rcv[t].pc \in {"listening", "receiving"}
  /\ toRcv[t] = <<>> /\ SenderEnded(t)
  /\ Fails(t)
  /\ UNCHANGED <<sender, staged, toRcv, answer, disk, faults>>

Name(t) == manifest[t][rcv[t].file].name

\* mutant: the name is taken whether it is free or not
FirstFreeUnchecked(n) == {<<n, 1>>}

\* unique_destination_path: the first of the name's paths that does not exist.
FirstFree(n) ==
  {p \in {n} \X (1..MaxIndex) :
     folder[p] = Free /\ \A k \in 1..(p[2] - 1) : folder[<<n, k>>] # Free}

\* finish_received_files picks a path and then renames: two steps, and another
\* receiver thread may pick between them.
ChoosePath(t) ==
  /\ rcv[t].pc = "publishing" /\ chosen[t] = NoPath
  /\ IF FirstFree(Name(t)) = {}
     THEN Fails(t) /\ UNCHANGED <<chosen, raced>>
     ELSE \E p \in FirstFree(Name(t)) :
            /\ chosen' = [chosen EXCEPT ![t] = p]
            /\ raced' = (raced \/ \E u \in Transfers : chosen[u] = p)
            /\ UNCHANGED rcv
  /\ UNCHANGED <<sender, staged, toRcv, answer, folder, published, faults>>

\* rename replaces whatever is at the path; after the last file the selection
\* is put on the desktop and the thread ends.
Publish(t) ==
  LET file == rcv[t].file IN
  /\ rcv[t].pc = "publishing" /\ chosen[t] # NoPath
  /\ folder' = [folder EXCEPT ![chosen[t]] = <<t, file>>]
  /\ published' = published \cup {<<t, file>>}
  /\ chosen' = [chosen EXCEPT ![t] = NoPath]
  /\ rcv' = [rcv EXCEPT ![t] = [pc |-> IF file = Len(manifest[t]) THEN "done" ELSE @.pc,
                                file |-> file + 1]]
  /\ UNCHANGED <<sender, staged, toRcv, answer, raced, faults>>

\* A file operation of the receiver fails: creating or writing a staging file,
\* or one of the renames, with the files before it already published.
DiskFails(t) ==
  /\ faults < MaxFaults /\ rcv[t].pc \in {"asking", "receiving", "publishing"}
  /\ faults' = faults + 1
  /\ Fails(t)
  /\ chosen' = [chosen EXCEPT ![t] = NoPath]
  /\ UNCHANGED <<sender, staged, toRcv, answer, folder, published, raced>>

-----------------------------------------------------------------------------

Sender(t) ==
  ReadDecision(t) \/ GiveUp(t) \/ SendChunk(t) \/ EndOfFile(t) \/ SendFinish(t)

Receiver(t) ==
  \/ TakeOffer(t) \/ TakeChunk(t) \/ TakeFinish(t) \/ PeerClosed(t)
  \/ ChoosePath(t) \/ Publish(t)

Next ==
  \E t \in Transfers :
    \/ \E q \in Requests : Offer(t, q)
    \/ Sender(t) \/ Receiver(t)
    \/ Accept(t) \/ Decline(t)
    \/ Lose(t) \/ DiskFails(t)

Spec == Init /\ [][Next]_vars

\* Sender and receiver run on their own; the user at the dialog owes no answer.
FairSpec ==
  Spec /\ \A t \in Transfers : WF_vars(Sender(t)) /\ WF_vars(Receiver(t))

-----------------------------------------------------------------------------
(* Properties *)

\* The state of a transfer is one of the code's, and no connection holds more
\* records than its window (src/clipboard.rs:390-946, 1515-1580).
TypeOK ==
  /\ snd \in [Transfers ->
       [pc : {"idle", "offered", "streaming", "completed", "declined", "failed"},
        file : Nat, sent : Nat]]
  /\ rcv \in [Transfers ->
       [pc : {"listening", "asking", "receiving", "publishing", "done", "declined", "failed"},
        file : Nat]]
  /\ \A t \in Transfers : /\ Len(toRcv[t]) <= Window
                          /\ DOMAIN staged[t] \subseteq DOMAIN manifest[t]
  /\ answer \in [Transfers -> {"none", "accept", "reject"}]
  /\ folder \in [Paths -> {Free, UserFile} \cup (Transfers \X (Nat \ {0}))]
  /\ chosen \in [Transfers -> Paths \cup {NoPath}]
  /\ published \subseteq Transfers \X (Nat \ {0})
  /\ raced \in BOOLEAN /\ faults \in 0..MaxFaults

\* "Published only once every byte is present" (src/clipboard.rs:42): a file
\* enters the folder only when all the files of its transfer are whole, whatever
\* changes under the sender, fails or arrives late.
PublishedWhole ==
  \A f \in published :
    \A i \in DOMAIN manifest[f[1]] : staged[f[1]][i] = manifest[f[1]][i].size

\* Unless two threads picked the same path at the same time, publishing never
\* replaces a file: what was in the folder stays and every published file is
\* there (unique_destination_path, src/clipboard.rs:1555).
PublishedKept ==
  raced \/ /\ \A p \in Existing : folder[p] = UserFile
           /\ \A f \in published : \E p \in Paths : folder[p] = f

\* A sender that reports success has had its files published, or will: without
\* a failing disk or connection its receiver never refuses them (the finish
\* record is not acknowledged, src/clipboard.rs:485).
CompletedIsPublished ==
  \A t \in Transfers : snd[t].pc = "completed" /\ faults = 0 => rcv[t].pc # "failed"

\* An offer does not wait for ever: the sender ends, whatever the other user
\* does (FILE_APPROVAL_TIMEOUT, src/clipboard.rs:528).
SenderEnds == \A t \in Transfers : snd[t].pc = "offered" ~> SenderEnded(t)
=============================================================================
