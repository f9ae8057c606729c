------------------------------ MODULE Clipboard ------------------------------
(***************************************************************************)
(* The clipboard mirror (src/clipboard.rs): one encrypted connection, and  *)
(* at each end a loop that first takes in what the peer has sent, then     *)
(* looks at the desktop's selection and sends it when it changed.          *)
(* The host end dials (spawn_clipboard_host), the client end listens and   *)
(* waits for a first record (spawn_clipboard_client).                      *)
(*                                                                         *)
(* A value is an element of Contents; Chunks gives the number of chunk     *)
(* records it is cut into (0 for an empty value, for which the start       *)
(* record is the whole transfer).  Transfer identifiers are random and a   *)
(* connection is FIFO, so a record carries the value itself in their       *)
(* place.  The last file selection is only ever written by the loop, never *)
(* read, so it is left out.                                                *)
(***************************************************************************)
EXTENDS Integers, Sequences

CONSTANTS
  Contents,        \* text and image values the users copy
  Chunks,          \* [Contents -> Nat]: chunk records of each value
  NoContent,       \* no value: a baseline before anything was sent or received
  Window,          \* records one direction of the connection holds
  Batch,           \* records taken in before the selection is looked at (64)
  PromptProvider,  \* TRUE: wl-copy owns the selection when it is next looked at
  Copies,          \* [Peers -> set of what the user there may select]
  MaxCopies,       \* bound on the users' copies
  MaxDrops         \* bound on connection losses

Peers == {"host", "client"}
Other(p) == IF p = "host" THEN "client" ELSE "host"

\* Selections the mirror leaves local: nothing selected or no supported type,
\* regular files, a value or list past its size limit.
Local == {"none", "files", "oversize"}
\* "invalid" is a selection whose reading fails: text that is not UTF-8, a file
\* list with two equal names.
Selections == Contents \cup Local \cup {"invalid"}

ASSUME ClipboardAssumption ==
  /\ Chunks \in [Contents -> Nat]
  /\ NoContent \notin Selections
  /\ Contents \cap (Local \cup {"invalid"}) = {}
  /\ Window \in Nat \ {0} /\ Batch \in Nat \ {0}
  /\ PromptProvider \in BOOLEAN
  /\ Copies \in [Peers -> SUBSET Selections]
  /\ MaxCopies \in Nat /\ MaxDrops \in Nat

VARIABLES
  mode,      \* [Peers -> {"down", "waiting", "running"}]
  sel,       \* the desktop's selection
  last,      \* last_value: the baseline the selection is compared with
  provider,  \* the wl-copy this mirror started, and what it offers
  incoming,  \* the transfer being reassembled
  sending,   \* the value being sent and its next record
  wire,      \* records sent by p and not yet taken in by the other end
  batch,     \* records taken in during this pass of the loop
  fresh,     \* history: the selection was made since this end last sent one
  crossed,   \* history: a value was sent while one was coming the other way
  copies, drops

mirror == <<mode, last, incoming, sending, wire, batch, crossed>>
vars == <<mode, sel, last, provider, incoming, sending, wire, batch, fresh,
          crossed, copies, drops>>

NoTransfer == [val |-> NoContent, next |-> 0]
NoProvider == [st |-> "none", val |-> NoContent]

Record(v, i) == [val |-> v, part |-> i]        \* part 0 is the start record
Transfers == {NoTransfer} \cup [val : Contents, next : Nat]
Providers == {NoProvider} \cup [st : {"starting", "owner"}, val : Contents]

Init ==
  /\ mode = [p \in Peers |-> "down"]
  /\ sel = [p \in Peers |-> "none"]
  /\ last = [p \in Peers |-> NoContent]
  /\ provider = [p \in Peers |-> NoProvider]
  /\ incoming = [p \in Peers |-> NoTransfer]
  /\ sending = [p \in Peers |-> NoTransfer]
  /\ wire = [p \in Peers |-> <<>>]
  /\ batch = [p \in Peers |-> 0]
  /\ fresh = [p \in Peers |-> FALSE]
  /\ crossed = FALSE
  /\ copies = 0 /\ drops = 0

-----------------------------------------------------------------------------
(* Sessions *)

\* spawn_clipboard_host: connect, handshake, run with an empty baseline.  The
\* client's thread accepts and blocks on the first record.  A retry is two
\* seconds away, so no wl-copy of the session before is still starting; its
\* handle is gone and nobody will stop it any more.
Connect ==
  /\ \A p \in Peers : mode[p] = "down" /\ provider[p].st # "starting"
  /\ mode' = [host |-> "running", client |-> "waiting"]
  /\ last' = [p \in Peers |-> NoContent]
  /\ provider' = [p \in Peers |-> NoProvider]
  /\ incoming' = [p \in Peers |-> NoTransfer]
  /\ sending' = [p \in Peers |-> NoTransfer]
  /\ wire' = [p \in Peers |-> <<>>]
  /\ batch' = [p \in Peers |-> 0]
  /\ fresh' = [p \in Peers |-> TRUE]
  /\ crossed' = FALSE
  /\ UNCHANGED <<sel, copies, drops>>

\* An end's run returns, by an error of its own or of the connection; dropping
\* its connection ends the other one's.
EndSession ==
  /\ mode' = [p \in Peers |-> "down"]
  /\ UNCHANGED <<sel, last, provider, incoming, sending, wire, batch, fresh,
                 crossed, copies, drops>>

Drop ==
  /\ drops < MaxDrops
  /\ mode["host"] # "down"
  /\ drops' = drops + 1
  /\ mode' = [p \in Peers |-> "down"]
  /\ UNCHANGED <<sel, last, provider, incoming, sending, wire, batch, fresh,
                 crossed, copies>>

-----------------------------------------------------------------------------
(* The desktop *)

\* The user selects something: a wl-copy that owned the selection exits, one
\* that is still starting will take it over.
UserCopies(p, s) ==
  /\ copies < MaxCopies
  /\ copies' = copies + 1
  /\ sel' = [sel EXCEPT ![p] = s]
  /\ fresh' = [fresh EXCEPT ![p] = TRUE]
  /\ provider' = [provider EXCEPT ![p] = IF @.st = "owner" THEN NoProvider ELSE @]
  /\ UNCHANGED <<mirror, drops>>

\* A started wl-copy becomes the owner of the selection.
ProviderTakes(p) ==
  /\ provider[p].st = "starting"
  /\ provider' = [provider EXCEPT ![p].st = "owner"]
  /\ sel' = [sel EXCEPT ![p] = provider[p].val]
  /\ fresh' = [fresh EXCEPT ![p] = FALSE]
  /\ UNCHANGED <<mirror, copies, drops>>

\* stop_provider: a killed owner leaves the selection empty.
StoppedSelection(p) == IF provider[p].st = "owner" THEN "none" ELSE sel[p]

\* write_content: stop the old provider, spawn a new one and return at once.
WriteContent(p, v) ==
  /\ provider' = [provider EXCEPT ![p] = [st |-> "starting", val |-> v]]
  /\ sel' = [sel EXCEPT ![p] = StoppedSelection(p)]
  /\ UNCHANGED fresh

\* mutant: the received value does not become the baseline
UpdateReceivedBaselineLost(p, v) == last' = last

\* update_received_baseline
UpdateReceivedBaseline(p, v) == last' = [last EXCEPT ![p] = v]

-----------------------------------------------------------------------------
(* The mirror loop *)

\* A whole value has arrived: process_received_record.
Deliver(p, v) == WriteContent(p, v) /\ UpdateReceivedBaseline(p, v)

Accepted(p, transfer) ==
  /\ incoming' = [incoming EXCEPT ![p] = transfer]
  /\ UNCHANGED <<last, provider, sel, fresh>>

\* mutant: completion noticed one chunk late
CompletesLate(r) == r.part > Chunks[r.val]

\* The record is the last of its value.
Completes(r) == r.part = Chunks[r.val]

\* mutant: one record too many
BatchOpenLate(p) == batch[p] <= Batch

\* The batch loop takes in at most Batch records.
BatchOpen(p) == batch[p] < Batch

\* receive_record: a start record opens a transfer, or is the whole of an empty
\* one; a chunk must be the next one of the open transfer.
Receive(p) ==
  LET r     == Head(wire[Other(p)])
      start == r.part = 0
      next  == [val |-> r.val, next |-> r.part + 1]
  IN
  /\ mode[p] # "down" /\ sending[p] = NoTransfer /\ BatchOpen(p)
  /\ wire[Other(p)] # <<>>
  /\ IF ~start /\ incoming[p] # [val |-> r.val, next |-> r.part]
     THEN EndSession
     ELSE /\ mode' = [mode EXCEPT ![p] = "running"]
          /\ wire' = [wire EXCEPT ![Other(p)] = Tail(@)]
          /\ batch' = [batch EXCEPT ![p] = @ + 1]
          /\ \/ /\ Completes(r)
                /\ Deliver(p, r.val)
                /\ incoming' = IF start THEN incoming
                               ELSE [incoming EXCEPT ![p] = NoTransfer]
             \/ ~Completes(r) /\ Accepted(p, next)
          /\ UNCHANGED <<sending, crossed, copies, drops>>

\* mutant: the selection is looked at in the middle of a batch
DrainedEager(p) == TRUE

\* The batch loop stops when nothing more has come or after Batch records.
Drained(p) == ~BatchOpen(p) \/ wire[Other(p)] = <<>>

\* A pass of the loop ends without looking at the selection: the poll is not
\* due, the selection is not for the mirror, or it is the baseline.
EndPass(p) ==
  /\ mode[p] = "running" /\ sending[p] = NoTransfer /\ Drained(p)
  /\ batch[p] > 0
  /\ batch' = [batch EXCEPT ![p] = 0]
  /\ UNCHANGED <<mode, sel, last, provider, incoming, sending, wire, fresh,
                 crossed, copies, drops>>

\* The selection is looked at, by the next poll that is due.
Polls(p) ==
  /\ mode[p] = "running" /\ sending[p] = NoTransfer /\ Drained(p)
  /\ PromptProvider => provider[p].st # "starting"

\* The poll finds a value that is not the baseline: the provider is stopped and
\* send_content begins.
PollSends(p) ==
  /\ Polls(p)
  /\ sel[p] \in Contents /\ sel[p] # last[p]
  /\ sending' = [sending EXCEPT ![p] = [val |-> sel[p], next |-> 0]]
  /\ provider' = [provider EXCEPT ![p] = NoProvider]
  /\ sel' = [sel EXCEPT ![p] = StoppedSelection(p)]
  /\ fresh' = [fresh EXCEPT ![p] = FALSE]
  /\ batch' = [batch EXCEPT ![p] = 0]
  /\ crossed' = \/ crossed
                \/ wire[Other(p)] # <<>> \/ sending[Other(p)] # NoTransfer
  /\ UNCHANGED <<mode, last, incoming, wire, copies, drops>>

\* Reading the selection fails: run returns the error.
PollFails(p) ==
  /\ Polls(p)
  /\ sel[p] = "invalid"
  /\ EndSession

\* send_content, one record at a time; it reads nothing meanwhile.  The value
\* is the baseline once it has been sent whole.
SendRecord(p) ==
  LET v == sending[p].val
      i == sending[p].next
  IN
  /\ mode[p] = "running" /\ sending[p] # NoTransfer
  /\ Len(wire[p]) < Window
  /\ wire' = [wire EXCEPT ![p] = Append(@, Record(v, i))]
  /\ IF i = Chunks[v]
     THEN /\ sending' = [sending EXCEPT ![p] = NoTransfer]
          /\ last' = [last EXCEPT ![p] = v]
     ELSE /\ sending' = [sending EXCEPT ![p].next = i + 1]
          /\ UNCHANGED last
  /\ UNCHANGED <<mode, sel, provider, incoming, batch, fresh, crossed, copies, drops>>

Loop(p) ==
  Receive(p) \/ EndPass(p) \/ PollSends(p) \/ PollFails(p) \/ SendRecord(p)

Next ==
  \/ Connect \/ Drop
  \/ \E p \in Peers : Loop(p) \/ ProviderTakes(p)
  \/ \E p \in Peers : \E s \in Copies[p] : UserCopies(p, s)

\* The loops run on their own threads, poll every 250 ms and retry for ever; a
\* started wl-copy gets to run.  Users owe nothing, and so does EndPass: a pass
\* that ends is only bookkeeping.
Fairness ==
  /\ WF_vars(Connect)
  /\ \A p \in Peers :
       /\ WF_vars(Receive(p)) /\ WF_vars(EndPass(p)) /\ WF_vars(PollSends(p))
       /\ WF_vars(PollFails(p)) /\ WF_vars(SendRecord(p)) /\ WF_vars(ProviderTakes(p))

Spec == Init /\ [][Next]_vars
FairSpec == Spec /\ Fairness

-----------------------------------------------------------------------------
(* Properties *)

\* The variables of the mirror hold what the code's types allow, the window and
\* the batch bound included (src/clipboard.rs:155-265).
TypeOK ==
  /\ mode \in [Peers -> {"down", "waiting", "running"}]
  /\ sel \in [Peers -> Selections]
  /\ last \in [Peers -> Contents \cup {NoContent}]
  /\ provider \in [Peers -> Providers]
  /\ incoming \in [Peers -> Transfers] /\ sending \in [Peers -> Transfers]
  /\ wire \in [Peers -> Seq([val : Contents, part : Nat])]
  /\ batch \in [Peers -> 0..Batch]
  /\ fresh \in [Peers -> BOOLEAN] /\ crossed \in BOOLEAN
  /\ copies \in 0..MaxCopies /\ drops \in 0..MaxDrops

\* A mirror sends a selection only when its user made it after the last one it
\* sent (or a new session began): no received value and no value sent before
\* goes back over the connection, so no A -> B -> A echo (clipboard.rs:153).
NoEcho == [][\A p \in Peers :
                sending[p] = NoTransfer /\ sending'[p] # NoTransfer => fresh[p]]_vars

BothBlocked ==
  \A p \in Peers : /\ mode[p] = "running" /\ sending[p] # NoTransfer
                   /\ Len(wire[p]) = Window

\* The two mirrors wait on each other for ever (send_content reads nothing,
\* clipboard.rs:582) only when one of them is sending a value that alone does
\* not fit the connection: small copies, however they cross, never block, when
\* the connection holds no more records than a batch takes in.
BlockOnlyOnLarge ==
  BothBlocked => \E p \in Peers : Chunks[sending[p].val] + 1 > Window

\* In a session whose two loops run, and in which no two values crossed, the
\* two desktops end with the same selection whenever both hold one the mirror
\* shares (clipboard.rs:159-265).
Converges ==
  <>[](\/ crossed
       \/ \E p \in Peers : mode[p] # "running" \/ sel[p] \notin Contents
       \/ sel["host"] = sel["client"])
=============================================================================
