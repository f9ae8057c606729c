# A TLA+ model of CachyBridge

CachyBridge shares one mouse and keyboard between two Linux desktops.  The
*host* owns the physical input.  When its pointer crosses the configured edge
of its display, the desktop portal hands the input to the host process, which
sends it over an encrypted TCP connection to the *client*; the client injects
it.  The pointer's arrival at the client's opposite edge brings it back.  This is
the seamless mode.  Beside it there are an older manual mode, a clipboard mirror and
file transfers, and what sets a pair of desktops up: pairing, the placement of their
displays, and the configuration file of each.

This directory holds TLA+ modules translated from the Rust source, TLC
configurations that model-check them on small instances, and proofs, checked
with TLAPS, that hold for every value of the constants.

    tlc -workers 2 -config seamless_safety.cfg MCSeamless     # a run
    tlapm SeamlessProofs.tla                                  # the proofs

## 1. The system

| Part | State it keeps | Operations | Where |
|---|---|---|---|
| Handoff controller | `Local`, `EntryPending`, `RemoteActive`; two display rectangles and an edge | barrier activated, peer acknowledged, rejected, exited, disconnect | `handoff.rs` |
| Seamless host | the controller; the outstanding probe; the capture adapter's activation id and queues | `activate_once`, `forward_next` (`poll_control`, probe, `next_input`, heartbeat, `forward`), `close` | `seamless.rs`, `main.rs` |
| Seamless client | `remote_active`, `entry`, `return_pending`; the injector's ledger of held controls | `handle` per message, `request_exit`, `close`; the accept and session loops with the peer timeout | `seamless.rs`, `main.rs` |
| Edge-return watcher | the portal session with the client's return barrier | `poll_exit` | `seamless.rs` |
| Secure connection | Noise session, TCP socket, receive buffer | `send`, `receive`, `poll_receive` | `transport.rs` |
| Input capture adapter | activation id, pending motion, scroll, pinch and contact trackers, EIS objects | `wait_for_left_activation`, `next_input`, `return_to_local`, `release_local_input` | `seamless.rs`, `libei_capture.rs` |
| libei injector | devices, regions, held keys, buttons, contacts | `emit_*`, `pump`, `release_all` | `libei_inject.rs` |
| Clipboard mirror | the baseline `last_value`, the `wl-copy` it started, the incoming transfer | poll and send, receive chunks, write the selection | `clipboard.rs` |
| File transfer | the offered files, the staging directory, the folder | offer, decide, chunk, finish, publish | `clipboard.rs` |
| Configuration store | one file per machine, a temporary one beside it | load, change one peer, save whole | `config.rs` |
| Topology control | placement in both configuration files | apply, acknowledge, save, restart the client's session | `main.rs`, `config.rs` |
| Pairing | the code, the attempts left, the granted key | SPAKE2 exchange, grant, commit on each side | `pairing.rs`, `main.rs` |
| Portal sessions | single-use restore tokens | start with a token, store the next one | `main.rs`, `portal_*.rs` |
| Manual mode | bounded queue of evdev events, the emergency chord, the sink's held keys | capture threads, forward, release | `linux_input.rs`, `main.rs` |
| Others | | wire codec, portal calls, persistence, discovery, demo, Qt wizard and tray | see `PROJECT.json` |

**How they interact.**  The host and the client run one loop each, in one
thread, and exchange typed messages over one connection: `Enter`,
`EnterAck`/`EnterRejected`, `Input` (and `PointerMotion`, `Touch`),
`ExitRequest`, `HandoffRelease`, `Heartbeat`, `DiagnosticPing`/`Pong`.  Each
also listens to the compositor, which acts on its own: it starts an activation
when the pointer meets a barrier, queues the user's events on the EIS socket,
and may end a session at any time.  The host process ends after any error and
the user service starts it again; the client process goes back to `accept`.
Clipboard, topology and pairing use connections of their own and share the
configuration file with the input modes.

**What is hard in it.**
- Two parties decide the end of a handoff (the client by `ExitRequest`, the
  host by `HandoffRelease`) and neither waits: each goes on sending messages of
  a handoff that the other has left.
- State is read before a blocking call and used after it: the host selects an
  event, waits, and must ask again whether the handoff is still on.
- Nothing in a message names the handoff it belongs to.  That an answer is
  about the present one rests on the order of the stream alone.
- Either process may be killed, the portal may end a session, the network may
  fail silently; keys are then held down in the injector and the pointer is
  captured on the host.
- Timeouts are one-sided: the host waits five seconds for `EnterAck` but has no
  limit while forwarding; the client has a limit during a handoff only.
- Coordinates are mapped between displays of different sizes, one-pixel sides
  and 32-bit bounds included.
- The clipboard has an owner of its own on each desktop that the mirror can only
  ask: a poll may see the selection before or after `wl-copy` takes it over.
- A mirror that sends reads nothing, and two of them may send at once.
- A finished file transfer is not acknowledged, and the threads of one receiver
  share a folder.
- Several processes load, change and save one configuration file, each the whole
  of it; pairing and placement change two such files with nothing atomic between.
- The adapter reads the answer to its own release at any later step, and keeps
  trackers from one handoff to the next.
- The manual mode's capture threads never wait: a full queue has to end capture.

`PROJECT.json` lists these hazards at their lines with the properties that would catch
them.  Smaller ones no property is about:
- A new clipboard session begins with an empty baseline, so each end sends its old
  selection again (clipboard.rs:163); a selection that cannot be read ends the session at
  every retry (clipboard.rs:246); the client's mirror sends nothing before the host's
  first record (main.rs:1305).
- A broken transfer leaves its staging directory behind (clipboard.rs:1515), and the
  temporary file of an interrupted save makes later saves fail (config.rs:661).
- What a portal does to the token of a start that fails after the token was consumed is
  not known to the code (main.rs:1880).
- Coalesced motion beyond 2048 pixels is refused by the injector (libei_inject.rs:700) and
  ends the session, which nothing in the adapter prevents: `Adapters` has the step, and no
  property denies it.  An absolute jump is clamped to 2048 pixels (seamless.rs:374), and
  the model has none as long.
- A disconnected EIS socket is only noted (libei_capture.rs:340).

**What makes each part correct.**
- *Controller*: entries and returns lie on the right display and edge, off the
  barrier, and there-and-back is the identity as far as the pixels allow.
- *Host and client together*: at most one of them has the input; a message is
  never taken for one of another handoff; whatever fails, the physical input
  comes back to its owner and the client holds no key down.
- *Ownership*: at any time one machine has the input; the host goes away under a
  lease the client has taken, and takes the input back only from a client that is
  letting go.
- *Capture adapter and injector*: what the remote desktop holds is what the user
  holds; the adapter's own release never ends a session, and the injector refuses no
  touch; a click lands where it was made, but for what rounding loses.
- *Clipboard*: nothing bounces; after copies that did not cross, both desktops
  hold the same; the two mirrors block each other on large values only.
- *File transfer*: only whole files are published and none replaces another; a
  sender that reports success is published; no sender waits for ever.
- *Topology, pairing*: each machine's record of the other is the mirror image of
  the other's; the host commits after the client; a file that was saved can be
  loaded; a session watches the edge its file names.
- *Portal sessions*: the token in the file is the one the portal expects next.
- *Manual mode*: no key sticks; the chord returns every device to the desktop,
  unless the host is caught in a write to a peer that hangs; a client that does not
  hang lets go when the host is gone.

## 2. The modules

| Module | Content | Code |
|---|---|---|
| `Handoff` | geometry operators and the controller's five calls | `handoff.rs` |
| `HandoffCalls` | one controller under every order of calls, any layout | `handoff.rs`, callers in `seamless.rs`, `handoff_demo.rs` |
| `HandoffGeometry`, `HandoffProofs` | lemmas on the mapping; theorems on `HandoffCalls` | |
| `Link` | a FIFO per direction, who holds a socket, a silent cut | `transport.rs`, `protocol.rs` |
| `SeamlessHost` | extends `Handoff` and `Link`: the host's loop | `seamless.rs`, `main.rs` |
| `SeamlessClient` | extends `Link`: the client's two loops | `seamless.rs`, `main.rs` |
| `Seamless` | composes the two with the user and the faults; the properties | |
| `SeamlessInvariant`, `SeamlessProofs` | the inductive invariant; theorems that follow from it | |
| `Ownership` | the abstract promise of the seamless mode: who has the input | `seamless.rs`, `main.rs` |
| `SeamlessOwnership` | the refinement mapping; `SeamlessProofs` also proves that neither side is orphaned and that Seamless implements Ownership | |
| `Adapters` | from the user's devices through adapter and trackers to the injector's ledgers | `seamless.rs`, `libei_capture.rs`, `libei_inject.rs` |
| `AdaptersInvariant`, `AdaptersProofs` | the inductive invariant; theorems on what the remote desktop holds, what ends a session, where a click lands | |
| `Clipboard`, `ClipboardProofs` | two mirrors over one connection; the proofs that nothing echoes and that small values never block | `clipboard.rs`, `main.rs` |
| `FileTransfer`, `FileTransferProofs` | concurrent transfers into one folder; the proofs that only whole files are published, and all of a completed transfer | `clipboard.rs`, `main.rs` |
| `Setup` | two configuration files and every process that loads and saves them | `config.rs`, `pairing.rs`, `main.rs` |
| `SetupInvariant`, `SetupProofs` | the inductive invariant; theorems on what loads again, and on how the two files and the sessions agree | |
| `Manual`, `ManualProofs` | capture threads, the bounded queue, the two loops and the sink; the proof that no key sticks | `linux_input.rs`, `main.rs` |
| `MCHandoff`, `MCSeamless`, `MCAdapters`, `MCClipboard`, `MCFileTransfer`, `MCSetup`, `MCManual` | instances for TLC | |

`Seamless` composes `SeamlessHost` and `SeamlessClient` over `Link`.  The other
components use connections of their own and share no state with it but the
configuration file, which is in `Setup` together with everything that writes it.

An operator whose comment starts with `mutant` is a plausible error, put in
place of the definition after it to see that a property notices.  No
specification uses it.

### Handoff

`controller` is `HandoffController.state`; a layout stands for its two
rectangles and edge.  `Rect` is what `Rect::new` accepts: inclusive edges in 32
bits.  Intermediate values are 64-bit in the code and integers here; they
cannot overflow for rectangles of 32-bit sides.  A call that returns no instruction leaves the
state alone, so it is a false guard.

### Link

A queue holds what was written and not yet read.  Writing to a closed or cut
connection loses the message; the operating system may or may not tell the
writer (`HostSendMayFail`), so the model lets the write succeed or fail.  The
handshake, the encryption and the framing are not modelled.  The model has one
connection: the client serves one at a time, and the host's next process can
have its session only after the client has dropped the previous one.

### SeamlessHost

`hpc` names the point of the loop.  `activate_once` is `Activate` (or
`ActivateOutside`), then `ReceiveReply` (or `ReplyFails`).  A `forward_next` that
finds nothing to do changes nothing, so its parts are actions: `PollControl` (at
"loop" before the wait for an event, at "recheck" after it), `SendProbe`,
`NextInput`, `SendHeartbeat`, `Forward`.  Every `Err` leads to "cleanup", where
`HostCleanup` runs `close` and the process ends.  `activation` is the id the
adapter must release.  `captured` holds the events waiting in the EIS socket and
in the adapter's queue; only the events with a lasting effect (a control goes
down or up) are told apart.  A release sent while the peer's window is full
would block; `MaxInFlight` makes only input and heartbeats wait, a release is
always written.  A failure of the portal's own release, and of the capture to
begin, leads to "cleanup" too.  Messages that no client of this code sends
(`Goodbye`, `ReleaseAll`, `Heartbeat` to the host) are left out of what the host
may read.

### SeamlessClient

`cpc` names the point of the session loop of `run_seamless_client_with_sessions`:
one turn is `PollExit` (and `FinishExit` for the second half of `request_exit`),
then one message (`HandleEnter` ... `HandleRelease`) or `NothingReceived`.  Every
`Err`, and the five-second limit `PeerTimeout`, leads to "cleanup": release,
drop the connection, accept the next host.  `pressed` is the injector's ledger.
`barrier` holds the signals of the return barrier that poll_exit has not read.
The branches that answer a second `Enter` and that refuse input outside a
handoff are in the model although they are never taken: the properties
`NoEnterWhileActive` and `NoInputBeforeEntry` say exactly that.

### Seamless

`act`, `handoff` and `lastActivation` number the handoffs.  Only the portal's
activation id exists in the code; the tags on messages are history that no guard
reads.  `Fault` covers the killed host (or one that fails its handshake), the
capture session or return barrier that the compositor ends, the killed or
restarted client (a topology change does that too, and so does a failing
`release_all`), and the cut network.  A killed process loses its portal session,
so the compositor gives the pointer back and releases what the virtual devices
held.

### Ownership and SeamlessOwnership

`Ownership` is what a user is promised, with no message in it: a host that is at
home, asking or away, a client that is idle, driven or leaving, and a numbered
lease.  The mapping reads the host's part off `hpc` and the client's off `cpc` and
`remoteActive`; the lease is `lastActivation`, the driver `handoff`.  The freedom
`Ownership` leaves is the code's: `Leave` comes before `LetGo` because
`request_exit` sends `ExitRequest` before it releases, so the host may be at home
while the client is still leaving; and a client may find the `Enter` of a host
that is no more (`Take` with the host gone).

### Adapters

The way of one event: the user's pointer, touch screen or trackpad, the EIS socket
(`eis`) or the trackpad's kernel buffer (`ring`), the adapter with its activation
id, pending queue, coalesced motion and pinch trackers, and the injector's ledgers.
`WaitForActivation`, `BeginRemoteInput`, `Next...` and `ReturnToLocal` are the calls
of `CaptureBackend`; an event that `next_input` returns is injected in the same step,
and those under way at a return are lost in its step (what happens to them in
between is `Seamless`).  An entry the client refuses is in `SeamlessHost` only.  A
behaviour has one device: two pinches that share the injector's Ctrl are not
covered.  Distances are counted in half pixels, which is what rounding can tell
apart; positions of contacts are reduced to "the pinch made a step of the wheel or
not".  A relative motion is rounded by itself, as `drain_batch` does, and what is lost is
not kept; an absolute one keeps its remainder.  `user` follows the user's real position
(`moved`), the one made of rounded motions (`rounded`), and how far the first may be from
the second (`drift`: half a pixel for each fractional motion).

`phase` names what ended a session: a signal of the portal (`"signal"`), a release that
the portal refused (`"release"`), an event that the injector refused, a touch or a motion
beyond `MaxDelta` (`"touch"`, `"motion"`), or a read that failed (`"read"`: `ReadFails`, for
the trackpad's `reset` and `drain`, the portal and the EIS socket, at each point where they
are read).

### Clipboard

One variable for each of the loop's locals (`last`, `provider`, `incoming`,
`sending`), the desktop's selection `sel`, and the records on the wire.  `Receive` is
one turn of the batch loop, `PollSends` the poll that finds a new value, `SendRecord`
one record of `send_content`, which reads nothing meanwhile.  A `wl-copy` that was
spawned takes the selection at a step of its own (`ProviderTakes`); `PromptProvider`
says whether it has done so when the mirror next looks (it usually has: the mirror
looks every 250 ms), or may be slower, which nothing in the code excludes.  Values are identities with a
number of chunks, and a record carries the value where the code has a random transfer
id.  `last_file_selection` is written by the code and read nowhere, so it has no
variable.  Both ends notice a lost connection before the retry two seconds later.

### FileTransfer

Each transfer is a sender process with a connection and a receiver thread; the
folder is shared.  Sizes are counted in chunks.  A file may have changed when it is
read (`FilesChange`).  `ChoosePath` and `Publish` are two steps, the test for a free
path and the rename.  The status file for the tray is left out.

### Setup

Each machine has a file, `Parse` and `Render` say what loading and saving do to its
lines, and a job is a process (or the control listener's thread) with its own copy.
A save is `CreateTmp`, then `Rename`; other jobs run in between and between load and
save.  `torn`, `behind`, `unpaired` and `removed` are history: they say when a save
undid another, or a pairing was cut short, which the code neither prevents nor
notices, and the properties state what holds otherwise.  The pairing code is right
or wrong (`WrongCode`), the placement transaction two records, the portal the token
it would accept next; a portal start always returns a token or is refused.  A
peer's id stands for its key.  The display size query of the control connection changes
nothing and is left out, and so are names and the host's endpoint.

One divergence met here is not a run: `run_pair_host` sends its
persistent-permissions flag with the request and looks at neither the flag nor the
grant when it makes the peer it stores (main.rs:1042-1050), so the host's record
always has the setting off, where README.md:85 of the repository says it "is stored
per peer".  `TakeGrant` does as the code does.

A request that a process has not read when it ends is lost with its connection
(`Unread`); the host that paired then fails (`PairRefused`), the host that placed too.
The invariant showed the need of it: without it a killed client left its request for
the next one to read.

### Manual

`worker`, `batch` and `stop` are the capture threads and the flag they share, `queue`
the bounded channel, `pc` the host's loop, `pending` and `held` the client's sink.
`Enqueue` is one `try_send`; the events of a batch are sent one at a time, with the
other workers and the host in between.  A write blocks while the connection is full
(`Window`), and to a connection nobody reads it succeeds for a while or fails.  A client
that hangs (`PeerHangs`: its process is stopped, or its virtual device does not answer)
stays connected and reads nothing: a write to it neither ends nor fails.  A
report is one key event and its SYN; motion, wheel and autorepeat hold nothing down.
The synthetic events, the dry-run sink and the kernel self-test are diagnostics and
not modelled; the kernel's SYN_DROPPED is not either.

## 3. The runs

| Run | Question | Bounds | Distinct states |
|---|---|---|---|
| `handoff` | do entries and returns land where they should? | all pairs of displays up to 3 x 6 and 2 x 6 pixels at several offsets, both edges, all points on and around them | 23 904 |
| `seamless_safety` | do the sides agree on who has the input, under any interleaving and two faults, and do they implement `Ownership`? | 2 activations, 2 faults, 1 control, queues of 1 to 2 | 521 716 |
| `seamless_live` | does the input always come back? | 1 activation, 2 faults | 53 454 |
| `adapters` | does the remote desktop hold what the user holds, and click where they clicked? | 2 activations; 3 events of the pointer, 4 of the touch screen, 5 of the trackpad; relative motions of -1/2, 1/2 and 2 pixels, a limit of 3 | 1 512 159 |
| `clipboard` | does nothing bounce, and do the desktops agree? | 3 copies, 1 lost connection, values of 0 to 2 chunks, a window of 2 records | 51 062 |
| `files` | are only whole files published? | 2 transfers of up to 2 files of 1 to 2 chunks, 1 fault | 28 520 |
| `setup` | do the two files agree and stay loadable? | 2 pairings, 3 processes started, 1 fault | 52 984 |
| `manual` | does no key stick, and does the chord return the input? | 2 devices, 3 key events, a queue of 2, 1 fault | 194 263 |
| `probe_harmless` | is a latency probe without effect, as its comment says? | 2 activations, no fault | violated |
| `injects_this` | is input injected only in the handoff it was made in? | 2 activations, no fault | violated |
| `clipboard_echo` | does nothing bounce when `wl-copy` is slow? | 2 copies, no lost connection | violated |
| `files_empty` | is a transfer with an empty file published? | 1 transfer, no fault | violated |

**Why the bounds are enough.**  The hazards of the protocol are between one
handoff and the next, so two activations meet all of them; the third would find
the same queues as the second.  Two faults allow one to strike while the other
is being repaired (a host killed during the reconnection after a cut).  A single
control is enough for "something is held".  The displays of `handoff` include
one-pixel sides, a peer shorter, equal and taller than the local display, and
points off the display.  `adapters` has enough reports for two fingers to come,
pinch and go across a return, and enough motions for a batch of two and a button, with
and without fractions; two of 2 pixels in one batch are beyond the limit.  In `clipboard`
a value does not fit the window, so that both mirrors can block, and the third copy comes
after two that crossed.  In `files` the requests have a directory between two files, a single file, only a
directory, and two files of one name; a name is taken in the folder.  `setup` needs
three processes for two that overtake each other while a third reads; four also
pass (933 600 states, three minutes).  In `manual` two key events fill the queue, and
the keys of the chord are a Ctrl and Esc: Shift and Alt would be two more of the same.
For the theorems of section 4 the bounds do not matter at all.

**Safety of the seamless mode** (`seamless_safety`).  `NoInputBeforeEntry`: the client
never meets input outside a handoff, though the host goes on forwarding while the
`ExitRequest` travels.  `NoEnterWhileActive`: nor an `Enter` inside one.
`ClientNotOrphaned`, `HostNotOrphaned`: neither side is in a handoff the other has
left unless the message (or the broken connection) that ends it is on its way.
`NoStuckControls`: a key is held in the injector only during a handoff.
`CaptureMatchesController`: the compositor captures exactly while the controller
has left `Local`.  `AnswersThisActivation`: no answer or return request reaches
the host in a later handoff.  `ProtocolInv` is the inductive invariant.
`ImplementsOwnership` is the refinement.

**Liveness of the seamless mode** (`seamless_live`).  `ExitHonoured`, `InputComesBack`,
`ClientFreed`, `Reconnects`.  The fairness: both loops keep running (weak
fairness of their steps; strong fairness of reading a message, because the loop
is at other points in between), a write to a cut connection fails in the end
(TCP's retransmission timeout; the heartbeats write every second), the five-second
limits expire, and the user service restarts the host process.  Nothing is
assumed of the user, of the pointer reaching a barrier, or of faults.
`Reconnects` excludes a connection that was cut: outside a handoff the client
neither writes nor has a limit on silence, so it stays in the dead session and
the next host waits.  The fairness has no clause for it because the code has none.

**The adapters.**  `HeldMatchesUser` compares what the injector will hold, once the
events under way have arrived, with what the user holds.  `NoFalseLoss`: neither the
`Deactivated` signal that answers the adapter's own release, in whatever step it is
read, nor the refusal of a release ends a session unless the compositor has ended a
capture by itself; and no touch is refused.  Of the other ends, a read that fails and a
motion beyond the limit, it says nothing: a trackpad that goes away does end the session.
`ClickWhereMeant`: coalescing never carries a motion past a button; the pointer is where
the user was, within half a pixel and half a pixel more for each fractional relative
motion since the crossing.  The bound grows because the code keeps no remainder of these:
two motions of half a pixel move the pointer by two.  Both, and `NoFalseLoss` for
touches, except a handoff that a stale event was left to, which is the subject of
`injects_this`.

**Clipboard.**  `NoEcho`: what a mirror sends its user has selected since it last sent
one.  `BlockOnlyOnLarge`: both loops blocked in a write implies a value that alone does
not fit the connection; it needs `Batch` no smaller than `Window` (64 records against
what two sockets hold of small values), and `BlockOnlyPastBatch`, which is proved,
says what holds without that.  `TypeOK` bounds the batch.  `Converges`: in a session without crossing
values the desktops end the same.  Crossing copies do swap the clipboards, which is why
`crossed` is excepted.  Fairness: each loop's steps, the retry and `wl-copy`.

**Files.**  `PublishedWhole`, `PublishedKept`, `CompletedIsPublished`, `SenderEnds`.
`PublishedKept` excepts two threads that picked the same path between the test and
the rename.  Fairness: sender and receiver run; the user at the dialog owes nothing,
the sender's two minutes expire.

**Setup.**  `TokensCurrent`, `PairingAgrees`, `SessionFollowsFile`, `CommitAfterClient`,
and in `TypeOK` that every saved file loads.  They except a machine where a save was
lost or overtaken; `PairingAgrees` and `SessionFollowsFile` also a crash or a lost
connection.

**Manual.**  `NothingStuck`: what the sink holds the user holds, or its release is on its
way, until the queue overflows and ends the session.  `ChordReturnsInput`: every device
is let go after the chord, also when the client is killed, the network is cut or the queue
overflows before the chord is read, unless the host stays for ever in a write to a
client that hangs (`Blocked`), which does happen (below).  `ControlsFreed`: a
client that has not hung lets go when the host has ended or the network is cut.
Fairness: the threads and the host's loop run, and the client's until it hangs; a
write on a cut connection or to a client that is gone fails in the end, a read on a cut
connection reaches its five seconds.  Nothing is assumed of a client that hangs.  A
device that is unplugged is excepted: the code releases nothing for it.

`CHECK_DEADLOCK FALSE` is set where the bounds or the system itself stop: in the
Seamless, Adapters, Clipboard and Manual runs the user has made all the events allowed
(in reality there are always more), the host of the manual mode ends for good, and
transfers and the processes of Setup come to an end.

**Four disagreements with the comments and documents**, and a fifth that a property excepts.
- `probe_harmless`: the host reads the echo of its probe only while it forwards.
  An echo still on its way when the handoff ends is read by the next
  `activate_once` in place of `EnterAck`; the host closes and ends with
  `UnexpectedControl`.
- `injects_this`: a return clears the pending motion, but not the adapter's queue
  or the EIS socket.  Events of the old handoff are the first ones injected in the
  next.
- `clipboard_echo`: `write_content` returns before `wl-copy` owns the selection; the
  poll of the same pass reads the old value and sends it back to the peer.
- `files_empty`: an empty file sends no chunk, and the receiver goes on to the next
  file only with a chunk: it refuses the finish of a transfer its sender reports as
  completed.
- The README promises that the chord returns the input (README.md:121), but the loop
  that looks for the chord is the one that writes to the peer, and a write has no limit
  (main.rs:1959, transport.rs:236).  With a client that hangs it stays in the write once
  the connection is full, and the keys of the chord wait in the queue with the devices
  grabbed: `ChordReturnsInput` without `[]Blocked` fails, on an instance whose queue has
  room for all the events, as one of 1024 has for a chord.

## 4. The proofs

`HandoffProofs` (with the lemmas of `HandoffGeometry`) proves, for displays of any
size and offset and any order of calls: `CallsTypeCorrect`, `EntryAlwaysInsidePeer`,
`WarpAlwaysOffBarrier`, `EntryAlwaysNearest`, `RoundTripAlways`.  The argument is
about `ScaleOffset`, a rounded division: three lemmas bound its result, its distance
from the exact quotient and the error of scaling there and back; the theorems
lift them to points of displays, by way of `CallsInv` (a pending entry is the
image of the remembered point of the departure edge).

`SeamlessProofs` proves, for all layouts, controls and bounds, under any faults:

| Theorem | Property |
|---|---|
| `ProtocolInvariant` | `ProtocolInv`, with `TypeOK` |
| `TypeCorrect` | `TypeOK` |
| `InputOnlyInHandoff` | `NoInputBeforeEntry` |
| `EnterOnlyWhenReleased` | `NoEnterWhileActive` |
| `ControlsNeverStuck` | `NoStuckControls` |
| `CaptureAlwaysMatches` | `CaptureMatchesController` |
| `AnswersNeverStale` | `AnswersThisActivation` |
| `ClientNeverOrphaned` | `ClientNotOrphaned` |
| `HostNeverOrphaned` | `HostNotOrphaned` |

The assumptions are the named ones of the modules: the layout is one that
`Rect::new` accepts, the bounds are naturals, the reported heights integers.

*The invariant.*  None of the properties is inductive: each depends on what may be
in the queues.  `ProtocolInv` says, per point of the host: which kinds may be on
their way to the client (input always comes first, an `Enter` is single and last,
and finds the client released), which to the host (at most one answer and one
`ExitRequest`, all about the present activation, each only in its time), and
which handoff the two are in.  The core of it is that an `ExitRequest` or
`EnterAck` on its way to a living client leaves only input, heartbeats and probes
on the other queue, so that no release and no `Enter` can overtake it.

*Agreement.*  With `ProtocolInv` known, `ClientNotOrphaned` is inductive: the host
leaves a handoff only by writing a release or by ending, and the client reads a
release only by letting go.  `HostNotOrphaned` is not: the handoff is shared from
the moment the client has written its `EnterAck`, before the host knows of it.
`HandoffShared` says that, and that a client at "exiting" has its `ExitRequest` on
the way.

*The layout.*  Lemmas on queues first: sending appends or loses, reading takes the
head, and what each does to the members of a queue (`Grows`, `Shrinks`), so that no
step needs more than quantifiers over positions.  Then one lemma for each
action, with its type step and its invariant step; `InvariantNext` puts them
together by the disjuncts of `Next`.

*Ownership.*  `SeamlessImplementsOwnership` proves the refinement, and `OnlyOneOwner`
that nothing drives the client while the user works on the host.  Beside `ProtocolInv`
it needs one new fact, `AckCurrent`: an acknowledgement under way is from a client that
has taken the handoff the host asks for.  Lemmas say which steps leave both roles alone
(`RoleKept`, `Unowned`), so that only the steps that end, begin or answer a handoff are
compared with an action of `Ownership` (`HostOwns`, `ClientOwns`, `StepOwns`).

*File transfers.*  `TransferInvariant` (with `TransferTypeCorrect`), `OnlyWholePublished`
and `PublishedNotReplaced`, for any number of transfers, files, chunks and faults.
`TransferInv` says for each transfer how far it has come (`Stage`: files before the one
being received are whole, and all are when publishing begins), that a published file's
transfer was whole, and that paths picked one at a time are free until they are used.
`OthersKept` and `PublishedStays` reduce a step to its own transfer; there is one lemma
for each action.

*Clipboard.*  `ClipboardTypeCorrect`, and `NeverEchoes`, for every set of values and size
of the connection, provided that a started `wl-copy` owns the selection when the mirror
next looks at it (`PromptProvider`): without that it is false, see `clipboard_echo`.  The
invariant is `Quiet`: a selection its user did not make is the baseline, or is being sent
and will be, or is about to be replaced by it.

Two mirrors in a write at once, `SmallCopiesNeverBlock` proves, means that one of them
sends a value that alone does not fit the connection, where a batch is no smaller than
the connection (`Batch >= Window`).  `BlocksPastBatch` is what holds for any two sizes.
The invariant `RoomInv` counts the records each end has on the connection that are not of
the value it is sending (`Older`): an end starts to send after a pass that emptied the
connection or took a whole batch from it, so that not both ends can have more than
`Slack`, the room a batch does not cover, in front of their values.

*Deliveries.*  `CompletedIsRight` proves `CompletedIsPublished` under two hypotheses:
no file is empty (`NoEmptyFiles`; with one it is false, see `files_empty`) and the paths
tried for a name (9999 in the code, `MaxIndex` here) are more than the user's files and
one of each transfer take (`EnoughPaths`).  `DeliveryInv` says that the records on a
connection lead from the receiver's place in the transfer to the sender's (`Stream`), and
whose each path of the folder is; so a receiver that comes to the finish has every file
and finds a free path for it.

*Manual.*  `TypeCorrect` and `NoKeySticks`, for any devices, keys, sizes of the
queue and of the connection.  A key event is in one of five stages: the kernel's buffer,
the worker's batch, the queue, the record being sent and the connection, the sink's
report.  `ManualInv` says that a press in any stage is followed by a release of its key in the
same stage, in one nearer to the user, or the user still holds the key.

*Adapters.*  `QueuesLeadToUser` proves `AdaptersInv`; from it follow
`RemoteHoldsWhatUserHolds` (`HeldMatchesUser`), `OwnReleaseNeverEnds`
(`NoFalseLoss`) and `ClicksWhereMeant` (`ClickWhereMeant`), for any number of events
and handoffs, any relative motions and any limit.  The invariant says that what is under way is a run: the adapter's pending
queue leads the injector's ledgers to some ledgers of the future; the EIS queue leads the
user those ledgers and the trackers stand for (`Behind`) to the user as he is, with the
position made of rounded motions, whose distance from the real one is bounded beside it
(`DriftBounded`) and carried to the injector by each button (`Near`); the
trackpad's reports lead the fingers the tracker knows to those that are on it.  The
signals of the portal alternate and match what is captured, and while the compositor has
ended nothing itself a `Deactivated` is the answer to the adapter's release
(`AnswersOnly`).  A motion beyond the limit is a step of the run like any other, since the
handoff ends with it.  A step at the back of a queue extends its run, a step at its front
shortens it.  What a batch of reports or events does is a recursive function of the
queue, and its lemmas are inductions; they use that a set of numbers has a least element
(`LeastNumber`, from `WellFoundedInduction`), since the library's induction theorems take
an operator.  A run is a function that exists, over infinite sets of states, which TLC
cannot evaluate: the `adapters` run checks what follows from the invariant, not the
invariant itself.

*Setup.*  `InvHolds` proves `SetupInv`; from it follow `TypeCorrect` (`TypeOK`),
`TokensStayCurrent` (`TokensCurrent`), `PairingsAgree` (`PairingAgrees`), `SessionFollows`
(`SessionFollowsFile`) and, about the steps, `CommitsAfterClient` (`CommitAfterClient`),
for any number of pairings, processes started, failures and faults.  The assumption is
`SetupAssumption`: the bounds are naturals (one pairing at least), there is an address, and
the host is asked for one of the four placements.

First comes what loading does.  `SavesLoad`: `Parse(Render(c)) = c` for a configuration of
any number of peers with distinct ids, every optional line there or not.  Both are folds
over lines, so the lemmas are inductions on positions, each by way of the set of positions
at which its claim holds (`Induction`, from the least element of a set of numbers).  From
there on a configuration is the set of its records (`Recs`), and each change of a copy is
an operation on that set: `Joined`, `Placed`, `Without`, `SameBut`.

The invariant has twelve parts.  `Fresh` says of a process that has loaded the file, as
long as nobody else has saved (`behind`) and no save was lost (`torn`): what it will save
is the file with its one change.  That turns a rename, which puts a whole copy in the
place of the file, into one change of one peer.  `IdsMade` and `Pairings` say that the id
of a grant is new to the desktop that has yet to save it, so that adding its peer
replaces none but the one at the same address.  `Tokens` allows a session that was
given tokens, and has yet to save them, to be ahead of its file.  `Exchange` orders the
placement: a request, the client's save, the acknowledgement, the host's save;
`ClientTurns` and `ClientFirst` say what the client will save and has saved meanwhile, and
`Watches` which edge its session knows.  `FilesAgree` is `PairingAgrees` with no waiting
for rest: take what is on its way into a file as saved (`HostAdds`, `ClientAdds`,
`HostSide`, `ClientSide`), and the peers of the two files mirror each other at every
moment.  Each part has its lemma `...Kept`: every step keeps it, by whether the step
is a save, a change of a copy, or one that stands aside (`Aside`, `Bystands`).  TLC has
checked all parts on the instance of the `setup` run.

*Only model-checked.*  The liveness properties (`ExitHonoured`, `InputComesBack`,
`ClientFreed`, `Reconnects`, `Converges`, `SenderEnds`, `ChordReturnsInput`,
`ControlsFreed`): liveness under fairness is beyond TLAPS.  And the four violated
ones.

## 5. What is left

1. An abstract `CaptureBackend` between `SeamlessHost` and `Adapters`, so that the two
   are one refinement and not two models of the same calls.
2. The EIS side of the injector: devices that pause, resume and go.
3. Two devices at once in `Adapters`, where two gestures share one Ctrl.

## 6. Not modelled

The byte encodings, cryptography and framing (pure functions with unit tests);
the D-Bus calls of the portals and the EIS handshake; mDNS discovery; argument
parsing; the Qt programs, whose restart policy is an assumption of the fairness; the
diagnostic commands.  `PROJECT.json` gives the reason for each part.
