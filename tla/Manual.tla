-------------------------------- MODULE Manual --------------------------------
(***************************************************************************)
(* The manual mode: `host` grabs input devices and forwards their events   *)
(* through a bounded queue (linux_input.rs, run_host); `client` injects    *)
(* them with one virtual device (run_client).  The chord Ctrl+Alt+Shift+   *)
(* Esc ends it from the grabbed keyboard.                                  *)
(*                                                                         *)
(* A report of a device is one key event and its SYN; motion, wheel and    *)
(* autorepeat hold nothing and are left out.  The kernel hands a reader    *)
(* whole reports only.  The connection is in the state between handshake   *)
(* and end; a record is an event, "heartbeat", "release" or "goodbye".     *)
(***************************************************************************)
EXTENDS Integers, Sequences, SequencesExt

CONSTANTS
  Devices,    \* the grabbed devices
  Keys,       \* [Devices -> keys and buttons of the device]
  Esc,        \* the last key of the chord
  Modifiers,  \* Ctrl, Shift, Alt: the set of the keys that count as each
  Capacity,   \* INPUT_QUEUE_CAPACITY
  Window,     \* records the connection holds
  MayStop,    \* TRUE: the host was given a number of reports to stop after
  MaxEvents,  \* bound on the user's key events
  MaxFaults   \* bound on processes killed or hung, devices lost, the network cut

ASSUME ManualAssumption ==
  /\ \A d \in Devices : Keys[d] \in SUBSET UNION {Keys[e] : e \in Devices}
  /\ Capacity \in Nat \ {0} /\ Window \in Nat \ {0} /\ MayStop \in BOOLEAN
  /\ MaxEvents \in Nat /\ MaxFaults \in Nat

VARIABLES
  physical,  \* [Devices -> keys the user holds down]
  kernel,    \* [Devices -> events its reader has not fetched]
  worker,    \* [Devices -> "running" or "ended", which lets go of the device]
  batch,     \* [Devices -> fetched events not yet in the queue]
  stop,      \* the flag the workers share
  queue,     \* the bounded channel from the workers to the host's loop
  pc,        \* of the host: "forwarding", "sending", "releasing", "leaving",
             \* "joining", "ended"
  out,       \* the record being sent
  pressed,   \* keys down among those that were taken from the queue
  graceful,  \* the loop ended without an error
  wire,      \* records on their way to the client
  cut,       \* the network is gone
  running,   \* the client's process is there
  hung,      \* it is stopped or stuck: it reads nothing, its kernel still answers
  pending,   \* the report the client's sink is collecting
  held,      \* keys the sink, and its virtual device, hold down
  events, faults,
  lost,      \* history: a device failed
  chord      \* history: the user made the chord on a grabbed device

capture == <<kernel, worker, batch, stop>>
host == <<pc, out, pressed, graceful>>
client == <<running, hung, pending, held>>
history == <<events, faults, lost, chord>>
vars == <<physical, capture, queue, host, wire, cut, client, history>>

Key(k, down) == [kind |-> "key", code |-> k, down |-> down]
Syn == [kind |-> "syn"]
Heartbeat == [kind |-> "heartbeat"]
ReleaseAll == [kind |-> "release"]
Goodbye == [kind |-> "goodbye"]

Init ==
  /\ physical = [d \in Devices |-> {}]
  /\ kernel = [d \in Devices |-> <<>>]
  /\ worker = [d \in Devices |-> "running"]
  /\ batch = [d \in Devices |-> <<>>]
  /\ stop = FALSE /\ queue = <<>>
  /\ pc = "forwarding" /\ out = Heartbeat /\ pressed = {} /\ graceful = FALSE
  /\ wire = <<>> /\ cut = FALSE
  /\ running = TRUE /\ hung = FALSE /\ pending = <<>> /\ held = {}
  /\ events = 0 /\ faults = 0 /\ lost = FALSE /\ chord = FALSE

-----------------------------------------------------------------------------
(* The user and the capture workers *)

\* emergency_chord_active, for the keys of a set
Chord(k, down, keys) == k = Esc /\ down /\ \A m \in Modifiers : m \cap keys # {}

\* The user presses or lets go of a key of a device that is still grabbed.
UserKey(d, k) ==
  LET down == k \notin physical[d] IN
  /\ events < MaxEvents /\ worker[d] = "running"
  /\ events' = events + 1
  /\ physical' = [physical EXCEPT ![d] = IF down THEN @ \cup {k} ELSE @ \ {k}]
  /\ kernel' = [kernel EXCEPT ![d] = @ \o <<Key(k, down), Syn>>]
  /\ chord' = (chord \/ Chord(k, down, physical[d]))
  /\ UNCHANGED <<worker, batch, stop, queue, host, wire, cut, client, faults, lost>>

\* capture_device, one turn: the flag, then everything the kernel has.
Fetch(d) ==
  /\ worker[d] = "running" /\ batch[d] = <<>> /\ ~stop /\ kernel[d] # <<>>
  /\ batch' = [batch EXCEPT ![d] = kernel[d]]
  /\ kernel' = [kernel EXCEPT ![d] = <<>>]
  /\ UNCHANGED <<physical, worker, stop, queue, host, wire, cut, client, history>>

\* A worker returns: its device is closed, with what was not fetched or sent.
WorkerEnds(d) ==
  /\ worker' = [worker EXCEPT ![d] = "ended"]
  /\ kernel' = [kernel EXCEPT ![d] = <<>>]
  /\ batch' = [batch EXCEPT ![d] = <<>>]

\* The flag is seen between two batches.
StopSeen(d) ==
  /\ worker[d] = "running" /\ batch[d] = <<>> /\ stop
  /\ WorkerEnds(d)
  /\ UNCHANGED <<physical, stop, queue, host, wire, cut, client, history>>

\* mutant: one event too many fits
FullLate == Len(queue) > Capacity

Full == Len(queue) >= Capacity

\* mutant: an event that does not fit is dropped
OverflowDrops(d) ==
  /\ batch' = [batch EXCEPT ![d] = Tail(@)]
  /\ UNCHANGED <<stop, worker, kernel>>

\* A queue that is full stops capture, on all devices.
Overflow(d) == stop' = TRUE /\ WorkerEnds(d)

\* try_send of one event; other workers send theirs in between.
Enqueue(d) ==
  /\ worker[d] = "running" /\ batch[d] # <<>>
  /\ IF Full
     THEN Overflow(d) /\ UNCHANGED queue
     ELSE /\ queue' = Append(queue, Head(batch[d]))
          /\ batch' = [batch EXCEPT ![d] = Tail(@)]
          /\ UNCHANGED <<stop, worker, kernel>>
  /\ UNCHANGED <<physical, host, wire, cut, client, history>>

\* The device is unplugged: its worker returns the error, the others go on.
DeviceLost(d) ==
  /\ faults < MaxFaults /\ worker[d] = "running" /\ batch[d] = <<>>
  /\ faults' = faults + 1 /\ lost' = TRUE
  /\ WorkerEnds(d)
  /\ UNCHANGED <<physical, stop, queue, host, wire, cut, client, events, chord>>

AllEnded == \A d \in Devices : worker[d] = "ended"

-----------------------------------------------------------------------------
(* The host's loop *)

HostElsewhere == <<physical, capture, cut, client, history>>

\* update_pressed_keys
Update(keys, e) ==
  IF e.kind # "key" THEN keys ELSE IF e.down THEN keys \cup {e.code} ELSE keys \ {e.code}

\* An event of the queue: the chord ends the loop, anything else is sent.
Take ==
  LET e    == Head(queue)
      keys == Update(pressed, e)
  IN
  /\ pc = "forwarding" /\ queue # <<>>
  /\ queue' = Tail(queue)
  /\ pressed' = keys
  /\ IF e.kind = "key" /\ Chord(e.code, e.down, keys)
     THEN pc' = "releasing" /\ graceful' = TRUE /\ UNCHANGED out
     ELSE pc' = "sending" /\ out' = e /\ UNCHANGED graceful
  /\ UNCHANGED <<HostElsewhere, wire>>

\* Nothing was captured for a second.
SendsHeartbeat ==
  /\ pc = "forwarding" /\ queue = <<>> /\ ~AllEnded
  /\ pc' = "sending" /\ out' = Heartbeat
  /\ UNCHANGED <<HostElsewhere, queue, pressed, graceful, wire>>

\* Every worker has ended and the queue is drained: an error.
Disconnected ==
  /\ pc = "forwarding" /\ queue = <<>> /\ AllEnded
  /\ pc' = "releasing"
  /\ UNCHANGED <<HostElsewhere, queue, out, pressed, graceful, wire>>

\* A write blocks while the connection is full, for as long as a client that
\* hangs leaves it so: send has no limit (transport.rs:236).  With nobody to read
\* it, it may succeed for a while.
Broken == cut \/ ~running
Written(record) ==
  \/ Broken /\ UNCHANGED wire
  \/ ~Broken /\ Len(wire) < Window /\ wire' = Append(wire, record)

\* The event is sent; after the last requested report the loop ends.
Sent ==
  /\ pc = "sending"
  /\ Written(out)
  /\ \/ pc' = "forwarding" /\ UNCHANGED graceful
     \/ MayStop /\ out = Syn /\ pc' = "releasing" /\ graceful' = TRUE
  /\ out' = Heartbeat
  /\ UNCHANGED <<HostElsewhere, queue, pressed>>

\* The last records are sent whether the loop failed or not, and may fail.
SendRelease ==
  /\ pc = "releasing"
  /\ Written(ReleaseAll)
  /\ pc' = IF graceful THEN "leaving" ELSE "joining"
  /\ UNCHANGED <<HostElsewhere, queue, out, pressed, graceful>>

SendGoodbye ==
  /\ pc = "leaving"
  /\ Written(Goodbye)
  /\ pc' = "joining"
  /\ UNCHANGED <<HostElsewhere, queue, out, pressed, graceful>>

\* A write fails: it ends the loop, and no more than that afterwards.
WriteFails ==
  /\ Broken /\ pc \in {"sending", "releasing", "leaving"}
  /\ pc' = CASE pc = "sending"   -> "releasing"
             [] pc = "releasing" -> IF graceful THEN "leaving" ELSE "joining"
             [] pc = "leaving"   -> "joining"
  /\ out' = Heartbeat
  /\ UNCHANGED <<HostElsewhere, queue, pressed, graceful, wire>>

\* mutant: the workers are waited for and not told
ShutdownWaits == stop' = stop

\* CaptureHandle::shutdown tells the workers
Shutdown == stop' = TRUE

Join ==
  /\ pc = "joining"
  /\ Shutdown
  /\ pc' = IF AllEnded THEN "ended" ELSE "joining"
  /\ UNCHANGED <<physical, kernel, worker, batch, queue, out, pressed, graceful,
                 wire, cut, client, history>>

\* The process is killed: the kernel lets go of its devices.
HostKilled ==
  /\ faults < MaxFaults /\ pc # "ended"
  /\ faults' = faults + 1
  /\ pc' = "ended"
  /\ worker' = [d \in Devices |-> "ended"]
  /\ kernel' = [d \in Devices |-> <<>>] /\ batch' = [d \in Devices |-> <<>>]
  /\ queue' = <<>> /\ out' = Heartbeat
  /\ UNCHANGED <<physical, stop, pressed, graceful, wire, cut, client, events, lost, chord>>

-----------------------------------------------------------------------------
(* The client's loop and its sink *)

ClientElsewhere == <<physical, capture, queue, host, cut, history>>

\* release_all: a report that is not complete is dropped, what is down released.
Released == pending' = <<>> /\ held' = {}

\* The loop ends, with or without an error: release_all; the virtual device and
\* the connection go.
Ends == running' = FALSE /\ UNCHANGED hung /\ Released /\ wire' = <<>>

Runs == running /\ ~hung

\* The keys a report presses and those it names: the last event of a key decides.
Presses(report) ==
  {report[i].code : i \in {j \in DOMAIN report : report[j].down /\
     \A l \in DOMAIN report : l > j => report[l].code # report[j].code}}
Names(report) == {report[i].code : i \in DOMAIN report}

\* SinkState::accept and commit: a report takes effect as a whole.
Inject(e) ==
  IF e = Syn THEN held' = (held \ Names(pending)) \cup Presses(pending) /\ pending' = <<>>
             ELSE pending' = Append(pending, e) /\ UNCHANGED held

Receive ==
  LET r == Head(wire) IN
  /\ Runs /\ ~cut /\ wire # <<>>
  /\ \/ r = Goodbye /\ Ends
     \/ /\ r # Goodbye
        /\ wire' = Tail(wire) /\ UNCHANGED <<running, hung>>
        /\ \/ r.kind \in {"key", "syn"} /\ Inject(r)
           \/ r = Heartbeat /\ UNCHANGED <<pending, held>>
           \/ r = ReleaseAll /\ Released
  /\ UNCHANGED ClientElsewhere

\* The virtual device refuses a report.
InjectFails ==
  /\ Runs /\ ~cut /\ wire # <<>> /\ Head(wire) = Syn
  /\ faults < MaxFaults
  /\ faults' = faults + 1
  /\ Ends
  /\ UNCHANGED <<physical, capture, queue, host, cut, events, lost, chord>>

\* The end of the stream.
HostGone ==
  /\ Runs /\ ~cut /\ wire = <<>> /\ pc = "ended"
  /\ Ends
  /\ UNCHANGED ClientElsewhere

\* mutant: only a connection that works has a limit
PeerTimeoutConnected ==
  /\ Runs /\ wire = <<>> /\ ~cut
  /\ Ends
  /\ UNCHANGED ClientElsewhere

\* Nothing was received for five seconds.
PeerTimeout ==
  /\ Runs /\ wire = <<>>
  /\ Ends
  /\ UNCHANGED ClientElsewhere

ClientKilled ==
  /\ faults < MaxFaults /\ running
  /\ faults' = faults + 1
  /\ Ends
  /\ UNCHANGED <<physical, capture, queue, host, cut, events, lost, chord>>

\* The client's process is stopped, or its virtual device never answers: it
\* stays connected and reads no more.
PeerHangs ==
  /\ faults < MaxFaults /\ Runs
  /\ faults' = faults + 1 /\ hung' = TRUE
  /\ UNCHANGED <<physical, capture, queue, host, wire, cut, running, pending, held,
                 events, lost, chord>>

NetworkCut ==
  /\ faults < MaxFaults /\ ~cut
  /\ faults' = faults + 1
  /\ cut' = TRUE /\ wire' = <<>>
  /\ UNCHANGED <<physical, capture, queue, host, client, events, lost, chord>>

-----------------------------------------------------------------------------

Worker(d) == Fetch(d) \/ StopSeen(d) \/ Enqueue(d)

Host ==
  \/ Take \/ SendsHeartbeat \/ Disconnected
  \/ Sent \/ SendRelease \/ SendGoodbye \/ WriteFails \/ Join

Client == Receive \/ HostGone

Fault ==
  \/ HostKilled \/ ClientKilled \/ PeerHangs \/ NetworkCut \/ InjectFails
  \/ \E d \in Devices : DeviceLost(d)

Next ==
  \/ \E d \in Devices : Worker(d) \/ (\E k \in Keys[d] : UserKey(d, k))
  \/ Host \/ Client \/ PeerTimeout \/ Fault

Spec == Init /\ [][Next]_vars

\* The threads and the host's loop keep running, and so does the client's until
\* it hangs, which nothing ends.  A write fails in the end when the network is cut
\* or the client's process is gone (TCP gives up), and so does a read of a cut one.
Fairness ==
  /\ \A d \in Devices : WF_vars(Worker(d))
  /\ WF_vars(Host) /\ SF_vars(WriteFails)
  /\ WF_vars(Client) /\ WF_vars(cut /\ PeerTimeout)

FairSpec == Spec /\ Fairness

-----------------------------------------------------------------------------
(* Properties *)

\* Types, with the queue and the connection within their bounds: events are
\* never kept elsewhere when the channel is full (linux_input.rs:348-353).
TypeOK ==
  /\ worker \in [Devices -> {"running", "ended"}]
  /\ Len(queue) <= Capacity /\ Len(wire) <= Window
  /\ pc \in {"forwarding", "sending", "releasing", "leaving", "joining", "ended"}
  /\ stop \in BOOLEAN /\ graceful \in BOOLEAN /\ cut \in BOOLEAN
  /\ running \in BOOLEAN /\ hung \in BOOLEAN
  /\ events \in 0..MaxEvents /\ faults \in 0..MaxFaults

\* The release of key k is on its way to the sink.
ReleaseUnderWay(k) ==
  LET up == Key(k, FALSE) IN
  \/ \E d \in Devices : Contains(kernel[d] \o batch[d], up)
  \/ Contains(queue \o wire \o pending, up)
  \/ pc = "sending" /\ out = up

\* No control sticks in a session: what the remote desktop holds down the user
\* holds down on some device, or its release is on the way; a queue that
\* overflows, which loses releases, ends the session ("instead of silently
\* dropping an ordered key/button transition", linux_input.rs:293).
NothingStuck ==
  ~stop /\ ~cut /\ ~lost /\ pc \in {"forwarding", "sending"} =>
    \A k \in held : ReleaseUnderWay(k) \/ \E d \in Devices : k \in physical[d]

\* The host is in a write to a peer that hangs, with the connection full.
Blocked ==
  /\ hung /\ running /\ ~cut /\ Len(wire) = Window
  /\ pc \in {"sending", "releasing", "leaving"}

\* Every device is let go after the chord, also when the client is killed, the
\* network is cut or the queue overflows before the chord is read: the one
\* exception is a host that stays for ever in a write to a peer that hangs
\* (Transport::send has no limit, transport.rs:236, and the loop that would see
\* the chord is the one that writes, main.rs:1959), so that "Press
\* Ctrl+Alt+Shift+Esc to stop exclusive forwarding and return input locally"
\* (README.md:121) is not true then.  A device that is lost may be
\* the keyboard, and is excepted.
ChordReturnsInput == chord ~> (AllEnded \/ lost \/ []Blocked)

\* However the host ends, and when the network is cut, a client that has not hung
\* holds nothing down in the end (the release and the timeout of run_client,
\* main.rs:2035).
ControlsFreed == pc = "ended" \/ cut ~> held = {} \/ hung
=============================================================================
