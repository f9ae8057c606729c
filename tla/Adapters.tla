------------------------------ MODULE Adapters ------------------------------
(***************************************************************************)
(* From the user's fingers to the remote desktop: InputCaptureAdapter and  *)
(* the pinch trackers of the host (seamless.rs, fed by the portal's        *)
(* signals, the EIS receiver of libei_capture.rs and the trackpad's own    *)
(* event device), and the client's injector (RemoteDesktopInjector and the *)
(* Sender of libei_inject.rs) with its ledgers, over several handoffs.     *)
(*                                                                         *)
(* The protocol between them is module Seamless; here an event that        *)
(* next_input returns is injected in the same step, and the events that    *)
(* are on their way at a return are lost in the step of the return.        *)
(***************************************************************************)
EXTENDS Integers, Sequences, FiniteSets

CONSTANTS Devices,          \* what the user works with: subset of {"pointer", "touch", "trackpad"}
          Deltas,           \* relative motions of the pointer, in half pixels
          MaxDelta,         \* MAX_AXIS_DELTA, in pixels
          MaxEvents,        \* bound: physical events of the user, by device
          MaxActivations    \* bound: activations of the barrier

ASSUME DevicesAssumption == Devices \subseteq {"pointer", "touch", "trackpad"}
ASSUME DeltasAssumption == Deltas \subseteq Int /\ MaxDelta \in Nat
ASSUME BoundsAssumption == MaxEvents \in [Devices -> Nat] /\ MaxActivations \in Nat

VARIABLES
    user,       \* what the user holds and touches, and which device is in use
    capturing,  \* the activation for which the compositor captures, or None
    signals,    \* the portal's signals that the adapter has not read
    eis,        \* the captured events in the EIS socket
    ring,       \* the trackpad's events in its kernel buffer
    adapter,    \* InputCaptureAdapter
    phase,      \* of the host's loop: "waiting", "entering", "forwarding", or why it ended
    injector,   \* the Sender's ledgers, and how far it has moved the pointer
    lastClick,  \* history: where the last button was meant to be pressed, and where it was
    stale,      \* history: the return before this handoff left something behind
    lost        \* history: the compositor has ended a capture by itself

vars == <<user, capturing, signals, eis, ring, adapter, phase, injector, lastClick, stale, lost>>

None == 0
Button == "button"          \* stands for every key and button of the user
LeftCtrl == "leftctrl"      \* the key of a zoom gesture
Slots == {0, 1}             \* two fingers
SameSlot == 2               \* no ABS_MT_SLOT in this report
NoPosition == -1

(* Why a session of captures ended: a signal of the portal, a release that *)
(* the portal refused, an event that the injector refused, by its kind, or *)
(* a read that failed.                                                     *)
Endings == {"signal", "release", "touch", "motion", "read"}

(* Half pixels to pixels as f64::round does: halves away from zero. *)
Round(h) == IF h >= 0 THEN (h + 1) \div 2 ELSE -((1 - h) \div 2)

-----------------------------------------------------------------------------
(* What the host forwards. A button carries, for the properties only, the  *)
(* place where the user pressed it: how far the user had moved since the   *)
(* crossing, in half pixels, and how many half pixels the rounding of the  *)
(* relative motions until then may have taken the pointer off that.        *)

Nowhere == [moved |-> 0, drift |-> 0]

Motion(d) == [kind |-> "motion", by |-> d]
Key(code, down, at) == [kind |-> "key", code |-> code, down |-> down, at |-> at]
Wheel == [kind |-> "wheel"]
Touch(what, id) == [kind |-> "touch", phase |-> what, id |-> id]

-----------------------------------------------------------------------------
(* PinchZoomTracker. Positions are left out: with two contacts a movement  *)
(* makes a step of the wheel or does not.                                  *)

NoPinch == [contacts |-> {}, held |-> FALSE]

PinchDown(pinch, id) == [pinch EXCEPT !.contacts = @ \union {id}]

Zooms(pinch, id, step) == step /\ id \in pinch.contacts /\ Cardinality(pinch.contacts) = 2

PinchMotion(pinch, id, step) == [pinch EXCEPT !.held = @ \/ Zooms(pinch, id, step)]

PinchMotionEvents(pinch, id, step) ==
    IF ~Zooms(pinch, id, step) THEN <<>>
    ELSE (IF pinch.held THEN <<>> ELSE <<Key(LeftCtrl, TRUE, Nowhere)>>) \o <<Wheel>>

PinchUp(pinch, id) ==
    LET left == pinch.contacts \ {id} IN [contacts |-> left, held |-> pinch.held /\ Cardinality(left) >= 2]

PinchUpEvents(pinch, id) ==
    IF pinch.held /\ ~PinchUp(pinch, id).held THEN <<Key(LeftCtrl, FALSE, Nowhere)>> ELSE <<>>

-----------------------------------------------------------------------------
(* RawTrackpadPinchCapture: contacts by slot. The kernel names the slot    *)
(* only when it is another one than in the report before; a contact counts *)
(* once both its coordinates have been seen.                               *)

NoContact == [id |-> None, forwarded |-> FALSE]
NoTrackpad == [slot |-> 0, contacts |-> [s \in Slots |-> NoContact], pinch |-> NoPinch]

(* One report, after the events of the ones before it. *)
Process(acc, report) ==
    LET raw == acc.raw
        slot == IF report.slot = SameSlot THEN raw.slot ELSE report.slot
        was == raw.contacts[slot]
        now == CASE report.what = "lift" -> NoContact
                 [] report.what = "land" -> [id |-> report.id, forwarded |-> report.full]
                 [] OTHER -> [was EXCEPT !.forwarded = was.id # None]
        pinch == CASE report.what = "lift" -> IF was.forwarded THEN PinchUp(raw.pinch, was.id) ELSE raw.pinch
                   [] now.forwarded /\ (report.what = "land" \/ ~was.forwarded) -> PinchDown(raw.pinch, now.id)
                   [] report.what = "move" /\ was.forwarded -> PinchMotion(raw.pinch, was.id, report.step)
                   [] OTHER -> raw.pinch
        out == CASE report.what = "lift" /\ was.forwarded -> PinchUpEvents(raw.pinch, was.id)
                 [] report.what = "move" /\ was.forwarded -> PinchMotionEvents(raw.pinch, was.id, report.step)
                 [] OTHER -> <<>>
    IN  [raw |-> [slot |-> slot, contacts |-> [raw.contacts EXCEPT ![slot] = now], pinch |-> pinch],
         out |-> acc.out \o out]

DrainTrackpad ==
    LET after[n \in 0 .. Len(ring)] ==
            IF n = 0 THEN [raw |-> adapter.raw, out |-> <<>>] ELSE Process(after[n - 1], ring[n])
    IN  after[Len(ring)]

-----------------------------------------------------------------------------
(* drain_batch: what becomes of the captured events of one dispatch.       *)

QueueMotion(a, d) == [a EXCEPT !.motion = @ + d]

\* mutant: motion is coalesced over the whole batch, transitions included
FlushMotionLater(a) == a

FlushMotion(a) ==
    IF a.motion = 0 THEN a ELSE [a EXCEPT !.pending = Append(@, Motion(a.motion)), !.motion = 0]

Queue(a, events) == LET b == FlushMotion(a) IN [b EXCEPT !.pending = @ \o events]

ResetMotion(a) == [a EXCEPT !.position = NoPosition, !.remainder = 0]

(* AbsoluteMotionTracker::update, in half pixels; no jump is as long as MAX_ABSOLUTE_DELTA. *)
TrackAbsolute(a, x) ==
    IF a.position = NoPosition THEN [a EXCEPT !.position = x, !.remainder = 0]
    ELSE LET d == x - a.position + a.remainder
         IN  QueueMotion([a EXCEPT !.position = x, !.remainder = d - 2 * Round(d)], Round(d))

(* Each relative motion is rounded by itself, what is lost is not kept; an *)
(* absolute one keeps it as the remainder.                                 *)
DrainEvent(a, event) ==
    CASE event.type = "absolute" -> TrackAbsolute(a, event.x)
      [] event.type = "relative" -> QueueMotion(a, Round(event.by))
      [] event.type = "button" -> Queue(a, <<Key(Button, event.down, event.at)>>)
      [] event.type = "smooth" -> Queue([a EXCEPT !.smooth = TRUE], <<Wheel>>)
      [] event.type = "click" -> Queue(a, IF a.smooth THEN <<>> ELSE <<Wheel>>)
      [] event.type = "frame" -> [FlushMotion(a) EXCEPT !.smooth = FALSE]
      [] event.type = "down" -> Queue([a EXCEPT !.pinch = PinchDown(@, event.id)], <<Touch("down", event.id)>>)
      [] event.type = "move" -> Queue([a EXCEPT !.pinch = PinchMotion(@, event.id, event.step)],
                                      Append(PinchMotionEvents(a.pinch, event.id, event.step),
                                             Touch("move", event.id)))
      [] event.type = "up" -> Queue([a EXCEPT !.pinch = PinchUp(@, event.id)],
                                    <<Touch("up", event.id)>> \o PinchUpEvents(a.pinch, event.id))

DrainBatch ==
    LET after[n \in 0 .. Len(eis)] == IF n = 0 THEN adapter ELSE DrainEvent(after[n - 1], eis[n])
    IN  FlushMotion(after[Len(eis)])

-----------------------------------------------------------------------------
(* The client's injector.                                                  *)

NoClick == [meant |-> Nowhere, was |-> 0]
NothingHeld == [pressed |-> {}, touches |-> {}, moved |-> 0]

(* The touches that a Sender with these ledgers injects. *)
TouchAllowed(ledger, event) ==
    event.kind = "touch" =>
        /\ event.phase = "down" => event.id \notin ledger.touches
        /\ event.phase = "move" => event.id \in ledger.touches

(* validate_axis_pair: the motions it injects. *)
WithinLimit(event) == event.kind = "motion" => event.by \in -MaxDelta .. MaxDelta

Accepts(ledger, event) == TouchAllowed(ledger, event) /\ WithinLimit(event)

(* A transition that the ledger already shows is not injected again. *)
Injected(ledger, event) ==
    CASE event.kind = "motion" -> [ledger EXCEPT !.moved = @ + event.by]
      [] event.kind = "key" -> [ledger EXCEPT !.pressed = IF event.down THEN @ \union {event.code}
                                                                        ELSE @ \ {event.code}]
      [] event.kind = "touch" -> [ledger EXCEPT !.touches = IF event.phase = "up" THEN @ \ {event.id}
                                                                                  ELSE @ \union {event.id}]
      [] OTHER -> ledger

(* The event goes to the client and its injector; a refused one ends the session. *)
Forward(event) ==
    /\ IF Accepts(injector, event) THEN injector' = Injected(injector, event) /\ phase' = phase
                                   ELSE injector' = NothingHeld /\ phase' = event.kind
    /\ lastClick' = IF event.kind = "key" /\ event.code = Button /\ event.down
                    THEN [meant |-> event.at, was |-> 2 * injector.moved] ELSE lastClick

(* take_pending on the adapter's state a: forward its first event, if there is one. *)
TakePending(a) ==
    IF a.pending = <<>> THEN adapter' = a /\ UNCHANGED <<injector, phase, lastClick>>
    ELSE adapter' = [a EXCEPT !.pending = Tail(@)] /\ Forward(Head(a.pending))

-----------------------------------------------------------------------------
Init ==
    /\ \E device \in Devices :
         user = [device |-> device, events |-> 0, activations |-> 0, down |-> FALSE, fingers |-> {},
                 slots |-> [s \in Slots |-> None], slot |-> 0, x |-> NoPosition,
                 moved |-> 0, rounded |-> 0, drift |-> 0]
    /\ capturing = None /\ signals = <<>> /\ eis = <<>> /\ ring = <<>>
    /\ adapter = [active |-> None, expected |-> None, position |-> NoPosition, remainder |-> 0, motion |-> 0,
                  smooth |-> FALSE, pinch |-> NoPinch, raw |-> NoTrackpad, pending |-> <<>>]
    /\ phase = "waiting" /\ injector = NothingHeld
    /\ lastClick = NoClick /\ stale = FALSE /\ lost = FALSE

-----------------------------------------------------------------------------
(* The user and the compositor. Only what happens while the compositor     *)
(* captures goes into the EIS socket; the trackpad's device is read past   *)
(* the compositor and reports always.                                      *)

Acts(device) == user.device = device /\ user.events < MaxEvents[device] /\ phase \notin Endings
Hosts == <<signals, adapter, phase, injector, lastClick, stale, lost>>

Captured(event, now) ==
    /\ user' = [now EXCEPT !.events = @ + 1]
    /\ eis' = IF capturing = None THEN eis ELSE Append(eis, event)
    /\ UNCHANGED <<Hosts, capturing, ring>>

Jump(x) == IF user.x = NoPosition THEN 0 ELSE x - user.x

MovesTo(x) ==
    /\ Acts("pointer") /\ capturing # None
    /\ Captured([type |-> "absolute", x |-> x],
                [user EXCEPT !.x = x, !.moved = @ + Jump(x), !.rounded = @ + Jump(x)])

(* A motion of whole pixels is exact; any other adds a half to the drift. *)
MovesBy(d) ==
    /\ Acts("pointer") /\ capturing # None
    /\ Captured([type |-> "relative", by |-> d],
                [user EXCEPT !.moved = @ + d, !.rounded = @ + 2 * Round(d), !.drift = @ + (d % 2)])

Presses ==
    /\ Acts("pointer") /\ ~user.down
    /\ Captured([type |-> "button", down |-> TRUE, at |-> [moved |-> user.moved, drift |-> user.drift]],
                [user EXCEPT !.down = capturing # None])

Releases ==
    /\ Acts("pointer") /\ user.down
    /\ Captured([type |-> "button", down |-> FALSE, at |-> Nowhere], [user EXCEPT !.down = FALSE])

Scrolls(how) ==
    /\ Acts("pointer") /\ capturing # None
    /\ Captured([type |-> how], user)

FrameEnds ==
    /\ Acts("pointer") /\ capturing # None /\ eis # <<>>
    /\ Captured([type |-> "frame"], user)

(* A touch that began before the capture, or in an earlier one, is not part of it. *)
TouchesDown(id) ==
    /\ Acts("touch") /\ capturing # None /\ id \notin user.fingers
    /\ Captured([type |-> "down", id |-> id], [user EXCEPT !.fingers = @ \union {id}])

TouchesMove(id, step) ==
    /\ Acts("touch") /\ capturing # None /\ id \in user.fingers
    /\ Captured([type |-> "move", id |-> id, step |-> step], user)

TouchesUp(id) ==
    /\ Acts("touch") /\ capturing # None /\ id \in user.fingers
    /\ Captured([type |-> "up", id |-> id], [user EXCEPT !.fingers = @ \ {id}])

Report(slot, what, id, full, step) ==
    /\ Acts("trackpad")
    /\ ring' = Append(ring, [slot |-> IF slot = user.slot THEN SameSlot ELSE slot, what |-> what, id |-> id,
                             full |-> full, step |-> step])
    /\ user' = [user EXCEPT !.events = @ + 1, !.slot = slot,
                            !.slots[slot] = IF what = "lift" THEN None ELSE id]
    /\ UNCHANGED <<Hosts, capturing, eis>>

FingerLands(slot, full) ==
    /\ user.slots[slot] = None /\ \A s \in Slots : s < slot => user.slots[s] # None
    /\ Report(slot, "land", user.events + 1, full, FALSE)

FingerMoves(slot, step) == user.slots[slot] # None /\ Report(slot, "move", user.slots[slot], TRUE, step)
FingerLifts(slot) == user.slots[slot] # None /\ Report(slot, "lift", None, TRUE, FALSE)

User ==
    \/ \E x \in 0 .. 3 : MovesTo(x)
    \/ \E d \in Deltas : MovesBy(d)
    \/ Presses \/ Releases \/ FrameEnds
    \/ \E how \in {"smooth", "click"} : Scrolls(how)
    \/ \E id \in {1, 2}, step \in BOOLEAN : TouchesMove(id, step)
    \/ \E id \in {1, 2} : TouchesDown(id) \/ TouchesUp(id)
    \/ \E slot \in Slots, b \in BOOLEAN : FingerLands(slot, b) \/ FingerMoves(slot, b)
    \/ \E slot \in Slots : FingerLifts(slot)

(* The pointer reaches the barrier: every captured coordinate is counted from here. *)
PortalActivates ==
    /\ capturing = None /\ phase = "waiting" /\ user.activations < MaxActivations
    /\ capturing' = user.activations + 1
    /\ user' = [user EXCEPT !.activations = @ + 1, !.down = FALSE, !.fingers = {}, !.x = NoPosition,
                         !.moved = 0, !.rounded = 0, !.drift = 0]
    /\ signals' = Append(signals, [type |-> "Activated", id |-> capturing'])
    /\ UNCHANGED <<eis, ring, adapter, phase, injector, lastClick, stale, lost>>

(* The compositor ends the capture by itself; the signal may omit the activation. *)
PortalDeactivates ==
    /\ capturing # None /\ phase \notin Endings
    /\ \E id \in {capturing, None} : signals' = Append(signals, [type |-> "Deactivated", id |-> id])
    /\ capturing' = None /\ lost' = TRUE
    /\ UNCHANGED <<user, eis, ring, adapter, phase, injector, lastClick, stale>>

-----------------------------------------------------------------------------
(* The adapter.                                                            *)

IsExpectedReleaseDeactivation(observed) == adapter.expected # None /\ observed \in {None, adapter.expected}

(* wait_for_left_activation, one signal. *)
WaitForActivation ==
    /\ phase = "waiting" /\ signals # <<>>
    /\ signals' = Tail(signals)
    /\ LET signal == Head(signals) IN
       \/ /\ signal.type = "Activated"
          /\ adapter' = ResetMotion([adapter EXCEPT !.active = signal.id])
          /\ phase' = "entering"
       \/ /\ signal.type = "Deactivated" /\ IsExpectedReleaseDeactivation(signal.id)
          /\ adapter' = [adapter EXCEPT !.expected = None]
          /\ phase' = phase
       \/ /\ signal.type = "Deactivated" /\ ~IsExpectedReleaseDeactivation(signal.id)
          /\ phase' = "signal"
          /\ UNCHANGED adapter
    /\ UNCHANGED <<user, capturing, eis, ring, injector, lastClick, stale, lost>>

\* mutant: fingers that were down before the crossing stay in the gesture
BeginRemoteInputKeeps ==
    /\ phase = "entering" /\ phase' = "forwarding"
    /\ ring' = <<>>
    /\ UNCHANGED <<user, capturing, signals, eis, adapter, injector, lastClick, stale, lost>>

(* begin_remote_input: the trackpad's buffer and contacts are dropped; nothing else is. *)
BeginRemoteInput ==
    /\ phase = "entering" /\ phase' = "forwarding"
    /\ ring' = <<>>
    /\ adapter' = [adapter EXCEPT !.raw = NoTrackpad]
    /\ UNCHANGED <<user, capturing, signals, eis, injector, lastClick, stale, lost>>

(* next_input: what is pending, then the trackpad, then the signals, then the EIS socket. *)
NextPending ==
    /\ phase = "forwarding" /\ adapter.pending # <<>>
    /\ TakePending(adapter)
    /\ UNCHANGED <<user, capturing, signals, eis, ring, stale, lost>>

NextTrackpad ==
    /\ phase = "forwarding" /\ adapter.pending = <<>> /\ ring # <<>>
    /\ ring' = <<>>
    /\ LET drained == DrainTrackpad
       IN  TakePending([adapter EXCEPT !.raw = drained.raw, !.pending = drained.out])
    /\ UNCHANGED <<user, capturing, signals, eis, stale, lost>>

NextSignal ==
    /\ phase = "forwarding" /\ adapter.pending = <<>> /\ ring = <<>> /\ signals # <<>>
    /\ signals' = Tail(signals)
    /\ phase' = IF Head(signals).type = "Deactivated" THEN "signal" ELSE phase
    /\ UNCHANGED <<user, capturing, eis, ring, adapter, injector, lastClick, stale, lost>>

NextBatch ==
    /\ phase = "forwarding" /\ adapter.pending = <<>> /\ ring = <<>> /\ signals = <<>> /\ eis # <<>>
    /\ eis' = <<>>
    /\ TakePending(DrainBatch)
    /\ UNCHANGED <<user, capturing, signals, ring, stale, lost>>

\* mutant: the adapter forgets that it asked for the release itself
ReleasedForgotten(a) == [ResetMotion(a) EXCEPT !.active = None, !.motion = 0]

Released(a) == [ResetMotion(a) EXCEPT !.active = None, !.motion = 0, !.expected = a.active]

(* return_to_local and the client's release_all; the first events of the   *)
(* queue were on their way and are dropped at the client. A release of an  *)
(* activation that the compositor has ended already may be refused.        *)
ReturnToLocal ==
    /\ phase = "forwarding"
    /\ \E sent \in 0 .. Len(adapter.pending) :
         LET left == SubSeq(adapter.pending, sent + 1, Len(adapter.pending)) IN
         /\ adapter' = Released([adapter EXCEPT !.pending = left])
         /\ stale' = (left # <<>> \/ eis # <<>> \/ adapter.pinch # NoPinch)
    /\ injector' = NothingHeld
    /\ phase' = "waiting"
    /\ IF capturing = adapter.active
       THEN capturing' = None /\ signals' = Append(signals, [type |-> "Deactivated", id |-> capturing])
       ELSE UNCHANGED <<capturing, signals>>
    /\ lastClick' = NoClick
    /\ UNCHANGED <<user, eis, ring, lost>>

ReturnRefused ==
    /\ phase = "forwarding" /\ capturing # adapter.active
    /\ phase' = "release" /\ injector' = NothingHeld
    /\ UNCHANGED <<user, capturing, signals, eis, ring, adapter, lastClick, stale, lost>>

(* A read fails: the trackpad that goes away is reset or drained, or the   *)
(* connection to the portal or to EIS is gone. The error ends the session, *)
(* and with it whatever the client holds.                                  *)
ReadFails ==
    /\ phase \in {"waiting", "entering"} \/ (phase = "forwarding" /\ adapter.pending = <<>>)
    /\ phase' = "read" /\ injector' = NothingHeld
    /\ UNCHANGED <<user, capturing, signals, eis, ring, adapter, lastClick, stale, lost>>

Adapter ==
    \/ WaitForActivation \/ BeginRemoteInput \/ ReturnToLocal \/ ReturnRefused
    \/ NextPending \/ NextTrackpad \/ NextSignal \/ NextBatch \/ ReadFails

Next == User \/ PortalActivates \/ PortalDeactivates \/ Adapter

Spec == Init /\ [][Next]_vars

-----------------------------------------------------------------------------
(* Whether the control will be held once the events of the queue are injected: *)
(* the last one about it decides, or the ledger.                              *)
Effective(code, queue) ==
    LET About(i) == queue[i].kind = "key" /\ queue[i].code = code
    IN  \/ \E i \in DOMAIN queue : About(i) /\ queue[i].down /\ \A j \in DOMAIN queue : About(j) => j <= i
        \/ code \in injector.pressed /\ \A i \in DOMAIN queue : ~About(i)

(* The same for a button, with the events that are still in the EIS socket. *)
EffectiveButton ==
    LET About(i) == eis[i].type = "button"
    IN  \/ \E i \in DOMAIN eis : About(i) /\ eis[i].down /\ \A j \in DOMAIN eis : About(j) => j <= i
        \/ Effective(Button, adapter.pending) /\ \A i \in DOMAIN eis : ~About(i)

FingerOnTrackpad == ring # <<>> \/ \E s \in Slots : user.slots[s] # None

(* While a handoff runs that nothing stale was left to, what the remote    *)
(* desktop is about to hold is what the user holds: a button is down       *)
(* exactly while the user holds it since the crossing, Ctrl exactly while  *)
(* a pinch lasts, and no pinch of the trackpad outlasts its fingers - even *)
(* when its first report names no slot (seamless.rs:421, 436, 549, 576).   *)
HeldMatchesUser ==
    phase = "forwarding" /\ ~stale =>
        /\ capturing = adapter.active => (EffectiveButton <=> user.down)
        /\ Effective(LeftCtrl, adapter.pending) <=> adapter.pinch.held \/ adapter.raw.pinch.held
        /\ adapter.raw.pinch.held => FingerOnTrackpad

(* No session of captures ends because the adapter let go of the pointer   *)
(* itself: neither a signal nor a refused release ends one, in whatever    *)
(* step the Deactivated that answers the adapter's own release is read,    *)
(* unless the compositor has ended a capture; and no touch of a handoff    *)
(* that nothing stale was left to is refused (seamless.rs:913, 959). What  *)
(* else ends a session, a read that fails (seamless.rs:560, 577) or motion *)
(* beyond the injector's limit (libei_inject.rs:700), it says nothing of.  *)
NoFalseLoss == phase \in {"signal", "release", "touch"} => lost \/ stale

(* The pointer, in half pixels, is where the user was: to half a pixel,    *)
(* and half a pixel more for every relative motion that had a fraction.    *)
Near(at, was) == at.moved - was \in -(1 + at.drift) .. 1 + at.drift

(* Coalescing never carries a motion past a button: when the button is     *)
(* pressed the pointer has moved as far as the user had (the comments at   *)
(* seamless.rs:51 and 853), but for what rounding loses: half a pixel of   *)
(* absolute motion in all, whose remainder is kept (seamless.rs:377-389),  *)
(* and half a pixel of each fractional relative motion, which is rounded   *)
(* by itself (seamless.rs:771-773).                                        *)
ClickWhereMeant == ~stale => Near(lastClick.meant, lastClick.was)
=============================================================================
