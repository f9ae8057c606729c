-------------------------- MODULE AdaptersInvariant --------------------------
(***************************************************************************)
(* The inductive invariant of Adapters.                                    *)
(*                                                                         *)
(* What is on the way from the user to the injector is a queue of steps.   *)
(* The events that the adapter has pending lead the injector from its      *)
(* ledgers as they are to the ledgers of the future; the captured events   *)
(* in the EIS socket lead from what those ledgers and the adapter's        *)
(* trackers stand for (Behind) to what the user holds now; and the         *)
(* trackpad's reports lead from fingers its tracker knows to those that    *)
(* are on it.  A handoff that nothing stale was left to is one where the   *)
(* three runs exist.                                                       *)
(***************************************************************************)
EXTENDS Adapters

-----------------------------------------------------------------------------
(* Types                                                                   *)

Controls == {Button, LeftCtrl}

Places == [moved : Int, drift : Nat]

OutEvents ==
    [kind : {"motion"}, by : Int]
      \union [kind : {"key"}, code : Controls, down : BOOLEAN, at : Places]
      \union {Wheel}
      \union [kind : {"touch"}, phase : {"down", "move", "up"}, id : Nat]

TouchEvents == [type : {"down", "up"}, id : Nat] \union [type : {"move"}, id : Nat, step : BOOLEAN]

PointerEvents ==
    [type : {"absolute"}, x : Nat] \union [type : {"relative"}, by : Int]
      \union [type : {"button"}, down : BOOLEAN, at : Places] \union [type : {"smooth", "click", "frame"}]

EisEvents == TouchEvents \union PointerEvents

Reports == [slot : Slots \union {SameSlot}, what : {"land", "move", "lift"}, id : Nat,
            full : BOOLEAN, step : BOOLEAN]

SignalSet == [type : {"Activated", "Deactivated"}, id : Nat]

Pinches == [contacts : SUBSET Nat, held : BOOLEAN]
Raws == [slot : Slots, contacts : [Slots -> [id : Nat, forwarded : BOOLEAN]], pinch : Pinches]

AdapterStates ==
    [active : Nat, expected : Nat, position : Int, remainder : Int, motion : Int, smooth : BOOLEAN,
     pinch : Pinches, raw : Raws, pending : Seq(OutEvents)]

Ledgers == [pressed : SUBSET Controls, touches : SUBSET Nat, moved : Int]

Users == [device : Devices, events : Nat, activations : Nat, down : BOOLEAN, fingers : SUBSET Nat,
          slots : [Slots -> Nat], slot : Slots, x : Int,
          moved : Int, rounded : Int, drift : Nat]

Typing ==
    /\ user \in Users
    /\ capturing \in {None, user.activations}
    /\ signals \in Seq(SignalSet) /\ eis \in Seq(EisEvents) /\ ring \in Seq(Reports)
    /\ adapter \in AdapterStates
    /\ phase \in {"waiting", "entering", "forwarding"} \union Endings
    /\ injector \in Ledgers
    /\ stale \in BOOLEAN /\ lost \in BOOLEAN

-----------------------------------------------------------------------------
(* The portal's signals: they alternate, in the order of the activations,  *)
(* and say what the compositor captures.                                   *)

IsActivated(signal) == signal.type = "Activated"
IsDeactivated(signal) == signal.type = "Deactivated"
LastSignal == signals[Len(signals)]
Announced == signals # <<>> /\ IsActivated(LastSignal) /\ LastSignal.id = capturing
Crossed == phase \in {"entering", "forwarding"}

SignalsAlternate ==
    /\ \A i \in DOMAIN signals : i + 1 \in DOMAIN signals => signals[i].type # signals[i + 1].type
    /\ \A i, j \in DOMAIN signals :
         i < j /\ IsActivated(signals[i]) /\ IsActivated(signals[j]) => signals[i].id < signals[j].id
    /\ \A i \in DOMAIN signals : IsActivated(signals[i]) => signals[i].id \in 1 .. user.activations

(* A host that waits reads of every capture in the signals; one that has   *)
(* been activated finds a signal when the capture is no longer its own.    *)
SignalsMatch ==
    /\ phase = "waiting" =>
         /\ capturing = None => signals = <<>> \/ IsDeactivated(LastSignal)
         /\ capturing # None => Announced
    /\ Crossed =>
         /\ adapter.active # None
         /\ capturing = adapter.active => signals = <<>>
         /\ capturing # adapter.active => signals # <<>> /\ IsDeactivated(signals[1])
         /\ capturing = None => IsDeactivated(LastSignal)
         /\ capturing \notin {None, adapter.active} => Announced

(* While the compositor ends nothing by itself, a Deactivated is the       *)
(* answer to the adapter's release, and comes before the next activation.  *)
AnswersOnly ==
    ~lost =>
        /\ phase = "waiting" =>
             \A i \in DOMAIN signals : IsDeactivated(signals[i]) =>
               i = 1 /\ adapter.expected # None /\ signals[i].id = adapter.expected
        /\ Crossed => signals = <<>>

-----------------------------------------------------------------------------
(* The three runs                                                          *)

(* A queue of events leads from a state to another by these steps.         *)
Run(steps, states, queue, u, v) ==
    \E s \in [0 .. Len(queue) -> states] :
        /\ s[0] = u /\ s[Len(queue)] = v
        /\ \A i \in 1 .. Len(queue) : <<s[i - 1], queue[i], s[i]>> \in steps

(* The injector takes an event: it refuses no touch, and a button is       *)
(* pressed near to where it was meant to be. (A motion beyond the limit is *)
(* a step too: the session ends there, and with it the handoff.)           *)
InjectorStep(l, e, m) ==
    /\ TouchAllowed(l, e) /\ m = Injected(l, e)
    /\ e.kind = "key" /\ e.code = Button /\ e.down => Near(e.at, 2 * l.moved)

InjectorSteps == {x \in Ledgers \X OutEvents \X Ledgers : InjectorStep(x[1], x[2], x[3])}
InjectorRun(queue, l, m) == Run(InjectorSteps, Ledgers, queue, l, m)

(* What the user does in a captured event; here moved is where the pointer *)
(* is when every relative motion is rounded by itself.                     *)
UserStates == [down : BOOLEAN, fingers : SUBSET Nat, x : Int, moved : Int]

UserStep(u, e, v) ==
    CASE e.type = "absolute" ->
           v = [u EXCEPT !.x = e.x, !.moved = IF u.x = NoPosition THEN @ ELSE @ + e.x - u.x]
      [] e.type = "relative" -> v = [u EXCEPT !.moved = @ + 2 * Round(e.by)]
      [] e.type = "button" -> /\ v = [u EXCEPT !.down = e.down]
                              /\ e.down => e.at.moved - u.moved \in -e.at.drift .. e.at.drift
      [] e.type = "down" -> v = [u EXCEPT !.fingers = @ \union {e.id}] /\ e.id \notin u.fingers
      [] e.type = "move" -> v = u /\ e.id \in u.fingers
      [] e.type = "up" -> v = [u EXCEPT !.fingers = @ \ {e.id}] /\ e.id \in u.fingers
      [] OTHER -> v = u

UserSteps == {x \in UserStates \X EisEvents \X UserStates : UserStep(x[1], x[2], x[3])}
UserRun(queue, u, v) == Run(UserSteps, UserStates, queue, u, v)

UserState == [down |-> user.down, fingers |-> user.fingers, x |-> user.x, moved |-> user.rounded]

(* The user that the ledgers and the adapter's trackers stand for.         *)
Behind(a, l) == [down |-> Button \in l.pressed, fingers |-> l.touches, x |-> a.position,
                 moved |-> 2 * (l.moved + a.motion) + a.remainder]

(* The kernel's reports: a finger lands in the lowest free slot, and the   *)
(* report names its slot only when it is another than the one before.      *)
Tracks == [slot : Slots, slots : [Slots -> Nat]]

SlotOf(t, r) == IF r.slot = SameSlot THEN t.slot ELSE r.slot

ReportStep(t, r, v) ==
    LET s == SlotOf(t, r) IN
    /\ v = [slot |-> s, slots |-> [t.slots EXCEPT ![s] = IF r.what = "lift" THEN None ELSE r.id]]
    /\ r.slot # t.slot
    /\ r.what = "land" => t.slots[s] = None /\ r.id # None /\ (s = 1 => t.slots[0] # None)
    /\ r.what # "land" => t.slots[s] # None
    /\ r.what = "move" => r.id # None

ReportSteps == {x \in Tracks \X Reports \X Tracks : ReportStep(x[1], x[2], x[3])}
ReportRun(queue, t, v) == Run(ReportSteps, Tracks, queue, t, v)

OnTrackpad == [slot |-> user.slot, slots |-> user.slots]

(* A contact of the tracker is a finger in its slot; until a report names  *)
(* a slot, what the tracker has in slot 0 may be the finger in slot 1,     *)
(* beside one in slot 0 that it does not know.                             *)
Tracked(raw, t) ==
    /\ \A s \in Slots : raw.contacts[s].id # None => t.slots[s] # None
    /\ \A s \in Slots : raw.contacts[s].forwarded => raw.contacts[s].id # None
    /\ \A c \in raw.pinch.contacts : \E s \in Slots : raw.contacts[s].forwarded /\ raw.contacts[s].id = c
    /\ raw.pinch.held => raw.pinch.contacts # {}
    /\ raw.slot # t.slot =>
         /\ raw.slot = 0 /\ t.slot = 1 /\ raw.contacts[1].id = None
         /\ raw.contacts[0].id # None => t.slots[1] # None

-----------------------------------------------------------------------------
(* The invariant                                                           *)

(* One device: its events alone are on the way, and its trackers alone     *)
(* have seen any.                                                          *)
OneDevice ==
    /\ user.device # "touch" => adapter.pinch = NoPinch /\ \A i \in DOMAIN eis : eis[i] \in PointerEvents
    /\ user.device # "trackpad" => ring = <<>> /\ adapter.raw = NoTrackpad
    /\ user.device = "trackpad" => eis = <<>>

(* Between two batches nothing waits to be coalesced.                      *)
Coalesced == adapter.motion = 0

RemainderOK(a) == a.remainder \in -1 .. 1 /\ (a.position = NoPosition => a.remainder = 0)

(* What the rounding may have lost bounds what it has lost.                *)
DriftBounded == user.moved - user.rounded \in -user.drift .. user.drift

(* An adapter that has not begun a handoff: as new, or as a return that    *)
(* left nothing behind made it.                                            *)
AdapterClean ==
    ~stale /\ phase \in {"waiting", "entering"} =>
        /\ adapter.pending = <<>> /\ adapter.pinch = NoPinch
        /\ adapter.position = NoPosition /\ adapter.remainder = 0
        /\ injector = NothingHeld

(* A user that has done nothing since the crossing.                        *)
FreshUser == user.down = FALSE /\ user.fingers = {} /\ user.x = NoPosition /\ user.rounded = 0

(* A capture of which nothing is in the socket, and nothing has been       *)
(* drained, is one in which nothing was done.                              *)
FreshCapture ==
    /\ phase \in {"waiting", "entering"} /\ capturing # None /\ eis = <<>> => FreshUser
    /\ phase = "forwarding" /\ capturing \notin {None, adapter.active} /\ eis = <<>> => FreshUser

(* The socket holds events of this capture alone, unless the compositor    *)
(* has ended an earlier one that is still to be read of.                   *)
Overtaken == \E i, j \in DOMAIN signals : i < j /\ IsActivated(signals[i]) /\ IsDeactivated(signals[j])

SocketBefore ==
    ~stale =>
        /\ phase = "waiting" /\ eis # <<>> => \E i \in DOMAIN signals : IsActivated(signals[i])
        /\ phase = "waiting" /\ capturing # None =>
             Overtaken \/ UserRun(eis, Behind(adapter, NothingHeld), UserState)
        /\ phase = "entering" /\ capturing = adapter.active =>
             UserRun(eis, Behind(adapter, NothingHeld), UserState)

(* What the adapter a will make the injector hold, from ledgers l to m.    *)
Leads(a, l, m) ==
    /\ m \in Ledgers /\ InjectorRun(a.pending, l, m)
    /\ LeftCtrl \in m.pressed <=> a.pinch.held \/ a.raw.pinch.held

InHandoff ==
    ~stale /\ phase = "forwarding" =>
        \E m : /\ Leads(adapter, injector, m)
               /\ capturing = adapter.active => UserRun(eis, Behind(adapter, m), UserState)

OnThePad ==
    phase = "forwarding" => \E t \in Tracks : Tracked(adapter.raw, t) /\ ReportRun(ring, t, OnTrackpad)

AdaptersInv ==
    /\ Typing
    /\ SignalsAlternate /\ SignalsMatch /\ AnswersOnly
    /\ OneDevice /\ Coalesced /\ RemainderOK(adapter) /\ DriftBounded
    /\ AdapterClean /\ FreshCapture /\ SocketBefore
    /\ InHandoff /\ OnThePad
    /\ ClickWhereMeant /\ NoFalseLoss
=============================================================================
