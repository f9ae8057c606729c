------------------------------ MODULE Handoff ------------------------------
(***************************************************************************)
(* The handoff controller of src/src/handoff.rs: the geometry of two       *)
(* logical displays and the three-state machine that decides which of them *)
(* the physical pointer is on.                                             *)
(*                                                                         *)
(* A layout g is the configuration of one HandoffController:               *)
(*   g.local, g.peer   the two logical display rectangles,                 *)
(*   g.edge            the edge of the local display that adjoins the peer.*)
(* The field exit_edge of the code's states always holds g.edge (it is     *)
(* only ever assigned from peer_edge), so the states here leave it out.    *)
(***************************************************************************)
EXTENDS Integers

VARIABLE controller   \* HandoffController.state

Edges == {"Left", "Right"}

\* Largest i32: every coordinate of a validated rectangle stays below it.
MaxI32 == 2147483647
MinI32 == -MaxI32 - 1

-----------------------------------------------------------------------------
(***************************************************************************)
(* Geometry.                                                               *)
(***************************************************************************)

Opposite(e) == IF e = "Left" THEN "Right" ELSE "Left"

Right(r)  == r.x + r.width - 1
Bottom(r) == r.y + r.height - 1

Point == [x : Int, y : Int]

\* What Rect::new accepts: a non-empty display whose inclusive right and
\* bottom edges are still 32-bit coordinates.
Rect == {r \in [x : MinI32 .. MaxI32, y : MinI32 .. MaxI32,
                width : Nat \ {0}, height : Nat \ {0}] :
            /\ r.width <= MaxI32 /\ Right(r) <= MaxI32
            /\ r.height <= MaxI32 /\ Bottom(r) <= MaxI32}

Layouts == [local : Rect, peer : Rect, edge : Edges]

Contains(r, p) == /\ r.x <= p.x /\ p.x <= Right(r)
                  /\ r.y <= p.y /\ p.y <= Bottom(r)

EdgeX(r, e) == IF e = "Left" THEN r.x ELSE Right(r)

Clamp(v, lo, hi) == IF v < lo THEN lo ELSE IF v > hi THEN hi ELSE v

\* mutant: rounding down
ScaleOffsetDown(offset, sourceSpan, destSpan) == (offset * destSpan) \div sourceSpan

\* Scale an offset of a span onto another span, rounding half up.
ScaleOffset(offset, sourceSpan, destSpan) ==
  (offset * destSpan + (sourceSpan \div 2)) \div sourceSpan

\* mutant: lengths in place of spans
MapCoordinateByLength(v, sourceStart, sourceLen, destStart, destLen) ==
  destStart + ScaleOffset(Clamp(v - sourceStart, 0, sourceLen), sourceLen, destLen)

MapCoordinate(v, sourceStart, sourceLen, destStart, destLen) ==
  IF sourceLen = 1 \/ destLen = 1
  THEN destStart
  ELSE destStart + ScaleOffset(Clamp(v - sourceStart, 0, sourceLen - 1),
                               sourceLen - 1, destLen - 1)

LocalInteriorOnBarrier(g, boundary) == boundary   \* mutant

\* One pixel inside the local display, so that the released pointer does not
\* lie on the barrier again; a one-pixel-wide display has no inside.
LocalInterior(g, boundary) ==
  [x |-> IF g.local.width = 1 THEN boundary.x
         ELSE IF g.edge = "Left" THEN g.local.x + 1
         ELSE Right(g.local) - 1,
   y |-> boundary.y]

\* A pointer position that may start a handoff, and where it enters the peer.
OnDepartureEdge(g, p) == Contains(g.local, p) /\ p.x = EdgeX(g.local, g.edge)

EntryPointUnscaled(g, p) ==   \* mutant: the offset is not scaled
  [x |-> EdgeX(g.peer, Opposite(g.edge)), y |-> g.peer.y + (p.y - g.local.y)]

EntryPoint(g, p) ==
  [x |-> EdgeX(g.peer, Opposite(g.edge)),
   y |-> MapCoordinate(p.y, g.local.y, g.local.height, g.peer.y, g.peer.height)]

\* A peer position that may end a handoff, and where it re-enters locally.
OnReturnEdge(g, e, p) ==
  /\ e = Opposite(g.edge)
  /\ p.x = EdgeX(g.peer, e)
  /\ g.peer.y <= p.y /\ p.y <= Bottom(g.peer)

ReturnPoint(g, p) ==
  LocalInterior(g,
    [x |-> EdgeX(g.local, g.edge),
     y |-> MapCoordinate(p.y, g.peer.y, g.peer.height,
                         g.local.y, g.local.height)])

-----------------------------------------------------------------------------
(***************************************************************************)
(* The state machine.  Each action is a call that changes the state; the   *)
(* instruction it returns is named beside it.  A call whose guard is false *)
(* returns no instruction and leaves the state alone: the caller's action  *)
(* says so with the negated guard.                                         *)
(***************************************************************************)

Local == [tag |-> "Local"]
EntryPending(entry, localEntry) ==
  [tag |-> "EntryPending", entry |-> entry, localEntry |-> localEntry]
RemoteActive == [tag |-> "RemoteActive"]

ControllerStates ==
  {Local, RemoteActive} \cup
  [tag : {"EntryPending"}, entry : Point, localEntry : Point]

HandoffInit == controller = Local

\* mutant: the height is not tested
LocalEdgeActivatedAnywhere(g, p) ==
  /\ controller.tag = "Local"
  /\ p.x = EdgeX(g.local, g.edge)
  /\ controller' = EntryPending(EntryPoint(g, p), p)

\* RequestPeerEntry { entry: EntryPoint(g, p) }
LocalEdgeActivated(g, p) ==
  /\ controller.tag = "Local"
  /\ OnDepartureEdge(g, p)
  /\ controller' = EntryPending(EntryPoint(g, p), p)

\* BeginRemoteInput
PeerEntryAcknowledged ==
  /\ controller.tag = "EntryPending"
  /\ controller' = RemoteActive

\* mutant: the state is left alone
PeerEntryRejectedPending ==
  /\ controller.tag = "EntryPending"
  /\ UNCHANGED controller

\* WarpLocalPointer { at: LocalInterior(g, controller.localEntry) }
PeerEntryRejected ==
  /\ controller.tag = "EntryPending"
  /\ controller' = Local

\* ReturnToLocal { at: ReturnPoint(g, p) }
PeerExitActivated(g, e, p) ==
  /\ controller.tag = "RemoteActive"
  /\ OnReturnEdge(g, e, p)
  /\ controller' = Local

\* ReleaseRemoteInput, unless the state was Local already
DisconnectOrCancel == controller' = Local
=============================================================================

