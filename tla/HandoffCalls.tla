---------------------------- MODULE HandoffCalls ----------------------------
(***************************************************************************)
(* One HandoffController under every sequence of calls a caller may make:  *)
(* SeamlessHost and LeftEdgeDemo make them from barrier activations and    *)
(* peer messages, neither of which the controller may trust to come in     *)
(* order.  A call that returns no instruction is a stuttering step.        *)
(***************************************************************************)
EXTENDS Handoff

CONSTANTS
  TheLayouts,   \* layouts to explore
  Points        \* points an observation may report

ASSUME CallsAssumption == TheLayouts \subseteq Layouts /\ Points \subseteq Point

VARIABLES
  layout,   \* the fields local, peer and peer_edge of the controller
  warp      \* history: where the caller was last told to put the local
            \* pointer, with the local point the handoff had left from

callVars == <<controller, layout, warp>>

Nowhere == [tag |-> "Nowhere"]
At(p)   == [tag |-> "At", at |-> p]

Init == HandoffInit /\ layout \in TheLayouts /\ warp = Nowhere

Activated(p) == LocalEdgeActivated(layout, p) /\ UNCHANGED <<layout, warp>>

Acknowledged == PeerEntryAcknowledged /\ UNCHANGED <<layout, warp>>

Rejected ==
  /\ PeerEntryRejected
  /\ warp' = At(LocalInterior(layout, controller.localEntry))
  /\ UNCHANGED layout

Exited(e, p) ==
  /\ PeerExitActivated(layout, e, p)
  /\ warp' = At(ReturnPoint(layout, p))
  /\ UNCHANGED layout

Cancelled ==
  /\ controller.tag # "Local"
  /\ DisconnectOrCancel
  /\ UNCHANGED <<layout, warp>>

Next ==
  \/ \E p \in Points : Activated(p)
  \/ Acknowledged \/ Rejected
  \/ \E e \in Edges, p \in Points : Exited(e, p)
  \/ Cancelled

Spec == Init /\ [][Next]_callVars

-----------------------------------------------------------------------------
\* Type invariant of the controller and of what it instructs; a pending entry
\* remembers a point of the departure edge.
CallsTypeOK ==
  /\ controller \in ControllerStates
  /\ controller.tag = "EntryPending" => OnDepartureEdge(layout, controller.localEntry)
  /\ layout \in Layouts
  /\ warp = Nowhere \/ warp.at \in Point

\* The peer is asked to place its pointer on its own display, on the edge
\* that adjoins this one, whatever the two displays' sizes and offsets.
EntryInsidePeer ==
  controller.tag = "EntryPending" =>
    /\ Contains(layout.peer, controller.entry)
    /\ controller.entry.x = EdgeX(layout.peer, Opposite(layout.edge))

\* The local pointer is put back on its own display and off the barrier, so
\* that the release does not start the next handoff at once (the reason given
\* for local_interior); a one-pixel-wide display has no such place.
WarpOffBarrier ==
  warp # Nowhere =>
    /\ Contains(layout.local, warp.at)
    /\ OnDepartureEdge(layout, warp.at) => layout.local.width = 1

\* A pointer that comes back from where it entered the peer comes back to
\* where it left: exactly when the peer is at least as tall as this display,
\* else to within the height one peer pixel stands for.
RoundTrip ==
  controller.tag = "EntryPending" =>
    LET back  == ReturnPoint(layout, controller.entry).y
        left  == controller.localEntry.y
        spanL == layout.local.height - 1
        spanP == layout.peer.height - 1
        miss  == IF back < left THEN left - back ELSE back - left
    IN  IF spanL = 0 \/ spanP = 0 THEN back = layout.local.y
        ELSE IF spanP >= spanL THEN miss = 0
        ELSE 2 * spanP * miss <= spanL + spanP

\* The entry height is the proportional one, rounded to the nearest pixel.
EntryIsNearest ==
  controller.tag = "EntryPending" /\ layout.local.height > 1 /\ layout.peer.height > 1 =>
    LET spanL == layout.local.height - 1
        spanP == layout.peer.height - 1
        exact == (controller.localEntry.y - layout.local.y) * spanP
        got   == (controller.entry.y - layout.peer.y) * spanL
    IN  2 * (got - exact) <= spanL /\ 2 * (exact - got) <= spanL
=============================================================================
