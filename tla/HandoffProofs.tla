---------------------------- MODULE HandoffProofs ----------------------------
(***************************************************************************)
(* What the handoff controller promises for every layout of two validated  *)
(* displays and every order of calls: proofs about HandoffCalls.           *)
(***************************************************************************)
EXTENDS HandoffCalls, HandoffGeometry

-----------------------------------------------------------------------------
(***************************************************************************)
(* The controller.                                                         *)
(***************************************************************************)

\* A pending entry is the one computed for the point it remembers.
EntryOfPoint ==
  controller.tag = "EntryPending" =>
    controller.entry = EntryPoint(layout, controller.localEntry)

\* These together are inductive.
CallsInv == CallsTypeOK /\ EntryInsidePeer /\ WarpOffBarrier /\ EntryOfPoint

\* A new controller satisfies them.
LEMMA CallsInitially == Init => CallsInv
  BY CallsAssumption DEF Init, HandoffInit, CallsInv, CallsTypeOK,
     EntryInsidePeer, WarpOffBarrier, EntryOfPoint, ControllerStates, Local

\* Every call preserves them.
LEMMA CallsPreserve == CallsInv /\ [Next]_callVars => CallsInv'
<1> SUFFICES ASSUME CallsInv, [Next]_callVars PROVE CallsInv'
  OBVIOUS
<1> USE DEF CallsInv
<1>1. ASSUME NEW p \in Points, Activated(p) PROVE CallsInv'
  <2>1. p \in Point /\ layout \in Layouts /\ layout' = layout /\ warp' = warp
    BY <1>1, CallsAssumption DEF Activated, CallsTypeOK
  <2>2. OnDepartureEdge(layout, p) /\ controller' = EntryPending(EntryPoint(layout, p), p)
    BY <1>1 DEF Activated, LocalEdgeActivated
  <2>3. /\ EntryPoint(layout, p) \in Point
        /\ Contains(layout.peer, EntryPoint(layout, p))
        /\ EntryPoint(layout, p).x = EdgeX(layout.peer, Opposite(layout.edge))
    BY <2>1, EntryPointInside
  <2>4. /\ controller'.tag = "EntryPending"
        /\ controller'.entry = EntryPoint(layout, p) /\ controller'.localEntry = p
        /\ controller' \in ControllerStates
    BY <2>1, <2>2, <2>3 DEF EntryPending, ControllerStates
  <2>5. CallsTypeOK'
    BY <2>1, <2>2, <2>4 DEF CallsTypeOK
  <2>6. EntryInsidePeer'
    BY <2>1, <2>3, <2>4 DEF EntryInsidePeer
  <2>7. WarpOffBarrier'
    BY <2>1 DEF WarpOffBarrier
  <2>8. EntryOfPoint'
    BY <2>1, <2>4 DEF EntryOfPoint
  <2> QED BY <2>5, <2>6, <2>7, <2>8
<1>2. CASE Acknowledged
  BY <1>2 DEF Acknowledged, PeerEntryAcknowledged, RemoteActive, ControllerStates,
     CallsTypeOK, EntryInsidePeer, WarpOffBarrier, EntryOfPoint
<1>3. ASSUME controller' = Local, layout' = layout,
             NEW b \in Point, OnDepartureEdge(layout, b),
             warp' = At(LocalInterior(layout, b))
      PROVE  CallsInv'
  <2>1. layout \in Layouts /\ controller' \in ControllerStates /\ controller'.tag = "Local"
    BY <1>3 DEF CallsTypeOK, ControllerStates, Local
  <2>2. warp'.at = LocalInterior(layout, b)
    BY <1>3 DEF At
  <2>3. /\ warp'.at \in Point
        /\ Contains(layout.local, warp'.at)
        /\ layout.local.width # 1 => warp'.at.x # EdgeX(layout.local, layout.edge)
    BY <1>3, <2>1, <2>2, LocalInteriorInside
  <2> QED BY <1>3, <2>1, <2>3 DEF CallsTypeOK, EntryInsidePeer, WarpOffBarrier,
          EntryOfPoint, OnDepartureEdge
<1>4. CASE Rejected
  <2>1. controller.localEntry \in Point /\ OnDepartureEdge(layout, controller.localEntry)
    BY <1>4 DEF Rejected, PeerEntryRejected, CallsTypeOK, ControllerStates, Local, RemoteActive
  <2> QED BY <1>3, <1>4, <2>1 DEF Rejected, PeerEntryRejected
<1>5. ASSUME NEW e \in Edges, NEW p \in Points, Exited(e, p) PROVE CallsInv'
  <2> DEFINE b == [x |-> EdgeX(layout.local, layout.edge),
                   y |-> MapCoordinate(p.y, layout.peer.y, layout.peer.height,
                                       layout.local.y, layout.local.height)]
  <2>1. p \in Point /\ layout \in Layouts
    BY CallsAssumption DEF CallsTypeOK
  <2>2. b \in Point /\ OnDepartureEdge(layout, b)
    BY <2>1, ReturnBoundary
  <2>3. ReturnPoint(layout, p) = LocalInterior(layout, b)
    BY DEF ReturnPoint
  <2> HIDE DEF b
  <2> QED BY <1>3, <1>5, <2>2, <2>3 DEF Exited, PeerExitActivated
<1>6. CASE Cancelled
  BY <1>6 DEF Cancelled, DisconnectOrCancel, Local, ControllerStates,
     CallsTypeOK, EntryInsidePeer, WarpOffBarrier, EntryOfPoint
<1>7. CASE UNCHANGED callVars
  BY <1>7 DEF callVars, CallsTypeOK, EntryInsidePeer, WarpOffBarrier, EntryOfPoint
<1> QED BY <1>1, <1>2, <1>4, <1>5, <1>6, <1>7 DEF Next

\* The type invariant holds of every controller in every order of calls.
THEOREM CallsTypeCorrect == Spec => []CallsTypeOK
<1>1. CallsInv => CallsTypeOK
  BY DEF CallsInv
<1> QED BY <1>1, CallsInitially, CallsPreserve, PTL DEF Spec

\* Whatever the two displays and the reported height, the peer is asked to put
\* its pointer on its own display, on the adjoining edge.
THEOREM EntryAlwaysInsidePeer == Spec => []EntryInsidePeer
<1>1. CallsInv => EntryInsidePeer
  BY DEF CallsInv
<1> QED BY <1>1, CallsInitially, CallsPreserve, PTL DEF Spec

\* Whatever the two displays and the reported height, a refused or ended
\* handoff puts the local pointer on the local display and off the barrier.
THEOREM WarpAlwaysOffBarrier == Spec => []WarpOffBarrier
<1>1. CallsInv => WarpOffBarrier
  BY DEF CallsInv
<1> QED BY <1>1, CallsInitially, CallsPreserve, PTL DEF Spec

-----------------------------------------------------------------------------
(***************************************************************************)
(* Heights.                                                                *)
(***************************************************************************)

\* The numbers of a pending entry between two displays taller than a pixel:
\* with the two spans and the offset of the departure, its entry offset is
\* the scaled one and its way back the one scaled again.
LEMMA PendingHeights ==
  ASSUME CallsInv, controller.tag = "EntryPending",
         layout.local.height > 1, layout.peer.height > 1
  PROVE  LET off == controller.localEntry.y - layout.local.y
             s   == layout.local.height - 1
             d   == layout.peer.height - 1
             q   == ScaleOffset(off, s, d)
         IN  /\ off \in Nat /\ off <= s /\ s \in Nat \ {0} /\ d \in Nat \ {0}
             /\ layout.local.y \in Int /\ layout.peer.y \in Int
             /\ controller.entry.y = layout.peer.y + q
             /\ ReturnPoint(layout, controller.entry).y
                  = layout.local.y + ScaleOffset(q, d, s)
<1> DEFINE p == controller.localEntry
           off == p.y - layout.local.y
           s == layout.local.height - 1
           d == layout.peer.height - 1
           q == ScaleOffset(off, s, d)
<1>1. /\ layout.local \in Rect /\ layout.peer \in Rect
      /\ p \in Point /\ OnDepartureEdge(layout, p)
  BY DEF CallsInv, CallsTypeOK, Layouts, ControllerStates, Local, RemoteActive
<1>2. /\ layout.local.y \in Int /\ layout.local.height \in Nat
      /\ layout.peer.y \in Int /\ layout.peer.height \in Nat /\ p.y \in Int
  BY <1>1, RectFacts DEF Point
<1>3. layout.local.y <= p.y /\ p.y <= layout.local.y + layout.local.height - 1
  BY <1>1 DEF OnDepartureEdge, Contains, Bottom
<1>4. off \in Nat /\ off <= s
  BY <1>2, <1>3
<1>5. s \in Nat \ {0} /\ d \in Nat \ {0}
  BY <1>2
<1>6. MapCoordinate(p.y, layout.local.y, layout.local.height,
                     layout.peer.y, layout.peer.height) = layout.peer.y + q
  <2>1. Clamp(p.y - layout.local.y, 0, layout.local.height - 1) = off
    BY <1>4, <1>5 DEF Clamp
  <2>2. layout.local.height # 1 /\ layout.peer.height # 1
    BY <1>2
  <2> QED BY <2>1, <2>2 DEF MapCoordinate
<1>7. q \in 0 .. d
  <2> HIDE DEF off, s, d
  <2> QED BY <1>4, <1>5, ScaleOffsetRange
<1>8. controller.entry.y = layout.peer.y + q
  <2>1. controller.entry = EntryPoint(layout, p)
    BY DEF CallsInv, EntryOfPoint
  <2> HIDE DEF q, p
  <2> QED BY <1>6, <2>1 DEF EntryPoint
<1> DEFINE e == controller.entry
<1>9. ReturnPoint(layout, e).y
        = MapCoordinate(e.y, layout.peer.y, layout.peer.height,
                        layout.local.y, layout.local.height)
  BY DEF ReturnPoint, LocalInterior
<1>10. /\ e.y \in Int /\ layout.peer.y <= e.y
      /\ e.y <= layout.peer.y + layout.peer.height - 1 /\ e.y - layout.peer.y = q
  <2> HIDE DEF q
  <2> QED BY <1>2, <1>7, <1>8
<1>11. MapCoordinate(e.y, layout.peer.y, layout.peer.height,
                     layout.local.y, layout.local.height)
         = layout.local.y + ScaleOffset(q, d, s)
  <2>1. Clamp(e.y - layout.peer.y, 0, layout.peer.height - 1) = q
    <3> HIDE DEF q, e
    <3> QED BY <1>2, <1>7, <1>10 DEF Clamp
  <2>2. layout.local.height # 1 /\ layout.peer.height # 1
    BY <1>2
  <2> HIDE DEF q
  <2> QED BY <2>1, <2>2 DEF MapCoordinate
<1> QED BY <1>2, <1>4, <1>5, <1>8, <1>9, <1>11

\* The entry height is always the proportional one, rounded to the nearest
\* pixel, for displays of any two sizes.
THEOREM EntryAlwaysNearest == Spec => []EntryIsNearest
<1>1. CallsInv => EntryIsNearest
  <2> SUFFICES ASSUME CallsInv, controller.tag = "EntryPending",
                      layout.local.height > 1, layout.peer.height > 1
               PROVE  EntryIsNearest
    BY DEF EntryIsNearest
  <2> DEFINE off == controller.localEntry.y - layout.local.y
             s == layout.local.height - 1
             d == layout.peer.height - 1
             q == ScaleOffset(off, s, d)
  <2>1. /\ off \in Nat /\ s \in Nat \ {0} /\ d \in Nat /\ layout.peer.y \in Int
        /\ controller.entry.y = layout.peer.y + q
    BY PendingHeights
  <2>2. q \in Nat /\ 2 * (q * s - off * d) <= s /\ 2 * (off * d - q * s) <= s
    <3> HIDE DEF off, s, d
    <3> QED BY <2>1, ScaleOffsetNearest
  <2>3. controller.entry.y - layout.peer.y = q
    <3> HIDE DEF q
    <3> QED BY <2>1, <2>2
  <2> QED BY <2>2, <2>3 DEF EntryIsNearest
<1> QED BY <1>1, CallsInitially, CallsPreserve, PTL DEF Spec

\* The pointer that comes back from where it entered comes back to where it
\* left, or as near as the peer's height can tell, for displays of any sizes.
THEOREM RoundTripAlways == Spec => []RoundTrip
<1>1. CallsInv => RoundTrip
  <2> SUFFICES ASSUME CallsInv, controller.tag = "EntryPending" PROVE RoundTrip
    BY DEF RoundTrip
  <2>1. layout.local \in Rect /\ layout.peer \in Rect
    BY DEF CallsInv, CallsTypeOK, Layouts
  <2>2. layout.local.height \in Nat \ {0} /\ layout.peer.height \in Nat \ {0}
    BY <2>1, RectFacts
  <2>3. CASE layout.local.height = 1 \/ layout.peer.height = 1
    <3>1. ReturnPoint(layout, controller.entry).y = layout.local.y
      BY <2>3 DEF ReturnPoint, LocalInterior, MapCoordinate
    <3> QED BY <2>2, <2>3, <3>1 DEF RoundTrip
  <2>4. CASE layout.local.height > 1 /\ layout.peer.height > 1
    <3> DEFINE off == controller.localEntry.y - layout.local.y
               s == layout.local.height - 1
               d == layout.peer.height - 1
               q == ScaleOffset(off, s, d)
               back == ScaleOffset(q, d, s)
               miss == IF back < off THEN off - back ELSE back - off
               left == controller.localEntry.y
               home == ReturnPoint(layout, controller.entry).y
    <3>1. /\ off \in Nat /\ off <= s /\ s \in Nat \ {0} /\ d \in Nat \ {0}
          /\ layout.local.y \in Int /\ home = layout.local.y + back
      BY <2>4, PendingHeights
    <3>2. 2 * d * miss <= s + d /\ (d >= s => miss = 0)
      <4> HIDE DEF off, s, d
      <4> QED BY <3>1, ScaleRoundTrip
    <3>3. q \in Nat /\ back \in Nat
      <4> HIDE DEF off, s, d
      <4>1. q \in 0 .. d
        BY <3>1, ScaleOffsetRange
      <4> QED BY <3>1, <4>1, ScaleOffsetNearest
    <3>4. left \in Int
      BY DEF CallsInv, CallsTypeOK, ControllerStates, Local, RemoteActive, Point
    <3>5. (IF home < left THEN left - home ELSE home - left) = miss
      <4>1. off = left - layout.local.y
        OBVIOUS
      <4> HIDE DEF back, off, home, left
      <4> QED BY <3>1, <3>3, <3>4, <4>1
    <3>6. s # 0 /\ d # 0
      BY <3>1
    <3> HIDE DEF miss
    <3> QED BY <3>2, <3>5, <3>6 DEF RoundTrip
  <2> QED BY <2>2, <2>3, <2>4
<1> QED BY <1>1, CallsInitially, CallsPreserve, PTL DEF Spec
=============================================================================
