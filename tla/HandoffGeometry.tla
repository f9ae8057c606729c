-------------------------- MODULE HandoffGeometry --------------------------
(***************************************************************************)
(* Facts about the geometry of Handoff, for every layout of two validated  *)
(* displays.  HandoffProofs and SeamlessProofs rest on them.               *)
(***************************************************************************)
EXTENDS Handoff, TLAPS

-----------------------------------------------------------------------------
(***************************************************************************)
(* Arithmetic.                                                             *)
(***************************************************************************)

\* Products keep the order of their factors.
LEMMA ProductMonotone ==
  ASSUME NEW a \in Nat, NEW b \in Nat, NEW c \in Nat, a <= b
  PROVE  a * c \in Nat /\ a * c <= b * c
  OBVIOUS

\* A quotient is below any bound that its dividend, a whole number of
\* divisors plus less than one more, stays below.
LEMMA QuotientBound ==
  ASSUME NEW n \in Nat, NEW s \in Nat \ {0}, NEW d \in Nat, n < s * d + s
  PROVE  n \div s \in 0 .. d
  OBVIOUS

\* Scaling an offset of one span gives an offset of the other.
LEMMA ScaleOffsetRange ==
  ASSUME NEW offset \in Nat, NEW s \in Nat \ {0}, NEW d \in Nat, offset <= s
  PROVE  ScaleOffset(offset, s, d) \in 0 .. d
<1>1. offset * d \in Nat /\ offset * d <= s * d
  BY ProductMonotone
<1>2. s \div 2 \in Nat /\ s \div 2 < s
  OBVIOUS
<1>3. s * d \in Nat
  OBVIOUS
<1> DEFINE n == offset * d + (s \div 2)
<1>4. n \in Nat /\ n < s * d + s
  BY <1>1, <1>2, <1>3
<1>5. n \div s \in 0 .. d
  <2> HIDE DEF n
  <2> QED BY <1>4, QuotientBound
<1> QED BY <1>5 DEF ScaleOffset

\* The quotient is the nearest whole number: the remainder is at most half of
\* the divisor, on either side.
LEMMA ScaleOffsetNearest ==
  ASSUME NEW offset \in Nat, NEW s \in Nat \ {0}, NEW d \in Nat
  PROVE  /\ ScaleOffset(offset, s, d) \in Nat
         /\ 2 * (ScaleOffset(offset, s, d) * s - offset * d) <= s
         /\ 2 * (offset * d - ScaleOffset(offset, s, d) * s) <= s
<1> DEFINE m == offset * d
           h == s \div 2
           q == (m + h) \div s
<1>1. m \in Nat
  OBVIOUS
<1>2. h \in Nat /\ 2 * h <= s /\ s <= 2 * h + 1
  OBVIOUS
<1>3. ScaleOffset(offset, s, d) = q
  BY DEF ScaleOffset
<1>4. q \in Nat /\ q * s <= m + h /\ m + h < q * s + s
  <2> HIDE DEF m, h
  <2> QED BY <1>1, <1>2
<1>5. q * s \in Nat
  <2> HIDE DEF q
  <2> QED BY <1>4
<1> HIDE DEF m, h, q
<1>6. 2 * (q * s - m) <= s /\ 2 * (m - q * s) <= s
  BY <1>1, <1>2, <1>4, <1>5
<1> QED BY <1>3, <1>4, <1>6 DEF m

\* Scaling there and back misses by no more than the rounding of both ways,
\* and by nothing at all when the other span is not the shorter one.
LEMMA ScaleRoundTrip ==
  ASSUME NEW offset \in Nat, NEW s \in Nat \ {0}, NEW d \in Nat \ {0}
  PROVE  LET back == ScaleOffset(ScaleOffset(offset, s, d), d, s)
             miss == IF back < offset THEN offset - back ELSE back - offset
         IN  /\ 2 * d * miss <= s + d
             /\ d >= s => miss = 0
<1> DEFINE q == ScaleOffset(offset, s, d)
           back == ScaleOffset(q, d, s)
           miss == IF back < offset THEN offset - back ELSE back - offset
<1>1. q \in Nat /\ 2 * (q * s - offset * d) <= s /\ 2 * (offset * d - q * s) <= s
  BY ScaleOffsetNearest
<1>2. back \in Nat /\ 2 * (back * d - q * s) <= d /\ 2 * (q * s - back * d) <= d
  <2> HIDE DEF q
  <2> QED BY <1>1, ScaleOffsetNearest
<1> HIDE DEF q, back
<1>3. q * s \in Int /\ offset * d \in Int /\ back * d \in Int
  BY <1>1, <1>2
<1>4. miss \in Nat /\ (miss * d = offset * d - back * d \/ miss * d = back * d - offset * d)
  BY <1>1, <1>2
<1> HIDE DEF miss
<1>5. 2 * (miss * d) <= s + d
  BY <1>1, <1>2, <1>3, <1>4
<1>6. 2 * d * miss = 2 * (miss * d)
  BY <1>4
<1>7. ASSUME d >= s PROVE miss = 0
  <2>1. CASE d > s
    <3>1. miss * d < d
      BY <1>4, <1>5, <2>1
    <3> QED BY <1>4, <3>1
  <2>2. CASE d = s
    <3>1. q = offset
      BY <1>1, <2>2
    <3>2. back = q
      BY <1>1, <1>2, <2>2
    <3> QED BY <3>1, <3>2 DEF miss
  <2> QED BY <1>7, <2>1, <2>2
<1>8. 2 * d * miss <= s + d
  BY <1>5, <1>6
<1> QED BY <1>7, <1>8 DEF miss, back, q

\* map_coordinate never leaves the destination span, for any reported height:
\* the expect of its last line cannot fail.
LEMMA MapCoordinateRange ==
  ASSUME NEW v \in Int, NEW start \in Int, NEW len \in Nat \ {0},
         NEW dstart \in Int, NEW dlen \in Nat \ {0}
  PROVE  MapCoordinate(v, start, len, dstart, dlen) \in dstart .. dstart + dlen - 1
<1>1. CASE len = 1 \/ dlen = 1
  BY <1>1 DEF MapCoordinate
<1>2. CASE len # 1 /\ dlen # 1
  <2> DEFINE offset == Clamp(v - start, 0, len - 1)
  <2>1. offset \in Nat /\ offset <= len - 1
    BY DEF Clamp
  <2>2. len - 1 \in Nat \ {0} /\ dlen - 1 \in Nat
    BY <1>2
  <2>3. ScaleOffset(offset, len - 1, dlen - 1) \in 0 .. dlen - 1
    <3> HIDE DEF offset
    <3> QED BY <2>1, <2>2, ScaleOffsetRange
  <2> QED BY <1>2, <2>3 DEF MapCoordinate
<1> QED BY <1>1, <1>2

-----------------------------------------------------------------------------
(***************************************************************************)
(* Geometry of a validated layout.                                         *)
(***************************************************************************)

\* What Rect::new leaves of a display's numbers.
LEMMA RectFacts ==
  ASSUME NEW r \in Rect
  PROVE  /\ r.x \in Int /\ r.y \in Int
         /\ r.width \in Nat \ {0} /\ r.height \in Nat \ {0}
         /\ Right(r) \in Int /\ r.x <= Right(r)
<1>1. MaxI32 \in Int /\ MinI32 \in Int
  BY SMT DEF MaxI32, MinI32
<1>2. r \in [x : MinI32 .. MaxI32, y : MinI32 .. MaxI32,
            width : Nat \ {0}, height : Nat \ {0}]
  BY DEF Rect
<1>3. /\ r.x \in Int /\ r.y \in Int
      /\ r.width \in Nat \ {0} /\ r.height \in Nat \ {0}
  BY <1>1, <1>2
<1> QED BY <1>3 DEF Right

\* An edge of a display is one of its columns.
LEMMA EdgeInside ==
  ASSUME NEW r \in Rect, NEW e \in Edges
  PROVE  EdgeX(r, e) \in r.x .. Right(r)
  BY RectFacts DEF EdgeX, Edges

\* The entry position lies on the edge of the peer's display.
LEMMA EntryPointInside ==
  ASSUME NEW g \in Layouts, NEW p \in Point
  PROVE  /\ EntryPoint(g, p) \in Point
         /\ Contains(g.peer, EntryPoint(g, p))
         /\ EntryPoint(g, p).x = EdgeX(g.peer, Opposite(g.edge))
<1> DEFINE ex == EdgeX(g.peer, Opposite(g.edge))
           ey == MapCoordinate(p.y, g.local.y, g.local.height, g.peer.y, g.peer.height)
<1>1. g.local \in Rect /\ g.peer \in Rect /\ Opposite(g.edge) \in Edges
  BY DEF Layouts, Opposite, Edges
<1>2. ex \in g.peer.x .. Right(g.peer) /\ g.peer.x \in Int /\ Right(g.peer) \in Int
  BY <1>1, EdgeInside, RectFacts
<1>3. /\ p.y \in Int /\ g.local.y \in Int /\ g.local.height \in Nat \ {0}
      /\ g.peer.y \in Int /\ g.peer.height \in Nat \ {0}
  BY <1>1, RectFacts DEF Point
<1>4. ey \in g.peer.y .. Bottom(g.peer)
  BY <1>3, MapCoordinateRange DEF Bottom
<1>5. ex \in Int /\ ey \in Int
  BY <1>2, <1>3, <1>4 DEF Bottom
<1>6. EntryPoint(g, p) = [x |-> ex, y |-> ey]
  BY DEF EntryPoint
<1> HIDE DEF ex, ey
<1>7. EntryPoint(g, p) \in Point
  BY <1>5, <1>6 DEF Point
<1>8. Contains(g.peer, EntryPoint(g, p))
  BY <1>2, <1>3, <1>4, <1>5, <1>6 DEF Contains, Bottom
<1> QED BY <1>6, <1>7, <1>8 DEF ex

\* One pixel inside a boundary point of the local display is still on the
\* display, and off the edge unless the display is one pixel wide.
LEMMA LocalInteriorInside ==
  ASSUME NEW g \in Layouts, NEW b \in Point, OnDepartureEdge(g, b)
  PROVE  /\ LocalInterior(g, b) \in Point
         /\ Contains(g.local, LocalInterior(g, b))
         /\ g.local.width # 1 => LocalInterior(g, b).x # EdgeX(g.local, g.edge)
<1>1. g.local \in Rect /\ g.edge \in Edges
  BY DEF Layouts
<1>2. /\ g.local.x \in Int /\ g.local.width \in Nat \ {0}
      /\ b.x \in Int /\ b.y \in Int
  BY <1>1, RectFacts DEF Point
<1>3. /\ g.local.x <= b.x /\ b.x <= Right(g.local)
      /\ g.local.y <= b.y /\ b.y <= Bottom(g.local)
  BY DEF OnDepartureEdge, Contains
<1> DEFINE ix == IF g.local.width = 1 THEN b.x
                 ELSE IF g.edge = "Left" THEN g.local.x + 1 ELSE Right(g.local) - 1
<1>4. LocalInterior(g, b) = [x |-> ix, y |-> b.y]
  BY DEF LocalInterior
<1>5. /\ ix \in Int /\ g.local.x <= ix /\ ix <= Right(g.local)
      /\ g.local.width # 1 => ix # EdgeX(g.local, g.edge)
  BY <1>1, <1>2, <1>3 DEF Right, EdgeX, Edges
<1> HIDE DEF ix
<1> QED BY <1>2, <1>3, <1>4, <1>5 DEF Point, Contains

\* The boundary point that a return is mapped to lies on the departure edge.
LEMMA ReturnBoundary ==
  ASSUME NEW g \in Layouts, NEW p \in Point
  PROVE  LET b == [x |-> EdgeX(g.local, g.edge),
                   y |-> MapCoordinate(p.y, g.peer.y, g.peer.height,
                                       g.local.y, g.local.height)]
         IN  b \in Point /\ OnDepartureEdge(g, b)
<1> DEFINE bx == EdgeX(g.local, g.edge)
           by == MapCoordinate(p.y, g.peer.y, g.peer.height, g.local.y, g.local.height)
<1>1. g.local \in Rect /\ g.peer \in Rect /\ g.edge \in Edges
  BY DEF Layouts
<1>2. bx \in g.local.x .. Right(g.local) /\ g.local.x \in Int /\ Right(g.local) \in Int
  BY <1>1, EdgeInside, RectFacts
<1>3. /\ p.y \in Int /\ g.local.y \in Int /\ g.local.height \in Nat \ {0}
      /\ g.peer.y \in Int /\ g.peer.height \in Nat \ {0}
  BY <1>1, RectFacts DEF Point
<1>4. by \in g.local.y .. Bottom(g.local)
  BY <1>3, MapCoordinateRange DEF Bottom
<1>7. Bottom(g.local) \in Int
  BY <1>3 DEF Bottom
<1>5. bx = EdgeX(g.local, g.edge)
  OBVIOUS
<1> HIDE DEF bx, by
<1>6. [x |-> bx, y |-> by] \in Point /\ OnDepartureEdge(g, [x |-> bx, y |-> by])
  BY <1>2, <1>3, <1>4, <1>5, <1>7 DEF Point, OnDepartureEdge, Contains
<1> QED BY <1>6 DEF bx, by
=============================================================================
