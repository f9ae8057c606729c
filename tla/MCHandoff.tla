----------------------------- MODULE MCHandoff -----------------------------
(***************************************************************************)
(* Every pair of displays up to 3 x 6 and 2 x 6 pixels at three offsets,   *)
(* one-pixel sides included, with every point in and around them.          *)
(***************************************************************************)
EXTENDS HandoffCalls

MCLayouts ==
  [local : [x : {0}, y : {0, 2}, width : {1, 2, 3}, height : 1 .. 6],
   peer  : [x : {-2}, y : {-1}, width : {1, 2}, height : 1 .. 6],
   edge  : Edges]
MCPoints == [x : -3 .. 3, y : -2 .. 8]
=============================================================================
