----------------------------- MODULE MCSeamless -----------------------------
(***************************************************************************)
(* Small instances of Seamless: the client to the left or to the right of  *)
(* the host, displays of different heights, one barrier height inside and  *)
(* one outside each display.                                               *)
(***************************************************************************)
EXTENDS SeamlessOwnership

LeftLayout == [local |-> [x |-> 0,  y |-> 0, width |-> 3, height |-> 2],
               peer  |-> [x |-> -2, y |-> 5, width |-> 2, height |-> 3],
               edge  |-> "Left"]
RightLayout == [local |-> [x |-> 0, y |-> 0, width |-> 3, height |-> 2],
                peer  |-> [x |-> 3, y |-> 1, width |-> 2, height |-> 1],
                edge  |-> "Right"]

HostYs == {0, 7}
LeftExitYs == {6, 0}
RightExitYs == {1, 0}
=============================================================================
