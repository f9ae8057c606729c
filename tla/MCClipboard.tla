----------------------------- MODULE MCClipboard -----------------------------
(* The values TLC gives to the constants of Clipboard. *)
EXTENDS Clipboard, TLC

CONSTANTS e, a, b   \* an empty value, one that fits the window, one that does not

MCChunks == (e :> 0) @@ (a :> 1) @@ (b :> 2)
MCCopies == [host |-> {e, a, b, "files", "invalid"}, client |-> {a, b, "none"}]
LagCopies == [host |-> {a}, client |-> {b}]
=============================================================================
