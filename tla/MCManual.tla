------------------------------ MODULE MCManual ------------------------------
(* A keyboard that can make the chord, and a mouse. *)
EXTENDS Manual

CONSTANTS ctrl, esc, btn, keyboard, mouse

MCKeys == [d \in Devices |-> IF d = keyboard THEN {ctrl, esc} ELSE {btn}]
MCModifiers == {{ctrl}}
=============================================================================
