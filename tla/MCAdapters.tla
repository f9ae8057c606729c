----------------------------- MODULE MCAdapters -----------------------------
(* Bounds for the adapters: one device per behaviour, two handoffs; the     *)
(* trackpad needs more reports for its fingers to come, move and go.        *)
EXTENDS Adapters

AllDevices == {"pointer", "touch", "trackpad"}

(* Half a pixel either way, and two pixels: two of them in one batch are    *)
(* more than the injector takes.                                            *)
MCDeltas == {-1, 1, 4}
EventBounds == [pointer |-> 3, touch |-> 4, trackpad |-> 5]
=============================================================================
