---------------------------- MODULE MCGtkWidgets -----------------------------
(* GtkWidgets for TLC: up to three nodes, of a stack, a button that takes a   *)
(* body, a field, a switch and a check box, and two sets of listeners, one    *)
(* with a binding.                                                            *)
EXTENDS GtkWidgets

CONSTANTS down, move, downBound, moveOnly, hi

MCMask == [p \in PropValues |-> IF p = downBound THEN {down} ELSE {move}]

Node(c, text, prop) == [component |-> c, text |-> text, prop |-> prop]

MCNew == {Node(VSTACK, None, None), Node(BUTTON, hi, None), Node(BUTTON, None, moveOnly),
          Node(TEXT_FIELD, hi, None), Node(TEXT_FIELD, None, downBound),
          Node(TOGGLE, hi, downBound), Node(TOGGLE_CHECK, None, downBound)}
=============================================================================
