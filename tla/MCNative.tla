------------------------------ MODULE MCNative -------------------------------
(* An application over the native host, for TLC: the tree it builds, and the  *)
(* taps it makes of raw input.  They share no state, so no interleaving of    *)
(* the two is worth exploring: either no event comes, or the tree is empty.   *)
EXTENDS NativeTree, TapRecognizer

CONSTANTS stack, label, hi, red, signal

Init == NativeInit /\ TapInit

Next == \/ since = <<>> /\ now = 0 /\ NativeNext /\ UNCHANGED tapVars
        \/ calls = 0 /\ TapNext /\ UNCHANGED nativeVars

Spec == Init /\ [][Next]_<<nativeVars, tapVars>>
=============================================================================
