------------------------------ MODULE MCSessions ----------------------------
(* Sessions for TLC.                                                          *)
EXTENDS Sessions

MCBounds == [loads |-> 2, leaves |-> 1, drops |-> 1, inputs |-> 1]
MCOrderlyBounds == [loads |-> 2, leaves |-> 2, drops |-> 2, inputs |-> 3]
=============================================================================
