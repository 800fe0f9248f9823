----------------------------- MODULE MCBatchLink -----------------------------
(* BatchLink for TLC: texts of one and of two cells.                          *)
EXTENDS BatchLink

CONSTANTS short, long

MCEntryCells == [t \in Texts |-> IF t = short THEN 1 ELSE 2]
=============================================================================
