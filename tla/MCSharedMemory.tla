--------------------------- MODULE MCSharedMemory ---------------------------
(* SharedMemory for TLC: three slots in each ring and texts of two sizes in   *)
(* an event arena that holds the longer one or two of the shorter, so that    *)
(* the one sent after a rewind takes the place of one sent before.  Drains    *)
(* with a limit copy one event.                                               *)
EXTENDS SharedMemory, TLC

CONSTANTS short, long

MCTexts == {short, long}
MCEntryBytes == (short :> 1) @@ (long :> 2)
=============================================================================
