--------------------------- MODULE MCOpcodeRing ----------------------------
(* OpcodeRing for TLC: four slots, texts of two sizes.                      *)
EXTENDS OpcodeRing, TLC

CONSTANTS short, long

MCTexts == {short, long}
MCEntryBytes == (short :> 1) @@ (long :> 2)
=============================================================================
