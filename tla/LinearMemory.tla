---------------------------- MODULE LinearMemory ----------------------------
(***************************************************************************)
(* What the two rings of pathland-core's linear memory share: the number   *)
(* of slots, and the code of the bump arenas (lib/rust/crates/             *)
(* pathland-core/src/memory.rs, arena.rs).                                 *)
(*                                                                         *)
(* An arena entry is [u32 byteLength][bytes] at a byte offset; a cursor in *)
(* the shared header is the next free byte.  Guest arena and event arena   *)
(* are two regions with the same code.                                     *)
(*                                                                         *)
(* A region is abstracted to its byte offsets, each holding the text whose *)
(* entry starts there, or Blank: a byte inside an entry or never written.  *)
(***************************************************************************)
EXTENDS Integers

CONSTANTS SlotCount,    \* slots of each ring (a power of two; one stays free)
          Texts,        \* the strings allocated
          Blank,        \* what a read finds where no entry starts
          EntryBytes    \* EntryBytes[t]: bytes of the entry of t, 4 + length

ASSUME MemoryAssumption == SlotCount \in Nat /\ SlotCount >= 2

ASSUME ArenaAssumption ==
  /\ Blank \notin Texts
  /\ EntryBytes \in [Texts -> Nat \ {0}]

\* A cursor is masked with slotCount - 1.
Mask(c) == c % SlotCount

Offsets(bytes) == 0 .. bytes - 1

Cells(bytes) == [Offsets(bytes) -> Texts \union {Blank}]

Empty(bytes) == [o \in Offsets(bytes) |-> Blank]

\* alloc_at succeeds: the entry ends inside the region.
Fits(bytes, cursor, t) == cursor + EntryBytes[t] <= bytes

\* alloc_at writes the entry of t at cursor: whatever entries started in the
\* bytes it covers are gone.
Store(cells, cursor, t) ==
  [o \in DOMAIN cells |->
     IF o = cursor THEN t
     ELSE IF o \in cursor .. cursor + EntryBytes[t] - 1 THEN Blank
     ELSE cells[o]]

\* get: the entry at an offset; Blank for an offset outside the region
\* (InvalidOffset) and for one that no longer starts an entry.
Lookup(cells, o) == IF o \in DOMAIN cells THEN cells[o] ELSE Blank
=============================================================================
