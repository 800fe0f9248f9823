----------------------------- MODULE Host_proofs -----------------------------
(* Proofs about the host's side.  Of the memory it shares with the guest, for  *)
(* every capacity, arena and set of texts: the masked cursors and arenas of     *)
(* LinearMemory, the opcode ring, the event ring, and that the whole behaves as *)
(* its two rings do, each seen on its own.  Of a native host, for every set of  *)
(* ids, components and values: the tree it builds (NativeTree).  Of taps, for   *)
(* every set of targets and positions and whatever the limits of distance and   *)
(* time are: TapRecognizer.                                                     *)
EXTENDS SharedMemory, NativeTree, TapRecognizer, ListFacts, FiniteSetTheorems

-----------------------------------------------------------------------------
(* Linear memory.                                                            *)

\* A cursor that has gone round at most once.
LEMMA MaskOnce ==
  ASSUME NEW c \in 0 .. 2 * SlotCount - 1
  PROVE  Mask(c) = IF c < SlotCount THEN c ELSE c - SlotCount
<1> USE MemoryAssumption
<1>1. CASE c < SlotCount
  BY <1>1 DEF Mask
<1>2. CASE c >= SlotCount
  BY <1>2 DEF Mask
<1>3. QED BY <1>1, <1>2

\* Store puts the text at the cursor and leaves every entry below it alone.
LEMMA StoreEntry ==
  ASSUME NEW bytes \in Nat, NEW cells \in Cells(bytes), NEW cursor \in Nat,
         NEW t \in Texts, Fits(bytes, cursor, t)
  PROVE  /\ Store(cells, cursor, t) \in Cells(bytes)
         /\ cursor \in Offsets(bytes)
         /\ cursor + EntryBytes[t] \in 0 .. bytes
         /\ Lookup(Store(cells, cursor, t), cursor) = t
         /\ \A o \in 0 .. cursor - 1 :
              Lookup(Store(cells, cursor, t), o) = Lookup(cells, o)
         /\ \A o \in Int : o \notin Offsets(bytes) =>
              Lookup(Store(cells, cursor, t), o) = Blank
<1> USE ArenaAssumption DEF Fits, Cells, Offsets
<1> DEFINE s == Store(cells, cursor, t)
<1>1. EntryBytes[t] \in Nat \ {0}
  OBVIOUS
<1>2. s \in Cells(bytes)
  BY DEF Store
<1>3. cursor \in Offsets(bytes) /\ cursor + EntryBytes[t] \in 0 .. bytes
  BY <1>1
<1>4. DOMAIN s = Offsets(bytes) /\ DOMAIN cells = Offsets(bytes)
  BY DEF Store
<1>5. \A o \in Offsets(bytes) :
        s[o] = IF o = cursor THEN t
               ELSE IF o \in cursor .. cursor + EntryBytes[t] - 1 THEN Blank
               ELSE cells[o]
  BY DEF Store
<1>6. QED BY <1>1, <1>2, <1>3, <1>4, <1>5 DEF Lookup

-----------------------------------------------------------------------------
(* The inductive invariant.  readCursor has never gone round: it is the     *)
(* number of opcodes delivered.  writeCursor goes round at most once, and   *)
(* then stays behind readCursor for ever.                                   *)

CursorInv ==
  /\ readCursor = Len(received)
  /\ Len(received) <= Len(sent)
  /\ \/ Len(sent) < SlotCount /\ writeCursor = Len(sent)
     \/ /\ Len(sent) >= SlotCount
        /\ writeCursor = Len(sent) - SlotCount
        /\ writeCursor < readCursor

\* The slot of the i-th opcode.
SlotOf(i) == IF i <= SlotCount THEN i - 1 ELSE i - 1 - SlotCount

\* An operand whose entry no later allocation can touch.
Settled(o) == (o \in Nat /\ o < arenaCursor) \/ o = NoRef

Held(op, m) == Settled(op.ref) /\ Settled(op.value) /\ Decode(op) = m

HeldInv ==
  \A i \in Len(received) + 1 .. Len(sent) : Held(slots[SlotOf(i)], sent[i])

FreshInv == \A o \in Offsets(ArenaBytes) : o >= arenaCursor => arena[o] = Blank

FrameInv ==
  guestView =>
    /\ Len(received) <= frameMark
    /\ frameStart = IF frameMark < SlotCount THEN frameMark
                    ELSE frameMark - SlotCount

IInv ==
  TypeOK /\ CursorInv /\ HeldInv /\ FreshInv /\ FrameInv /\ DeliveredInOrder

\* The ring starts in the invariant.
LEMMA InitIInv == Init => IInv
<1> SUFFICES ASSUME Init PROVE IInv
  OBVIOUS
<1> USE RingAssumption, MemoryAssumption, ArenaAssumption DEF Init
<1>1. TypeOK
  <2>1. slots \in [0 .. SlotCount - 1 -> Opcode \union {ZeroSlot}]
    OBVIOUS
  <2>2. arena \in Cells(ArenaBytes)
    BY DEF Empty, Cells
  <2>3. sent \in Seq(Message) /\ received \in Seq(Message) /\ Len(sent) = 0
    OBVIOUS
  <2>4. guestView \in BOOLEAN
    BY Zenon
  <2>5. QED BY <2>1, <2>2, <2>3, <2>4 DEF TypeOK
<1>2. CursorInv /\ HeldInv /\ FreshInv /\ FrameInv /\ DeliveredInOrder
  BY DEF CursorInv, HeldInv, FreshInv, FrameInv, DeliveredInOrder, Empty, Offsets
<1>3. QED BY <1>1, <1>2 DEF IInv

\* What does not move in a step that neither pushes nor delivers.
LEMMA KeepIInv ==
  ASSUME IInv, UNCHANGED <<slots, readCursor, writeCursor, sent, received>>,
         UNCHANGED guestArena,
         frameCount' \in 0 .. FrameWrap - 1, guestView' \in BOOLEAN,
         frameStart' \in 0 .. SlotCount - 1,
         published' \in 0 .. Len(sent), frameMark' \in 0 .. Len(sent),
         FrameInv'
  PROVE  IInv'
BY DEF IInv, TypeOK, CursorInv, HeldInv, FreshInv, DeliveredInOrder,
       guestArena, Held, Decode, Lookup, Settled, SlotOf, NoRef

\* The arena after an allocation: settled operands read as before.
LEMMA AllocArena ==
  ASSUME IInv, NEW t \in Texts, Fits(ArenaBytes, arenaCursor, t)
  PROVE  LET after == Store(arena, arenaCursor, t)
             next == arenaCursor + EntryBytes[t]
         IN  /\ after \in Cells(ArenaBytes) /\ next \in 0 .. ArenaBytes
             /\ next > arenaCursor /\ arenaCursor \in Offsets(ArenaBytes)
             /\ Lookup(after, arenaCursor) = t
             /\ \A o \in 0 .. arenaCursor - 1 : Lookup(after, o) = Lookup(arena, o)
             /\ Lookup(after, NoRef) = Blank /\ Lookup(arena, NoRef) = Blank
             /\ \A o \in Offsets(ArenaBytes) : o >= next => after[o] = Blank
<1> USE RingAssumption, MemoryAssumption, ArenaAssumption
<1>1. /\ arena \in Cells(ArenaBytes) /\ arenaCursor \in 0 .. ArenaBytes
      /\ \A o \in Offsets(ArenaBytes) : o >= arenaCursor => arena[o] = Blank
  BY DEF IInv, TypeOK, FreshInv
<1>2. NoRef \in Int /\ NoRef \notin Offsets(ArenaBytes)
  BY DEF NoRef, Offsets
<1>3. Lookup(arena, NoRef) = Blank
  BY <1>1, <1>2 DEF Lookup, Cells
<1>4. \A o \in Offsets(ArenaBytes) :
        o >= arenaCursor + EntryBytes[t] => Store(arena, arenaCursor, t)[o] = Blank
  BY <1>1 DEF Store, Cells, Offsets
<1>5. QED BY <1>1, <1>2, <1>3, <1>4, StoreEntry

\* The step that pushes the opcode op for message m, after allocations that
\* moved the arena cursor forward and left settled operands alone.
LEMMA PushIInv ==
  ASSUME IInv, NEW op \in Opcode, NEW m \in Message,
         PushSlot(op, m), Unframed,
         arena' \in Cells(ArenaBytes), arenaCursor' \in 0 .. ArenaBytes,
         arenaCursor' >= arenaCursor, FreshInv',
         \A o : Settled(o) => Lookup(arena', o) = Lookup(arena, o),
         Settled(op.ref)', Settled(op.value)',
         m = [cmd |-> op.cmd, ref |-> Lookup(arena', op.ref),
              value |-> Lookup(arena', op.value)],
         guestView
  PROVE  IInv'
<1> USE RingAssumption, MemoryAssumption
<1>0. PICK n \in Nat : n = Len(sent)
  BY DEF IInv, TypeOK
<1>1. /\ slots \in [0 .. SlotCount - 1 -> Opcode \union {ZeroSlot}]
      /\ readCursor \in 0 .. SlotCount - 1 /\ writeCursor \in 0 .. SlotCount - 1
      /\ sent \in Seq(Message) /\ received \in Seq(Message)
      /\ n = Len(sent) /\ Len(received) \in Nat
  BY <1>0 DEF IInv, TypeOK
<1>2. sent' = Append(sent, m) /\ sent' \in Seq(Message) /\ Len(sent') = n + 1
      /\ \A i \in 1 .. n : sent'[i] = sent[i]
      /\ sent'[n + 1] = m
  BY <1>1 DEF PushSlot
<1>3. /\ Mask(writeCursor + 1) = IF writeCursor + 1 < SlotCount
                                  THEN writeCursor + 1 ELSE 0
      /\ Mask(writeCursor + 1) # readCursor
      /\ writeCursor' = Mask(writeCursor + 1)
  BY <1>1, MaskOnce DEF PushSlot, Full
<1>4. received' = received /\ readCursor' = readCursor
  BY DEF Unframed
<1>5. CursorInv'
  <2>1. /\ readCursor = Len(received) /\ Len(received) <= n
        /\ \/ n < SlotCount /\ writeCursor = n
           \/ /\ n >= SlotCount /\ writeCursor = n - SlotCount
              /\ writeCursor < readCursor
    BY <1>1 DEF IInv, CursorInv
  <2>2. \/ n + 1 < SlotCount /\ writeCursor' = n + 1
        \/ /\ n + 1 >= SlotCount /\ writeCursor' = n + 1 - SlotCount
           /\ writeCursor' < readCursor
    <3>1. PICK w \in Nat : w = writeCursor'
      BY <1>1, <1>3
    <3>2. w = (IF writeCursor + 1 < SlotCount THEN writeCursor + 1 ELSE 0)
          /\ w # readCursor
      BY <3>1, <1>3
    <3>3. CASE n < SlotCount /\ writeCursor = n
      BY <3>1, <3>2, <3>3, <1>1
    <3>4. CASE n >= SlotCount /\ writeCursor = n - SlotCount /\ writeCursor < readCursor
      <4>0. /\ writeCursor \in Nat /\ readCursor \in Nat /\ SlotCount \in Nat
            /\ readCursor <= SlotCount - 1
        BY <1>1
      <4>1. w = writeCursor + 1 /\ w < readCursor
        <5>1. writeCursor + 1 <= readCursor
          BY <4>0, <3>4
        <5>2. w = writeCursor + 1
          BY <5>1, <4>0, <3>2
        <5>3. QED BY <5>1, <5>2, <4>0, <3>2
      <4>2. QED BY <4>1, <3>1, <3>4, <1>1
    <3>5. QED BY <2>1, <3>3, <3>4
  <2>3. QED BY <2>1, <2>2, <1>1, <1>2, <1>4 DEF CursorInv
<1>6. SlotOf(n + 1) = writeCursor
  BY <1>1, <1>3 DEF IInv, CursorInv, SlotOf
<1>7. \A i \in Len(received) + 1 .. n : SlotOf(i) # writeCursor
                                     /\ SlotOf(i) \in 0 .. SlotCount - 1
  BY <1>1, <1>3 DEF IInv, CursorInv, SlotOf
<1>8. \A o : Settled(o) => Settled(o)'
  BY DEF Settled, IInv, TypeOK, NoRef
<1>9. HeldInv'
  <2>1. slots' = [slots EXCEPT ![writeCursor] = op]
    BY DEF PushSlot
  <2>2. ASSUME NEW i \in Len(received) + 1 .. n
        PROVE  Held(slots[SlotOf(i)], sent[i])'
    <3>1. slots'[SlotOf(i)] = slots[SlotOf(i)] /\ sent'[i] = sent[i]
      BY <2>1, <1>1, <1>2, <1>7
    <3>2. Held(slots[SlotOf(i)], sent[i])
      BY <1>1 DEF IInv, HeldInv
    <3>3. slots[SlotOf(i)] \in Opcode \union {ZeroSlot}
      BY <1>1, <1>7
    <3>4. QED BY <3>1, <3>2, <3>3, <1>8 DEF Held, Decode, SlotOf
  <2>3. Held(slots[SlotOf(n + 1)], sent[n + 1])'
    <3>1. slots'[writeCursor] = op /\ SlotOf(n + 1)' = writeCursor
      BY <2>1, <1>1, <1>6 DEF SlotOf
    <3>2. QED BY <3>1, <1>2 DEF Held, Decode
  <2>4. QED BY <2>2, <2>3, <1>1, <1>2, <1>4 DEF HeldInv
<1>10. TypeOK'
  <2>1. slots' \in [0 .. SlotCount - 1 -> Opcode \union {ZeroSlot}]
    BY <1>1 DEF PushSlot
  <2>2. guestView' \in BOOLEAN
    BY DEF IInv, TypeOK, Unframed, view
  <2>3. QED BY <2>1, <2>2, <1>1, <1>2, <1>3, <1>4
           DEF IInv, TypeOK, Unframed, view
<1>11. FrameInv'
  BY <1>4 DEF IInv, FrameInv, Unframed, view
<1>12. DeliveredInOrder'
  BY <1>1, <1>2, <1>4 DEF IInv, DeliveredInOrder
<1>13. QED BY <1>5, <1>9, <1>10, <1>11, <1>12 DEF IInv

\* A step that only allocates.
LEMMA AllocIInv ==
  ASSUME IInv, guestView, Refused, Unframed,
         arena' \in Cells(ArenaBytes), arenaCursor' \in 0 .. ArenaBytes,
         arenaCursor' >= arenaCursor, FreshInv',
         \A o : Settled(o) => Lookup(arena', o) = Lookup(arena, o)
  PROVE  IInv'
<1> USE RingAssumption, MemoryAssumption
<1>1. UNCHANGED <<slots, readCursor, writeCursor, sent, received, guestView,
                  frameStart, frameCount, published, frameMark>>
  BY DEF Refused, Unframed, view
<1>2. ASSUME NEW op \in Opcode \union {ZeroSlot}, NEW m, Held(op, m)
      PROVE  Held(op, m)'
  BY <1>2 DEF Held, Decode, Settled, IInv, TypeOK, NoRef
<1>3. HeldInv'
  <2>1. \A i \in Len(received) + 1 .. Len(sent) :
          slots[SlotOf(i)] \in Opcode \union {ZeroSlot}
    BY DEF IInv, TypeOK, CursorInv, SlotOf
  <2>2. ASSUME NEW i \in Len(received) + 1 .. Len(sent)
        PROVE  Held(slots[SlotOf(i)], sent[i])'
    <3>1. Held(slots[SlotOf(i)], sent[i])
      BY DEF IInv, HeldInv
    <3>2. QED BY <3>1, <2>1, <1>1, <1>2 DEF SlotOf, Held, Decode, Settled, IInv, TypeOK, NoRef
  <2>3. QED BY <2>2, <1>1 DEF HeldInv
<1>4. TypeOK' /\ CursorInv' /\ FrameInv' /\ DeliveredInOrder'
  BY <1>1 DEF IInv, TypeOK, CursorInv, FrameInv, DeliveredInOrder
<1>5. QED BY <1>3, <1>4 DEF IInv

\* Delivery: the run from readCursor to writeCursor is what is left of sent.
LEMMA DeliverIInv ==
  ASSUME IInv, NextFrame
  PROVE  IInv' /\ received' = SubSeq(sent, 1, Len(sent))
         /\ Len(received') = Len(sent) /\ Len(sent) < SlotCount
<1> USE RingAssumption, MemoryAssumption
<1> DEFINE run == [i \in 1 .. writeCursor - readCursor |->
                     Decode(Run(readCursor, writeCursor)[i])]
<1>1. /\ sent \in Seq(Message) /\ received \in Seq(Message)
      /\ readCursor = Len(received) /\ writeCursor = Len(sent)
      /\ Len(sent) \in Nat /\ Len(received) \in Nat
      /\ Len(received) < Len(sent) /\ Len(sent) < SlotCount
  BY DEF IInv, TypeOK, CursorInv, NextFrame, FrameReady
<1>2. ASSUME NEW i \in 1 .. writeCursor - readCursor
      PROVE  run[i] = sent[readCursor + i]
  <2>1. Run(readCursor, writeCursor)[i] = slots[SlotOf(readCursor + i)]
    BY <1>1 DEF Run, SlotOf
  <2>2. Held(slots[SlotOf(readCursor + i)], sent[readCursor + i])
    BY <1>1 DEF IInv, HeldInv
  <2>3. QED BY <2>1, <2>2 DEF Held
<1>3. run \in Seq(Message)
  BY <1>1, <1>2
<1>4. Len(run) = writeCursor - readCursor
  BY <1>1, <1>3
<1>5. received' = received \o run
  BY DEF NextFrame
<1>6. /\ received' \in Seq(Message) /\ Len(received') = Len(sent)
      /\ \A i \in 1 .. Len(received') : received'[i] = sent[i]
  <2>1. received' \in Seq(Message) /\ Len(received') = Len(sent)
    BY <1>1, <1>3, <1>4, <1>5
  <2>2. ASSUME NEW i \in 1 .. Len(received') PROVE received'[i] = sent[i]
    <3>1. CASE i <= Len(received)
      BY <3>1, <1>1, <1>3, <1>4, <1>5 DEF IInv, DeliveredInOrder
    <3>2. CASE i > Len(received)
      <4>1. received'[i] = run[i - readCursor]
        BY <3>2, <2>1, <1>1, <1>3, <1>4, <1>5
      <4>2. i - readCursor \in 1 .. writeCursor - readCursor
        BY <3>2, <2>1, <1>1
      <4>3. QED BY <4>1, <4>2, <1>1, <1>2
    <3>3. QED BY <3>1, <3>2, <2>1, <1>1
  <2>3. QED BY <2>1, <2>2
<1>7. received' = SubSeq(sent, 1, Len(sent))
  BY <1>1, <1>6
<1>8. IInv'
  <2>1. UNCHANGED <<slots, writeCursor, frameCount, guestArena, view, sent, published>>
        /\ readCursor' = writeCursor /\ ~guestView
    BY DEF NextFrame
  <2>2. TypeOK'
    <3>1. guestView' \in BOOLEAN
      BY <2>1 DEF IInv, TypeOK, view
    <3>2. QED BY <3>1, <2>1, <1>1, <1>6 DEF IInv, TypeOK, guestArena, view
  <2>3. CursorInv' /\ FreshInv' /\ FrameInv' /\ DeliveredInOrder'
    BY <2>1, <1>1, <1>6 DEF IInv, CursorInv, FreshInv, FrameInv,
       DeliveredInOrder, guestArena, view
  <2>4. HeldInv'
    BY <2>1, <1>1, <1>6 DEF HeldInv
  <2>5. QED BY <2>2, <2>3, <2>4 DEF IInv
<1>9. QED BY <1>1, <1>6, <1>7, <1>8

-----------------------------------------------------------------------------
(* Every step.                                                             *)

\* What the producer's three emitting operations do, said once: they add
\* nothing to the stream, or one message within the channel's capacity.
Extends ==
  \/ UNCHANGED sent
  \/ /\ \E m \in Message : sent' = Append(sent, m)
     /\ Len(sent) - Len(received) < SlotCount - 1

\* An accepted opcode is one more message sent, held in its slot.
LEMMA PushExtends ==
  ASSUME IInv, NEW op, NEW m \in Message, PushSlot(op, m)
  PROVE  Extends
<1> USE RingAssumption, MemoryAssumption
<1>1. /\ readCursor = Len(received) /\ Len(received) \in Nat /\ Len(sent) \in Nat
      /\ readCursor \in 0 .. SlotCount - 1 /\ writeCursor \in 0 .. SlotCount - 1
  BY DEF IInv, TypeOK, CursorInv
<1>2. Mask(writeCursor + 1) # readCursor
      /\ Mask(writeCursor + 1) = IF writeCursor + 1 < SlotCount
                                 THEN writeCursor + 1 ELSE 0
  BY <1>1, MaskOnce DEF PushSlot, Full
<1>3. Len(sent) - Len(received) < SlotCount - 1
  BY <1>1, <1>2 DEF IInv, CursorInv
<1>4. QED BY <1>3 DEF PushSlot, Extends

\* An opcode without a text of its own.
LEMMA PushStep ==
  ASSUME IInv, NEW c \in Commands, NEW o \in Allocated \union {NoRef}, Push(c, o)
  PROVE  IInv' /\ Extends /\ received' = received
<1> USE RingAssumption, MemoryAssumption, ArenaAssumption
<1> DEFINE op == [cmd |-> c, ref |-> o, value |-> NoRef]
           m == [cmd |-> c, ref |-> Lookup(arena, o), value |-> Blank]
<1>1. /\ guestView /\ PushSlot(op, m) /\ Unframed
      /\ arena' = arena /\ arenaCursor' = arenaCursor
  BY DEF Push, guestArena
<1>2. /\ arena \in Cells(ArenaBytes) /\ arenaCursor \in 0 .. ArenaBytes
      /\ DOMAIN arena = 0 .. ArenaBytes - 1
      /\ \A i \in 0 .. ArenaBytes - 1 : i >= arenaCursor => arena[i] = Blank
  BY DEF IInv, TypeOK, FreshInv, Cells, Offsets
<1>3. Lookup(arena, NoRef) = Blank
  BY <1>2 DEF Lookup, NoRef
<1>4. Settled(o) /\ Settled(NoRef) /\ o \in Refs /\ NoRef \in Refs
  BY <1>2 DEF Settled, Allocated, Refs, Offsets, NoRef
<1>5. Lookup(arena, o) \in Texts \union {Blank}
  BY <1>2 DEF Lookup, Cells, Offsets
<1>6. op \in Opcode /\ m \in Message
  BY <1>4, <1>5 DEF Opcode, Message
<1>7. Settled(op.ref)' /\ Settled(op.value)'
  BY <1>1, <1>4 DEF Settled, NoRef
<1>8. FreshInv'
  BY <1>1 DEF IInv, FreshInv
<1>9. m = [cmd |-> op.cmd, ref |-> Lookup(arena', op.ref),
           value |-> Lookup(arena', op.value)]
  BY <1>1, <1>3
<1>10. IInv'
  BY <1>1, <1>2, <1>6, <1>7, <1>8, <1>9, PushIInv
<1>11. QED BY <1>1, <1>6, <1>10, PushExtends DEF Unframed

\* An allocation no opcode refers to.
LEMMA AllocStep ==
  ASSUME IInv, NEW t \in Texts, Alloc(t)
  PROVE  IInv' /\ UNCHANGED <<sent, received>>
<1> USE RingAssumption, MemoryAssumption
<1>1. /\ guestView /\ Refused /\ Unframed /\ Fits(ArenaBytes, arenaCursor, t)
      /\ arena' = Store(arena, arenaCursor, t)
      /\ arenaCursor' = arenaCursor + EntryBytes[t]
  BY DEF Alloc
<1>2. FreshInv'
  BY <1>1, AllocArena DEF FreshInv
<1>3. \A o : Settled(o) => Lookup(arena', o) = Lookup(arena, o)
  <2>1. arenaCursor \in Nat
    BY DEF IInv, TypeOK
  <2>2. QED BY <2>1, <1>1, AllocArena DEF Settled
<1>4. arenaCursor \in Nat
  BY DEF IInv, TypeOK
<1>5. QED BY <1>1, <1>2, <1>3, <1>4, AllocArena, AllocIInv DEF Refused, Unframed

\* An opcode with one text: allocated first, then pushed or refused.
LEMMA PushTextStep ==
  ASSUME IInv, NEW c \in Commands, NEW t \in Texts, PushText(c, t)
  PROVE  IInv' /\ Extends /\ received' = received
<1> USE RingAssumption, MemoryAssumption, ArenaAssumption
<1>0. PICK a \in Nat : a = arenaCursor
  BY DEF IInv, TypeOK
<1> DEFINE op == [cmd |-> c, ref |-> a, value |-> NoRef]
           m == [cmd |-> c, ref |-> t, value |-> Blank]
<1>1. /\ guestView /\ Unframed /\ Fits(ArenaBytes, arenaCursor, t)
      /\ arena' = Store(arena, arenaCursor, t)
      /\ arenaCursor' = arenaCursor + EntryBytes[t]
      /\ PushSlot(op, m) \/ (Full /\ Refused)
  BY <1>0 DEF PushText
<1>2. FreshInv' /\ arena' \in Cells(ArenaBytes) /\ arenaCursor' \in 0 .. ArenaBytes
      /\ arenaCursor' > arenaCursor /\ arenaCursor \in Nat
      /\ a \in Refs /\ NoRef \in Refs
  BY <1>0, <1>1, AllocArena DEF FreshInv, Refs, Offsets
<1>3. \A o : Settled(o) => Lookup(arena', o) = Lookup(arena, o)
  <2>1. arenaCursor \in Nat
    BY DEF IInv, TypeOK
  <2>2. QED BY <2>1, <1>1, AllocArena DEF Settled
<1>4. CASE PushSlot(op, m)
  <2>1. op \in Opcode /\ m \in Message
    BY <1>2 DEF Opcode, Message
  <2>2. Settled(op.ref)' /\ Settled(op.value)'
    BY <1>0, <1>2 DEF Settled, NoRef
  <2>3. m = [cmd |-> op.cmd, ref |-> Lookup(arena', op.ref),
             value |-> Lookup(arena', op.value)]
    BY <1>0, <1>1, AllocArena
  <2>4. IInv'
    BY <1>0, <1>1, <1>2, <1>3, <1>4, <2>1, <2>2, <2>3, PushIInv
  <2>5. QED BY <1>1, <1>4, <2>1, <2>4, PushExtends DEF Unframed
<1>5. CASE Refused
  BY <1>0, <1>1, <1>2, <1>3, <1>5, AllocIInv DEF Refused, Unframed, Extends
<1>6. QED BY <1>1, <1>4, <1>5

\* An opcode with two texts, the second of which may not fit.
LEMMA PushPairStep ==
  ASSUME IInv, NEW c \in Commands, NEW p \in Texts, NEW t \in Texts,
         PushPair(c, p, t)
  PROVE  IInv' /\ Extends /\ received' = received
<1> USE RingAssumption, MemoryAssumption, ArenaAssumption
<1>0. PICK a \in Nat, b \in Nat :
        a = arenaCursor /\ b = arenaCursor + EntryBytes[p]
  <2>1. arenaCursor \in Nat /\ EntryBytes[p] \in Nat
    BY DEF IInv, TypeOK
  <2>2. QED BY <2>1
<1> DEFINE op == [cmd |-> c, ref |-> a, value |-> b]
           m == [cmd |-> c, ref |-> p, value |-> t]
           withPath == Store(arena, a, p)
           withBoth == Store(withPath, b, t)
<1>1. /\ guestView /\ Unframed /\ Fits(ArenaBytes, arenaCursor, p)
      /\ arenaCursor \in Nat
  BY DEF PushPair, IInv, TypeOK
<1>2. /\ withPath \in Cells(ArenaBytes) /\ b \in 0 .. ArenaBytes
      /\ b > a /\ a \in Offsets(ArenaBytes)
      /\ Lookup(withPath, a) = p
      /\ \A o \in 0 .. a - 1 : Lookup(withPath, o) = Lookup(arena, o)
      /\ Lookup(withPath, NoRef) = Blank /\ Lookup(arena, NoRef) = Blank
      /\ \A o \in Offsets(ArenaBytes) : o >= b => withPath[o] = Blank
  BY <1>0, <1>1, AllocArena
<1>3. CASE ~Fits(ArenaBytes, b, t)
  <2>1. arena' = withPath /\ arenaCursor' = b /\ Refused
    BY <1>0, <1>3 DEF PushPair
  <2>2. FreshInv'
    BY <2>1, <1>2 DEF FreshInv
  <2>3. \A o : Settled(o) => Lookup(arena', o) = Lookup(arena, o)
    BY <2>1, <1>0, <1>2 DEF Settled
  <2>4. QED BY <2>1, <2>2, <2>3, <1>0, <1>1, <1>2, AllocIInv
            DEF Refused, Unframed, Extends
<1>4. CASE Fits(ArenaBytes, b, t)
  <2>1. /\ arena' = withBoth /\ arenaCursor' = b + EntryBytes[t]
        /\ PushSlot(op, m) \/ (Full /\ Refused)
    BY <1>0, <1>4 DEF PushPair
  <2>2. /\ withBoth \in Cells(ArenaBytes) /\ b \in Offsets(ArenaBytes)
        /\ b + EntryBytes[t] \in 0 .. ArenaBytes
        /\ Lookup(withBoth, b) = t
        /\ \A o \in 0 .. b - 1 : Lookup(withBoth, o) = Lookup(withPath, o)
        /\ \A o \in Int : o \notin Offsets(ArenaBytes) => Lookup(withBoth, o) = Blank
    BY <1>0, <1>2, <1>4, StoreEntry
  <2>3. FreshInv'
    BY <2>1, <2>2, <1>2 DEF FreshInv, Store, Cells, Offsets
  <2>4. \A o : Settled(o) => Lookup(arena', o) = Lookup(arena, o)
    BY <2>1, <2>2, <1>0, <1>2 DEF Settled, NoRef, Offsets
  <2>5. arenaCursor' \in 0 .. ArenaBytes /\ arenaCursor' > b /\ arenaCursor' >= arenaCursor
    BY <2>1, <2>2, <1>0, <1>1, <1>2
  <2>6. CASE PushSlot(op, m)
    <3>1. op \in Opcode /\ m \in Message
      BY <2>2, <1>2 DEF Opcode, Message, Refs
    <3>2. Settled(op.ref)' /\ Settled(op.value)'
      BY <2>5, <1>0, <1>2 DEF Settled, NoRef
    <3>3. Lookup(arena', a) = p /\ Lookup(arena', b) = t
      BY <2>1, <2>2, <1>0, <1>2
    <3>4. IInv'
      BY <2>1, <2>2, <2>3, <2>4, <2>5, <2>6, <3>1, <3>2, <3>3, <1>1, PushIInv
    <3>5. QED BY <2>6, <3>1, <3>4, <1>1, PushExtends DEF Unframed
  <2>7. CASE Refused
    BY <2>1, <2>2, <2>3, <2>4, <2>5, <2>7, <1>1, AllocIInv
    DEF Refused, Unframed, Extends
  <2>8. QED BY <2>1, <2>6, <2>7
<1>5. QED BY <1>3, <1>4

\* The steps that only move views and frame marks.
LEMMA ViewStep ==
  ASSUME IInv, GuestNew \/ GuestDrop \/ BeginFrame \/ EndFrame
  PROVE  IInv' /\ UNCHANGED <<sent, received>>
<1> USE RingAssumption, MemoryAssumption
<1>1. /\ UNCHANGED <<slots, readCursor, writeCursor, sent, received>>
      /\ UNCHANGED guestArena
  BY DEF GuestNew, GuestDrop, BeginFrame, EndFrame, header, history, view
<1>2. /\ Len(sent) \in Nat /\ Len(received) \in Nat
      /\ writeCursor \in 0 .. SlotCount - 1 /\ frameCount \in 0 .. FrameWrap - 1
      /\ published \in 0 .. Len(sent) /\ frameMark \in 0 .. Len(sent)
      /\ frameStart \in 0 .. SlotCount - 1
  BY DEF IInv, TypeOK
<1>3. /\ frameCount' \in 0 .. FrameWrap - 1
      /\ frameStart' \in 0 .. SlotCount - 1
      /\ published' \in 0 .. Len(sent) /\ frameMark' \in 0 .. Len(sent)
  BY <1>2 DEF GuestNew, GuestDrop, BeginFrame, EndFrame, header, history, view
<1>4. guestView' \in BOOLEAN
  BY Zenon DEF IInv, TypeOK, GuestNew, GuestDrop, BeginFrame, EndFrame, view
<1>5. FrameInv'
  <2>1. CASE GuestNew \/ BeginFrame
    <3>1. frameStart' = writeCursor /\ frameMark' = Len(sent) /\ received' = received
      BY <2>1, <1>1 DEF GuestNew, BeginFrame
    <3>2. Len(received) <= Len(sent) /\ writeCursor = IF Len(sent) < SlotCount
                                THEN Len(sent) ELSE Len(sent) - SlotCount
      BY DEF IInv, CursorInv
    <3>3. QED BY <3>1, <3>2 DEF FrameInv
  <2>2. CASE GuestDrop
    BY <2>2 DEF FrameInv, GuestDrop
  <2>3. CASE EndFrame
    BY <2>3, <1>1 DEF IInv, FrameInv, EndFrame, view
  <2>4. QED BY <2>1, <2>2, <2>3
<1>6. QED BY <1>1, <1>3, <1>4, <1>5, KeepIInv

\* Every step keeps the invariant.
LEMMA NextIInv ==
  ASSUME IInv, [Next]_ringVars
  PROVE  IInv'
<1>1. CASE GuestNew \/ GuestDrop \/ BeginFrame \/ EndFrame
  BY <1>1, ViewStep
<1>2. CASE \E c \in Commands, o \in Allocated \union {NoRef} : Push(c, o)
  BY <1>2, PushStep
<1>3. CASE \E t \in Texts : Alloc(t)
  BY <1>3, AllocStep
<1>4. CASE \E c \in Commands, t \in Texts : PushText(c, t)
  BY <1>4, PushTextStep
<1>5. CASE \E c \in Commands, p, t \in Texts : PushPair(c, p, t)
  BY <1>5, PushPairStep
<1>6. CASE NextFrame
  BY <1>6, DeliverIInv
<1>7. CASE UNCHANGED ringVars
  <2>1. UNCHANGED <<slots, readCursor, writeCursor, frameCount, arena, arenaCursor,
                    guestView, frameStart, frameMark, sent, received, published>>
    BY <1>7 DEF ringVars, header, guestArena, view, history
  <2>2. FrameInv' /\ UNCHANGED guestArena
    BY <2>1 DEF IInv, FrameInv, guestArena
  <2>3. QED BY <2>1, <2>2, KeepIInv DEF IInv, TypeOK
<1>8. QED BY <1>1, <1>2, <1>3, <1>4, <1>5, <1>6, <1>7 DEF Next, Produce

\* The invariant holds throughout.
LEMMA RingInductive == Spec => []IInv
<1>1. QED BY InitIInv, NextIInv, PTL DEF Spec

-----------------------------------------------------------------------------
(* What follows from it.                                                    *)

\* The state of the ring is well formed at all times.
THEOREM TypeCorrect == Spec => []TypeOK
BY RingInductive, PTL DEF IInv

\* The consumer reads what was accepted, in order, once, with its texts
\* (ring::push, Guest::set_text, Host::frames).
THEOREM InOrder == Spec => []DeliveredInOrder
BY RingInductive, PTL DEF IInv

\* No unread opcode is overwritten, in its slot or in the arena.
THEOREM Intact == Spec => []UnreadIntact
<1>1. IInv => UnreadIntact
  <2> SUFFICES ASSUME IInv, NEW i \in Len(received) + 1 .. Len(sent)
               PROVE  Decode(slots[Mask(i - 1)]) = sent[i]
    BY DEF UnreadIntact
  <2>1. /\ Len(received) \in Nat /\ Len(sent) \in Nat
        /\ i - 1 \in 0 .. 2 * SlotCount - 1
    BY RingAssumption, MemoryAssumption DEF IInv, TypeOK, CursorInv
  <2>2. Mask(i - 1) = SlotOf(i)
    BY <2>1, MaskOnce, RingAssumption, MemoryAssumption DEF SlotOf
  <2>3. QED BY <2>2 DEF IInv, HeldInv, Held
<1>2. QED BY RingInductive, <1>1, PTL

\* Pending counts the opcodes of the frame (Guest::pending).
THEOREM PendingCorrect == Spec => []PendingExact
<1>1. IInv => PendingExact
  <2> SUFFICES ASSUME IInv, guestView PROVE Pending = Len(sent) - frameMark
    BY DEF PendingExact
  <2>1. /\ Len(received) \in Nat /\ Len(sent) \in Nat /\ frameMark \in 0 .. Len(sent)
        /\ writeCursor \in 0 .. SlotCount - 1
        /\ SlotCount \in Nat /\ SlotCount >= 2
    BY RingAssumption, MemoryAssumption DEF IInv, TypeOK
  <2>2. /\ Len(received) <= frameMark
        /\ frameStart = IF frameMark < SlotCount THEN frameMark
                        ELSE frameMark - SlotCount
    BY DEF IInv, FrameInv
  <2>3. /\ writeCursor = IF Len(sent) < SlotCount THEN Len(sent)
                         ELSE Len(sent) - SlotCount
        /\ Len(sent) - Len(received) < SlotCount
    BY <2>1 DEF IInv, CursorInv
  <2>4. Len(sent) - frameMark \in 0 .. SlotCount - 1
    BY <2>1, <2>2, <2>3
  <2>5. \/ writeCursor - frameStart = Len(sent) - frameMark
        \/ writeCursor - frameStart = Len(sent) - frameMark - SlotCount
    BY <2>1, <2>2, <2>3
  <2>6. QED BY <2>1, <2>4, <2>5 DEF Pending, Mask
<1>2. QED BY RingInductive, <1>1, PTL

\* However long it runs, a ring delivers fewer than SlotCount opcodes.
THEOREM Lifetime == Spec => []LifetimeBound
<1>1. IInv => LifetimeBound
  BY RingAssumption, MemoryAssumption DEF IInv, TypeOK, CursorInv, LifetimeBound
<1>2. QED BY RingInductive, <1>1, PTL

\* A wrapped ring stays wrapped and delivers nothing more (Host::frames).
THEOREM WrappedForGood == Spec => WrapIsFinal
<1>1. IInv /\ [Next]_ringVars => [Wrapped => Wrapped' /\ received' = received]_ringVars
  <2> SUFFICES ASSUME IInv, Next, Wrapped
               PROVE  Wrapped' /\ received' = received
    BY DEF Wrapped, ringVars, header, history
  <2>1. ~NextFrame
    BY DEF Wrapped, NextFrame, FrameReady, IInv, TypeOK
  <2>2. received' = received /\ readCursor' = readCursor
    BY <2>1 DEF Next, Produce, GuestNew, GuestDrop, BeginFrame, EndFrame, Push,
       PushText, PushPair, Alloc, Unframed, header, history
  <2>3. Len(sent') >= Len(sent)
    <3>1. sent' = sent \/ \E m : sent' = Append(sent, m)
      BY <2>1 DEF Next, Produce, GuestNew, GuestDrop, BeginFrame, EndFrame, Push,
         PushText, PushPair, Alloc, PushSlot, Refused, history
    <3>2. QED BY <3>1 DEF IInv, TypeOK
  <2>4. IInv'
    BY NextIInv
  <2>5. /\ Len(sent) \in Nat /\ Len(received) \in Nat
        /\ writeCursor < readCursor /\ readCursor = Len(received)
        /\ SlotCount \in Nat
    BY RingAssumption, MemoryAssumption DEF IInv, TypeOK, CursorInv, Wrapped
  <2>6. Len(sent) >= SlotCount /\ Len(sent') \in Nat
    <3>1. sent' \in Seq(Message)
      BY <2>4 DEF IInv, TypeOK
    <3>2. QED BY <3>1, <2>5 DEF IInv, CursorInv
  <2>7. writeCursor' < readCursor'
    BY <2>3, <2>4, <2>5, <2>6 DEF IInv, CursorInv
  <2>8. QED BY <2>2, <2>7 DEF Wrapped
<1>2. QED BY RingInductive, <1>1, PTL DEF Spec, WrapIsFinal

\* The ring implements an in-order channel of SlotCount - 1 places.
THEOREM Implements == Spec => ChannelSpec
<1>1. Init => Channel!Init
  BY DEF Init, Channel!Init
<1>2. IInv /\ [Next]_ringVars => [Channel!Next]_<<sent, received>>
  <2> SUFFICES ASSUME IInv, [Next]_ringVars
               PROVE  Channel!Next \/ UNCHANGED <<sent, received>>
    OBVIOUS
  <2>1. /\ Len(received) \in Nat /\ Len(sent) \in Nat
    BY DEF IInv, TypeOK
  <2>2. CASE GuestNew \/ GuestDrop \/ BeginFrame \/ EndFrame
    BY <2>2, ViewStep
  <2>3. CASE Extends /\ received' = received
    BY <2>3 DEF Extends, Channel!Next, Channel!Send
  <2>4. CASE \E t \in Texts : Alloc(t)
    BY <2>4, AllocStep
  <2>5. CASE NextFrame
    <3>1. /\ received' = SubSeq(sent, 1, Len(sent)) /\ Len(received') = Len(sent)
          /\ Len(received) < Len(sent) /\ sent' = sent
      BY <2>5, DeliverIInv DEF NextFrame, FrameReady, IInv, CursorInv, TypeOK
    <3>2. QED BY <3>1, <2>1 DEF Channel!Next, Channel!Deliver
  <2>6. CASE UNCHANGED ringVars
    BY <2>6 DEF ringVars, history
  <2>7. QED BY <2>2, <2>3, <2>4, <2>5, <2>6, PushStep, PushTextStep, PushPairStep
            DEF Next, Produce
<1>3. QED BY RingInductive, <1>1, <1>2, PTL
          DEF Spec, ChannelSpec, Channel!Spec, Channel!channelVars

-----------------------------------------------------------------------------
(* The event ring.  The inductive invariant: eventReadCursor is the number   *)
(* of events taken, eventWriteCursor goes round at most once, and the string *)
(* of an event that no rewind has exposed lies below the arena's cursor.     *)

EventCursorInv ==
  /\ eventReadCursor = Len(eventsTaken)
  /\ Len(eventsTaken) <= Len(eventsSent)
  /\ \/ Len(eventsSent) < SlotCount /\ eventWriteCursor = Len(eventsSent)
     \/ /\ Len(eventsSent) >= SlotCount
        /\ eventWriteCursor = Len(eventsSent) - SlotCount
        /\ eventWriteCursor < eventReadCursor

\* The slot of the i-th event.
EventSlotOf(i) == IF i <= SlotCount THEN i - 1 ELSE i - 1 - SlotCount

SettledEvent(o) == (o \in Nat /\ o < eventArenaCursor) \/ o = NoEventRef

HeldEvent(op, e) == SettledEvent(op.ref) /\ DecodeEvent(op) = e

EventHeldInv ==
  \A i \in Undrained :
    /\ eventSlots[EventSlotOf(i)] \in EventOpcode
    /\ eventSlots[EventSlotOf(i)].kind = eventsSent[i].kind
    /\ i \notin exposed => HeldEvent(eventSlots[EventSlotOf(i)], eventsSent[i])

EventIInv ==
  EventTypeOK /\ EventCursorInv /\ EventHeldInv /\ EventsInPlace /\ TextsIntact

\* The event ring starts in the invariant.
LEMMA EventInitIInv == EventInit => EventIInv
<1> SUFFICES ASSUME EventInit PROVE EventIInv
  OBVIOUS
<1> USE EventAssumption, MemoryAssumption, ArenaAssumption DEF EventInit
<1>1. EventTypeOK
  BY DEF EventTypeOK, Empty, Cells
<1>2. EventCursorInv /\ EventHeldInv /\ EventsInPlace /\ TextsIntact
  BY DEF EventCursorInv, EventHeldInv, EventsInPlace, TextsIntact, Undrained
<1>3. QED BY <1>1, <1>2 DEF EventIInv

\* An accepted event: the arena may have grown, and settled strings read as
\* before.
LEMMA PushEventIInv ==
  ASSUME EventIInv, NEW op \in EventOpcode, NEW e \in Event, PushEvent(op, e),
         eventArena' \in Cells(EventArenaBytes),
         eventArenaCursor' \in 0 .. EventArenaBytes,
         eventArenaCursor' >= eventArenaCursor,
         \A o : SettledEvent(o) => Lookup(eventArena', o) = Lookup(eventArena, o),
         SettledEvent(op.ref)',
         e = [kind |-> op.kind, text |-> Lookup(eventArena', op.ref)]
  PROVE  EventIInv'
<1> USE EventAssumption, MemoryAssumption
<1>0. PICK n \in Nat : n = Len(eventsSent)
  BY DEF EventIInv, EventTypeOK
<1>1. /\ eventSlots \in [0 .. SlotCount - 1 -> EventOpcode \union {EmptyEvent}]
      /\ eventReadCursor \in 0 .. SlotCount - 1
      /\ eventWriteCursor \in 0 .. SlotCount - 1
      /\ eventsSent \in Seq(Event) /\ eventsTaken \in Seq(Outcome)
      /\ exposed \subseteq 1 .. n
      /\ n = Len(eventsSent) /\ Len(eventsTaken) \in Nat
  BY <1>0 DEF EventIInv, EventTypeOK
<1>2. /\ eventsSent' = Append(eventsSent, e) /\ eventsSent' \in Seq(Event)
      /\ Len(eventsSent') = n + 1
      /\ \A i \in 1 .. n : eventsSent'[i] = eventsSent[i]
      /\ eventsSent'[n + 1] = e
  BY <1>1 DEF PushEvent
<1>3. /\ Mask(eventWriteCursor + 1) = IF eventWriteCursor + 1 < SlotCount
                                           THEN eventWriteCursor + 1 ELSE 0
      /\ Mask(eventWriteCursor + 1) # eventReadCursor
      /\ eventWriteCursor' = Mask(eventWriteCursor + 1)
      /\ UNCHANGED <<eventReadCursor, eventsTaken, exposed>>
      /\ eventSlots' = [eventSlots EXCEPT ![eventWriteCursor] = op]
  BY <1>1, MaskOnce DEF PushEvent, EventFull
<1>4. EventCursorInv'
  BY <1>1, <1>2, <1>3 DEF EventIInv, EventCursorInv
<1>5. EventSlotOf(n + 1) = eventWriteCursor
  BY <1>1, <1>3 DEF EventIInv, EventCursorInv, EventSlotOf
<1>6. \A i \in Len(eventsTaken) + 1 .. n :
        EventSlotOf(i) # eventWriteCursor /\ EventSlotOf(i) \in 0 .. SlotCount - 1
  BY <1>1, <1>3 DEF EventIInv, EventCursorInv, EventSlotOf
<1>7. \A o : SettledEvent(o) => SettledEvent(o)'
  BY DEF SettledEvent, EventIInv, EventTypeOK, NoEventRef
<1>8. EventHeldInv'
  <2>1. ASSUME NEW i \in Len(eventsTaken) + 1 .. n
        PROVE  /\ eventSlots'[EventSlotOf(i)] \in EventOpcode
               /\ eventSlots'[EventSlotOf(i)].kind = eventsSent'[i].kind
               /\ i \notin exposed' => HeldEvent(eventSlots[EventSlotOf(i)], eventsSent[i])'
    <3>1. eventSlots'[EventSlotOf(i)] = eventSlots[EventSlotOf(i)]
          /\ eventsSent'[i] = eventsSent[i]
      BY <1>1, <1>2, <1>3, <1>6
    <3>2. /\ eventSlots[EventSlotOf(i)] \in EventOpcode
          /\ eventSlots[EventSlotOf(i)].kind = eventsSent[i].kind
          /\ i \notin exposed => HeldEvent(eventSlots[EventSlotOf(i)], eventsSent[i])
      BY <1>1 DEF EventIInv, EventHeldInv, Undrained
    <3>3. QED BY <3>1, <3>2, <1>3, <1>7 DEF HeldEvent, DecodeEvent, EventSlotOf
  <2>2. /\ eventSlots'[EventSlotOf(n + 1)] = op
        /\ HeldEvent(eventSlots[EventSlotOf(n + 1)], eventsSent[n + 1])'
    <3>1. eventSlots'[eventWriteCursor] = op /\ EventSlotOf(n + 1)' = eventWriteCursor
      BY <1>1, <1>3, <1>5 DEF EventSlotOf
    <3>2. QED BY <3>1, <1>2, <1>5 DEF HeldEvent, DecodeEvent
  <2>3. e.kind = op.kind
    OBVIOUS
  <2>4. Undrained' = Len(eventsTaken) + 1 .. n + 1
    BY <1>2, <1>3 DEF Undrained
  <2>5. ASSUME NEW i \in Undrained'
        PROVE  /\ eventSlots'[EventSlotOf(i)] \in EventOpcode
               /\ eventSlots'[EventSlotOf(i)].kind = eventsSent'[i].kind
               /\ i \notin exposed' => HeldEvent(eventSlots[EventSlotOf(i)], eventsSent[i])'
    <3>1. CASE i = n + 1
      BY <3>1, <2>2, <2>3, <1>2
    <3>2. CASE i # n + 1
      BY <3>2, <2>1, <2>4, <1>1
    <3>3. QED BY <3>1, <3>2
  <2>6. QED BY <2>5 DEF EventHeldInv, EventSlotOf
<1>9. EventTypeOK'
  BY <1>1, <1>2, <1>3 DEF EventTypeOK
<1>10. EventsInPlace' /\ TextsIntact'
  BY <1>1, <1>2, <1>3 DEF EventIInv, EventsInPlace, TextsIntact
<1>11. QED BY <1>4, <1>8, <1>9, <1>10 DEF EventIInv

\* An event without a string.
LEMMA SendPlainStep ==
  ASSUME EventIInv, NEW k \in PlainKinds, SendPlain(k)
  PROVE  EventIInv'
<1> USE EventAssumption, MemoryAssumption, ArenaAssumption
<1> DEFINE op == [kind |-> k, ref |-> NoEventRef]
           e == [kind |-> k, text |-> Blank]
<1>1. /\ PushEvent(op, e) /\ eventArena' = eventArena
      /\ eventArenaCursor' = eventArenaCursor
  BY DEF SendPlain, eventArenaVars
<1>2. /\ eventArena \in Cells(EventArenaBytes)
      /\ eventArenaCursor \in 0 .. EventArenaBytes
  BY DEF EventIInv, EventTypeOK
<1>3. Lookup(eventArena, NoEventRef) = Blank
  BY <1>2 DEF Lookup, NoEventRef, Cells, Offsets
<1>4. op \in EventOpcode /\ e \in Event
  BY DEF EventOpcode, Event, Kinds
<1>5. SettledEvent(op.ref)'
  BY DEF SettledEvent, NoEventRef
<1>6. e = [kind |-> op.kind, text |-> Lookup(eventArena', op.ref)]
  BY <1>1, <1>3
<1>7. QED BY <1>1, <1>2, <1>4, <1>5, <1>6, PushEventIInv

\* Storing a string: settled strings read as before.
LEMMA StoreEvent ==
  ASSUME EventIInv, NEW t \in Texts, Fits(EventArenaBytes, eventArenaCursor, t),
         eventArena' = Store(eventArena, eventArenaCursor, t),
         eventArenaCursor' = eventArenaCursor + EntryBytes[t]
  PROVE  /\ eventArena' \in Cells(EventArenaBytes)
         /\ eventArenaCursor' \in 0 .. EventArenaBytes
         /\ eventArenaCursor' > eventArenaCursor
         /\ eventArenaCursor \in Offsets(EventArenaBytes)
         /\ Lookup(eventArena', eventArenaCursor) = t
         /\ \A o : SettledEvent(o) => Lookup(eventArena', o) = Lookup(eventArena, o)
<1> USE EventAssumption, MemoryAssumption, ArenaAssumption
<1>1. /\ eventArena \in Cells(EventArenaBytes)
      /\ eventArenaCursor \in 0 .. EventArenaBytes /\ eventArenaCursor \in Nat
  BY DEF EventIInv, EventTypeOK
<1>2. /\ NoEventRef \in Int /\ NoEventRef \notin Offsets(EventArenaBytes)
      /\ Lookup(eventArena, NoEventRef) = Blank
  BY <1>1 DEF NoEventRef, Offsets, Lookup, Cells
<1>3. QED BY <1>1, <1>2, StoreEntry DEF SettledEvent

\* A step that changes neither the ring nor what was sent and taken.
LEMMA KeepEvents ==
  ASSUME EventIInv,
         UNCHANGED <<eventSlots, eventReadCursor, eventWriteCursor, eventsSent,
                     eventsTaken, exposed>>,
         eventArena' \in Cells(EventArenaBytes),
         eventArenaCursor' \in 0 .. EventArenaBytes,
         eventArenaCursor' >= eventArenaCursor,
         \A o : SettledEvent(o) => Lookup(eventArena', o) = Lookup(eventArena, o)
  PROVE  EventIInv'
<1>1. \A o : SettledEvent(o) => SettledEvent(o)'
  BY EventAssumption, MemoryAssumption DEF SettledEvent, EventIInv, EventTypeOK, NoEventRef
<1>2. EventHeldInv'
  BY <1>1 DEF EventIInv, EventHeldInv, HeldEvent, DecodeEvent, EventSlotOf, Undrained
<1>3. QED BY <1>2 DEF EventIInv, EventTypeOK, EventCursorInv, EventsInPlace, TextsIntact

\* An event with a string: stored first, then the event pushed or refused.
LEMMA SendTextStep ==
  ASSUME EventIInv, NEW k \in TextKinds, NEW t \in Texts, SendText(k, t)
  PROVE  EventIInv'
<1> USE EventAssumption, MemoryAssumption, ArenaAssumption
<1>0. PICK a \in Nat : a = eventArenaCursor
  BY DEF EventIInv, EventTypeOK
<1> DEFINE op == [kind |-> k, ref |-> a]
           e == [kind |-> k, text |-> t]
<1>1. /\ Fits(EventArenaBytes, eventArenaCursor, t)
      /\ eventArena' = Store(eventArena, eventArenaCursor, t)
      /\ eventArenaCursor' = eventArenaCursor + EntryBytes[t]
  BY DEF SendText
<1>2. eventArenaCursor' >= eventArenaCursor
  BY <1>0, <1>1, StoreEvent
<1>3. CASE PushEvent(op, e)
  <2>1. op \in EventOpcode /\ e \in Event
    BY <1>0, <1>1, StoreEvent DEF EventOpcode, Event, Kinds
  <2>2. SettledEvent(op.ref)'
    BY <1>0, <1>1, StoreEvent DEF SettledEvent
  <2>3. e = [kind |-> op.kind, text |-> Lookup(eventArena', op.ref)]
    BY <1>0, <1>1, StoreEvent
  <2>4. QED BY <1>1, <1>2, <1>3, <2>1, <2>2, <2>3, StoreEvent, PushEventIInv
<1>4. CASE UNCHANGED <<eventSlots, eventReadCursor, eventWriteCursor, eventsSent,
                       eventsTaken, exposed>>
  BY <1>1, <1>2, <1>4, StoreEvent, KeepEvents
<1>5. QED BY <1>0, <1>3, <1>4 DEF SendText

\* The arena is rewound: whatever is undrained counts as exposed.
LEMMA RewindStep ==
  ASSUME EventIInv, Rewind
  PROVE  EventIInv'
<1>1. EventTypeOK'
  <2>1. Len(eventsTaken) \in Nat /\ Len(eventsSent) \in Nat
        /\ exposed \subseteq 1 .. Len(eventsSent)
    BY DEF EventIInv, EventTypeOK
  <2>2. exposed' \subseteq 1 .. Len(eventsSent)
    <3>1. \A i \in Undrained : i \in 1 .. Len(eventsSent)
      BY <2>1 DEF Undrained
    <3>2. exposed' = exposed \union Undrained
      BY DEF Rewind
    <3>3. QED BY <2>1, <3>1, <3>2
  <2>3. eventArenaCursor' \in 0 .. EventArenaBytes
    BY EventAssumption, MemoryAssumption DEF Rewind
  <2>4. QED BY <2>2, <2>3 DEF EventIInv, EventTypeOK, Rewind
<1>2. EventHeldInv'
  BY DEF EventIInv, EventHeldInv, Rewind, Undrained, EventSlotOf
<1>3. EventCursorInv' /\ EventsInPlace' /\ TextsIntact'
  BY DEF EventIInv, EventCursorInv, EventsInPlace, TextsIntact, Rewind
<1>4. QED BY <1>1, <1>2, <1>3 DEF EventIInv

\* Everything in the ring is taken: each outcome has the kind of its event, and
\* its string if the guest decodes it and no rewind has exposed it.
LEMMA TakeIInv ==
  ASSUME EventIInv, NEW outcomes \in Seq(Outcome), TakeAll(outcomes),
         Len(outcomes) = EventCount,
         \A i \in 1 .. EventCount :
           LET j == eventReadCursor + i
           IN  /\ outcomes[i].event.kind = eventsSent[j].kind
               /\ outcomes[i].way = "guest" /\ j \notin exposed
                    => outcomes[i].event = eventsSent[j]
  PROVE  EventIInv'
<1> USE EventAssumption, MemoryAssumption
<1>1. /\ eventsSent \in Seq(Event) /\ eventsTaken \in Seq(Outcome)
      /\ eventReadCursor = Len(eventsTaken) /\ eventWriteCursor = Len(eventsSent)
      /\ Len(eventsSent) \in Nat /\ Len(eventsTaken) \in Nat
      /\ Len(eventsTaken) < Len(eventsSent) /\ Len(eventsSent) < SlotCount
      /\ EventCount = Len(eventsSent) - Len(eventsTaken)
  BY DEF EventIInv, EventTypeOK, EventCursorInv, TakeAll, EventCount
<1>2. /\ eventsTaken' = eventsTaken \o outcomes /\ eventReadCursor' = eventWriteCursor
      /\ UNCHANGED <<eventSlots, eventWriteCursor, eventArena, eventArenaCursor,
                     eventsSent, exposed>>
  BY DEF TakeAll, eventArenaVars
<1>3. eventsTaken' \in Seq(Outcome) /\ Len(eventsTaken') = Len(eventsSent)
  BY <1>1, <1>2
<1>4. ASSUME NEW i \in 1 .. Len(eventsTaken')
      PROVE  /\ eventsTaken'[i].event.kind = eventsSent[i].kind
             /\ eventsTaken'[i].way = "guest" /\ i \notin exposed
                  => eventsTaken'[i].event = eventsSent[i]
  <2>1. CASE i <= Len(eventsTaken)
    <3>1. eventsTaken'[i] = eventsTaken[i] /\ i \in 1 .. Len(eventsTaken)
      BY <2>1, <1>1, <1>2, <1>3
    <3>2. QED BY <3>1 DEF EventIInv, EventsInPlace, TextsIntact
  <2>2. CASE i > Len(eventsTaken)
    <3>1. PICK d \in 1 .. EventCount : d = i - Len(eventsTaken)
      <4>1. Len(eventsTaken') \in Nat /\ i <= Len(eventsSent) /\ i \in Nat
        BY <1>1, <1>3
      <4>2. i - Len(eventsTaken) \in 1 .. EventCount
        BY <4>1, <2>2, <1>1
      <4>3. QED BY <4>2
    <3>2. eventsTaken'[i] = outcomes[d] /\ eventReadCursor + d = i
      BY <2>2, <3>1, <1>1, <1>2, <1>3
    <3>3. QED BY <3>2
  <2>3. QED BY <2>1, <2>2, <1>1, <1>3
<1>5. EventTypeOK'
  BY <1>1, <1>2, <1>3 DEF EventIInv, EventTypeOK
<1>6. EventCursorInv' /\ EventHeldInv' /\ EventsInPlace' /\ TextsIntact'
  BY <1>1, <1>2, <1>3, <1>4
  DEF EventCursorInv, EventHeldInv, EventsInPlace, TextsIntact, Undrained
<1>7. QED BY <1>5, <1>6 DEF EventIInv

\* The slot of the i-th event still in the ring.
LEMMA SlotHeld ==
  ASSUME EventIInv, EventCount > 0, NEW i \in 1 .. EventCount
  PROVE  /\ EventAt(i) \in EventOpcode
         /\ EventAt(i).kind = eventsSent[eventReadCursor + i].kind
         /\ eventReadCursor + i \notin exposed
              => DecodeEvent(EventAt(i)) = eventsSent[eventReadCursor + i]
<1>1. /\ eventReadCursor = Len(eventsTaken) /\ eventWriteCursor = Len(eventsSent)
      /\ Len(eventsSent) \in Nat /\ Len(eventsTaken) \in Nat
      /\ Len(eventsSent) < SlotCount /\ SlotCount \in Nat
  BY EventAssumption, MemoryAssumption DEF EventIInv, EventTypeOK, EventCursorInv, EventCount
<1>2. eventReadCursor + i \in Undrained
      /\ EventAt(i) = eventSlots[EventSlotOf(eventReadCursor + i)]
  BY <1>1 DEF Undrained, EventAt, EventSlotOf, EventCount
<1>3. QED BY <1>2 DEF EventIInv, EventHeldInv, HeldEvent

\* Guest::drain_events.
LEMMA DrainStep ==
  ASSUME EventIInv, DrainEvents
  PROVE  EventIInv'
<1> DEFINE outcomes == [i \in 1 .. EventCount |->
                          [event |-> DecodeEvent(EventAt(i)), way |-> "guest"]]
<1>1. TakeAll(outcomes) /\ EventCount > 0 /\ EventCount \in Nat
  BY EventAssumption, MemoryAssumption DEF DrainEvents, TakeAll, EventCount, EventIInv, EventTypeOK
<1>2. ASSUME NEW i \in 1 .. EventCount PROVE DecodeEvent(EventAt(i)) \in Event
  <2>1. EventAt(i) \in EventOpcode
    BY <1>1, SlotHeld
  <2>2. \A o : Lookup(eventArena, o) \in Texts \union {Blank}
    BY DEF EventIInv, EventTypeOK, Cells, Lookup
  <2>3. QED BY <2>1, <2>2 DEF DecodeEvent, EventOpcode, Event
<1>3. outcomes \in Seq(Outcome) /\ Len(outcomes) = EventCount
  BY <1>1, <1>2 DEF Outcome, Ways
<1>4. \A i \in 1 .. EventCount :
        /\ outcomes[i].event.kind = EventAt(i).kind
        /\ outcomes[i].event = DecodeEvent(EventAt(i))
  BY DEF DecodeEvent
<1>5. QED BY <1>1, <1>3, <1>4, SlotHeld, TakeIInv

\* The drain of the C ABI.
LEMMA NativeStep ==
  ASSUME EventIInv, NEW max \in DrainLimits, NativeDrain(max)
  PROVE  EventIInv'
<1> DEFINE outcomes == [i \in 1 .. EventCount |->
                          [event |-> EncodeEvent(EventAt(i)),
                           way |-> IF i <= max THEN "native" ELSE "nobody"]]
<1>1. TakeAll(outcomes) /\ EventCount > 0 /\ EventCount \in Nat
  BY EventAssumption, MemoryAssumption DEF NativeDrain, TakeAll, EventCount, EventIInv, EventTypeOK
<1>2. ASSUME NEW i \in 1 .. EventCount PROVE EncodeEvent(EventAt(i)) \in Event
  BY <1>1, SlotHeld DEF EncodeEvent, EventOpcode, Event
<1>3. outcomes \in Seq(Outcome) /\ Len(outcomes) = EventCount
  BY <1>1, <1>2 DEF Outcome, Ways
<1>4. \A i \in 1 .. EventCount :
        outcomes[i].event.kind = EventAt(i).kind /\ outcomes[i].way # "guest"
  BY DEF EncodeEvent
<1>5. QED BY <1>1, <1>3, <1>4, SlotHeld, TakeIInv

\* Every step keeps the invariant.
LEMMA EventNextIInv ==
  ASSUME EventIInv, [EventNext]_eventVars
  PROVE  EventIInv'
<1>1. CASE HostSends
  BY <1>1, SendPlainStep, SendTextStep DEF HostSends
<1>2. CASE GuestTakes
  BY <1>2, DrainStep, NativeStep DEF GuestTakes
<1>3. CASE Rewind
  BY <1>3, RewindStep
<1>4. CASE UNCHANGED eventVars
  <2>1. UNCHANGED <<eventSlots, eventReadCursor, eventWriteCursor, eventArena,
                    eventArenaCursor, eventsSent, eventsTaken, exposed>>
    BY <1>4 DEF eventVars, eventArenaVars
  <2>2. QED BY <2>1, EventAssumption, MemoryAssumption, KeepEvents DEF EventIInv, EventTypeOK
<1>5. QED BY <1>1, <1>2, <1>3, <1>4 DEF EventNext

\* The invariant holds throughout.
LEMMA EventInductive == EventSpec => []EventIInv
BY EventInitIInv, EventNextIInv, PTL DEF EventSpec

-----------------------------------------------------------------------------
\* The state of the event ring is well formed at all times.
THEOREM EventTypeCorrect == EventSpec => []EventTypeOK
BY EventInductive, PTL DEF EventIInv

\* Events leave the ring in the order they were accepted, each once, whatever
\* drains it and whenever the arena is rewound (push_event, read_events).
THEOREM EventsInOrder == EventSpec => []EventsInPlace
BY EventInductive, PTL DEF EventIInv

\* What the guest decodes has its own string, but for a rewind of the arena
\* while the event waited (Host::send_event, Guest::drain_events).
THEOREM TextsCorrect == EventSpec => []TextsIntact
BY EventInductive, PTL DEF EventIInv

\* So would every event still in the ring.
THEOREM UndrainedCorrect == EventSpec => []UndrainedIntact
<1>1. EventIInv => UndrainedIntact
  <2> SUFFICES ASSUME EventIInv, NEW i \in Undrained \ exposed
               PROVE  DecodeEvent(eventSlots[Mask(i - 1)]) = eventsSent[i]
    BY DEF UndrainedIntact
  <2>1. /\ Len(eventsTaken) \in Nat /\ Len(eventsSent) \in Nat
        /\ i \in Nat /\ i - 1 \in 0 .. 2 * SlotCount - 1
    BY EventAssumption, MemoryAssumption DEF EventIInv, EventTypeOK, EventCursorInv, Undrained
  <2>2. Mask(i - 1) = EventSlotOf(i)
    BY <2>1, MaskOnce, EventAssumption, MemoryAssumption DEF EventSlotOf
  <2>3. QED BY <2>2 DEF EventIInv, EventHeldInv, HeldEvent
<1>2. QED BY EventInductive, <1>1, PTL

\* However long it runs, fewer than SlotCount events leave the ring.
THEOREM EventLifetime == EventSpec => []EventLifetimeBound
<1>1. EventIInv => EventLifetimeBound
  BY EventAssumption, MemoryAssumption DEF EventIInv, EventTypeOK, EventCursorInv, EventLifetimeBound
<1>2. QED BY EventInductive, <1>1, PTL

\* A wrapped event ring stays wrapped and hands over nothing more (read_events).
THEOREM EventsWrappedForGood == EventSpec => EventWrapIsFinal
<1>1. EventIInv /\ [EventNext]_eventVars
        => [EventsWrapped => EventsWrapped' /\ eventsTaken' = eventsTaken]_eventVars
  <2> SUFFICES ASSUME EventIInv, EventNext, EventsWrapped
               PROVE  EventsWrapped' /\ eventsTaken' = eventsTaken
    BY DEF EventsWrapped, eventVars
  <2>1. ~GuestTakes
    BY DEF EventsWrapped, GuestTakes, DrainEvents, NativeDrain, TakeAll, EventCount,
       EventIInv, EventTypeOK
  <2>2. eventsTaken' = eventsTaken /\ eventReadCursor' = eventReadCursor
    BY <2>1 DEF EventNext, HostSends, SendPlain, SendText, PushEvent, Rewind
  <2>3. eventsSent' = eventsSent \/ \E e : eventsSent' = Append(eventsSent, e)
    BY <2>1 DEF EventNext, HostSends, SendPlain, SendText, PushEvent, Rewind
  <2>4. Len(eventsSent') >= Len(eventsSent)
    BY <2>3 DEF EventIInv, EventTypeOK
  <2>5. EventIInv'
    BY EventNextIInv
  <2>6. /\ Len(eventsSent) \in Nat /\ Len(eventsTaken) \in Nat
        /\ eventWriteCursor < eventReadCursor /\ eventReadCursor = Len(eventsTaken)
        /\ SlotCount \in Nat
    BY MemoryAssumption DEF EventIInv, EventTypeOK, EventCursorInv, EventsWrapped
  <2>7. Len(eventsSent) >= SlotCount /\ Len(eventsSent') \in Nat
    <3>1. eventsSent' \in Seq(Event)
      BY <2>5 DEF EventIInv, EventTypeOK
    <3>2. QED BY <3>1, <2>6 DEF EventIInv, EventCursorInv
  <2>8. eventWriteCursor' < eventReadCursor'
    BY <2>4, <2>5, <2>6, <2>7 DEF EventIInv, EventCursorInv
  <2>9. QED BY <2>2, <2>8 DEF EventsWrapped
<1>2. QED BY EventInductive, <1>1, PTL DEF EventSpec, EventWrapIsFinal

-----------------------------------------------------------------------------
(* The two rings together.                                                   *)

\* A step of the memory is a step of the opcode ring, or leaves it alone.
LEMMA RingStep == [SharedNext]_vars => [Next]_ringVars
BY DEF SharedNext, Frames, HostEvent, GuestDrain, Next, vars

\* A step of the memory is a step of the event ring, or leaves it alone.
LEMMA EventStep == [SharedNext]_vars => [EventNext]_eventVars
BY DEF SharedNext, Frames, HostEvent, GuestDrain, HostSends, EventNext, vars

\* The opcode ring, with the event ring beside it, is the ring of OpcodeRing.
THEOREM RingPart == SharedSpec => Spec
<1>1. SharedInit => Init
  BY DEF SharedInit
<1>2. QED BY <1>1, RingStep, PTL DEF SharedSpec, Spec

\* The event ring, driven by the opcode ring's RESETs, is the one of EventRing.
THEOREM EventPart == SharedSpec => EventSpec
<1>1. SharedInit => EventInit
  BY DEF SharedInit
<1>2. QED BY <1>1, EventStep, PTL DEF SharedSpec, EventSpec

\* Nothing is exposed before a RESET has been consumed.
ExposedInv == exposed # {} => ResetDelivered

\* A poll exposes an event to a rewind only by handing out a RESET.
LEMMA FramesExpose ==
  ASSUME IInv, ExposedInv, Frames
  PROVE  ExposedInv'
<1> USE RingAssumption, MemoryAssumption
<1> DEFINE run == [i \in 1 .. writeCursor - readCursor |->
                     Decode(Run(readCursor, writeCursor)[i])]
<1>1. /\ received \in Seq(Message) /\ readCursor = Len(received)
      /\ readCursor \in Nat /\ writeCursor \in Nat /\ readCursor < writeCursor
      /\ received' = received \o run
  BY DEF IInv, TypeOK, CursorInv, Frames, NextFrame, FrameReady
<1>2. run \in Seq(Message) /\ Len(run) = writeCursor - readCursor
      /\ Len(received') = writeCursor
  <2>1. IInv'
    BY DeliverIInv DEF Frames
  <2>2. Len(run) = writeCursor - readCursor
    BY <1>1
  <2>3. received' \in Seq(Message)
    BY <2>1 DEF IInv, TypeOK
  <2>4. Len(received') = writeCursor
    BY <2>1 DEF IInv, CursorInv, Frames, NextFrame
  <2>5. \A i \in 1 .. writeCursor - readCursor : run[i] \in Message
    <3>1. ASSUME NEW i \in 1 .. writeCursor - readCursor PROVE run[i] \in Message
      <4>1. run[i] = received'[readCursor + i]
        BY <1>1, <2>2
      <4>2. readCursor + i \in 1 .. Len(received')
        BY <1>1, <2>4
      <4>3. QED BY <4>1, <4>2, <2>3
    <3>2. QED BY <3>1
  <2>6. QED BY <2>2, <2>4, <2>5, <1>1
<1>3. CASE \E i \in readCursor .. writeCursor - 1 : slots[i].cmd = Reset
  <2>1. PICK i \in readCursor .. writeCursor - 1 : slots[i].cmd = Reset
    BY <1>3
  <2>2. PICK k \in 1 .. writeCursor - readCursor : k = i - readCursor + 1
    <3>1. i - readCursor + 1 \in 1 .. writeCursor - readCursor
      BY <2>1, <1>1
    <3>2. QED BY <3>1
  <2>3. Run(readCursor, writeCursor)[k] = slots[i]
    BY <2>1, <2>2, <1>1 DEF Run
  <2>4. run[k].cmd = Reset
    BY <2>1, <2>2, <2>3 DEF Decode
  <2>5. received'[readCursor + k] = run[k] /\ readCursor + k \in 1 .. Len(received')
    BY <2>2, <1>1, <1>2
  <2>6. QED BY <2>4, <2>5 DEF ExposedInv, ResetDelivered
<1>4. CASE UNCHANGED eventVars
  <2>1. ASSUME NEW j \in 1 .. Len(received)
        PROVE  received'[j] = received[j] /\ j \in 1 .. Len(received')
    BY <1>1, <1>2
  <2>2. exposed' = exposed
    BY <1>4 DEF eventVars
  <2>3. QED BY <2>1, <2>2 DEF ExposedInv, ResetDelivered
<1>5. QED BY <1>3, <1>4 DEF Frames

\* So does every step.
LEMMA NextExpose ==
  ASSUME IInv, ExposedInv, [SharedNext]_vars
  PROVE  ExposedInv'
<1>1. CASE Frames
  BY <1>1, FramesExpose
<1>2. CASE Produce /\ UNCHANGED eventVars
  <2>1. received' = received
    BY <1>2 DEF Produce, GuestNew, GuestDrop, BeginFrame, EndFrame, Push, Alloc,
       PushText, PushPair, Unframed, history
  <2>2. QED BY <2>1, <1>2 DEF ExposedInv, ResetDelivered, eventVars
<1>3. CASE HostEvent \/ GuestDrain
  <2>1. received' = received
    BY <1>3 DEF HostEvent, GuestDrain, ringVars, history
  <2>2. exposed' = exposed
    BY <1>3 DEF HostEvent, GuestDrain, HostSends, SendPlain, SendText, PushEvent,
       GuestTakes, DrainEvents, NativeDrain, TakeAll
  <2>3. QED BY <2>1, <2>2 DEF ExposedInv, ResetDelivered
<1>4. CASE UNCHANGED vars
  BY <1>4 DEF ExposedInv, ResetDelivered, vars, ringVars, history, eventVars
<1>5. QED BY <1>1, <1>2, <1>3, <1>4 DEF SharedNext

\* A string that reaches the guest is the one that was sent until the host has
\* consumed a RESET (Host::frames, Host::send_event, Guest::drain_events).
THEOREM LostOnlyByReset == SharedSpec => []TextLostOnlyByReset
<1>1. SharedInit => ExposedInv
  BY DEF SharedInit, EventInit, ExposedInv
<1>2. SharedSpec => []IInv
  BY RingPart, RingInductive, PTL
<1>3. SharedSpec => []TextsIntact
  BY EventPart, TextsCorrect, PTL
<1>4. SharedSpec => []ExposedInv
  BY <1>1, <1>2, NextExpose, PTL DEF SharedSpec
<1>5. ExposedInv /\ TextsIntact => TextLostOnlyByReset
  BY DEF ExposedInv, TextsIntact, TextLostOnlyByReset, TextsResolved
<1>6. QED BY <1>3, <1>4, <1>5, PTL


-----------------------------------------------------------------------------
(* Who is above whom: up gives each id's parent, or None.                     *)

Parentage == [Ids -> Optional(Ids)]

Closed(up, S) == \A i \in S : up[i] # None => up[i] \in S

\* c is y or above it.
Reach(up, y, c) == \A S \in SUBSET Ids : y \in S /\ Closed(up, S) => c \in S

Above(up, y) == {c \in Ids : Reach(up, y, c)}
Below(up, c) == {y \in Ids : Reach(up, y, c)}

\* Nobody is above their own parent.
Acyclic(up) == \A c \in Ids : up[c] # None => ~Reach(up, up[c], c)

\* The same with d's parent set.
Reparented(up, d, q) == [up EXCEPT ![d] = q]

LEMMA NoneApart == None \notin Ids
BY NativeAssumption

LEMMA AboveClosed ==
  ASSUME NEW up \in Parentage, NEW y \in Ids
  PROVE  /\ y \in Above(up, y) /\ Above(up, y) \in SUBSET Ids
         /\ Closed(up, Above(up, y))
         /\ Reach(up, y, y)
<1>1. Reach(up, y, y) BY DEF Reach
<1>2. ASSUME NEW i \in Above(up, y), up[i] # None PROVE up[i] \in Above(up, y)
  <2>1. i \in Ids /\ Reach(up, y, i) BY DEF Above
  <2>2. up[i] \in Ids BY <1>2, <2>1 DEF Parentage, Optional
  <2>3. ASSUME NEW S \in SUBSET Ids, y \in S, Closed(up, S) PROVE up[i] \in S
    <3>1. i \in S BY <2>1, <2>3 DEF Reach
    <3>2. QED BY <3>1, <2>3, <1>2 DEF Closed
  <2>4. Reach(up, y, up[i]) BY <2>3 DEF Reach
  <2>5. QED BY <2>2, <2>4 DEF Above
<1>3. Closed(up, Above(up, y)) BY <1>2 DEF Closed
<1>4. QED BY <1>1, <1>3 DEF Above

LEMMA ReachParent ==
  ASSUME NEW up \in Parentage, NEW y \in Ids, NEW c \in Ids, Reach(up, y, c), up[c] # None
  PROVE  up[c] \in Ids /\ Reach(up, y, up[c])
<1>1. c \in Above(up, y) BY DEF Above
<1>2. up[c] \in Above(up, y) BY <1>1, AboveClosed DEF Closed
<1>3. QED BY <1>2 DEF Above

LEMMA ReachOver ==
  ASSUME NEW up \in Parentage, NEW x \in Ids, NEW y \in Ids, NEW z \in Ids,
         Reach(up, x, y), Reach(up, y, z)
  PROVE  Reach(up, x, z)
<1>1. y \in Above(up, x) /\ Closed(up, Above(up, x)) /\ Above(up, x) \in SUBSET Ids
  BY AboveClosed DEF Above
<1>2. z \in Above(up, x) BY <1>1 DEF Reach
<1>3. QED BY <1>2 DEF Above

\* What is above y and is not y is above its parent.
LEMMA ReachFromParent ==
  ASSUME NEW up \in Parentage, NEW y \in Ids, NEW c \in Ids, Reach(up, y, c), y # c
  PROVE  up[y] \in Ids /\ Reach(up, up[y], c)
<1>1. CASE up[y] = None
  <2>1. Closed(up, {y}) BY <1>1 DEF Closed
  <2>2. c \in {y} BY <2>1 DEF Reach
  <2>3. QED BY <2>2
<1>2. CASE up[y] # None
  <2>1. up[y] \in Ids BY <1>2 DEF Parentage, Optional
  <2> DEFINE S == {y} \union Above(up, up[y])
  <2>2. /\ up[y] \in Above(up, up[y]) /\ Above(up, up[y]) \in SUBSET Ids
        /\ Closed(up, Above(up, up[y]))
    BY <2>1, AboveClosed
  <2>3. Closed(up, S) BY <2>2 DEF Closed
  <2>4. S \in SUBSET Ids BY <2>2
  <2>5. c \in S
    <3> HIDE DEF S
    <3>1. y \in S BY DEF S
    <3>2. QED BY <2>3, <2>4, <3>1 DEF Reach
  <2>6. c \in Above(up, up[y]) BY <2>5
  <2>7. QED BY <2>1, <2>6 DEF Above
<1>3. QED BY <1>1, <1>2

\* Of two nodes above a third one is above the other.
LEMMA AboveInLine ==
  ASSUME NEW up \in Parentage, NEW y \in Ids, NEW a \in Ids, NEW b \in Ids,
         Reach(up, y, a), Reach(up, y, b)
  PROVE  Reach(up, a, b) \/ Reach(up, b, a)
<1> DEFINE S == {z \in Ids : Reach(up, z, a) \/ Reach(up, a, z)}
<1>1. ASSUME NEW z \in S, up[z] # None PROVE up[z] \in S
  <2>1. up[z] \in Ids BY <1>1 DEF Parentage, Optional
  <2>2. CASE Reach(up, a, z)
    <3>1. Reach(up, a, up[z]) BY <2>2, <1>1, ReachParent
    <3>2. QED BY <3>1, <2>1
  <2>3. CASE Reach(up, z, a) /\ z # a
    <3>1. Reach(up, up[z], a) BY <2>3, ReachFromParent
    <3>2. QED BY <3>1, <2>1
  <2>4. CASE z = a
    <3>1. Reach(up, a, z) BY <2>4, AboveClosed
    <3>2. QED BY <3>1, <2>2
  <2>5. QED BY <2>2, <2>3, <2>4
<1>2. Closed(up, S) BY <1>1 DEF Closed
<1>3. y \in S OBVIOUS
<1>4. b \in S
  <2>1. S \in SUBSET Ids OBVIOUS
  <2> HIDE DEF S
  <2>2. QED BY <1>2, <1>3, <2>1 DEF Reach
<1>5. QED BY <1>4

\* A node that hangs nowhere, hung under one it is not above.
LEMMA AcyclicLinked ==
  ASSUME NEW up \in Parentage, Acyclic(up), NEW q \in Ids, NEW d \in Ids,
         up[d] = None, ~Reach(up, q, d)
  PROVE  Acyclic(Reparented(up, d, q)) /\ Reparented(up, d, q) \in Parentage
<1> DEFINE new == [up EXCEPT ![d] = q]
<1>1. new \in Parentage BY DEF Parentage, Optional
<1>2. new[d] = q /\ \A x \in Ids : x # d => new[x] = up[x] BY DEF Parentage
<1>3. ASSUME NEW A \in SUBSET Ids, Closed(up, A), d \in A => q \in A PROVE Closed(new, A)
  BY <1>2, <1>3 DEF Closed
<1> HIDE DEF new
<1> DEFINE Q == Above(up, q)
<1>4. q \in Q /\ Q \in SUBSET Ids /\ Closed(up, Q) /\ d \notin Q
  BY AboveClosed DEF Above
<1>5. ASSUME NEW c \in Ids, new[c] # None, Reach(new, new[c], c) PROVE FALSE
  <2>1. CASE c = d
    <3>1. Closed(new, Q) BY <1>3, <1>4
    <3>2. d \in Q BY <3>1, <1>4, <1>2, <1>5, <2>1 DEF Reach
    <3>3. QED BY <3>2, <1>4
  <2>2. CASE c # d
    <3> DEFINE p == up[c]
               P == Above(up, p)
    <3>1. new[c] = p /\ p \in Ids BY <2>2, <1>2, <1>5 DEF Parentage, Optional
    <3>2. p \in P /\ P \in SUBSET Ids /\ Closed(up, P) BY <3>1, AboveClosed
    <3>3. ~Reach(up, p, c) BY <3>1, <1>5, NoneApart DEF Acyclic
    <3>4. c \notin P BY <3>3 DEF Above
    <3> DEFINE S == IF d \in P THEN P \union Q ELSE P
    <3>5. Closed(new, S)
      <4>1. S \in SUBSET Ids BY <3>2, <1>4
      <4>2. Closed(up, S) BY <3>2, <1>4 DEF Closed
      <4>3. d \in S => q \in S BY <1>4
      <4> HIDE DEF S
      <4>4. QED BY <4>1, <4>2, <4>3, <1>3
    <3>6. p \in S /\ S \in SUBSET Ids BY <3>2, <1>4
    <3>7. c \in S
      <4> HIDE DEF S, p
      <4>1. QED BY <3>5, <3>6, <3>1, <1>5 DEF Reach
    <3>8. d \in P /\ c \in Q BY <3>4, <3>7
    <3>9. Reach(up, q, c) /\ Reach(up, p, d) BY <3>8 DEF Above
    <3>10. Reach(up, c, p)
      <4>1. Reach(up, c, c) BY AboveClosed
      <4>2. QED BY <4>1, <3>1, NoneApart, ReachParent
    <3>11. Reach(up, q, p)
      <4> HIDE DEF p
      <4>1. QED BY <3>1, <3>9, <3>10, ReachOver
    <3>12. Reach(up, q, d)
      <4> HIDE DEF p
      <4>1. QED BY <3>1, <3>9, <3>11, ReachOver
    <3>13. QED BY <3>12
  <2>3. QED BY <2>1, <2>2
<1>6. Acyclic(new) BY <1>5 DEF Acyclic
<1>7. QED BY <1>1, <1>6 DEF new, Reparented

\* A node taken from where it hangs.
LEMMA AcyclicUnlinked ==
  ASSUME NEW up \in Parentage, Acyclic(up), NEW d \in Ids
  PROVE  Acyclic(Reparented(up, d, None)) /\ Reparented(up, d, None) \in Parentage
<1> DEFINE new == [up EXCEPT ![d] = None]
<1>1. new \in Parentage BY DEF Parentage, Optional
<1>2. new[d] = None /\ \A x \in Ids : x # d => new[x] = up[x] BY DEF Parentage
<1> HIDE DEF new
<1>3. ASSUME NEW c \in Ids, new[c] # None, Reach(new, new[c], c) PROVE FALSE
  <2>1. c # d /\ new[c] = up[c] /\ up[c] \in Ids
    BY <1>2, <1>3 DEF Parentage, Optional
  <2>2. ASSUME NEW S \in SUBSET Ids, Closed(up, S) PROVE Closed(new, S)
    BY <1>2, <2>2 DEF Closed
  <2>3. Reach(up, up[c], c) BY <1>3, <2>1, <2>2 DEF Reach
  <2>4. QED BY <1>3, <2>1, <2>3 DEF Acyclic
<1>4. Acyclic(new) BY <1>3 DEF Acyclic
<1>5. QED BY <1>1, <1>4 DEF new, Reparented

-----------------------------------------------------------------------------
(* Lists of children.                                                        *)

Once(list) == \A i, j \in 1 .. Len(list) : list[i] = list[j] => i = j

\* What a list without c holds.
LEMMA WithoutOne ==
  ASSUME NEW S, NEW list \in Seq(S), NEW c
  PROVE  /\ Without(list, c) \in Seq(S)
         /\ \A x : Holds(Without(list, c), x) => Holds(list, x)
         /\ \A x : x # c /\ Holds(list, x) => Holds(Without(list, c), x)
         /\ Once(list) => Once(Without(list, c)) /\ ~Holds(Without(list, c), c)
<1>1. CASE ~Holds(list, c)
  BY <1>1 DEF Without
<1>2. CASE Holds(list, c)
  <2> DEFINE at == CHOOSE k \in 1 .. Len(list) : list[k] = c
             fst == SubSeq(list, 1, at - 1)
             snd == SubSeq(list, at + 1, Len(list))
             w == fst \o snd
  <2>1. at \in 1 .. Len(list) /\ list[at] = c
    BY <1>2 DEF Holds
  <2>2. Without(list, c) = w
    BY <1>2 DEF Without
  <2> HIDE DEF at
  <2>3. /\ fst \in Seq(S) /\ Len(fst) = at - 1
        /\ \A i \in 1 .. at - 1 : fst[i] = list[i]
    BY <2>1
  <2>4. /\ snd \in Seq(S) /\ Len(snd) = Len(list) - at
        /\ \A i \in 1 .. Len(list) - at : snd[i] = list[at + i]
    BY <2>1
  <2> HIDE DEF fst, snd
  <2>5. /\ w \in Seq(S) /\ Len(w) = Len(list) - 1
        /\ \A i \in 1 .. Len(w) : w[i] = IF i < at THEN list[i] ELSE list[i + 1]
    <3>1. fst \in Seq(S) /\ snd \in Seq(S)
      BY <2>3, <2>4
    <3>2. /\ w \in Seq(S) /\ Len(w) = Len(fst) + Len(snd)
          /\ \A i \in 1 .. Len(fst) + Len(snd) :
               w[i] = IF i <= Len(fst) THEN fst[i] ELSE snd[i - Len(fst)]
      BY <3>1, SMTT(30)
    <3> HIDE DEF w
    <3>3. ASSUME NEW i \in 1 .. Len(w), i < at PROVE w[i] = list[i]
      BY <2>1, <2>3, <2>4, <3>2, <3>3
    <3>4. ASSUME NEW i \in 1 .. Len(w), ~(i < at) PROVE w[i] = list[i + 1]
      <4> DEFINE k == i - Len(fst)
      <4>1. /\ Len(list) \in Nat /\ at \in 1 .. Len(list) /\ i \in Nat /\ i >= at
            /\ i <= Len(list) - 1 /\ Len(fst) = at - 1
        BY <2>1, <2>3, <2>4, <3>2, <3>4
      <4>2. k \in 1 .. Len(list) - at /\ at + k = i + 1 /\ ~(i <= Len(fst))
        BY <4>1
      <4>3. w[i] = snd[k]
        BY <3>2, <4>2
      <4>4. snd[k] = list[at + k]
        BY <2>4, <4>2
      <4>5. QED BY <4>2, <4>3, <4>4
    <3>5. QED BY <2>1, <2>3, <2>4, <3>2, <3>3, <3>4
  <2> HIDE DEF w
  <2>6. \A x : Holds(w, x) => Holds(list, x)
    BY <2>1, <2>5 DEF Holds
  <2>7. ASSUME NEW x, x # c, Holds(list, x) PROVE Holds(w, x)
    <3>1. PICK i \in 1 .. Len(list) : list[i] = x
      BY <2>7 DEF Holds
    <3>2. CASE i < at
      <4>1. i \in 1 .. Len(w) /\ w[i] = x
        BY <2>1, <2>5, <3>1, <3>2
      <4>2. QED BY <4>1 DEF Holds
    <3>3. CASE i > at
      <4>1. i - 1 \in 1 .. Len(w) /\ w[i - 1] = x
        BY <2>1, <2>5, <3>1, <3>3
      <4>2. QED BY <4>1 DEF Holds
    <3>4. QED BY <2>1, <2>7, <3>1, <3>2, <3>3
  <2>8. ASSUME Once(list) PROVE Once(w) /\ ~Holds(w, c)
    <3>1. ASSUME NEW i \in 1 .. Len(w), NEW j \in 1 .. Len(w), w[i] = w[j]
          PROVE  i = j
      BY <2>1, <2>5, <2>8, <3>1 DEF Once
    <3>2. ASSUME NEW i \in 1 .. Len(w), w[i] = c PROVE FALSE
      BY <2>1, <2>5, <2>8, <3>2 DEF Once
    <3>3. QED BY <3>1, <3>2 DEF Once, Holds
  <2>9. QED BY <2>2, <2>5, <2>6, <2>7, <2>8
<1>3. QED BY <1>1, <1>2

\* A child comes into a list once.
LEMMA InsertedOne ==
  ASSUME NEW S, NEW list \in Seq(S), NEW c \in S, NEW k \in Nat
  PROVE  /\ Inserted(list, c, k) \in Seq(S)
         /\ \A x : Holds(Inserted(list, c, k), x) <=> Holds(list, x) \/ x = c
         /\ Once(list) => Once(Inserted(list, c, k))
<1>1. CASE Holds(list, c)
  BY <1>1 DEF Inserted
<1>2. CASE ~Holds(list, c)
  <2> DEFINE at == (IF k < Len(list) THEN k ELSE Len(list)) + 1
             fst == SubSeq(list, 1, at - 1)
             snd == SubSeq(list, at, Len(list))
             w == fst \o <<c>> \o snd
  <2>1. at \in 1 .. Len(list) + 1 OBVIOUS
  <2>2. Inserted(list, c, k) = w BY <1>2 DEF Inserted, InsertAt
  <2> HIDE DEF at
  <2>3. /\ fst \in Seq(S) /\ Len(fst) = at - 1
        /\ \A i \in 1 .. at - 1 : fst[i] = list[i]
    BY <2>1
  <2>4. /\ snd \in Seq(S) /\ Len(snd) = Len(list) - at + 1
        /\ \A i \in 1 .. Len(list) - at + 1 : snd[i] = list[at + i - 1]
    BY <2>1
  <2> HIDE DEF fst, snd
  <2> DEFINE u == fst \o <<c>>
  <2>5. /\ u \in Seq(S) /\ Len(u) = at
        /\ \A i \in 1 .. at : u[i] = IF i < at THEN list[i] ELSE c
    <3>1. fst \in Seq(S) /\ <<c>> \in Seq(S) /\ Len(<<c>>) = 1 /\ <<c>>[1] = c
      BY <2>3
    <3>2. u \in Seq(S) /\ Len(u) = Len(fst) + 1
          /\ \A i \in 1 .. Len(fst) + 1 : u[i] = IF i <= Len(fst) THEN fst[i] ELSE c
      BY <3>1
    <3> HIDE DEF u
    <3>3. QED BY <3>2, <2>3, <2>1
  <2>6. w = u \o snd OBVIOUS
  <2> HIDE DEF u, w
  <2>7. /\ w \in Seq(S) /\ Len(w) = Len(list) + 1
        /\ \A i \in 1 .. Len(list) + 1 :
             w[i] = IF i < at THEN list[i] ELSE IF i = at THEN c ELSE list[i - 1]
    <3>1. /\ w \in Seq(S) /\ Len(w) = Len(u) + Len(snd)
          /\ \A i \in 1 .. Len(u) + Len(snd) :
               w[i] = IF i <= Len(u) THEN u[i] ELSE snd[i - Len(u)]
      BY <2>4, <2>5, <2>6
    <3>2. Len(w) = Len(list) + 1 BY <3>1, <2>1, <2>4, <2>5
    <3>3. ASSUME NEW i \in 1 .. Len(list) + 1, i <= at
          PROVE  w[i] = IF i < at THEN list[i] ELSE c
      BY <3>1, <3>2, <3>3, <2>1, <2>5
    <3>4. ASSUME NEW i \in 1 .. Len(list) + 1, ~(i <= at) PROVE w[i] = list[i - 1]
      <4>1. /\ Len(list) \in Nat /\ at \in Nat /\ i - at \in 1 .. Len(list) - at + 1
            /\ at + (i - at) - 1 = i - 1
        BY <3>4, <2>1
      <4>2. w[i] = snd[i - at] BY <3>1, <3>2, <3>4, <2>5
      <4>3. snd[i - at] = list[at + (i - at) - 1] BY <2>4, <4>1
      <4>4. QED BY <4>1, <4>2, <4>3
    <3>5. QED BY <3>1, <3>2, <3>3, <3>4, <2>1
  <2>8. ASSUME NEW x, Holds(w, x) PROVE Holds(list, x) \/ x = c
    <3>1. PICK i \in 1 .. Len(list) + 1 : w[i] = x BY <2>7, <2>8 DEF Holds
    <3>2. CASE i < at
      <4>1. i \in 1 .. Len(list) /\ list[i] = x BY <3>1, <3>2, <2>1, <2>7
      <4>2. QED BY <4>1 DEF Holds
    <3>3. CASE i = at BY <3>1, <3>3, <2>1, <2>7
    <3>4. CASE i > at
      <4>1. i - 1 \in 1 .. Len(list) /\ list[i - 1] = x BY <3>1, <3>4, <2>1, <2>7
      <4>2. QED BY <4>1 DEF Holds
    <3>5. QED BY <3>2, <3>3, <3>4, <2>1
  <2>9. ASSUME NEW x, Holds(list, x) \/ x = c PROVE Holds(w, x)
    <3>1. CASE x = c
      <4>1. at \in 1 .. Len(w) /\ w[at] = c BY <2>1, <2>7
      <4>2. QED BY <4>1, <3>1 DEF Holds
    <3>2. CASE Holds(list, x)
      <4>1. PICK i \in 1 .. Len(list) : list[i] = x BY <3>2 DEF Holds
      <4>2. CASE i < at
        <5>1. i \in 1 .. Len(w) /\ w[i] = x BY <4>1, <4>2, <2>7
        <5>2. QED BY <5>1 DEF Holds
      <4>3. CASE ~(i < at)
        <5>1. i + 1 \in 1 .. Len(list) + 1 /\ ~(i + 1 < at) /\ i + 1 # at /\ (i + 1) - 1 = i
          BY <4>3, <2>1
        <5>2. i + 1 \in 1 .. Len(w) /\ w[i + 1] = x BY <4>1, <5>1, <2>7
        <5>3. QED BY <5>2 DEF Holds
      <4>4. QED BY <4>2, <4>3
    <3>3. QED BY <2>9, <3>1, <3>2
  <2>10. ASSUME Once(list) PROVE Once(w)
    <3> SUFFICES ASSUME NEW i \in 1 .. Len(w), NEW j \in 1 .. Len(w), w[i] = w[j], i < j
                 PROVE  FALSE
      BY <2>7 DEF Once
    <3>0. \A n \in 1 .. Len(list) : list[n] # c BY <1>2 DEF Holds
    <3>1. i \in 1 .. Len(list) + 1 /\ j \in 1 .. Len(list) + 1 /\ Len(list) \in Nat /\ at \in Nat
      BY <2>1, <2>7
    <3>2. \A m, n \in 1 .. Len(list) : list[m] = list[n] => m = n BY <2>10 DEF Once
    <3>3. CASE j < at
      <4>1. i \in 1 .. Len(list) /\ j \in 1 .. Len(list) /\ w[i] = list[i] /\ w[j] = list[j]
             /\ i # j
        BY <3>3, <3>1, <2>1, <2>7
      <4>2. QED BY <4>1, <3>2
    <3>4. CASE j = at
      <4>1. i \in 1 .. Len(list) /\ w[i] = list[i] /\ w[j] = c BY <3>4, <3>1, <2>1, <2>7
      <4>2. QED BY <4>1, <3>0
    <3>5. CASE j > at
      <4>1. j - 1 \in 1 .. Len(list) /\ w[j] = list[j - 1] BY <3>5, <3>1, <2>1, <2>7
      <4>2. CASE i < at
        <5>1. i \in 1 .. Len(list) /\ w[i] = list[i] /\ i # j - 1
          BY <4>2, <3>5, <3>1, <2>1, <2>7
        <5>2. QED BY <5>1, <4>1, <3>2
      <4>3. CASE i = at BY <4>1, <4>3, <3>0, <3>1, <2>7
      <4>4. CASE i > at
        <5>1. i - 1 \in 1 .. Len(list) /\ w[i] = list[i - 1] /\ i - 1 # j - 1
          BY <4>4, <3>1, <2>1, <2>7
        <5>2. QED BY <5>1, <4>1, <3>2
      <4>5. QED BY <4>2, <4>3, <4>4, <3>1
    <3>6. QED BY <3>3, <3>4, <3>5, <3>1
  <2>11. QED BY <2>2, <2>7, <2>8, <2>9, <2>10
<1>3. QED BY <1>1, <1>2

-----------------------------------------------------------------------------
(* The links of the nodes: a node lists exactly the nodes that name it as    *)
(* their parent, each once, and nobody is above their own parent.            *)

Nodes == [Ids -> Optional(Node)]

Parents(ns) == [i \in Ids |-> IF ns[i] = None THEN None ELSE ns[i].parent]

ListsItsOwn(ns) ==
  \A p \in Ids : ns[p] # None =>
    /\ Once(ns[p].children)
    /\ \A c \in Ids : Holds(ns[p].children, c) => ns[c] # None /\ ns[c].parent = p

ListedByParent(ns) ==
  \A c \in Ids : ns[c] # None /\ ns[c].parent # None =>
    ns[ns[c].parent] # None /\ Holds(ns[ns[c].parent].children, c)

Linked(ns) ==
  /\ ns \in Nodes
  /\ ListsItsOwn(ns) /\ ListedByParent(ns)
  /\ Acyclic(Parents(ns))

LEMMA ParentsType ==
  ASSUME NEW ns \in Nodes
  PROVE  /\ Parents(ns) \in Parentage
         /\ \A i \in Ids : ns[i] # None => Parents(ns)[i] = ns[i].parent
         /\ \A i \in Ids : ns[i] = None => Parents(ns)[i] = None
<1>1. ASSUME NEW i \in Ids, ns[i] # None PROVE ns[i].parent \in Optional(Ids)
  <2>1. ns[i] \in Node BY <1>1 DEF Nodes, Optional
  <2>2. QED BY <2>1 DEF Node
<1>2. QED BY <1>1 DEF Parents, Parentage, Optional

\* Under speaks of the nodes as Reach does of their parents.
LEMMA UnderIs ==
  ASSUME nodes \in Nodes, NEW p \in Ids, NEW c \in Ids
  PROVE  Under(p, c) <=> Reach(Parents(nodes), p, c)
<1>1. ASSUME NEW S \in SUBSET Ids
      PROVE  Closed(Parents(nodes), S)
               <=> \A i \in S : Exists(i) /\ nodes[i].parent # None => nodes[i].parent \in S
  BY ParentsType DEF Closed, Exists
<1>2. QED BY <1>1 DEF Under, Reach

LEMMA NodeNotNone == \A n \in Node : n # None
BY NodeAssumption

\* New contents leave the links as they are.
LEMMA LinkedContent ==
  ASSUME NEW ns \in Nodes, Linked(ns), NEW i \in Ids, ns[i] # None, NEW n \in Node,
         n.parent = ns[i].parent, n.children = ns[i].children
  PROVE  Linked([ns EXCEPT ![i] = n])
<1> DEFINE new == [ns EXCEPT ![i] = n]
<1>1. new \in Nodes BY DEF Nodes, Optional
<1>2. \A x \in Ids : /\ new[x] # None <=> ns[x] # None
                     /\ ns[x] # None => /\ new[x].parent = ns[x].parent
                                        /\ new[x].children = ns[x].children
  BY NodeNotNone DEF Nodes
<1> HIDE DEF new
<1>3. Parents(new) = Parents(ns) BY <1>2 DEF Parents
<1>4. ListsItsOwn(new) BY <1>2 DEF ListsItsOwn, Linked
<1>5. ListedByParent(new)
  <2>1. ASSUME NEW c \in Ids, new[c] # None, new[c].parent # None
        PROVE  new[new[c].parent] # None /\ Holds(new[new[c].parent].children, c)
    <3>1. ns[c] # None /\ new[c].parent = ns[c].parent BY <1>2, <2>1
    <3>2. ns[c].parent \in Ids
      <4>1. ns[c] \in Node BY <3>1 DEF Nodes, Optional
      <4>2. QED BY <4>1, <3>1, <2>1 DEF Node, Optional
    <3>3. QED BY <1>2, <2>1, <3>1, <3>2 DEF Linked, ListedByParent
  <2>2. QED BY <2>1 DEF ListedByParent
<1>6. QED BY <1>1, <1>3, <1>4, <1>5 DEF Linked, new

\* A node that is new hangs nowhere and lists nobody.
LEMMA LinkedFresh ==
  ASSUME NEW ns \in Nodes, Linked(ns), NEW i \in Ids, ns[i] = None, NEW n \in Node,
         n.parent = None, n.children = <<>>
  PROVE  Linked([ns EXCEPT ![i] = n])
<1> DEFINE new == [ns EXCEPT ![i] = n]
<1>1. new \in Nodes BY DEF Nodes, Optional
<1>2. new[i] = n /\ n # None /\ \A x \in Ids : x # i => new[x] = ns[x]
  BY NodeNotNone DEF Nodes
<1> HIDE DEF new
<1>3. Parents(new) = Parents(ns) BY <1>2 DEF Parents
<1>4. ListsItsOwn(new)
  <2>1. ASSUME NEW p \in Ids, new[p] # None
        PROVE  /\ Once(new[p].children)
               /\ \A c \in Ids : Holds(new[p].children, c) => new[c] # None /\ new[c].parent = p
    <3>1. CASE p = i BY <3>1, <1>2 DEF Once, Holds
    <3>2. CASE p # i BY <3>2, <2>1, <1>2 DEF Linked, ListsItsOwn
    <3>3. QED BY <3>1, <3>2
  <2>2. QED BY <2>1 DEF ListsItsOwn
<1>5. ListedByParent(new)
  <2>1. ASSUME NEW c \in Ids, new[c] # None, new[c].parent # None
        PROVE  new[new[c].parent] # None /\ Holds(new[new[c].parent].children, c)
    <3>1. c # i /\ new[c] = ns[c] BY <1>2, <2>1
    <3>2. ns[ns[c].parent] # None /\ Holds(ns[ns[c].parent].children, c)
      BY <3>1, <2>1 DEF Linked, ListedByParent
    <3>3. ns[c].parent # i BY <3>2
    <3>4. ns[c].parent \in Ids
      <4>1. ns[c] \in Node BY <3>1, <2>1 DEF Nodes, Optional
      <4>2. QED BY <4>1, <3>1, <2>1 DEF Node, Optional
    <3>5. QED BY <1>2, <3>1, <3>2, <3>3, <3>4
  <2>2. QED BY <2>1 DEF ListedByParent
<1>6. QED BY <1>1, <1>3, <1>4, <1>5 DEF Linked, new

\* One node's list and another one's parent are set.
Relink(ns, p, c, list, q) == [ns EXCEPT ![p].children = list, ![c].parent = q]

LEMMA RelinkedNodes ==
  ASSUME NEW ns \in Nodes, NEW p \in Ids, NEW c \in Ids, p # c, ns[p] # None, ns[c] # None,
         NEW list \in Seq(Ids), NEW q \in Optional(Ids), NEW new,
         new = Relink(ns, p, c, list, q)
  PROVE  /\ new \in Nodes
         /\ new[p] # None /\ new[p].children = list /\ new[p].parent = ns[p].parent
         /\ new[c] # None /\ new[c].children = ns[c].children /\ new[c].parent = q
         /\ \A x \in Ids : x # p /\ x # c => new[x] = ns[x]
         /\ \A x \in Ids : new[x] # None <=> ns[x] # None
         /\ Parents(new) = Reparented(Parents(ns), c, q)
<1> DEFINE np == [ns[p] EXCEPT !.children = list]
           nc == [ns[c] EXCEPT !.parent = q]
<1>1. ns[p] \in Node /\ ns[c] \in Node BY DEF Nodes, Optional
<1>2. np \in Node /\ np.children = list /\ np.parent = ns[p].parent
  BY <1>1 DEF Node
<1>3. nc \in Node /\ nc.children = ns[c].children /\ nc.parent = q
  BY <1>1 DEF Node
<1>4. new = [ns EXCEPT ![p] = np, ![c] = nc] BY DEF Relink
<1> HIDE DEF np, nc
<1>5. new[p] = np /\ new[c] = nc /\ \A x \in Ids : x # p /\ x # c => new[x] = ns[x]
  BY <1>4 DEF Nodes
<1>6. new \in Nodes BY <1>2, <1>3, <1>4 DEF Nodes, Optional
<1>7. np # None /\ nc # None BY <1>2, <1>3, NodeNotNone
<1>8. \A x \in Ids : new[x] # None <=> ns[x] # None BY <1>5, <1>7
<1>9. ASSUME NEW x \in Ids PROVE Parents(new)[x] = IF x = c THEN q ELSE Parents(ns)[x]
  <2>1. /\ new[p] # None /\ new[p].parent = ns[p].parent
        /\ new[c] # None /\ new[c].parent = q
    BY <1>2, <1>3, <1>5, <1>7
  <2>2. CASE x = p BY <2>1, <2>2, <1>6, ParentsType
  <2>3. CASE x = c BY <2>1, <2>3, <1>6, ParentsType
  <2>4. CASE x # p /\ x # c BY <2>4, <1>5 DEF Parents
  <2>5. QED BY <2>2, <2>3, <2>4
<1>10. Parents(new) = [Parents(ns) EXCEPT ![c] = q]
  <2>1. Parents(new) = [x \in Ids |-> IF x = c THEN q ELSE Parents(ns)[x]]
    BY <1>9 DEF Parents
  <2>2. QED BY <2>1, ParentsType DEF Parentage
<1>11. QED BY <1>2, <1>3, <1>5, <1>6, <1>7, <1>8, <1>10 DEF Reparented

LEMMA ParentIn ==
  ASSUME NEW ns \in Nodes, NEW c \in Ids, ns[c] # None
  PROVE  /\ ns[c].parent \in Optional(Ids)
         /\ ns[c].children \in Seq(Ids)
         /\ ns[c].parent # None => ns[c].parent \in Ids
<1>1. ns[c] \in Node BY DEF Nodes, Optional
<1>2. QED BY <1>1 DEF Node, Optional

LEMMA LinkedInserted ==
  ASSUME NEW ns \in Nodes, Linked(ns), NEW p \in Ids, NEW c \in Ids, NEW k \in Nat,
         ns[p] # None, ns[c] # None,
         (ns[c].parent = None /\ ~Reach(Parents(ns), p, c)) \/ ns[c].parent = p,
         NEW new,
         new = Relink(ns, p, c, Inserted(ns[p].children, c, k), p)
  PROVE  Linked(new)
<1> DEFINE up == Parents(ns)
           list == Inserted(ns[p].children, c, k)
<1>1. up \in Parentage /\ up[c] = ns[c].parent BY ParentsType
<1>2. p # c
  <2>1. CASE ns[c].parent = p /\ p = c
    <3>1. ~Reach(up, p, p) BY <1>1, <2>1, NoneApart DEF Linked, Acyclic
    <3>2. QED BY <1>1, <3>1, AboveClosed
  <2>2. CASE ~Reach(up, p, c) BY <2>2, <1>1, AboveClosed
  <2>3. QED BY <2>1, <2>2
<1>3. /\ list \in Seq(Ids)
      /\ \A x : Holds(list, x) <=> Holds(ns[p].children, x) \/ x = c
      /\ Once(list)
  <2>1. ns[p].children \in Seq(Ids) BY ParentIn
  <2>2. Once(ns[p].children) BY DEF Linked, ListsItsOwn
  <2> DEFINE old == ns[p].children
  <2> HIDE DEF old
  <2>3. old \in Seq(Ids) /\ Once(old) BY <2>1, <2>2 DEF old
  <2>4. /\ Inserted(old, c, k) \in Seq(Ids)
        /\ \A x : Holds(Inserted(old, c, k), x) <=> Holds(old, x) \/ x = c
        /\ Once(Inserted(old, c, k))
    BY <2>3, InsertedOne
  <2>5. QED BY <2>4 DEF old
<1> HIDE DEF list
<1>4. p \in Optional(Ids) BY DEF Optional
<1>5. /\ new \in Nodes
      /\ new[p] # None /\ new[p].children = list /\ new[p].parent = ns[p].parent
      /\ new[c] # None /\ new[c].children = ns[c].children /\ new[c].parent = p
      /\ \A x \in Ids : x # p /\ x # c => new[x] = ns[x]
      /\ \A x \in Ids : new[x] # None <=> ns[x] # None
      /\ Parents(new) = Reparented(up, c, p)
  <2>1. new = Relink(ns, p, c, list, p) BY DEF list
  <2> HIDE DEF up
  <2>2. QED BY <1>2, <1>3, <1>4, <2>1, RelinkedNodes DEF up
<1>6. ASSUME NEW x \in Ids, x # p, new[x] # None PROVE new[x].children = ns[x].children
  BY <1>5, <1>6
<1>7. ASSUME NEW x \in Ids, x # c, new[x] # None PROVE new[x].parent = ns[x].parent
  BY <1>5, <1>7
<1>8. ListsItsOwn(new)
  <2>1. ASSUME NEW x \in Ids, new[x] # None
        PROVE  /\ Once(new[x].children)
               /\ \A y \in Ids : Holds(new[x].children, y) => new[y] # None /\ new[y].parent = x
    <3>1. CASE x = p
      <4>1. ASSUME NEW y \in Ids, Holds(list, y) PROVE new[y] # None /\ new[y].parent = p
        <5>1. CASE y = c BY <5>1, <1>5
        <5>2. CASE y # c
          <6>1. ns[y] # None /\ ns[y].parent = p
            BY <5>2, <4>1, <1>3 DEF Linked, ListsItsOwn
          <6>2. QED BY <5>2, <6>1, <1>5, <1>7
        <5>3. QED BY <5>1, <5>2
      <4>2. QED BY <3>1, <4>1, <1>3, <1>5
    <3>2. CASE x # p
      <4>1. ns[x] # None /\ new[x].children = ns[x].children BY <3>2, <2>1, <1>5, <1>6
      <4>2. ASSUME NEW y \in Ids, Holds(new[x].children, y)
            PROVE  new[y] # None /\ new[y].parent = x
        <5>1. ns[y] # None /\ ns[y].parent = x BY <4>1, <4>2 DEF Linked, ListsItsOwn
        <5>2. y # c BY <5>1, <3>2, NoneApart
        <5>3. QED BY <5>1, <5>2, <1>5, <1>7
      <4>3. Once(new[x].children) BY <4>1 DEF Linked, ListsItsOwn
      <4>4. QED BY <4>2, <4>3
    <3>3. QED BY <3>1, <3>2
  <2>2. QED BY <2>1 DEF ListsItsOwn
<1>9. ListedByParent(new)
  <2>1. ASSUME NEW y \in Ids, new[y] # None, new[y].parent # None
        PROVE  new[new[y].parent] # None /\ Holds(new[new[y].parent].children, y)
    <3>1. CASE y = c BY <3>1, <1>3, <1>5
    <3>2. CASE y # c
      <4>1. ns[y] # None /\ new[y].parent = ns[y].parent BY <3>2, <2>1, <1>5, <1>7
      <4> DEFINE q == ns[y].parent
      <4>2. q \in Ids /\ ns[q] # None /\ Holds(ns[q].children, y)
        BY <4>1, <2>1, ParentIn DEF Linked, ListedByParent
      <4> HIDE DEF q
      <4>3. new[q] # None /\ Holds(new[q].children, y)
        <5>1. CASE q = p BY <5>1, <4>2, <1>3, <1>5
        <5>2. CASE q # p BY <5>2, <4>2, <1>5, <1>6
        <5>3. QED BY <5>1, <5>2
      <4>4. QED BY <4>1, <4>3 DEF q
    <3>3. QED BY <3>1, <3>2
  <2>2. QED BY <2>1 DEF ListedByParent
<1>10. Acyclic(Parents(new))
  <2>1. CASE ns[c].parent = None
    <3>1. up[c] = None /\ ~Reach(up, p, c) /\ Acyclic(up)
      BY <2>1, <1>1, NoneApart DEF Linked
    <3> HIDE DEF up
    <3>2. QED BY <3>1, <1>1, <1>5, AcyclicLinked
  <2>2. CASE ns[c].parent = p
    <3>1. Reparented(up, c, p) = up BY <2>2, <1>1 DEF Parentage, Reparented
    <3>2. QED BY <3>1, <1>5 DEF Linked
  <2>3. QED BY <2>1, <2>2
<1>11. QED BY <1>5, <1>8, <1>9, <1>10 DEF Linked

LEMMA LinkedRemoved ==
  ASSUME NEW ns \in Nodes, Linked(ns), NEW p \in Ids, NEW c \in Ids,
         ns[p] # None, ns[c] # None, ns[c].parent = p,
         NEW new,
         new = Relink(ns, p, c, Without(ns[p].children, c), None)
  PROVE  Linked(new)
<1> DEFINE up == Parents(ns)
           list == Without(ns[p].children, c)
<1>1. up \in Parentage /\ up[c] = p BY ParentsType
<1>2. p # c
  <2>1. SUFFICES ASSUME p = c PROVE FALSE OBVIOUS
  <2>2. ~Reach(up, p, p) BY <1>1, <2>1, NoneApart DEF Linked, Acyclic
  <2>3. QED BY <1>1, <2>2, AboveClosed
<1>3. /\ list \in Seq(Ids)
      /\ \A x : Holds(list, x) => Holds(ns[p].children, x)
      /\ \A x : x # c /\ Holds(ns[p].children, x) => Holds(list, x)
      /\ Once(list) /\ ~Holds(list, c)
  <2>1. ns[p].children \in Seq(Ids) /\ Once(ns[p].children)
    BY ParentIn DEF Linked, ListsItsOwn
  <2>2. QED BY <2>1, WithoutOne
<1> HIDE DEF list
<1>4. None \in Optional(Ids) BY DEF Optional
<1>5. /\ new \in Nodes
      /\ new[p] # None /\ new[p].children = list /\ new[p].parent = ns[p].parent
      /\ new[c] # None /\ new[c].children = ns[c].children /\ new[c].parent = None
      /\ \A x \in Ids : x # p /\ x # c => new[x] = ns[x]
      /\ \A x \in Ids : new[x] # None <=> ns[x] # None
      /\ Parents(new) = Reparented(up, c, None)
  <2>1. new = Relink(ns, p, c, list, None) BY DEF list
  <2> HIDE DEF up
  <2>2. QED BY <1>2, <1>3, <1>4, <2>1, RelinkedNodes DEF up
<1>6. ASSUME NEW x \in Ids, x # p, new[x] # None PROVE new[x].children = ns[x].children
  BY <1>5, <1>6
<1>7. ASSUME NEW x \in Ids, x # c, new[x] # None PROVE new[x].parent = ns[x].parent
  BY <1>5, <1>7
<1>8. ListsItsOwn(new)
  <2>1. ASSUME NEW x \in Ids, new[x] # None
        PROVE  /\ Once(new[x].children)
               /\ \A y \in Ids : Holds(new[x].children, y) => new[y] # None /\ new[y].parent = x
    <3>1. CASE x = p
      <4>1. ASSUME NEW y \in Ids, Holds(list, y) PROVE new[y] # None /\ new[y].parent = p
        <5>1. y # c /\ Holds(ns[p].children, y) BY <4>1, <1>3
        <5>2. ns[y] # None /\ ns[y].parent = p BY <5>1 DEF Linked, ListsItsOwn
        <5>3. QED BY <5>1, <5>2, <1>5, <1>7
      <4>2. QED BY <3>1, <4>1, <1>3, <1>5
    <3>2. CASE x # p
      <4>1. ns[x] # None /\ new[x].children = ns[x].children BY <3>2, <2>1, <1>5, <1>6
      <4>2. ASSUME NEW y \in Ids, Holds(new[x].children, y)
            PROVE  new[y] # None /\ new[y].parent = x
        <5>1. ns[y] # None /\ ns[y].parent = x BY <4>1, <4>2 DEF Linked, ListsItsOwn
        <5>2. y # c BY <5>1, <3>2
        <5>3. QED BY <5>1, <5>2, <1>5, <1>7
      <4>3. Once(new[x].children) BY <4>1 DEF Linked, ListsItsOwn
      <4>4. QED BY <4>2, <4>3
    <3>3. QED BY <3>1, <3>2
  <2>2. QED BY <2>1 DEF ListsItsOwn
<1>9. ListedByParent(new)
  <2>1. ASSUME NEW y \in Ids, new[y] # None, new[y].parent # None
        PROVE  new[new[y].parent] # None /\ Holds(new[new[y].parent].children, y)
    <3>1. y # c BY <2>1, <1>5
    <3>2. ns[y] # None /\ new[y].parent = ns[y].parent BY <3>1, <2>1, <1>5, <1>7
    <3> DEFINE q == ns[y].parent
    <3>3. q \in Ids /\ ns[q] # None /\ Holds(ns[q].children, y)
      BY <3>2, <2>1, ParentIn DEF Linked, ListedByParent
    <3> HIDE DEF q
    <3>4. new[q] # None /\ Holds(new[q].children, y)
      <4>1. CASE q = p BY <4>1, <3>1, <3>3, <1>3, <1>5
      <4>2. CASE q # p BY <4>2, <3>3, <1>5, <1>6
      <4>3. QED BY <4>1, <4>2
    <3>5. QED BY <3>2, <3>4 DEF q
  <2>2. QED BY <2>1 DEF ListedByParent
<1>10. Acyclic(Parents(new))
  <2>1. Acyclic(up) BY DEF Linked
  <2> HIDE DEF up
  <2>2. QED BY <2>1, <1>1, <1>5, AcyclicUnlinked
<1>11. QED BY <1>5, <1>8, <1>9, <1>10 DEF Linked

-----------------------------------------------------------------------------
(* What is below a node.                                                     *)

Up == Parents(nodes)
ListOf(i) == nodes[i].children

\* i and what is below its first m children.
Within(i, m) == {i} \union {y \in Ids : \E j \in 1 .. m : Reach(Up, y, ListOf(i)[j])}

LEMMA UpType ==
  ASSUME Linked(nodes)
  PROVE  /\ Up \in Parentage
         /\ \A i \in Ids : Exists(i) => Up[i] = nodes[i].parent
         /\ \A i \in Ids : Up[i] # None => Exists(i) /\ Up[i] \in Ids
<1>1. nodes \in Nodes BY DEF Linked
<1>2. QED BY <1>1, ParentsType DEF Up, Exists, Parentage, Optional

\* A child of i: it has i as its parent, and i is not below it.
LEMMA ChildOf ==
  ASSUME Linked(nodes), NEW i \in Ids, Exists(i), NEW j \in 1 .. Len(ListOf(i))
  PROVE  /\ ListOf(i)[j] \in Ids /\ Exists(ListOf(i)[j])
         /\ Up[ListOf(i)[j]] = i
         /\ ~Reach(Up, i, ListOf(i)[j])
         /\ Reach(Up, ListOf(i)[j], i)
<1> DEFINE c == ListOf(i)[j]
<1>1. ListOf(i) \in Seq(Ids) BY ParentIn DEF Linked, Exists, ListOf
<1>2. c \in Ids /\ Holds(ListOf(i), c) BY <1>1 DEF Holds
<1> HIDE DEF c
<1>3. nodes[c] # None /\ nodes[c].parent = i
  BY <1>2 DEF Linked, ListsItsOwn, ListOf, Exists
<1>4. Up[c] = i /\ Up \in Parentage BY <1>2, <1>3, UpType DEF Exists
<1>5. Acyclic(Up) BY DEF Linked, Up
<1>6. ~Reach(Up, i, c) BY <1>2, <1>4, <1>5, NoneApart DEF Acyclic
<1>7. Reach(Up, c, i)
  <2>1. Reach(Up, c, c) BY <1>2, <1>4, AboveClosed
  <2>2. QED BY <1>2, <1>4, <2>1, NoneApart, ReachParent
<1>8. QED BY <1>2, <1>3, <1>4, <1>6, <1>7 DEF Exists, c

\* One thing is not below two children.
LEMMA ChildrenApart ==
  ASSUME Linked(nodes), NEW i \in Ids, Exists(i), NEW j \in 1 .. Len(ListOf(i)),
         NEW k \in 1 .. Len(ListOf(i)), NEW y \in Ids,
         Reach(Up, y, ListOf(i)[j]), Reach(Up, y, ListOf(i)[k])
  PROVE  j = k
<1> DEFINE a == ListOf(i)[j]
           b == ListOf(i)[k]
<1>1. /\ a \in Ids /\ Up[a] = i /\ ~Reach(Up, i, a)
      /\ b \in Ids /\ Up[b] = i /\ ~Reach(Up, i, b)
  BY ChildOf
<1>2. Up \in Parentage BY UpType
<1> HIDE DEF a, b
<1>3. Reach(Up, y, a) /\ Reach(Up, y, b) BY DEF a, b
<1>4. Reach(Up, a, b) \/ Reach(Up, b, a) BY <1>1, <1>2, <1>3, AboveInLine
<1>5. a = b
  <2>1. CASE Reach(Up, a, b) /\ a # b
    <3>1. Reach(Up, i, b) BY <2>1, <1>1, <1>2, ReachFromParent
    <3>2. QED BY <3>1, <1>1
  <2>2. CASE Reach(Up, b, a) /\ a # b
    <3>1. Reach(Up, i, a) BY <2>2, <1>1, <1>2, ReachFromParent
    <3>2. QED BY <3>1, <1>1
  <2>3. QED BY <2>1, <2>2, <1>4
<1>6. Once(ListOf(i)) BY DEF Linked, ListsItsOwn, ListOf, Exists
<1>7. QED BY <1>5, <1>6 DEF Once, a, b

LEMMA WithinNext ==
  ASSUME Linked(nodes), NEW i \in Ids, Exists(i), NEW m \in Nat, m < Len(ListOf(i))
  PROVE  /\ Within(i, m + 1) = Within(i, m) \union Below(Up, ListOf(i)[m + 1])
         /\ Within(i, m) \intersect Below(Up, ListOf(i)[m + 1]) = {}
         /\ Within(i, m) \subseteq Ids
<1>1. ListOf(i) \in Seq(Ids) BY ParentIn DEF Linked, Exists, ListOf
<1>2. m + 1 \in 1 .. Len(ListOf(i)) /\ \A j : j \in 1 .. m + 1 <=> j \in 1 .. m \/ j = m + 1
  BY <1>1
<1>3. Within(i, m + 1) = Within(i, m) \union Below(Up, ListOf(i)[m + 1])
  BY <1>2 DEF Within, Below
<1>4. ASSUME NEW y \in Within(i, m), y \in Below(Up, ListOf(i)[m + 1]) PROVE FALSE
  <2>1. y \in Ids /\ Reach(Up, y, ListOf(i)[m + 1]) BY <1>4 DEF Below
  <2>2. CASE y = i BY <2>1, <2>2, <1>2, ChildOf
  <2>3. CASE y # i
    <3>1. PICK j \in 1 .. m : Reach(Up, y, ListOf(i)[j]) BY <1>4, <2>3 DEF Within
    <3>2. j \in 1 .. Len(ListOf(i)) /\ j # m + 1 BY <1>1
    <3>3. QED BY <3>1, <3>2, <1>2, <2>1, ChildrenApart
  <2>4. QED BY <2>2, <2>3
<1>5. QED BY <1>3, <1>4 DEF Within

LEMMA WithinAll ==
  ASSUME Linked(nodes), NEW i \in Ids, Exists(i)
  PROVE  Within(i, Len(ListOf(i))) = Below(Up, i)
<1>1. Up \in Parentage BY UpType
<1>2. ASSUME NEW y \in Within(i, Len(ListOf(i))) PROVE y \in Below(Up, i)
  <2>1. CASE y = i BY <2>1, <1>1, AboveClosed DEF Below
  <2>2. CASE y # i
    <3>1. y \in Ids /\ \E j \in 1 .. Len(ListOf(i)) : Reach(Up, y, ListOf(i)[j])
      BY <2>2, <1>2 DEF Within
    <3>2. PICK j \in 1 .. Len(ListOf(i)) : Reach(Up, y, ListOf(i)[j]) BY <3>1
    <3>3. Reach(Up, y, i) BY <1>1, <3>1, <3>2, ChildOf, ReachOver
    <3>4. QED BY <3>1, <3>3 DEF Below
  <2>3. QED BY <2>1, <2>2
<1>3. ASSUME NEW y \in Below(Up, i) PROVE y \in Within(i, Len(ListOf(i)))
  <2> SUFFICES ASSUME y # i PROVE y \in Within(i, Len(ListOf(i)))
    BY DEF Within
  <2>1. y \in Ids /\ Reach(Up, y, i) BY DEF Below
  <2>2. \E c \in Ids : Up[c] = i /\ Reach(Up, y, c)
    <3> SUFFICES ASSUME \A c \in Ids : Up[c] = i => ~Reach(Up, y, c) PROVE FALSE
      OBVIOUS
    <3> DEFINE S == Above(Up, y) \ {i}
    <3>1. S \in SUBSET Ids /\ y \in S BY <1>1, <2>1, AboveClosed
    <3>2. ASSUME NEW z \in S, Up[z] # None PROVE Up[z] \in S
      <4>1. z \in Ids /\ Reach(Up, y, z) BY DEF Above
      <4>2. Up[z] \in Ids /\ Reach(Up, y, Up[z]) BY <4>1, <3>2, <1>1, <2>1, ReachParent
      <4>3. Up[z] # i BY <4>1
      <4>4. QED BY <4>2, <4>3 DEF Above
    <3>3. Closed(Up, S) BY <3>2 DEF Closed
    <3>4. i \in S
      <4> HIDE DEF S
      <4>1. QED BY <3>1, <3>3, <2>1 DEF Reach
    <3>5. QED BY <3>4
  <2>3. PICK c \in Ids : Up[c] = i /\ Reach(Up, y, c) BY <2>2
  <2>4. nodes[c] # None /\ nodes[c].parent = i /\ i # None
    BY <2>3, UpType, NoneApart DEF Exists
  <2>5. Holds(ListOf(i), c) BY <2>4 DEF Linked, ListedByParent, ListOf
  <2>6. PICK j \in 1 .. Len(ListOf(i)) : ListOf(i)[j] = c BY <2>5 DEF Holds
  <2>7. QED BY <2>1, <2>3, <2>6 DEF Within
<1>4. QED BY <1>2, <1>3

\* There is less below a child.
LEMMA BelowShrinks ==
  ASSUME Linked(nodes), NEW i \in Ids, Exists(i), NEW j \in 1 .. Len(ListOf(i))
  PROVE  /\ Cardinality(Below(Up, i)) \in Nat
         /\ Cardinality(Below(Up, ListOf(i)[j])) \in Nat
         /\ Cardinality(Below(Up, ListOf(i)[j])) < Cardinality(Below(Up, i))
<1> DEFINE c == ListOf(i)[j]
           P == Below(Up, i)
           C == Below(Up, c)
<1>1. Up \in Parentage BY UpType
<1>2. c \in Ids /\ ~Reach(Up, i, c) /\ Reach(Up, c, i) BY ChildOf
<1> HIDE DEF c
<1>3. i \in P /\ i \notin C BY <1>1, <1>2, AboveClosed DEF Below
<1>4. ASSUME NEW y \in C PROVE y \in P
  <2>1. y \in Ids /\ Reach(Up, y, c) BY DEF Below
  <2>2. QED BY <1>1, <1>2, <2>1, ReachOver DEF Below
<1>5. IsFiniteSet(P)
  <2>1. P \in SUBSET Ids /\ IsFiniteSet(Ids) BY NativeAssumption DEF Below
  <2> HIDE DEF P
  <2>2. QED BY <2>1, FS_Subset
<1> HIDE DEF P, C
<1>6. C \in SUBSET P /\ C # P BY <1>3, <1>4
<1>7. /\ IsFiniteSet(C) /\ Cardinality(C) <= Cardinality(P)
      /\ (Cardinality(P) = Cardinality(C) => P = C)
  BY <1>5, <1>6, FS_Subset
<1>8. Cardinality(P) \in Nat /\ Cardinality(C) \in Nat BY <1>5, <1>7, FS_CardinalityType
<1>9. Cardinality(C) < Cardinality(P) BY <1>6, <1>7, <1>8
<1>10. QED BY <1>8, <1>9 DEF P, C, c

-----------------------------------------------------------------------------
(* What materialize makes of a node.                                         *)

Entry == [id : Ids, parent : Optional(Ids), index : Nat, content : Contents]
Walks == Seq(Entry)
Trees == [walk : Walks, children : Nat]

\* The place of an entry is the place of its node among the parent's children.
InPlace(e) ==
  /\ e.parent \in Ids /\ e.parent = Up[e.id]
  /\ e.index < Len(ListOf(e.parent)) /\ ListOf(e.parent)[e.index + 1] = e.id

\* What t is when the first m children of i are in it.
WalkOK(t, i, m) ==
  /\ t \in Walks /\ Len(t) >= 1
  /\ t[1].id = i /\ t[1].parent = None
  /\ \A k \in 1 .. Len(t) : /\ t[k].id \in Within(i, m)
                            /\ t[k].content = nodes[t[k].id].content
  /\ \A y \in Within(i, m) : \E k \in 1 .. Len(t) : t[k].id = y
  /\ \A j, k \in 1 .. Len(t) : t[j].id = t[k].id => j = k
  /\ \A k \in 2 .. Len(t) : /\ InPlace(t[k])
                            /\ t[k].parent = i => t[k].index < m
                            /\ \E j \in 1 .. k - 1 : t[j].id = t[k].parent
  /\ \A j, k \in 2 .. Len(t) :
       j < k /\ t[j].parent = t[k].parent => t[j].index < t[k].index

\* What it is at the end.
WholeWalk(t, i) == WalkOK(t, i, Len(ListOf(i)))

\* The first entry of a child's walk gets its parent and place.
Rehung(e, i, m) == [e EXCEPT !.parent = i, !.index = m]

LEMMA RehungIs ==
  ASSUME NEW e \in Entry, NEW i \in Ids, NEW m \in Nat
  PROVE  /\ Rehung(e, i, m) \in Entry
         /\ Rehung(e, i, m).id = e.id /\ Rehung(e, i, m).content = e.content
         /\ Rehung(e, i, m).parent = i /\ Rehung(e, i, m).index = m
BY DEF Rehung, Entry, Optional

LEMMA JoinedWalks ==
  ASSUME NEW t \in Walks, NEW b \in Walks, b # <<>>, NEW e \in Entry
  PROVE  LET w == t \o <<e>> \o Tail(b)
         IN  /\ w \in Walks /\ Len(w) = Len(t) + Len(b)
             /\ Len(t) \in Nat /\ Len(b) \in Nat /\ Len(b) >= 1
             /\ \A k \in 1 .. Len(t) : w[k] = t[k]
             /\ w[Len(t) + 1] = e
             /\ \A k \in 2 .. Len(b) : w[Len(t) + k] = b[k]
<1> DEFINE u == t \o <<e>>
           r == Tail(b)
           w == u \o r
           N == Len(t)
<1>1. N \in Nat /\ Len(b) \in Nat /\ Len(b) >= 1 BY DEF Walks
<1>2. r \in Walks /\ Len(r) = Len(b) - 1 /\ \A k \in 1 .. Len(b) - 1 : r[k] = b[k + 1]
  BY DEF Walks
<1>3. u \in Walks /\ Len(u) = N + 1 /\ u[N + 1] = e /\ \A k \in 1 .. N : u[k] = t[k]
  <2>1. t \in Seq(Entry) /\ <<e>> \in Seq(Entry) /\ Len(<<e>>) = 1 /\ <<e>>[1] = e BY DEF Walks
  <2>2. QED BY <2>1 DEF Walks
<1> HIDE DEF u, r
<1>4. /\ w \in Walks /\ Len(w) = Len(u) + Len(r)
      /\ \A k \in 1 .. Len(u) : w[k] = u[k]
      /\ \A k \in 1 .. Len(r) : w[Len(u) + k] = r[k]
  <2>1. u \in Seq(Entry) /\ r \in Seq(Entry) BY <1>2, <1>3 DEF Walks
  <2>2. QED BY <2>1 DEF Walks
<1> HIDE DEF w
<1>5. ASSUME NEW k \in 2 .. Len(b) PROVE w[N + k] = b[k]
  <2>1. k - 1 \in 1 .. Len(b) - 1 /\ Len(u) + (k - 1) = N + k /\ (k - 1) + 1 = k
    BY <1>1, <1>3
  <2>2. w[Len(u) + (k - 1)] = r[k - 1] BY <2>1, <1>2, <1>4
  <2>3. QED BY <2>1, <2>2, <1>2
<1>6. w \in Walks /\ Len(w) = N + Len(b) BY <1>1, <1>2, <1>3, <1>4
<1>7. ASSUME NEW k \in 1 .. N PROVE w[k] = t[k] BY <1>1, <1>3, <1>4
<1>8. w[N + 1] = e BY <1>1, <1>3, <1>4
<1>9. QED BY <1>1, <1>5, <1>6, <1>7, <1>8 DEF w, u, r

LEMMA PlacedType ==
  ASSUME NEW tree \in Trees, NEW b \in Walks, NEW i \in Ids
  PROVE  Placed(tree, b, i) \in Trees
<1>1. CASE b = <<>> BY <1>1 DEF Placed
<1>2. CASE b # <<>>
  <2> DEFINE e == Rehung(b[1], i, tree.children)
             w == tree.walk \o <<e>> \o Tail(b)
  <2>1. tree.walk \in Walks /\ tree.children \in Nat BY DEF Trees
  <2>2. b[1] \in Entry BY <1>2 DEF Walks
  <2>3. e \in Entry BY <2>1, <2>2, RehungIs
  <2> HIDE DEF e
  <2>4. w \in Walks BY <1>2, <2>1, <2>3, JoinedWalks
  <2>5. Placed(tree, b, i) = [walk |-> w, children |-> tree.children + 1]
    BY <1>2 DEF Placed, e, Rehung
  <2> HIDE DEF w
  <2>6. QED BY <2>1, <2>4, <2>5 DEF Trees
<1>3. QED BY <1>1, <1>2

\* One child more.
LEMMA PlacedOK ==
  ASSUME Linked(nodes), NEW i \in Ids, Exists(i), NEW m \in Nat, m < Len(ListOf(i)),
         NEW tree \in Trees, WalkOK(tree.walk, i, m), tree.children = m,
         NEW b \in Walks, WholeWalk(b, ListOf(i)[m + 1])
  PROVE  /\ WalkOK(Placed(tree, b, i).walk, i, m + 1)
         /\ Placed(tree, b, i).children = m + 1
<1> DEFINE t == tree.walk
           c == ListOf(i)[m + 1]
           e == Rehung(b[1], i, m)
           w == t \o <<e>> \o Tail(b)
           N == Len(t)
           C == Below(Up, c)
           W == Within(i, m)
<1>1. ListOf(i) \in Seq(Ids) /\ m + 1 \in 1 .. Len(ListOf(i)) /\ Len(ListOf(i)) \in Nat
  <2>1. ListOf(i) \in Seq(Ids) BY ParentIn DEF Linked, Exists, ListOf
  <2>2. QED BY <2>1
<1>2. c \in Ids /\ Exists(c) /\ Up[c] = i /\ ~Reach(Up, i, c) BY <1>1, ChildOf
<1>3. Within(c, Len(ListOf(c))) = C BY <1>2, WithinAll
<1>4. Within(i, m + 1) = W \union C /\ W \intersect C = {} /\ W \subseteq Ids BY WithinNext
<1>5. i \in W /\ i \notin C BY <1>2 DEF Within, Below
<1>6. b # <<>> /\ b[1] \in Entry /\ b[1].id = c
  <2>1. Len(b) >= 1 /\ b[1].id = c BY DEF WholeWalk, WalkOK
  <2>2. QED BY <2>1 DEF Walks
<1>7. e \in Entry /\ e.id = c /\ e.content = b[1].content /\ e.parent = i /\ e.index = m
  BY <1>6, RehungIs
<1>8. Placed(tree, b, i) = [walk |-> w, children |-> m + 1]
  BY <1>6 DEF Placed, Rehung
<1> HIDE DEF e, c, W, C
<1>9. /\ w \in Walks /\ Len(w) = N + Len(b)
      /\ N \in Nat /\ Len(b) \in Nat /\ Len(b) >= 1
      /\ \A k \in 1 .. N : w[k] = t[k]
      /\ w[N + 1] = e
      /\ \A k \in 2 .. Len(b) : w[N + k] = b[k]
  <2>1. t \in Walks BY DEF Trees
  <2>2. QED BY <2>1, <1>6, <1>7, JoinedWalks
<1>10. /\ t \in Walks /\ N >= 1 /\ t[1].id = i /\ t[1].parent = None
       /\ \A k \in 1 .. N : t[k].id \in W /\ t[k].content = nodes[t[k].id].content
       /\ \A y \in W : \E k \in 1 .. N : t[k].id = y
       /\ \A j, k \in 1 .. N : t[j].id = t[k].id => j = k
       /\ \A k \in 2 .. N : /\ InPlace(t[k])
                            /\ t[k].parent = i => t[k].index < m
                            /\ \E j \in 1 .. k - 1 : t[j].id = t[k].parent
       /\ \A j, k \in 2 .. N : j < k /\ t[j].parent = t[k].parent => t[j].index < t[k].index
  BY DEF WalkOK, W
<1>11. /\ \A k \in 1 .. Len(b) : b[k].id \in C /\ b[k].content = nodes[b[k].id].content
       /\ \A y \in C : \E k \in 1 .. Len(b) : b[k].id = y
       /\ \A j, k \in 1 .. Len(b) : b[j].id = b[k].id => j = k
       /\ \A k \in 2 .. Len(b) : /\ InPlace(b[k])
                                 /\ \E j \in 1 .. k - 1 : b[j].id = b[k].parent
       /\ \A j, k \in 2 .. Len(b) :
            j < k /\ b[j].parent = b[k].parent => b[j].index < b[k].index
  <2>1. WalkOK(b, c, Len(ListOf(c))) BY DEF WholeWalk, c
  <2>2. QED BY <2>1, <1>3 DEF WalkOK
<1> HIDE DEF w, N, t
<1>12. \A k \in 1 .. Len(w) : k \in 1 .. N \/ \E r \in 1 .. Len(b) : k = N + r
  <2>1. ASSUME NEW k \in 1 .. Len(w), k \notin 1 .. N PROVE \E r \in 1 .. Len(b) : k = N + r
    <3>1. k - N \in 1 .. Len(b) /\ k = N + (k - N) BY <1>9, <2>1
    <3>2. QED BY <3>1
  <2>2. QED BY <2>1
<1>13. \A r \in 1 .. Len(b) : w[N + r].id = b[r].id /\ w[N + r].content = b[r].content
  <2>1. ASSUME NEW r \in 1 .. Len(b)
        PROVE  w[N + r].id = b[r].id /\ w[N + r].content = b[r].content
    <3>1. CASE r = 1 BY <3>1, <1>6, <1>7, <1>9
    <3>2. CASE r # 1
      <4>1. r \in 2 .. Len(b) BY <3>2
      <4>2. QED BY <4>1, <1>9
    <3>3. QED BY <3>1, <3>2
  <2>2. QED BY <2>1
<1>14. Len(w) >= 1 /\ w[1].id = i /\ w[1].parent = None
  <2>1. 1 \in 1 .. N BY <1>9, <1>10
  <2>2. QED BY <2>1, <1>9, <1>10
<1>15. ASSUME NEW k \in 1 .. Len(w)
       PROVE  w[k].id \in W \union C /\ w[k].content = nodes[w[k].id].content
  <2>1. CASE k \in 1 .. N BY <2>1, <1>9, <1>10
  <2>2. CASE \E r \in 1 .. Len(b) : k = N + r
    <3>1. PICK r \in 1 .. Len(b) : k = N + r BY <2>2
    <3>2. QED BY <3>1, <1>13, <1>11
  <2>3. QED BY <2>1, <2>2, <1>12
<1>16. ASSUME NEW y \in W \union C PROVE \E k \in 1 .. Len(w) : w[k].id = y
  <2>1. CASE y \in W
    <3>1. PICK k \in 1 .. N : t[k].id = y BY <2>1, <1>10
    <3>2. k \in 1 .. Len(w) /\ w[k].id = y BY <3>1, <1>9
    <3>3. QED BY <3>2
  <2>2. CASE y \in C
    <3>1. PICK r \in 1 .. Len(b) : b[r].id = y BY <2>2, <1>11
    <3>2. w[N + r].id = y BY <3>1, <1>13
    <3>3. N + r \in 1 .. Len(w) BY <1>9
    <3>4. QED BY <3>2, <3>3
  <2>3. QED BY <2>1, <2>2
<1>17. ASSUME NEW j \in 1 .. Len(w), NEW k \in 1 .. Len(w), w[j].id = w[k].id PROVE j = k
  <2>1. CASE j \in 1 .. N /\ k \in 1 .. N BY <2>1, <1>17, <1>9, <1>10
  <2>2. CASE j \in 1 .. N /\ k \notin 1 .. N
    <3>1. PICK r \in 1 .. Len(b) : k = N + r BY <2>2, <1>12
    <3>2. w[j].id \in W /\ w[k].id \in C BY <2>2, <3>1, <1>9, <1>10, <1>11, <1>13
    <3>3. QED BY <3>2, <1>17, <1>4
  <2>3. CASE j \notin 1 .. N /\ k \in 1 .. N
    <3>1. PICK r \in 1 .. Len(b) : j = N + r BY <2>3, <1>12
    <3>2. w[k].id \in W /\ w[j].id \in C BY <2>3, <3>1, <1>9, <1>10, <1>11, <1>13
    <3>3. QED BY <3>2, <1>17, <1>4
  <2>4. CASE j \notin 1 .. N /\ k \notin 1 .. N
    <3>1. PICK r \in 1 .. Len(b) : j = N + r BY <2>4, <1>12
    <3>2. PICK q \in 1 .. Len(b) : k = N + q BY <2>4, <1>12
    <3>3. b[r].id = b[q].id BY <3>1, <3>2, <1>13, <1>17
    <3>4. r = q BY <3>3, <1>11
    <3>5. QED BY <3>1, <3>2, <3>4
  <2>5. QED BY <2>1, <2>2, <2>3, <2>4
\* Entries of the child's walk but the first hang below the child.
<1>18. ASSUME NEW r \in 2 .. Len(b)
       PROVE  w[N + r] = b[r] /\ b[r].parent \in C /\ b[r].parent # i
  <2>1. w[N + r] = b[r] BY <1>9
  <2>2. PICK j \in 1 .. r - 1 : b[j].id = b[r].parent BY <1>11
  <2>3. j \in 1 .. Len(b) OBVIOUS
  <2>4. QED BY <2>1, <2>2, <2>3, <1>5, <1>11
\* Those of the walk so far hang below i and not below the child.
<1>19. ASSUME NEW k \in 2 .. N
       PROVE  w[k] = t[k] /\ t[k].parent \in W
  <2>1. w[k] = t[k] BY <1>9
  <2>2. PICK j \in 1 .. k - 1 : t[j].id = t[k].parent BY <1>10
  <2>3. j \in 1 .. N BY <1>9
  <2>4. QED BY <2>1, <2>2, <2>3, <1>10
<1>20. ASSUME NEW k \in 2 .. Len(w)
       PROVE  /\ InPlace(w[k])
              /\ w[k].parent = i => w[k].index < m + 1
              /\ \E j \in 1 .. k - 1 : w[j].id = w[k].parent
  <2>1. CASE k \in 1 .. N
    <3>1. k \in 2 .. N /\ w[k] = t[k] BY <2>1, <1>9
    <3>2. t[k] \in Entry
      <4>1. t \in Seq(Entry) BY <1>10 DEF Walks
      <4>2. QED BY <2>1, <4>1 DEF N
    <3>3. t[k].index \in Nat BY <3>2 DEF Entry
    <3>4. PICK j \in 1 .. k - 1 : t[j].id = t[k].parent BY <3>1, <1>10
    <3>5. j \in 1 .. N /\ w[j] = t[j] BY <2>1, <3>4, <1>9
    <3>6. QED BY <3>1, <3>3, <3>4, <3>5, <1>10
  <2>2. CASE k = N + 1
    <3>1. w[k] = e BY <2>2, <1>9
    <3>2. InPlace(e)
      <4>1. e.parent \in Ids /\ e.parent = Up[e.id] BY <1>2, <1>7
      <4>2. ListOf(i)[m + 1] = c BY DEF c
      <4>3. QED BY <4>1, <4>2, <1>1, <1>7 DEF InPlace
    <3>3. 1 \in 1 .. k - 1 /\ w[1].id = i BY <2>2, <1>9, <1>10, <1>14
    <3>4. QED BY <3>1, <3>2, <3>3, <1>7
  <2>3. CASE k \notin 1 .. N /\ k # N + 1
    <3>1. PICK r \in 1 .. Len(b) : k = N + r BY <2>3, <1>12
    <3>2. r \in 2 .. Len(b) BY <2>3, <3>1, <1>9
    <3>3. w[k] = b[r] /\ b[r].parent # i BY <3>1, <3>2, <1>18
    <3>4. PICK j \in 1 .. r - 1 : b[j].id = b[r].parent BY <3>2, <1>11
    <3>5. j \in 1 .. Len(b) /\ N + j \in 1 .. k - 1 BY <3>1, <1>9
    <3>6. w[N + j].id = w[k].parent BY <3>3, <3>4, <3>5, <1>13
    <3>7. QED BY <3>2, <3>3, <3>5, <3>6, <1>11
  <2>4. QED BY <2>1, <2>2, <2>3
<1>21. ASSUME NEW j \in 2 .. Len(w), NEW k \in 2 .. Len(w), j < k, w[j].parent = w[k].parent
       PROVE  w[j].index < w[k].index
  <2>0. j \in 1 .. Len(w) /\ k \in 1 .. Len(w) OBVIOUS
  <2>1. CASE k \in 1 .. N
    <3>1. j \in 2 .. N /\ k \in 2 .. N BY <2>1, <1>21, <1>9
    <3>2. QED BY <3>1, <1>19, <1>10, <1>21
  <2>2. CASE k = N + 1
    <3>1. j \in 2 .. N BY <2>2, <1>21, <1>9
    <3>2. w[k].parent = i /\ w[k].index = m BY <2>2, <1>7, <1>9
    <3>3. QED BY <3>1, <3>2, <1>19, <1>10, <1>21
  <2>3. CASE k \notin 1 .. N /\ k # N + 1
    <3>1. PICK r \in 1 .. Len(b) : k = N + r BY <2>0, <2>3, <1>12
    <3>2. r \in 2 .. Len(b) BY <2>3, <3>1, <1>9
    <3>3. w[k] = b[r] /\ b[r].parent \in C /\ b[r].parent # i BY <3>1, <3>2, <1>18
    <3>4. CASE j \in 1 .. N
      <4>1. j \in 2 .. N BY <3>4
      <4>2. w[j].parent \in W BY <4>1, <1>19
      <4>3. QED BY <4>2, <3>3, <1>4, <1>21
    <3>5. CASE j = N + 1
      <4>1. w[j].parent = i BY <3>5, <1>7, <1>9
      <4>2. QED BY <4>1, <3>3, <1>21
    <3>6. CASE j \notin 1 .. N /\ j # N + 1
      <4>1. PICK q \in 1 .. Len(b) : j = N + q BY <2>0, <3>6, <1>12
      <4>2. q \in 2 .. Len(b) BY <3>6, <4>1, <1>9
      <4>3. w[j] = b[q] /\ q < r BY <3>1, <4>1, <4>2, <1>9, <1>18, <1>21
      <4>4. QED BY <3>2, <3>3, <4>2, <4>3, <1>11, <1>21
    <3>7. QED BY <3>4, <3>5, <3>6
  <2>4. QED BY <2>1, <2>2, <2>3
<1>22. WalkOK(w, i, m + 1)
  BY <1>4, <1>9, <1>14, <1>15, <1>16, <1>17, <1>20, <1>21 DEF WalkOK
<1>23. QED BY <1>8, <1>22 DEF w, t, N

\* Before its children come, a node is alone in its walk.
Alone(i) == [walk |-> <<[id |-> i, parent |-> None, index |-> 0,
                         content |-> nodes[i].content]>>,
             children |-> 0]

LEMMA AloneOK ==
  ASSUME Linked(nodes), NEW i \in Ids, Exists(i)
  PROVE  Alone(i) \in Trees /\ WalkOK(Alone(i).walk, i, 0) /\ Alone(i).children = 0
<1> DEFINE e == [id |-> i, parent |-> None, index |-> 0, content |-> nodes[i].content]
           t == <<e>>
<1>1. nodes[i].content \in Contents
  <2>1. nodes[i] \in Node BY DEF Linked, Nodes, Optional, Exists
  <2>2. QED BY <2>1 DEF Node
<1>2. e \in Entry BY <1>1 DEF Entry, Optional
<1>3. e.id = i /\ e.parent = None /\ e.content = nodes[i].content OBVIOUS
<1>4. Alone(i) = [walk |-> t, children |-> 0] BY DEF Alone
<1> HIDE DEF e
<1>5. t \in Walks /\ Len(t) = 1 /\ t[1] = e BY <1>2 DEF Walks
<1> HIDE DEF t
<1>6. Alone(i) \in Trees /\ Alone(i).walk = t /\ Alone(i).children = 0
  BY <1>4, <1>5 DEF Trees
<1>7. Within(i, 0) = {i} BY DEF Within
<1>8. WalkOK(t, i, 0)
  <2>1. \A k \in 1 .. Len(t) : k = 1 BY <1>5
  <2>2. \A k : k \notin 2 .. Len(t) BY <1>5
  <2>3. 1 \in 1 .. Len(t) /\ Len(t) >= 1 BY <1>5
  <2>4. \A j, k \in 1 .. Len(t) : t[j].id = t[k].id => j = k BY <2>1
  <2>5. \A k \in 1 .. Len(t) : t[k].id \in {i} /\ t[k].content = nodes[t[k].id].content
    BY <2>1, <1>3, <1>5
  <2>6. \A y \in {i} : \E k \in 1 .. Len(t) : t[k].id = y BY <2>3, <1>3, <1>5
  <2>7. QED BY <1>3, <1>5, <1>7, <2>2, <2>3, <2>4, <2>5, <2>6 DEF WalkOK
<1>9. QED BY <1>6, <1>8

\* The children of i are placed one after the other.
PlacedBy(rows, below, i) ==
  /\ rows \in [0 .. Len(ListOf(i)) -> Trees]
  /\ rows[0] = Alone(i)
  /\ \A k \in 1 .. Len(ListOf(i)) : rows[k] = Placed(rows[k - 1], below[ListOf(i)[k]], i)

LEMMA SubtreeRows ==
  ASSUME Linked(nodes), NEW i \in Ids, Exists(i), NEW below \in [Ids -> Walks]
  PROVE  \E rows : PlacedBy(rows, below, i) /\ Subtree(i, below) = rows[Len(ListOf(i))].walk
<1> DEFINE list == ListOf(i)
           N == Len(list)
           F == [k \in 1 .. N |-> [tree \in Trees |-> Placed(tree, below[list[k]], i)]]
           Table(h) == h = [s \in SUBSET (1 .. N) |->
                              IF s = {} THEN Alone(i)
                              ELSE Placed(h[s \ {Max(s)}], below[list[Max(s)]], i)]
           h == CHOOSE h : Table(h)
           S == {n \in Nat : n <= N => h[1 .. n] \in Trees}
<1>0. list \in Seq(Ids) BY ParentIn DEF Linked, Exists, ListOf
<1>1. N \in Nat /\ Alone(i) \in Trees BY <1>0, AloneOK
<1>2. \A k \in 1 .. N : list[k] \in Ids /\ below[list[k]] \in Walks BY <1>0
<1>3. \E g : Table(g)
  <2>1. ASSUME NEW k \in 1 .. N, NEW tree \in Trees
        PROVE  Placed(tree, below[list[k]], i) \in Trees
    BY <1>2, PlacedType
  <2>2. F \in [1 .. N -> [Trees -> Trees]] BY <2>1
  <2>3. PICK g \in [SUBSET (1 .. N) -> Trees] : FoldTable(g, Alone(i), F, N)
    <3> HIDE DEF F, N
    <3>1. QED BY <1>1, <2>2, FoldTableExists
  <2>4. ASSUME NEW s \in SUBSET (1 .. N)
        PROVE  g[s] = IF s = {} THEN Alone(i)
                      ELSE Placed(g[s \ {Max(s)}], below[list[Max(s)]], i)
    <3>1. g[s] = IF s = {} THEN Alone(i) ELSE F[Max(s)][g[s \ {Max(s)}]]
      BY <2>3 DEF FoldTable
    <3>2. CASE s = {} BY <3>1, <3>2
    <3>3. CASE s # {}
      <4>1. Max(s) \in s BY <1>1, <3>3, MaxIs
      <4>2. Max(s) \in 1 .. N /\ g[s \ {Max(s)}] \in Trees BY <4>1
      <4>3. QED BY <3>1, <3>3, <4>2
    <3>4. QED BY <3>2, <3>3
  <2>5. g = [s \in SUBSET (1 .. N) |-> g[s]] OBVIOUS
  <2>6. Table(g) BY <2>4, <2>5
  <2>7. QED BY <2>6
<1>4. Table(h) BY <1>3
<1>5. Subtree(i, below) = h[1 .. N].walk
  <2>1. DOMAIN list = 1 .. N BY <1>0
  <2>2. Subtree(i, below)
          = FoldLeft(LAMBDA tree, c : Placed(tree, below[c], i), Alone(i), list).walk
    BY Zenon DEF Subtree, Alone, ListOf
  <2>3. FoldLeft(LAMBDA tree, c : Placed(tree, below[c], i), Alone(i), list) = h[1 .. N]
    BY <2>1, Zenon DEF FoldLeft, MapThenFoldSet
  <2>4. QED BY <2>2, <2>3, Zenon
<1> HIDE DEF h, N
<1>6. h[1 .. 0] = Alone(i)
  <2>1. 1 .. 0 = {} /\ {} \in SUBSET (1 .. N) OBVIOUS
  <2>2. QED BY <2>1, <1>4
<1>7. ASSUME NEW n \in 1 .. N PROVE h[1 .. n] = Placed(h[1 .. n - 1], below[list[n]], i)
  <2>1. (1 .. n) \in SUBSET (1 .. N) /\ n \in Nat \ {0} BY <1>1
  <2>2. 1 .. n # {} /\ Max(1 .. n) = n /\ (1 .. n) \ {n} = 1 .. n - 1
    BY <2>1, LastOfRange
  <2>3. QED BY <2>1, <2>2, <1>4
<1>8. Nat \subseteq S
  <2>1. 0 \in S BY <1>1, <1>6
  <2>2. ASSUME NEW m \in Nat, m \in S PROVE m + 1 \in S
    <3> SUFFICES ASSUME m + 1 <= N PROVE h[1 .. m + 1] \in Trees OBVIOUS
    <3>1. m + 1 \in 1 .. N /\ (m + 1) - 1 = m BY <1>1
    <3>2. h[1 .. m] \in Trees BY <2>2, <1>1
    <3>3. below[list[m + 1]] \in Walks BY <3>1, <1>2
    <3>4. h[1 .. m + 1] = Placed(h[1 .. m], below[list[m + 1]], i) BY <3>1, <1>7
    <3>5. QED BY <3>2, <3>3, <3>4, PlacedType
  <2> HIDE DEF S
  <2>3. QED BY <2>1, <2>2, Inductive
<1> DEFINE rows == [n \in 0 .. N |-> h[1 .. n]]
<1>9. ASSUME NEW n \in 0 .. N PROVE h[1 .. n] \in Trees
  BY <1>1, <1>8
<1>10. rows \in [0 .. N -> Trees] BY <1>9
<1>11. rows[0] = Alone(i) BY <1>1, <1>6
<1>12. ASSUME NEW k \in 1 .. N PROVE rows[k] = Placed(rows[k - 1], below[list[k]], i)
  <2>1. k \in 0 .. N /\ k - 1 \in 0 .. N BY <1>1
  <2>2. QED BY <2>1, <1>7
<1>13. rows[N] = h[1 .. N] BY <1>1
<1> HIDE DEF rows
<1>14. QED BY <1>5, <1>10, <1>11, <1>12, <1>13 DEF N, PlacedBy

\* What is made of a node is a walk, whatever is made of the others.
LEMMA SubtreeType ==
  ASSUME Linked(nodes), NEW i \in Ids, NEW below \in [Ids -> Walks]
  PROVE  Subtree(i, below) \in Walks
<1>1. CASE ~Exists(i) BY <1>1 DEF Subtree, Walks
<1>2. CASE Exists(i)
  <2>1. PICK rows : PlacedBy(rows, below, i) /\ Subtree(i, below) = rows[Len(ListOf(i))].walk
    BY <1>2, SubtreeRows
  <2>2. Len(ListOf(i)) \in Nat
    <3>1. ListOf(i) \in Seq(Ids) BY <1>2, ParentIn DEF Linked, Exists, ListOf
    <3>2. QED BY <3>1
  <2>3. rows[Len(ListOf(i))] \in Trees BY <2>1, <2>2 DEF PlacedBy
  <2>4. QED BY <2>1, <2>3 DEF Trees
<1>3. QED BY <1>1, <1>2

\* If the children's walks are whole, the node's is.
LEMMA SubtreeWhole ==
  ASSUME Linked(nodes), NEW i \in Ids, Exists(i), NEW below \in [Ids -> Walks],
         \A j \in 1 .. Len(ListOf(i)) : WholeWalk(below[ListOf(i)[j]], ListOf(i)[j])
  PROVE  WholeWalk(Subtree(i, below), i)
<1> DEFINE list == ListOf(i)
           N == Len(list)
<1>1. PICK rows : PlacedBy(rows, below, i) /\ Subtree(i, below) = rows[N].walk
  BY SubtreeRows
<1> DEFINE S == {m \in Nat : m <= N => rows[m].children = m /\ WalkOK(rows[m].walk, i, m)}
<1>2. list \in Seq(Ids) BY ParentIn DEF Linked, Exists, ListOf
<1>3. N \in Nat BY <1>2
<1>4. 0 \in S BY <1>1, AloneOK DEF PlacedBy
<1>5. ASSUME NEW m \in Nat, m \in S PROVE m + 1 \in S
  <2> SUFFICES ASSUME m + 1 <= N
               PROVE  rows[m + 1].children = m + 1 /\ WalkOK(rows[m + 1].walk, i, m + 1)
    OBVIOUS
  <2>1. m + 1 \in 1 .. N /\ (m + 1) - 1 = m /\ m \in 0 .. N /\ m < N BY <1>3
  <2>2. rows[m].children = m /\ WalkOK(rows[m].walk, i, m) BY <1>5, <2>1
  <2>3. rows[m] \in Trees BY <1>1, <2>1 DEF PlacedBy
  <2> DEFINE b == below[list[m + 1]]
  <2>4. b \in Walks /\ WholeWalk(b, list[m + 1]) BY <1>2, <2>1
  <2>5. rows[m + 1] = Placed(rows[m], b, i) BY <1>1, <2>1 DEF PlacedBy
  <2> HIDE DEF b
  <2>6. QED BY <2>1, <2>2, <2>3, <2>4, <2>5, PlacedOK
<1>6. Nat \subseteq S
  <2> HIDE DEF S
  <2>1. QED BY <1>4, <1>5, Inductive
<1>7. WalkOK(rows[N].walk, i, N) BY <1>3, <1>6
<1>8. QED BY <1>1, <1>7 DEF WholeWalk

-----------------------------------------------------------------------------
(* The tree emit hands over.                                                 *)

Every == [Ids -> Walks]
Nowhere == [i \in Ids |-> <<>>]
Deeper(rows) == [i \in Ids |-> Subtree(i, rows)]

\* Materialized is what the last row has of r, each row made of the one before.
LEMMA MaterializedRows ==
  ASSUME Linked(nodes), NEW r \in Ids
  PROVE  \E rows : /\ rows \in [0 .. Cardinality(Ids) -> Every]
                   /\ Cardinality(Ids) \in Nat
                   /\ \A d \in 1 .. Cardinality(Ids) : rows[d] = Deeper(rows[d - 1])
                   /\ Materialized(r) = rows[Cardinality(Ids)][r]
<1> DEFINE N == Cardinality(Ids)
           F == [w \in Every |-> Deeper(w)]
           Table(h) == h = [depth \in 0 .. N |->
                              IF depth = 0 THEN [i \in Ids |-> <<>>]
                              ELSE [i \in Ids |-> Subtree(i, h[depth - 1])]]
           rows == CHOOSE h : Table(h)
<1>1. N \in Nat BY NativeAssumption, FS_CardinalityType
<1>2. Nowhere \in Every BY DEF Nowhere, Every, Walks
<1>3. F \in [Every -> Every] BY SubtreeType DEF Deeper, Every
<1>4. PICK h \in [0 .. N -> Every] :
        h = [d \in 0 .. N |-> IF d = 0 THEN Nowhere ELSE F[h[d - 1]]]
  <2> HIDE DEF F, N
  <2>1. QED BY <1>1, <1>2, <1>3, IterationExists
<1>5. Table(h)
  <2>1. ASSUME NEW d \in 0 .. N
        PROVE  h[d] = IF d = 0 THEN [i \in Ids |-> <<>>]
                      ELSE [i \in Ids |-> Subtree(i, h[d - 1])]
    <3>1. CASE d = 0 BY <3>1, <1>4 DEF Nowhere
    <3>2. CASE d # 0
      <4>1. d - 1 \in 0 .. N BY <1>1, <3>2
      <4>2. h[d - 1] \in Every BY <4>1
      <4>3. h[d] = F[h[d - 1]] BY <1>4, <3>2
      <4>4. F[h[d - 1]] = Deeper(h[d - 1]) BY <4>2
      <4>5. QED BY <3>2, <4>3, <4>4 DEF Deeper
    <3>3. QED BY <3>1, <3>2
  <2>2. h = [d \in 0 .. N |-> h[d]] OBVIOUS
  <2>3. QED BY <2>1, <2>2
<1>6. Table(rows) BY <1>5
<1>7. Materialized(r) = rows[N][r] BY Zenon DEF Materialized
<1> HIDE DEF rows
<1>8. ASSUME NEW d \in 1 .. N PROVE rows[d] = Deeper(rows[d - 1])
  <2>1. d \in 0 .. N /\ d # 0 BY <1>1
  <2>2. rows[d] = [i \in Ids |-> Subtree(i, rows[d - 1])]
    <3> HIDE DEF N
    <3>1. QED BY <2>1, <1>6, Zenon
  <2>3. QED BY <2>2 DEF Deeper
<1> DEFINE S == {n \in Nat : n <= N => rows[n] \in Every}
<1>9. 0 \in S
  <2>1. rows[0] = Nowhere BY <1>1, <1>6 DEF Nowhere
  <2>2. QED BY <2>1, <1>2
<1>10. ASSUME NEW n \in Nat, n \in S PROVE n + 1 \in S
  <2> SUFFICES ASSUME n + 1 <= N PROVE rows[n + 1] \in Every OBVIOUS
  <2>1. n + 1 \in 1 .. N /\ (n + 1) - 1 = n /\ n <= N BY <1>1
  <2>2. rows[n + 1] = Deeper(rows[n]) /\ rows[n] \in Every BY <2>1, <1>8, <1>10
  <2>3. QED BY <2>2, SubtreeType DEF Deeper, Every
<1>11. Nat \subseteq S
  <2> HIDE DEF S
  <2>1. QED BY <1>9, <1>10, Inductive
<1>12. rows \in [0 .. N -> Every]
  <2>1. \A n \in 0 .. N : rows[n] \in Every BY <1>1, <1>11
  <2>2. rows = [d \in 0 .. N |-> rows[d]] BY <1>6
  <2> HIDE DEF N
  <2>3. QED BY <2>1, <2>2
<1>13. QED BY <1>1, <1>7, <1>8, <1>12

\* A row has whole walks of the nodes that have no more below them than the row's
\* number says.
LEMMA MaterializedWhole ==
  ASSUME Linked(nodes), NEW r \in Ids, Exists(r)
  PROVE  WholeWalk(Materialized(r), r)
<1> DEFINE N == Cardinality(Ids)
<1>1. PICK rows : /\ rows \in [0 .. N -> Every]
                  /\ N \in Nat
                  /\ \A d \in 1 .. N : rows[d] = Deeper(rows[d - 1])
                  /\ Materialized(r) = rows[N][r]
  BY MaterializedRows
<1> DEFINE Size(i) == Cardinality(Below(Up, i))
           S == {n \in Nat : n <= N => \A i \in Ids :
                   Exists(i) /\ Size(i) <= n => WholeWalk(rows[n][i], i)}
<1>2. ASSUME NEW i \in Ids
      PROVE  Size(i) \in Nat /\ Size(i) <= N /\ (Exists(i) => Size(i) # 0)
  <2>1. Below(Up, i) \in SUBSET Ids BY DEF Below
  <2>2. IsFiniteSet(Below(Up, i)) /\ Size(i) <= N BY <2>1, NativeAssumption, FS_Subset
  <2>3. Size(i) \in Nat BY <2>2, FS_CardinalityType
  <2>4. i \in Below(Up, i) BY UpType, AboveClosed DEF Below
  <2>5. Size(i) # 0 BY <2>2, <2>4, FS_EmptySet
  <2>6. QED BY <2>2, <2>3, <2>5
<1>3. 0 \in S
  <2>1. ASSUME NEW i \in Ids, Exists(i), Size(i) <= 0 PROVE FALSE
    <3>1. Size(i) \in Nat /\ Size(i) # 0 BY <1>2, <2>1
    <3> HIDE DEF Size
    <3>2. QED BY <3>1, <2>1
  <2>2. QED BY <2>1
<1>4. ASSUME NEW n \in Nat, n \in S PROVE n + 1 \in S
  <2> SUFFICES ASSUME n + 1 <= N, NEW i \in Ids, Exists(i), Size(i) <= n + 1
               PROVE  WholeWalk(rows[n + 1][i], i)
    OBVIOUS
  <2>1. n + 1 \in 1 .. N /\ (n + 1) - 1 = n /\ n \in 0 .. N /\ n <= N BY <1>1
  <2>2. rows[n + 1] = Deeper(rows[n]) /\ rows[n] \in Every BY <1>1, <2>1
  <2>3. rows[n + 1][i] = Subtree(i, rows[n]) BY <2>2 DEF Deeper
  <2>4. ASSUME NEW j \in 1 .. Len(ListOf(i)) PROVE WholeWalk(rows[n][ListOf(i)[j]], ListOf(i)[j])
    <3> DEFINE c == ListOf(i)[j]
    <3>1. c \in Ids /\ Exists(c) BY ChildOf
    <3>2. Size(c) \in Nat /\ Size(i) \in Nat /\ Size(c) < Size(i) BY BelowShrinks
    <3> HIDE DEF c
    <3>3. Size(c) <= n
      <4> HIDE DEF Size
      <4>1. QED BY <3>2
    <3>4. WholeWalk(rows[n][c], c) BY <1>4, <2>1, <3>1, <3>3
    <3>5. QED BY <3>4 DEF c
  <2>5. WholeWalk(Subtree(i, rows[n]), i) BY <2>2, <2>4, SubtreeWhole DEF Every
  <2>6. QED BY <2>3, <2>5
<1>5. Nat \subseteq S
  <2> HIDE DEF S
  <2>1. QED BY <1>3, <1>4, Inductive
<1>6. N \in S /\ Size(r) <= N BY <1>1, <1>2, <1>5
<1>7. WholeWalk(rows[N][r], r) BY <1>1, <1>6
<1>8. QED BY <1>1, <1>7

\* A way down that has n more nodes needs as many below where it begins.
LEMMA EmitReturns ==
  ASSUME Linked(nodes), NEW r \in Ids
  PROVE  Returns(r)
<1> DEFINE N == Cardinality(Ids)
           Least == {i \in Ids : Exists(i)}
           F == [X \in SUBSET Ids |->
                   {i \in X : \E c \in X : Holds(nodes[i].children, c)}]
           Table(h) == h = [n \in 0 .. N |->
                              IF n = 0 THEN {i \in Ids : Exists(i)}
                              ELSE {i \in h[n - 1] : \E c \in h[n - 1] : Holds(nodes[i].children, c)}]
           deep == CHOOSE h : Table(h)
<1>1. N \in Nat BY NativeAssumption, FS_CardinalityType
<1>2. PICK h \in [0 .. N -> SUBSET Ids] :
        h = [n \in 0 .. N |-> IF n = 0 THEN Least ELSE F[h[n - 1]]]
  <2> DEFINE A == SUBSET Ids
  <2>1. F \in [A -> A] OBVIOUS
  <2>2. Least \in A OBVIOUS
  <2> HIDE DEF F, N, Least, A
  <2>3. \E h \in [0 .. N -> A] :
          h = [d \in 0 .. N |-> IF d = 0 THEN Least ELSE F[h[d - 1]]]
    BY <1>1, <2>1, <2>2, IterationExists
  <2>4. QED BY <2>3 DEF A
<1>3. Table(h)
  <2>1. ASSUME NEW n \in 0 .. N
        PROVE  h[n] = IF n = 0 THEN {i \in Ids : Exists(i)}
                      ELSE {i \in h[n - 1] : \E c \in h[n - 1] : Holds(nodes[i].children, c)}
    <3>1. CASE n = 0 BY <3>1, <1>2
    <3>2. CASE n # 0
      <4>1. n - 1 \in 0 .. N BY <1>1, <3>2
      <4>2. h[n - 1] \in SUBSET Ids BY <4>1
      <4>3. h[n] = F[h[n - 1]] BY <1>2, <3>2
      <4>4. QED BY <3>2, <4>2, <4>3
    <3>3. QED BY <3>1, <3>2
  <2>2. h = [n \in 0 .. N |-> h[n]] OBVIOUS
  <2>3. QED BY <2>1, <2>2
<1>4. Table(deep) BY <1>3
<1>5. Returns(r) <=> r \notin deep[N] BY Zenon DEF Returns
<1> HIDE DEF deep
<1> DEFINE Size(i) == Cardinality(Below(Up, i))
           S == {n \in Nat : n <= N => \A i \in Ids : i \in deep[n] => Exists(i) /\ n < Size(i)}
<1>6. ASSUME NEW i \in Ids
      PROVE  Size(i) \in Nat /\ Size(i) <= N /\ Size(i) # 0
  <2>1. Below(Up, i) \in SUBSET Ids BY DEF Below
  <2>2. IsFiniteSet(Below(Up, i)) /\ Size(i) <= N BY <2>1, NativeAssumption, FS_Subset
  <2>3. Size(i) \in Nat BY <2>2, FS_CardinalityType
  <2>4. i \in Below(Up, i) BY UpType, AboveClosed DEF Below
  <2>5. Size(i) # 0 BY <2>2, <2>4, FS_EmptySet
  <2>6. QED BY <2>2, <2>3, <2>5
<1>7. 0 \in S
  <2>1. deep[0] = {i \in Ids : Exists(i)} BY <1>1, <1>4
  <2>2. ASSUME NEW i \in Ids, i \in deep[0] PROVE Exists(i) /\ 0 < Size(i)
    <3>1. Size(i) \in Nat /\ Size(i) # 0 BY <1>6
    <3> HIDE DEF Size
    <3>2. QED BY <2>1, <2>2, <3>1
  <2> HIDE DEF Size
  <2>3. QED BY <2>2
<1>8. ASSUME NEW n \in Nat, n \in S PROVE n + 1 \in S
  <2> SUFFICES ASSUME n + 1 <= N, NEW i \in Ids, i \in deep[n + 1]
               PROVE  Exists(i) /\ n + 1 < Size(i)
    OBVIOUS
  <2>1. n + 1 \in 0 .. N /\ n + 1 # 0 /\ (n + 1) - 1 = n /\ n <= N BY <1>1
  <2>2. deep[n + 1] = {x \in deep[n] : \E c \in deep[n] : Holds(nodes[x].children, c)}
    <3> HIDE DEF N
    <3>1. QED BY <2>1, <1>4, Zenon
  <2>3. PICK c \in deep[n] : Holds(nodes[i].children, c) BY <2>2
  <2>4. i \in deep[n] BY <2>2
  <2>5. Exists(i) BY <1>8, <2>1, <2>4
  <2>6. PICK j \in 1 .. Len(ListOf(i)) : ListOf(i)[j] = c
    <3>1. ListOf(i) \in Seq(Ids) BY <2>5, ParentIn DEF Linked, Exists, ListOf
    <3>2. QED BY <2>3, <3>1 DEF Holds, ListOf
  <2>7. c \in Ids BY <2>5, <2>6, ChildOf
  <2>8. n < Size(c) BY <1>8, <2>1, <2>3, <2>7
  <2>9. Size(c) \in Nat /\ Size(i) \in Nat /\ Size(c) < Size(i) BY <2>5, <2>6, BelowShrinks
  <2> HIDE DEF Size
  <2>10. QED BY <2>5, <2>8, <2>9
<1>9. Nat \subseteq S
  <2> HIDE DEF S
  <2>1. QED BY <1>7, <1>8, Inductive
<1>10. ASSUME r \in deep[N] PROVE FALSE
  <2>1. N \in S BY <1>1, <1>9
  <2>2. N < Size(r) BY <1>1, <1>10, <2>1
  <2>3. Size(r) \in Nat /\ Size(r) <= N BY <1>6
  <2> HIDE DEF Size, N
  <2>4. QED BY <1>1, <2>2, <2>3
<1>11. QED BY <1>5, <1>10

-----------------------------------------------------------------------------
(* What a whole walk is to the engine, and what it has of the nodes.         *)

RelyOn(t) ==
  \A k \in 1 .. Len(t) :
    LET n == t[k]
        before == {j \in 1 .. k - 1 : t[j].parent = n.parent}
    IN  /\ \A j \in 1 .. k - 1 : t[j].id # n.id
        /\ (k = 1) <=> (n.parent = None)
        /\ k > 1 => /\ \E j \in 1 .. k - 1 : t[j].id = n.parent
                    /\ n.index = Cardinality(before)

\* The entries before a child's that have its parent are as many as its place
\* says: each has one of the places before, and each of these is some entry's.
LEMMA PlacesCount ==
  ASSUME Linked(nodes), NEW r \in Ids, Exists(r), NEW t, WholeWalk(t, r),
         NEW k \in 2 .. Len(t)
  PROVE  t[k].index = Cardinality({j \in 1 .. k - 1 : t[j].parent = t[k].parent})
<1> DEFINE before == {j \in 1 .. k - 1 : t[j].parent = t[k].parent}
           q == t[k].parent
           x == t[k].index
           places == 0 .. x - 1
           f == [j \in before |-> t[j].index]
<1>1. /\ t \in Seq(Entry) /\ Len(t) \in Nat
      /\ t[1].id = r /\ t[1].parent = None
      /\ \A n \in 1 .. Len(t) : t[n].id \in Below(Up, r)
      /\ \A y \in Below(Up, r) : \E n \in 1 .. Len(t) : t[n].id = y
      /\ \A n \in 2 .. Len(t) : InPlace(t[n]) /\ \E j \in 1 .. n - 1 : t[j].id = t[n].parent
      /\ \A j, n \in 2 .. Len(t) : j < n /\ t[j].parent = t[n].parent => t[j].index < t[n].index
  <2>1. Within(r, Len(ListOf(r))) = Below(Up, r) BY WithinAll
  <2>2. /\ t \in Walks /\ t[1].id = r /\ t[1].parent = None
        /\ \A n \in 1 .. Len(t) : t[n].id \in Within(r, Len(ListOf(r)))
        /\ \A y \in Within(r, Len(ListOf(r))) : \E n \in 1 .. Len(t) : t[n].id = y
        /\ \A n \in 2 .. Len(t) : InPlace(t[n]) /\ \E j \in 1 .. n - 1 : t[j].id = t[n].parent
        /\ \A j, n \in 2 .. Len(t) : j < n /\ t[j].parent = t[n].parent => t[j].index < t[n].index
    BY DEF WholeWalk, WalkOK
  <2>3. t \in Seq(Entry) /\ Len(t) \in Nat BY <2>2 DEF Walks
  <2>4. /\ \A n \in 1 .. Len(t) : t[n].id \in Below(Up, r)
        /\ \A y \in Below(Up, r) : \E n \in 1 .. Len(t) : t[n].id = y
    BY <2>1, <2>2, Zenon
  <2>5. QED BY <2>2, <2>3, <2>4
<1>2. \A n \in 1 .. Len(t) : t[n] \in Entry /\ t[n].index \in Nat
  <2>1. \A n \in 1 .. Len(t) : t[n] \in Entry BY <1>1
  <2>2. \A e \in Entry : e.index \in Nat BY DEF Entry
  <2>3. QED BY <2>1, <2>2
<1>3. x \in Nat /\ k \in 1 .. Len(t)
  <2>1. k \in 1 .. Len(t) BY <1>1
  <2>2. QED BY <2>1, <1>2
<1>4. q \in Ids /\ InPlace(t[k]) /\ q # None BY <1>1, NoneApart DEF InPlace
<1>5. ASSUME NEW j \in before
      PROVE  j \in 2 .. Len(t) /\ j < k /\ t[j].parent = q /\ t[j].index \in places
  <2>1. j \in 1 .. Len(t) /\ j < k /\ t[j].parent = q BY <1>1
  <2>2. j # 1 BY <2>1, <1>1, <1>4
  <2>3. j \in 2 .. Len(t) BY <2>1, <2>2
  <2>4. t[j].index < x BY <2>1, <2>3, <1>1
  <2>5. QED BY <2>1, <2>3, <2>4, <1>2, <1>3
<1>6. Exists(q) /\ q \in Below(Up, r)
  <2>1. PICK j \in 1 .. k - 1 : t[j].id = q BY <1>1
  <2>2. j \in 1 .. Len(t) BY <1>1
  <2>3. q \in Below(Up, r) BY <2>1, <2>2, <1>1
  <2>4. Reach(Up, q, r) BY <2>3 DEF Below
  <2>5. CASE q = r BY <2>3, <2>5
  <2>6. CASE q # r
    <3>1. Up[q] \in Ids BY <2>4, <2>6, <1>4, UpType, ReachFromParent
    <3>2. QED BY <2>3, <3>1, <1>4, UpType, NoneApart
  <2>7. QED BY <2>5, <2>6
<1>7. ListOf(q) \in Seq(Ids) BY <1>4, <1>6, ParentIn DEF Linked, Exists, ListOf
<1>8. x < Len(ListOf(q)) BY <1>4 DEF InPlace
<1>9. ASSUME NEW a \in before, NEW b \in before, t[a].index = t[b].index PROVE a = b
  <2>1. /\ a \in 2 .. Len(t) /\ b \in 2 .. Len(t) /\ t[a].parent = q /\ t[b].parent = q
        /\ t[a].index \in Nat /\ t[b].index \in Nat
    BY <1>2, <1>5
  <2>2. CASE a < b
    <3>1. t[a].index < t[b].index BY <1>1, <2>1, <2>2
    <3>2. QED BY <1>9, <2>1, <3>1
  <2>3. CASE b < a
    <3>1. t[b].index < t[a].index BY <1>1, <2>1, <2>3
    <3>2. QED BY <1>9, <2>1, <3>1
  <2>4. QED BY <2>1, <2>2, <2>3
<1>10. ASSUME NEW p \in places PROVE \E j \in before : t[j].index = p
  <2>1. p \in Nat /\ p < x /\ p + 1 \in 1 .. Len(ListOf(q)) BY <1>3, <1>7, <1>8
  <2> DEFINE c == ListOf(q)[p + 1]
  <2>2. c \in Ids /\ Exists(c) /\ Up[c] = q /\ Reach(Up, c, q) /\ ~Reach(Up, q, c)
    BY <2>1, <1>4, <1>6, ChildOf
  <2>3. c \in Below(Up, r)
    <3> HIDE DEF c
    <3>1. Reach(Up, q, r) BY <1>6 DEF Below
    <3>2. QED BY <2>2, <3>1, <1>4, UpType, ReachOver DEF Below
  <2>4. PICK j \in 1 .. Len(t) : t[j].id = c
    <3> HIDE DEF c
    <3>1. QED BY <2>3, <1>1
  <2>5. j # 1
    <3>1. Reach(Up, q, r) BY <1>6 DEF Below
    <3>2. c # r BY <2>2, <3>1
    <3> HIDE DEF c
    <3>3. QED BY <2>4, <3>2, <1>1
  <2>6. j \in 2 .. Len(t) BY <2>5
  <2>7. InPlace(t[j]) BY <2>6, <1>1
  <2>8. t[j].parent = q
    <3> HIDE DEF c
    <3>1. QED BY <2>2, <2>4, <2>7 DEF InPlace
  <2>9. t[j].index = p
    <3> DEFINE i == t[j].index
    <3>1. i \in Nat /\ i < Len(ListOf(q)) /\ ListOf(q)[i + 1] = c
      BY <2>4, <2>6, <2>7, <2>8, <1>2 DEF InPlace
    <3> HIDE DEF i
    <3>2. i + 1 \in 1 .. Len(ListOf(q)) BY <3>1, <1>7
    <3>3. Once(ListOf(q)) BY <1>4, <1>6 DEF Linked, ListsItsOwn, ListOf, Exists
    <3>4. i + 1 = p + 1 BY <2>1, <3>1, <3>2, <3>3 DEF Once
    <3>5. i = p BY <2>1, <3>1, <3>4
    <3>6. QED BY <3>5 DEF i
  <2>10. j < k
    <3>1. j # k BY <2>1, <2>9, <1>3
    <3>2. CASE k < j
      <4>1. x < t[j].index BY <3>2, <2>6, <2>8, <1>1
      <4>2. QED BY <4>1, <2>1, <2>9, <1>3
    <3>3. QED BY <3>1, <3>2, <1>3
  <2>11. j \in before
    <3>1. j \in 1 .. k - 1 BY <2>10, <1>3
    <3>2. QED BY <3>1, <2>8
  <2>12. QED BY <2>9, <2>11
<1>11. Cardinality(before) = Cardinality(places)
  <2>1. f \in [before -> places] BY <1>5
  <2>2. \A a, b \in before : f[a] = f[b] => a = b BY <1>9
  <2>3. \A p \in places : \E j \in before : f[j] = p BY <1>10
  <2>4. IsFiniteSet(before)
    <3>1. before \in SUBSET (1 .. k - 1) OBVIOUS
    <3>2. IsFiniteSet(1 .. k - 1) BY <1>3, FS_Interval
    <3> HIDE DEF before
    <3>3. QED BY <3>1, <3>2, FS_Subset
  <2> HIDE DEF f, before, places
  <2>5. f \in Bijection(before, places)
    BY <2>1, <2>2, <2>3 DEF Bijection, Injection, IsInjective, Surjection
  <2>6. ExistsBijection(before, places) BY <2>5 DEF ExistsBijection
  <2>7. QED BY <2>4, <2>6, FS_Bijection
<1>12. Cardinality(places) = x
  <2>1. 0 \in Int /\ x - 1 \in Int BY <1>3
  <2>2. Cardinality(0 .. x - 1) = IF 0 > x - 1 THEN 0 ELSE (x - 1) - 0 + 1
    <3> DEFINE last == x - 1
    <3>1. last \in Int BY <2>1
    <3> HIDE DEF last
    <3>2. Cardinality(0 .. last) = IF 0 > last THEN 0 ELSE last - 0 + 1
      BY <3>1, FS_Interval
    <3>3. QED BY <3>2 DEF last
  <2>3. QED BY <2>2, <1>3
<1>13. QED BY <1>11, <1>12

LEMMA WholeRely ==
  ASSUME Linked(nodes), NEW r \in Ids, Exists(r), NEW t, WholeWalk(t, r)
  PROVE  RelyOn(t)
<1> SUFFICES ASSUME NEW k \in 1 .. Len(t)
             PROVE  LET n == t[k]
                        before == {j \in 1 .. k - 1 : t[j].parent = n.parent}
                    IN  /\ \A j \in 1 .. k - 1 : t[j].id # n.id
                        /\ (k = 1) <=> (n.parent = None)
                        /\ k > 1 => /\ \E j \in 1 .. k - 1 : t[j].id = n.parent
                                    /\ n.index = Cardinality(before)
  BY DEF RelyOn
<1>1. /\ t \in Seq(Entry) /\ Len(t) \in Nat
      /\ t[1].parent = None
      /\ \A j, n \in 1 .. Len(t) : t[j].id = t[n].id => j = n
      /\ \A n \in 2 .. Len(t) : InPlace(t[n]) /\ \E j \in 1 .. n - 1 : t[j].id = t[n].parent
  <2>1. WalkOK(t, r, Len(ListOf(r))) BY DEF WholeWalk
  <2>2. t \in Seq(Entry) BY <2>1 DEF WalkOK, Walks
  <2>3. Len(t) \in Nat BY <2>2
  <2>4. /\ t[1].parent = None
        /\ \A j, n \in 1 .. Len(t) : t[j].id = t[n].id => j = n
    BY <2>1 DEF WalkOK
  <2>5. \A n \in 2 .. Len(t) : InPlace(t[n]) /\ \E j \in 1 .. n - 1 : t[j].id = t[n].parent
    BY <2>1, Zenon DEF WalkOK
  <2>6. QED BY <2>2, <2>3, <2>4, <2>5
<1>2. \A j \in 1 .. k - 1 : t[j].id # t[k].id
  <2>1. \A j \in 1 .. k - 1 : j \in 1 .. Len(t) /\ j # k BY <1>1
  <2>2. QED BY <2>1, <1>1
<1>3. CASE k = 1
  <2>1. t[k].parent = None BY <1>1, <1>3
  <2>2. ~(k > 1) BY <1>3
  <2>3. (k = 1) <=> (t[k].parent = None) BY <1>3, <2>1
  <2>4. QED BY <1>2, <2>2, <2>3, Zenon
<1>4. CASE k # 1
  <2>1. k \in 2 .. Len(t) BY <1>1, <1>4
  <2>2. t[k].parent # None BY <2>1, <1>1, NoneApart DEF InPlace
  <2>3. t[k].index = Cardinality({j \in 1 .. k - 1 : t[j].parent = t[k].parent})
    BY <2>1, PlacesCount
  <2>4. QED BY <1>1, <1>2, <1>4, <2>1, <2>2, <2>3
<1>5. QED BY <1>3, <1>4

\* Above every node there is one without a parent.
LEMMA RootAbove ==
  ASSUME Linked(nodes), NEW i \in Ids, Exists(i)
  PROVE  \E r \in Roots : Reach(Up, i, r)
<1> SUFFICES ASSUME \A r \in Roots : ~Reach(Up, i, r) PROVE FALSE
  OBVIOUS
<1> DEFINE A(y) == Above(Up, y)
           Size(y) == Cardinality(A(y))
           T == {Size(y) : y \in A(i)}
<1>1. Up \in Parentage BY UpType
<1>2. ASSUME NEW y \in Ids
      PROVE  /\ y \in A(y) /\ A(y) \in SUBSET Ids /\ IsFiniteSet(A(y)) /\ Size(y) \in Nat
  <2>1. y \in A(y) /\ A(y) \in SUBSET Ids BY <1>1, AboveClosed
  <2> DEFINE S == A(y)
  <2> HIDE DEF S
  <2>2. S \in SUBSET Ids BY <2>1 DEF S
  <2>3. IsFiniteSet(S) BY <2>2, NativeAssumption, FS_Subset
  <2>4. Cardinality(S) \in Nat BY <2>3, FS_CardinalityType
  <2>5. QED BY <2>1, <2>3, <2>4 DEF S
<1>3. ASSUME NEW y \in A(i)
      PROVE  y \in Ids /\ Up[y] \in A(i) /\ Size(Up[y]) < Size(y)
  <2>1. y \in Ids /\ Reach(Up, i, y) BY DEF Above
  <2>2. Exists(y)
    <3>1. CASE y = i BY <3>1
    <3>2. CASE y # i
      \* A node above i is the parent of one that exists.
      <4> DEFINE S == {z \in Ids : Exists(z)}
      <4>1. ASSUME NEW z \in S, Up[z] # None PROVE Up[z] \in S
        <5>1. z \in Ids /\ nodes[z] # None /\ Up[z] = nodes[z].parent /\ Up[z] \in Ids
          BY <4>1, UpType DEF Exists
        <5>2. nodes[nodes[z].parent] # None
          BY <5>1, <4>1 DEF Linked, ListedByParent
        <5>3. QED BY <5>1, <5>2 DEF Exists
      <4>2. Closed(Up, S) BY <4>1 DEF Closed
      <4>3. S \in SUBSET Ids /\ i \in S OBVIOUS
      <4>4. y \in S
        <5> HIDE DEF S
        <5>1. QED BY <2>1, <4>2, <4>3 DEF Reach
      <4>5. QED BY <4>4
    <3>3. QED BY <3>1, <3>2
  <2>3. Up[y] # None
    <3>1. y \notin Roots BY <2>1
    <3>2. QED BY <2>1, <2>2, <3>1, UpType DEF Roots
  <2>4. Up[y] \in Ids /\ Reach(Up, i, Up[y]) BY <1>1, <2>1, <2>3, ReachParent
  <2>5. Up[y] \in A(i) BY <2>4 DEF Above
  <2> DEFINE p == Up[y]
             P == A(p)
             Y == A(y)
  <2>6. P \subseteq Y
    <3>1. Reach(Up, y, p)
      <4>1. Reach(Up, y, y) BY <1>1, <2>1, AboveClosed
      <4>2. QED BY <1>1, <2>1, <2>3, <4>1, ReachParent
    <3>2. ASSUME NEW z \in P PROVE z \in Y
      <4>1. z \in Ids /\ Reach(Up, p, z) /\ p \in Ids BY <2>4 DEF Above
      <4> HIDE DEF p
      <4>2. Reach(Up, y, z) BY <1>1, <2>1, <3>1, <4>1, ReachOver
      <4>3. QED BY <4>1, <4>2 DEF Above
    <3>3. QED BY <3>2
  <2>7. y \in Y /\ y \notin P
    <3>1. ~Reach(Up, p, y) BY <2>1, <2>3 DEF Linked, Acyclic, Up
    <3>2. QED BY <3>1, <1>2, <2>1 DEF Above
  <2>8. IsFiniteSet(Y) /\ Size(y) \in Nat /\ Size(p) \in Nat BY <1>2, <2>1, <2>4
  <2>9. Cardinality(P) < Cardinality(Y)
    <3> HIDE DEF P, Y
    <3>1. P \in SUBSET Y /\ P # Y BY <2>6, <2>7
    <3>2. Cardinality(P) <= Cardinality(Y) /\ (Cardinality(Y) = Cardinality(P) => Y = P)
      BY <2>8, <3>1, FS_Subset
    <3>3. Cardinality(P) \in Nat /\ Cardinality(Y) \in Nat BY <2>8 DEF P, Y
    <3>4. QED BY <3>1, <3>2, <3>3
  <2>10. QED BY <2>1, <2>5, <2>9
<1>4. T \in SUBSET Nat /\ T # {}
  <2>1. i \in A(i) BY <1>2
  <2>2. \A y \in A(i) : Size(y) \in Nat BY <1>2, <1>3
  <2> HIDE DEF A, Size
  <2>3. QED BY <2>1, <2>2
<1>5. PICK n \in T : \A m \in T : n <= m
  <2> HIDE DEF T
  <2>1. QED BY <1>4, Smallest
<1>6. PICK y \in A(i) : n = Size(y) OBVIOUS
<1>7. Size(Up[y]) \in T /\ Size(Up[y]) < Size(y) BY <1>3, <1>6
<1>8. n \in Nat /\ Size(Up[y]) \in Nat BY <1>4, <1>7
<1>9. QED
  <2> HIDE DEF T, Size
  <2>1. QED BY <1>5, <1>6, <1>7, <1>8

-----------------------------------------------------------------------------
(* The inductive invariant.                                                  *)

\* The links are those of trees; what was handed over is what the engine relies
\* on; and if nothing was called since, it is a node without a parent and all
\* that is below it.
TreeInv ==
  /\ Linked(nodes)
  /\ RelyOn(emitted)
  /\ current => \E r \in Roots : WholeWalk(emitted, r)

\* As long as no call has linked nodes otherwise.
NativeInv == ~strayed => TreeInv

LEMMA TreeInit == NativeInit => TreeInv
<1> SUFFICES ASSUME NativeInit PROVE TreeInv
  OBVIOUS
<1>1. nodes = [i \in Ids |-> None] /\ emitted = <<>> /\ current = FALSE BY DEF NativeInit
<1>2. nodes \in Nodes BY <1>1 DEF Nodes, Optional
<1>3. ListsItsOwn(nodes) BY <1>1 DEF ListsItsOwn
<1>4. ListedByParent(nodes) BY <1>1 DEF ListedByParent
<1>5. Acyclic(Parents(nodes)) BY <1>1 DEF Acyclic, Parents
<1>6. RelyOn(emitted)
  <2>1. Len(emitted) = 0 BY <1>1
  <2>2. \A k : k \notin 1 .. Len(emitted) BY <2>1
  <2>3. QED BY <2>2 DEF RelyOn
<1>7. QED BY <1>1, <1>2, <1>3, <1>4, <1>5, <1>6 DEF TreeInv, Linked

\* A call keeps the links' shape, and leaves what was handed over.
LEMMA CallKeeps ==
  ASSUME TreeInv, NEW changed, NEW meant, Call(changed, meant), Linked(changed)
  PROVE  TreeInv'
<1>1. nodes' = changed /\ current' = FALSE /\ emitted' = emitted BY DEF Call
<1>2. Linked(nodes)' BY <1>1 DEF Linked, ListsItsOwn, ListedByParent, Parents, Nodes
<1>3. RelyOn(emitted)' BY <1>1 DEF TreeInv
<1>4. QED BY <1>1, <1>2, <1>3 DEF TreeInv

LEMMA CreateNodeInv ==
  ASSUME TreeInv, NEW i \in Ids, NEW c \in Components, CreateNode(i, c)
  PROVE  TreeInv'
<1> DEFINE n == IF Exists(i) THEN [nodes[i] EXCEPT !.content = Content(c)]
                ELSE [content |-> Content(c), parent |-> None, children |-> <<>>]
           changed == [nodes EXCEPT ![i] = n]
<1>1. nodes \in Nodes /\ Linked(nodes) BY DEF TreeInv, Linked
<1>2. Content(c) \in Contents BY DEF Content, Contents, Optional
<1>3. Linked(changed)
  <2>1. CASE Exists(i)
    <3>1. nodes[i] \in Node BY <2>1, <1>1 DEF Exists, Nodes, Optional
    <3>2. n \in Node /\ n.parent = nodes[i].parent /\ n.children = nodes[i].children
      BY <2>1, <3>1, <1>2 DEF Node
    <3> HIDE DEF n
    <3>3. QED BY <2>1, <3>2, <1>1, LinkedContent DEF Exists
  <2>2. CASE ~Exists(i)
    <3>1. n \in Node /\ n.parent = None /\ n.children = <<>>
      BY <2>2, <1>2 DEF Node, Optional
    <3> HIDE DEF n
    <3>2. QED BY <2>2, <3>1, <1>1, LinkedFresh DEF Exists
  <2>3. QED BY <2>1, <2>2
<1>4. Call(changed, TRUE) BY DEF CreateNode
<1> HIDE DEF changed
<1>5. QED BY <1>3, <1>4, CallKeeps

LEMMA StaysStrayed ==
  ASSUME [NativeNext]_nativeVars, strayed
  PROVE  strayed'
<1>1. ASSUME NEW changed, NEW meant, Call(changed, meant) PROVE strayed' BY <1>1 DEF Call
<1>2. CASE NativeNext
  BY <1>1, <1>2 DEF NativeNext, CreateNode, InsertChild, RemoveChild, SetText, SetProperty,
                    BindText, BindProperty, Emit
<1>3. CASE UNCHANGED nativeVars BY <1>3 DEF nativeVars
<1>4. QED BY <1>2, <1>3

\* The halves of a call that links two nodes there are.
LEMMA BothHalves ==
  ASSUME NEW ns \in Nodes, NEW p \in Ids, NEW c \in Ids, ns[p] # None, ns[c] # None,
         NEW list \in Seq(Ids), NEW q \in Optional(Ids)
  PROVE  Naming(Listing(ns, p, list), c, q) = Relink(ns, p, c, list, q)
<1> DEFINE half == [ns EXCEPT ![p].children = list]
<1>1. ns[p] \in Node /\ ns[c] \in Node BY DEF Nodes, Optional
<1>2. half[c] # None
  <2>1. [ns[p] EXCEPT !.children = list] \in Node BY <1>1 DEF Node
  <2>2. [ns[p] EXCEPT !.children = list] # None BY <2>1, NodeNotNone
  <2>3. half[c] = IF c = p THEN [ns[p] EXCEPT !.children = list] ELSE ns[c] BY DEF Nodes
  <2>4. QED BY <2>2, <2>3
<1>3. Listing(ns, p, list) = half BY DEF Listing
<1>4. Naming(half, c, q) = [half EXCEPT ![c].parent = q] BY <1>2 DEF Naming
<1>5. [half EXCEPT ![c].parent = q] = Relink(ns, p, c, list, q) BY DEF Relink
<1>6. QED BY <1>3, <1>4, <1>5

LEMMA InsertChildInv ==
  ASSUME TreeInv, ~strayed', NEW p \in Ids, NEW c \in Ids, NEW k \in Nat, InsertChild(p, c, k)
  PROVE  TreeInv'
<1> DEFINE list == Inserted(nodes[p].children, c, k)
           changed == Naming(Listing(nodes, p, list), c, p)
           meant == Detached(p, c) \/ Attached(p, c)
<1>1. nodes \in Nodes /\ Linked(nodes) BY DEF TreeInv, Linked
<1>2. Call(changed, meant) BY DEF InsertChild
<1>3. meant \/ changed = nodes
  <2> HIDE DEF changed, meant
  <2>1. QED BY <1>2 DEF Call
<1>4. CASE meant
  <2>1. nodes[p] # None /\ nodes[c] # None BY <1>4 DEF Attached, Detached, Exists
  <2>2. (nodes[c].parent = None /\ ~Reach(Parents(nodes), p, c)) \/ nodes[c].parent = p
    BY <1>1, <1>4, UnderIs DEF Attached, Detached
  <2>3. list \in Seq(Ids) BY <1>1, <2>1, ParentIn, InsertedOne
  <2> HIDE DEF list
  <2>4. changed = Relink(nodes, p, c, list, p)
    BY <1>1, <2>1, <2>3, BothHalves DEF Optional
  <2> HIDE DEF changed
  <2>5. Linked(changed) BY <1>1, <2>1, <2>2, <2>4, LinkedInserted DEF list
  <2> HIDE DEF meant
  <2>6. QED BY <1>2, <2>5, CallKeeps
<1>5. CASE changed = nodes
  <2> HIDE DEF changed, meant
  <2>1. Linked(changed) BY <1>1, <1>5
  <2>2. QED BY <1>2, <2>1, CallKeeps
<1>6. QED BY <1>3, <1>4, <1>5

LEMMA RemoveChildInv ==
  ASSUME TreeInv, ~strayed', NEW p \in Ids, NEW c \in Ids, RemoveChild(p, c)
  PROVE  TreeInv'
<1> DEFINE list == Without(nodes[p].children, c)
           changed == Naming(Listing(nodes, p, list), c, None)
           meant == Attached(p, c)
<1>1. nodes \in Nodes /\ Linked(nodes) BY DEF TreeInv, Linked
<1>2. Call(changed, meant) BY DEF RemoveChild
<1>3. meant \/ changed = nodes
  <2> HIDE DEF changed, meant
  <2>1. QED BY <1>2 DEF Call
<1>4. CASE meant
  <2>1. nodes[p] # None /\ nodes[c] # None /\ nodes[c].parent = p
    BY <1>4 DEF Attached, Exists
  <2>2. list \in Seq(Ids) BY <1>1, <2>1, ParentIn, WithoutOne
  <2> HIDE DEF list
  <2>3. changed = Relink(nodes, p, c, list, None)
    BY <1>1, <2>1, <2>2, BothHalves DEF Optional
  <2> HIDE DEF changed
  <2>4. Linked(changed) BY <1>1, <2>1, <2>3, LinkedRemoved DEF list
  <2> HIDE DEF meant
  <2>5. QED BY <1>2, <2>4, CallKeeps
<1>5. CASE changed = nodes
  <2> HIDE DEF changed, meant
  <2>1. Linked(changed) BY <1>1, <1>5
  <2>2. QED BY <1>2, <2>1, CallKeeps
<1>6. QED BY <1>3, <1>4, <1>5

\* A call that changes what one node shows.
LEMMA ContentInv ==
  ASSUME TreeInv, NEW i \in Ids, Exists(i), NEW new \in Contents,
         Call([nodes EXCEPT ![i] = [@ EXCEPT !.content = new]], TRUE)
  PROVE  TreeInv'
<1> DEFINE n == [nodes[i] EXCEPT !.content = new]
           changed == [nodes EXCEPT ![i] = n]
<1>1. nodes \in Nodes /\ Linked(nodes) BY DEF TreeInv, Linked
<1>2. nodes[i] \in Node BY <1>1 DEF Exists, Nodes, Optional
<1>3. n \in Node /\ n.parent = nodes[i].parent /\ n.children = nodes[i].children
  BY <1>2 DEF Node
<1>4. Call(changed, TRUE) OBVIOUS
<1> HIDE DEF n
<1>5. Linked(changed) BY <1>1, <1>3, LinkedContent DEF Exists
<1> HIDE DEF changed
<1>6. QED BY <1>4, <1>5, CallKeeps

LEMMA SettersInv ==
  ASSUME TreeInv, NEW i \in Ids,
         \/ \E t \in TextValues : SetText(i, t)
         \/ \E v \in PropValues : SetProperty(i, v)
         \/ \E s \in Signals : BindText(i, s) \/ BindProperty(i, s)
  PROVE  TreeInv'
<1> DEFINE old == nodes[i].content
<1>1. Exists(i) BY DEF SetText, SetProperty, BindText, BindProperty
<1>2. old \in Contents
  <2>1. nodes[i] \in Node BY <1>1 DEF TreeInv, Linked, Exists, Nodes, Optional
  <2>2. QED BY <2>1 DEF Node
<1>3. CASE \E t \in TextValues : SetText(i, t)
  <2>1. PICK t \in TextValues : SetText(i, t) BY <1>3
  <2> DEFINE new == [old EXCEPT !.text = t]
  <2>2. Call([nodes EXCEPT ![i] = [@ EXCEPT !.content = new]], TRUE) BY <2>1 DEF SetText
  <2>3. new \in Contents
    <3> HIDE DEF old
    <3>1. QED BY <1>2 DEF Contents, Optional
  <2> HIDE DEF new
  <2>4. QED BY <1>1, <2>2, <2>3, ContentInv
<1>4. CASE \E v \in PropValues : SetProperty(i, v)
  <2>1. PICK v \in PropValues : SetProperty(i, v) BY <1>4
  <2> DEFINE new == [old EXCEPT !.prop = v]
  <2>2. Call([nodes EXCEPT ![i] = [@ EXCEPT !.content = new]], TRUE) BY <2>1 DEF SetProperty
  <2>3. new \in Contents
    <3> HIDE DEF old
    <3>1. QED BY <1>2 DEF Contents, Optional
  <2> HIDE DEF new
  <2>4. QED BY <1>1, <2>2, <2>3, ContentInv
<1>5. CASE \E s \in Signals : BindText(i, s)
  <2>1. PICK s \in Signals : BindText(i, s) BY <1>5
  <2> DEFINE new == [old EXCEPT !.textBinding = s]
  <2>2. Call([nodes EXCEPT ![i] = [@ EXCEPT !.content = new]], TRUE) BY <2>1 DEF BindText
  <2>3. new \in Contents
    <3> HIDE DEF old
    <3>1. QED BY <1>2 DEF Contents, Optional
  <2> HIDE DEF new
  <2>4. QED BY <1>1, <2>2, <2>3, ContentInv
<1>6. CASE \E s \in Signals : BindProperty(i, s)
  <2>1. PICK s \in Signals : BindProperty(i, s) BY <1>6
  <2> DEFINE new == [old EXCEPT !.propBinding = s]
  <2>2. Call([nodes EXCEPT ![i] = [@ EXCEPT !.content = new]], TRUE) BY <2>1 DEF BindProperty
  <2>3. new \in Contents
    <3> HIDE DEF old
    <3>1. QED BY <1>2 DEF Contents, Optional
  <2> HIDE DEF new
  <2>4. QED BY <1>1, <2>2, <2>3, ContentInv
<1>7. QED BY <1>3, <1>4, <1>5, <1>6

LEMMA EmitInv ==
  ASSUME TreeInv, Emit
  PROVE  TreeInv'
<1>1. PICK r \in Roots : emitted' = Materialized(r) BY DEF Emit
<1>2. nodes' = nodes BY DEF Emit
<1>3. r \in Ids /\ Exists(r) BY DEF Roots
<1>4. Linked(nodes) BY DEF TreeInv
<1> DEFINE t == Materialized(r)
<1>5. WholeWalk(t, r) BY <1>3, <1>4, MaterializedWhole
<1> HIDE DEF t
<1>6. RelyOn(t) BY <1>3, <1>4, <1>5, WholeRely
<1>7. emitted' = t BY <1>1 DEF t
<1>8. RelyOn(emitted)' BY <1>6, <1>7
<1>9. Linked(nodes)' BY <1>2, <1>4 DEF Linked, ListsItsOwn, ListedByParent, Parents, Nodes
<1>10. (r \in Roots)' BY <1>2 DEF Roots, Exists
<1>11. WholeWalk(emitted, r)'
  BY <1>2, <1>5, <1>7 DEF WholeWalk, WalkOK, Within, InPlace, Up, ListOf, Parents
<1>12. QED BY <1>8, <1>9, <1>10, <1>11 DEF TreeInv

LEMMA StutterInv ==
  ASSUME TreeInv, UNCHANGED nativeVars
  PROVE  TreeInv'
<1>1. nodes' = nodes /\ emitted' = emitted /\ current' = current BY DEF nativeVars
<1>2. Linked(nodes)' BY <1>1 DEF TreeInv, Linked, ListsItsOwn, ListedByParent, Parents, Nodes
<1>3. RelyOn(emitted)' BY <1>1 DEF TreeInv
<1>4. ASSUME NEW r \in Roots, WholeWalk(emitted, r)
      PROVE  (r \in Roots /\ WholeWalk(emitted, r))'
  BY <1>1, <1>4 DEF Roots, Exists, WholeWalk, WalkOK, Within, InPlace, Up, ListOf, Parents
<1>5. current' => (\E r \in Roots : WholeWalk(emitted, r))' BY <1>1, <1>4 DEF TreeInv
<1>6. QED BY <1>2, <1>3, <1>5 DEF TreeInv

\* The inductive invariant holds of every call of the application and every emit.
THEOREM NativeInductive == NativeSpec => []NativeInv
<1>1. ASSUME NativeInv, [NativeNext]_nativeVars PROVE NativeInv'
  <2> SUFFICES ASSUME ~strayed' PROVE TreeInv' BY DEF NativeInv
  <2>1. TreeInv BY <1>1, StaysStrayed DEF NativeInv
  <2>2. CASE \E i \in Ids, c \in Components : CreateNode(i, c)
    BY <2>1, <2>2, CreateNodeInv
  <2>3. CASE \E p, c \in Ids, k \in 0 .. 1 : InsertChild(p, c, k)
    <3>1. PICK p \in Ids, c \in Ids, k \in 0 .. 1 : InsertChild(p, c, k) BY <2>3
    <3>2. k \in Nat OBVIOUS
    <3>3. QED BY <2>1, <3>1, <3>2, InsertChildInv
  <2>4. CASE \E p, c \in Ids : RemoveChild(p, c)
    BY <2>1, <2>4, RemoveChildInv
  <2>5. CASE \E i \in Ids : \/ \E t \in TextValues : SetText(i, t)
                            \/ \E v \in PropValues : SetProperty(i, v)
                            \/ \E s \in Signals : BindText(i, s) \/ BindProperty(i, s)
    BY <2>1, <2>5, SettersInv
  <2>6. CASE Emit
    BY <2>1, <2>6, EmitInv
  <2>7. CASE UNCHANGED nativeVars
    BY <2>1, <2>7, StutterInv
  <2>8. QED BY <1>1, <2>2, <2>3, <2>4, <2>5, <2>6, <2>7, Zenon DEF NativeNext
<1>2. NativeInit => NativeInv BY TreeInit DEF NativeInv
<1>3. QED BY <1>1, <1>2, PTL DEF NativeSpec

\* As long as no call has linked or unlinked nodes but as a tree's are, what emit
\* hands to the engine names no node twice, parents before their children, numbered
\* in order; and emit comes to an end.
THEOREM RelyCorrect == NativeSpec => []EngineRely
<1>1. ASSUME NativeInv PROVE EngineRely
  <2> SUFFICES ASSUME ~strayed PROVE (\A r \in Roots : Returns(r)) /\ RelyOn(emitted)
    BY Zenon DEF EngineRely, RelyOn
  <2>1. TreeInv BY <1>1 DEF NativeInv
  <2>2. \A r \in Roots : Returns(r) BY <2>1, EmitReturns DEF TreeInv, Roots
  <2>3. QED BY <2>1, <2>2 DEF TreeInv
<1>2. QED BY <1>1, NativeInductive, PTL

LEMMA WholeTreeFromInv ==
  ASSUME NativeInv
  PROVE  WholeTreeEmitted
<1> SUFFICES ASSUME ~strayed, current, Cardinality(Roots) = 1, NEW i \in Ids, Exists(i)
             PROVE  \E k \in 1 .. Len(emitted) :
                      /\ emitted[k].id = i
                      /\ emitted[k].parent = nodes[i].parent
                      /\ emitted[k].content = nodes[i].content
  BY DEF WholeTreeEmitted
<1>1. Linked(nodes) BY DEF NativeInv, TreeInv
<1>2. PICK r \in Roots : WholeWalk(emitted, r) BY DEF NativeInv, TreeInv
<1>3. r \in Ids /\ Exists(r) /\ nodes[r].parent = None BY DEF Roots
<1>4. PICK s \in Roots : Reach(Up, i, s) BY <1>1, RootAbove
<1>5. s = r
  <2>1. Roots \in SUBSET Ids BY DEF Roots
  <2>2. IsFiniteSet(Roots) BY <2>1, NativeAssumption, FS_Subset
  <2>3. PICK x : Roots = {x} BY <2>2, FS_Singleton
  <2>4. QED BY <2>3
<1>6. i \in Within(r, Len(ListOf(r)))
  <2>1. i \in Below(Up, r) BY <1>4, <1>5 DEF Below
  <2>2. QED BY <2>1, <1>1, <1>3, WithinAll
<1>7. WalkOK(emitted, r, Len(ListOf(r))) BY <1>2 DEF WholeWalk
<1>8. PICK k \in 1 .. Len(emitted) : emitted[k].id = i BY <1>6, <1>7, Zenon DEF WalkOK
<1>9. emitted[k].content = nodes[i].content
  <2>1. \A n \in 1 .. Len(emitted) : emitted[n].content = nodes[emitted[n].id].content
    BY <1>7 DEF WalkOK
  <2>2. QED BY <2>1, <1>8
<1>10. emitted[k].parent = nodes[i].parent
  <2>1. CASE k = 1
    <3>1. emitted[1].id = r /\ emitted[1].parent = None BY <1>7 DEF WalkOK
    <3>2. QED BY <3>1, <2>1, <1>3, <1>8
  <2>2. CASE k # 1
    <3>1. Len(emitted) \in Nat
      <4>1. emitted \in Seq(Entry) BY <1>7 DEF WalkOK, Walks
      <4>2. QED BY <4>1
    <3>2. k \in 2 .. Len(emitted) BY <2>2, <3>1
    <3>3. InPlace(emitted[k]) BY <3>2, <1>7, Zenon DEF WalkOK
    <3>4. emitted[k].parent = Up[i] BY <3>3, <1>8 DEF InPlace
    <3>5. QED BY <3>4, <1>1, UpType
  <2>3. QED BY <2>1, <2>2
<1>11. QED BY <1>8, <1>9, <1>10

\* As long as no call has strayed and one node is without a parent, emit hands over
\* every node the calls made, with its parent and what the calls gave it.
THEOREM WholeTreeCorrect == NativeSpec => []WholeTreeEmitted
<1>1. NativeInv => WholeTreeEmitted BY WholeTreeFromInv
<1>2. QED BY <1>1, NativeInductive, PTL

-----------------------------------------------------------------------------
(* The tap recognizer.                                                       *)

PointerEvent == [kind : {"down", "up", "move"}, target : Targets, x : Positions,
                 time : Nat, leaving : BOOLEAN]

TapTypeOK ==
  /\ down \in DownState \union {NoTarget}
  /\ now \in Nat
  /\ tapped \in Targets \union {NoTarget}
  /\ since \in Seq(PointerEvent)

-----------------------------------------------------------------------------
(* The inductive invariant: the recognizer remembers a press exactly while     *)
(* nothing but moves on its target, close to it, have followed, and what it    *)
(* remembers is where and when it was pressed.                                 *)

Pressed(es) == es # <<>> /\ es[1].kind = "down"

\* Nothing has ended the gesture that began with the press.
Kept(es) ==
  \A k \in 2 .. Len(es) : /\ es[k].kind = "move" /\ ~es[k].leaving
                          /\ es[k].target = es[1].target /\ ~Far(es[1].x, es[k].x)

RemembersPress ==
  Pressed(since) =>
    /\ (down # NoTarget) <=> Kept(since)
    /\ down # NoTarget =>
         down = [target |-> since[1].target, x |-> since[1].x, time |-> since[1].time]

TapIInv == TapTypeOK /\ RemembersPress /\ TapsExact

-----------------------------------------------------------------------------
\* The events since the last press are a list of events again after one more.
LEMMA SeenType ==
  ASSUME TapTypeOK, NEW e \in PointerEvent, Seen(e)
  PROVE  since' \in Seq(PointerEvent)
<1>1. MaxEvents \in Nat
  BY TapAssumption
<1>2. CASE e.kind = "down"
  BY <1>2 DEF Seen, TapTypeOK
<1>3. CASE e.kind # "down" /\ Len(since) < MaxEvents
  BY <1>3 DEF Seen, TapTypeOK
<1>4. CASE e.kind # "down" /\ ~(Len(since) < MaxEvents)
  BY <1>4 DEF Seen, TapTypeOK
<1>5. QED BY <1>2, <1>3, <1>4

\* An event that is no press leaves a press at the front, if there was one, and
\* comes last; or the list has become too long and is dropped.
LEMMA SeenLater ==
  ASSUME TapTypeOK, NEW e \in PointerEvent, e.kind # "down", Seen(e), Pressed(since')
  PROVE  /\ Pressed(since)
         /\ since' = Append(since, e)
         /\ Len(since') = Len(since) + 1 /\ Len(since) >= 1
         /\ since'[Len(since) + 1] = e
         /\ \A k \in 1 .. Len(since) : since'[k] = since[k]
<1>1. since' = Append(since, e)
  BY DEF Seen, Pressed
<1>2. since \in Seq(PointerEvent)
  BY DEF TapTypeOK
<1>3. /\ Len(since') = Len(since) + 1
      /\ since'[Len(since) + 1] = e
      /\ \A k \in 1 .. Len(since) : since'[k] = since[k]
  BY <1>1, <1>2
<1>4. since # <<>>
  <2>1. SUFFICES ASSUME since = <<>> PROVE FALSE
    OBVIOUS
  <2>2. since'[1] = e
    BY <1>3, <2>1
  <2>3. QED BY <2>2 DEF Pressed
<1>5. Len(since) >= 1
  BY <1>2, <1>4
<1>6. Pressed(since)
  BY <1>2, <1>3, <1>4, <1>5 DEF Pressed
<1>7. QED BY <1>1, <1>3, <1>5, <1>6

\* A press is remembered, and is no tap.
LEMMA DownTapIInv ==
  ASSUME TapIInv, NEW t \in Targets, NEW x \in Positions, PointerDown(t, x)
  PROVE  TapIInv'
<1> DEFINE e == [kind |-> "down", target |-> t, x |-> x, time |-> now, leaving |-> FALSE]
<1>1. e \in PointerEvent
  BY DEF PointerEvent, TapIInv, TapTypeOK
<1>2. Seen(e) /\ since' = <<e>>
  BY DEF PointerDown, Seen
<1>3. down' \in DownState /\ down' # NoTarget
  BY DownAssumption DEF PointerDown, DownState, TapIInv, TapTypeOK
<1>4. TapTypeOK'
  <2>1. since' \in Seq(PointerEvent)
    BY <1>1, <1>2, SeenType DEF TapIInv
  <2>2. QED BY <1>3, <2>1 DEF TapTypeOK, TapIInv, PointerDown
<1>5. Kept(since') /\ Len(since') = 1 /\ since'[1] = e
  BY <1>2 DEF Kept
<1>6. RemembersPress'
  BY <1>3, <1>5 DEF RemembersPress, PointerDown
<1>7. TapsExact'
  <2>1. ~IsTap(since')
    BY <1>5 DEF IsTap
  <2>2. tapped' = NoTarget
    BY DEF PointerDown
  <2>3. QED BY <2>1, <2>2 DEF TapsExact
<1>8. QED BY <1>4, <1>6, <1>7 DEF TapIInv

\* The gesture goes on after a move just when it had not ended and the move
\* stays on the target, and near.
LEMMA KeptByMove ==
  ASSUME TapTypeOK, NEW e \in PointerEvent, e.kind # "down", Seen(e), Pressed(since')
  PROVE  Kept(since') <=>
           /\ Kept(since) /\ e.kind = "move" /\ ~e.leaving
           /\ e.target = since[1].target /\ ~Far(since[1].x, e.x)
<1>1. /\ Len(since') = Len(since) + 1 /\ Len(since) >= 1
      /\ since'[Len(since) + 1] = e
      /\ \A k \in 1 .. Len(since) : since'[k] = since[k]
  BY SeenLater
<1>2. Len(since) \in Nat
  BY DEF TapTypeOK
<1>3. since'[1] = since[1]
  BY <1>1, <1>2
<1>4. ASSUME Kept(since')
      PROVE  /\ Kept(since) /\ e.kind = "move" /\ ~e.leaving
             /\ e.target = since[1].target /\ ~Far(since[1].x, e.x)
  <2>1. Kept(since)
    BY <1>1, <1>2, <1>3, <1>4 DEF Kept
  <2>2. Len(since) + 1 \in 2 .. Len(since')
    BY <1>1, <1>2
  <2>3. QED BY <2>1, <2>2, <1>1, <1>3, <1>4 DEF Kept
<1>5. ASSUME Kept(since), e.kind = "move", ~e.leaving,
             e.target = since[1].target, ~Far(since[1].x, e.x)
      PROVE  Kept(since')
  <2>1. SUFFICES ASSUME NEW k \in 2 .. Len(since')
                 PROVE  /\ since'[k].kind = "move" /\ ~since'[k].leaving
                        /\ since'[k].target = since'[1].target
                        /\ ~Far(since'[1].x, since'[k].x)
    BY DEF Kept
  <2>2. CASE k = Len(since) + 1
    BY <2>2, <1>1, <1>3, <1>5
  <2>3. CASE k # Len(since) + 1
    <3>1. k \in 2 .. Len(since) /\ k \in 1 .. Len(since)
      BY <2>3, <1>1, <1>2
    <3>2. QED BY <3>1, <1>1, <1>3, <1>5 DEF Kept
  <2>4. QED BY <2>2, <2>3
<1>6. QED BY <1>4, <1>5

\* A move answers no tap, and ends the gesture when it should.
LEMMA MoveTapIInv ==
  ASSUME TapIInv, NEW t \in Targets, NEW x \in Positions, NEW leaving \in BOOLEAN,
         PointerMove(t, x, leaving)
  PROVE  TapIInv'
<1> DEFINE e == [kind |-> "move", target |-> t, x |-> x, time |-> now, leaving |-> leaving]
<1>1. e \in PointerEvent /\ e.kind # "down" /\ Seen(e)
  BY DEF PointerEvent, TapIInv, TapTypeOK, PointerMove
<1>2. TapTypeOK'
  <2>1. since' \in Seq(PointerEvent)
    BY <1>1, SeenType DEF TapIInv
  <2>2. QED BY <2>1 DEF TapTypeOK, TapIInv, PointerMove
<1>3. ASSUME Pressed(since')
      PROVE  /\ (down' # NoTarget) <=> Kept(since')
             /\ down' # NoTarget =>
                  down' = [target |-> since'[1].target, x |-> since'[1].x,
                           time |-> since'[1].time]
             /\ ~IsTap(since')
  <2>1. /\ Pressed(since) /\ Len(since') = Len(since) + 1 /\ Len(since) >= 1
        /\ since'[Len(since) + 1] = e /\ since'[1] = since[1]
    BY <1>1, <1>3, SeenLater DEF TapIInv, TapTypeOK
  <2>2. Kept(since') <=> /\ Kept(since) /\ ~leaving
                         /\ t = since[1].target /\ ~Far(since[1].x, x)
    BY <1>1, <1>3, KeptByMove DEF TapIInv
  <2>3. /\ (down # NoTarget) <=> Kept(since)
        /\ down # NoTarget => /\ down = [target |-> since[1].target, x |-> since[1].x,
                                         time |-> since[1].time]
                              /\ down.target = since[1].target /\ down.x = since[1].x
    BY <2>1 DEF TapIInv, RemembersPress
  <2>4. (down' # NoTarget) <=> Kept(since')
    BY <2>2, <2>3 DEF PointerMove
  <2>5. down' # NoTarget =>
          down' = [target |-> since'[1].target, x |-> since'[1].x, time |-> since'[1].time]
    BY <2>1, <2>3 DEF PointerMove
  <2>6. ~IsTap(since')
    BY <2>1 DEF IsTap
  <2>7. QED BY <2>4, <2>5, <2>6
<1>4. tapped' = NoTarget
  BY DEF PointerMove
<1>5. RemembersPress' /\ TapsExact'
  BY <1>3, <1>4 DEF RemembersPress, TapsExact, Pressed
<1>6. QED BY <1>2, <1>5 DEF TapIInv

\* A release ends the gesture, and answers a tap when the gesture is one.
LEMMA UpTapIInv ==
  ASSUME TapIInv, NEW t \in Targets, NEW x \in Positions, PointerUp(t, x)
  PROVE  TapIInv'
<1> DEFINE e == [kind |-> "up", target |-> t, x |-> x, time |-> now, leaving |-> FALSE]
<1>1. e \in PointerEvent /\ e.kind # "down" /\ e.kind # "move" /\ Seen(e)
  BY DEF PointerEvent, TapIInv, TapTypeOK, PointerUp
<1>2. TapTypeOK'
  <2>1. since' \in Seq(PointerEvent)
    BY <1>1, SeenType DEF TapIInv
  <2>2. QED BY <2>1 DEF TapTypeOK, TapIInv, PointerUp
<1>3. down' = NoTarget
  BY DEF PointerUp
<1>4. ASSUME Pressed(since')
      PROVE  /\ ~Kept(since')
             /\ (tapped' # NoTarget) <=> IsTap(since')
             /\ tapped' # NoTarget => tapped' = since'[1].target
  <2>1. /\ Pressed(since) /\ Len(since') = Len(since) + 1 /\ Len(since) >= 1
        /\ since'[Len(since) + 1] = e /\ since'[1] = since[1]
        /\ \A k \in 1 .. Len(since) : since'[k] = since[k]
    BY <1>1, <1>4, SeenLater DEF TapIInv, TapTypeOK
  <2>2. ~Kept(since')
    BY <1>1, <1>4, KeptByMove DEF TapIInv
  <2>3. /\ (down # NoTarget) <=> Kept(since)
        /\ down # NoTarget => /\ down.target = since[1].target
                              /\ down.x = since[1].x /\ down.time = since[1].time
    BY <2>1 DEF TapIInv, RemembersPress
  <2>4. Len(since) \in Nat /\ since[1] \in PointerEvent
    BY <2>1 DEF TapIInv, TapTypeOK
  <2>5. IsTap(since') <=> /\ Kept(since)
                          /\ now - since[1].time <= MaxDuration
                          /\ t = since[1].target /\ ~Far(since[1].x, x)
    <3> DEFINE L == Len(since)
    <3>1. ASSUME IsTap(since')
          PROVE  /\ Kept(since)
                 /\ now - since[1].time <= MaxDuration
                 /\ t = since[1].target /\ ~Far(since[1].x, x)
      <4>1. now - since[1].time <= MaxDuration
        BY <3>1, <2>1 DEF IsTap
      <4>2. L + 1 \in 2 .. Len(since')
        BY <2>1, <2>4
      <4>3. t = since[1].target /\ ~Far(since[1].x, x)
        BY <4>2, <3>1, <2>1 DEF IsTap
      <4>4. Kept(since)
        <5>1. SUFFICES ASSUME NEW k \in 2 .. L
                       PROVE  /\ since[k].kind = "move" /\ ~since[k].leaving
                              /\ since[k].target = since[1].target
                              /\ ~Far(since[1].x, since[k].x)
          BY DEF Kept
        <5>2. k \in 2 .. Len(since') /\ k < Len(since') /\ k \in 1 .. L
          BY <2>1, <2>4
        <5>3. QED BY <5>2, <3>1, <2>1 DEF IsTap
      <4>5. QED BY <4>1, <4>3, <4>4
    <3>2. ASSUME Kept(since), now - since[1].time <= MaxDuration,
                 t = since[1].target, ~Far(since[1].x, x)
          PROVE  IsTap(since')
      <4>1. /\ Len(since') >= 2 /\ since'[1].kind = "down"
            /\ since'[Len(since')].kind = "up"
            /\ since'[Len(since')].time - since'[1].time <= MaxDuration
        BY <2>1, <2>4, <3>2 DEF Pressed
      <4>2. ASSUME NEW k \in 2 .. Len(since')
            PROVE  /\ since'[k].target = since'[1].target /\ ~since'[k].leaving
                   /\ ~Far(since'[1].x, since'[k].x)
                   /\ k < Len(since') => since'[k].kind = "move"
        <5>1. CASE k = L + 1
          BY <5>1, <2>1, <3>2
        <5>2. CASE k # L + 1
          <6>1. k \in 2 .. L /\ k \in 1 .. L
            BY <5>2, <2>1, <2>4
          <6>2. QED BY <6>1, <2>1, <3>2 DEF Kept
        <5>3. QED BY <5>1, <5>2
      <4>3. QED BY <4>1, <4>2 DEF IsTap
    <3>3. QED BY <3>1, <3>2
  <2>6. t # NoTarget
    BY TapAssumption
  <2>7. (tapped' # NoTarget) <=> /\ down # NoTarget /\ down.target = t
                                 /\ now - down.time <= MaxDuration
                                 /\ ~Far(down.x, x)
    BY <2>6 DEF PointerUp
  <2>8. (tapped' # NoTarget) <=> IsTap(since')
    BY <2>3, <2>5, <2>7
  <2>9. tapped' # NoTarget => tapped' = since'[1].target
    BY <2>1, <2>3, <2>7 DEF PointerUp
  <2>10. QED BY <2>2, <2>8, <2>9
<1>5. RemembersPress' /\ TapsExact'
  BY <1>3, <1>4 DEF RemembersPress, TapsExact, Pressed
<1>6. QED BY <1>2, <1>5 DEF TapIInv

\* Time alone changes no gesture.
LEMMA TickTapIInv == TapIInv /\ (Tick \/ UNCHANGED tapVars) => TapIInv'
<1> SUFFICES ASSUME TapIInv, Tick \/ UNCHANGED tapVars PROVE TapIInv'
  OBVIOUS
<1>1. UNCHANGED <<down, tapped, since>> /\ now' \in Nat
  BY DEF Tick, tapVars, TapIInv, TapTypeOK
<1>2. TapTypeOK'
  BY <1>1 DEF TapIInv, TapTypeOK
<1>3. RemembersPress' /\ TapsExact'
  BY <1>1 DEF TapIInv, RemembersPress, TapsExact
<1>4. QED BY <1>2, <1>3 DEF TapIInv

\* The recognizer always remembers the press under way and nothing else, and its
\* answers are the taps (TapRecognizer::feed).
THEOREM TapCorrect == TapSpec => [](TapTypeOK /\ RemembersPress /\ TapsExact)
<1>1. TapInit => TapIInv
  BY DEF TapInit, TapIInv, TapTypeOK, RemembersPress, TapsExact, Pressed
<1>2. TapIInv /\ [TapNext]_tapVars => TapIInv'
  <2> SUFFICES ASSUME TapIInv, [TapNext]_tapVars PROVE TapIInv'
    OBVIOUS
  <2>1. ASSUME NEW t \in Targets, NEW x \in Positions, PointerDown(t, x)
        PROVE  TapIInv'
    BY <2>1, DownTapIInv
  <2>2. ASSUME NEW t \in Targets, NEW x \in Positions, PointerUp(t, x)
        PROVE  TapIInv'
    BY <2>2, UpTapIInv
  <2>3. ASSUME NEW t \in Targets, NEW x \in Positions, NEW leaving \in BOOLEAN,
               PointerMove(t, x, leaving)
        PROVE  TapIInv'
    BY <2>3, MoveTapIInv
  <2>4. CASE Cancel
    BY <2>4 DEF Cancel, TapIInv, TapTypeOK, RemembersPress, TapsExact, Pressed
  <2>5. CASE Tick \/ UNCHANGED tapVars
    BY <2>5, TickTapIInv
  <2>6. QED BY <2>1, <2>2, <2>3, <2>4, <2>5 DEF TapNext
<1>3. QED BY <1>1, <1>2, PTL DEF TapSpec, TapIInv
==============================================================================
