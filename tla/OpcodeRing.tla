----------------------------- MODULE OpcodeRing -----------------------------
(***************************************************************************)
(* The guest-to-host half of the shared linear memory of pathland-core: a  *)
(* ring of SlotCount opcode slots, the guest's arena, and the header words *)
(* writeCursor, readCursor, frameCount and arenaCursor.                    *)
(*                                                                         *)
(* A Guest and a Host are views that borrow the whole memory exclusively,  *)
(* so one method call is one step and no host call runs while a Guest view *)
(* is alive; a view may be dropped and reopened between any two calls (the *)
(* C ABI opens one per call).  The host is polled with                     *)
(* RingTransport::next_frame, which opens a Host view, calls frames() and  *)
(* drops it.                                                               *)
(*                                                                         *)
(* An opcode is its command and the two operands that may be arena offsets *)
(* (SET_TEXT: ref; SET_DESIGN_TOKEN: ref is the path, value the value).    *)
(*                                                                         *)
(* sent, received, published and frameMark are history: what the producer  *)
(* was told had been accepted, what the consumer read, with the texts      *)
(* resolved at each end, how much of sent belongs to frames that have      *)
(* ended, and how much of it precedes the view's frame.                    *)
(***************************************************************************)
EXTENDS LinearMemory, Sequences

CONSTANTS FrameWrap,    \* frameCount is a u32: it counts modulo FrameWrap
          ArenaBytes,   \* capacity of the guest arena
          Commands      \* opcodes, up to what the properties tell apart

ASSUME RingAssumption ==
  /\ FrameWrap \in Nat /\ FrameWrap >= 2
  /\ ArenaBytes \in Nat

VARIABLES slots, readCursor, writeCursor, frameCount, arena, arenaCursor,
          guestView,    \* a Guest view is alive
          frameStart,   \* its frame_start
          sent, received, published, frameMark

header == <<readCursor, writeCursor, frameCount>>
guestArena == <<arena, arenaCursor>>
view == <<guestView, frameStart, frameMark>>
history == <<sent, received, published>>
ringVars == <<slots, header, guestArena, view, history>>

NoRef == ArenaBytes     \* an operand that is no valid arena offset

Refs == Offsets(ArenaBytes) \union {NoRef}
ZeroSlot == [cmd |-> Blank, ref |-> NoRef, value |-> NoRef]
Opcode == [cmd : Commands, ref : Refs, value : Refs]
Message == [cmd : Commands, ref : Texts \union {Blank},
            value : Texts \union {Blank}]

Init ==
  /\ slots = [i \in 0 .. SlotCount - 1 |-> ZeroSlot]
  /\ readCursor = 0 /\ writeCursor = 0 /\ frameCount = 0
  /\ arena = Empty(ArenaBytes) /\ arenaCursor = 0
  /\ guestView = FALSE /\ frameStart = 0 /\ frameMark = 0
  /\ sent = <<>> /\ received = <<>> /\ published = 0

-----------------------------------------------------------------------------
(* The producer.                                                           *)

FullNever == FALSE                          \* seeded fault: no capacity check

Full == Mask(writeCursor + 1) = readCursor

PushSlotUnmasked(op, message) ==            \* seeded fault: the cursor runs on
  /\ ~Full
  /\ slots' = [slots EXCEPT ![writeCursor] = op]
  /\ writeCursor' = writeCursor + 1
  /\ sent' = Append(sent, message)

\* The slot is written, then the cursor is advanced.
PushSlot(op, message) ==
  /\ ~Full
  /\ slots' = [slots EXCEPT ![writeCursor] = op]
  /\ writeCursor' = Mask(writeCursor + 1)
  /\ sent' = Append(sent, message)

\* Err(RingError::Full): the ring and what was accepted are as before.
Refused == UNCHANGED <<slots, writeCursor, sent>>

GuestNew ==
  /\ ~guestView
  /\ guestView' = TRUE
  /\ frameStart' = writeCursor /\ frameMark' = Len(sent)
  /\ UNCHANGED <<slots, header, guestArena, history>>

GuestDrop ==
  /\ guestView
  /\ guestView' = FALSE
  /\ UNCHANGED <<slots, header, guestArena, frameStart, frameMark, history>>

BeginFrame ==
  /\ guestView
  /\ frameStart' = writeCursor /\ frameMark' = Len(sent)
  /\ UNCHANGED <<slots, header, guestArena, guestView, history>>

EndFrame ==
  /\ guestView
  /\ frameCount' = (frameCount + 1) % FrameWrap
  /\ published' = Len(sent)
  /\ UNCHANGED <<slots, readCursor, writeCursor, guestArena, view, sent, received>>

Unframed == UNCHANGED <<readCursor, frameCount, view, received, published>>

Allocated == {o \in Offsets(ArenaBytes) : arena[o] # Blank}

\* create_node, delete_node, insert_child, remove_child, move_child,
\* set_property, set_date and reset carry no arena offset; push_opcode may
\* carry one the caller allocated before.
Push(c, o) ==
  /\ guestView
  /\ PushSlot([cmd |-> c, ref |-> o, value |-> NoRef],
              [cmd |-> c, ref |-> Lookup(arena, o), value |-> Blank])
  /\ Unframed /\ UNCHANGED guestArena

\* alloc, alloc_str: an entry no opcode refers to yet.
Alloc(t) ==
  /\ guestView
  /\ Fits(ArenaBytes, arenaCursor, t)
  /\ arena' = Store(arena, arenaCursor, t)
  /\ arenaCursor' = arenaCursor + EntryBytes[t]
  /\ Refused /\ Unframed

\* set_text, set_design_token: the text is allocated first.  When the ring is
\* full the bytes stay allocated; when the arena is full nothing changes.
PushText(c, t) ==
  /\ guestView
  /\ Fits(ArenaBytes, arenaCursor, t)
  /\ arena' = Store(arena, arenaCursor, t)
  /\ arenaCursor' = arenaCursor + EntryBytes[t]
  /\ \/ PushSlot([cmd |-> c, ref |-> arenaCursor, value |-> NoRef],
                 [cmd |-> c, ref |-> t, value |-> Blank])
     \/ Full /\ Refused
  /\ Unframed

\* set_design_token_string: two allocations, the path's and the value's, and
\* either may fail after the other succeeded.
PushPair(c, p, t) ==
  LET valueRef == arenaCursor + EntryBytes[p]
      withPath == Store(arena, arenaCursor, p)
  IN  /\ guestView
      /\ Fits(ArenaBytes, arenaCursor, p)
      /\ \/ /\ Fits(ArenaBytes, valueRef, t)
            /\ arena' = Store(withPath, valueRef, t)
            /\ arenaCursor' = valueRef + EntryBytes[t]
            /\ \/ PushSlot([cmd |-> c, ref |-> arenaCursor, value |-> valueRef],
                           [cmd |-> c, ref |-> p, value |-> t])
               \/ Full /\ Refused
         \/ /\ ~Fits(ArenaBytes, valueRef, t)
            /\ arena' = withPath
            /\ arenaCursor' = valueRef
            /\ Refused
      /\ Unframed

-----------------------------------------------------------------------------
(* The consumer.                                                           *)

\* What the holder of a frame reads in a slot: the opcode, with its operands
\* resolved in the arena.
Decode(op) == [cmd |-> op.cmd, ref |-> Lookup(arena, op.ref),
               value |-> Lookup(arena, op.value)]

Run(from, to) == [i \in 1 .. to - from |-> slots[from + i - 1]]

FrameReadyWrapped == frameCount # 0 /\ readCursor # writeCursor   \* seeded fault
FrameReadyLate == frameCount > 1 /\ readCursor < writeCursor      \* seeded fault

\* A new view starts with consumed = 0, so it has something to consume as
\* soon as frameCount # 0.  A run that wraps is not handed out.
FrameReady == frameCount # 0 /\ readCursor < writeCursor

NextFrameAgain ==                           \* seeded fault: nothing is consumed
  /\ ~guestView
  /\ FrameReady
  /\ received' = received \o
       [i \in 1 .. writeCursor - readCursor |-> Decode(Run(readCursor, writeCursor)[i])]
  /\ UNCHANGED <<slots, header, guestArena, view, sent, published>>

NextFrame ==
  /\ ~guestView
  /\ FrameReady
  /\ received' = received \o
       [i \in 1 .. writeCursor - readCursor |-> Decode(Run(readCursor, writeCursor)[i])]
  /\ readCursor' = writeCursor
  /\ UNCHANGED <<slots, writeCursor, frameCount, guestArena, view, sent, published>>

-----------------------------------------------------------------------------
Produce ==
  \/ GuestNew \/ GuestDrop \/ BeginFrame \/ EndFrame
  \/ \E c \in Commands, o \in Allocated \union {NoRef} : Push(c, o)
  \/ \E t \in Texts : Alloc(t)
  \/ \E c \in Commands, t \in Texts : PushText(c, t)
  \/ \E c \in Commands, p, t \in Texts : PushPair(c, p, t)

Next == Produce \/ NextFrame

Spec == Init /\ [][Next]_ringVars

\* A driver that keeps polling between the producer's calls: every Guest view
\* is dropped some time, and a poll that would return a frame is not put off
\* for ever.
Fairness == WF_ringVars(GuestDrop) /\ SF_ringVars(NextFrame)
FairSpec == Spec /\ Fairness

-----------------------------------------------------------------------------
\* Slots, masked cursors, frame count and arena cursor stay in range, and a frame
\* ends within what was sent.
TypeOK ==
  /\ slots \in [0 .. SlotCount - 1 -> Opcode \union {ZeroSlot}]
  /\ readCursor \in 0 .. SlotCount - 1 /\ writeCursor \in 0 .. SlotCount - 1
  /\ frameCount \in 0 .. FrameWrap - 1
  /\ arena \in Cells(ArenaBytes) /\ arenaCursor \in 0 .. ArenaBytes
  /\ guestView \in BOOLEAN /\ frameStart \in 0 .. SlotCount - 1
  /\ sent \in Seq(Message) /\ received \in Seq(Message)
  /\ published \in 0 .. Len(sent) /\ frameMark \in 0 .. Len(sent)

\* What the consumer has read is what the producer was told was accepted, from
\* the first opcode on, in order, each with the text it was pushed with: no
\* slot is overwritten, skipped or read twice, and no entry is overwritten.
DeliveredInOrder ==
  /\ Len(received) <= Len(sent)
  /\ \A i \in 1 .. Len(received) : received[i] = sent[i]

\* The opcodes still to be read are in their slots, whole.
UnreadIntact ==
  \A i \in Len(received) + 1 .. Len(sent) :
    Decode(slots[Mask(i - 1)]) = sent[i]

Pending == Mask(writeCursor - frameStart)

\* Pending, a difference of cursors modulo SlotCount, counts what was pushed
\* since the view's frame began.
PendingExact == guestView => Pending = Len(sent) - frameMark

Wrapped == writeCursor < readCursor

\* Once writeCursor is behind readCursor nothing is ever delivered again:
\* frames() hands out nothing and only frames() moves readCursor.
WrapIsFinal == [][Wrapped => Wrapped' /\ received' = received]_ringVars

\* As a consequence a ring delivers fewer than SlotCount opcodes in its life.
LifetimeBound == Len(received) < SlotCount

Channel == INSTANCE OpcodeChannel
             WITH Messages <- Message, Capacity <- SlotCount - 1

\* The ring carries the stream as an in-order channel of SlotCount - 1 places.
ChannelSpec == Channel!Spec

\* A frame that has ended is delivered, unless the ring wrapped or frameCount,
\* wrapping, read as "no frame yet".
FramesDelivered ==
  \A k \in 1 .. SlotCount - 1 :
    published >= k ~> (Len(received) >= k \/ Wrapped \/ frameCount = 0)

-----------------------------------------------------------------------------
(* What the documents promise and the code does not keep.                  *)

\* "the host drains [readCursor, writeCursor)" (spec/OPCODE.md, frame
\* lifecycle), "a small ring wraps many times" (tests/randomized.rs): whatever
\* has ended is delivered, wrapped or not.
DeliveredAcrossWrap ==
  \A k \in 1 .. 2 * SlotCount :
    published >= k ~> (Len(received) >= k \/ frameCount = 0)
=============================================================================
