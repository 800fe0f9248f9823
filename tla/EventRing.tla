------------------------------ MODULE EventRing ------------------------------
(***************************************************************************)
(* The host-to-guest half of the shared linear memory of pathland-core: a  *)
(* ring of SlotCount event opcodes and the event arena, in which the host  *)
(* stores the strings of TEXT_CHANGED and NAVIGATE events.                 *)
(*                                                                         *)
(* The guest reads an event's string when it drains the event, from the    *)
(* offset the event carries.  The host rewinds the event arena when it     *)
(* consumes a META::RESET from the other ring, whatever is still undrained.*)
(*                                                                         *)
(* eventsSent and eventsTaken are history: the events the host was told    *)
(* were accepted, and what became of each event that left the ring.        *)
(* exposed is history too: the events that were still in the ring at some  *)
(* rewind of the arena.                                                    *)
(***************************************************************************)
EXTENDS LinearMemory, Sequences

CONSTANTS EventArenaBytes,  \* capacity of the event arena
          TextKinds,        \* events that carry a string
          PlainKinds,       \* the others
          DrainLimits       \* the max arguments the C ABI is called with

ASSUME EventAssumption ==
  /\ EventArenaBytes \in Nat
  /\ TextKinds \intersect PlainKinds = {}
  /\ DrainLimits \subseteq Nat \ {0}

VARIABLES eventSlots, eventReadCursor, eventWriteCursor, eventArena,
          eventArenaCursor, eventsSent, eventsTaken, exposed

eventArenaVars == <<eventArena, eventArenaCursor>>
eventVars == <<eventSlots, eventReadCursor, eventWriteCursor, eventArenaVars,
               eventsSent, eventsTaken, exposed>>

Kinds == TextKinds \union PlainKinds
NoEventRef == EventArenaBytes

EventOpcode == [kind : Kinds, ref : Offsets(EventArenaBytes) \union {NoEventRef}]
EmptyEvent == [kind |-> Blank, ref |-> NoEventRef]
Event == [kind : Kinds, text : Texts \union {Blank}]

\* How an event left the ring: decoded by Guest::drain_events, copied out by
\* the C ABI of pathland-view-native, or removed and handed to nobody.
Ways == {"guest", "native", "nobody"}
Outcome == [event : Event, way : Ways]

EventInit ==
  /\ eventSlots = [i \in 0 .. SlotCount - 1 |-> EmptyEvent]
  /\ eventReadCursor = 0 /\ eventWriteCursor = 0
  /\ eventArena = Empty(EventArenaBytes) /\ eventArenaCursor = 0
  /\ eventsSent = <<>> /\ eventsTaken = <<>> /\ exposed = {}

-----------------------------------------------------------------------------
(* The host.                                                               *)

EventFullNever == FALSE                     \* seeded fault: no capacity check

EventFull == Mask(eventWriteCursor + 1) = eventReadCursor

PushEvent(op, event) ==
  /\ ~EventFull
  /\ eventSlots' = [eventSlots EXCEPT ![eventWriteCursor] = op]
  /\ eventWriteCursor' = Mask(eventWriteCursor + 1)
  /\ eventsSent' = Append(eventsSent, event)
  /\ UNCHANGED <<eventReadCursor, eventsTaken, exposed>>

\* An event without a string, through Host::send_event or
\* Guest::push_event_opcode.
SendPlain(k) ==
  /\ PushEvent([kind |-> k, ref |-> NoEventRef], [kind |-> k, text |-> Blank])
  /\ UNCHANGED eventArenaVars

SendTextInPlace(k, t) ==                    \* seeded fault: the bytes stay free
  /\ Fits(EventArenaBytes, eventArenaCursor, t)
  /\ eventArena' = Store(eventArena, eventArenaCursor, t)
  /\ PushEvent([kind |-> k, ref |-> eventArenaCursor], [kind |-> k, text |-> t])
  /\ UNCHANGED eventArenaCursor

\* The string is stored first: when the ring is full its bytes stay taken,
\* when the arena is full nothing changes.
SendText(k, t) ==
  /\ Fits(EventArenaBytes, eventArenaCursor, t)
  /\ eventArena' = Store(eventArena, eventArenaCursor, t)
  /\ eventArenaCursor' = eventArenaCursor + EntryBytes[t]
  /\ \/ PushEvent([kind |-> k, ref |-> eventArenaCursor], [kind |-> k, text |-> t])
     \/ /\ EventFull
        /\ UNCHANGED <<eventSlots, eventReadCursor, eventWriteCursor,
                       eventsSent, eventsTaken, exposed>>

\* The events still in the ring.
Undrained == Len(eventsTaken) + 1 .. Len(eventsSent)

\* frames() saw a RESET among the opcodes it handed out.
Rewind ==
  /\ eventArenaCursor' = 0
  /\ exposed' = exposed \union Undrained
  /\ UNCHANGED <<eventSlots, eventReadCursor, eventWriteCursor, eventArena,
                 eventsSent, eventsTaken>>

-----------------------------------------------------------------------------
(* The guest.                                                              *)

EventCount == eventWriteCursor - eventReadCursor

EventAt(i) == eventSlots[eventReadCursor + i - 1]

\* decode_event: a string event is resolved in the event arena.  The text is
\* Blank when its entry is gone (the event is then dropped, or its text is
\* whatever bytes are there).
DecodeEvent(op) == [kind |-> op.kind, text |-> Lookup(eventArena, op.ref)]

\* Event::encode, the opcode the native C ABI copies out: a string event
\* carries no string.
EncodeEvent(op) == [kind |-> op.kind, text |-> Blank]

\* read_events: everything in the ring is removed, unless the ring wrapped.
TakeAll(outcomes) ==
  /\ EventCount > 0
  /\ eventsTaken' = eventsTaken \o outcomes
  /\ eventReadCursor' = eventWriteCursor
  /\ UNCHANGED <<eventSlots, eventWriteCursor, eventArenaVars, eventsSent, exposed>>

DrainEvents ==
  TakeAll([i \in 1 .. EventCount |->
             [event |-> DecodeEvent(EventAt(i)), way |-> "guest"]])

\* pathland_native_drain_events: all are drained and at most max are copied
\* (pathland_core_drain_events, too, copies opcodes and no strings).
NativeDrain(max) ==
  TakeAll([i \in 1 .. EventCount |->
             [event |-> EncodeEvent(EventAt(i)),
              way |-> IF i <= max THEN "native" ELSE "nobody"]])

-----------------------------------------------------------------------------
HostSends ==
  \/ \E k \in PlainKinds : SendPlain(k)
  \/ \E k \in TextKinds, t \in Texts : SendText(k, t)

GuestTakes == DrainEvents \/ \E max \in DrainLimits : NativeDrain(max)

EventNext == HostSends \/ GuestTakes \/ Rewind

EventSpec == EventInit /\ [][EventNext]_eventVars

-----------------------------------------------------------------------------
\* Slots, masked cursors and arena cursor stay in range, and the histories are
\* of events.
EventTypeOK ==
  /\ eventSlots \in [0 .. SlotCount - 1 -> EventOpcode \union {EmptyEvent}]
  /\ eventReadCursor \in 0 .. SlotCount - 1
  /\ eventWriteCursor \in 0 .. SlotCount - 1
  /\ eventArena \in Cells(EventArenaBytes)
  /\ eventArenaCursor \in 0 .. EventArenaBytes
  /\ eventsSent \in Seq(Event) /\ eventsTaken \in Seq(Outcome)
  /\ exposed \subseteq 1 .. Len(eventsSent)

\* The i-th event to leave the ring is the i-th that was accepted: none is
\* skipped, repeated or out of its place, rewinds or not.
EventsInPlace ==
  /\ Len(eventsTaken) <= Len(eventsSent)
  /\ \A i \in 1 .. Len(eventsTaken) :
       eventsTaken[i].event.kind = eventsSent[i].kind

\* An event the guest decodes has the string it was sent with, unless the
\* arena was rewound while it was in the ring.
TextsIntact ==
  \A i \in 1 .. Len(eventsTaken) :
    eventsTaken[i].way = "guest" /\ i \notin exposed
      => eventsTaken[i].event = eventsSent[i]

\* The same of the events still in the ring, so that whoever drains next gets
\* them whole: no later string was stored over theirs.
UndrainedIntact ==
  \A i \in Undrained \ exposed :
    DecodeEvent(eventSlots[Mask(i - 1)]) = eventsSent[i]

EventsWrapped == eventWriteCursor < eventReadCursor

\* Once eventWriteCursor is behind eventReadCursor no event ever leaves the
\* ring again.
EventWrapIsFinal ==
  [][EventsWrapped => EventsWrapped' /\ eventsTaken' = eventsTaken]_eventVars

\* Fewer than SlotCount events reach the guest in the memory's life.
EventLifetimeBound == Len(eventsTaken) < SlotCount

-----------------------------------------------------------------------------
\* "The guest resolves the text from the event arena region when draining
\* events" (spec/OPCODE.md, event arena): what it resolves is the text of the
\* event.
TextsResolved ==
  \A i \in 1 .. Len(eventsTaken) :
    eventsTaken[i].way = "guest" => eventsTaken[i].event = eventsSent[i]
=============================================================================
