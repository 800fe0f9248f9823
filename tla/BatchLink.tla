------------------------------ MODULE BatchLink ------------------------------
(***************************************************************************)
(* The network codecs of pathland-core-transport: frames of opcodes and    *)
(* the bytes of their texts become batches, and batches become frames      *)
(* again (batch.rs, batching.rs, net.rs).                                  *)
(*                                                                         *)
(* A guest fills frames; texts go to its bump arena, and an opcode carries *)
(* the offset.  A producer takes complete frames, in order, with the part  *)
(* of the arena in use at that moment.  The codecs differ in the bytes a   *)
(* batch carries and in what the consumer resolves an offset against:      *)
(*   delta    BatchEncoder and BatchDecoder: the bytes appended since the  *)
(*            last batch, and a mirror of the arena;                       *)
(*   net      NetBatchEncoder: the arena in use, a decoder per batch;      *)
(*   batcher  Batcher: what it buffered, a decoder per batch;              *)
(*   frames   encode_frame and decode_frame: the frame's own section;      *)
(*   events   encode_events and decode_events, from host to guest.         *)
(*                                                                         *)
(* Bytes are cells: the first cell of an entry is its text, the others are *)
(* Blank.  An opcode's number n, text and epoch (how many times the guest  *)
(* had reset) are history, and so is the epoch of a batch.                 *)
(***************************************************************************)
EXTENDS Integers, Sequences, SequencesExt

CONSTANTS Codecs, Texts, Blank,
          EntryCells,   \* EntryCells[t]: the cells of the entry of t
          MaxOpcodes,   \* bound: opcodes the guest pushes
          MaxReady,     \* bound: frames, and batches, under way
          MaxEvents     \* bound: events of one batch

ASSUME LinkAssumption ==
  /\ Codecs \subseteq {"delta", "net", "batcher", "frames", "events"}
  /\ EntryCells \in [Texts -> Nat \ {0}]
  /\ Blank \notin Texts
  /\ MaxOpcodes \in Nat /\ MaxReady \in Nat /\ MaxEvents \in Nat

VARIABLES codec,
          arena,        \* the used part of the guest's arena
          epoch, pushed,
          frame,        \* the opcodes of the open frame
          ready,        \* complete frames, oldest first
          lastLen,      \* last_arena_len of BatchEncoder, of Batcher
          buffer,       \* opcodes buffered: Batcher, NetBatchEncoder
          pending,      \* Batcher's pending_arena
          seen,         \* history: epoch of the arena Batcher saw last
          masked,       \* history: Batcher took a reset arena for a grown one
          wire,         \* batches under way
          mirror,       \* BatchDecoder's arena
          got,          \* the batch decoded last: opcodes and texts read
          taken,        \* number of the last opcode decoded
          broken,       \* a batch was rejected and no RESET came since
          typed,        \* history: the events of the batch decoded last,
          dispatched    \* and what decode_events made of it

guest == <<arena, epoch, pushed, frame>>
producer == <<lastLen, buffer, pending, seen, masked>>
consumer == <<mirror, got, taken, broken>>
events == <<typed, dispatched>>
vars == <<codec, guest, ready, producer, wire, consumer, events>>

BATCH_HEADER == 16
SIZE == 16

Entry(t) == <<t>> \o [k \in 1 .. EntryCells[t] - 1 |-> Blank]

\* Entry at an offset, counted from 0.
Read(cells, ref) == IF ref < Len(cells) THEN cells[ref + 1] ELSE Blank

IsReset(op) == op.cmd = "reset"
HasReset(ops) == \E i \in 1 .. Len(ops) : IsReset(ops[i])

Nothing == [ops |-> <<>>, read |-> <<>>, epoch |-> 0, masked |-> FALSE]

Init ==
  /\ codec \in Codecs
  /\ arena = <<>> /\ epoch = 0 /\ pushed = 0 /\ frame = <<>> /\ ready = <<>>
  /\ lastLen = 0 /\ buffer = <<>> /\ pending = <<>> /\ seen = 0 /\ masked = FALSE
  /\ wire = <<>>
  /\ typed = <<>> /\ dispatched = <<>>
  /\ mirror = <<>> /\ got = Nothing /\ taken = 0 /\ broken = FALSE

-----------------------------------------------------------------------------
(* The guest.                                                              *)

PushOpcode(cmd, ref, text, ep) ==
  /\ codec # "events" /\ pushed < MaxOpcodes
  /\ pushed' = pushed + 1
  /\ frame' = Append(frame, [cmd |-> cmd, ref |-> ref, text |-> text,
                             n |-> pushed + 1, epoch |-> ep])

SetText(t) ==
  /\ PushOpcode("text", Len(arena), t, epoch)
  /\ arena' = arena \o Entry(t)
  /\ UNCHANGED <<codec, events, epoch, ready, producer, wire, consumer>>

\* Guest::reset: the opcode, and the arena cursor back to 0.  A frame of the
\* self-contained codec starts its section at 0 anyway.
Reset ==
  /\ PushOpcode("reset", 0, Blank, epoch + 1)
  /\ arena' = IF codec = "frames" THEN arena ELSE <<>>
  /\ epoch' = epoch + 1
  /\ UNCHANGED <<codec, events, ready, producer, wire, consumer>>

\* In the self-contained codec the strings belong to the frame: section.
EndFrame ==
  /\ frame # <<>> /\ Len(ready) < MaxReady
  /\ ready' = Append(ready, [ops |-> frame, section |-> arena])
  /\ frame' = <<>>
  /\ arena' = IF codec = "frames" THEN <<>> ELSE arena
  /\ UNCHANGED <<codec, events, epoch, pushed, producer, wire, consumer>>

-----------------------------------------------------------------------------
(* The wire: magic(4) version(2) flags(2) frameCount(4) opcodeCount(4),    *)
(* the opcodes, arenaLen(4), the arena bytes.  present counts the bytes    *)
(* that arrived; one cell is one byte.                                     *)

Whole(b) == BATCH_HEADER + SIZE * Len(b.ops) + 4 + Len(b.delta)

encode_batch(ops, delta) ==
  [ops |-> ops, delta |-> delta, magic |-> TRUE, version |-> TRUE,
   present |-> BATCH_HEADER + SIZE * Len(ops) + 4 + Len(delta),
   epoch |-> IF codec = "batcher" THEN seen ELSE epoch, masked |-> masked]

ParseTrusting(b) ==                         \* seeded fault: lengths not checked
  IF b.present < BATCH_HEADER THEN "Truncated" ELSE "Ok"

parse(b) ==
  LET opcodesEnd == BATCH_HEADER + SIZE * Len(b.ops)
  IN  CASE b.present < BATCH_HEADER -> "Truncated"
        [] b.present >= BATCH_HEADER /\ ~b.magic -> "BadMagic"
        [] b.present >= BATCH_HEADER /\ b.magic /\ ~b.version -> "BadVersion"
        [] OTHER ->
             IF opcodesEnd > b.present THEN "BadOpcodeCount"
             ELSE IF opcodesEnd + 4 > b.present
                     \/ opcodesEnd + 4 + Len(b.delta) > b.present THEN "BadArenaLen"
             ELSE "Ok"

-----------------------------------------------------------------------------
(* The producers.                                                          *)

NextFrame == IF ready = <<>> THEN [ops |-> <<>>, section |-> <<>>] ELSE Head(ready)

Send(b) == Len(wire) < MaxReady /\ wire' = Append(wire, b)

From(cells, len) == SubSeq(cells, len + 1, Len(cells))

\* BatchEncoder::encode: tracking restarts at a RESET, and when the arena
\* shrank.
Delta(ops, used) ==
  LET last == IF HasReset(ops) THEN 0 ELSE lastLen
  IN  IF Len(used) >= last THEN From(used, last) ELSE used

EncodeDelta ==
  /\ codec = "delta" /\ ready # <<>>
  /\ Send(encode_batch(NextFrame.ops, Delta(NextFrame.ops, arena)))
  /\ lastLen' = Len(arena)
  /\ ready' = Tail(ready)
  /\ UNCHANGED <<codec, events, guest, buffer, pending, seen, masked, consumer>>

\* NetBatchEncoder::push_frame, push_opcodes.
NetPush ==
  /\ codec = "net" /\ ready # <<>>
  /\ buffer' = buffer \o NextFrame.ops
  /\ ready' = Tail(ready)
  /\ UNCHANGED <<codec, events, guest, lastLen, pending, seen, masked, wire, consumer>>

\* encode_with_arena: what is buffered, however little, with the whole arena.
NetEncode ==
  /\ codec = "net"
  /\ Send(encode_batch(buffer, arena))
  /\ buffer' = <<>>
  /\ UNCHANGED <<codec, events, guest, ready, lastLen, pending, seen, masked, consumer>>

\* Batcher::push_frame: an arena shorter than at the last push was reset.
BatcherPush ==
  LET shrank == Len(arena) < lastLen
      last == IF shrank THEN 0 ELSE lastLen
  IN  /\ codec = "batcher" /\ ready # <<>>
      /\ pending' = (IF shrank THEN <<>> ELSE pending) \o From(arena, last)
      /\ lastLen' = Len(arena)
      /\ seen' = epoch /\ masked' = (masked \/ (~shrank /\ lastLen > 0 /\ epoch > seen))
      /\ buffer' = buffer \o NextFrame.ops
      /\ ready' = Tail(ready)
      /\ UNCHANGED <<codec, events, guest, wire, consumer>>

\* Batcher::flush, by force or by a trigger: by size, or by time, which may
\* have passed at any moment.
BatcherFlush ==
  /\ codec = "batcher" /\ buffer # <<>>
  /\ Send(encode_batch(buffer, pending))
  /\ buffer' = <<>> /\ pending' = <<>> /\ lastLen' = 0 /\ masked' = FALSE
  /\ UNCHANGED <<codec, events, guest, ready, seen, consumer>>

\* encode_frame.
EncodeFrame ==
  /\ codec = "frames" /\ ready # <<>>
  /\ Send(encode_batch(NextFrame.ops, NextFrame.section))
  /\ ready' = Tail(ready)
  /\ UNCHANGED <<codec, events, guest, producer, consumer>>

-----------------------------------------------------------------------------
(* The consumer.                                                           *)

MirrorKept(b) == mirror \o b.delta          \* seeded fault: RESET clears nothing

\* BatchDecoder::decode: a RESET clears the mirror, the delta is appended.
Mirrored(b) == (IF HasReset(b.ops) THEN <<>> ELSE mirror) \o b.delta

\* What the offsets are resolved against.
Section(b) == IF codec = "delta" THEN Mirrored(b) ELSE b.delta

Decode ==
  /\ codec # "events" /\ wire # <<>>
  /\ LET b == Head(wire) IN
     /\ parse(b) = "Ok"
     /\ mirror' = IF codec = "delta" THEN Mirrored(b) ELSE mirror
     /\ got' = [ops |-> b.ops, epoch |-> b.epoch, masked |-> b.masked,
                read |-> [i \in 1 .. Len(b.ops) |-> Read(Section(b), b.ops[i].ref)]]
     /\ taken' = IF b.ops = <<>> THEN taken ELSE b.ops[Len(b.ops)].n
     /\ broken' = (broken /\ ~HasReset(b.ops))
  /\ wire' = Tail(wire)
  /\ UNCHANGED <<codec, events, guest, ready, producer>>

\* A batch that arrives cut, or of another protocol, is refused: the decoder
\* keeps its mirror, and the batch is gone.
Reject(n, magic, version) ==
  /\ wire # <<>>
  /\ LET b == [Head(wire) EXCEPT !.present = n, !.magic = magic, !.version = version]
     IN  parse(b) # "Ok"
  /\ wire' = Tail(wire)
  /\ broken' = TRUE
  /\ got' = Nothing
  /\ typed' = <<>>
  /\ UNCHANGED <<codec, dispatched, guest, ready, producer, mirror, taken>>

-----------------------------------------------------------------------------
(* Events, host to guest: the same batch, with a string section.           *)

HasText(ev) == ev.kind \in {"TextChanged", "NavigateUrl"}

AppendLate(acc, ev) ==                      \* seeded fault: offset of the next entry
  LET strings == IF HasText(ev) THEN acc.delta \o Entry(ev.text) ELSE acc.delta
  IN  [ops |-> Append(acc.ops, [cmd |-> ev.kind, target |-> ev.target, ref |-> Len(strings)]),
       delta |-> strings]

\* One event of encode_events: a text or a URL becomes an entry, the opcode
\* carries its offset and, of a URL, no target.
AppendEvent(acc, ev) ==
  [ops |-> Append(acc.ops,
             [cmd |-> ev.kind, target |-> ev.target,
              ref |-> IF HasText(ev) THEN Len(acc.delta) ELSE 0]),
   delta |-> IF HasText(ev) THEN acc.delta \o Entry(ev.text) ELSE acc.delta]

encode_events(es) == FoldLeft(AppendEvent, [ops |-> <<>>, delta |-> <<>>], es)

\* The event of an opcode: its text is read at the offset it carries.
Event(b, op) ==
  [kind |-> op.cmd, target |-> op.target,
   text |-> IF op.cmd \in {"TextChanged", "NavigateUrl"} THEN Read(b.delta, op.ref) ELSE Blank]

\* decode_events: an opcode whose text does not resolve is left out.
KeepEvent(b, acc, op) ==
  IF HasText(Event(b, op)) /\ Event(b, op).text = Blank THEN acc
  ELSE Append(acc, Event(b, op))

decode_events(b) == FoldLeft(LAMBDA acc, op : KeepEvent(b, acc, op), <<>>, b.ops)

Events == [kind : {"TextChanged"}, target : {1, 2}, text : Texts]
          \union [kind : {"NavigateUrl"}, target : {0}, text : Texts]
          \union [kind : {"NavigateBack", "PointerUp"}, target : {0}, text : {Blank}]

\* A batch of events is decoded on its own: one under way is as good as many.
HostSend(es) ==
  LET e == encode_events(es)
  IN  /\ codec = "events" /\ wire = <<>>
      /\ wire' = <<encode_batch(e.ops, e.delta)>>
      /\ typed' = es /\ dispatched' = <<>>
      /\ UNCHANGED <<codec, guest, ready, producer, consumer>>

GuestDispatch ==
  /\ codec = "events" /\ wire # <<>>
  /\ parse(Head(wire)) = "Ok"
  /\ dispatched' = decode_events(Head(wire))
  /\ wire' = Tail(wire)
  /\ UNCHANGED <<codec, typed, guest, ready, producer, consumer>>

-----------------------------------------------------------------------------
Guest == (\E t \in Texts : SetText(t)) \/ Reset \/ EndFrame

Next ==
  \/ Guest
  \/ EncodeDelta \/ NetPush \/ NetEncode \/ BatcherPush \/ BatcherFlush \/ EncodeFrame
  \/ Decode
  \/ \E es \in BoundedSeq(Events, MaxEvents) : HostSend(es)
  \/ GuestDispatch
  \/ \E n \in {BATCH_HEADER - 1, BATCH_HEADER}, magic, version \in BOOLEAN :
       Reject(n, magic, version)

Spec == Init /\ [][Next]_vars
-----------------------------------------------------------------------------
\* The text of opcode i of the batch got can be expected to be right: the
\* guest had not reset again when the batch was made, a mirror has missed no
\* batch, and Batcher, which goes by the arena's length, noticed each reset.
Expected(i) ==
  /\ got.ops[i].cmd = "text"
  /\ got.ops[i].epoch = got.epoch \/ codec = "frames"
  /\ ~(codec = "delta" /\ broken)
  /\ ~got.masked

\* A text that can be expected to be right is read as it was pushed, whichever
\* codec carried it, however frames are gathered into batches and however far the
\* guest has run ahead short of another RESET (encode_frame: past it as well); a
\* mirror that missed a batch is right again from the next RESET on.
TextsArrive == \A i \in 1 .. Len(got.ops) : Expected(i) => got.read[i] = got.ops[i].text

\* A batch decodes when it is whole and never when it is cut, wherever that is.
CutRejected(b) ==
  \A n \in 0 .. Whole(b) : (parse([b EXCEPT !.present = n]) = "Ok") <=> (n = Whole(b))

\* The opcodes of the guest are decoded in order, each once; a batch that is
\* lost or cut short is lost as a whole, never decoded in part.
OpcodesInOrder ==
  /\ \A i \in 1 .. Len(got.ops) - 1 : got.ops[i + 1].n = got.ops[i].n + 1
  /\ codec # "events" =>
       \A i \in 1 .. Len(wire) : \A k \in 1 .. Len(wire[i].ops) : wire[i].ops[k].n > taken
  /\ \A i \in 1 .. Len(wire) : CutRejected(wire[i])

\* The events of a batch are dispatched as they were sent, all and in order,
\* each with its own text.
EventsArrive == codec = "events" /\ wire = <<>> /\ typed # <<>> => dispatched = typed
=============================================================================
