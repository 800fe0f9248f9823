---------------------------- MODULE Remote_proofs ----------------------------
(* Proofs about what goes between an application and a renderer apart from it. *)
(* Of BatchLink, for every set of codecs and texts, every length of the        *)
(* entries, every number of opcodes, batches and events.  Of Navigation, for   *)
(* every set of routes: the two page stacks agree when all is handled.         *)
EXTENDS BatchLink, Navigation, ListFacts

-----------------------------------------------------------------------------
(* What the variables hold while opcodes go from guest to host.              *)

Cell == Texts \union {Blank}

Opcode == [cmd : {"text", "reset"}, ref : Nat, text : Cell, n : Nat, epoch : Nat]

Message == [ops : Seq(Opcode), delta : Seq(Cell), magic : {TRUE}, version : {TRUE},
            present : Nat, epoch : Nat, masked : BOOLEAN]

\* A complete frame.
Complete == [ops : Seq(Opcode), section : Seq(Cell)]

\* The types of the variables; a batch of events is the subject of EventsInv.
LinkTypeOK ==
  /\ codec \in Codecs
  /\ arena \in Seq(Cell) /\ epoch \in Nat /\ pushed \in Nat /\ frame \in Seq(Opcode)
  /\ ready \in Seq(Complete)
  /\ lastLen \in Nat /\ buffer \in Seq(Opcode) /\ pending \in Seq(Cell)
  /\ seen \in Nat /\ masked \in BOOLEAN
  /\ codec # "events" => wire \in Seq(Message)
  /\ mirror \in Seq(Cell) /\ taken \in Nat /\ broken \in BOOLEAN
  /\ got \in [ops : Seq(Opcode), read : Seq(Cell), epoch : Nat, masked : BOOLEAN]

LEMMA OpcodeType ==
  ASSUME NEW cmds \in Seq(Opcode), NEW i \in 1 .. Len(cmds)
  PROVE  /\ cmds[i] \in Opcode /\ cmds[i].cmd \in {"text", "reset"}
         /\ cmds[i].ref \in Nat /\ cmds[i].n \in Nat /\ cmds[i].epoch \in Nat
<1>1. cmds[i] \in Opcode OBVIOUS
<1>2. QED BY <1>1 DEF Opcode

\* An entry begins with its text.
LEMMA EntryCellsFit ==
  ASSUME NEW t \in Texts
  PROVE  /\ Entry(t) \in Seq(Cell) /\ Len(Entry(t)) = EntryCells[t]
         /\ EntryCells[t] \in Nat \ {0} /\ Entry(t)[1] = t
<1>1. EntryCells[t] \in Nat \ {0} BY LinkAssumption
<1> DEFINE blanks == [k \in 1 .. EntryCells[t] - 1 |-> Blank]
<1>2. blanks \in Seq(Cell) /\ Len(blanks) = EntryCells[t] - 1
  BY <1>1 DEF Cell
<1>3. <<t>> \in Seq(Cell) /\ Len(<<t>>) = 1 /\ <<t>>[1] = t
  BY DEF Cell
<1>4. Entry(t) = <<t>> \o blanks BY DEF Entry
<1> HIDE DEF blanks
<1>5. QED BY <1>1, <1>2, <1>3, <1>4

\* The cell at offset ref, counted from 0, is c.
Found(ref, cells, c) == ref < Len(cells) /\ cells[ref + 1] = c

LEMMA FoundRead ==
  ASSUME NEW cells, NEW ref, NEW c, Found(ref, cells, c)
  PROVE  Read(cells, ref) = c
BY DEF Found, Read

\* What was found is found when cells are appended, at the same offset.
LEMMA FoundGrown ==
  ASSUME NEW cells \in Seq(Cell), NEW more \in Seq(Cell), NEW ref \in Nat, NEW c,
         Found(ref, cells, c)
  PROVE  Found(ref, cells \o more, c)
<1>1. ref + 1 \in 1 .. Len(cells) /\ cells[ref + 1] = c BY DEF Found
<1>2. Len(cells \o more) = Len(cells) + Len(more) /\ Len(more) \in Nat OBVIOUS
<1>3. (cells \o more)[ref + 1] = c BY <1>1
<1>4. QED BY <1>1, <1>2, <1>3 DEF Found

\* The text of an entry is found at the offset where the cells ended.
LEMMA FoundNew ==
  ASSUME NEW cells \in Seq(Cell), NEW t \in Texts
  PROVE  Found(Len(cells), cells \o Entry(t), t)
<1> DEFINE entry == Entry(t)
<1>1. entry \in Seq(Cell) /\ 1 \in 1 .. Len(entry) /\ entry[1] = t BY EntryCellsFit
<1> HIDE DEF entry
<1>2. /\ Len(cells \o entry) = Len(cells) + Len(entry) /\ Len(cells) \in Nat
      /\ (cells \o entry)[Len(cells) + 1] = entry[1]
  BY <1>1
<1>3. Found(Len(cells), cells \o entry, t) BY <1>1, <1>2 DEF Found
<1>4. QED BY <1>3 DEF entry

\* The rest of a list of cells.
LEMMA FromType ==
  ASSUME NEW cells \in Seq(Cell), NEW len \in Nat
  PROVE  From(cells, len) \in Seq(Cell)
BY DEF From

\* What is taken from the complete frames.
LEMMA NextFrameType ==
  ASSUME LinkTypeOK
  PROVE  /\ NextFrame.ops \in Seq(Opcode) /\ NextFrame.section \in Seq(Cell)
         /\ ready # <<>> => /\ NextFrame = ready[1]
                            /\ Tail(ready) \in Seq(Complete)
<1>1. CASE ready = <<>> BY <1>1 DEF NextFrame
<1>2. CASE ready # <<>>
  <2>1. ready[1] \in Complete /\ Head(ready) = ready[1]
    BY <1>2 DEF LinkTypeOK
  <2>2. Tail(ready) \in Seq(Complete)
    BY <1>2 DEF LinkTypeOK
  <2>3. NextFrame = ready[1] BY <2>1, <1>2 DEF NextFrame
  <2>4. QED BY <2>1, <2>2, <2>3 DEF Complete
<1>3. QED BY <1>1, <1>2

\* A batch that is encoded is whole.
LEMMA EncodedType ==
  ASSUME LinkTypeOK, NEW cmds \in Seq(Opcode), NEW delta \in Seq(Cell)
  PROVE  encode_batch(cmds, delta) \in Message
BY DEF LinkTypeOK, encode_batch, Message, BATCH_HEADER, SIZE

LEMMA PushType ==
  ASSUME LinkTypeOK, NEW cmd \in {"text", "reset"}, NEW ref \in Nat, NEW text \in Cell,
         NEW ep \in Nat, PushOpcode(cmd, ref, text, ep)
  PROVE  pushed' \in Nat /\ frame' \in Seq(Opcode) /\ codec # "events"
<1> DEFINE op == [cmd |-> cmd, ref |-> ref, text |-> text, n |-> pushed + 1, epoch |-> ep]
<1>1. op \in Opcode BY DEF LinkTypeOK, Opcode
<1>2. frame' = Append(frame, op) /\ pushed' = pushed + 1 /\ codec # "events"
  BY DEF PushOpcode
<1> HIDE DEF op
<1>3. QED BY <1>1, <1>2 DEF LinkTypeOK

LEMMA SentType ==
  ASSUME LinkTypeOK, codec # "events", NEW b \in Message, Send(b)
  PROVE  wire' \in Seq(Message)
BY DEF LinkTypeOK, Send

LEMMA MirroredType ==
  ASSUME LinkTypeOK, NEW b \in Message
  PROVE  Mirrored(b) \in Seq(Cell) /\ Section(b) \in Seq(Cell)
<1>1. b.delta \in Seq(Cell) BY DEF Message
<1>2. (IF HasReset(b.ops) THEN <<>> ELSE mirror) \in Seq(Cell) BY DEF LinkTypeOK
<1>3. QED BY <1>1, <1>2 DEF Mirrored, Section

LEMMA ReadType ==
  ASSUME NEW cells \in Seq(Cell), NEW ref \in Nat
  PROVE  Read(cells, ref) \in Cell
<1>1. CASE ref < Len(cells)
  <2>1. ref + 1 \in 1 .. Len(cells) BY <1>1
  <2>2. cells[ref + 1] \in Cell BY <2>1
  <2>3. QED BY <1>1, <2>2 DEF Read
<1>2. CASE ~(ref < Len(cells)) BY <1>2 DEF Read, Cell
<1>3. QED BY <1>1, <1>2

\* A batch of opcodes that is decoded.
LEMMA DecodeType ==
  ASSUME LinkTypeOK, Decode
  PROVE  LinkTypeOK'
<1> DEFINE b == wire[1]
           texts == [i \in 1 .. Len(b.ops) |-> Read(Section(b), b.ops[i].ref)]
<1>1. codec # "events" /\ wire # <<>> /\ wire \in Seq(Message) /\ Head(wire) = b
  BY DEF Decode, LinkTypeOK
<1>2. b \in Message /\ Tail(wire) \in Seq(Message) BY <1>1
<1>3. b.ops \in Seq(Opcode) /\ b.epoch \in Nat /\ b.masked \in BOOLEAN BY <1>2 DEF Message
<1>4. Mirrored(b) \in Seq(Cell) /\ Section(b) \in Seq(Cell) BY <1>2, MirroredType
<1>5. texts \in Seq(Cell)
  <2>1. \A i \in 1 .. Len(b.ops) : Read(Section(b), b.ops[i].ref) \in Cell
    <3>1. TAKE i \in 1 .. Len(b.ops)
    <3>2. b.ops[i].ref \in Nat BY <1>3, OpcodeType
    <3>3. QED BY <3>2, <1>4, ReadType
  <2>2. QED BY <2>1, <1>3
<1>6. /\ mirror' = IF codec = "delta" THEN Mirrored(b) ELSE mirror
      /\ got' = [ops |-> b.ops, epoch |-> b.epoch, masked |-> b.masked, read |-> texts]
      /\ taken' = IF b.ops = <<>> THEN taken ELSE b.ops[Len(b.ops)].n
      /\ broken' = (broken /\ ~HasReset(b.ops))
      /\ wire' = Tail(wire)
      /\ UNCHANGED <<codec, events, guest, ready, producer>>
  BY <1>1 DEF Decode
<1> HIDE DEF b, texts
<1>7. mirror' \in Seq(Cell) /\ broken' \in BOOLEAN
  BY <1>4, <1>6 DEF LinkTypeOK
<1>8. taken' \in Nat
  <2>1. CASE b.ops = <<>> BY <2>1, <1>6 DEF LinkTypeOK
  <2>2. CASE b.ops # <<>>
    <3>1. b.ops[Len(b.ops)] \in Opcode BY <2>2, <1>3
    <3>2. QED BY <3>1, <2>2, <1>6 DEF Opcode
  <2>3. QED BY <2>1, <2>2
<1>9. got' \in [ops : Seq(Opcode), read : Seq(Cell), epoch : Nat, masked : BOOLEAN]
  BY <1>3, <1>5, <1>6
<1>10. QED BY <1>2, <1>6, <1>7, <1>8, <1>9 DEF LinkTypeOK, guest, producer, events

\* LinkTypeOK is kept by every step of guest, producers, consumer and events.
LEMMA LinkTypeStep ==
  ASSUME LinkTypeOK, [Next]_vars
  PROVE  LinkTypeOK'
<1> USE DEF guest, producer, consumer, events
<1>1. ASSUME NEW t \in Texts, SetText(t) PROVE LinkTypeOK'
  <2>1. t \in Cell /\ Len(arena) \in Nat BY DEF Cell, LinkTypeOK
  <2>2. PushOpcode("text", Len(arena), t, epoch) BY <1>1 DEF SetText
  <2>3. pushed' \in Nat /\ frame' \in Seq(Opcode)
    BY <2>1, <2>2, PushType DEF LinkTypeOK
  <2>4. arena' \in Seq(Cell) BY <1>1, EntryCellsFit DEF SetText, LinkTypeOK
  <2>5. QED BY <1>1, <2>3, <2>4 DEF SetText, LinkTypeOK
<1>2. ASSUME Reset PROVE LinkTypeOK'
  <2>1. Blank \in Cell /\ epoch + 1 \in Nat BY DEF Cell, LinkTypeOK
  <2>2. PushOpcode("reset", 0, Blank, epoch + 1) BY <1>2 DEF Reset
  <2>3. pushed' \in Nat /\ frame' \in Seq(Opcode) BY <2>1, <2>2, PushType
  <2>4. arena' \in Seq(Cell) BY <1>2 DEF Reset, LinkTypeOK
  <2>5. QED BY <1>2, <2>1, <2>3, <2>4 DEF Reset, LinkTypeOK
<1>3. ASSUME EndFrame PROVE LinkTypeOK'
  <2>1. [ops |-> frame, section |-> arena] \in Complete
    BY DEF LinkTypeOK, Complete
  <2>2. ready' = Append(ready, [ops |-> frame, section |-> arena]) BY <1>3 DEF EndFrame
  <2>3. ready' \in Seq(Complete)
    BY <2>1, <2>2 DEF LinkTypeOK
  <2>4. arena' \in Seq(Cell) /\ frame' \in Seq(Opcode) BY <1>3 DEF EndFrame, LinkTypeOK
  <2>5. QED BY <1>3, <2>3, <2>4 DEF EndFrame, LinkTypeOK
<1>4. ASSUME EncodeDelta PROVE LinkTypeOK'
  <2>1. Delta(NextFrame.ops, arena) \in Seq(Cell)
    BY FromType DEF Delta, LinkTypeOK
  <2>2. encode_batch(NextFrame.ops, Delta(NextFrame.ops, arena)) \in Message
    BY <2>1, NextFrameType, EncodedType
  <2>3. codec # "events" /\ wire' \in Seq(Message) BY <1>4, <2>2, SentType DEF EncodeDelta
  <2>4. lastLen' \in Nat BY <1>4 DEF EncodeDelta, LinkTypeOK
  <2>5. QED BY <1>4, <2>3, <2>4, NextFrameType DEF EncodeDelta, LinkTypeOK
<1>5. ASSUME NetPush PROVE LinkTypeOK'
  <2>1. buffer' \in Seq(Opcode) BY <1>5, NextFrameType DEF NetPush, LinkTypeOK
  <2>2. QED BY <1>5, <2>1, NextFrameType DEF NetPush, LinkTypeOK
<1>6. ASSUME NetEncode PROVE LinkTypeOK'
  <2>1. encode_batch(buffer, arena) \in Message BY EncodedType DEF LinkTypeOK
  <2>2. codec # "events" /\ wire' \in Seq(Message) BY <1>6, <2>1, SentType DEF NetEncode
  <2>3. QED BY <1>6, <2>2 DEF NetEncode, LinkTypeOK
<1>7. ASSUME BatcherPush PROVE LinkTypeOK'
  <2>1. \A len \in Nat : From(arena, len) \in Seq(Cell) BY FromType DEF LinkTypeOK
  <2>2. pending' \in Seq(Cell)
    <3>1. PICK last \in Nat :
            pending' = (IF Len(arena) < lastLen THEN <<>> ELSE pending) \o From(arena, last)
      BY <1>7 DEF BatcherPush, LinkTypeOK
    <3>2. (IF Len(arena) < lastLen THEN <<>> ELSE pending) \in Seq(Cell) BY DEF LinkTypeOK
    <3>3. QED BY <3>1, <3>2, <2>1
  <2>3. buffer' \in Seq(Opcode) /\ lastLen' \in Nat /\ seen' \in Nat /\ masked' \in BOOLEAN
    BY <1>7, NextFrameType DEF BatcherPush, LinkTypeOK
  <2>4. QED BY <1>7, <2>2, <2>3, NextFrameType DEF BatcherPush, LinkTypeOK
<1>8. ASSUME BatcherFlush PROVE LinkTypeOK'
  <2>1. encode_batch(buffer, pending) \in Message BY EncodedType DEF LinkTypeOK
  <2>2. codec # "events" /\ wire' \in Seq(Message) BY <1>8, <2>1, SentType DEF BatcherFlush
  <2>3. buffer' = <<>> /\ pending' = <<>> /\ lastLen' = 0 /\ masked' = FALSE
    BY <1>8 DEF BatcherFlush
  <2>4. buffer' \in Seq(Opcode) /\ pending' \in Seq(Cell) /\ lastLen' \in Nat
    BY <2>3
  <2>5. masked' \in BOOLEAN BY <2>3
  <2>6. /\ UNCHANGED <<codec, arena, epoch, pushed, frame, ready, seen>>
        /\ UNCHANGED <<mirror, got, taken, broken>>
    BY <1>8 DEF BatcherFlush
  <2>7. QED BY <2>2, <2>4, <2>5, <2>6 DEF LinkTypeOK
<1>9. ASSUME EncodeFrame PROVE LinkTypeOK'
  <2>1. encode_batch(NextFrame.ops, NextFrame.section) \in Message
    BY NextFrameType, EncodedType
  <2>2. codec # "events" /\ wire' \in Seq(Message) BY <1>9, <2>1, SentType DEF EncodeFrame
  <2>3. QED BY <1>9, <2>2, NextFrameType DEF EncodeFrame, LinkTypeOK
<1>10. ASSUME Decode PROVE LinkTypeOK'
  BY <1>10, DecodeType
<1>11. ASSUME NEW es \in BoundedSeq(Events, MaxEvents), HostSend(es) PROVE LinkTypeOK'
  BY <1>11 DEF HostSend, LinkTypeOK
<1>12. ASSUME GuestDispatch PROVE LinkTypeOK'
  BY <1>12 DEF GuestDispatch, LinkTypeOK
<1>13. ASSUME NEW n \in {BATCH_HEADER - 1, BATCH_HEADER}, NEW magic \in BOOLEAN,
              NEW version \in BOOLEAN, Reject(n, magic, version)
       PROVE  LinkTypeOK'
  <2>1. codec # "events" => wire' \in Seq(Message) BY <1>13 DEF Reject, LinkTypeOK
  <2>2. Nothing \in [ops : Seq(Opcode), read : Seq(Cell), epoch : Nat, masked : BOOLEAN]
    BY DEF Nothing
  <2>3. QED BY <1>13, <2>1, <2>2 DEF Reject, LinkTypeOK
<1>14. ASSUME UNCHANGED vars PROVE LinkTypeOK'
  BY <1>14 DEF vars, LinkTypeOK
<1>15. QED
  BY <1>1, <1>2, <1>3, <1>4, <1>5, <1>6, <1>7, <1>8, <1>9, <1>10, <1>11, <1>12, <1>13, <1>14
  DEF Next, Guest

-----------------------------------------------------------------------------
(* Events: what encode_events writes and decode_events reads.                *)

EventOp == [cmd : {"TextChanged", "NavigateUrl", "NavigateBack", "PointerUp"},
            target : {0, 1, 2}, ref : Nat]

Written == [ops : Seq(EventOp), delta : Seq(Cell)]

NothingWritten == [ops |-> <<>>, delta |-> <<>>]

\* e holds the first n events of es.
Holding(e, es, n) ==
  /\ e \in Written /\ Len(e.ops) = n
  /\ \A i \in 1 .. n : /\ e.ops[i].cmd = es[i].kind /\ e.ops[i].target = es[i].target
                       /\ HasText(es[i]) => Found(e.ops[i].ref, e.delta, es[i].text)

LEMMA EventsType ==
  ASSUME NEW ev \in Events
  PROVE  /\ ev = [kind |-> ev.kind, target |-> ev.target, text |-> ev.text]
         /\ ev.kind \in {"TextChanged", "NavigateUrl", "NavigateBack", "PointerUp"}
         /\ ev.target \in {0, 1, 2} /\ ev.text \in Cell
         /\ HasText(ev) <=> ev.text \in Texts
         /\ ~HasText(ev) => ev.text = Blank
BY LinkAssumption DEF Events, Cell, HasText

LEMMA AppendEventType ==
  ASSUME NEW e \in Written, NEW ev \in Events
  PROVE  AppendEvent(e, ev) \in Written
<1> DEFINE op == [cmd |-> ev.kind, target |-> ev.target,
                  ref |-> IF HasText(ev) THEN Len(e.delta) ELSE 0]
           delta == IF HasText(ev) THEN e.delta \o Entry(ev.text) ELSE e.delta
<1>1. e.ops \in Seq(EventOp) /\ e.delta \in Seq(Cell) BY DEF Written
<1>2. op \in EventOp BY <1>1, EventsType DEF EventOp
<1>3. delta \in Seq(Cell)
  <2>1. CASE HasText(ev)
    <3>1. Entry(ev.text) \in Seq(Cell) BY <2>1, EventsType, EntryCellsFit
    <3>2. QED BY <3>1, <2>1, <1>1
  <2>2. CASE ~HasText(ev) BY <2>2, <1>1
  <2>3. QED BY <2>1, <2>2
<1>4. AppendEvent(e, ev) = [ops |-> Append(e.ops, op), delta |-> delta] BY DEF AppendEvent
<1> HIDE DEF op, delta
<1>5. Append(e.ops, op) \in Seq(EventOp) BY <1>1, <1>2
<1>6. QED BY <1>3, <1>4, <1>5 DEF Written

\* One event more: its own text resolves, the others still do.
LEMMA OneMore ==
  ASSUME NEW N \in Nat, NEW es \in [1 .. N -> Events], NEW n \in 1 .. N, NEW e,
         Holding(e, es, n - 1)
  PROVE  Holding(AppendEvent(e, es[n]), es, n)
<1> DEFINE ev == es[n]
           f == AppendEvent(e, ev)
           op == [cmd |-> ev.kind, target |-> ev.target,
                  ref |-> IF HasText(ev) THEN Len(e.delta) ELSE 0]
<1>1. ev \in Events /\ e.ops \in Seq(EventOp) /\ e.delta \in Seq(Cell) /\ Len(e.ops) = n - 1
  BY DEF Holding, Written
<1>2. op \in EventOp BY <1>1, EventsType DEF EventOp
<1>3. f.ops = Append(e.ops, op) /\ f.delta = IF HasText(ev) THEN e.delta \o Entry(ev.text) ELSE e.delta
  BY DEF AppendEvent
<1>4. f \in Written BY <1>1, AppendEventType DEF Holding
<1>5. /\ Len(f.ops) = n /\ f.ops[n] = op
      /\ \A i \in 1 .. n - 1 : f.ops[i] = e.ops[i]
  BY <1>1, <1>2, <1>3
<1>6. ASSUME NEW c \in Cell, NEW ref \in Nat, Found(ref, e.delta, c)
      PROVE  Found(ref, f.delta, c)
  <2>1. CASE ~HasText(ev) BY <2>1, <1>3, <1>6
  <2>2. CASE HasText(ev)
    <3>1. Entry(ev.text) \in Seq(Cell) BY <2>2, <1>1, EventsType, EntryCellsFit
    <3>2. f.delta = e.delta \o Entry(ev.text) BY <2>2, <1>3
    <3> HIDE DEF f, ev
    <3>3. QED BY <3>1, <3>2, <1>1, <1>6, FoundGrown
  <2>3. QED BY <2>1, <2>2
<1>7. HasText(ev) => Found(op.ref, f.delta, ev.text)
  <2> SUFFICES ASSUME HasText(ev) PROVE Found(op.ref, f.delta, ev.text) OBVIOUS
  <2>1. op.ref = Len(e.delta) OBVIOUS
  <2>2. f.delta = e.delta \o Entry(ev.text) BY <1>3
  <2>3. ev.text \in Texts BY <1>1, EventsType
  <2> HIDE DEF f, op, ev
  <2>4. QED BY <2>1, <2>2, <2>3, <1>1, FoundNew
<1>8. ASSUME NEW i \in 1 .. n
      PROVE  /\ f.ops[i].cmd = es[i].kind /\ f.ops[i].target = es[i].target
             /\ HasText(es[i]) => Found(f.ops[i].ref, f.delta, es[i].text)
  <2>1. CASE i = n BY <2>1, <1>5, <1>7
  <2>2. CASE i \in 1 .. n - 1
    <3>1. /\ e.ops[i].cmd = es[i].kind /\ e.ops[i].target = es[i].target
          /\ HasText(es[i]) => Found(e.ops[i].ref, e.delta, es[i].text)
      BY <2>2 DEF Holding
    <3>2. e.ops[i] \in EventOp /\ es[i] \in Events BY <2>2, <1>1
    <3>3. es[i].text \in Cell /\ e.ops[i].ref \in Nat BY <3>2, EventsType DEF EventOp
    <3> HIDE DEF f
    <3>4. QED BY <3>1, <3>2, <3>3, <2>2, <1>5, <1>6
  <2>3. QED BY <2>1, <2>2
<1> HIDE DEF f, op, ev
<1>9. Holding(f, es, n) BY <1>4, <1>5, <1>8 DEF Holding
<1>10. QED BY <1>9 DEF f, ev

\* encode_events writes every event of es, in order.
LEMMA EncodeHolds ==
  ASSUME NEW N \in Nat, NEW es \in [1 .. N -> Events]
  PROVE  Holding(encode_events(es), es, N)
<1> DEFINE F == [k \in 1 .. N |-> [e \in Written |-> AppendEvent(e, es[k])]]
           Table(h) == h = [s \in SUBSET (1 .. N) |->
                              IF s = {} THEN NothingWritten
                              ELSE AppendEvent(h[s \ {Max(s)}], es[Max(s)])]
           h == CHOOSE h : Table(h)
           S == {n \in Nat : n <= N => Holding(h[1 .. n], es, n)}
<1>1. \E g : Table(g)
  <2>1. NothingWritten \in Written BY DEF NothingWritten, Written
  <2>2. ASSUME NEW k \in 1 .. N, NEW e \in Written PROVE AppendEvent(e, es[k]) \in Written
    BY <2>2, AppendEventType
  <2>3. F \in [1 .. N -> [Written -> Written]] BY <2>2
  <2>4. PICK g \in [SUBSET (1 .. N) -> Written] : FoldTable(g, NothingWritten, F, N)
    <3> HIDE DEF F
    <3>1. QED BY <2>1, <2>3, FoldTableExists
  <2>5. ASSUME NEW s \in SUBSET (1 .. N)
        PROVE  g[s] = IF s = {} THEN NothingWritten ELSE AppendEvent(g[s \ {Max(s)}], es[Max(s)])
    <3>1. g[s] = IF s = {} THEN NothingWritten ELSE F[Max(s)][g[s \ {Max(s)}]]
      BY <2>4 DEF FoldTable
    <3>2. CASE s = {} BY <3>1, <3>2
    <3>3. CASE s # {}
      <4>1. Max(s) \in s BY <3>3, MaxIs
      <4>2. Max(s) \in 1 .. N /\ g[s \ {Max(s)}] \in Written BY <4>1
      <4>3. QED BY <3>1, <3>3, <4>2
    <3>4. QED BY <3>2, <3>3
  <2>6. g = [s \in SUBSET (1 .. N) |-> g[s]] OBVIOUS
  <2>7. Table(g) BY <2>5, <2>6
  <2>8. QED BY <2>7
<1>2. Table(h) BY <1>1
<1>3. encode_events(es) = h[1 .. N]
  <2>1. DOMAIN es = 1 .. N OBVIOUS
  <2>2. QED BY <2>1 DEF encode_events, FoldLeft, MapThenFoldSet, NothingWritten
<1> HIDE DEF h
<1>4. 0 \in S
  <2>1. 1 .. 0 = {} /\ {} \in SUBSET (1 .. N) OBVIOUS
  <2>2. h[1 .. 0] = NothingWritten BY <2>1, <1>2
  <2>3. Holding(NothingWritten, es, 0) BY DEF Holding, NothingWritten, Written
  <2>4. QED BY <2>2, <2>3
<1>5. ASSUME NEW m \in Nat, m \in S PROVE m + 1 \in S
  <2> SUFFICES ASSUME m + 1 <= N PROVE Holding(h[1 .. m + 1], es, m + 1) OBVIOUS
  <2> DEFINE n == m + 1
  <2>1. n \in 1 .. N /\ n - 1 = m /\ n \in 1 .. n /\ n \in Nat OBVIOUS
  <2>2. Holding(h[1 .. n - 1], es, n - 1) BY <1>5
  <2>3. (1 .. n) \ {n} = 1 .. n - 1 OBVIOUS
  <2> HIDE DEF n
  <2>4. (1 .. n) \in SUBSET (1 .. N) /\ 1 .. n # {}
    <3>1. (1 .. n) \in SUBSET (1 .. N) BY <2>1
    <3>2. 1 .. n # {} BY <2>1
    <3>3. QED BY <3>1, <3>2
  <2>5. Max(1 .. n) = n
    <3>1. Max(1 .. n) \in 1 .. n /\ n <= Max(1 .. n) BY <2>1, <2>4, MaxIs
    <3>2. QED BY <3>1, <2>1
  <2>6. h[1 .. n] = AppendEvent(h[1 .. n - 1], es[n]) BY <2>3, <2>4, <2>5, <1>2
  <2>7. Holding(h[1 .. n], es, n) BY <2>1, <2>2, <2>6, OneMore
  <2>8. QED BY <2>7 DEF n
<1>6. Nat \subseteq S
  <2> HIDE DEF S
  <2>1. QED BY <1>4, <1>5, Inductive
<1>7. QED BY <1>3, <1>6

\* An opcode of a batch that holds es becomes the event it was made of.
LEMMA DecodeOne ==
  ASSUME NEW N \in Nat, NEW es \in [1 .. N -> Events], NEW b, NEW e, Holding(e, es, N),
         b.ops = e.ops, b.delta = e.delta, NEW k \in 1 .. N, NEW acc
  PROVE  KeepEvent(b, acc, b.ops[k]) = Append(acc, es[k])
<1> DEFINE op == b.ops[k]
           ev == es[k]
<1>1. op.cmd = ev.kind /\ op.target = ev.target /\ (HasText(ev) => Found(op.ref, b.delta, ev.text))
  BY DEF Holding
<1>2. ev \in Events OBVIOUS
<1> HIDE DEF op, ev
<1>3. Event(b, op) = [kind |-> ev.kind, target |-> ev.target, text |-> ev.text]
  <2>1. CASE HasText(ev)
    <3>1. Read(b.delta, op.ref) = ev.text BY <2>1, <1>1, FoundRead
    <3>2. QED BY <3>1, <2>1, <1>1 DEF Event, HasText
  <2>2. CASE ~HasText(ev)
    <3>1. ev.text = Blank BY <2>2, <1>2, EventsType
    <3>2. QED BY <3>1, <2>2, <1>1 DEF Event, HasText
  <2>3. QED BY <2>1, <2>2
<1>4. Event(b, op) = ev BY <1>2, <1>3, EventsType
<1>5. HasText(ev) => ev.text # Blank BY <1>2, EventsType, LinkAssumption
<1>6. KeepEvent(b, acc, op) = Append(acc, ev) BY <1>4, <1>5 DEF KeepEvent
<1>7. QED BY <1>6 DEF op, ev

\* decode_events finds in a batch the events it was made of, in order.
LEMMA DecodeHolds ==
  ASSUME NEW N \in Nat, NEW es \in [1 .. N -> Events], NEW b, NEW e, Holding(e, es, N),
         b.ops = e.ops, b.delta = e.delta
  PROVE  decode_events(b) = es
<1>0. \A k \in 1 .. N : \A acc : KeepEvent(b, acc, b.ops[k]) = Append(acc, es[k])
  BY DecodeOne
<1> DEFINE F == [k \in 1 .. N |-> [acc \in Seq(Events) |-> KeepEvent(b, acc, b.ops[k])]]
           Table(h) == h = [s \in SUBSET (1 .. N) |->
                              IF s = {} THEN <<>> ELSE KeepEvent(b, h[s \ {Max(s)}], b.ops[Max(s)])]
           h == CHOOSE h : Table(h)
           First(acc, n) == acc \in Seq(Events) /\ Len(acc) = n /\ \A i \in 1 .. n : acc[i] = es[i]
           S == {n \in Nat : n <= N => First(h[1 .. n], n)}
<1>a. b.ops \in Seq(EventOp) /\ Len(b.ops) = N BY DEF Holding, Written
<1>1. \E g : Table(g)
  <2>1. <<>> \in Seq(Events) OBVIOUS
  <2>2. ASSUME NEW k \in 1 .. N, NEW acc \in Seq(Events) PROVE KeepEvent(b, acc, b.ops[k]) \in Seq(Events)
    <3>1. KeepEvent(b, acc, b.ops[k]) = Append(acc, es[k]) BY <1>0
    <3>2. es[k] \in Events OBVIOUS
    <3>3. QED BY <3>1, <3>2
  <2>3. F \in [1 .. N -> [Seq(Events) -> Seq(Events)]] BY <2>2
  <2>4. PICK g \in [SUBSET (1 .. N) -> Seq(Events)] : FoldTable(g, <<>>, F, N)
    <3> HIDE DEF F
    <3>1. QED BY <2>1, <2>3, FoldTableExists
  <2>5. ASSUME NEW s \in SUBSET (1 .. N)
        PROVE  g[s] = IF s = {} THEN <<>> ELSE KeepEvent(b, g[s \ {Max(s)}], b.ops[Max(s)])
    <3>1. g[s] = IF s = {} THEN <<>> ELSE F[Max(s)][g[s \ {Max(s)}]]
      BY <2>4 DEF FoldTable
    <3>2. CASE s = {} BY <3>1, <3>2
    <3>3. CASE s # {}
      <4>1. Max(s) \in s BY <3>3, MaxIs
      <4>2. Max(s) \in 1 .. N /\ g[s \ {Max(s)}] \in Seq(Events) BY <4>1
      <4>3. QED BY <3>1, <3>3, <4>2
    <3>4. QED BY <3>2, <3>3
  <2>6. g = [s \in SUBSET (1 .. N) |-> g[s]] OBVIOUS
  <2>7. Table(g) BY <2>5, <2>6
  <2>8. QED BY <2>7
<1>2. Table(h) BY <1>1
<1>3. decode_events(b) = h[1 .. N]
  <2>1. DOMAIN b.ops = 1 .. N BY <1>a
  <2>2. QED BY <2>1 DEF decode_events, FoldLeft, MapThenFoldSet
<1> HIDE DEF h
<1>4. 0 \in S
  <2>1. 1 .. 0 = {} /\ {} \in SUBSET (1 .. N) OBVIOUS
  <2>2. h[1 .. 0] = <<>> BY <2>1, <1>2
  <2>3. First(<<>>, 0) OBVIOUS
  <2> HIDE DEF First
  <2>4. QED BY <2>2, <2>3
<1>5. ASSUME NEW m \in Nat, m \in S PROVE m + 1 \in S
  <2> SUFFICES ASSUME m + 1 <= N PROVE First(h[1 .. m + 1], m + 1) OBVIOUS
  <2> DEFINE n == m + 1
  <2>1. n \in 1 .. N /\ n - 1 = m /\ n \in 1 .. n /\ n \in Nat OBVIOUS
  <2>2. First(h[1 .. n - 1], n - 1) BY <1>5
  <2>3. (1 .. n) \ {n} = 1 .. n - 1 OBVIOUS
  <2> HIDE DEF n
  <2>4. (1 .. n) \in SUBSET (1 .. N) /\ 1 .. n # {}
    <3>1. (1 .. n) \in SUBSET (1 .. N) BY <2>1
    <3>2. 1 .. n # {} BY <2>1
    <3>3. QED BY <3>1, <3>2
  <2>5. Max(1 .. n) = n
    <3>1. Max(1 .. n) \in 1 .. n /\ n <= Max(1 .. n) BY <2>1, <2>4, MaxIs
    <3>2. QED BY <3>1, <2>1
  <2>6. h[1 .. n] = KeepEvent(b, h[1 .. n - 1], b.ops[n]) BY <2>3, <2>4, <2>5, <1>2
  <2>7. h[1 .. n] = Append(h[1 .. n - 1], es[n]) BY <2>1, <2>6, <1>0
  <2>8. es[n] \in Events BY <2>1
  <2>9. First(h[1 .. n], n) BY <2>1, <2>2, <2>7, <2>8
  <2>10. QED BY <2>9 DEF n
<1>6. Nat \subseteq S
  <2> HIDE DEF S
  <2>1. QED BY <1>4, <1>5, Inductive
<1>7. First(h[1 .. N], N) BY <1>6
<1>8. h[1 .. N] = es BY <1>7
<1>9. QED BY <1>3, <1>8

-----------------------------------------------------------------------------
(* What a batch is when it arrives.                                          *)

\* A batch of which every byte arrived.
IsWhole(b) ==
  \E cmds, delta, ep, m :
    /\ Len(cmds) \in Nat /\ Len(delta) \in Nat
    /\ b = [ops |-> cmds, delta |-> delta, magic |-> TRUE, version |-> TRUE,
            present |-> BATCH_HEADER + SIZE * Len(cmds) + 4 + Len(delta),
            epoch |-> ep, masked |-> m]

\* Such a batch parses as long as nothing is missing, and only then.
LEMMA WholeParses ==
  ASSUME NEW b, IsWhole(b)
  PROVE  parse(b) = "Ok" /\ CutRejected(b)
<1>1. PICK cmds, delta, ep, m :
        /\ Len(cmds) \in Nat /\ Len(delta) \in Nat
        /\ b = [ops |-> cmds, delta |-> delta, magic |-> TRUE, version |-> TRUE,
                present |-> BATCH_HEADER + SIZE * Len(cmds) + 4 + Len(delta),
                epoch |-> ep, masked |-> m]
  BY DEF IsWhole
<1> DEFINE o == Len(cmds)
           d == Len(delta)
<1>2. o \in Nat /\ d \in Nat /\ Whole(b) = 16 + 16 * o + 4 + d
  BY <1>1 DEF Whole, BATCH_HEADER, SIZE
<1>3. ASSUME NEW n \in Nat
      PROVE  parse([b EXCEPT !.present = n]) =
               IF n < 16 THEN "Truncated"
               ELSE IF 16 + 16 * o > n THEN "BadOpcodeCount"
               ELSE IF 16 + 16 * o + 4 > n \/ 16 + 16 * o + 4 + d > n THEN "BadArenaLen"
               ELSE "Ok"
  <2> DEFINE c == [b EXCEPT !.present = n]
  <2>1. c.present = n /\ c.magic = TRUE /\ c.version = TRUE /\ c.ops = cmds /\ c.delta = delta
    BY <1>1
  <2> HIDE DEF c
  <2>2. parse(c) = IF n < 16 THEN "Truncated"
                   ELSE IF 16 + 16 * o > n THEN "BadOpcodeCount"
                   ELSE IF 16 + 16 * o + 4 > n \/ 16 + 16 * o + 4 + d > n THEN "BadArenaLen"
                   ELSE "Ok"
    BY <1>2, <2>1 DEF parse, BATCH_HEADER, SIZE
  <2>3. QED BY <2>2 DEF c
<1> HIDE DEF o, d
<1>4. CutRejected(b)
  <2>1. ASSUME NEW n \in 0 .. Whole(b)
        PROVE  (parse([b EXCEPT !.present = n]) = "Ok") <=> (n = Whole(b))
    <3>1. n \in Nat /\ n <= Whole(b) BY <1>2
    <3>2. QED BY <3>1, <1>2, <1>3
  <2>2. QED BY <2>1 DEF CutRejected
<1>5. parse(b) = "Ok"
  <2>1. Whole(b) \in Nat BY <1>2
  <2>2. [b EXCEPT !.present = Whole(b)] = b
    <3>1. b.present = Whole(b) BY <1>1 DEF Whole
    <3>2. [b EXCEPT !.present = b.present] = b BY <1>1
    <3>3. QED BY <3>1, <3>2
  <2>3. parse([b EXCEPT !.present = Whole(b)]) = "Ok" BY <2>1, <1>2, <1>3
  <2>4. QED BY <2>2, <2>3
<1>6. QED BY <1>4, <1>5
\* encode_batch makes whole batches.
LEMMA EncodedWhole ==
  ASSUME NEW cmds, NEW delta, Len(cmds) \in Nat, Len(delta) \in Nat
  PROVE  /\ IsWhole(encode_batch(cmds, delta))
         /\ encode_batch(cmds, delta).ops = cmds /\ encode_batch(cmds, delta).delta = delta
<1> DEFINE ep == IF codec = "batcher" THEN seen ELSE epoch
           b == encode_batch(cmds, delta)
<1>1. b = [ops |-> cmds, delta |-> delta, magic |-> TRUE, version |-> TRUE,
           present |-> BATCH_HEADER + SIZE * Len(cmds) + 4 + Len(delta),
           epoch |-> ep, masked |-> masked]
  BY DEF encode_batch
<1> HIDE DEF ep, b
<1>2. IsWhole(b)
  <2> SUFFICES \E o, d, p, m :
                 /\ Len(o) \in Nat /\ Len(d) \in Nat
                 /\ b = [ops |-> o, delta |-> d, magic |-> TRUE, version |-> TRUE,
                         present |-> BATCH_HEADER + SIZE * Len(o) + 4 + Len(d),
                         epoch |-> p, masked |-> m]
    BY DEF IsWhole
  <2> WITNESS cmds, delta, ep, masked
  <2>1. QED BY <1>1
<1>3. b.ops = cmds /\ b.delta = delta BY <1>1
<1>4. QED BY <1>2, <1>3 DEF b

\* b is the batch of the events es.
Carries(b, es) ==
  /\ IsWhole(b)
  /\ \E N \in Nat : /\ es \in [1 .. N -> Events]
                    /\ \E e : Holding(e, es, N) /\ b.ops = e.ops /\ b.delta = e.delta

\* Between host and guest: one batch is under way, and carries what was typed, or
\* what was typed has been dispatched.  No opcode is pushed, none is decoded.
EventsInv ==
  codec = "events" =>
    /\ got = Nothing /\ frame = <<>>
    /\ \/ wire = <<>> /\ (typed = <<>> \/ dispatched = typed)
       \/ \E b : wire = <<b>> /\ Carries(b, typed)

LEMMA EncodedCarries ==
  ASSUME NEW es \in BoundedSeq(Events, MaxEvents)
  PROVE  Carries(encode_batch(encode_events(es).ops, encode_events(es).delta), es)
<1>1. PICK N \in Nat : es \in [1 .. N -> Events]
  <2>1. es \in UNION {[1 .. m -> Events] : m \in 0 .. MaxEvents} BY DEF BoundedSeq, SeqOf
  <2>2. PICK m \in 0 .. MaxEvents : es \in [1 .. m -> Events] BY <2>1
  <2>3. QED BY <2>2
<1>2. Holding(encode_events(es), es, N) BY <1>1, EncodeHolds
<1> DEFINE e == encode_events(es)
           b == encode_batch(e.ops, e.delta)
<1> HIDE DEF e
<1>3. e.ops \in Seq(EventOp) /\ e.delta \in Seq(Cell) BY <1>2 DEF Holding, Written, e
<1>4. IsWhole(b) /\ b.ops = e.ops /\ b.delta = e.delta
  <2>1. Len(e.ops) \in Nat /\ Len(e.delta) \in Nat BY <1>3
  <2>2. QED BY <2>1, EncodedWhole
<1> HIDE DEF b
<1>5. Holding(e, es, N) BY <1>2 DEF e
<1>6. Carries(b, es) BY <1>1, <1>4, <1>5 DEF Carries
<1>7. QED BY <1>6 DEF b, e

LEMMA EventsStep ==
  ASSUME EventsInv, [Next]_vars
  PROVE  EventsInv'
<1> SUFFICES ASSUME codec' = "events" PROVE EventsInv' BY DEF EventsInv
<1> USE DEF guest, producer, consumer, events
<1>0. codec' = codec
  BY DEF Next, Guest, SetText, Reset, EndFrame, EncodeDelta, NetPush, NetEncode, BatcherPush,
         BatcherFlush, EncodeFrame, Decode, HostSend, GuestDispatch, Reject, vars
<1>1. codec = "events" /\ got = Nothing /\ frame = <<>> BY <1>0 DEF EventsInv
<1>2. CASE wire = <<>> /\ (typed = <<>> \/ dispatched = typed)
  <2>1. ASSUME NEW es \in BoundedSeq(Events, MaxEvents), HostSend(es) PROVE EventsInv'
    <3>1. wire' = <<encode_batch(encode_events(es).ops, encode_events(es).delta)>> /\ typed' = es
      BY <2>1 DEF HostSend
    <3>2. Carries(encode_batch(encode_events(es).ops, encode_events(es).delta), es)
      BY EncodedCarries
    <3>3. got' = Nothing /\ frame' = <<>> BY <2>1, <1>1 DEF HostSend
    <3>4. QED BY <3>1, <3>2, <3>3, <1>1 DEF EventsInv
  <2>2. CASE UNCHANGED vars BY <2>2, <1>1, <1>2 DEF vars, EventsInv
  <2>3. QED
    BY <2>1, <2>2, <1>1, <1>2
    DEF Next, Guest, SetText, Reset, PushOpcode, EndFrame, EncodeDelta, NetPush, NetEncode,
        BatcherPush, BatcherFlush, EncodeFrame, Decode, GuestDispatch, Reject
<1>3. CASE \E b : wire = <<b>> /\ Carries(b, typed)
  <2>1. PICK b : wire = <<b>> /\ Carries(b, typed) BY <1>3
  <2>2. wire # <<>> /\ Head(wire) = b /\ Tail(wire) = <<>> BY <2>1
  <2>3. ASSUME GuestDispatch PROVE EventsInv'
    <3>1. decode_events(b) = typed
      <4>1. PICK N \in Nat : \E e : /\ typed \in [1 .. N -> Events] /\ Holding(e, typed, N)
                                    /\ b.ops = e.ops /\ b.delta = e.delta
        BY <2>1 DEF Carries
      <4>2. PICK e : /\ typed \in [1 .. N -> Events] /\ Holding(e, typed, N)
                     /\ b.ops = e.ops /\ b.delta = e.delta
        BY <4>1
      <4>3. QED BY <4>2, DecodeHolds
    <3>2. wire' = <<>> /\ dispatched' = decode_events(b) BY <2>2, <2>3 DEF GuestDispatch
    <3>3. UNCHANGED <<typed, frame, got>> BY <2>3 DEF GuestDispatch
    <3>4. QED BY <3>1, <3>2, <3>3, <1>1 DEF EventsInv
  <2>4. ASSUME NEW n \in {BATCH_HEADER - 1, BATCH_HEADER}, NEW magic \in BOOLEAN,
               NEW version \in BOOLEAN, Reject(n, magic, version)
        PROVE  EventsInv'
    <3>1. wire' = <<>> /\ typed' = <<>> /\ got' = Nothing /\ frame' = frame
      BY <2>2, <2>4 DEF Reject
    <3>2. QED BY <3>1, <1>1 DEF EventsInv
  <2>5. CASE UNCHANGED vars BY <2>5, <1>1, <1>3 DEF vars, EventsInv
  <2>6. QED
    BY <2>2, <2>3, <2>4, <2>5, <1>1
    DEF Next, Guest, SetText, Reset, PushOpcode, EndFrame, EncodeDelta, NetPush, NetEncode,
        BatcherPush, BatcherFlush, EncodeFrame, Decode, HostSend
<1>4. QED BY <1>1, <1>2, <1>3 DEF EventsInv

\* EventsArrive is an invariant: whatever the events of a batch are, the guest
\* dispatches them all, in order, each with its own text (batch.rs,
\* encode_events and decode_events).
THEOREM EventsRight == Spec => []EventsArrive
<1>1. Init => EventsInv
  BY DEF Init, EventsInv
<1>2. EventsInv /\ [Next]_vars => EventsInv'
  BY EventsStep
<1>3. EventsInv => EventsArrive
  BY DEF EventsInv, EventsArrive
<1>4. QED BY <1>1, <1>2, <1>3, PTL DEF Spec

-----------------------------------------------------------------------------
(* The numbers of the opcodes on their way from guest to host.               *)

\* Opcodes with consecutive numbers, and the number of the last.
Counted(cmds) == \A k \in 1 .. Len(cmds) : cmds[k].n = cmds[1].n + k - 1
End(cmds) == cmds[Len(cmds)].n

\* Opcodes in frames that are complete, sent on or not.
Completed == pushed - Len(frame)

FrameInOrder ==
  /\ Completed \in Nat
  /\ \A k \in 1 .. Len(frame) : frame[k].n = Completed + k

\* The complete frames follow one another without a gap, up to the open one.
ReadyInOrder ==
  /\ \A j \in 1 .. Len(ready) :
       /\ ready[j].ops # <<>> /\ Counted(ready[j].ops)
       /\ End(ready[j].ops) <= Completed
  /\ \A i, j \in 1 .. Len(ready) : i < j => End(ready[i].ops) < ready[j].ops[1].n
  /\ \A j \in 2 .. Len(ready) : ready[j].ops[1].n = End(ready[j - 1].ops) + 1
  /\ ready # <<>> => End(ready[Len(ready)].ops) = Completed

\* The number of the first opcode that no producer has taken, and of the first
\* that none has sent.
NextReady == IF ready = <<>> THEN Completed + 1 ELSE ready[1].ops[1].n
NextSent == IF buffer = <<>> THEN NextReady ELSE buffer[1].n

BufferInOrder ==
  /\ Counted(buffer)
  /\ buffer # <<>> => End(buffer) + 1 = NextReady

\* What is on the wire was taken after what is decoded, before what is not sent.
WireInOrder ==
  /\ taken < NextSent
  /\ \A i \in 1 .. Len(wire) : Counted(wire[i].ops) /\ IsWhole(wire[i])
  /\ \A i \in 1 .. Len(wire) : \A k \in 1 .. Len(wire[i].ops) :
       taken < wire[i].ops[k].n /\ wire[i].ops[k].n < NextSent
  /\ \A i, j \in 1 .. Len(wire) : i < j =>
       \A k \in 1 .. Len(wire[i].ops), m \in 1 .. Len(wire[j].ops) :
         wire[i].ops[k].n < wire[j].ops[m].n

OrderInv ==
  codec # "events" =>
    FrameInOrder /\ ReadyInOrder /\ BufferInOrder /\ WireInOrder /\ Counted(got.ops)

\* The last of consecutive numbers.
LEMMA CountedEnd ==
  ASSUME NEW cmds \in Seq(Opcode), cmds # <<>>, Counted(cmds)
  PROVE  /\ Len(cmds) \in Nat \ {0} /\ cmds[1].n \in Nat /\ End(cmds) \in Nat
         /\ End(cmds) = cmds[1].n + Len(cmds) - 1
         /\ \A k \in 1 .. Len(cmds) : cmds[k].n \in Nat /\ cmds[1].n <= cmds[k].n /\ cmds[k].n <= End(cmds)
<1>1. Len(cmds) \in Nat \ {0} /\ 1 \in 1 .. Len(cmds) /\ Len(cmds) \in 1 .. Len(cmds) OBVIOUS
<1>2. \A k \in 1 .. Len(cmds) : cmds[k].n \in Nat BY OpcodeType
<1>3. \A k \in 1 .. Len(cmds) : cmds[k].n = cmds[1].n + k - 1 BY DEF Counted
<1>4. cmds[1].n \in Nat /\ End(cmds) = cmds[Len(cmds)].n BY <1>1, <1>2 DEF End
<1>5. End(cmds) = cmds[1].n + Len(cmds) - 1 /\ End(cmds) \in Nat BY <1>1, <1>2, <1>3, <1>4
<1>6. ASSUME NEW k \in 1 .. Len(cmds)
      PROVE  cmds[k].n \in Nat /\ cmds[1].n <= cmds[k].n /\ cmds[k].n <= End(cmds)
  <2>1. k \in Nat /\ 1 <= k /\ k <= Len(cmds) /\ cmds[k].n = cmds[1].n + k - 1 BY <1>1, <1>3
  <2>2. QED BY <2>1, <1>1, <1>4, <1>5
<1>7. QED BY <1>1, <1>4, <1>5, <1>6

\* A push to the open frame.
LEMMA PushOrder ==
  ASSUME LinkTypeOK, FrameInOrder, NEW cmd \in {"text", "reset"}, NEW ref \in Nat,
         NEW text \in Cell, NEW ep \in Nat, PushOpcode(cmd, ref, text, ep)
  PROVE  FrameInOrder' /\ Completed' = Completed
<1> DEFINE op == [cmd |-> cmd, ref |-> ref, text |-> text, n |-> pushed + 1, epoch |-> ep]
<1>1. op \in Opcode /\ op.n = pushed + 1 BY DEF LinkTypeOK, Opcode
<1>2. frame' = Append(frame, op) /\ pushed' = pushed + 1
  BY DEF PushOpcode
<1> HIDE DEF op
<1>3. /\ Len(frame') = Len(frame) + 1 /\ Len(frame) \in Nat /\ pushed \in Nat
      /\ \A k \in 1 .. Len(frame) : frame'[k] = frame[k]
      /\ frame'[Len(frame) + 1] = op
  BY <1>1, <1>2 DEF LinkTypeOK
<1>4. Completed' = Completed BY <1>2, <1>3 DEF Completed
<1>5. ASSUME NEW k \in 1 .. Len(frame') PROVE frame'[k].n = Completed + k
  <2>1. CASE k \in 1 .. Len(frame) BY <2>1, <1>3 DEF FrameInOrder
  <2>2. CASE k = Len(frame) + 1
    <3>1. Completed + k = pushed + 1 BY <2>2, <1>3 DEF Completed
    <3>2. QED BY <3>1, <2>2, <1>1, <1>3
  <2>3. QED BY <2>1, <2>2, <1>3
<1>6. QED BY <1>4, <1>5 DEF FrameInOrder

\* The open frame becomes the last of the complete ones.
LEMMA EndOrder ==
  ASSUME LinkTypeOK, FrameInOrder, ReadyInOrder, EndFrame
  PROVE  FrameInOrder' /\ ReadyInOrder' /\ NextReady' = NextReady
<1> DEFINE last == [ops |-> frame, section |-> arena]
           L == Len(ready)
<1>1. /\ frame \in Seq(Opcode) /\ frame # <<>> /\ pushed \in Nat /\ Len(frame) \in Nat \ {0}
      /\ ready \in Seq(Complete) /\ L \in Nat
  BY DEF LinkTypeOK, EndFrame
<1>2. last \in Complete /\ last.ops = frame BY <1>1 DEF LinkTypeOK, Complete
<1>3. ready' = Append(ready, last) /\ frame' = <<>> /\ pushed' = pushed BY DEF EndFrame
<1> HIDE DEF last
<1>4. /\ Len(ready') = L + 1 /\ ready'[L + 1] = last
      /\ \A j \in 1 .. L : ready'[j] = ready[j]
  BY <1>1, <1>2, <1>3
<1>5. Completed' = pushed /\ Completed \in Nat /\ Completed < pushed /\ Completed + Len(frame) = pushed
  BY <1>1, <1>3 DEF Completed, FrameInOrder
<1>6. Counted(frame) /\ frame[1].n = Completed + 1 /\ End(frame) = pushed
  <2>1. \A k \in 1 .. Len(frame) : frame[k].n = Completed + k BY DEF FrameInOrder
  <2>2. frame[1].n = Completed + 1 /\ frame[Len(frame)].n = Completed + Len(frame) BY <2>1, <1>1
  <2>3. Counted(frame) BY <2>1, <2>2, <1>5 DEF Counted
  <2>4. QED BY <2>2, <2>3, <1>5 DEF End
<1>7. FrameInOrder' BY <1>1, <1>3, <1>5 DEF FrameInOrder
<1>8. \A j \in 1 .. L :
        /\ ready[j].ops # <<>> /\ Counted(ready[j].ops) /\ End(ready[j].ops) \in Nat
        /\ End(ready[j].ops) <= Completed
  <2>0. \A j \in 1 .. L : ready[j] \in Complete BY <1>1
  <2>1. \A j \in 1 .. L : ready[j].ops \in Seq(Opcode) BY <2>0 DEF Complete
  <2>2. QED BY <2>1, CountedEnd DEF ReadyInOrder
<1>9. ReadyInOrder'
  <2>1. ASSUME NEW j \in 1 .. Len(ready')
        PROVE  /\ ready'[j].ops # <<>> /\ Counted(ready'[j].ops)
               /\ End(ready'[j].ops) <= Completed'
    <3>1. CASE j \in 1 .. L BY <3>1, <1>1, <1>4, <1>5, <1>8
    <3>2. CASE j = L + 1 BY <3>2, <1>1, <1>2, <1>4, <1>5, <1>6
    <3>3. QED BY <3>1, <3>2, <1>1, <1>4
  <2>2. ASSUME NEW i \in 1 .. Len(ready'), NEW j \in 1 .. Len(ready'), i < j
        PROVE  End(ready'[i].ops) < ready'[j].ops[1].n
    <3>1. CASE j \in 1 .. L BY <3>1, <2>2, <1>1, <1>4 DEF ReadyInOrder
    <3>2. CASE j = L + 1
      <4>1. i \in 1 .. L BY <3>2, <2>2, <1>1
      <4>2. End(ready[i].ops) < frame[1].n BY <4>1, <1>5, <1>6, <1>8
      <4>3. QED BY <4>1, <4>2, <3>2, <1>2, <1>4
    <3>3. QED BY <3>1, <3>2, <1>1, <1>4
  <2>3. ASSUME NEW j \in 2 .. Len(ready')
        PROVE  ready'[j].ops[1].n = End(ready'[j - 1].ops) + 1
    <3>1. CASE j \in 2 .. L
      <4>1. j - 1 \in 1 .. L /\ j \in 1 .. L BY <3>1, <1>1
      <4>2. QED BY <4>1, <3>1, <1>4 DEF ReadyInOrder
    <3>2. CASE j = L + 1 /\ L # 0
      <4>1. j - 1 = L /\ L \in 1 .. L /\ ready # <<>> BY <3>2, <1>1
      <4>2. End(ready[L].ops) = Completed BY <4>1 DEF ReadyInOrder
      <4>3. QED BY <4>1, <4>2, <3>2, <1>2, <1>4, <1>6
    <3>3. QED BY <3>1, <3>2, <1>1, <1>4
  <2>4. End(ready'[Len(ready')].ops) = Completed' BY <1>2, <1>4, <1>5, <1>6
  <2>5. QED BY <2>1, <2>2, <2>3, <2>4 DEF ReadyInOrder
<1>10. NextReady' = NextReady
  <2>1. ready' # <<>> BY <1>1, <1>4
  <2>2. CASE L = 0
    <3>1. ready = <<>> /\ ready'[1] = last BY <2>2, <1>1, <1>4
    <3>2. QED BY <2>1, <3>1, <1>2, <1>6 DEF NextReady
  <2>3. CASE L # 0
    <3>1. ready # <<>> /\ ready'[1] = ready[1] BY <2>3, <1>1, <1>4
    <3>2. QED BY <2>1, <3>1 DEF NextReady
  <2>4. QED BY <2>2, <2>3
<1>11. QED BY <1>7, <1>9, <1>10

\* A producer takes the first complete frame.
LEMMA TakeOrder ==
  ASSUME LinkTypeOK, ReadyInOrder, ready # <<>>, ready' = Tail(ready),
         pushed' = pushed, frame' = frame
  PROVE  /\ ReadyInOrder'
         /\ NextFrame.ops \in Seq(Opcode) /\ NextFrame.ops # <<>> /\ Counted(NextFrame.ops)
         /\ NextReady = NextFrame.ops[1].n /\ NextReady' = End(NextFrame.ops) + 1
<1> DEFINE L == Len(ready)
           first == ready[1].ops
<1>1. /\ ready \in Seq(Complete) /\ L \in Nat \ {0} /\ NextFrame.ops = first
      /\ first \in Seq(Opcode)
  BY NextFrameType DEF LinkTypeOK
<1>2. /\ Len(ready') = L - 1
      /\ \A j \in 1 .. L - 1 : ready'[j] = ready[j + 1] /\ j + 1 \in 1 .. L
  BY <1>1
<1>3. Completed' = Completed BY DEF Completed
<1>4. ReadyInOrder'
  <2>1. ASSUME NEW j \in 1 .. Len(ready')
        PROVE  /\ ready'[j].ops # <<>> /\ Counted(ready'[j].ops)
               /\ End(ready'[j].ops) <= Completed'
    BY <1>2, <1>3 DEF ReadyInOrder
  <2>2. ASSUME NEW i \in 1 .. Len(ready'), NEW j \in 1 .. Len(ready'), i < j
        PROVE  End(ready'[i].ops) < ready'[j].ops[1].n
    <3>1. i + 1 < j + 1 BY <2>2, <1>1, <1>2
    <3>2. QED BY <3>1, <1>2 DEF ReadyInOrder
  <2>3. ASSUME NEW j \in 2 .. Len(ready')
        PROVE  ready'[j].ops[1].n = End(ready'[j - 1].ops) + 1
    <3>1. j + 1 \in 2 .. L /\ j - 1 \in 1 .. L - 1 /\ j \in 1 .. L - 1 BY <1>1, <1>2
    <3>2. ready'[j] = ready[j + 1] /\ ready'[j - 1] = ready[j] BY <3>1, <1>2
    <3>3. ready[j + 1].ops[1].n = End(ready[j].ops) + 1 BY <3>1 DEF ReadyInOrder
    <3>4. QED BY <3>2, <3>3
  <2>4. ASSUME ready' # <<>> PROVE End(ready'[Len(ready')].ops) = Completed'
    <3>1. L - 1 \in 1 .. L - 1
      <4>1. Len(ready') # 0 BY <2>4, <1>1
      <4>2. QED BY <4>1, <1>1, <1>2
    <3>2. ready'[Len(ready')] = ready[L] BY <3>1, <1>1, <1>2
    <3>3. QED BY <3>2, <1>1, <1>3 DEF ReadyInOrder
  <2>5. QED BY <2>1, <2>2, <2>3, <2>4 DEF ReadyInOrder
<1>5. first # <<>> /\ Counted(first) /\ NextReady = first[1].n
  BY <1>1 DEF ReadyInOrder, NextReady
<1>6. NextReady' = End(first) + 1
  <2>1. CASE L = 1
    <3>1. ready' = <<>> BY <2>1, <1>1, <1>2
    <3>2. End(first) = Completed BY <2>1, <1>1 DEF ReadyInOrder
    <3>3. QED BY <3>1, <3>2, <1>3 DEF NextReady
  <2>2. CASE L # 1
    <3>0. 2 \in 2 .. L /\ 1 \in 1 .. L - 1 /\ Len(ready') # 0 BY <2>2, <1>1, <1>2
    <3>1. 2 \in 2 .. L /\ 1 \in 1 .. L - 1 /\ ready' # <<>> BY <3>0
    <3>2. ready'[1] = ready[2] BY <3>1, <1>2
    <3>3. ready[2].ops[1].n = End(ready[1].ops) + 1 BY <3>1 DEF ReadyInOrder
    <3>4. QED BY <3>1, <3>2, <3>3 DEF NextReady
  <2>3. QED BY <2>1, <2>2
<1>7. QED BY <1>1, <1>4, <1>5, <1>6

\* Where the numbers begin that no producer has taken, and none has sent.
LEMMA NextType ==
  ASSUME LinkTypeOK, FrameInOrder, ReadyInOrder, BufferInOrder
  PROVE  NextReady \in Nat /\ NextSent \in Nat /\ NextSent <= NextReady
<1>1. NextReady \in Nat
  <2>1. CASE ready = <<>> BY <2>1 DEF NextReady, FrameInOrder
  <2>2. CASE ready # <<>>
    <3>1. ready[1].ops \in Seq(Opcode) BY <2>2, NextFrameType
    <3>2. 1 \in 1 .. Len(ready) BY <2>2 DEF LinkTypeOK
    <3>3. ready[1].ops # <<>> /\ Counted(ready[1].ops) BY <3>2 DEF ReadyInOrder
    <3>4. QED BY <2>2, <3>1, <3>3, CountedEnd DEF NextReady
  <2>3. QED BY <2>1, <2>2
<1>2. CASE buffer = <<>> BY <1>1, <1>2 DEF NextSent
<1>3. CASE buffer # <<>>
  <2>1. buffer \in Seq(Opcode) BY DEF LinkTypeOK
  <2>2. buffer[1].n \in Nat /\ End(buffer) \in Nat /\ buffer[1].n <= End(buffer)
    <3>1. 1 \in 1 .. Len(buffer) BY <1>3, <2>1
    <3>2. QED BY <1>3, <2>1, <3>1, CountedEnd DEF BufferInOrder
  <2>3. End(buffer) + 1 = NextReady BY <1>3 DEF BufferInOrder
  <2>4. QED BY <1>1, <1>3, <2>2, <2>3 DEF NextSent
<1>4. QED BY <1>2, <1>3

\* A batch is sent whose opcodes none has sent.
LEMMA SendOrder ==
  ASSUME LinkTypeOK, codec # "events", WireInOrder, NEW b \in Message, Send(b),
         IsWhole(b), Counted(b.ops), taken' = taken,
         NextSent \in Nat, NextSent' \in Nat, NextSent <= NextSent',
         \A k \in 1 .. Len(b.ops) : NextSent <= b.ops[k].n /\ b.ops[k].n < NextSent'
  PROVE  WireInOrder'
<1> DEFINE L == Len(wire)
<1>1. wire \in Seq(Message) /\ L \in Nat /\ taken \in Nat /\ wire' = Append(wire, b)
  BY DEF LinkTypeOK, Send
<1>2. /\ Len(wire') = L + 1 /\ wire'[L + 1] = b
      /\ \A i \in 1 .. L : wire'[i] = wire[i]
  BY <1>1
<1>3. b.ops \in Seq(Opcode) /\ \A i \in 1 .. L : wire[i].ops \in Seq(Opcode)
  <2>1. \A i \in 1 .. L : wire[i] \in Message BY <1>1
  <2>2. QED BY <2>1 DEF Message
<1>4. /\ \A k \in 1 .. Len(b.ops) : b.ops[k].n \in Nat
      /\ \A i \in 1 .. L : \A k \in 1 .. Len(wire[i].ops) : wire[i].ops[k].n \in Nat
  BY <1>3, OpcodeType
<1>5. /\ taken < NextSent
      /\ \A i \in 1 .. L : Counted(wire[i].ops) /\ IsWhole(wire[i])
      /\ \A i \in 1 .. L : \A k \in 1 .. Len(wire[i].ops) :
           taken < wire[i].ops[k].n /\ wire[i].ops[k].n < NextSent
  BY DEF WireInOrder
<1>6. taken' < NextSent' BY <1>1, <1>5
<1>7. ASSUME NEW i \in 1 .. Len(wire') PROVE Counted(wire'[i].ops) /\ IsWhole(wire'[i])
  <2>1. CASE i \in 1 .. L BY <2>1, <1>2, <1>5
  <2>2. CASE i = L + 1 BY <2>2, <1>2
  <2>3. QED BY <2>1, <2>2, <1>1, <1>2
<1>8. ASSUME NEW i \in 1 .. Len(wire'), NEW k \in 1 .. Len(wire'[i].ops)
      PROVE  taken' < wire'[i].ops[k].n /\ wire'[i].ops[k].n < NextSent'
  <2>1. CASE i \in 1 .. L
    <3>1. wire'[i] = wire[i] /\ k \in 1 .. Len(wire[i].ops) BY <2>1, <1>2
    <3>2. taken < wire[i].ops[k].n /\ wire[i].ops[k].n < NextSent /\ wire[i].ops[k].n \in Nat
      BY <2>1, <3>1, <1>4, <1>5
    <3>3. QED BY <3>1, <3>2
  <2>2. CASE i = L + 1
    <3>1. wire'[i] = b /\ k \in 1 .. Len(b.ops) BY <2>2, <1>2
    <3>2. NextSent <= b.ops[k].n /\ b.ops[k].n < NextSent' /\ b.ops[k].n \in Nat BY <3>1, <1>4
    <3>3. QED BY <3>1, <3>2, <1>1, <1>5
  <2>3. QED BY <2>1, <2>2, <1>1, <1>2
<1>9. ASSUME NEW i \in 1 .. Len(wire'), NEW j \in 1 .. Len(wire'), i < j,
             NEW k \in 1 .. Len(wire'[i].ops), NEW m \in 1 .. Len(wire'[j].ops)
      PROVE  wire'[i].ops[k].n < wire'[j].ops[m].n
  <2>1. CASE j \in 1 .. L
    <3>1. i \in 1 .. L BY <2>1, <1>9, <1>1
    <3>2. wire'[i] = wire[i] /\ wire'[j] = wire[j] BY <2>1, <3>1, <1>2
    <3>3. k \in 1 .. Len(wire[i].ops) /\ m \in 1 .. Len(wire[j].ops) BY <3>2
    <3>4. wire[i].ops[k].n < wire[j].ops[m].n BY <2>1, <3>1, <3>3, <1>9 DEF WireInOrder
    <3>5. QED BY <3>2, <3>4
  <2>2. CASE j = L + 1
    <3>1. i \in 1 .. L BY <2>2, <1>9, <1>1, <1>2
    <3>2. wire'[i] = wire[i] /\ wire'[j] = b BY <2>2, <3>1, <1>2
    <3>3. k \in 1 .. Len(wire[i].ops) /\ m \in 1 .. Len(b.ops) BY <3>2
    <3>4. wire[i].ops[k].n < NextSent /\ wire[i].ops[k].n \in Nat BY <3>1, <3>3, <1>4, <1>5
    <3>5. NextSent <= b.ops[m].n /\ b.ops[m].n \in Nat BY <3>3, <1>4
    <3>6. QED BY <3>2, <3>4, <3>5
  <2>3. QED BY <2>1, <2>2, <1>1, <1>2
<1>10. QED BY <1>6, <1>7, <1>8, <1>9 DEF WireInOrder

\* The first batch is gone, decoded or refused.
LEMMA ReceiveOrder ==
  ASSUME LinkTypeOK, codec # "events", WireInOrder, wire # <<>>, wire' = Tail(wire),
         NextSent \in Nat, NextSent' = NextSent,
         \/ taken' = taken
         \/ wire[1].ops # <<>> /\ taken' = wire[1].ops[Len(wire[1].ops)].n
  PROVE  WireInOrder'
<1> DEFINE L == Len(wire)
           b == wire[1]
<1>1. wire \in Seq(Message) /\ L \in Nat \ {0} /\ taken \in Nat
  BY DEF LinkTypeOK
<1>2. /\ Len(wire') = L - 1
      /\ \A i \in 1 .. L - 1 : wire'[i] = wire[i + 1] /\ i + 1 \in 1 .. L /\ 1 < i + 1
  BY <1>1
<1>3. b.ops \in Seq(Opcode) /\ 1 \in 1 .. L
  <2>1. b \in Message /\ 1 \in 1 .. L BY <1>1
  <2>2. QED BY <2>1 DEF Message
<1>4. \/ taken' = taken
      \/ \E k \in 1 .. Len(b.ops) : taken' = b.ops[k].n
  <2>1. ASSUME b.ops # <<>> PROVE Len(b.ops) \in 1 .. Len(b.ops) BY <2>1, <1>3
  <2>2. QED BY <2>1
<1>5. taken' < NextSent'
  BY <1>3, <1>4 DEF WireInOrder
<1>6. ASSUME NEW i \in 1 .. Len(wire') PROVE Counted(wire'[i].ops) /\ IsWhole(wire'[i])
  BY <1>2 DEF WireInOrder
<1>7. ASSUME NEW i \in 1 .. Len(wire'), NEW k \in 1 .. Len(wire'[i].ops)
      PROVE  taken' < wire'[i].ops[k].n /\ wire'[i].ops[k].n < NextSent'
  <2>1. /\ wire'[i] = wire[i + 1] /\ i + 1 \in 1 .. L /\ 1 < i + 1
        /\ k \in 1 .. Len(wire[i + 1].ops)
    BY <1>2
  <2>2. taken < wire[i + 1].ops[k].n /\ wire[i + 1].ops[k].n < NextSent
    BY <2>1 DEF WireInOrder
  <2>3. \A l \in 1 .. Len(b.ops) : b.ops[l].n < wire[i + 1].ops[k].n
    BY <2>1, <1>3 DEF WireInOrder
  <2>4. QED BY <2>1, <2>2, <2>3, <1>4
<1>8. ASSUME NEW i \in 1 .. Len(wire'), NEW j \in 1 .. Len(wire'), i < j,
             NEW k \in 1 .. Len(wire'[i].ops), NEW m \in 1 .. Len(wire'[j].ops)
      PROVE  wire'[i].ops[k].n < wire'[j].ops[m].n
  <2>1. /\ wire'[i] = wire[i + 1] /\ i + 1 \in 1 .. L /\ wire'[j] = wire[j + 1] /\ j + 1 \in 1 .. L
        /\ i + 1 < j + 1
    BY <1>2, <1>8
  <2>2. k \in 1 .. Len(wire[i + 1].ops) /\ m \in 1 .. Len(wire[j + 1].ops) BY <2>1
  <2>3. QED BY <2>1, <2>2 DEF WireInOrder
<1>9. QED BY <1>5, <1>6, <1>7, <1>8 DEF WireInOrder

\* The opcodes of a frame are buffered.
LEMMA GatherOrder ==
  ASSUME LinkTypeOK, FrameInOrder, ReadyInOrder, BufferInOrder, ready # <<>>,
         ready' = Tail(ready), pushed' = pushed, frame' = frame,
         buffer' = buffer \o NextFrame.ops
  PROVE  BufferInOrder' /\ NextSent' = NextSent
<1> DEFINE cmds == NextFrame.ops
<1>1. /\ cmds \in Seq(Opcode) /\ cmds # <<>> /\ Counted(cmds)
      /\ NextReady = cmds[1].n /\ NextReady' = End(cmds) + 1
  BY TakeOrder
<1>2. buffer \in Seq(Opcode) /\ Counted(buffer) BY DEF LinkTypeOK, BufferInOrder
<1> HIDE DEF cmds
<1>3. buffer' = buffer \o cmds BY DEF cmds
<1>4. /\ Len(buffer') = Len(buffer) + Len(cmds) /\ Len(buffer) \in Nat /\ Len(cmds) \in Nat \ {0}
      /\ \A k \in 1 .. Len(buffer) : buffer'[k] = buffer[k]
      /\ \A k \in 1 .. Len(cmds) : buffer'[Len(buffer) + k] = cmds[k]
  BY <1>1, <1>2, <1>3
<1>5. End(cmds) = cmds[1].n + Len(cmds) - 1 /\ cmds[1].n \in Nat BY <1>1, CountedEnd
<1>6. buffer' # <<>> /\ End(buffer') + 1 = NextReady'
  <2>1. buffer'[Len(buffer')] = cmds[Len(cmds)] BY <1>4
  <2>2. Len(buffer') # 0 BY <1>4
  <2>3. buffer' # <<>> BY <2>2
  <2>4. QED BY <2>1, <2>3, <1>1 DEF End
<1>7. CASE buffer = <<>>
  <2>1. buffer' = cmds BY <1>7, <1>1, <1>3
  <2>2. Counted(buffer') BY <2>1, <1>1
  <2>3. NextSent' = NextSent BY <2>1, <1>1, <1>7 DEF NextSent
  <2>4. QED BY <2>2, <2>3, <1>6 DEF BufferInOrder
<1>8. CASE buffer # <<>>
  <2>1. /\ End(buffer) = buffer[1].n + Len(buffer) - 1 /\ buffer[1].n \in Nat
        /\ Len(buffer) \in Nat \ {0}
    BY <1>2, <1>8, CountedEnd
  <2>2. cmds[1].n = buffer[1].n + Len(buffer) BY <2>1, <1>1, <1>5, <1>8 DEF BufferInOrder
  <2>3. buffer'[1] = buffer[1] BY <2>1, <1>4
  <2>4. ASSUME NEW k \in 1 .. Len(buffer') PROVE buffer'[k].n = buffer'[1].n + k - 1
    <3>1. CASE k \in 1 .. Len(buffer) BY <3>1, <2>3, <1>2, <1>4 DEF Counted
    <3>2. CASE k \notin 1 .. Len(buffer)
      <4>1. k - Len(buffer) \in 1 .. Len(cmds) /\ Len(buffer) + (k - Len(buffer)) = k
        BY <3>2, <1>4
      <4>2. buffer'[k] = cmds[k - Len(buffer)] BY <4>1, <1>4
      <4>3. cmds[k - Len(buffer)].n = cmds[1].n + (k - Len(buffer)) - 1 BY <4>1, <1>1 DEF Counted
      <4>4. QED BY <4>1, <4>2, <4>3, <2>1, <2>2, <2>3
    <3>3. QED BY <3>1, <3>2
  <2>5. NextSent' = NextSent BY <1>6, <1>8, <2>3 DEF NextSent
  <2>6. QED BY <2>4, <2>5, <1>6 DEF BufferInOrder, Counted
<1>9. QED BY <1>7, <1>8

\* A frame is taken and sent as it is, without a buffer (delta, frames).
LEMMA SendFrameOrder ==
  ASSUME LinkTypeOK, codec # "events", FrameInOrder, ReadyInOrder, BufferInOrder, WireInOrder,
         ready # <<>>, ready' = Tail(ready), pushed' = pushed, frame' = frame,
         buffer = <<>>, buffer' = <<>>, taken' = taken,
         NEW delta \in Seq(Cell), Send(encode_batch(NextFrame.ops, delta))
  PROVE  FrameInOrder' /\ ReadyInOrder' /\ BufferInOrder' /\ WireInOrder'
<1> DEFINE cmds == NextFrame.ops
           b == encode_batch(cmds, delta)
<1>1. /\ ReadyInOrder' /\ cmds \in Seq(Opcode) /\ cmds # <<>> /\ Counted(cmds)
      /\ NextReady = cmds[1].n /\ NextReady' = End(cmds) + 1
  BY TakeOrder
<1>2. b \in Message BY <1>1, EncodedType
<1>3. IsWhole(b) /\ b.ops = cmds
  <2>1. Len(cmds) \in Nat /\ Len(delta) \in Nat BY <1>1
  <2>2. QED BY <2>1, EncodedWhole
<1>4. Send(b) OBVIOUS
<1> HIDE DEF cmds, b
<1>5. NextSent = cmds[1].n /\ NextSent' = End(cmds) + 1 BY <1>1 DEF NextSent
<1>6. \A k \in 1 .. Len(cmds) : cmds[k].n \in Nat /\ cmds[1].n <= cmds[k].n /\ cmds[k].n <= End(cmds)
  BY <1>1, CountedEnd
<1>7. cmds[1].n \in Nat /\ End(cmds) \in Nat /\ cmds[1].n <= End(cmds)
  <2>1. 1 \in 1 .. Len(cmds) BY <1>1
  <2>2. QED BY <2>1, <1>1, <1>6, CountedEnd
<1>8. WireInOrder'
  BY <1>1, <1>2, <1>3, <1>4, <1>5, <1>6, <1>7, SendOrder
<1>9. FrameInOrder' BY DEF FrameInOrder, Completed
<1>10. BufferInOrder' BY DEF BufferInOrder, Counted
<1>11. QED BY <1>1, <1>8, <1>9, <1>10

\* What is buffered is sent, however little it is (net, batcher).
LEMMA SendBufferOrder ==
  ASSUME LinkTypeOK, codec # "events", FrameInOrder, ReadyInOrder, BufferInOrder, WireInOrder,
         UNCHANGED <<ready, pushed, frame, taken>>, buffer' = <<>>,
         NEW delta \in Seq(Cell), Send(encode_batch(buffer, delta))
  PROVE  FrameInOrder' /\ ReadyInOrder' /\ BufferInOrder' /\ WireInOrder'
<1> DEFINE b == encode_batch(buffer, delta)
<1>1. buffer \in Seq(Opcode) /\ Counted(buffer) BY DEF LinkTypeOK, BufferInOrder
<1>2. b \in Message BY <1>1, EncodedType
<1>3. IsWhole(b) /\ b.ops = buffer
  <2>1. Len(buffer) \in Nat /\ Len(delta) \in Nat BY <1>1
  <2>2. QED BY <2>1, EncodedWhole
<1>4. Send(b) OBVIOUS
<1> HIDE DEF b
<1>5. NextReady \in Nat /\ NextSent \in Nat /\ NextSent <= NextReady BY NextType
<1>6. FrameInOrder' BY DEF FrameInOrder, Completed
<1>7. ReadyInOrder' BY DEF ReadyInOrder, Completed
<1>8. BufferInOrder' BY DEF BufferInOrder, Counted
<1>9. NextSent' = NextReady BY DEF NextSent, NextReady, Completed
<1>10. ASSUME NEW k \in 1 .. Len(buffer) PROVE NextSent <= buffer[k].n /\ buffer[k].n < NextReady
  <2>1. buffer # <<>> BY <1>1
  <2>2. buffer[k].n \in Nat /\ buffer[1].n <= buffer[k].n /\ buffer[k].n <= End(buffer)
        /\ End(buffer) \in Nat
    BY <2>1, <1>1, CountedEnd
  <2>3. NextSent = buffer[1].n /\ End(buffer) + 1 = NextReady
    BY <2>1 DEF NextSent, BufferInOrder
  <2>4. QED BY <2>2, <2>3
<1>11. WireInOrder'
  BY <1>2, <1>3, <1>1, <1>4, <1>5, <1>9, <1>10, SendOrder
<1>12. QED BY <1>6, <1>7, <1>8, <1>11

\* No codec without a buffer fills one.
BufferUse == codec \notin {"net", "batcher"} => buffer = <<>>

\* OrderInv is kept by every step.
LEMMA OrderStep ==
  ASSUME LinkTypeOK, BufferUse, OrderInv, [Next]_vars
  PROVE  BufferUse' /\ OrderInv'
<1> USE DEF guest, producer, consumer, events
<1>0. codec' = codec
  BY DEF Next, Guest, SetText, Reset, EndFrame, EncodeDelta, NetPush, NetEncode, BatcherPush,
         BatcherFlush, EncodeFrame, Decode, HostSend, GuestDispatch, Reject, vars
<1>1. BufferUse'
  BY <1>0
  DEF BufferUse, Next, Guest, SetText, Reset, EndFrame, EncodeDelta, NetPush, NetEncode,
      BatcherPush, BatcherFlush, EncodeFrame, Decode, HostSend, GuestDispatch, Reject, vars
<1> SUFFICES ASSUME codec # "events" PROVE OrderInv' BY <1>0, <1>1 DEF OrderInv
<1>2. /\ FrameInOrder /\ ReadyInOrder /\ BufferInOrder /\ WireInOrder /\ Counted(got.ops)
      /\ NextSent \in Nat
  BY NextType DEF OrderInv
<1>3. ASSUME NEW cmd \in {"text", "reset"}, NEW ref \in Nat, NEW text \in Cell, NEW ep \in Nat,
             PushOpcode(cmd, ref, text, ep), UNCHANGED <<ready, producer, wire, consumer>>
      PROVE  OrderInv'
  <2>1. FrameInOrder' /\ Completed' = Completed BY <1>2, <1>3, PushOrder
  <2>2. ReadyInOrder' BY <2>1, <1>2, <1>3 DEF ReadyInOrder
  <2>3. NextReady' = NextReady BY <2>1, <1>3 DEF NextReady
  <2>4. BufferInOrder' BY <2>3, <1>2, <1>3 DEF BufferInOrder
  <2>5. NextSent' = NextSent BY <2>3, <1>3 DEF NextSent
  <2>6. WireInOrder' BY <2>5, <1>2, <1>3 DEF WireInOrder
  <2>7. QED BY <2>1, <2>2, <2>4, <2>6, <1>2, <1>3 DEF OrderInv
<1>4. ASSUME NEW t \in Texts, SetText(t) PROVE OrderInv'
  <2>1. t \in Cell /\ Len(arena) \in Nat /\ epoch \in Nat BY DEF Cell, LinkTypeOK
  <2>2. QED BY <2>1, <1>3, <1>4 DEF SetText
<1>5. ASSUME Reset PROVE OrderInv'
  <2>1. Blank \in Cell /\ epoch + 1 \in Nat BY DEF Cell, LinkTypeOK
  <2>2. QED BY <2>1, <1>3, <1>5 DEF Reset
<1>6. ASSUME EndFrame PROVE OrderInv'
  <2>1. FrameInOrder' /\ ReadyInOrder' /\ NextReady' = NextReady BY <1>2, <1>6, EndOrder
  <2>2. UNCHANGED <<buffer, wire, taken, got>> BY <1>6 DEF EndFrame
  <2>3. BufferInOrder' BY <2>1, <2>2, <1>2 DEF BufferInOrder
  <2>4. NextSent' = NextSent BY <2>1, <2>2 DEF NextSent
  <2>5. WireInOrder' BY <2>2, <2>4, <1>2 DEF WireInOrder
  <2>6. QED BY <2>1, <2>2, <2>3, <2>5, <1>2 DEF OrderInv
<1>7. ASSUME EncodeDelta PROVE OrderInv'
  <2>1. /\ ready # <<>> /\ ready' = Tail(ready) /\ buffer = <<>>
        /\ UNCHANGED <<pushed, frame, buffer, taken, got>>
        /\ Send(encode_batch(NextFrame.ops, Delta(NextFrame.ops, arena)))
    BY <1>7 DEF EncodeDelta, BufferUse
  <2>2. Delta(NextFrame.ops, arena) \in Seq(Cell) BY FromType DEF Delta, LinkTypeOK
  <2>3. FrameInOrder' /\ ReadyInOrder' /\ BufferInOrder' /\ WireInOrder'
    BY <2>1, <2>2, <1>2, SendFrameOrder
  <2>4. QED BY <2>1, <2>3, <1>2 DEF OrderInv
<1>8. ASSUME EncodeFrame PROVE OrderInv'
  <2>1. /\ ready # <<>> /\ ready' = Tail(ready) /\ buffer = <<>>
        /\ UNCHANGED <<pushed, frame, buffer, taken, got>>
        /\ Send(encode_batch(NextFrame.ops, NextFrame.section))
    BY <1>8 DEF EncodeFrame, BufferUse
  <2>2. NextFrame.section \in Seq(Cell) BY NextFrameType
  <2>3. FrameInOrder' /\ ReadyInOrder' /\ BufferInOrder' /\ WireInOrder'
    BY <2>1, <2>2, <1>2, SendFrameOrder
  <2>4. QED BY <2>1, <2>3, <1>2 DEF OrderInv
<1>9. ASSUME NetPush \/ BatcherPush PROVE OrderInv'
  <2>1. /\ ready # <<>> /\ ready' = Tail(ready) /\ buffer' = buffer \o NextFrame.ops
        /\ UNCHANGED <<pushed, frame, wire, taken, got>>
    BY <1>9 DEF NetPush, BatcherPush
  <2>2. ReadyInOrder' BY <2>1, <1>2, TakeOrder
  <2>3. BufferInOrder' /\ NextSent' = NextSent BY <2>1, <1>2, GatherOrder
  <2>4. FrameInOrder' BY <2>1, <1>2 DEF FrameInOrder, Completed
  <2>5. WireInOrder' BY <2>1, <2>3, <1>2 DEF WireInOrder
  <2>6. QED BY <2>1, <2>2, <2>3, <2>4, <2>5, <1>2 DEF OrderInv
<1>10. ASSUME NetEncode \/ BatcherFlush PROVE OrderInv'
  <2>1. PICK delta \in {arena, pending} : Send(encode_batch(buffer, delta))
    BY <1>10 DEF NetEncode, BatcherFlush
  <2>2. UNCHANGED <<ready, pushed, frame, taken, got>> /\ buffer' = <<>>
    BY <1>10 DEF NetEncode, BatcherFlush
  <2>3. delta \in Seq(Cell) BY DEF LinkTypeOK
  <2>4. FrameInOrder' /\ ReadyInOrder' /\ BufferInOrder' /\ WireInOrder'
    BY <2>1, <2>2, <2>3, <1>2, SendBufferOrder
  <2>5. QED BY <2>2, <2>4, <1>2 DEF OrderInv
<1>11. ASSUME UNCHANGED <<ready, pushed, frame, buffer>>, wire # <<>>, wire' = Tail(wire),
              \/ taken' = taken
              \/ wire[1].ops # <<>> /\ taken' = wire[1].ops[Len(wire[1].ops)].n,
              Counted(got'.ops)
       PROVE  OrderInv'
  <2>1. FrameInOrder' /\ ReadyInOrder' BY <1>2, <1>11 DEF FrameInOrder, ReadyInOrder, Completed
  <2>2. NextReady' = NextReady BY <1>11 DEF NextReady, Completed
  <2>3. BufferInOrder' BY <2>2, <1>2, <1>11 DEF BufferInOrder
  <2>4. NextSent' = NextSent BY <2>2, <1>11 DEF NextSent
  <2>5. WireInOrder' BY <2>4, <1>2, <1>11, ReceiveOrder
  <2>6. QED BY <2>1, <2>3, <2>5, <1>11 DEF OrderInv
<1>12. ASSUME Decode PROVE OrderInv'
  <2>1. /\ wire # <<>> /\ wire' = Tail(wire) /\ Head(wire) = wire[1]
        /\ UNCHANGED <<ready, pushed, frame, buffer>>
    BY <1>12 DEF Decode, LinkTypeOK
  <2>2. 1 \in 1 .. Len(wire) BY <2>1 DEF LinkTypeOK
  <2>3. got'.ops = wire[1].ops BY <1>12, <2>1 DEF Decode
  <2>4. Counted(got'.ops) BY <2>2, <2>3, <1>2 DEF WireInOrder
  <2>5. taken' = IF wire[1].ops = <<>> THEN taken ELSE wire[1].ops[Len(wire[1].ops)].n
    BY <1>12, <2>1 DEF Decode
  <2>6. QED BY <2>1, <2>4, <2>5, <1>11
<1>13. ASSUME NEW n \in {BATCH_HEADER - 1, BATCH_HEADER}, NEW magic \in BOOLEAN,
              NEW version \in BOOLEAN, Reject(n, magic, version)
       PROVE  OrderInv'
  <2>1. /\ wire # <<>> /\ wire' = Tail(wire) /\ got' = Nothing
        /\ UNCHANGED <<ready, pushed, frame, buffer, taken>>
    BY <1>13 DEF Reject
  <2>2. Counted(got'.ops) BY <2>1 DEF Counted, Nothing
  <2>3. QED BY <2>1, <2>2, <1>11
<1>14. ASSUME UNCHANGED vars PROVE OrderInv'
  BY <1>14, <1>2
  DEF vars, OrderInv, FrameInOrder, ReadyInOrder, BufferInOrder, WireInOrder, NextSent, NextReady,
      Completed
<1>15. QED
  BY <1>4, <1>5, <1>6, <1>7, <1>8, <1>9, <1>10, <1>12, <1>13, <1>14
  DEF Next, Guest, HostSend, GuestDispatch

\* What holds of codec, queues and numbers in every state.
LinkIInv == LinkTypeOK /\ BufferUse /\ OrderInv /\ EventsInv

\* The invariant of the codecs: each uses its own buffers only, opcodes carry consecutive
\* numbers from place to place, events are encoded right (batch.rs, batching.rs).
THEOREM LinkInductive == Spec => []LinkIInv
<1>1. Init => LinkIInv
  <2> SUFFICES ASSUME Init PROVE LinkIInv OBVIOUS
  <2>1. LinkTypeOK
    <3>1. Nothing \in [ops : Seq(Opcode), read : Seq(Cell), epoch : Nat, masked : BOOLEAN]
      BY DEF Nothing
    <3>2. masked \in BOOLEAN /\ broken \in BOOLEAN BY DEF Init
    <3>3. QED BY <3>1, <3>2 DEF Init, LinkTypeOK
  <2>2. BufferUse /\ EventsInv BY DEF Init, BufferUse, EventsInv
  <2>3. OrderInv
    BY DEF Init, OrderInv, FrameInOrder, ReadyInOrder, BufferInOrder, WireInOrder, NextSent,
           NextReady, Completed, Counted, Nothing
  <2>4. QED BY <2>1, <2>2, <2>3 DEF LinkIInv
<1>2. LinkIInv /\ [Next]_vars => LinkIInv'
  BY LinkTypeStep, OrderStep, EventsStep DEF LinkIInv
<1>3. QED BY <1>1, <1>2, PTL DEF Spec

\* OpcodesInOrder is an invariant: whichever codec carries them, the opcodes of
\* the guest are decoded in order, each at most once; a batch decodes when it is
\* whole and never when it is cut (batch.rs, Batch::parse and BatchDecoder).
THEOREM BatchesInOrder == Spec => []OpcodesInOrder
<1>1. LinkIInv => OpcodesInOrder
  <2> SUFFICES ASSUME LinkIInv PROVE OpcodesInOrder OBVIOUS
  <2>1. LinkTypeOK /\ OrderInv /\ EventsInv BY DEF LinkIInv
  <2>2. CASE codec = "events"
    <3>1. got.ops = <<>> BY <2>1, <2>2 DEF EventsInv, Nothing
    <3>2. ASSUME NEW i \in 1 .. Len(wire) PROVE CutRejected(wire[i])
      <4>1. PICK b : wire = <<b>> /\ IsWhole(b) BY <2>1, <2>2 DEF EventsInv, Carries
      <4>2. wire[i] = b BY <4>1
      <4>3. QED BY <4>1, <4>2, WholeParses
    <3>3. QED BY <2>2, <3>1, <3>2 DEF OpcodesInOrder
  <2>3. CASE codec # "events"
    <3>1. WireInOrder /\ Counted(got.ops) /\ got.ops \in Seq(Opcode)
      BY <2>1, <2>3 DEF OrderInv, LinkTypeOK
    <3>2. ASSUME NEW i \in 1 .. Len(got.ops) - 1 PROVE got.ops[i + 1].n = got.ops[i].n + 1
      <4>1. i \in 1 .. Len(got.ops) /\ i + 1 \in 1 .. Len(got.ops) /\ 1 \in 1 .. Len(got.ops)
        BY <3>1
      <4>2. got.ops[1].n \in Nat BY <4>1, <3>1, OpcodeType
      <4>3. got.ops[i].n = got.ops[1].n + i - 1 /\ got.ops[i + 1].n = got.ops[1].n + (i + 1) - 1
        BY <4>1, <3>1 DEF Counted
      <4>4. i \in Nat BY <4>1
      <4>5. QED BY <4>2, <4>3, <4>4
    <3>3. wire \in Seq(Message) BY <2>1, <2>3 DEF LinkTypeOK
    <3>4. ASSUME NEW i \in 1 .. Len(wire)
          PROVE  /\ CutRejected(wire[i])
                 /\ \A k \in 1 .. Len(wire[i].ops) : wire[i].ops[k].n > taken
      <4>1. CutRejected(wire[i]) BY <3>1, WholeParses DEF WireInOrder
      <4>2. wire[i].ops \in Seq(Opcode) /\ taken \in Nat
        <5>1. wire[i] \in Message BY <3>3
        <5>2. QED BY <5>1, <2>1 DEF Message, LinkTypeOK
      <4>3. ASSUME NEW k \in 1 .. Len(wire[i].ops) PROVE wire[i].ops[k].n > taken
        <5>1. wire[i].ops[k].n \in Nat BY <4>2, OpcodeType
        <5>2. taken < wire[i].ops[k].n BY <3>1 DEF WireInOrder
        <5>3. QED BY <5>1, <5>2, <4>2
      <4>4. QED BY <4>1, <4>3
    <3>5. QED BY <3>2, <3>4 DEF OpcodesInOrder
  <2>4. QED BY <2>2, <2>3
<1>2. QED BY <1>1, LinkInductive, PTL

-----------------------------------------------------------------------------
(* The texts of the opcodes, in the guest's arena.                           *)

OpsOf(cmds) == {cmds[i] : i \in 1 .. Len(cmds)}

\* Opcodes no producer has taken yet.
Completes == UNION {OpsOf(ready[j].ops) : j \in 1 .. Len(ready)}
Outstanding == Completes \union OpsOf(frame)

\* A text of epoch ep is found among the cells.
TextIn(op, ep, cells) == op.cmd = "text" /\ op.epoch = ep => Found(op.ref, cells, op.text)

\* The texts since the last RESET are in the arena, at their offsets; the RESET
\* that began the epoch is the first opcode of it.
ArenaInv ==
  codec \in {"delta", "net", "batcher"} =>
    /\ seen <= epoch
    /\ \A p \in Outstanding \union OpsOf(buffer) :
         p \in Opcode /\ p.epoch <= epoch /\ TextIn(p, epoch, arena)
    /\ \A p, q \in Outstanding :
         p.cmd = "reset" /\ p.epoch = epoch /\ q.epoch = epoch => p.n <= q.n

LEMMA OpsOfType ==
  ASSUME NEW cmds \in Seq(Opcode)
  PROVE  OpsOf(cmds) \in SUBSET Opcode
BY DEF OpsOf

LEMMA OpsOfAppend ==
  ASSUME NEW cmds \in Seq(Opcode), NEW op \in Opcode
  PROVE  OpsOf(Append(cmds, op)) = OpsOf(cmds) \union {op}
<1> DEFINE new == Append(cmds, op)
<1>1. /\ Len(new) = Len(cmds) + 1 /\ Len(cmds) \in Nat /\ new[Len(cmds) + 1] = op
      /\ \A i \in 1 .. Len(cmds) : new[i] = cmds[i]
  OBVIOUS
<1> HIDE DEF new
<1>2. ASSUME NEW i \in 1 .. Len(new) PROVE new[i] \in OpsOf(cmds) \union {op}
  BY <1>1 DEF OpsOf
<1>3. ASSUME NEW i \in 1 .. Len(cmds) PROVE cmds[i] \in OpsOf(new)
  <2>1. i \in 1 .. Len(new) /\ new[i] = cmds[i] BY <1>1
  <2>2. QED BY <2>1 DEF OpsOf
<1>4. op \in OpsOf(new)
  <2>1. Len(cmds) + 1 \in 1 .. Len(new) BY <1>1
  <2>2. QED BY <2>1, <1>1 DEF OpsOf
<1>5. OpsOf(new) = OpsOf(cmds) \union {op} BY <1>2, <1>3, <1>4 DEF OpsOf
<1>6. QED BY <1>5 DEF new

LEMMA OpsOfJoined ==
  ASSUME NEW a \in Seq(Opcode), NEW b \in Seq(Opcode)
  PROVE  OpsOf(a \o b) \subseteq OpsOf(a) \union OpsOf(b)
<1> DEFINE new == a \o b
<1>1. /\ Len(new) = Len(a) + Len(b) /\ Len(a) \in Nat /\ Len(b) \in Nat
      /\ \A i \in 1 .. Len(a) : new[i] = a[i]
      /\ \A i \in 1 .. Len(b) : new[Len(a) + i] = b[i]
  OBVIOUS
<1> HIDE DEF new
<1>2. ASSUME NEW i \in 1 .. Len(new) PROVE new[i] \in OpsOf(a) \union OpsOf(b)
  <2>1. CASE i \in 1 .. Len(a) BY <2>1, <1>1 DEF OpsOf
  <2>2. CASE i \notin 1 .. Len(a)
    <3>1. i - Len(a) \in 1 .. Len(b) /\ Len(a) + (i - Len(a)) = i BY <2>2, <1>1
    <3>2. new[i] = b[i - Len(a)] BY <3>1, <1>1
    <3>3. QED BY <3>1, <3>2 DEF OpsOf
  <2>3. QED BY <2>1, <2>2
<1>3. OpsOf(new) \subseteq OpsOf(a) \union OpsOf(b) BY <1>2 DEF OpsOf
<1>4. QED BY <1>3 DEF new

\* Outstanding under the steps of guest and producers.
LEMMA PushOutstanding ==
  ASSUME LinkTypeOK, NEW op \in Opcode, frame' = Append(frame, op), ready' = ready
  PROVE  Outstanding' = Outstanding \union {op}
<1>1. OpsOf(frame') = OpsOf(frame) \union {op} BY OpsOfAppend DEF LinkTypeOK
<1>2. Completes' = Completes BY DEF Completes
<1>3. QED BY <1>1, <1>2 DEF Outstanding

LEMMA EndOutstanding ==
  ASSUME LinkTypeOK, EndFrame
  PROVE  Outstanding' = Outstanding
<1> DEFINE last == [ops |-> frame, section |-> arena]
           L == Len(ready)
<1>1. last \in Complete /\ last.ops = frame BY DEF LinkTypeOK, Complete
<1>2. ready' = Append(ready, last) /\ frame' = <<>> BY DEF EndFrame
<1> HIDE DEF last
<1>3. /\ L \in Nat /\ Len(ready') = L + 1 /\ ready'[L + 1] = last
      /\ \A j \in 1 .. L : ready'[j] = ready[j]
  BY <1>1, <1>2 DEF LinkTypeOK
<1>4. OpsOf(frame') = {} BY <1>2 DEF OpsOf
<1>5. ASSUME NEW j \in 1 .. Len(ready') PROVE OpsOf(ready'[j].ops) \subseteq Outstanding
  <2>1. CASE j \in 1 .. L BY <2>1, <1>3 DEF Outstanding, Completes
  <2>2. CASE j = L + 1
    <3>1. ready'[j].ops = frame BY <2>2, <1>1, <1>3
    <3>2. QED BY <3>1 DEF Outstanding
  <2>3. QED BY <2>1, <2>2, <1>3
<1>6. Completes' \subseteq Outstanding BY <1>5 DEF Completes
<1>7. ASSUME NEW j \in 1 .. L PROVE OpsOf(ready[j].ops) \subseteq Completes'
  <2>1. j \in 1 .. Len(ready') /\ ready'[j].ops = ready[j].ops BY <1>3
  <2>2. QED BY <2>1 DEF Completes
<1>8. OpsOf(frame) \subseteq Completes'
  <2>1. L + 1 \in 1 .. Len(ready') /\ ready'[L + 1].ops = frame BY <1>1, <1>3
  <2>2. QED BY <2>1 DEF Completes
<1>9. Completes \subseteq Completes' BY <1>7 DEF Completes
<1>10. QED BY <1>4, <1>6, <1>8, <1>9 DEF Outstanding

LEMMA TakeOutstanding ==
  ASSUME LinkTypeOK, ready # <<>>, ready' = Tail(ready), frame' = frame
  PROVE  Outstanding = Outstanding' \union OpsOf(NextFrame.ops)
<1> DEFINE L == Len(ready)
<1>1. L \in Nat \ {0} /\ NextFrame = ready[1] BY NextFrameType DEF LinkTypeOK
<1>2. /\ Len(ready') = L - 1
      /\ \A j \in 1 .. L - 1 : ready'[j] = ready[j + 1] /\ j + 1 \in 1 .. L
  BY <1>1 DEF LinkTypeOK
<1>3. OpsOf(NextFrame.ops) \subseteq Outstanding
  <2>1. 1 \in 1 .. L BY <1>1
  <2>2. QED BY <2>1, <1>1 DEF Outstanding, Completes
<1>4. ASSUME NEW j \in 1 .. Len(ready') PROVE OpsOf(ready'[j].ops) \subseteq Outstanding
  BY <1>2 DEF Outstanding, Completes
<1>5. Completes' \subseteq Outstanding BY <1>4 DEF Completes
<1>6. ASSUME NEW j \in 1 .. L
      PROVE  OpsOf(ready[j].ops) \subseteq Completes' \union OpsOf(NextFrame.ops)
  <2>1. CASE j = 1 BY <2>1, <1>1
  <2>2. CASE j # 1
    <3>1. j - 1 \in 1 .. Len(ready') /\ ready'[j - 1] = ready[(j - 1) + 1] /\ (j - 1) + 1 = j
      BY <2>2, <1>1, <1>2
    <3>2. QED BY <3>1 DEF Completes
  <2>3. QED BY <2>1, <2>2
<1>7. Completes \subseteq Completes' \union OpsOf(NextFrame.ops) BY <1>6 DEF Completes
<1>8. QED BY <1>3, <1>5, <1>7 DEF Outstanding

\* ArenaInv is kept by every step.
LEMMA ArenaStep ==
  ASSUME LinkTypeOK, OrderInv, ArenaInv, [Next]_vars
  PROVE  ArenaInv'
<1> USE DEF guest, producer, consumer, events
<1>0. codec' = codec
  BY DEF Next, Guest, SetText, Reset, EndFrame, EncodeDelta, NetPush, NetEncode, BatcherPush,
         BatcherFlush, EncodeFrame, Decode, HostSend, GuestDispatch, Reject, vars
<1> SUFFICES ASSUME codec \in {"delta", "net", "batcher"} PROVE ArenaInv' BY <1>0 DEF ArenaInv
<1> DEFINE Lies == Outstanding \union OpsOf(buffer)
<1>1. /\ seen <= epoch /\ seen \in Nat /\ epoch \in Nat /\ arena \in Seq(Cell)
      /\ \A p \in Lies : p \in Opcode /\ p.epoch <= epoch /\ TextIn(p, epoch, arena)
      /\ \A p, q \in Outstanding :
           p.cmd = "reset" /\ p.epoch = epoch /\ q.epoch = epoch => p.n <= q.n
  BY DEF ArenaInv, LinkTypeOK
<1>2. \A p \in Outstanding : p.n <= pushed /\ p \in Opcode
  <2>1. FrameInOrder /\ ReadyInOrder /\ pushed \in Nat BY DEF OrderInv, LinkTypeOK
  <2>2. frame \in Seq(Opcode) /\ ready \in Seq(Complete) BY DEF LinkTypeOK
  <2>3. Completed \in Nat /\ Completed <= pushed /\ Completed + Len(frame) = pushed
    BY <2>1, <2>2 DEF FrameInOrder, Completed
  <2>4. ASSUME NEW p \in OpsOf(frame) PROVE p.n <= pushed
    <3>1. PICK i \in 1 .. Len(frame) : p = frame[i] BY DEF OpsOf
    <3>2. p.n = Completed + i /\ i <= Len(frame) /\ i \in Nat /\ Len(frame) \in Nat
      BY <3>1, <2>1, <2>2 DEF FrameInOrder
    <3>3. QED BY <3>2, <2>3
  <2>5. ASSUME NEW j \in 1 .. Len(ready), NEW p \in OpsOf(ready[j].ops) PROVE p.n <= pushed
    <3>1. ready[j] \in Complete BY <2>2
    <3>2. /\ ready[j].ops \in Seq(Opcode) /\ ready[j].ops # <<>> /\ Counted(ready[j].ops)
          /\ End(ready[j].ops) <= Completed
      BY <3>1, <2>1 DEF ReadyInOrder, Complete
    <3>3. PICK i \in 1 .. Len(ready[j].ops) : p = ready[j].ops[i] BY DEF OpsOf
    <3>4. p.n \in Nat /\ p.n <= End(ready[j].ops) /\ End(ready[j].ops) \in Nat
      BY <3>2, <3>3, CountedEnd
    <3>5. QED BY <3>2, <3>4, <2>1, <2>3
  <2>6. \A p \in Outstanding : p.n <= pushed BY <2>4, <2>5 DEF Outstanding, Completes
  <2>7. QED BY <2>6, <1>1
<1>3. ASSUME Outstanding' \subseteq Outstanding, OpsOf(buffer') \subseteq Lies,
             UNCHANGED <<epoch, arena>>, seen' \in {seen, epoch}
      PROVE  ArenaInv'
  <2>1. seen' <= epoch' BY <1>1, <1>3
  <2>2. ASSUME NEW p \in Outstanding' \union OpsOf(buffer')
        PROVE  p \in Opcode /\ p.epoch <= epoch' /\ TextIn(p, epoch', arena')
    BY <1>1, <1>3
  <2>3. ASSUME NEW p \in Outstanding', NEW q \in Outstanding',
               p.cmd = "reset", p.epoch = epoch', q.epoch = epoch'
        PROVE  p.n <= q.n
    BY <2>3, <1>1, <1>3
  <2> HIDE DEF Lies
  <2>4. QED BY <2>1, <2>2, <2>3 DEF ArenaInv
<1>4. ASSUME NEW t \in Texts, SetText(t) PROVE ArenaInv'
  <2> DEFINE op == [cmd |-> "text", ref |-> Len(arena), text |-> t, n |-> pushed + 1, epoch |-> epoch]
  <2>1. op \in Opcode /\ op.cmd = "text" /\ op.ref = Len(arena) /\ op.text = t
        /\ op.n = pushed + 1 /\ op.epoch = epoch
    BY DEF LinkTypeOK, Opcode, Cell
  <2>2. /\ frame' = Append(frame, op) /\ arena' = arena \o Entry(t)
        /\ UNCHANGED <<ready, epoch, seen, buffer>>
    BY <1>4 DEF SetText, PushOpcode
  <2> HIDE DEF op
  <2>3. Outstanding' = Outstanding \union {op} BY <2>1, <2>2, PushOutstanding
  <2>4. Entry(t) \in Seq(Cell) BY EntryCellsFit
  <2>5. ASSUME NEW p \in Lies PROVE TextIn(p, epoch, arena')
    <3>1. p.ref \in Nat /\ TextIn(p, epoch, arena) BY <1>1 DEF Opcode
    <3>2. QED BY <3>1, <2>2, <2>4, <1>1, FoundGrown DEF TextIn
  <2>6. TextIn(op, epoch, arena') BY <2>1, <2>2, <1>1, FoundNew DEF TextIn
  <2>7. ASSUME NEW p \in Outstanding' \union OpsOf(buffer')
        PROVE  p \in Opcode /\ p.epoch <= epoch' /\ TextIn(p, epoch', arena')
    <3>1. p \in Lies \union {op} BY <2>2, <2>3
    <3> HIDE DEF Lies
    <3>2. QED BY <3>1, <2>1, <2>2, <2>5, <2>6, <1>1
  <2>8. ASSUME NEW p \in Outstanding', NEW q \in Outstanding',
               p.cmd = "reset", p.epoch = epoch', q.epoch = epoch'
        PROVE  p.n <= q.n
    <3>1. p \in Outstanding BY <2>8, <2>1, <2>3
    <3>2. CASE q \in Outstanding BY <3>1, <3>2, <2>2, <2>8, <1>1
    <3>3. CASE q = op
      <4>1. p.n <= pushed /\ p.n \in Nat /\ pushed \in Nat BY <3>1, <1>2 DEF Opcode, LinkTypeOK
      <4>2. QED BY <4>1, <3>3, <2>1
    <3>4. QED BY <3>2, <3>3, <2>3
  <2> HIDE DEF Lies
  <2>9. QED BY <2>2, <2>7, <2>8, <1>1 DEF ArenaInv
<1>5. ASSUME Reset PROVE ArenaInv'
  <2> DEFINE op == [cmd |-> "reset", ref |-> 0, text |-> Blank, n |-> pushed + 1, epoch |-> epoch + 1]
  <2>1. op \in Opcode /\ op.cmd = "reset" /\ op.epoch = epoch + 1
    BY DEF LinkTypeOK, Opcode, Cell
  <2>2. /\ frame' = Append(frame, op) /\ epoch' = epoch + 1
        /\ UNCHANGED <<ready, seen, buffer>>
    BY <1>5 DEF Reset, PushOpcode
  <2> HIDE DEF op
  <2>3. Outstanding' = Outstanding \union {op} BY <2>1, <2>2, PushOutstanding
  <2>4. ASSUME NEW p \in Lies PROVE p \in Opcode /\ p.epoch < epoch + 1 /\ p.epoch \in Nat
    <3>1. p \in Opcode /\ p.epoch <= epoch /\ p.epoch \in Nat BY <1>1 DEF Opcode
    <3>2. QED BY <3>1, <1>1
  <2>5. ASSUME NEW p \in Outstanding' \union OpsOf(buffer')
        PROVE  p \in Opcode /\ p.epoch <= epoch' /\ TextIn(p, epoch', arena')
    <3>1. p \in Lies \union {op} BY <2>2, <2>3
    <3> HIDE DEF Lies
    <3>2. CASE p \in Lies BY <3>2, <2>2, <2>4, <1>1 DEF TextIn
    <3>3. CASE p = op BY <3>3, <2>1, <2>2, <1>1 DEF TextIn
    <3>4. QED BY <3>1, <3>2, <3>3
  <2>6. ASSUME NEW p \in Outstanding', NEW q \in Outstanding',
               p.cmd = "reset", p.epoch = epoch', q.epoch = epoch'
        PROVE  p.n <= q.n
    <3>1. p = op /\ q = op BY <2>2, <2>3, <2>4, <2>6, <1>1
    <3>2. QED BY <3>1, <2>1 DEF Opcode
  <2>7. seen' <= epoch' BY <2>2, <1>1
  <2> HIDE DEF Lies
  <2>8. QED BY <2>5, <2>6, <2>7 DEF ArenaInv
<1>6. ASSUME EndFrame PROVE ArenaInv'
  <2>1. UNCHANGED <<epoch, seen, buffer, arena>> BY <1>6 DEF EndFrame
  <2>2. QED BY <2>1, <1>3, <1>6, EndOutstanding
<1>7. ASSUME EncodeDelta PROVE ArenaInv'
  <2>1. /\ ready # <<>> /\ ready' = Tail(ready)
        /\ UNCHANGED <<epoch, seen, buffer, arena, frame>>
    BY <1>7 DEF EncodeDelta
  <2>2. QED BY <2>1, <1>3, TakeOutstanding
<1>8. ASSUME NetPush \/ BatcherPush PROVE ArenaInv'
  <2>1. /\ ready # <<>> /\ ready' = Tail(ready) /\ buffer' = buffer \o NextFrame.ops
        /\ UNCHANGED <<epoch, arena, frame>> /\ seen' \in {seen, epoch}
    BY <1>8 DEF NetPush, BatcherPush
  <2>2. Outstanding' \union OpsOf(NextFrame.ops) \subseteq Outstanding BY <2>1, TakeOutstanding
  <2>3. OpsOf(buffer') \subseteq OpsOf(buffer) \union OpsOf(NextFrame.ops)
    BY <2>1, OpsOfJoined, NextFrameType DEF LinkTypeOK
  <2>4. QED BY <2>1, <2>2, <2>3, <1>3
<1>9. ASSUME NetEncode \/ BatcherFlush PROVE ArenaInv'
  <2>1. buffer' = <<>> /\ UNCHANGED <<epoch, arena, frame, ready, seen>>
    BY <1>9 DEF NetEncode, BatcherFlush
  <2>2. OpsOf(buffer') = {} BY <2>1 DEF OpsOf
  <2>3. Outstanding' = Outstanding BY <2>1 DEF Outstanding, Completes
  <2>4. QED BY <2>1, <2>2, <2>3, <1>3
<1>10. ASSUME UNCHANGED <<epoch, arena, frame, ready, seen, buffer>> PROVE ArenaInv'
  <2>1. Outstanding' = Outstanding BY <1>10 DEF Outstanding, Completes
  <2>2. QED BY <2>1, <1>3, <1>10
<1>11. QED
  BY <1>4, <1>5, <1>6, <1>7, <1>8, <1>9, <1>10
  DEF Next, Guest, EncodeFrame, Decode, HostSend, GuestDispatch, Reject, vars

-----------------------------------------------------------------------------
(* What the offsets of a batch are resolved against.                         *)

\* Every text of epoch ep is found among the cells; a frame of the
\* self-contained codec has a section of its own, whatever the epoch.
Right(cmds, ep, cells) ==
  \A op \in OpsOf(cmds) :
    op.cmd = "text" /\ (op.epoch = ep \/ codec = "frames") => Found(op.ref, cells, op.text)

\* The bytes of a frame end with the frame.
FramesInv ==
  codec = "frames" =>
    /\ Right(frame, epoch, arena)
    /\ \A j \in 1 .. Len(ready) : Right(ready[j].ops, epoch, ready[j].section)

\* A batch that carries the cells its offsets are resolved against.
WireInv ==
  codec \in {"net", "batcher", "frames"} =>
    \A i \in 1 .. Len(wire) :
      ~wire[i].masked => Right(wire[i].ops, wire[i].epoch, wire[i].delta)

\* As long as Batcher noticed each reset, it holds the beginning of the arena
\* it saw last.
BufferRight == Right(buffer, seen, pending)

BatcherInv ==
  codec = "batcher" =>
    /\ Len(pending) = lastLen
    /\ ~masked => BufferRight
    /\ ~masked /\ epoch = seen =>
         lastLen <= Len(arena) /\ pending = SubSeq(arena, 1, lastLen)

\* No RESET of this epoch waits for BatchEncoder.
InSync == \A p \in Outstanding : ~(p.cmd = "reset" /\ p.epoch = epoch)

\* full[i] is what a mirror that missed nothing holds after batch i.
MirrorOf(full) ==
  /\ full \in [0 .. Len(wire) -> Seq(Cell)]
  /\ ~broken => full[0] = mirror
  /\ \A i \in 1 .. Len(wire) :
       /\ full[i] = (IF HasReset(wire[i].ops) THEN <<>> ELSE full[i - 1]) \o wire[i].delta
       /\ Right(wire[i].ops, wire[i].epoch, full[i])
  /\ InSync => lastLen <= Len(arena) /\ full[Len(wire)] = SubSeq(arena, 1, lastLen)

DeltaInv == codec = "delta" => \E full : MirrorOf(full)

LEMMA RightAppend ==
  ASSUME NEW cmds \in Seq(Opcode), NEW op \in Opcode, NEW ep, NEW cells, Right(cmds, ep, cells),
         op.cmd = "text" => Found(op.ref, cells, op.text)
  PROVE  Right(Append(cmds, op), ep, cells)
BY OpsOfAppend DEF Right

LEMMA RightGrown ==
  ASSUME NEW cmds \in Seq(Opcode), NEW ep, NEW cells \in Seq(Cell), NEW more \in Seq(Cell),
         Right(cmds, ep, cells)
  PROVE  Right(cmds, ep, cells \o more)
<1> SUFFICES ASSUME NEW op \in OpsOf(cmds), Found(op.ref, cells, op.text)
             PROVE  Found(op.ref, cells \o more, op.text)
  BY DEF Right
<1>1. op.ref \in Nat BY OpsOfType DEF Opcode
<1>2. QED BY <1>1, FoundGrown

\* From, and what comes before it.
LEMMA FromStart ==
  ASSUME NEW cells \in Seq(Cell)
  PROVE  From(cells, 0) = cells
<1>1. From(cells, 0) = SubSeq(cells, 1, Len(cells)) BY DEF From
<1>2. QED BY <1>1

LEMMA FromPrefix ==
  ASSUME NEW cells \in Seq(Cell), NEW len \in Nat, len <= Len(cells)
  PROVE  SubSeq(cells, 1, len) \o From(cells, len) = cells
<1> DEFINE a == SubSeq(cells, 1, len)
           b == SubSeq(cells, len + 1, Len(cells))
<1>1. Len(cells) \in Nat OBVIOUS
<1>2. a \in Seq(Cell) /\ Len(a) = len /\ \A i \in 1 .. len : a[i] = cells[i] BY <1>1
<1>3. b \in Seq(Cell) /\ Len(b) = Len(cells) - len
      /\ \A i \in 1 .. Len(cells) - len : b[i] = cells[len + i]
  BY <1>1
<1>4. From(cells, len) = b BY DEF From
<1> HIDE DEF a, b
<1>5. Len(a \o b) = Len(cells) /\ a \o b \in Seq(Cell) BY <1>1, <1>2, <1>3
<1>6. ASSUME NEW i \in 1 .. Len(cells) PROVE (a \o b)[i] = cells[i]
  <2>1. CASE i <= len
    <3>1. i \in 1 .. Len(a) BY <2>1, <1>1, <1>2
    <3>2. (a \o b)[i] = a[i] BY <3>1, <1>2, <1>3
    <3>3. QED BY <3>1, <3>2, <1>2
  <2>2. CASE ~(i <= len)
    <3>1. i - len \in 1 .. Len(b) /\ i = len + (i - len) BY <2>2, <1>1, <1>3
    <3>2. (a \o b)[i] = b[i - len] BY <3>1, <1>2, <1>3
    <3>3. QED BY <3>1, <3>2, <1>3
  <2>3. QED BY <2>1, <2>2
<1>7. a \o b = cells
  <2> DEFINE joined == a \o b
  <2>1. /\ joined \in Seq(Cell) /\ Len(joined) = Len(cells)
        /\ \A i \in 1 .. Len(cells) : joined[i] = cells[i]
    BY <1>5, <1>6
  <2> HIDE DEF joined
  <2>2. joined = cells BY <2>1
  <2>3. QED BY <2>2 DEF joined
<1>8. QED BY <1>7, <1>4 DEF a

LEMMA PrefixGrown ==
  ASSUME NEW cells \in Seq(Cell), NEW more \in Seq(Cell), NEW len \in Nat, len <= Len(cells)
  PROVE  len <= Len(cells \o more) /\ SubSeq(cells \o more, 1, len) = SubSeq(cells, 1, len)
<1> DEFINE all == cells \o more
<1>1. /\ all \in Seq(Cell) /\ Len(all) = Len(cells) + Len(more)
      /\ Len(cells) \in Nat /\ Len(more) \in Nat
      /\ \A i \in 1 .. Len(cells) : all[i] = cells[i]
  OBVIOUS
<1> HIDE DEF all
<1>2. SubSeq(all, 1, len) \in Seq(Cell) /\ Len(SubSeq(all, 1, len)) = len
      /\ \A i \in 1 .. len : SubSeq(all, 1, len)[i] = all[i]
  BY <1>1
<1>3. SubSeq(cells, 1, len) \in Seq(Cell) /\ Len(SubSeq(cells, 1, len)) = len
      /\ \A i \in 1 .. len : SubSeq(cells, 1, len)[i] = cells[i]
  BY <1>1
<1>4. \A i \in 1 .. len : all[i] = cells[i] BY <1>1
<1>5. SubSeq(all, 1, len) = SubSeq(cells, 1, len) BY <1>2, <1>3, <1>4
<1>6. QED BY <1>1, <1>5 DEF all

-----------------------------------------------------------------------------
\* FramesInv is kept by every step.
LEMMA FramesStep ==
  ASSUME LinkTypeOK, FramesInv, [Next]_vars
  PROVE  FramesInv'
<1> USE DEF guest, producer, consumer, events
<1>1. codec' = codec
  BY DEF Next, Guest, SetText, Reset, EndFrame, EncodeDelta, NetPush, NetEncode, BatcherPush,
         BatcherFlush, EncodeFrame, Decode, HostSend, GuestDispatch, Reject, vars
<1> SUFFICES ASSUME codec = "frames" PROVE FramesInv' BY <1>1 DEF FramesInv
<1>2. /\ Right(frame, epoch, arena)
      /\ \A j \in 1 .. Len(ready) : Right(ready[j].ops, epoch, ready[j].section)
      /\ frame \in Seq(Opcode) /\ arena \in Seq(Cell) /\ ready \in Seq(Complete)
  BY DEF FramesInv, LinkTypeOK
<1>3. ASSUME NEW op \in Opcode, NEW more \in Seq(Cell), frame' = Append(frame, op),
             arena' = arena \o more, UNCHANGED ready,
             op.cmd = "text" => Found(op.ref, arena', op.text)
      PROVE  FramesInv'
  <2>1. Right(frame, epoch, arena') BY <1>2, <1>3, RightGrown
  <2>2. Right(frame', epoch, arena') BY <2>1, <1>2, <1>3, RightAppend
  <2>3. Right(frame', epoch', arena') /\ codec' = codec BY <2>2, <1>1 DEF Right
  <2>4. \A j \in 1 .. Len(ready') : Right(ready'[j].ops, epoch', ready'[j].section)
    BY <1>2, <1>3 DEF Right
  <2>5. QED BY <2>3, <2>4, <1>1 DEF FramesInv, Right
<1>4. ASSUME NEW t \in Texts, SetText(t) PROVE FramesInv'
  <2> DEFINE op == [cmd |-> "text", ref |-> Len(arena), text |-> t, n |-> pushed + 1, epoch |-> epoch]
  <2>1. op \in Opcode /\ op.ref = Len(arena) /\ op.text = t BY DEF LinkTypeOK, Opcode, Cell
  <2>2. frame' = Append(frame, op) /\ arena' = arena \o Entry(t) /\ UNCHANGED ready
    BY <1>4 DEF SetText, PushOpcode
  <2> HIDE DEF op
  <2>3. Entry(t) \in Seq(Cell) BY EntryCellsFit
  <2>4. Found(op.ref, arena', op.text) BY <2>1, <2>2, <1>2, FoundNew
  <2>5. QED BY <2>1, <2>2, <2>3, <2>4, <1>3
<1>5. ASSUME Reset PROVE FramesInv'
  <2> DEFINE op == [cmd |-> "reset", ref |-> 0, text |-> Blank, n |-> pushed + 1, epoch |-> epoch + 1]
  <2>1. op \in Opcode /\ op.cmd = "reset" BY DEF LinkTypeOK, Opcode, Cell
  <2>2. frame' = Append(frame, op) /\ arena' = arena /\ UNCHANGED ready
    BY <1>5 DEF Reset, PushOpcode
  <2> HIDE DEF op
  <2>3. <<>> \in Seq(Cell) /\ arena \o <<>> = arena BY <1>2
  <2>4. QED BY <2>1, <2>2, <2>3, <1>3
<1>6. ASSUME EndFrame PROVE FramesInv'
  <2> DEFINE last == [ops |-> frame, section |-> arena]
  <2>1. last \in Complete /\ last.ops = frame /\ last.section = arena BY <1>2 DEF Complete
  <2>2. ready' = Append(ready, last) /\ frame' = <<>> /\ epoch' = epoch BY <1>6 DEF EndFrame
  <2> HIDE DEF last
  <2>3. /\ Len(ready') = Len(ready) + 1 /\ ready'[Len(ready) + 1] = last
        /\ \A j \in 1 .. Len(ready) : ready'[j] = ready[j]
    BY <2>1, <2>2, <1>2
  <2>4. Right(frame', epoch', arena') BY <2>2 DEF Right, OpsOf
  <2>5. ASSUME NEW j \in 1 .. Len(ready') PROVE Right(ready'[j].ops, epoch, ready'[j].section)
    <3>1. j = Len(ready) + 1 \/ j \in 1 .. Len(ready) BY <2>3, <1>2
    <3>2. QED BY <3>1, <2>1, <2>3, <1>2
  <2>6. QED BY <2>2, <2>4, <2>5, <1>1 DEF FramesInv, Right
<1>7. ASSUME ready # <<>>, ready' = Tail(ready), UNCHANGED <<frame, arena, epoch>>
      PROVE  FramesInv'
  <2>1. ASSUME NEW j \in 1 .. Len(ready')
        PROVE  ready'[j] = ready[j + 1] /\ j + 1 \in 1 .. Len(ready)
    BY <1>2, <1>7
  <2>2. QED BY <2>1, <1>1, <1>2, <1>7 DEF FramesInv, Right
<1>8. ASSUME UNCHANGED <<ready, frame, arena, epoch>> PROVE FramesInv'
  BY <1>1, <1>2, <1>8 DEF FramesInv, Right
<1>9. QED
  BY <1>4, <1>5, <1>6, <1>7, <1>8
  DEF Next, Guest, EncodeDelta, NetPush, NetEncode, BatcherPush, BatcherFlush, EncodeFrame, Decode,
      HostSend, GuestDispatch, Reject, vars

\* BatcherInv is kept by every step.
LEMMA BatcherStep ==
  ASSUME LinkTypeOK, ArenaInv, BatcherInv, [Next]_vars
  PROVE  BatcherInv'
<1> USE DEF guest, producer, consumer, events
<1>1. codec' = codec
  BY DEF Next, Guest, SetText, Reset, EndFrame, EncodeDelta, NetPush, NetEncode, BatcherPush,
         BatcherFlush, EncodeFrame, Decode, HostSend, GuestDispatch, Reject, vars
<1> SUFFICES ASSUME codec = "batcher" PROVE BatcherInv' BY <1>1 DEF BatcherInv
<1>2. /\ Len(pending) = lastLen
      /\ ~masked => BufferRight
      /\ ~masked /\ epoch = seen =>
           lastLen <= Len(arena) /\ pending = SubSeq(arena, 1, lastLen)
  BY DEF BatcherInv
<1>3. /\ seen <= epoch /\ seen \in Nat /\ epoch \in Nat /\ lastLen \in Nat
      /\ arena \in Seq(Cell) /\ pending \in Seq(Cell) /\ buffer \in Seq(Opcode)
      /\ masked \in BOOLEAN
  BY DEF ArenaInv, LinkTypeOK
<1>4. ASSUME NEW t \in Texts, SetText(t) PROVE BatcherInv'
  <2>1. arena' = arena \o Entry(t) /\ UNCHANGED <<epoch, producer>> BY <1>4 DEF SetText
  <2>2. Entry(t) \in Seq(Cell) BY EntryCellsFit
  <2>3. ~masked /\ epoch = seen =>
           lastLen <= Len(arena') /\ pending = SubSeq(arena', 1, lastLen)
    BY <2>1, <2>2, <1>2, <1>3, PrefixGrown
  <2>4. QED BY <2>1, <2>3, <1>1, <1>2 DEF BatcherInv, BufferRight, Right
<1>5. ASSUME Reset PROVE BatcherInv'
  <2>1. epoch' = epoch + 1 /\ UNCHANGED producer BY <1>5 DEF Reset
  <2>2. epoch' # seen BY <2>1, <1>3
  <2>3. QED BY <2>1, <2>2, <1>1, <1>2 DEF BatcherInv, BufferRight, Right
<1>6. ASSUME BatcherPush PROVE BatcherInv'
  <2> DEFINE shrank == Len(arena) < lastLen
             last == IF shrank THEN 0 ELSE lastLen
             held == IF shrank THEN <<>> ELSE pending
  <2>1. /\ pending' = held \o From(arena, last) /\ lastLen' = Len(arena) /\ seen' = epoch
        /\ masked' = (masked \/ (~shrank /\ lastLen > 0 /\ epoch > seen))
        /\ buffer' = buffer \o NextFrame.ops /\ ready # <<>> /\ ready' = Tail(ready)
        /\ UNCHANGED <<arena, epoch, frame>>
    BY <1>6 DEF BatcherPush
  <2>2. Len(arena) \in Nat /\ From(arena, 0) = arena BY <1>3, FromStart
  <2>3. From(arena, lastLen) \in Seq(Cell) BY <1>3, FromType
  <2>4. ~masked' => pending' = arena
    <3> SUFFICES ASSUME ~masked' PROVE pending' = arena OBVIOUS
    <3>1. CASE shrank
      <4>1. <<>> \o arena = arena BY <1>3
      <4>2. QED BY <4>1, <3>1, <2>1, <2>2
    <3>2. CASE ~shrank /\ lastLen = 0
      <4>1. pending = <<>> BY <3>2, <1>2, <1>3
      <4>2. <<>> \o arena = arena BY <1>3
      <4>3. QED BY <4>1, <4>2, <3>2, <2>1, <2>2
    <3>3. CASE ~shrank /\ lastLen # 0
      <4>1. lastLen <= Len(arena) /\ lastLen > 0 BY <3>3, <2>2, <1>3
      <4>2. ~masked /\ ~(epoch > seen)
        <5> HIDE DEF shrank
        <5>1. ~(masked \/ (~shrank /\ lastLen > 0 /\ epoch > seen)) BY <2>1
        <5>2. QED BY <5>1, <4>1, <3>3
      <4>3. epoch = seen BY <4>2, <1>3
      <4>4. pending = SubSeq(arena, 1, lastLen) BY <4>2, <4>3, <1>2
      <4>5. pending' = pending \o From(arena, lastLen) BY <3>3, <2>1
      <4>6. QED BY <4>1, <4>4, <4>5, <1>3, FromPrefix
    <3>4. QED BY <3>1, <3>2, <3>3
  <2>5. Len(pending') = Len(arena)
    <3>1. CASE shrank
      <4>1. <<>> \o arena = arena BY <1>3
      <4>2. QED BY <4>1, <3>1, <2>1, <2>2
    <3>2. CASE ~shrank
      <4>1. lastLen <= Len(arena) BY <3>2, <2>2, <1>3
      <4>2. Len(SubSeq(arena, lastLen + 1, Len(arena))) = Len(arena) - lastLen
        BY <4>1, <2>2, <1>3
      <4>3. Len(From(arena, lastLen)) = Len(arena) - lastLen BY <4>2 DEF From
      <4>4. pending' = pending \o From(arena, lastLen) BY <3>2, <2>1
      <4>5. Len(pending') = Len(pending) + Len(From(arena, lastLen)) BY <4>4, <2>3, <1>3
      <4>6. QED BY <4>1, <4>3, <4>5, <2>2, <1>2, <1>3
    <3>3. QED BY <3>1, <3>2
  <2>6. Right(buffer', epoch, arena)
    <3>1. OpsOf(buffer') \subseteq OpsOf(buffer) \union OpsOf(NextFrame.ops)
      BY <2>1, <1>3, OpsOfJoined, NextFrameType
    <3>2. OpsOf(NextFrame.ops) \subseteq Outstanding BY <2>1, TakeOutstanding
    <3>3. \A p \in Outstanding \union OpsOf(buffer) : TextIn(p, epoch, arena) BY DEF ArenaInv
    <3>4. QED BY <3>1, <3>2, <3>3 DEF Right, TextIn
  <2>7. Len(arena) <= Len(arena) /\ arena = SubSeq(arena, 1, Len(arena)) BY <2>2, <1>3
  <2> HIDE DEF shrank, last, held
  <2>8. ~masked' => BufferRight' BY <2>1, <2>4, <2>6, <1>1 DEF BufferRight, Right
  <2>9. QED BY <2>1, <2>4, <2>5, <2>7, <2>8 DEF BatcherInv, BufferRight, Right
<1>7. ASSUME BatcherFlush PROVE BatcherInv'
  <2>1. buffer' = <<>> /\ pending' = <<>> /\ lastLen' = 0 /\ UNCHANGED <<arena, epoch, seen>>
    BY <1>7 DEF BatcherFlush
  <2>2. BufferRight' BY <2>1 DEF BufferRight, Right, OpsOf
  <2>3. SubSeq(arena, 1, 0) = <<>> /\ 0 <= Len(arena) BY <1>3
  <2>4. QED BY <2>1, <2>2, <2>3 DEF BatcherInv, BufferRight, Right
<1>8. ASSUME UNCHANGED <<arena, epoch, producer>> PROVE BatcherInv'
  BY <1>1, <1>2, <1>8 DEF BatcherInv, BufferRight, Right
<1>9. QED
  BY <1>4, <1>5, <1>6, <1>7, <1>8
  DEF Next, Guest, EndFrame, EncodeDelta, NetPush, NetEncode, EncodeFrame, Decode,
      HostSend, GuestDispatch, Reject, vars

\* A batch appended to those under way, and the first of them gone.
LEMMA Appended ==
  ASSUME LinkTypeOK, codec # "events", NEW b \in Message, wire' = Append(wire, b)
  PROVE  /\ Len(wire) \in Nat /\ Len(wire') = Len(wire) + 1 /\ wire'[Len(wire) + 1] = b
         /\ \A i \in 1 .. Len(wire) : wire'[i] = wire[i]
BY DEF LinkTypeOK

LEMMA Removed ==
  ASSUME LinkTypeOK, codec # "events", wire # <<>>, wire' = Tail(wire)
  PROVE  /\ Len(wire) \in Nat \ {0} /\ Len(wire') = Len(wire) - 1
         /\ wire[1] \in Message /\ Head(wire) = wire[1]
         /\ \A i \in 1 .. Len(wire') : wire'[i] = wire[i + 1] /\ i + 1 \in 1 .. Len(wire)
<1>1. wire \in Seq(Message) BY DEF LinkTypeOK
<1>2. QED BY <1>1

\* WireInv is kept by every step.
LEMMA WireStep ==
  ASSUME LinkTypeOK, ArenaInv, FramesInv, BatcherInv, WireInv, [Next]_vars
  PROVE  WireInv'
<1> USE DEF guest, producer, consumer, events
<1>1. codec' = codec
  BY DEF Next, Guest, SetText, Reset, EndFrame, EncodeDelta, NetPush, NetEncode, BatcherPush,
         BatcherFlush, EncodeFrame, Decode, HostSend, GuestDispatch, Reject, vars
<1> SUFFICES ASSUME codec \in {"net", "batcher", "frames"} PROVE WireInv' BY <1>1 DEF WireInv
<1>2. \A i \in 1 .. Len(wire) :
        ~wire[i].masked => Right(wire[i].ops, wire[i].epoch, wire[i].delta)
  BY DEF WireInv
<1>3. ASSUME NEW cmds \in Seq(Opcode), NEW delta \in Seq(Cell), Send(encode_batch(cmds, delta)),
             ~masked => Right(cmds, IF codec = "batcher" THEN seen ELSE epoch, delta)
      PROVE  WireInv'
  <2> DEFINE b == encode_batch(cmds, delta)
  <2>1. /\ b.ops = cmds /\ b.delta = delta /\ b.masked = masked
        /\ b.epoch = IF codec = "batcher" THEN seen ELSE epoch
    BY DEF encode_batch
  <2>2. b \in Message /\ wire' = Append(wire, b) BY <1>3, EncodedType DEF Send
  <2> HIDE DEF b
  <2>3. /\ Len(wire) \in Nat /\ Len(wire') = Len(wire) + 1 /\ wire'[Len(wire) + 1] = b
        /\ \A i \in 1 .. Len(wire) : wire'[i] = wire[i]
    BY <2>2, Appended
  <2>4. ASSUME NEW i \in 1 .. Len(wire')
        PROVE  ~wire'[i].masked => Right(wire'[i].ops, wire'[i].epoch, wire'[i].delta)
    <3>1. CASE i \in 1 .. Len(wire) BY <3>1, <2>3, <1>2
    <3>2. CASE i = Len(wire) + 1 BY <3>2, <2>1, <2>3, <1>3
    <3>3. QED BY <3>1, <3>2, <2>3
  <2>5. QED BY <2>4, <1>1 DEF WireInv, Right
<1>4. ASSUME NetEncode PROVE WireInv'
  <2>1. codec = "net" /\ Send(encode_batch(buffer, arena)) BY <1>4 DEF NetEncode
  <2>2. buffer \in Seq(Opcode) /\ arena \in Seq(Cell) BY DEF LinkTypeOK
  <2>3. Right(buffer, epoch, arena)
    <3>1. \A p \in OpsOf(buffer) : TextIn(p, epoch, arena) BY <2>1 DEF ArenaInv
    <3>2. QED BY <3>1, <2>1 DEF Right, TextIn
  <2>4. QED BY <2>1, <2>2, <2>3, <1>3
<1>5. ASSUME BatcherFlush PROVE WireInv'
  <2>1. codec = "batcher" /\ Send(encode_batch(buffer, pending)) BY <1>5 DEF BatcherFlush
  <2>2. buffer \in Seq(Opcode) /\ pending \in Seq(Cell) BY DEF LinkTypeOK
  <2>3. ~masked => Right(buffer, seen, pending) BY <2>1 DEF BatcherInv, BufferRight
  <2>4. QED BY <2>1, <2>2, <2>3, <1>3
<1>6. ASSUME EncodeFrame PROVE WireInv'
  <2>1. /\ codec = "frames" /\ ready # <<>>
        /\ Send(encode_batch(NextFrame.ops, NextFrame.section))
    BY <1>6 DEF EncodeFrame
  <2>2. NextFrame.ops \in Seq(Opcode) /\ NextFrame.section \in Seq(Cell) /\ NextFrame = ready[1]
    BY <2>1, NextFrameType
  <2>3. 1 \in 1 .. Len(ready) BY <2>1 DEF LinkTypeOK
  <2>4. Right(NextFrame.ops, epoch, NextFrame.section) BY <2>1, <2>2, <2>3 DEF FramesInv
  <2>5. QED BY <2>1, <2>2, <2>4, <1>3
<1>7. ASSUME wire # <<>>, wire' = Tail(wire) PROVE WireInv'
  BY <1>1, <1>2, <1>7, Removed DEF WireInv, Right
<1>8. ASSUME UNCHANGED wire PROVE WireInv'
  BY <1>1, <1>2, <1>8 DEF WireInv, Right
<1>9. QED
  BY <1>4, <1>5, <1>6, <1>7, <1>8
  DEF Next, Guest, SetText, Reset, EndFrame, EncodeDelta, NetPush, BatcherPush, Decode, HostSend,
      GuestDispatch, Reject, vars

\* What is taken was pushed before what still waits.
LEMMA TakenFirst ==
  ASSUME LinkTypeOK, OrderInv, codec # "events",
         ready # <<>>, ready' = Tail(ready), frame' = frame,
         NEW q \in OpsOf(NextFrame.ops), NEW p \in Outstanding'
  PROVE  q.n < p.n
<1> DEFINE first == ready[1].ops
<1>1. FrameInOrder /\ ReadyInOrder /\ ready \in Seq(Complete) /\ frame \in Seq(Opcode)
  BY DEF OrderInv, LinkTypeOK
<1>2. 1 \in 1 .. Len(ready) /\ NextFrame.ops = first BY <1>1, NextFrameType
<1>3. first \in Seq(Opcode) /\ first # <<>> /\ Counted(first) /\ End(first) <= Completed
  <2>1. ready[1] \in Complete BY <1>1, <1>2
  <2>2. QED BY <2>1, <1>1, <1>2 DEF Complete, ReadyInOrder
<1>4. q.n \in Nat /\ End(first) \in Nat /\ q.n <= End(first)
  <2>1. PICK k \in 1 .. Len(first) : q = first[k] BY <1>2 DEF OpsOf
  <2>2. QED BY <2>1, <1>3, CountedEnd
<1>5. CASE p \in OpsOf(frame)
  <2>1. PICK k \in 1 .. Len(frame) : p = frame[k] BY <1>5 DEF OpsOf
  <2>2. p.n = Completed + k /\ k \in Nat \ {0} /\ Completed \in Nat
    BY <2>1, <1>1 DEF FrameInOrder
  <2>3. QED BY <2>2, <1>3, <1>4
<1>6. CASE p \notin OpsOf(frame)
  <2>1. p \in Completes' BY <1>6 DEF Outstanding
  <2>2. PICK j \in 1 .. Len(ready') : p \in OpsOf(ready'[j].ops) BY <2>1 DEF Completes
  <2>3. j + 1 \in 1 .. Len(ready) /\ ready'[j] = ready[j + 1] /\ 1 < j + 1 BY <1>1, <1>2, <2>2
  <2> DEFINE other == ready[j + 1].ops
  <2>4. other \in Seq(Opcode) /\ other # <<>> /\ Counted(other)
    <3>1. ready[j + 1] \in Complete BY <1>1, <2>3
    <3>2. QED BY <3>1, <1>1, <2>3 DEF Complete, ReadyInOrder
  <2>5. End(first) < other[1].n BY <1>1, <1>2, <2>3 DEF ReadyInOrder
  <2>6. p \in OpsOf(other) BY <2>2, <2>3
  <2> HIDE DEF other
  <2>7. PICK k \in 1 .. Len(other) : p = other[k] BY <2>6 DEF OpsOf
  <2>8. p.n \in Nat /\ other[1].n \in Nat /\ other[1].n <= p.n BY <2>4, <2>7, CountedEnd
  <2>9. QED BY <2>5, <2>8, <1>4
<1>7. QED BY <1>5, <1>6

\* BatchEncoder sends a batch: a mirror that missed nothing holds the arena
\* again, unless a RESET of this epoch still waits.
LEMMA DeltaSent ==
  ASSUME LinkTypeOK, OrderInv, ArenaInv, EncodeDelta, NEW cells \in Seq(Cell),
         InSync => lastLen <= Len(arena) /\ cells = SubSeq(arena, 1, lastLen)
  PROVE  LET delta == Delta(NextFrame.ops, arena)
             after == (IF HasReset(NextFrame.ops) THEN <<>> ELSE cells) \o delta
         IN  /\ delta \in Seq(Cell) /\ after \in Seq(Cell)
             /\ Right(NextFrame.ops, epoch, after)
             /\ InSync' => after = arena
<1> DEFINE cmds == NextFrame.ops
           delta == Delta(cmds, arena)
           after == (IF HasReset(cmds) THEN <<>> ELSE cells) \o delta
<1>1. /\ codec = "delta" /\ ready # <<>> /\ ready' = Tail(ready)
      /\ UNCHANGED <<arena, epoch, frame>>
  BY DEF EncodeDelta, guest
<1>2. arena \in Seq(Cell) /\ Len(arena) \in Nat /\ lastLen \in Nat BY DEF LinkTypeOK
<1>3. delta \in Seq(Cell)
  <2>1. From(arena, 0) \in Seq(Cell) /\ From(arena, lastLen) \in Seq(Cell) BY <1>2, FromType
  <2>2. delta \in {From(arena, 0), From(arena, lastLen), arena} BY DEF Delta
  <2>3. QED BY <2>1, <2>2, <1>2
<1>4. after \in Seq(Cell) BY <1>3
<1>5. Outstanding = Outstanding' \union OpsOf(cmds) BY <1>1, TakeOutstanding
<1>6. \A p \in Outstanding : p \in Opcode /\ TextIn(p, epoch, arena) BY <1>1 DEF ArenaInv
<1>7. CASE HasReset(cmds) \/ InSync
  <2>1. after = arena
    <3>1. CASE HasReset(cmds)
      <4>1. delta = arena BY <3>1, <1>2, FromStart DEF Delta
      <4>2. <<>> \o arena = arena BY <1>2
      <4> HIDE DEF delta
      <4>3. QED BY <4>1, <4>2, <3>1
    <3>2. CASE ~HasReset(cmds)
      <4>1. lastLen <= Len(arena) /\ cells = SubSeq(arena, 1, lastLen) BY <1>7, <3>2
      <4>2. delta = From(arena, lastLen) BY <3>2, <4>1 DEF Delta
      <4> HIDE DEF delta
      <4>3. QED BY <4>1, <4>2, <3>2, <1>2, FromPrefix
    <3>3. QED BY <3>1, <3>2
  <2> HIDE DEF after
  <2>2. Right(cmds, epoch, after) BY <2>1, <1>1, <1>5, <1>6 DEF Right, TextIn
  <2>3. QED BY <2>1, <2>2, <1>3, <1>4 DEF after
<1>8. CASE ~HasReset(cmds) /\ ~InSync
  <2>1. PICK p \in Outstanding : p.cmd = "reset" /\ p.epoch = epoch BY <1>8 DEF InSync
  <2>2. p \notin OpsOf(cmds) BY <1>8, <2>1 DEF HasReset, IsReset, OpsOf
  <2>3. p \in Outstanding' BY <2>2, <1>5
  <2>4. ~InSync' BY <2>1, <2>3, <1>1 DEF InSync
  <2>5. ASSUME NEW q \in OpsOf(cmds) PROVE q.epoch # epoch
    <3>1. q \in Outstanding /\ q.n < p.n BY <2>3, <1>1, <1>5, TakenFirst
    <3>2. q \in Opcode /\ p \in Opcode BY <3>1, <1>6
    <3>3. q.epoch = epoch => p.n <= q.n BY <3>1, <2>1, <1>1 DEF ArenaInv
    <3>4. q.n \in Nat /\ p.n \in Nat BY <3>2 DEF Opcode
    <3>5. QED BY <3>1, <3>3, <3>4
  <2> HIDE DEF cmds, after
  <2>6. Right(cmds, epoch, after) BY <2>5, <1>1 DEF Right
  <2>7. QED BY <2>4, <2>6, <1>3, <1>4 DEF cmds, after
<1>9. QED BY <1>7, <1>8

\* DeltaInv is kept by every step.
LEMMA DeltaStep ==
  ASSUME LinkTypeOK, OrderInv, ArenaInv, DeltaInv, [Next]_vars
  PROVE  DeltaInv'
<1> USE DEF guest, producer, consumer, events
<1>1. codec' = codec
  BY DEF Next, Guest, SetText, Reset, EndFrame, EncodeDelta, NetPush, NetEncode, BatcherPush,
         BatcherFlush, EncodeFrame, Decode, HostSend, GuestDispatch, Reject, vars
<1> SUFFICES ASSUME codec = "delta" PROVE DeltaInv' BY <1>1 DEF DeltaInv
<1>2. PICK full : MirrorOf(full) BY DEF DeltaInv
<1>3. /\ full \in [0 .. Len(wire) -> Seq(Cell)]
      /\ ~broken => full[0] = mirror
      /\ \A i \in 1 .. Len(wire) :
           /\ full[i] = (IF HasReset(wire[i].ops) THEN <<>> ELSE full[i - 1]) \o wire[i].delta
           /\ Right(wire[i].ops, wire[i].epoch, full[i])
      /\ InSync => lastLen <= Len(arena) /\ full[Len(wire)] = SubSeq(arena, 1, lastLen)
  BY <1>2 DEF MirrorOf
<1>4. wire \in Seq(Message) /\ arena \in Seq(Cell) /\ lastLen \in Nat /\ epoch \in Nat
  BY DEF LinkTypeOK
<1>5. ASSUME UNCHANGED <<wire, mirror, broken>>,
             InSync' => lastLen' <= Len(arena') /\ full[Len(wire)] = SubSeq(arena', 1, lastLen')
      PROVE  DeltaInv'
  <2>1. MirrorOf(full)' BY <1>1, <1>3, <1>5 DEF MirrorOf, Right
  <2>2. QED BY <2>1 DEF DeltaInv
<1>6. ASSUME NEW t \in Texts, SetText(t) PROVE DeltaInv'
  <2> DEFINE op == [cmd |-> "text", ref |-> Len(arena), text |-> t, n |-> pushed + 1, epoch |-> epoch]
  <2>1. op \in Opcode /\ op.cmd = "text" BY DEF LinkTypeOK, Opcode, Cell
  <2>2. /\ frame' = Append(frame, op) /\ arena' = arena \o Entry(t)
        /\ UNCHANGED <<ready, epoch, lastLen, wire, mirror, broken>>
    BY <1>6 DEF SetText, PushOpcode
  <2> HIDE DEF op
  <2>3. Outstanding' = Outstanding \union {op} BY <2>1, <2>2, PushOutstanding
  <2>4. InSync' => InSync BY <2>2, <2>3 DEF InSync
  <2>5. Entry(t) \in Seq(Cell) BY EntryCellsFit
  <2>6. InSync => lastLen <= Len(arena') /\ full[Len(wire)] = SubSeq(arena', 1, lastLen)
    BY <2>2, <2>5, <1>3, <1>4, PrefixGrown
  <2>7. QED BY <2>2, <2>4, <2>6, <1>5
<1>7. ASSUME Reset PROVE DeltaInv'
  <2> DEFINE op == [cmd |-> "reset", ref |-> 0, text |-> Blank, n |-> pushed + 1, epoch |-> epoch + 1]
  <2>1. op \in Opcode /\ op.cmd = "reset" /\ op.epoch = epoch + 1
    BY DEF LinkTypeOK, Opcode, Cell
  <2>2. /\ frame' = Append(frame, op) /\ epoch' = epoch + 1
        /\ UNCHANGED <<ready, wire, mirror, broken>>
    BY <1>7 DEF Reset, PushOpcode
  <2> HIDE DEF op
  <2>3. op \in Outstanding' BY <2>1, <2>2, PushOutstanding
  <2>4. ~InSync' BY <2>1, <2>2, <2>3 DEF InSync
  <2>5. QED BY <2>2, <2>4, <1>5
<1>8. ASSUME EndFrame PROVE DeltaInv'
  <2>1. Outstanding' = Outstanding BY <1>8, EndOutstanding
  <2>2. arena' = arena /\ UNCHANGED <<epoch, lastLen, wire, mirror, broken>>
    BY <1>8 DEF EndFrame
  <2>3. InSync' => InSync BY <2>1, <2>2 DEF InSync
  <2>4. QED BY <2>2, <2>3, <1>3, <1>5
<1>9. ASSUME EncodeDelta PROVE DeltaInv'
  <2> DEFINE L == Len(wire)
             cmds == NextFrame.ops
             delta == Delta(cmds, arena)
             after == (IF HasReset(cmds) THEN <<>> ELSE full[L]) \o delta
             b == encode_batch(cmds, delta)
  <2>1. /\ wire' = Append(wire, b) /\ lastLen' = Len(arena)
        /\ UNCHANGED <<arena, epoch, mirror, broken>>
    BY <1>9 DEF EncodeDelta, Send
  <2>2. L \in Nat /\ full[L] \in Seq(Cell) BY <1>3, <1>4
  <2>3. /\ delta \in Seq(Cell) /\ after \in Seq(Cell) /\ Right(cmds, epoch, after)
        /\ InSync' => after = arena
    BY <2>2, <1>3, <1>9, DeltaSent
  <2>4. cmds \in Seq(Opcode) BY NextFrameType
  <2>5. b \in Message /\ b.ops = cmds /\ b.delta = delta /\ b.epoch = epoch
    <3> HIDE DEF delta, cmds
    <3>1. b \in Message BY <2>3, <2>4, EncodedType
    <3>2. QED BY <3>1 DEF encode_batch
  <2> HIDE DEF b, delta, cmds
  <2>6. /\ Len(wire') = L + 1 /\ wire'[L + 1] = b
        /\ \A i \in 1 .. L : wire'[i] = wire[i]
    BY <2>1, <2>5, Appended
  <2> HIDE DEF after
  <2>14. PICK next : next = [i \in 0 .. L + 1 |-> IF i = L + 1 THEN after ELSE full[i]]
    OBVIOUS
  <2>7. /\ next \in [0 .. L + 1 -> Seq(Cell)]
        /\ next[L + 1] = after /\ next[0] = full[0]
        /\ \A i \in 1 .. L : next[i] = full[i] /\ next[i - 1] = full[i - 1]
        /\ next[L] = full[L]
    <3>1. next[L + 1] = after /\ next[0] = full[0] /\ next[L] = full[L] BY <2>2, <2>14
    <3>2. \A i \in 1 .. L : next[i] = full[i] /\ next[i - 1] = full[i - 1] BY <2>2, <2>14
    <3>3. \A i \in 0 .. L + 1 : next[i] \in Seq(Cell)
      <4>1. TAKE i \in 0 .. L + 1
      <4>2. CASE i = L + 1 BY <4>2, <3>1, <2>3
      <4>3. CASE i # L + 1
        <5>1. i \in 0 .. L /\ next[i] = full[i] BY <4>3, <2>2, <2>14
        <5>2. QED BY <5>1, <1>3
      <4>4. QED BY <4>2, <4>3
    <3>4. next = [i \in 0 .. L + 1 |-> next[i]] BY <2>14
    <3>5. next \in [0 .. L + 1 -> Seq(Cell)] BY <3>3, <3>4
    <3>6. QED BY <3>1, <3>2, <3>5
  <2>8. ASSUME NEW i \in 1 .. L + 1
        PROVE  /\ next[i] = (IF HasReset(wire'[i].ops) THEN <<>> ELSE next[i - 1])
                              \o wire'[i].delta
               /\ Right(wire'[i].ops, wire'[i].epoch, next[i])
    <3>1. CASE i \in 1 .. L
      <4>1. wire'[i] = wire[i] /\ next[i] = full[i] /\ next[i - 1] = full[i - 1]
        BY <3>1, <2>6, <2>7
      <4>2. QED BY <4>1, <3>1, <1>3
    <3>2. CASE i = L + 1
      <4>1. wire'[i] = b /\ next[i] = after /\ next[i - 1] = full[L]
        BY <3>2, <2>2, <2>6, <2>7
      <4>2. after = (IF HasReset(cmds) THEN <<>> ELSE full[L]) \o delta BY DEF after
      <4>3. wire'[i].ops = cmds /\ wire'[i].delta = delta /\ wire'[i].epoch = epoch
        BY <4>1, <2>5
      <4>4. Right(wire'[i].ops, wire'[i].epoch, next[i]) BY <4>1, <4>3, <2>3
      <4>5. QED BY <4>1, <4>2, <4>3, <4>4
    <3>3. i \in 1 .. L \/ i = L + 1 BY <2>2
    <3>4. QED BY <3>1, <3>2, <3>3
  <2>9. InSync' => lastLen' <= Len(arena') /\ next[L + 1] = SubSeq(arena', 1, lastLen')
    <3>1. Len(arena) <= Len(arena) /\ SubSeq(arena, 1, Len(arena)) = arena BY <1>4
    <3>2. QED BY <3>1, <2>1, <2>3, <2>7
  <2>10. \A i \in 1 .. L + 1 : Right(wire[i].ops, wire[i].epoch, next[i])'
    BY <2>8, <1>1 DEF Right
  <2>11. ~broken' => next[0] = mirror' BY <2>1, <2>7, <1>3
  <2>12. MirrorOf(next)' BY <2>6, <2>7, <2>8, <2>9, <2>10, <2>11 DEF MirrorOf
  <2>13. QED BY <2>12 DEF DeltaInv
<1>10. ASSUME wire # <<>>, wire' = Tail(wire), UNCHANGED <<arena, epoch, lastLen, frame, ready>>,
              ~broken' => mirror' = full[1]
       PROVE  DeltaInv'
  <2>13. PICK next : next = [i \in 0 .. Len(wire') |-> full[i + 1]] OBVIOUS
  <2>1. /\ Len(wire) \in Nat \ {0} /\ Len(wire') = Len(wire) - 1
        /\ \A i \in 1 .. Len(wire') : wire'[i] = wire[i + 1] /\ i + 1 \in 1 .. Len(wire)
    BY <1>10, Removed
  <2>2. \A i \in 0 .. Len(wire') : full[i + 1] \in Seq(Cell)
    <3>1. \A i \in 0 .. Len(wire') : i + 1 \in 0 .. Len(wire) BY <2>1
    <3>2. QED BY <3>1, <1>3
  <2>3. next \in [0 .. Len(wire') -> Seq(Cell)] BY <2>2, <2>13
  <2>4. \A i \in 0 .. Len(wire') : next[i] = full[i + 1] BY <2>13
  <2>5. ASSUME NEW i \in 1 .. Len(wire')
        PROVE  /\ next[i] = (IF HasReset(wire'[i].ops) THEN <<>> ELSE next[i - 1])
                              \o wire'[i].delta
               /\ Right(wire'[i].ops, wire'[i].epoch, next[i])
    <3>1. wire'[i] = wire[i + 1] /\ i + 1 \in 1 .. Len(wire) BY <2>1
    <3>2. i \in 0 .. Len(wire') /\ i - 1 \in 0 .. Len(wire') /\ (i - 1) + 1 = i BY <2>1
    <3>3. next[i] = full[i + 1] /\ next[i - 1] = full[i] BY <3>2, <2>4
    <3>4. (i + 1) - 1 = i BY <3>1
    <3>5. QED BY <3>1, <3>3, <3>4, <1>3
  <2>6. InSync' => InSync BY <1>10 DEF InSync, Outstanding, Completes
  <2>7. next[0] = full[1] /\ next[Len(wire')] = full[Len(wire)]
    <3>1. 0 \in 0 .. Len(wire') /\ Len(wire') \in 0 .. Len(wire') /\ Len(wire') + 1 = Len(wire)
      BY <2>1
    <3>2. QED BY <3>1, <2>4
  <2>8. InSync' => lastLen' <= Len(arena') /\ next[Len(wire')] = SubSeq(arena', 1, lastLen')
    BY <2>6, <2>7, <1>3, <1>10
  <2>9. \A i \in 1 .. Len(wire') : Right(wire[i].ops, wire[i].epoch, next[i])'
    BY <2>5, <1>1 DEF Right
  <2>10. ~broken' => next[0] = mirror' BY <2>7, <1>10
  <2>11. MirrorOf(next)' BY <2>3, <2>5, <2>8, <2>9, <2>10 DEF MirrorOf
  <2>12. QED BY <2>11 DEF DeltaInv
<1>11. ASSUME Decode PROVE DeltaInv'
  <2>1. /\ wire # <<>> /\ wire' = Tail(wire) /\ Head(wire) = wire[1] /\ 1 \in 1 .. Len(wire)
        /\ UNCHANGED <<arena, epoch, lastLen, frame, ready>>
    BY <1>4, <1>11 DEF Decode
  <2>2. mirror' = Mirrored(wire[1]) /\ broken' = (broken /\ ~HasReset(wire[1].ops))
    BY <2>1, <1>11 DEF Decode
  <2>3. 1 - 1 = 0 OBVIOUS
  <2>4. full[1] = (IF HasReset(wire[1].ops) THEN <<>> ELSE full[0]) \o wire[1].delta
    BY <2>1, <2>3, <1>3
  <2>5. ~broken' => mirror' = full[1] BY <2>2, <2>4, <1>3 DEF Mirrored
  <2>6. QED BY <2>1, <2>5, <1>10
<1>12. ASSUME NEW n \in {BATCH_HEADER - 1, BATCH_HEADER}, NEW magic \in BOOLEAN,
              NEW version \in BOOLEAN, Reject(n, magic, version)
       PROVE  DeltaInv'
  BY <1>10, <1>12 DEF Reject
<1>13. ASSUME UNCHANGED vars PROVE DeltaInv'
  <2>1. InSync' => InSync BY <1>13 DEF InSync, Outstanding, Completes, vars
  <2>2. QED BY <2>1, <1>3, <1>5, <1>13 DEF vars
<1>14. QED
  BY <1>6, <1>7, <1>8, <1>9, <1>11, <1>12, <1>13
  DEF Next, Guest, NetPush, NetEncode, BatcherPush, BatcherFlush, EncodeFrame, HostSend,
      GuestDispatch

\* The texts of the batch decoded last were read right, whatever the step.
LEMMA TextsStep ==
  ASSUME LinkTypeOK, WireInv, DeltaInv, EventsInv, TextsArrive, [Next]_vars
  PROVE  TextsArrive'
<1> USE DEF guest, producer, consumer, events
<1>1. codec' = codec
  BY DEF Next, Guest, SetText, Reset, EndFrame, EncodeDelta, NetPush, NetEncode, BatcherPush,
         BatcherFlush, EncodeFrame, Decode, HostSend, GuestDispatch, Reject, vars
<1>2. ASSUME Decode PROVE TextsArrive'
  <2> DEFINE b == wire[1]
             read == [i \in 1 .. Len(b.ops) |-> Read(Section(b), b.ops[i].ref)]
  <2>1. /\ codec # "events" /\ wire # <<>> /\ wire' = Tail(wire)
        /\ b \in Message /\ Head(wire) = b /\ 1 \in 1 .. Len(wire)
    BY <1>2 DEF Decode, LinkTypeOK
  <2>2. /\ got' = [ops |-> b.ops, epoch |-> b.epoch, masked |-> b.masked, read |-> read]
        /\ broken' = (broken /\ ~HasReset(b.ops))
    BY <2>1, <1>2 DEF Decode
  <2>3. codec \in {"delta", "net", "batcher", "frames"} BY <2>1, LinkAssumption DEF LinkTypeOK
  <2>4. ~b.masked /\ ~(codec = "delta" /\ broken') => Right(b.ops, b.epoch, Section(b))
    <3>1. CASE codec = "delta"
      <4>1. PICK full : MirrorOf(full) BY <3>1 DEF DeltaInv
      <4>2. /\ ~broken => full[0] = mirror
            /\ full[1] = (IF HasReset(b.ops) THEN <<>> ELSE full[1 - 1]) \o b.delta
            /\ Right(b.ops, b.epoch, full[1])
        BY <4>1, <2>1 DEF MirrorOf
      <4>3. 1 - 1 = 0 OBVIOUS
      <4>4. ~broken' => Mirrored(b) = full[1] BY <4>2, <4>3, <2>2 DEF Mirrored
      <4>5. QED BY <4>2, <4>4, <3>1 DEF Section
    <3>2. CASE codec # "delta"
      <4>1. ~b.masked => Right(b.ops, b.epoch, b.delta) BY <3>2, <2>1, <2>3 DEF WireInv
      <4>2. QED BY <4>1, <3>2 DEF Section
    <3>3. QED BY <3>1, <3>2
  <2>5. got'.ops = b.ops /\ got'.epoch = b.epoch /\ got'.masked = b.masked /\ got'.read = read
    BY <2>2
  <2>6. ASSUME NEW i \in 1 .. Len(got'.ops), Expected(i)' PROVE got'.read[i] = got'.ops[i].text
    <3>1. /\ b.ops[i].cmd = "text" /\ (b.ops[i].epoch = b.epoch \/ codec = "frames")
          /\ ~(codec = "delta" /\ broken') /\ ~b.masked
      BY <2>5, <2>6, <1>1 DEF Expected
    <3>2. b.ops[i] \in OpsOf(b.ops) BY <2>5 DEF OpsOf
    <3>3. Found(b.ops[i].ref, Section(b), b.ops[i].text) BY <3>1, <3>2, <2>4 DEF Right
    <3>4. read[i] = Read(Section(b), b.ops[i].ref) BY <2>5
    <3> HIDE DEF read
    <3>5. QED BY <3>3, <3>4, <2>5, FoundRead
  <2>7. QED BY <2>6 DEF TextsArrive
<1>3. ASSUME got' = Nothing PROVE TextsArrive'
  BY <1>3 DEF TextsArrive, Nothing
<1>4. ASSUME UNCHANGED <<got, broken>> PROVE TextsArrive'
  BY <1>1, <1>4 DEF TextsArrive, Expected
<1>5. QED
  BY <1>2, <1>3, <1>4
  DEF Next, Guest, SetText, Reset, EndFrame, EncodeDelta, NetPush, NetEncode, BatcherPush,
      BatcherFlush, EncodeFrame, HostSend, GuestDispatch, Reject, vars

\* What the texts of opcodes rest on, in the arena, in the batches and in the
\* mirror.
TextsIInv == ArenaInv /\ FramesInv /\ BatcherInv /\ WireInv /\ DeltaInv /\ TextsArrive

\* TextsArrive is an invariant: a text that can be expected to be right is read as
\* the guest pushed it, for each codec, however frames are gathered into batches:
\* a codec that reads the arena later only if the guest has not reset it since,
\* Batcher only if its length told each reset, a mirror only if it missed no batch
\* since a reset (BatchEncoder, BatchDecoder, NetBatchEncoder, Batcher, encode_frame).
THEOREM TextsRight == Spec => []TextsArrive
<1>1. Init => TextsIInv
  <2> SUFFICES ASSUME Init PROVE TextsIInv OBVIOUS
  <2>1. Outstanding = {} /\ OpsOf(buffer) = {} /\ OpsOf(frame) = {}
    BY DEF Init, Outstanding, Completes, OpsOf
  <2>2. SubSeq(arena, 1, lastLen) = <<>> /\ <<>> \in Seq(Cell)
    <3>1. arena = <<>> /\ lastLen = 0 /\ <<>> \in Seq(Cell) BY DEF Init
    <3>2. QED BY <3>1
  <2>3. ArenaInv BY <2>1 DEF Init, ArenaInv
  <2>4. FramesInv BY <2>1 DEF Init, FramesInv, Right
  <2>5. BatcherInv BY <2>1, <2>2 DEF Init, BatcherInv, BufferRight, Right
  <2>6. WireInv BY DEF Init, WireInv
  <2>7. DeltaInv
    <3>1. PICK full : full = [i \in 0 .. 0 |-> <<>>] OBVIOUS
    <3>2. full \in [0 .. 0 -> Seq(Cell)] /\ full[0] = <<>> BY <3>1
    <3>3. wire = <<>> /\ mirror = <<>> /\ arena = <<>> /\ lastLen = 0 /\ Len(wire) = 0
      BY DEF Init
    <3>4. MirrorOf(full) BY <3>2, <3>3, <2>2 DEF MirrorOf
    <3>5. QED BY <3>4 DEF DeltaInv
  <2>8. TextsArrive BY DEF Init, TextsArrive, Nothing
  <2>9. QED BY <2>3, <2>4, <2>5, <2>6, <2>7, <2>8 DEF TextsIInv
<1>2. LinkIInv /\ TextsIInv /\ [Next]_vars => TextsIInv'
  BY ArenaStep, FramesStep, BatcherStep, WireStep, DeltaStep, TextsStep DEF LinkIInv, TextsIInv
<1>3. TextsIInv => TextsArrive BY DEF TextsIInv
<1>4. QED BY <1>1, <1>2, <1>3, LinkInductive, PTL DEF Spec

-----------------------------------------------------------------------------
(* The inductive invariant.  Nodes are given out in order and shown in order: *)
(* a page below has an earlier one than a page above, and no page a later one *)
(* than a frame under way.  So a page goes without its widget only where a    *)
(* page below has it.                                                         *)

Swaps == [route : Routes, depth : Nat \ {0}, child : Nat]
Shown == [tag : Routes, child : Nat]

NavTypeOK ==
  /\ stack \in Seq(Routes) /\ current \in Routes /\ slot \in Swaps
  /\ nextId \in Nat \ {0} /\ unheard \in BOOLEAN /\ requests \in Nat
  /\ frames \in Seq(Swaps) /\ applied \in Swaps /\ pages \in Seq(Shown) /\ native = pages

\* The slot is what the router says, or the router has said nothing.
SlotRight == slot.route = current /\ (unheard \/ slot.depth = Len(stack) + 1)

\* The first node is no later than the second, if that is one.
Upto(c, d) == d = 0 \/ c <= d

GivenOut ==
  /\ slot.child < nextId /\ applied.child < nextId
  /\ \A k \in 1 .. Len(frames) : frames[k].child < nextId
  /\ \A j \in 1 .. Len(pages) : pages[j].child < nextId

\* Pages have what was emitted before the frames, and the slot has the last.
InTurn ==
  /\ Upto(applied.child, slot.child)
  /\ \A k \in 1 .. Len(frames) :
       Upto(frames[k].child, slot.child) /\ Upto(applied.child, frames[k].child)
  /\ \A j, k \in 1 .. Len(frames) : j < k => Upto(frames[j].child, frames[k].child)
  /\ \A j \in 1 .. Len(pages) :
       /\ Upto(pages[j].child, slot.child) /\ Upto(pages[j].child, applied.child)
       /\ \A k \in 1 .. Len(frames) : Upto(pages[j].child, frames[k].child)

Ascending(P) ==
  \A j, k \in 1 .. Len(P) : j < k => P[k].child = 0 \/ P[j].child < P[k].child

\* Which component each node is, and that whoever has a node has it for a
\* destination that begins so.
Kinds == [Nat -> {Root[r] : r \in Routes}]
Kept(kind) ==
  /\ slot.child # 0 => kind[slot.child] = Root[slot.route]
  /\ applied.child # 0 => kind[applied.child] = Root[applied.route]
  /\ \A k \in 1 .. Len(frames) :
       frames[k].child # 0 => kind[frames[k].child] = Root[frames[k].route]
  /\ \A k \in 1 .. Len(pages) :
       pages[k].child # 0 => kind[pages[k].child] = Root[pages[k].tag]

\* The front of P is f's, with f's child unless a page below has it.
Fronts(P, f) ==
  /\ P # <<>> /\ Last(P).tag = f.route /\ Len(P) <= f.depth
  /\ Last(P).child = f.child \/ \E k \in 1 .. Len(P) - 1 : P[k].child = f.child

\* The last frame under way is the slot's; without one the user is there, or has
\* gone back and the application, which has somewhere to go, will hear of it.
Settling ==
  IF frames # <<>> THEN Last(frames) = slot
  ELSE /\ applied = slot
       /\ \/ unheard \/ slot.child = 0 \/ Fronts(pages, slot)
          \/ requests > 0 /\ stack # <<>>

NavInv ==
  /\ NavTypeOK /\ SlotRight /\ GivenOut /\ InTurn /\ Ascending(pages) /\ Settling
  /\ \E kind \in Kinds : Kept(kind)

-----------------------------------------------------------------------------
(* Lists.                                                                    *)

LEMMA Children ==
  /\ \A f \in Swaps : f.child \in Nat /\ f.depth \in Nat \ {0} /\ f.route \in Routes
  /\ \A p \in Shown : p.child \in Nat /\ p.tag \in Routes
  /\ \A F \in Seq(Swaps) : \A k \in 1 .. Len(F) : F[k] \in Swaps /\ F[k].child \in Nat
  /\ \A P \in Seq(Shown) : \A k \in 1 .. Len(P) : P[k] \in Shown /\ P[k].child \in Nat
<1>1. \A f \in Swaps : f.child \in Nat /\ f.depth \in Nat \ {0} /\ f.route \in Routes
  BY DEF Swaps
<1>2. \A p \in Shown : p.child \in Nat /\ p.tag \in Routes BY DEF Shown
<1>3. \A F \in Seq(Swaps) : \A k \in 1 .. Len(F) : F[k] \in Swaps OBVIOUS
<1>4. \A P \in Seq(Shown) : \A k \in 1 .. Len(P) : P[k] \in Shown OBVIOUS
<1>5. QED BY <1>1, <1>2, <1>3, <1>4

\* What the renderer makes of its pages, if none of them has a later node: the
\* frame's destination is in front, at most at its depth, and all below is as it
\* was; the page in front has the frame's child and no other has, or none.
LEMMA SyncedShows ==
  ASSUME NEW P \in Seq(Shown), NEW f \in Swaps, f.child # 0, Ascending(P),
         \A k \in 1 .. Len(P) : P[k].child <= f.child
  PROVE  LET Q == Synced(P, f)
         IN  /\ Q \in Seq(Shown) /\ Q # <<>> /\ Q[Len(Q)].tag = f.route
             /\ Len(Q) <= f.depth
             /\ \A k \in 1 .. Len(Q) - 1 : k <= Len(P) /\ Q[k] = P[k]
             /\ \/ /\ Q[Len(Q)].child = f.child
                   /\ \A k \in 1 .. Len(Q) - 1 : Q[k].child # f.child
                \/ /\ Q[Len(Q)].child = 0
                   /\ \E k \in 1 .. Len(Q) - 1 : Q[k].child = f.child
<1> DEFINE rest == PoppedTo(P, f.depth)
           Q == Synced(P, f)
<1>1. f.depth \in Nat \ {0} /\ f.child \in Nat /\ f.route \in Routes BY Children
<1>2. /\ rest \in Seq(Shown) /\ Len(rest) \in Nat
      /\ Len(rest) <= f.depth /\ Len(rest) <= Len(P)
      /\ \A k \in 1 .. Len(rest) : rest[k] = P[k]
  BY <1>1 DEF PoppedTo
<1>3. \A k \in 1 .. Len(rest) : rest[k].child \in Nat /\ rest[k].child <= f.child
  BY <1>2, Children
<1> HIDE DEF rest
<1>4. CASE Q = Pushed(rest, f) /\ Len(rest) < f.depth
  <2> DEFINE page == Page(f.route, IF Held(rest, f.child, 0) THEN 0 ELSE f.child)
  <2>1. Q = Append(rest, page) BY <1>4 DEF Pushed
  <2>2. page \in Shown /\ page.tag = f.route BY <1>1 DEF Shown, Page
  <2> HIDE DEF page
  <2>3. /\ Q \in Seq(Shown) /\ Q # <<>> /\ Len(Q) = Len(rest) + 1 /\ Q[Len(rest) + 1] = page
        /\ \A k \in 1 .. Len(rest) : Q[k] = rest[k]
    BY <2>1, <2>2, <1>2
  <2>4. Len(Q) - 1 = Len(rest) /\ Len(Q) <= f.depth BY <2>3, <1>1, <1>2, <1>4
  <2> HIDE DEF Q
  <2>5. ASSUME NEW k \in 1 .. Len(Q) - 1 PROVE k <= Len(P) /\ Q[k] = P[k]
    <3>1. k \in 1 .. Len(rest) BY <2>4
    <3>2. Q[k] = rest[k] /\ rest[k] = P[k] BY <3>1, <2>3, <1>2
    <3>3. k <= Len(rest) /\ Len(rest) <= Len(P) /\ Len(P) \in Nat BY <3>1, <1>2
    <3>4. QED BY <3>2, <3>3
  <2>6. CASE Held(rest, f.child, 0)
    <3>1. page.child = 0 BY <2>6 DEF page, Page
    <3>2. \E k \in 1 .. Len(rest) : rest[k].child = f.child BY <2>6, <1>2 DEF Held
    <3>3. QED BY <3>1, <3>2, <2>2, <2>3, <2>4, <2>5 DEF Q
  <2>7. CASE ~Held(rest, f.child, 0)
    <3>1. page.child = f.child BY <2>7 DEF page, Page
    <3>2. \A k \in 1 .. Len(rest) : rest[k].child # f.child BY <2>7, <1>2 DEF Held
    <3>3. QED BY <3>1, <3>2, <2>2, <2>3, <2>4, <2>5 DEF Q
  <2>8. QED BY <2>6, <2>7
<1>5. CASE Q = TopSet(rest, f) /\ rest # <<>>
  <2> DEFINE top == Len(rest)
             page == Page(f.route, IF Held(rest, f.child, top) THEN rest[top].child ELSE f.child)
  <2>1. top \in 1 .. Len(rest) /\ top \in Nat BY <1>2, <1>5
  <2>2. Q = [rest EXCEPT ![top] = page] BY <1>5, <2>1 DEF TopSet
  <2>3. page \in Shown /\ page.tag = f.route BY <1>1, <1>3, <2>1 DEF Shown, Page
  <2> HIDE DEF page
  <2>4. /\ Q \in Seq(Shown) /\ Q # <<>> /\ Len(Q) = top /\ Q[top] = page
        /\ \A k \in 1 .. Len(Q) - 1 : k \in 1 .. Len(rest) /\ k # top /\ Q[k] = rest[k]
    BY <2>1, <2>2, <2>3, <1>2
  <2> HIDE DEF Q
  <2>5. Len(Q) <= f.depth /\ \A k \in 1 .. Len(Q) - 1 : k <= Len(P) /\ Q[k] = P[k]
    <3>1. Len(Q) <= f.depth BY <2>4, <1>2
    <3>2. ASSUME NEW k \in 1 .. Len(Q) - 1 PROVE k <= Len(P) /\ Q[k] = P[k]
      <4>1. k \in 1 .. Len(rest) /\ Q[k] = rest[k] /\ rest[k] = P[k] BY <2>4, <1>2
      <4>2. k <= Len(rest) /\ Len(rest) <= Len(P) /\ Len(P) \in Nat BY <4>1, <1>2
      <4>3. QED BY <4>1, <4>2
    <3>3. QED BY <3>1, <3>2
  <2>6. DOMAIN rest = 1 .. Len(rest) BY <1>2
  <2>7. CASE Held(rest, f.child, top)
    <3>1. page.child = rest[top].child BY <2>7 DEF page, Page
    <3>2. PICK k \in 1 .. Len(rest) : k # top /\ rest[k].child = f.child
      <4>1. \E k \in DOMAIN rest : k # top /\ rest[k].child = f.child BY <2>7, Zenon DEF Held
      <4>2. QED BY <4>1, <2>6, Zenon
    <3>3. k < top /\ k \in 1 .. Len(Q) - 1
      <4>1. k \in Nat /\ 1 <= k /\ k <= top /\ k # top BY <3>2, <1>2
      <4>2. k < top BY <4>1, <2>1
      <4>3. Len(Q) = top BY <2>4
      <4>4. QED BY <4>1, <4>2, <4>3, <2>1
    <3>4. rest[top].child = 0 \/ rest[k].child < rest[top].child
      BY <3>3, <2>1, <1>2 DEF Ascending
    <3>5. rest[top].child = 0 BY <3>2, <3>4, <2>1, <1>1, <1>3
    <3>6. Q[k].child = f.child BY <3>2, <3>3, <2>4
    <3>7. QED BY <3>1, <3>3, <3>5, <3>6, <2>3, <2>4, <2>5 DEF Q
  <2>8. CASE ~Held(rest, f.child, top)
    <3>1. page.child = f.child BY <2>8 DEF page, Page
    <3>2. \A k \in 1 .. Len(Q) - 1 : Q[k].child # f.child BY <2>4, <2>6, <2>8 DEF Held
    <3>3. QED BY <3>1, <3>2, <2>3, <2>4, <2>5 DEF Q
  <2>9. QED BY <2>7, <2>8
<1>6. QED
  <2>1. CASE rest = <<>>
    <3>1. Synced(P, f) = Pushed(rest, f) BY <2>1 DEF Synced, rest
    <3>2. QED BY <3>1, <2>1, <1>1, <1>4
  <2>2. CASE rest # <<>> /\ NavAction(Len(rest), f, Last(rest).tag) = "push"
    <3>1. Synced(P, f) = Pushed(rest, f) BY <2>2 DEF Synced, rest
    <3>2. Len(rest) < f.depth BY <2>2 DEF NavAction
    <3>3. QED BY <3>1, <3>2, <1>4
  <2>3. CASE rest # <<>> /\ NavAction(Len(rest), f, Last(rest).tag) # "push"
    <3>1. Synced(P, f) = TopSet(rest, f) BY <2>3 DEF Synced, rest
    <3>2. QED BY <3>1, <2>3, <1>5
  <2>4. QED BY <2>1, <2>2, <2>3

-----------------------------------------------------------------------------
(* The application's steps.                                                  *)

LEMMA GoMoves ==
  ASSUME NavInv, NEW route \in Routes, NEW rest \in Seq(Routes), Go(route, rest),
         UNCHANGED renderer, requests' \in Nat, rest = stack => requests' >= requests
  PROVE  NavInv'
<1> DEFINE target == Guarded(route)
           child == Child(target)
           swapped == [route |-> target, depth |-> Len(rest) + 1, child |-> child]
<1>1. target \in Routes BY NavigationAssumption DEF Guarded
<1>2. /\ frames \in Seq(Swaps) /\ pages \in Seq(Shown) /\ nextId \in Nat \ {0}
      /\ slot \in Swaps /\ applied \in Swaps /\ slot.child \in Nat /\ applied.child \in Nat
      /\ \A k \in 1 .. Len(frames) : frames[k].child \in Nat
      /\ \A k \in 1 .. Len(pages) : pages[k].child \in Nat
  BY Children DEF NavInv, NavTypeOK
<1> DEFINE All(c) == /\ c = applied.child \/ (\E k \in 1 .. Len(frames) : c = frames[k].child)
                        \/ (\E k \in 1 .. Len(pages) : c = pages[k].child)
<1>6. \A c : All(c) => c \in Nat /\ c < nextId /\ Upto(c, slot.child)
  BY <1>2 DEF NavInv, GivenOut, InTurn
<1> HIDE DEF All
<1>7. /\ All(applied.child)
      /\ \A k \in 1 .. Len(frames) : All(frames[k].child)
      /\ \A k \in 1 .. Len(pages) : All(pages[k].child)
  BY DEF All
<1>3. stack' = rest /\ current' = target /\ UNCHANGED <<applied, pages, native>>
  BY DEF Go, renderer
<1>4. CASE target = current
  <2>1. UNCHANGED <<slot, nextId, frames>> /\ unheard' = (unheard \/ rest # stack)
    BY <1>4 DEF Go
  <2>2. NavTypeOK' BY <2>1, <1>1, <1>3 DEF NavInv, NavTypeOK
  <2>3. SlotRight' BY <2>1, <1>3, <1>4 DEF NavInv, NavTypeOK, SlotRight
  <2>4. GivenOut' /\ InTurn' /\ Ascending(pages)' BY <2>1, <1>3 DEF NavInv, GivenOut, InTurn, Ascending
  <2>5. Settling'
    <3>1. CASE frames # <<>> BY <3>1, <2>1 DEF NavInv, Settling
    <3>2. CASE frames = <<>> /\ rest # stack
      BY <3>2, <2>1, <1>3 DEF NavInv, NavTypeOK, Settling
    <3>3. CASE frames = <<>> /\ rest = stack
      <4>1. requests > 0 => requests' > 0 BY <3>3 DEF NavInv, NavTypeOK
      <4>2. QED BY <4>1, <3>3, <2>1, <1>3 DEF NavInv, NavTypeOK, Settling, Fronts
    <3>4. QED BY <3>1, <3>2, <3>3
  <2>6. (\E kind \in Kinds : Kept(kind))' BY <2>1, <1>3 DEF NavInv, Kept, Kinds
  <2>7. QED BY <2>2, <2>3, <2>4, <2>5, <2>6 DEF NavInv
<1>5. CASE target # current
  <2>1. /\ slot' = swapped /\ frames' = Append(frames, swapped) /\ unheard' = FALSE
        /\ nextId' = IF child = nextId THEN nextId + 1 ELSE nextId
    BY <1>5 DEF Go
  <2>2. \/ child = 0
        \/ child = slot.child /\ slot.child # 0 /\ Root[target] = Root[current]
        \/ child = nextId
    BY DEF Child
  <2>3. /\ swapped \in Swaps /\ child \in Nat /\ swapped.route = target
        /\ swapped.depth = Len(rest) + 1 /\ swapped.child = child
    BY <2>2, <1>1, <1>2 DEF Swaps
  <2>15. target \in Routes BY <1>1
  <2> HIDE DEF target, child, swapped
  <2>4. /\ Len(frames') = Len(frames) + 1 /\ frames'[Len(frames) + 1] = swapped
        /\ Len(frames) \in Nat /\ frames' \in Seq(Swaps)
        /\ \A k \in 1 .. Len(frames) : frames'[k] = frames[k]
        /\ \A k \in 1 .. Len(frames') : k \in 1 .. Len(frames) \/ k = Len(frames) + 1
    BY <2>1, <2>3, <1>2
  <2>5. nextId' \in Nat \ {0} /\ nextId <= nextId' /\ child < nextId'
    BY <2>1, <2>2, <2>3, <1>2 DEF NavInv, GivenOut
  <2>6. NavTypeOK' BY <2>1, <2>3, <2>4, <2>5, <1>1, <1>3 DEF NavInv, NavTypeOK
  <2>7. SlotRight' BY <2>1, <2>3, <1>3 DEF SlotRight
  <2>8. GivenOut'
    <3>1. slot'.child < nextId' /\ applied'.child < nextId'
      BY <2>1, <2>3, <2>5, <1>2, <1>3 DEF NavInv, GivenOut
    <3>5. \A c : All(c) => c < nextId' BY <2>5, <1>2, <1>6
    <3>2. \A k \in 1 .. Len(frames') : frames'[k].child < nextId'
      BY <3>5, <2>3, <2>4, <2>5, <1>7
    <3>3. \A k \in 1 .. Len(pages) : pages[k].child < nextId' BY <3>5, <1>7
    <3>4. QED BY <3>1, <3>2, <3>3, <1>3 DEF GivenOut
  <2>9. /\ Upto(applied.child, child)
        /\ \A k \in 1 .. Len(frames) : Upto(frames[k].child, child)
        /\ \A k \in 1 .. Len(pages) : Upto(pages[k].child, child)
    <3>1. CASE child = 0 BY <3>1 DEF Upto
    <3>2. CASE child = slot.child /\ slot.child # 0 BY <3>2, <1>6, <1>7
    <3>3. CASE child = nextId
      <4>1. \A c : All(c) => c <= child BY <3>3, <1>2, <1>6
      <4>2. QED BY <4>1, <1>7 DEF Upto
    <3>4. QED BY <3>1, <3>2, <3>3, <2>2
  <2>10. InTurn'
    <3>1. Upto(child, child) BY <2>3 DEF Upto
    <3>2. \A k \in 1 .. Len(frames') :
            Upto(frames'[k].child, child) /\ Upto(applied.child, frames'[k].child)
      BY <3>1, <2>3, <2>4, <2>9 DEF NavInv, InTurn
    <3>3. \A j, k \in 1 .. Len(frames') : j < k => Upto(frames'[j].child, frames'[k].child)
      <4>1. TAKE j \in 1 .. Len(frames'), k \in 1 .. Len(frames')
      <4>2. HAVE j < k
      <4>3. j \in 1 .. Len(frames) BY <4>2, <2>4
      <4>4. QED BY <4>2, <4>3, <2>3, <2>4, <2>9 DEF NavInv, InTurn
    <3>4. \A j \in 1 .. Len(pages), k \in 1 .. Len(frames') :
            Upto(pages[j].child, frames'[k].child)
      BY <2>3, <2>4, <2>9 DEF NavInv, InTurn
    <3>5. \A j \in 1 .. Len(pages) : Upto(pages[j].child, applied.child) BY DEF NavInv, InTurn
    <3>6. slot'.child = child BY <2>1, <2>3
    <3>7. QED BY <3>2, <3>3, <3>4, <3>5, <3>6, <2>9, <1>3 DEF InTurn
  <2>11. Ascending(pages)' BY <1>3 DEF NavInv, Ascending
  <2>12. Settling' BY <2>1, <2>4 DEF Settling, Last
  <2>13. (\E kind \in Kinds : Kept(kind))'
    <3>1. PICK kind \in Kinds : Kept(kind) BY DEF NavInv
    <3>2. PICK more \in Kinds : /\ (child # 0 => more[child] = Root[target])
                                 /\ \A c \in Nat : c # child => more[c] = kind[c]
      <4> DEFINE m == [kind EXCEPT ![child] = Root[target]]
      <4>1. m \in Kinds /\ DOMAIN kind = Nat BY <3>1, <2>15 DEF Kinds
      <4>2. m[child] = Root[target] /\ \A c \in Nat : c # child => m[c] = kind[c]
        BY <4>1, <2>3
      <4> HIDE DEF m
      <4>3. QED BY <4>1, <4>2
    <3>5. CASE child = slot.child /\ slot.child # 0 /\ Root[target] = Root[current]
      <4>1. kind[child] = Root[target] BY <3>1, <3>5 DEF Kept, NavInv, SlotRight
      <4>2. Kept(kind)' 
        BY <4>1, <3>1, <2>1, <2>3, <2>4, <1>3 DEF Kept
      <4>3. QED BY <4>2, <3>1 DEF Kinds
    <3>6. CASE child = 0 \/ child = nextId
      <4>1. \A c \in Nat : c # 0 /\ c < nextId => more[c] = kind[c] BY <3>2, <3>6, <1>2
      <4>2. applied.child # 0 => more[applied.child] = Root[applied.route]
        BY <4>1, <3>1, <1>2 DEF Kept, NavInv, GivenOut
      <4>3. \A k \in 1 .. Len(frames) :
              frames[k].child # 0 => more[frames[k].child] = Root[frames[k].route]
        BY <4>1, <3>1, <1>2 DEF Kept, NavInv, GivenOut
      <4>4. \A k \in 1 .. Len(pages) :
              pages[k].child # 0 => more[pages[k].child] = Root[pages[k].tag]
        BY <4>1, <3>1, <1>2 DEF Kept, NavInv, GivenOut
      <4>5. Kept(more)' BY <4>2, <4>3, <4>4, <3>2, <2>1, <2>3, <2>4, <1>3 DEF Kept
      <4>6. QED BY <4>5, <3>2 DEF Kinds
    <3>7. QED BY <3>5, <3>6, <2>2
  <2>14. QED BY <2>6, <2>7, <2>8, <2>10, <2>11, <2>12, <2>13 DEF NavInv
<1>8. QED BY <1>4, <1>5

\* Nothing but a request less, of an application that has nowhere to go.
LEMMA NothingMoves ==
  ASSUME NavInv, UNCHANGED <<application, renderer>>, requests' \in Nat,
         requests' >= requests \/ stack = <<>>
  PROVE  NavInv'
<1>1. UNCHANGED <<stack, current, slot, nextId, unheard, frames, applied, pages, native>>
  BY DEF application, renderer
<1>2. requests > 0 /\ stack # <<>> => requests' > 0 BY DEF NavInv, NavTypeOK
<1>3. NavTypeOK' /\ SlotRight' BY <1>1 DEF NavInv, NavTypeOK, SlotRight
<1>4. GivenOut' /\ InTurn' /\ Ascending(pages)'
  BY <1>1 DEF NavInv, GivenOut, InTurn, Ascending
<1>5. Settling' BY <1>1, <1>2 DEF NavInv, Settling, Fronts
<1>6. (\E kind \in Kinds : Kept(kind))' BY <1>1 DEF NavInv, Kept, Kinds
<1>7. QED BY <1>3, <1>4, <1>5, <1>6 DEF NavInv

LEMMA BackMoves ==
  ASSUME NavInv, Back, UNCHANGED renderer, requests' \in Nat
  PROVE  NavInv'
<1>1. CASE stack = <<>> BY <1>1, NothingMoves DEF Back
<1>2. CASE stack # <<>>
  <2>1. stack \in Seq(Routes) BY DEF NavInv, NavTypeOK
  <2>2. /\ Head(stack) \in Routes /\ Tail(stack) \in Seq(Routes)
        /\ Len(Tail(stack)) = Len(stack) - 1 /\ Len(stack) \in Nat
    BY <1>2, <2>1
  <2>3. Tail(stack) = stack => requests' >= requests
    <3>1. ASSUME Tail(stack) = stack PROVE FALSE
      <4>1. Len(Tail(stack)) = Len(stack) BY <3>1, Zenon
      <4>2. QED BY <4>1, <2>2
    <3>2. QED BY <3>1
  <2>4. Go(Head(stack), Tail(stack)) BY <1>2 DEF Back
  <2> DEFINE route == Head(stack)
             rest == Tail(stack)
  <2>5. /\ route \in Routes /\ rest \in Seq(Routes) /\ Go(route, rest)
        /\ rest = stack => requests' >= requests
    BY <2>2, <2>3, <2>4, Zenon
  <2> HIDE DEF route, rest
  <2>6. QED BY <2>5, GoMoves
<1>3. QED BY <1>1, <1>2

-----------------------------------------------------------------------------
(* The renderer's.                                                           *)

LEMMA PagesSynced ==
  ASSUME NavInv, NEW f \in Swaps, RenderSlot(f),
         \/ f = applied /\ frames' = frames
         \/ frames # <<>> /\ f = Head(frames) /\ frames' = Tail(frames)
  PROVE  NavInv'
<1> DEFINE P == Synced(pages, f)
<1>1. /\ frames \in Seq(Swaps) /\ pages \in Seq(Shown) /\ native = pages
      /\ nextId \in Nat \ {0} /\ f.child \in Nat /\ slot.child \in Nat
      /\ \A k \in 1 .. Len(frames) : frames[k].child \in Nat
      /\ \A k \in 1 .. Len(pages) : pages[k].child \in Nat
  BY Children DEF NavInv, NavTypeOK
<1>2. /\ applied' = f /\ pages' = P /\ native' = P
      /\ UNCHANGED <<stack, current, slot, nextId, unheard, requests>>
  BY <1>1 DEF RenderSlot
<1>3. /\ frames' \in Seq(Swaps)
      /\ \A k \in 1 .. Len(frames') :
           /\ frames'[k].child \in Nat /\ frames'[k].child < nextId
           /\ Upto(frames'[k].child, slot.child) /\ Upto(f.child, frames'[k].child)
           /\ \A j \in 1 .. Len(pages) : Upto(pages[j].child, frames'[k].child)
      /\ \A j, k \in 1 .. Len(frames') : j < k => Upto(frames'[j].child, frames'[k].child)
      /\ f.child < nextId /\ Upto(f.child, slot.child)
      /\ \A j \in 1 .. Len(pages) : Upto(pages[j].child, f.child)
  <2>1. CASE f = applied /\ frames' = frames
    BY <2>1, <1>1 DEF NavInv, NavTypeOK, GivenOut, InTurn
  <2>2. CASE frames # <<>> /\ f = Head(frames) /\ frames' = Tail(frames)
    <3>1. f = frames[1] /\ 1 \in 1 .. Len(frames) BY <2>2, <1>1
    <3>2. /\ frames' \in Seq(Swaps)
          /\ \A k \in 1 .. Len(frames') :
               frames'[k] = frames[k + 1] /\ k + 1 \in 1 .. Len(frames) /\ 1 < k + 1
      BY <2>2, <1>1
    <3>3. ASSUME NEW j \in 1 .. Len(frames'), NEW k \in 1 .. Len(frames'), j < k
          PROVE  Upto(frames'[j].child, frames'[k].child)
      <4>1. j + 1 < k + 1 BY <3>3
      <4>2. QED BY <4>1, <3>2 DEF NavInv, InTurn
    <3>4. QED BY <3>1, <3>2, <3>3, <1>1 DEF NavInv, GivenOut, InTurn
  <2>3. QED BY <2>1, <2>2
<1>4. ASSUME f.child # 0
      PROVE  /\ P \in Seq(Shown) /\ P # <<>> /\ P[Len(P)].tag = f.route /\ Len(P) <= f.depth
             /\ \A k \in 1 .. Len(P) - 1 : k <= Len(pages) /\ P[k] = pages[k]
             /\ \/ /\ P[Len(P)].child = f.child
                   /\ \A k \in 1 .. Len(P) - 1 : P[k].child # f.child
                \/ /\ P[Len(P)].child = 0
                   /\ \E k \in 1 .. Len(P) - 1 : P[k].child = f.child
  <2>1. \A k \in 1 .. Len(pages) : pages[k].child <= f.child BY <1>3, <1>4 DEF Upto
  <2>2. Ascending(pages) BY DEF NavInv
  <2>3. QED BY <1>1, <1>4, <2>1, <2>2, SyncedShows, Zenon
<1>5. f.child = 0 => P = pages BY DEF Synced
<1> HIDE DEF P
<1>6. /\ P \in Seq(Shown) /\ Len(P) \in Nat
      /\ \A k \in 1 .. Len(P) : P[k].child \in Nat
      /\ \A k \in 1 .. Len(P) :
           \/ k \in 1 .. Len(pages) /\ P[k] = pages[k]
           \/ P[k].child = 0
           \/ k = Len(P) /\ f.child # 0 /\ P[k].child = f.child /\ P[k].tag = f.route
  <2>1. CASE f.child = 0 BY <2>1, <1>1, <1>5
  <2>2. CASE f.child # 0
    <3>1. P \in Seq(Shown) /\ Len(P) \in Nat BY <2>2, <1>4
    <3>2. \A k \in 1 .. Len(P) : k = Len(P) \/ k \in 1 .. Len(P) - 1 BY <3>1
    <3>3. \A k \in 1 .. Len(P) - 1 : k \in 1 .. Len(pages) /\ P[k] = pages[k]
      BY <2>2, <3>1, <1>1, <1>4
    <3>4. P[Len(P)].tag = f.route /\ (P[Len(P)].child = f.child \/ P[Len(P)].child = 0)
      BY <2>2, <1>4
    <3>5. QED BY <3>1, <3>2, <3>3, <3>4, <2>2, Children
  <2>3. QED BY <2>1, <2>2
<1>7. NavTypeOK' BY <1>2, <1>3, <1>6 DEF NavInv, NavTypeOK
<1>8. SlotRight' BY <1>2 DEF NavInv, SlotRight
<1>9. GivenOut'
  <2>1. \A k \in 1 .. Len(P) : P[k].child < nextId BY <1>1, <1>3, <1>6 DEF NavInv, GivenOut
  <2>2. QED BY <2>1, <1>2, <1>3 DEF NavInv, GivenOut
<1>10. InTurn'
  <2>1. Upto(f.child, f.child) /\ \A c \in Nat : Upto(0, c) BY <1>1 DEF Upto
  <2>2. \A j \in 1 .. Len(P) :
          /\ Upto(P[j].child, slot.child) /\ Upto(P[j].child, f.child)
          /\ \A k \in 1 .. Len(frames') : Upto(P[j].child, frames'[k].child)
    BY <2>1, <1>1, <1>3, <1>6 DEF NavInv, InTurn
  <2>3. QED BY <2>2, <1>2, <1>3 DEF InTurn
<1>11. Ascending(P)
  <2>1. CASE f.child = 0 BY <2>1, <1>5 DEF NavInv
  <2>2. CASE f.child # 0
    <3>1. ASSUME NEW j \in 1 .. Len(P), NEW k \in 1 .. Len(P), j < k
          PROVE  P[k].child = 0 \/ P[j].child < P[k].child
      <4>1. j \in 1 .. Len(P) - 1 /\ j \in 1 .. Len(pages) /\ P[j] = pages[j]
        BY <3>1, <2>2, <1>1, <1>4, <1>6
      <4>2. CASE k \in 1 .. Len(pages) /\ P[k] = pages[k]
        BY <4>1, <4>2, <3>1 DEF NavInv, Ascending
      <4>3. CASE k = Len(P) /\ P[k].child = f.child
        <5>1. P[j].child # f.child BY <4>1, <4>3, <2>2, <1>4
        <5>2. P[j].child <= f.child BY <4>1, <2>2, <1>3 DEF Upto
        <5>3. QED BY <5>1, <5>2, <4>1, <4>3, <1>1
      <4>4. QED BY <4>2, <4>3, <1>6
    <3>2. QED BY <3>1 DEF Ascending
  <2>3. QED BY <2>1, <2>2
<1>12. Settling'
  <2>1. CASE frames' # <<>>
    <3>1. CASE f = applied /\ frames' = frames BY <3>1, <2>1, <1>2 DEF NavInv, Settling
    <3>2. CASE frames # <<>> /\ f = Head(frames) /\ frames' = Tail(frames)
      <4>1. Len(frames) \in Nat /\ Len(Tail(frames)) = Len(frames) - 1 /\ Len(Tail(frames)) \in Nat
        BY <3>2, <1>1
      <4>2. Len(Tail(frames)) \in 1 .. Len(Tail(frames)) BY <4>1, <3>2, <2>1, <1>3
      <4>3. Tail(frames)[Len(Tail(frames))] = frames[Len(frames)] BY <4>1, <4>2, <1>1, <3>2
      <4>4. Last(frames') = Last(frames) BY <4>3, <3>2 DEF Last
      <4>5. QED BY <4>4, <3>2, <2>1, <1>2 DEF NavInv, Settling
    <3>3. QED BY <3>1, <3>2
  <2>2. CASE frames' = <<>>
    <3>1. f = slot
      <4>1. CASE f = applied /\ frames' = frames BY <4>1, <2>2 DEF NavInv, Settling
      <4>2. CASE frames # <<>> /\ f = Head(frames) /\ frames' = Tail(frames)
        <5>3. Tail(frames) = <<>> BY <4>2, <2>2
        <5>4. Len(frames) \in Nat /\ Len(Tail(frames)) = Len(frames) - 1 BY <4>2, <1>1
        <5>6. Len(<<>>) = 0 OBVIOUS
        <5>7. Len(Tail(frames)) = 0 BY <5>3, <5>6, Zenon
        <5>1. Len(frames) = 1 BY <5>4, <5>7
        <5>2. f = Last(frames) BY <5>1, <4>2, <1>1 DEF Last
        <5>5. QED BY <5>2, <4>2 DEF NavInv, Settling
      <4>3. QED BY <4>1, <4>2
    <3>2. f.child # 0 => Fronts(P, f)
      <4>1. ASSUME f.child # 0 PROVE Fronts(P, f)
        <5>1. Last(P) = P[Len(P)] BY DEF Last
        <5>2. QED BY <5>1, <4>1, <1>4 DEF Fronts
      <4>2. QED BY <4>1
    <3>3. QED BY <3>1, <3>2, <2>2, <1>2 DEF Settling
  <2>3. QED BY <2>1, <2>2
<1>13. (\E kind \in Kinds : Kept(kind))'
  <2>1. PICK kind \in Kinds : Kept(kind) BY DEF NavInv
  <2>2. f.child # 0 => kind[f.child] = Root[f.route]
    <3>1. CASE f = applied BY <3>1, <2>1 DEF Kept
    <3>2. CASE frames # <<>> /\ f = Head(frames)
      <4>1. f = frames[1] /\ 1 \in 1 .. Len(frames) BY <3>2, <1>1
      <4>2. QED BY <4>1, <2>1 DEF Kept
    <3>3. QED BY <3>1, <3>2
  <2>3. \A k \in 1 .. Len(P) : P[k].child # 0 => kind[P[k].child] = Root[P[k].tag]
    BY <2>1, <2>2, <1>6 DEF Kept
  <2>4. \A k \in 1 .. Len(frames') :
          frames'[k].child # 0 => kind[frames'[k].child] = Root[frames'[k].route]
    <3>1. CASE frames' = frames BY <3>1, <2>1 DEF Kept
    <3>2. CASE frames # <<>> /\ frames' = Tail(frames)
      <4>1. \A k \in 1 .. Len(frames') : frames'[k] = frames[k + 1] /\ k + 1 \in 1 .. Len(frames)
        BY <3>2, <1>1
      <4>2. QED BY <4>1, <2>1 DEF Kept
    <3>3. QED BY <3>1, <3>2
  <2>5. Kept(kind)' BY <2>1, <2>2, <2>3, <2>4, <1>2 DEF Kept
  <2>6. QED BY <2>5, <2>1 DEF Kinds
<1>14. Ascending(pages)' BY <1>2, <1>11 DEF Ascending
<1>15. QED BY <1>7, <1>8, <1>9, <1>10, <1>12, <1>13, <1>14 DEF NavInv

LEMMA BackAsked ==
  ASSUME NavInv, NativeBack
  PROVE  NavInv'
<1>1. /\ pages \in Seq(Shown) /\ native = pages /\ Len(pages) > 1 /\ Len(pages) \in Nat
      /\ frames \in Seq(Swaps) /\ requests \in Nat /\ stack \in Seq(Routes) /\ slot \in Swaps
  BY DEF NavInv, NavTypeOK, NativeBack
<1>2. RemoveAt(pages, Len(pages)) = Front(pages)
  <2>1. SubSeq(pages, Len(pages) + 1, Len(pages)) = <<>> BY <1>1
  <2>2. SubSeq(pages, 1, Len(pages) - 1) \in Seq(Shown) BY <1>1
  <2>3. QED BY <2>1, <2>2 DEF RemoveAt, Front
<1>3. /\ native' = Front(pages) /\ pages' = Front(pages) /\ requests' = requests + 1
      /\ UNCHANGED <<stack, current, slot, nextId, unheard, frames, applied>>
  BY <1>1, <1>2 DEF NativeBack, application
<1>4. /\ Front(pages) \in Seq(Shown) /\ Len(Front(pages)) = Len(pages) - 1
      /\ \A k \in 1 .. Len(Front(pages)) : Front(pages)[k] = pages[k] /\ k \in 1 .. Len(pages)
  BY <1>1 DEF Front
<1>5. NavTypeOK' BY <1>1, <1>3, <1>4 DEF NavInv, NavTypeOK
<1>6. SlotRight' BY <1>3 DEF NavInv, SlotRight
<1>7. GivenOut' BY <1>3, <1>4 DEF NavInv, GivenOut
<1>8. InTurn' BY <1>3, <1>4 DEF NavInv, InTurn
<1>9. Ascending(pages)' BY <1>3, <1>4 DEF NavInv, Ascending
<1>10. Settling'
  <2>1. CASE frames # <<>> BY <2>1, <1>3 DEF NavInv, Settling
  <2>2. CASE frames = <<>>
    <3>1. unheard \/ slot.child = 0 \/ stack # <<>>
      <4>1. CASE Fronts(pages, slot) /\ ~unheard
        <5>1. Len(stack) + 1 > 1 BY <4>1, <1>1 DEF Fronts, NavInv, SlotRight
        <5>2. QED BY <5>1
      <4>2. CASE ~Fronts(pages, slot) \/ unheard BY <4>2, <2>2 DEF NavInv, Settling
      <4>3. QED BY <4>1, <4>2
    <3>2. applied = slot BY <2>2 DEF NavInv, Settling
    <3>3. QED BY <2>2, <3>1, <3>2, <1>1, <1>3 DEF Settling
  <2>3. QED BY <2>1, <2>2
<1>11. (\E kind \in Kinds : Kept(kind))'
  <2>1. PICK kind \in Kinds : Kept(kind) BY DEF NavInv
  <2>2. Kept(kind)' BY <2>1, <1>3, <1>4 DEF Kept
  <2>3. QED BY <2>2, <2>1 DEF Kinds
<1>12. QED BY <1>5, <1>6, <1>7, <1>8, <1>9, <1>10, <1>11 DEF NavInv

-----------------------------------------------------------------------------
LEMMA NavStarts ==
  ASSUME NavInit
  PROVE  NavInv
<1> DEFINE first == IF Redirect[Start] = None THEN 1 ELSE 0
           kind == [n \in Nat |-> Root[Start]]
<1>1. /\ stack = <<>> /\ current = Start /\ nextId = 2 /\ requests = 0 /\ unheard = FALSE
      /\ slot = [route |-> Start, depth |-> 1, child |-> first] /\ frames = <<slot>>
      /\ applied = [route |-> Start, depth |-> 1, child |-> 0]
      /\ pages = <<>> /\ native = <<>>
  BY DEF NavInit
<1>2. first \in Nat /\ first < 2 OBVIOUS
<1>3. Start \in Routes /\ slot \in Swaps /\ applied \in Swaps
  BY <1>1, <1>2, NavigationAssumption DEF Swaps
<1> HIDE DEF first
<1>4. /\ Len(frames) = 1 /\ frames[1] = slot /\ frames # <<>> /\ frames \in Seq(Swaps)
      /\ Len(pages) = 0 /\ pages \in Seq(Shown)
  BY <1>1, <1>3
<1>5. NavTypeOK
  <2>1. stack \in Seq(Routes) /\ native = pages BY <1>1
  <2>2. nextId \in Nat \ {0} /\ requests \in Nat BY <1>1
  <2>5. unheard \in BOOLEAN BY <1>1
  <2>3. current \in Routes BY <1>1, <1>3
  <2>4. QED BY <2>1, <2>2, <2>3, <2>5, <1>3, <1>4 DEF NavTypeOK
<1>6. SlotRight /\ GivenOut BY <1>1, <1>2, <1>4 DEF SlotRight, GivenOut
<1>7. InTurn BY <1>1, <1>2, <1>4 DEF InTurn, Upto
<1>8. Ascending(pages) /\ Settling BY <1>1, <1>4 DEF Ascending, Settling, Last
<1>9. kind \in Kinds BY <1>3 DEF Kinds
<1>10. Kept(kind) BY <1>1, <1>2, <1>4 DEF Kept
<1>11. QED BY <1>5, <1>6, <1>7, <1>8, <1>9, <1>10 DEF NavInv

\* The invariant of the two stacks holds in every behaviour, whatever component
\* each destination begins with and wherever the guards lead.
THEOREM NavInductive == NavSpec => []NavInv
<1>1. ASSUME NavInv, [NavNext]_navVars PROVE NavInv'
  <2>1. ASSUME NEW route \in Routes, Navigate(route) PROVE NavInv'
    <3>1. /\ Go(route, stack) /\ UNCHANGED renderer /\ requests' = requests
          /\ stack \in Seq(Routes) /\ requests \in Nat
      BY <1>1, <2>1 DEF Navigate, NavInv, NavTypeOK
    <3>2. requests' \in Nat /\ requests' >= requests BY <3>1
    <3>3. QED BY <1>1, <3>1, <3>2, GoMoves
  <2>2. ASSUME NEW route \in Routes, Push(route) PROVE NavInv'
    <3>1. /\ Go(route, <<current>> \o stack) /\ UNCHANGED renderer /\ requests' = requests
          /\ stack \in Seq(Routes) /\ current \in Routes /\ requests \in Nat
      BY <1>1, <2>2 DEF Push, NavInv, NavTypeOK
    <3>2. <<current>> \o stack \in Seq(Routes) /\ requests' \in Nat /\ requests' >= requests
      BY <3>1
    <3>3. QED BY <1>1, <3>1, <3>2, GoMoves
  <2>3. CASE Pop
    <3>1. Back /\ UNCHANGED renderer /\ requests' \in Nat
      BY <1>1, <2>3 DEF Pop, NavInv, NavTypeOK
    <3>2. QED BY <1>1, <3>1, BackMoves
  <2>4. CASE HandleRequest
    <3>1. Back /\ UNCHANGED renderer /\ requests' \in Nat
      BY <1>1, <2>4 DEF HandleRequest, NavInv, NavTypeOK
    <3>2. QED BY <1>1, <3>1, BackMoves
  <2>5. CASE RenderFrame
    <3>1. frames \in Seq(Swaps) /\ frames # <<>> BY <1>1, <2>5 DEF NavInv, NavTypeOK, RenderFrame
    <3>2. Head(frames) \in Swaps BY <3>1
    <3>3. RenderSlot(Head(frames)) /\ frames' = Tail(frames) BY <2>5 DEF RenderFrame
    <3>4. QED BY <1>1, <3>1, <3>2, <3>3, PagesSynced
  <2>6. CASE RenderOther
    BY <1>1, <2>6, PagesSynced DEF RenderOther, NavInv, NavTypeOK
  <2>7. CASE NativeBack BY <1>1, <2>7, BackAsked
  <2>8. CASE EscapeKey
    <3>1. /\ UNCHANGED <<application, renderer>> /\ requests' = requests + 1
          /\ requests \in Nat
      BY <1>1, <2>8 DEF EscapeKey, NavInv, NavTypeOK
    <3>2. requests' \in Nat /\ requests' >= requests BY <3>1
    <3>3. QED BY <1>1, <3>1, <3>2, NothingMoves
  <2>9. CASE UNCHANGED navVars
    <3>1. /\ UNCHANGED <<application, renderer>> /\ requests' = requests
          /\ requests \in Nat
      BY <1>1, <2>9 DEF navVars, NavInv, NavTypeOK
    <3>2. requests' \in Nat /\ requests' >= requests BY <3>1
    <3>3. QED BY <1>1, <3>1, <3>2, NothingMoves
  <2>10. QED
    BY <1>1, <2>1, <2>2, <2>3, <2>4, <2>5, <2>6, <2>7, <2>8, <2>9 DEF NavNext
<1>2. QED BY <1>1, NavStarts, PTL DEF NavSpec

\* However the two stacks are popped from both ends, once every frame is applied
\* and every request handled the user is where the application is, as far as the
\* router has said where that is and there is something to show.
THEOREM NavSettlesCorrect == NavSpec => []NavSettles
<1>1. ASSUME NavInv PROVE NavSettles
  <2> SUFFICES ASSUME frames = <<>>, requests = 0, ~unheard, slot.child # 0
               PROVE  /\ native = pages /\ native # <<>>
                      /\ Last(native).tag = current /\ Len(native) <= slot.depth
                      /\ \/ Last(native).child = slot.child
                         \/ \E k \in 1 .. Len(native) - 1 :
                              /\ native[k].child = slot.child
                              /\ Root[native[k].tag] = Root[current]
    BY DEF NavSettles
  <2>1. /\ native = pages /\ pages \in Seq(Shown) /\ slot.route = current
        /\ Fronts(pages, slot)
    BY <1>1 DEF NavInv, NavTypeOK, SlotRight, Settling
  <2>2. PICK kind \in Kinds : Kept(kind) BY <1>1 DEF NavInv
  <2>3. \A k \in 1 .. Len(pages) - 1 :
          pages[k].child = slot.child => Root[pages[k].tag] = Root[current]
    BY <2>1, <2>2 DEF Kept
  <2>4. QED BY <2>1, <2>3 DEF Fronts
<1>2. QED BY <1>1, NavInductive, PTL
=============================================================================
