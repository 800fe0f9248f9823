------------------------- MODULE SignalGraph_proofs --------------------------
(* Proofs about SignalGraph, for every set of nodes, values and bodies.      *)
EXTENDS SignalGraph, TLAPS

-----------------------------------------------------------------------------
(* Lists.                                                                    *)

\* A list with one element put in front.
LEMMA Cons ==
  ASSUME NEW S, NEW x \in S, NEW s \in Seq(S)
  PROVE  /\ <<x>> \o s \in Seq(S) /\ <<x>> \o s # <<>>
         /\ Len(<<x>> \o s) = Len(s) + 1
         /\ (<<x>> \o s)[1] = x
         /\ \A i \in 1 .. Len(s) : (<<x>> \o s)[i + 1] = s[i]
         /\ \A i \in 2 .. Len(s) + 1 : (<<x>> \o s)[i] = s[i - 1]
OBVIOUS

\* A list without its first element.
LEMMA Rests ==
  ASSUME NEW S, NEW s \in Seq(S), s # <<>>
  PROVE  /\ Head(s) = s[1] /\ Head(s) \in S
         /\ Tail(s) \in Seq(S) /\ Len(Tail(s)) = Len(s) - 1 /\ Len(s) >= 1
         /\ \A i \in 1 .. Len(s) - 1 : Tail(s)[i] = s[i + 1]
OBVIOUS

\* What a list without c holds.
LEMMA WithoutOne ==
  ASSUME NEW S, NEW list \in Seq(S), NEW c
  PROVE  /\ Without(list, c) \in Seq(S)
         /\ \A x : Holds(Without(list, c), x) => Holds(list, x)
         /\ \A x : x # c /\ Holds(list, x) => Holds(Without(list, c), x)
         /\ Once(list) => Once(Without(list, c)) /\ ~Holds(Without(list, c), c)
<1>1. CASE ~Holds(list, c)
  BY <1>1 DEF Without
<1>2. CASE Holds(list, c)
  <2> DEFINE at == CHOOSE k \in 1 .. Len(list) : list[k] = c
             fst == SubSeq(list, 1, at - 1)
             snd == SubSeq(list, at + 1, Len(list))
             w == fst \o snd
  <2>1. at \in 1 .. Len(list) /\ list[at] = c
    BY <1>2 DEF Holds
  <2>2. Without(list, c) = w
    BY <1>2 DEF Without
  <2> HIDE DEF at
  <2>3. /\ fst \in Seq(S) /\ Len(fst) = at - 1
        /\ \A i \in 1 .. at - 1 : fst[i] = list[i]
    BY <2>1
  <2>4. /\ snd \in Seq(S) /\ Len(snd) = Len(list) - at
        /\ \A i \in 1 .. Len(list) - at : snd[i] = list[at + i]
    BY <2>1
  <2> HIDE DEF fst, snd
  <2>5. /\ w \in Seq(S) /\ Len(w) = Len(list) - 1
        /\ \A i \in 1 .. Len(w) : w[i] = IF i < at THEN list[i] ELSE list[i + 1]
    <3>1. fst \in Seq(S) /\ snd \in Seq(S)
      BY <2>3, <2>4
    <3>2. /\ w \in Seq(S) /\ Len(w) = Len(fst) + Len(snd)
          /\ \A i \in 1 .. Len(fst) + Len(snd) :
               w[i] = IF i <= Len(fst) THEN fst[i] ELSE snd[i - Len(fst)]
      BY <3>1, SMTT(30)
    <3> HIDE DEF w
    <3>3. ASSUME NEW i \in 1 .. Len(w), i < at PROVE w[i] = list[i]
      BY <2>1, <2>3, <2>4, <3>2, <3>3
    <3>4. ASSUME NEW i \in 1 .. Len(w), ~(i < at) PROVE w[i] = list[i + 1]
      <4> DEFINE k == i - Len(fst)
      <4>1. /\ Len(list) \in Nat /\ at \in 1 .. Len(list) /\ i \in Nat /\ i >= at
            /\ i <= Len(list) - 1 /\ Len(fst) = at - 1
        BY <2>1, <2>3, <2>4, <3>2, <3>4
      <4>2. k \in 1 .. Len(list) - at /\ at + k = i + 1 /\ ~(i <= Len(fst))
        BY <4>1
      <4>3. w[i] = snd[k]
        BY <3>2, <4>2
      <4>4. snd[k] = list[at + k]
        BY <2>4, <4>2
      <4>5. QED BY <4>2, <4>3, <4>4
    <3>5. QED BY <2>1, <2>3, <2>4, <3>2, <3>3, <3>4
  <2> HIDE DEF w
  <2>6. \A x : Holds(w, x) => Holds(list, x)
    BY <2>1, <2>5 DEF Holds
  <2>7. ASSUME NEW x, x # c, Holds(list, x) PROVE Holds(w, x)
    <3>1. PICK i \in 1 .. Len(list) : list[i] = x
      BY <2>7 DEF Holds
    <3>2. CASE i < at
      <4>1. i \in 1 .. Len(w) /\ w[i] = x
        BY <2>1, <2>5, <3>1, <3>2
      <4>2. QED BY <4>1 DEF Holds
    <3>3. CASE i > at
      <4>1. i - 1 \in 1 .. Len(w) /\ w[i - 1] = x
        BY <2>1, <2>5, <3>1, <3>3
      <4>2. QED BY <4>1 DEF Holds
    <3>4. QED BY <2>1, <2>7, <3>1, <3>2, <3>3
  <2>8. ASSUME Once(list) PROVE Once(w) /\ ~Holds(w, c)
    <3>1. ASSUME NEW i \in 1 .. Len(w), NEW j \in 1 .. Len(w), w[i] = w[j]
          PROVE  i = j
      BY <2>1, <2>5, <2>8, <3>1 DEF Once
    <3>2. ASSUME NEW i \in 1 .. Len(w), w[i] = c PROVE FALSE
      BY <2>1, <2>5, <2>8, <3>2 DEF Once
    <3>3. QED BY <3>1, <3>2 DEF Once, Holds
  <2>9. QED BY <2>2, <2>5, <2>6, <2>7, <2>8
<1>3. QED BY <1>1, <1>2

\* What a list with c at its end holds.
LEMMA Appended ==
  ASSUME NEW S, NEW list \in Seq(S), NEW c \in S
  PROVE  /\ Append(list, c) \in Seq(S)
         /\ \A x : Holds(Append(list, c), x) <=> (Holds(list, x) \/ x = c)
         /\ Once(list) /\ ~Holds(list, c) => Once(Append(list, c))
<1>1. /\ Append(list, c) \in Seq(S) /\ Len(Append(list, c)) = Len(list) + 1
      /\ Append(list, c)[Len(list) + 1] = c
      /\ \A i \in 1 .. Len(list) : Append(list, c)[i] = list[i]
  OBVIOUS
<1>2. ASSUME NEW x PROVE Holds(Append(list, c), x) <=> Holds(list, x) \/ x = c
  BY <1>1 DEF Holds
<1>3. Once(list) /\ ~Holds(list, c) => Once(Append(list, c))
  BY <1>1 DEF Holds, Once
<1>4. QED BY <1>1, <1>2, <1>3

\* What the rest of a list holds.
LEMMA Shortened ==
  ASSUME NEW S, NEW list \in Seq(S), list # <<>>, Once(list)
  PROVE  /\ Tail(list) \in Seq(S) /\ Once(Tail(list)) /\ Head(list) \in S
         /\ \A x : Holds(Tail(list), x) <=> Holds(list, x) /\ x # Head(list)
<1>1. /\ Tail(list) \in Seq(S) /\ Head(list) = list[1] /\ list[1] \in S
      /\ Len(list) >= 1 /\ Len(Tail(list)) = Len(list) - 1
      /\ \A i \in 1 .. Len(list) - 1 : Tail(list)[i] = list[i + 1]
  BY Rests
<1>2. Once(Tail(list))
  BY <1>1 DEF Once
<1>3. ASSUME NEW x PROVE Holds(Tail(list), x) <=> Holds(list, x) /\ x # Head(list)
  <2>1. ASSUME NEW i \in 1 .. Len(list) - 1, Tail(list)[i] = x
        PROVE  Holds(list, x) /\ x # Head(list)
    BY <1>1, <2>1 DEF Holds, Once
  <2>2. ASSUME NEW i \in 1 .. Len(list), list[i] = x, x # Head(list)
        PROVE  Holds(Tail(list), x)
    <3>1. i - 1 \in 1 .. Len(Tail(list)) /\ Tail(list)[i - 1] = x
      BY <1>1, <2>2
    <3>2. QED BY <3>1 DEF Holds
  <2>3. QED BY <1>1, <2>1, <2>2 DEF Holds
<1>4. QED BY <1>1, <1>2, <1>3

-----------------------------------------------------------------------------
(* Frames and instructions.                                                  *)

Evals == {"refresh", "torn", "body"}

\* What the node and the results of a frame are.
Whole(fr) ==
  /\ fr.op \in Evals => fr.node \in Nodes
  /\ fr.op = "untracked" => fr.node \in Producers
  /\ fr.op = "body" => Len(fr.seen) <= BodyLength
  /\ fr.op = "mark" => fr.list \in Seq(Nodes) /\ fr.node \in Producers

\* An untracked read was asked for by the body below it.
Asked(s, i) ==
  s[i].op = "untracked" =>
    i < Len(s) /\ s[i + 1].op = "body" /\ Len(s[i + 1].seen) < BodyLength

StackOK(s) ==
  s \in Seq(Frame) /\ \A i \in 1 .. Len(s) : Whole(s[i]) /\ Asked(s, i)

LEMMA StackPop ==
  ASSUME NEW s, StackOK(s), s # <<>>
  PROVE  StackOK(Tail(s))
<1>1. /\ Tail(s) \in Seq(Frame) /\ Len(Tail(s)) = Len(s) - 1 /\ Len(s) \in Nat
      /\ \A i \in 1 .. Len(s) - 1 : Tail(s)[i] = s[i + 1]
  BY Rests DEF StackOK
<1>2. ASSUME NEW i \in 1 .. Len(Tail(s))
      PROVE  Whole(Tail(s)[i]) /\ Asked(Tail(s), i)
  <2>1. i + 1 \in 1 .. Len(s) /\ Tail(s)[i] = s[i + 1]
    BY <1>1
  <2>2. Whole(s[i + 1]) /\ Asked(s, i + 1)
    BY <2>1 DEF StackOK
  <2>3. i + 1 < Len(s) => Tail(s)[i + 1] = s[i + 1 + 1]
    BY <1>1
  <2>4. Asked(Tail(s), i)
    BY <1>1, <2>1, <2>2, <2>3 DEF Asked
  <2>5. QED BY <2>1, <2>2, <2>4
<1>3. QED BY <1>1, <1>2 DEF StackOK

LEMMA StackPush ==
  ASSUME NEW s, StackOK(s), NEW fr \in Frame, Whole(fr),
         fr.op = "untracked" =>
           s # <<>> /\ s[1].op = "body" /\ Len(s[1].seen) < BodyLength
  PROVE  StackOK(<<fr>> \o s)
<1> DEFINE t == <<fr>> \o s
<1>1. /\ t \in Seq(Frame) /\ Len(t) = Len(s) + 1 /\ t[1] = fr /\ Len(s) \in Nat
      /\ \A i \in 1 .. Len(s) : t[i + 1] = s[i]
      /\ \A i \in 2 .. Len(s) + 1 : t[i] = s[i - 1]
  BY Cons DEF StackOK
<1> HIDE DEF t
<1>2. Whole(t[1]) /\ Asked(t, 1)
  BY <1>1 DEF Asked, StackOK
<1>3. ASSUME NEW i \in 2 .. Len(t) PROVE Whole(t[i]) /\ Asked(t, i)
  <2>1. i - 1 \in 1 .. Len(s) /\ t[i] = s[i - 1]
    BY <1>1
  <2>2. Whole(s[i - 1]) /\ Asked(s, i - 1)
    BY <2>1 DEF StackOK
  <2>3. i - 1 < Len(s) => t[i + 1] = s[i - 1 + 1]
    BY <1>1, <2>1
  <2>4. Asked(t, i)
    BY <1>1, <2>1, <2>2, <2>3 DEF Asked
  <2>5. QED BY <2>1, <2>2, <2>4
<1>4. \A i \in 1 .. Len(t) : i = 1 \/ i \in 2 .. Len(t)
  BY <1>1
<1>5. StackOK(t)
  BY <1>1, <1>2, <1>3, <1>4 DEF StackOK
<1>6. QED BY <1>5 DEF t

\* Torn changes what a frame does, not which frames there are.
LEMMA TornFrames ==
  ASSUME NEW s \in Seq(Frame), NEW n
  PROVE  /\ Torn(n, s) \in Seq(Frame) /\ Len(Torn(n, s)) = Len(s)
         /\ \A i \in 1 .. Len(s) :
              /\ Torn(n, s)[i].node = s[i].node /\ Torn(n, s)[i].list = s[i].list
              /\ Torn(n, s)[i].seen = s[i].seen
              /\ \/ Torn(n, s)[i].op = s[i].op
                 \/ (s[i].op = "refresh" /\ Torn(n, s)[i].op = "torn")
<1>1. ASSUME NEW i \in 1 .. Len(s)
      PROVE  /\ Torn(n, s)[i] \in Frame
             /\ Torn(n, s)[i].node = s[i].node /\ Torn(n, s)[i].list = s[i].list
             /\ Torn(n, s)[i].seen = s[i].seen
             /\ \/ Torn(n, s)[i].op = s[i].op
                \/ (s[i].op = "refresh" /\ Torn(n, s)[i].op = "torn")
  <2>1. s[i] \in Frame
    OBVIOUS
  <2>2. Torn(n, s)[i] = IF s[i].op = "refresh" /\ s[i].node = n
                          THEN [s[i] EXCEPT !.op = "torn"] ELSE s[i]
    BY DEF Torn
  <2>3. QED BY <2>1, <2>2 DEF Frame, Ops
<1>2. Torn(n, s) \in [1 .. Len(s) -> Frame]
  BY <1>1 DEF Torn
<1>3. Len(s) \in Nat
  OBVIOUS
<1>4. Torn(n, s) \in Seq(Frame) /\ Len(Torn(n, s)) = Len(s)
  BY <1>2, <1>3
<1>5. QED BY <1>1, <1>4

LEMMA StackTorn ==
  ASSUME NEW s, StackOK(s), NEW n
  PROVE  StackOK(Torn(n, s))
<1>1. s \in Seq(Frame) /\ Len(s) \in Nat
  BY DEF StackOK
<1> DEFINE t == Torn(n, s)
<1>2. /\ t \in Seq(Frame) /\ Len(t) = Len(s)
      /\ \A i \in 1 .. Len(s) :
           /\ t[i].node = s[i].node /\ t[i].seen = s[i].seen /\ t[i].list = s[i].list
           /\ t[i].op = s[i].op \/ (s[i].op = "refresh" /\ t[i].op = "torn")
  BY <1>1, TornFrames
<1> HIDE DEF t
<1>3. ASSUME NEW i \in 1 .. Len(s) PROVE Whole(t[i]) /\ Asked(t, i)
  <2>1. Whole(s[i]) /\ Asked(s, i)
    BY DEF StackOK
  <2>2. Whole(t[i])
    BY <1>2, <2>1 DEF Whole, Evals
  <2>3. Asked(t, i)
    BY <1>1, <1>2, <2>1 DEF Asked
  <2>4. QED BY <2>2, <2>3
<1>4. QED BY <1>2, <1>3 DEF StackOK, t

\* What an instruction carries.
LEMMA InstructionParts ==
  ASSUME NEW i \in Instruction
  PROVE  /\ i.do \in {"read", "peek", "write", "create", "destroy", "return", "throw"}
         /\ i.do \in {"read", "peek"} => i.node \in Producers
         /\ i.do = "write" => i.node \in Sources /\ i.value \in Values
         /\ i.do \in {"create", "destroy"} => i.node \in Effects
         /\ i.do = "return" => i.value \in Values
BY DEF Instruction

-----------------------------------------------------------------------------
(* Types.                                                                    *)

DataOK ==
  /\ program \in Programs
  /\ value \in [Sources -> Values]
  /\ cached \in [Computeds -> Values \union {Nothing}]
  /\ error \in [Computeds -> Errors \union {Nothing}]
  /\ dirty \in [Nodes -> BOOLEAN] /\ firstRun \in [Nodes -> BOOLEAN]
  /\ thrown \in Errors \union {Nothing}
  /\ life \in [Effects -> {"unborn", "live", "destroyed", "cut"}]
  /\ ran \subseteq Computeds /\ again \in BOOLEAN /\ wrote \in BOOLEAN /\ broken \in BOOLEAN
  /\ dropped \subseteq Effects /\ missed \subseteq Nodes

EdgesOK ==
  /\ producers \in [Nodes -> Seq(Producers)]
  /\ unseen \in [Nodes -> SUBSET Producers]
  /\ consumers \in [Producers -> Seq(Nodes)]

QueueOK ==
  queue \in Seq(Effects) /\ scheduled \in [Effects -> BOOLEAN] /\ flushing \in BOOLEAN

TypeInv == DataOK /\ EdgesOK /\ QueueOK /\ StackOK(stack)

LEMMA TypeInvImplies == TypeInv => GraphTypeOK
BY DEF TypeInv, DataOK, EdgesOK, QueueOK, StackOK, GraphTypeOK

\* The innermost frame and the ones below it.
LEMMA TopOK ==
  ASSUME StackOK(stack), stack # <<>>
  PROVE  /\ Top \in Frame /\ Top = stack[1] /\ Whole(Top) /\ Len(stack) >= 1
         /\ StackOK(Tail(stack))
         /\ Top.op = "untracked" =>
              /\ Tail(stack) # <<>> /\ Tail(stack)[1].op = "body"
              /\ Len(Tail(stack)[1].seen) < BodyLength
<1>1. /\ stack \in Seq(Frame) /\ Head(stack) = stack[1] /\ Head(stack) \in Frame
      /\ Tail(stack) \in Seq(Frame) /\ Len(Tail(stack)) = Len(stack) - 1
      /\ Len(stack) >= 1 /\ Len(stack) \in Nat
      /\ \A i \in 1 .. Len(stack) - 1 : Tail(stack)[i] = stack[i + 1]
  BY Rests DEF StackOK
<1>2. StackOK(Tail(stack))
  BY StackPop
<1>3. Whole(stack[1]) /\ Asked(stack, 1)
  BY <1>1 DEF StackOK
<1>4. ASSUME Top.op = "untracked"
      PROVE  /\ Tail(stack) # <<>> /\ Tail(stack)[1].op = "body"
             /\ Len(Tail(stack)[1].seen) < BodyLength
  <2>1. 1 < Len(stack) /\ stack[1 + 1].op = "body"
        /\ Len(stack[1 + 1].seen) < BodyLength
    BY <1>1, <1>3, <1>4 DEF Asked, Top
  <2>2. Tail(stack)[1] = stack[1 + 1] /\ Len(Tail(stack)) >= 1
    BY <1>1, <2>1
  <2>3. Tail(stack) # <<>>
    <3>1. Len(Tail(stack)) # 0
      BY <1>1, <2>1
    <3>2. Len(<<>>) = 0
      OBVIOUS
    <3>3. Tail(stack) = <<>> => Len(Tail(stack)) = Len(<<>>)
      BY Zenon
    <3>4. QED BY <3>1, <3>2, <3>3, Zenon
  <2>4. QED BY <2>1, <2>2, <2>3
<1>5. QED BY <1>1, <1>2, <1>3, <1>4 DEF Top

\* What a body does next.
LEMMA InstrOK ==
  ASSUME TypeInv, At("body")
  PROVE  /\ Instr \in Instruction /\ Top.node \in Nodes
         /\ ~Final(Instr) => Len(Top.seen) < BodyLength
<1>1. Top \in Frame /\ Whole(Top) /\ Top.op = "body"
  BY TopOK DEF TypeInv, At
<1> DEFINE k == Len(Top.seen)
<1>2. Top.seen \in Seq(Values \union {Nothing}) /\ k \in Nat /\ k <= BodyLength
  BY <1>1 DEF Frame, Whole
<1>3. k \in 0 .. BodyLength /\ Top.seen \in [1 .. k -> Values \union {Nothing}]
  BY <1>2, GraphAssumption DEF GraphAssumption
<1>4. Top.node \in Nodes /\ program \in Programs
  BY <1>1 DEF Whole, Evals, TypeInv, DataOK
<1>5. /\ Instr \in Instruction
      /\ k = BodyLength => Final(Instr)
  BY <1>3, <1>4, BodyAssumption DEF Instr
<1>6. QED BY <1>2, <1>4, <1>5, GraphAssumption DEF GraphAssumption

LEMMA CallOK ==
  ASSUME NEW op \in Ops, NEW n \in Nodes \union Producers \union {Nothing},
         NEW list \in Seq(Nodes \union Producers)
  PROVE  /\ Call(op, n, list) \in Frame /\ Call(op, n, list).op = op
         /\ Call(op, n, list).node = n /\ Call(op, n, list).list = list
         /\ Call(op, n, list).seen = <<>>
BY DEF Call, Frame

\* Frames put on the stack by a call of the kinds that need no more.
LEMMA PushCall ==
  ASSUME NEW s, StackOK(s), NEW op \in Ops, op # "untracked",
         NEW n \in Nodes \union Producers \union {Nothing}, op \in Evals => n \in Nodes,
         NEW list \in Seq(Nodes \union Producers),
         op = "mark" => list \in Seq(Nodes) /\ n \in Producers
  PROVE  StackOK(<<Call(op, n, list)>> \o s)
<1> DEFINE fr == Call(op, n, list)
<1>1. fr \in Frame /\ fr.op = op /\ fr.node = n /\ fr.seen = <<>> /\ fr.list = list
  BY CallOK
<1> HIDE DEF fr
<1>2. Len(fr.seen) = 0
  BY <1>1
<1>3. Whole(fr)
  BY <1>1, <1>2, GraphAssumption DEF Whole, GraphAssumption
<1>4. StackOK(<<fr>> \o s)
  BY <1>1, <1>3, StackPush
<1>5. QED BY <1>4 DEF fr

LEMMA PushUntracked ==
  ASSUME NEW s, StackOK(s), s # <<>>, s[1].op = "body", Len(s[1].seen) < BodyLength,
         NEW p \in Producers
  PROVE  StackOK(<<Call("untracked", p, <<>>)>> \o s)
<1> DEFINE none == <<>>
           fr == Call("untracked", p, none)
<1>1. "untracked" \in Ops /\ none \in Seq(Nodes \union Producers)
      /\ p \in Nodes \union Producers \union {Nothing}
  BY DEF Ops
<1> HIDE DEF none
<1>2. fr \in Frame /\ fr.op = "untracked" /\ fr.node = p
  BY <1>1, CallOK
<1> HIDE DEF fr
<1>3. Whole(fr)
  BY <1>2 DEF Whole, Evals
<1>4. StackOK(<<fr>> \o s)
  BY <1>2, <1>3, StackPush
<1>5. QED BY <1>4 DEF fr, none

LEMMA AnsweredOK ==
  ASSUME NEW s, StackOK(s), s # <<>>, s[1].op = "body",
         Len(s[1].seen) < BodyLength, NEW v \in Values \union {Nothing}
  PROVE  StackOK(Answered(s, v))
<1> DEFINE fr == [Head(s) EXCEPT !.seen = Append(@, v)]
<1>1. Head(s) = s[1] /\ Head(s) \in Frame /\ Len(s) >= 1 /\ StackOK(Tail(s))
  BY Rests, StackPop DEF StackOK
<1>2. Whole(s[1])
  BY <1>1 DEF StackOK
<1>3. s[1].seen \in Seq(Values \union {Nothing}) /\ s[1].node \in Nodes
  BY <1>1, <1>2 DEF Frame, Whole, Evals
<1>4. /\ Append(s[1].seen, v) \in Seq(Values \union {Nothing})
      /\ Len(Append(s[1].seen, v)) = Len(s[1].seen) + 1
      /\ Len(s[1].seen) \in Nat
  BY <1>3
<1>5. fr \in Frame /\ fr.op = "body" /\ fr.node = s[1].node
      /\ fr.seen = Append(s[1].seen, v)
  BY <1>1, <1>4 DEF Frame
<1> HIDE DEF fr
<1>6. Whole(fr)
  BY <1>3, <1>4, <1>5, GraphAssumption DEF Whole, GraphAssumption
<1>7. StackOK(<<fr>> \o Tail(s))
  BY <1>1, <1>5, <1>6, StackPush
<1>8. QED BY <1>7 DEF Answered, fr

\* The innermost frame with another list.
LEMMA RelistedOK ==
  ASSUME StackOK(stack), stack # <<>>, Top.op # "untracked",
         NEW list \in Seq(Nodes \union Producers), Top.op = "mark" => list \in Seq(Nodes)
  PROVE  StackOK(<<[Top EXCEPT !.list = list]>> \o Tail(stack))
<1> DEFINE fr == [Top EXCEPT !.list = list]
<1>1. Top \in Frame /\ Whole(Top) /\ StackOK(Tail(stack))
  BY TopOK
<1>2. /\ fr \in Frame /\ fr.op = Top.op /\ fr.node = Top.node /\ fr.seen = Top.seen
      /\ fr.list = list
  BY <1>1 DEF Frame
<1> HIDE DEF fr
<1>3. Whole(fr)
  BY <1>1, <1>2 DEF Whole
<1>4. StackOK(<<fr>> \o Tail(stack))
  BY <1>1, <1>2, <1>3, StackPush
<1>5. QED BY <1>4 DEF fr

LEMMA ScheduleOK ==
  ASSUME QueueOK, NEW e \in Effects, NEW frames, StackOK(frames), Schedule(e, frames)
  PROVE  QueueOK' /\ StackOK(stack)'
<1>1. StackOK(<<Call("flush", Nothing, <<>>)>> \o frames)
  <2>1. "flush" \in Ops /\ <<>> \in Seq(Nodes \union Producers)
        /\ Nothing \in Nodes \union Producers \union {Nothing}
    BY DEF Ops
  <2>2. QED BY <2>1, PushCall DEF Evals
<1>2. StackOK(stack')
  BY <1>1 DEF Schedule
<1>3. QueueOK'
  BY DEF QueueOK, Schedule
<1>4. QED BY <1>2, <1>3 DEF StackOK, Asked, Whole

LEMMA ResetOK ==
  ASSUME EdgesOK, NEW n \in Nodes, ResetProducers(n)
  PROVE  EdgesOK'
<1>1. \A p \in Producers : Without(consumers[p], n) \in Seq(Nodes)
  BY WithoutOne DEF EdgesOK
<1>2. consumers' \in [Producers -> Seq(Nodes)]
  BY <1>1 DEF EdgesOK, ResetProducers
<1>3. QED BY <1>2 DEF EdgesOK, ResetProducers

LEMMA BumpOK ==
  ASSUME EdgesOK, NEW p \in Producers
  PROVE  Bump(p) \in [Nodes -> SUBSET Producers]
BY DEF EdgesOK, Bump

\* What is walked by a mark.
LEMMA ConsumersOK ==
  ASSUME EdgesOK, NEW p \in Producers
  PROVE  consumers[p] \in Seq(Nodes \union Producers) /\ consumers[p] \in Seq(Nodes)
BY DEF EdgesOK

LEMMA NewErrorOK == DataOK => NewError \in Errors
<1> SUFFICES ASSUME DataOK PROVE NewError \in Errors
  OBVIOUS
<1>1. \E x \in Errors : x # thrown /\ \A c \in Computeds : error[c] # x
  BY ErrorAssumption DEF DataOK
<1>2. QED BY <1>1 DEF NewError

LEMMA WriteOK ==
  ASSUME EdgesOK, NEW s \in Sources, NEW v, NEW frames, StackOK(frames), Write(s, v, frames)
  PROVE  unseen' \in [Nodes -> SUBSET Producers] /\ StackOK(stack')
<1>1. s \in Producers
  BY DEF Producers
<1>2. StackOK(<<Call("mark", s, consumers[s])>> \o frames)
  BY <1>1, ConsumersOK, PushCall DEF Ops, Evals
<1>3. QED BY <1>1, <1>2, BumpOK DEF Write

LEMMA TypeInit == Init => TypeInv
<1> SUFFICES ASSUME Init PROVE TypeInv
  OBVIOUS
<1>1. DataOK /\ EdgesOK /\ QueueOK
  <2>1. DataOK
    BY DEF Init, DataOK
  <2>2. EdgesOK
    BY DEF Init, EdgesOK
  <2>3. QueueOK
    <3>1. queue \in Seq(Effects)
      BY DEF Init
    <3>2. scheduled \in [Effects -> BOOLEAN] /\ flushing \in BOOLEAN
      BY Zenon DEF Init
    <3>3. QED BY <3>1, <3>2 DEF QueueOK
  <2>4. QED BY <2>1, <2>2, <2>3
<1>2. <<>> \in Seq(Frame) /\ Len(<<>>) = 0
  OBVIOUS
<1>3. StackOK(<<>>)
  BY <1>2 DEF StackOK
<1>4. QED BY <1>1, <1>3 DEF TypeInv, Init

\* Calls from outside, and their end.
LEMMA TypeCalls ==
  ASSUME TypeInv, Calls \/ Return
  PROVE  TypeInv'
<1> USE DEF TypeInv
<1>0. StackOK(stack) /\ (Idle => stack = <<>>)
  BY DEF Idle
<1>1. ASSUME NEW x \in Nodes \union Producers PROVE StackOK(Caller(x)) \/ ~Idle
  <2>1. SUFFICES ASSUME Idle PROVE StackOK(Caller(x))
    OBVIOUS
  <2>2. "call" \in Ops /\ <<>> \in Seq(Nodes \union Producers)
    BY DEF Ops
  <2>3. StackOK(<<Call("call", x, <<>>)>> \o <<>>)
    BY <1>0, <2>1, <2>2, PushCall DEF Evals
  <2>4. Call("call", x, <<>>) \in Frame
    BY <2>2, CallOK
  <2>5. <<Call("call", x, <<>>)>> \o <<>> = <<Call("call", x, <<>>)>>
    BY <2>4
  <2>6. QED BY <2>3, <2>5 DEF Caller
<1>2. ASSUME NEW s \in Sources, NEW v \in Values, Set(s, v) PROVE TypeInv'
  <2>1. StackOK(Caller(s))
    BY <1>1, <1>2 DEF Set, Producers
  <2>2. unseen' \in [Nodes -> SUBSET Producers] /\ StackOK(stack')
    BY <1>2, <2>1, WriteOK DEF Set
  <2>3. DataOK' /\ EdgesOK' /\ QueueOK'
    BY <1>2, <2>2 DEF Set, Write, DataOK, EdgesOK, QueueOK, nodeVars, flags, scheduler, past
  <2>4. QED BY <2>2, <2>3
<1>3. ASSUME NEW c \in Computeds, Get(c) PROVE TypeInv'
  <2>1. StackOK(Caller(c))
    BY <1>1, <1>3 DEF Get, Producers
  <2>2. "refresh" \in Ops /\ <<>> \in Seq(Nodes \union Producers) /\ c \in Nodes
    BY DEF Ops, Nodes
  <2>3. StackOK(<<Refresh(c)>> \o Caller(c))
    BY <2>1, <2>2, PushCall DEF Refresh
  <2>4. DataOK' /\ EdgesOK' /\ QueueOK' /\ stack' = <<Refresh(c)>> \o Caller(c)
    BY <1>3 DEF Get, DataOK, EdgesOK, QueueOK, nodeVars, flags, edges, scheduler, past
  <2>5. QED BY <2>3, <2>4
<1>4. ASSUME NEW e \in Effects, NewEffect(e) PROVE TypeInv'
  <2>1. StackOK(Caller(e))
    BY <1>1, <1>4 DEF NewEffect, Nodes
  <2>2. QueueOK' /\ StackOK(stack)'
    BY <1>4, <2>1, ScheduleOK DEF NewEffect, Create
  <2>3. DataOK' /\ EdgesOK'
    BY <1>4 DEF NewEffect, Create, DataOK, EdgesOK, nodeVars, flags, edges, past
  <2>4. QED BY <2>2, <2>3
<1>5. ASSUME NEW e \in Effects, DestroyEffect(e) PROVE TypeInv'
  <2>1. EdgesOK'
    BY <1>5, ResetOK DEF DestroyEffect, Destroy, Nodes
  <2>2. Without(queue, e) \in Seq(Effects)
    BY WithoutOne DEF QueueOK
  <2>3. DataOK' /\ QueueOK' /\ stack' = stack
    BY <1>5, <2>2 DEF DestroyEffect, Destroy, DataOK, QueueOK, nodeVars, past, Nodes
  <2>4. QED BY <2>1, <2>3
<1>6. ASSUME Return PROVE TypeInv'
  <2>1. StackOK(stack')
    BY <1>6, StackPop DEF Return, Idle
  <2>2. DataOK' /\ EdgesOK' /\ QueueOK'
    BY <1>6 DEF Return, DataOK, EdgesOK, QueueOK, nodeVars, flags, edges, scheduler
  <2>3. QED BY <2>1, <2>2
<1>7. QED BY <1>2, <1>3, <1>4, <1>5, <1>6 DEF Calls

\* Marking, the queue, and refreshing up to the body.
LEMMA TypeMarks ==
  ASSUME TypeInv, MarkSkip \/ MarkComputed \/ MarkEffect \/ Leave \/ FlushNext \/ FlushEnds
  PROVE  TypeInv'
<1> USE DEF TypeInv
<1>1. stack # <<>>
  BY DEF MarkSkip, MarkComputed, MarkEffect, Leave, FlushNext, FlushEnds, At
<1>2. /\ Top \in Frame /\ Whole(Top) /\ StackOK(Tail(stack))
      /\ Top.list \in Seq(Nodes \union Producers)
  BY <1>1, TopOK DEF Frame
<1>3. ASSUME Top.op = "mark", Top.list # <<>>
      PROVE  StackOK(Rest) /\ Head(Top.list) \in Nodes
  <2>1. Top.list \in Seq(Nodes)
    BY <1>2, <1>3 DEF Whole
  <2>2. /\ Tail(Top.list) \in Seq(Nodes) /\ Head(Top.list) \in Nodes
        /\ Tail(Top.list) \in Seq(Nodes \union Producers)
    BY <1>2, <1>3, <2>1, Rests
  <2>3. StackOK(<<[Top EXCEPT !.list = Tail(Top.list)]>> \o Tail(stack))
    BY <1>1, <1>3, <2>2, RelistedOK
  <2>4. QED BY <2>2, <2>3 DEF Rest, Advanced
<1>4. CASE MarkSkip
  BY <1>3, <1>4 DEF MarkSkip, At, DataOK, EdgesOK, QueueOK, nodeVars, flags, edges,
                    scheduler, Reach
<1>5. CASE MarkComputed
  <2> DEFINE c == Head(Top.list)
  <2>1. c \in Computeds /\ c \in Nodes /\ c \in Producers /\ StackOK(Rest)
    BY <1>3, <1>5 DEF MarkComputed, At, Nodes, Producers
  <2>2. /\ "mark" \in Ops /\ consumers[c] \in Seq(Nodes \union Producers)
        /\ consumers[c] \in Seq(Nodes)
    BY <2>1, ConsumersOK DEF Ops
  <2>3. StackOK(<<Call("mark", c, consumers[c])>> \o Rest)
    BY <2>1, <2>2, PushCall DEF Evals
  <2>4. QED BY <1>5, <2>1, <2>3 DEF MarkComputed, DataOK, EdgesOK, QueueOK, nodeVars,
                                    edges, scheduler, Reach
<1>6. CASE MarkEffect
  <2> DEFINE e == Head(Top.list)
  <2>1. e \in Effects /\ StackOK(Rest) /\ Schedule(e, Rest)
    BY <1>3, <1>6 DEF MarkEffect, At
  <2>2. QueueOK' /\ StackOK(stack)'
    BY <2>1, ScheduleOK
  <2>3. DataOK' /\ EdgesOK'
    BY <1>6, <2>1 DEF MarkEffect, DataOK, EdgesOK, nodeVars, edges, Reach, Nodes
  <2>4. QED BY <2>2, <2>3
<1>7. CASE Leave
  BY <1>2, <1>7 DEF Leave, DataOK, EdgesOK, QueueOK, nodeVars, flags, edges,
                    scheduler, past
<1>8. CASE FlushNext
  <2> DEFINE e == Head(queue)
  <2>1. e \in Effects /\ e \in Nodes /\ Tail(queue) \in Seq(Effects)
    BY <1>8, Rests DEF FlushNext, QueueOK, Nodes
  <2>2. "refresh" \in Ops /\ <<>> \in Seq(Nodes \union Producers)
    BY DEF Ops
  <2>3. StackOK(<<Refresh(e)>> \o stack)
    BY <2>1, <2>2, PushCall DEF Refresh
  <2>4. StackOK(stack')
    BY <1>8, <2>3 DEF FlushNext
  <2>5. DataOK' /\ EdgesOK' /\ QueueOK'
    BY <1>8, <2>1 DEF FlushNext, DataOK, EdgesOK, QueueOK, nodeVars, flags, edges, past
  <2>6. QED BY <2>4, <2>5
<1>9. CASE FlushEnds
  BY <1>2, <1>9 DEF FlushEnds, DataOK, EdgesOK, QueueOK, nodeVars, flags, edges, past
<1>10. QED BY <1>4, <1>5, <1>6, <1>7, <1>8, <1>9

LEMMA TypeRefresh ==
  ASSUME TypeInv, RefreshNext \/ SkipBody \/ StartBody \/ PushFails
  PROVE  TypeInv'
<1> USE DEF TypeInv
<1>1. stack # <<>> /\ Top.op \in {"refresh", "torn"}
  BY DEF RefreshNext, SkipBody, StartBody, PushFails, AtRefresh, At
<1>2. /\ Top \in Frame /\ Top.node \in Nodes /\ StackOK(Tail(stack))
      /\ Top.list \in Seq(Nodes \union Producers)
  BY <1>1, TopOK DEF Frame, Whole, Evals
<1>3. CASE RefreshNext
  <2> DEFINE frames == <<[Top EXCEPT !.list = Append(Top.list, Producer)]>> \o Tail(stack)
  <2>1. Producer \in Producers
    BY <1>2, <1>3 DEF RefreshNext, Ahead, EdgesOK, Producer
  <2>2. Append(Top.list, Producer) \in Seq(Nodes \union Producers)
    BY <1>2, <2>1
  <2>3. StackOK(frames)
    BY <1>1, <2>2, RelistedOK
  <2> HIDE DEF frames
  <2>4. ASSUME Pull(Producer) PROVE StackOK(stack')
    <3>1. "refresh" \in Ops /\ <<>> \in Seq(Nodes \union Producers) /\ Producer \in Nodes
      BY <2>4 DEF Ops, Pull, Nodes
    <3>2. StackOK(<<Refresh(Producer)>> \o frames)
      BY <2>3, <3>1, PushCall DEF Refresh
    <3>3. stack' = <<Refresh(Producer)>> \o frames
      BY <1>3, <2>4 DEF RefreshNext, frames
    <3>4. QED BY <3>2, <3>3
  <2>5. ASSUME ~Pull(Producer) PROVE StackOK(stack')
    <3>1. stack' = frames
      BY <1>3, <2>5 DEF RefreshNext, frames
    <3>2. QED BY <2>3, <3>1
  <2>6. StackOK(stack')
    BY <2>4, <2>5
  <2>7. DataOK' /\ EdgesOK' /\ QueueOK'
    BY <1>3 DEF RefreshNext, DataOK, EdgesOK, QueueOK, nodeVars, flags, edges, scheduler, past
  <2>8. QED BY <2>6, <2>7
<1>4. CASE SkipBody
  BY <1>2, <1>4 DEF SkipBody, DataOK, EdgesOK, QueueOK, nodeVars, edges, scheduler, past
<1>5. CASE StartBody
  <2>1. Start(Top.node)
    BY <1>5 DEF StartBody
  <2>2. EdgesOK'
    BY <1>2, <2>1, ResetOK DEF Start
  <2>3. "body" \in Ops /\ <<>> \in Seq(Nodes \union Producers)
    BY DEF Ops
  <2>4. StackOK(<<Call("body", Top.node, <<>>)>> \o Torn(Top.node, Tail(stack)))
    BY <1>2, <2>3, StackTorn, PushCall
  <2>5. DataOK' /\ QueueOK' /\ StackOK(stack')
    BY <2>1, <2>4 DEF Start, DataOK, QueueOK, nodeVars, scheduler
  <2>6. QED BY <2>2, <2>5
<1>6. CASE PushFails
  BY <1>6, NewErrorOK DEF PushFails, Raise, DataOK, EdgesOK, QueueOK, nodeVars, edges,
                          scheduler, past
<1>7. QED BY <1>3, <1>4, <1>5, <1>6

\* A body that asked for something and is answered.
LEMMA BodyAnswered ==
  ASSUME TypeInv, At("body"), ~Final(Instr)
  PROVE  /\ stack # <<>> /\ Top.node \in Nodes /\ Instr \in Instruction
         /\ StackOK(Done)
         /\ \A v \in Values \union {Nothing} : StackOK(Answered(stack, v))
<1>1. /\ Instr \in Instruction /\ Top.node \in Nodes /\ Len(Top.seen) < BodyLength
      /\ stack # <<>> /\ Top.op = "body" /\ StackOK(stack)
  BY InstrOK DEF At, TypeInv
<1>2. Top = stack[1]
  BY <1>1, TopOK
<1>3. \A v \in Values \union {Nothing} : StackOK(Answered(stack, v))
  BY <1>1, <1>2, AnsweredOK
<1>4. (CHOOSE v \in Values : TRUE) \in Values
  BY GraphAssumption DEF GraphAssumption
<1>5. QED BY <1>1, <1>3, <1>4 DEF Done

\* A read: by the running body, or by the untracked frame above it.
LEMMA ReadingOK ==
  ASSUME TypeInv, Reading
  PROVE  /\ stack # <<>> /\ Wanted \in Producers /\ Top.op \in {"body", "untracked"}
         /\ Top.op = "body" => Top.node \in Nodes
         /\ \A v \in Values \union {Nothing} :
              StackOK(Answered(IF Top.op = "body" THEN stack ELSE Tail(stack), v))
<1>1. CASE At("untracked")
  <2>1. /\ stack # <<>> /\ Top.op = "untracked" /\ Whole(Top) /\ StackOK(Tail(stack))
        /\ Tail(stack) # <<>> /\ Tail(stack)[1].op = "body"
        /\ Len(Tail(stack)[1].seen) < BodyLength
    BY <1>1, TopOK DEF At, TypeInv
  <2>2. \A v \in Values \union {Nothing} : StackOK(Answered(Tail(stack), v))
    BY <2>1, AnsweredOK
  <2>3. QED BY <2>1, <2>2 DEF Wanted, Whole
<1>2. CASE Doing("read")
  <2>1. At("body") /\ Instr.do = "read" /\ Top.op = "body"
    BY <1>2 DEF Doing, At
  <2>2. ~Final(Instr)
    BY <2>1 DEF Final
  <2>3. /\ stack # <<>> /\ Top.node \in Nodes /\ Instr \in Instruction
        /\ \A v \in Values \union {Nothing} : StackOK(Answered(stack, v))
    BY <2>1, <2>2, BodyAnswered
  <2>4. Instr.node \in Producers
    BY <2>1, <2>3, InstructionParts
  <2>5. QED BY <2>1, <2>3, <2>4 DEF Wanted
<1>3. QED BY <1>1, <1>2 DEF Reading

\* The result of a read that did not fail.
LEMMA ResultOK ==
  ASSUME DataOK, NEW p \in Producers, ~Failed(p)
  PROVE  Result(p) \in Values \union {Nothing}
BY DEF DataOK, Failed, Result, Producers

LEMMA TypeReads ==
  ASSUME TypeInv, Peek \/ Evaluate \/ Read \/ PeekDone \/ ReadError \/ RaiseNew
  PROVE  TypeInv'
<1> USE DEF TypeInv
<1>1. CASE Peek
  <2>1. At("body") /\ Instr.do = "peek" /\ ~Final(Instr)
    BY <1>1 DEF Peek, Doing, Final
  <2>2. Instr \in Instruction /\ Len(Top.seen) < BodyLength /\ stack # <<>> /\ Top.op = "body"
    BY <2>1, InstrOK DEF At
  <2>3. Instr.node \in Producers /\ Top = stack[1]
    BY <2>1, <2>2, InstructionParts, TopOK
  <2>4. StackOK(stack')
    BY <1>1, <2>2, <2>3, PushUntracked DEF Peek
  <2>5. DataOK' /\ EdgesOK' /\ QueueOK'
    BY <1>1 DEF Peek, Unmoved, DataOK, EdgesOK, QueueOK, nodeVars, flags, edges, scheduler
  <2>6. QED BY <2>4, <2>5
<1>2. CASE Evaluate
  <2>1. Wanted \in Nodes
    BY <1>2 DEF Evaluate, Pull, Nodes
  <2>2. "refresh" \in Ops /\ <<>> \in Seq(Nodes \union Producers)
    BY DEF Ops
  <2>3. StackOK(<<Refresh(Wanted)>> \o stack)
    BY <2>1, <2>2, PushCall DEF Refresh
  <2>4. stack' = <<Refresh(Wanted)>> \o stack
    BY <1>2 DEF Evaluate
  <2>5. DataOK' /\ EdgesOK' /\ QueueOK'
    BY <1>2 DEF Evaluate, Unmoved, DataOK, EdgesOK, QueueOK, nodeVars, flags, edges, scheduler
  <2>6. QED BY <2>3, <2>4, <2>5
<1>3. CASE Read
  <2>1. Reading /\ ~Failed(Wanted) /\ Top.op = "body"
    BY <1>3 DEF Read, Ready
  <2>2. /\ Wanted \in Producers /\ Top.node \in Nodes
        /\ \A v \in Values \union {Nothing} : StackOK(Answered(stack, v))
    BY <2>1, ReadingOK
  <2>3. StackOK(stack')
    BY <1>3, <2>1, <2>2, ResultOK DEF Read
  <2>4. Record(Top.node, Wanted)
    BY <1>3 DEF Read
  <2>5. EdgesOK'
    <3>1. unseen' \in [Nodes -> SUBSET Producers]
      BY <2>2, <2>4 DEF Record, EdgesOK
    <3>2. /\ Append(producers[Top.node], Wanted) \in Seq(Producers)
          /\ Append(consumers[Wanted], Top.node) \in Seq(Nodes)
      BY <2>2, Appended DEF EdgesOK
    <3>3. producers' \in [Nodes -> Seq(Producers)] /\ consumers' \in [Producers -> Seq(Nodes)]
      BY <2>2, <2>4, <3>2 DEF Record, EdgesOK
    <3>4. QED BY <3>1, <3>3 DEF EdgesOK
  <2>6. DataOK' /\ QueueOK'
    BY <1>3, <2>2 DEF Read, DataOK, QueueOK, nodeVars, flags, scheduler
  <2>7. QED BY <2>3, <2>5, <2>6
<1>4. CASE PeekDone
  <2>1. Reading /\ ~Failed(Wanted) /\ Top.op = "untracked"
    BY <1>4 DEF PeekDone, Ready
  <2>2. /\ Wanted \in Producers
        /\ \A v \in Values \union {Nothing} : StackOK(Answered(Tail(stack), v))
    BY <2>1, ReadingOK
  <2>3. StackOK(stack')
    BY <1>4, <2>1, <2>2, ResultOK DEF PeekDone
  <2>4. DataOK' /\ EdgesOK' /\ QueueOK'
    BY <1>4 DEF PeekDone, Unmoved, DataOK, EdgesOK, QueueOK, nodeVars, flags, edges, scheduler
  <2>5. QED BY <2>3, <2>4
<1>5. CASE ReadError
  <2>1. Wanted \in Computeds /\ error[Wanted] # Nothing
    BY <1>5 DEF ReadError, Failed
  <2>2. DataOK'
    BY <1>5, <2>1 DEF ReadError, Raise, Unmoved, DataOK, nodeVars, flags
  <2>3. EdgesOK' /\ QueueOK' /\ stack' = stack
    BY <1>5 DEF ReadError, Raise, Unmoved, EdgesOK, QueueOK, edges, scheduler
  <2>4. QED BY <2>2, <2>3
<1>6. CASE RaiseNew
  <2>1. thrown' \in Errors /\ stack' = stack
    BY <1>6, NewErrorOK DEF RaiseNew, Raise
  <2>2. DataOK' /\ EdgesOK' /\ QueueOK'
    BY <1>6, <2>1 DEF RaiseNew, Unmoved, DataOK, EdgesOK, QueueOK, nodeVars, flags, edges,
                      scheduler
  <2>3. QED BY <2>1, <2>2
<1>7. QED BY <1>1, <1>2, <1>3, <1>4, <1>5, <1>6

LEMMA TypeBodies ==
  ASSUME TypeInv,
         WriteInBody \/ CreateInBody \/ DestroyInBody \/ NoEffect \/ ReturnSame \/ ReturnNew
  PROVE  TypeInv'
<1> USE DEF TypeInv
<1>1. At("body") /\ Instr \in Instruction /\ stack # <<>> /\ StackOK(Tail(stack))
  <2>1. At("body")
    BY DEF WriteInBody, CreateInBody, DestroyInBody, NoEffect, ReturnSame, ReturnNew, Doing
  <2>2. QED BY <2>1, InstrOK, TopOK DEF At
<1>2. ASSUME Instr.do \in {"write", "create", "destroy"}
      PROVE  StackOK(Done)
  <2>1. ~Final(Instr)
    BY <1>2 DEF Final
  <2>2. QED BY <1>1, <2>1, BodyAnswered
<1>3. CASE WriteInBody
  <2>1. /\ Instr.node \in Sources /\ Instr.value \in Values /\ StackOK(Done)
        /\ Write(Instr.node, Instr.value, Done)
    BY <1>1, <1>2, <1>3, InstructionParts DEF WriteInBody, Doing
  <2>2. unseen' \in [Nodes -> SUBSET Producers] /\ StackOK(stack')
    BY <2>1, WriteOK
  <2>3. DataOK' /\ EdgesOK' /\ QueueOK'
    BY <1>3, <2>1, <2>2 DEF WriteInBody, Write, Unmoved, DataOK, EdgesOK, QueueOK, flags,
                            scheduler
  <2>4. QED BY <2>2, <2>3
<1>4. CASE CreateInBody
  <2>1. Instr.node \in Effects /\ StackOK(Done) /\ Create(Instr.node, Done)
    BY <1>1, <1>2, <1>4, InstructionParts DEF CreateInBody, Doing
  <2>2. QueueOK' /\ StackOK(stack)'
    BY <2>1, ScheduleOK DEF Create
  <2>3. DataOK' /\ EdgesOK'
    BY <1>4, <2>1 DEF CreateInBody, Create, DataOK, EdgesOK, nodeVars, flags, edges, past
  <2>4. QED BY <2>2, <2>3
<1>5. CASE DestroyInBody
  <2>1. Instr.node \in Effects /\ StackOK(Done) /\ Destroy(Instr.node)
    BY <1>1, <1>2, <1>5, InstructionParts DEF DestroyInBody, Doing
  <2>2. EdgesOK'
    BY <2>1, ResetOK DEF Destroy, Nodes
  <2>3. Without(queue, Instr.node) \in Seq(Effects)
    BY WithoutOne DEF QueueOK
  <2>4. DataOK' /\ QueueOK'
    BY <1>5, <2>1, <2>3 DEF DestroyInBody, Destroy, DataOK, QueueOK, nodeVars, past, Nodes
  <2>5. StackOK(stack')
    BY <1>5, <2>1, StackTorn DEF DestroyInBody
  <2>6. QED BY <2>2, <2>4, <2>5
<1>6. CASE NoEffect
  <2>1. StackOK(Done)
    BY <1>2, <1>6 DEF NoEffect, Doing
  <2>2. QED BY <1>6, <2>1 DEF NoEffect, Unmoved, DataOK, EdgesOK, QueueOK, nodeVars, flags,
                              edges, scheduler
<1>7. CASE ReturnSame
  BY <1>1, <1>7 DEF ReturnSame, Unmoved, DataOK, EdgesOK, QueueOK, flags, edges, scheduler
<1>8. CASE ReturnNew
  <2> DEFINE c == Top.node
  <2>1. c \in Computeds /\ c \in Nodes /\ c \in Producers /\ Instr.value \in Values
    BY <1>1, <1>8, InstructionParts DEF ReturnNew, Doing, Nodes, Producers
  <2>2. /\ "mark" \in Ops /\ "propagate" \in Ops /\ <<>> \in Seq(Nodes \union Producers)
        /\ consumers[c] \in Seq(Nodes \union Producers) /\ consumers[c] \in Seq(Nodes)
    BY <2>1, ConsumersOK DEF Ops
  <2>3. StackOK(<<Call("mark", c, consumers[c])>> \o
                  (<<Call("propagate", c, <<>>)>> \o Tail(stack)))
    BY <1>1, <2>1, <2>2, PushCall DEF Evals
  <2>4. StackOK(stack')
    BY <1>8, <2>3 DEF ReturnNew
  <2>5. unseen' \in [Nodes -> SUBSET Producers]
    BY <1>8, <2>1, BumpOK DEF ReturnNew
  <2>6. DataOK' /\ EdgesOK' /\ QueueOK'
    BY <1>8, <2>1, <2>5 DEF ReturnNew, Unmoved, DataOK, EdgesOK, QueueOK, flags, scheduler
  <2>7. QED BY <2>4, <2>6
<1>9. QED BY <1>3, <1>4, <1>5, <1>6, <1>7, <1>8

LEMMA TypeRaised ==
  ASSUME TypeInv, Catch \/ Unwind
  PROVE  TypeInv'
<1> USE DEF TypeInv
<1>1. stack # <<>> /\ thrown \in Errors /\ StackOK(Tail(stack))
  BY TopOK DEF Catch, Unwind, Raised, Idle, DataOK
<1>2. CASE Catch
  <2> DEFINE c == Top.node
  <2>1. c \in Computeds /\ c \in Nodes /\ c \in Producers
    BY <1>2 DEF Catch, Catches, Nodes, Producers
  <2>2. /\ "mark" \in Ops /\ "failed" \in Ops /\ <<>> \in Seq(Nodes \union Producers)
        /\ consumers[c] \in Seq(Nodes \union Producers) /\ consumers[c] \in Seq(Nodes)
    BY <2>1, ConsumersOK DEF Ops
  <2>3. StackOK(<<Call("mark", c, consumers[c])>> \o
                  (<<Call("failed", c, <<>>)>> \o Tail(stack)))
    BY <1>1, <2>1, <2>2, PushCall DEF Evals
  <2>4. StackOK(stack')
    BY <1>1, <1>2, <2>3 DEF Catch
  <2>5. unseen' \in [Nodes -> SUBSET Producers]
    BY <1>2, <2>1, BumpOK DEF Catch, EdgesOK
  <2>6. DataOK' /\ EdgesOK' /\ QueueOK'
    BY <1>1, <1>2, <2>1, <2>5 DEF Catch, Unmoved, DataOK, EdgesOK, QueueOK, flags, scheduler
  <2>7. QED BY <2>4, <2>6
<1>3. CASE Unwind
  <2>1. thrown' \in Errors /\ StackOK(stack')
    BY <1>1, <1>3, NewErrorOK DEF Unwind
  <2>2. dropped' \subseteq Effects
    BY <1>3 DEF Unwind, GivenUp, DataOK
  <2>3. DataOK' /\ EdgesOK' /\ QueueOK'
    BY <1>3, <2>1, <2>2 DEF Unwind, DataOK, EdgesOK, QueueOK, nodeVars, flags, edges
  <2>4. QED BY <2>1, <2>3
<1>4. QED BY <1>2, <1>3

LEMMA TypeStep == TypeInv /\ [Next]_graphVars => TypeInv'
<1> SUFFICES ASSUME TypeInv, [Next]_graphVars PROVE TypeInv'
  OBVIOUS
<1>1. CASE UNCHANGED graphVars
  BY <1>1 DEF TypeInv, DataOK, EdgesOK, QueueOK, graphVars, nodeVars, flags, edges,
              scheduler, past
<1>2. CASE Next
  BY <1>2, TypeCalls, TypeMarks, TypeRefresh, TypeReads, TypeBodies, TypeRaised DEF Next, Step
<1>3. QED BY <1>1, <1>2

\* The graph's, the scheduler's and the stack's variables keep their types, for
\* every set of nodes, values and bodies.
THEOREM GraphTypeCorrect == Spec => []GraphTypeOK
<1>1. Spec => []TypeInv
  BY TypeInit, TypeStep, PTL DEF Spec
<1>2. QED BY <1>1, TypeInvImplies, PTL

-----------------------------------------------------------------------------
(* Edges.                                                                    *)

\* What a step does to the lists: nothing, or a read is recorded, or the edges of
\* a node that is about to run or is destroyed are dropped.
LEMMA EdgeSteps ==
  ASSUME TypeInv, [Next]_graphVars
  PROVE  \/ UNCHANGED <<producers, consumers>>
         \/ \E n \in Nodes, p \in Producers : Record(n, p)
         \/ \E n \in Nodes : ResetProducers(n)
<1>1. CASE UNCHANGED graphVars
  BY <1>1 DEF graphVars, edges
<1>2. ASSUME NEW s \in Sources, NEW v \in Values, Set(s, v)
      PROVE  UNCHANGED <<producers, consumers>>
  BY <1>2 DEF Set
<1>3. ASSUME NEW c \in Computeds, Get(c) PROVE UNCHANGED <<producers, consumers>>
  BY <1>3 DEF Get, edges
<1>4. ASSUME NEW e \in Effects, NewEffect(e) PROVE UNCHANGED <<producers, consumers>>
  BY <1>4 DEF NewEffect, edges
<1>5. ASSUME NEW e \in Effects, DestroyEffect(e) PROVE \E n \in Nodes : ResetProducers(n)
  BY <1>5 DEF DestroyEffect, Destroy, Nodes
<1>6. CASE StartBody
  <2>1. Top.node \in Nodes
    BY <1>6, TopOK DEF StartBody, AtRefresh, At, TypeInv, Whole, Evals
  <2>2. QED BY <1>6, <2>1 DEF StartBody, Start
<1>7. CASE Read
  <2>1. Wanted \in Producers /\ Top.node \in Nodes
    BY <1>7, ReadingOK DEF Read, Ready
  <2>2. QED BY <1>7, <2>1 DEF Read
<1>8. CASE DestroyInBody
  <2>1. Instr.node \in Effects
    BY <1>8, InstrOK, InstructionParts DEF DestroyInBody, Doing
  <2>2. QED BY <1>8, <2>1 DEF DestroyInBody, Destroy, Nodes
<1>9. CASE MarkSkip \/ MarkComputed \/ MarkEffect \/ Leave \/ FlushNext \/ FlushEnds
            \/ RefreshNext \/ SkipBody \/ PushFails
  BY <1>9 DEF MarkSkip, MarkComputed, MarkEffect, Leave, FlushNext, FlushEnds,
              RefreshNext, SkipBody, PushFails, edges
<1>10. CASE Peek \/ Evaluate \/ PeekDone \/ ReadError \/ RaiseNew
  BY <1>10 DEF Peek, Evaluate, PeekDone, ReadError, RaiseNew, edges
<1>11. CASE WriteInBody \/ CreateInBody \/ NoEffect \/ ReturnSame \/ ReturnNew
              \/ Catch \/ Unwind \/ Return
  BY <1>11 DEF WriteInBody, CreateInBody, NoEffect, ReturnSame, ReturnNew, Catch, Unwind,
               Return, edges
<1>12. QED BY <1>1, <1>2, <1>3, <1>4, <1>5, <1>6, <1>7, <1>8, <1>9, <1>10, <1>11
       DEF Next, Calls, Step

LEMMA MirrorRecord ==
  ASSUME EdgesOK, EdgesMirror, NEW n \in Nodes, NEW p \in Producers, Record(n, p)
  PROVE  EdgesMirror'
<1>1. CASE Holds(producers[n], p)
  BY <1>1 DEF Record, EdgesMirror
<1>2. CASE ~Holds(producers[n], p)
  <2>1. /\ producers' = [producers EXCEPT ![n] = Append(producers[n], p)]
        /\ consumers' = [consumers EXCEPT ![p] = Append(consumers[p], n)]
    BY <1>2 DEF Record
  <2>2. /\ \A x : Holds(Append(producers[n], p), x) <=> (Holds(producers[n], x) \/ x = p)
        /\ Once(Append(producers[n], p))
    BY <1>2, Appended DEF EdgesOK, EdgesMirror
  <2>3. /\ \A x : Holds(Append(consumers[p], n), x) <=> (Holds(consumers[p], x) \/ x = n)
        /\ Once(Append(consumers[p], n))
    BY <1>2, Appended DEF EdgesOK, EdgesMirror
  <2>4. ASSUME NEW m \in Nodes
        PROVE  /\ Once(producers'[m])
               /\ \A x : Holds(producers'[m], x) <=>
                           (Holds(producers[m], x) \/ (m = n /\ x = p))
    BY <2>1, <2>2 DEF EdgesOK, EdgesMirror
  <2>5. ASSUME NEW q \in Producers
        PROVE  /\ Once(consumers'[q])
               /\ \A x : Holds(consumers'[q], x) <=>
                           (Holds(consumers[q], x) \/ (q = p /\ x = n))
    BY <2>1, <2>3 DEF EdgesOK, EdgesMirror
  <2>6. QED BY <2>4, <2>5 DEF EdgesMirror
<1>3. QED BY <1>1, <1>2

LEMMA MirrorReset ==
  ASSUME EdgesOK, EdgesMirror, NEW n \in Nodes, ResetProducers(n)
  PROVE  EdgesMirror'
<1>1. ASSUME NEW m \in Nodes
      PROVE  /\ Once(producers'[m])
             /\ \A x : Holds(producers'[m], x) <=> (Holds(producers[m], x) /\ m # n)
  <2>1. Once(<<>>) /\ \A x : ~Holds(<<>>, x)
    BY DEF Once, Holds
  <2>2. producers'[m] = IF m = n THEN <<>> ELSE producers[m]
    BY DEF ResetProducers, EdgesOK
  <2>3. QED BY <2>1, <2>2 DEF EdgesMirror
<1>2. ASSUME NEW q \in Producers
      PROVE  /\ Once(consumers'[q])
             /\ \A x : Holds(consumers'[q], x) <=> (Holds(consumers[q], x) /\ x # n)
  <2>1. /\ \A x : Holds(Without(consumers[q], n), x) => Holds(consumers[q], x)
        /\ \A x : x # n /\ Holds(consumers[q], x) => Holds(Without(consumers[q], n), x)
        /\ Once(Without(consumers[q], n)) /\ ~Holds(Without(consumers[q], n), n)
    BY WithoutOne DEF EdgesOK, EdgesMirror
  <2>2. consumers'[q] = IF Holds(producers[n], q) THEN Without(consumers[q], n)
                        ELSE consumers[q]
    BY DEF ResetProducers
  <2>3. Holds(consumers[q], n) <=> Holds(producers[n], q)
    BY DEF EdgesMirror
  <2>4. QED BY <2>1, <2>2, <2>3 DEF EdgesMirror
<1>3. QED BY <1>1, <1>2 DEF EdgesMirror

LEMMA MirrorStep ==
  ASSUME TypeInv, EdgesMirror, [Next]_graphVars
  PROVE  EdgesMirror'
<1>1. CASE UNCHANGED <<producers, consumers>>
  BY <1>1 DEF EdgesMirror
<1>2. QED BY <1>1, EdgeSteps, MirrorRecord, MirrorReset DEF TypeInv

LEMMA MirrorInit == Init => EdgesMirror
<1>1. Once(<<>>) /\ \A x : ~Holds(<<>>, x)
  BY DEF Once, Holds
<1>2. QED BY <1>1 DEF Init, EdgesMirror

LEMMA InvariantMirror == Spec => [](TypeInv /\ EdgesMirror)
<1>1. Init => TypeInv /\ EdgesMirror
  BY TypeInit, MirrorInit
<1>2. (TypeInv /\ EdgesMirror) /\ [Next]_graphVars => (TypeInv /\ EdgesMirror)'
  BY TypeStep, MirrorStep
<1>3. QED BY <1>1, <1>2, PTL DEF Spec

\* A node is in the list of consumers of exactly the nodes that are in its list of
\* producers, once, whatever its runs read, throw, destroy or leave unfinished.
THEOREM MirrorCorrect == Spec => []EdgesMirror
BY InvariantMirror, PTL

-----------------------------------------------------------------------------
(* The stack: one flush, and effects directly above it.                      *)

RunsEffect(fr) == fr.op \in Evals /\ fr.node \in Effects

FlushShape(s, fl) ==
  /\ fl <=> \E i \in 1 .. Len(s) : s[i].op = "flush"
  /\ \A i, j \in 1 .. Len(s) : s[i].op = "flush" /\ s[j].op = "flush" => i = j
  /\ \A i \in 1 .. Len(s) : RunsEffect(s[i]) => i < Len(s) /\ s[i + 1].op = "flush"

HasRefresh(s, e) ==
  \E i \in 1 .. Len(s) : s[i].node = e /\ s[i].op \in {"refresh", "torn"}

\* What most steps do to the stack: no flush begins or ends, no effect begins, and
\* no refresh is given up.
Carries(s, t) ==
  /\ \A fl \in BOOLEAN : FlushShape(s, fl) => FlushShape(t, fl)
  /\ \A e \in Effects : HasRefresh(s, e) => HasRefresh(t, e)

LEMMA CarryOn ==
  ASSUME NEW r, NEW s, NEW t, Carries(r, s), Carries(s, t)
  PROVE  Carries(r, t)
BY DEF Carries

LEMMA PopShape ==
  ASSUME NEW s \in Seq(Frame), s # <<>>, NEW fl \in BOOLEAN, FlushShape(s, fl)
  PROVE  /\ s[1].op # "flush" => FlushShape(Tail(s), fl)
         /\ s[1].op = "flush" => FlushShape(Tail(s), FALSE)
<1> DEFINE t == Tail(s)
<1>1. /\ t \in Seq(Frame) /\ Len(t) = Len(s) - 1 /\ Len(s) >= 1 /\ Len(s) \in Nat
      /\ \A i \in 1 .. Len(s) - 1 : t[i] = s[i + 1]
  BY Rests
<1> HIDE DEF t
<1>2. \A i \in 1 .. Len(t) : i + 1 \in 1 .. Len(s) /\ t[i] = s[i + 1]
  BY <1>1
<1>3. ASSUME NEW i \in 1 .. Len(t), NEW j \in 1 .. Len(t), t[i].op = "flush", t[j].op = "flush"
      PROVE  i = j
  <2>1. i + 1 = j + 1
    BY <1>2, <1>3 DEF FlushShape
  <2>2. QED BY <2>1
<1>4. ASSUME NEW i \in 1 .. Len(t), RunsEffect(t[i])
      PROVE  i < Len(t) /\ t[i + 1].op = "flush"
  <2>1. i + 1 \in 1 .. Len(s) /\ RunsEffect(s[i + 1])
    BY <1>2, <1>4
  <2>2. i + 1 < Len(s) /\ s[i + 1 + 1].op = "flush"
    BY <2>1 DEF FlushShape
  <2>3. QED BY <1>1, <2>1, <2>2
<1>5. ASSUME s[1].op # "flush"
      PROVE  fl <=> \E i \in 1 .. Len(t) : t[i].op = "flush"
  <2>1. ASSUME NEW k \in 1 .. Len(s), s[k].op = "flush"
        PROVE  \E i \in 1 .. Len(t) : t[i].op = "flush"
    <3>1. k - 1 \in 1 .. Len(t) /\ k - 1 + 1 = k
      BY <1>1, <1>5, <2>1
    <3>2. t[k - 1] = s[k]
      BY <1>2, <3>1
    <3>3. QED BY <2>1, <3>1, <3>2
  <2>2. QED BY <1>2, <2>1 DEF FlushShape
<1>6. ASSUME s[1].op = "flush", NEW i \in 1 .. Len(t) PROVE t[i].op # "flush"
  <2>1. i + 1 # 1 /\ i + 1 \in 1 .. Len(s) /\ 1 \in 1 .. Len(s)
    BY <1>1, <1>2
  <2>2. QED BY <1>2, <1>6, <2>1 DEF FlushShape
<1>7. FlushShape(t, fl) \/ s[1].op = "flush"
  BY <1>3, <1>4, <1>5 DEF FlushShape
<1>8. s[1].op = "flush" => FlushShape(t, FALSE)
  BY <1>3, <1>4, <1>6 DEF FlushShape
<1>9. QED BY <1>7, <1>8 DEF t

LEMMA PushShape ==
  ASSUME NEW s \in Seq(Frame), NEW fr \in Frame, NEW fl \in BOOLEAN, FlushShape(s, fl),
         RunsEffect(fr) => s # <<>> /\ s[1].op = "flush",
         fr.op = "flush" => ~fl
  PROVE  FlushShape(<<fr>> \o s, fl \/ fr.op = "flush")
<1> DEFINE t == <<fr>> \o s
<1>1. /\ t \in Seq(Frame) /\ Len(t) = Len(s) + 1 /\ t[1] = fr /\ Len(s) \in Nat
      /\ \A i \in 2 .. Len(s) + 1 : t[i] = s[i - 1]
      /\ \A i \in 1 .. Len(s) : t[i + 1] = s[i]
  BY Cons
<1> HIDE DEF t
<1>2. \A i \in 1 .. Len(t) : i # 1 => i - 1 \in 1 .. Len(s) /\ t[i] = s[i - 1]
  BY <1>1
<1>3. s # <<>> => 1 < Len(t) /\ t[2] = s[1]
  <2>1. s # <<>> => Len(s) >= 1
    BY Rests
  <2>2. QED BY <1>1, <2>1
<1>4. ASSUME NEW i \in 1 .. Len(t), RunsEffect(t[i])
      PROVE  i < Len(t) /\ t[i + 1].op = "flush"
  <2>1. CASE i = 1
    BY <1>1, <1>3, <1>4, <2>1
  <2>2. CASE i # 1
    <3>1. i - 1 \in 1 .. Len(s) /\ RunsEffect(s[i - 1])
      BY <1>2, <1>4, <2>2
    <3>2. i - 1 < Len(s) /\ s[i - 1 + 1].op = "flush" /\ i - 1 + 1 = i
      BY <3>1 DEF FlushShape
    <3>3. i < Len(t) /\ i \in 1 .. Len(s)
      BY <1>1, <3>1, <3>2
    <3>4. t[i + 1] = s[i]
      BY <1>1, <3>3
    <3>5. QED BY <3>2, <3>3, <3>4
  <2>3. QED BY <2>1, <2>2
<1>5. ASSUME NEW i \in 1 .. Len(t), NEW j \in 1 .. Len(t), t[i].op = "flush", t[j].op = "flush"
      PROVE  i = j
  <2>1. CASE i = 1 /\ j # 1
    BY <1>1, <1>2, <1>5, <2>1 DEF FlushShape
  <2>2. CASE j = 1 /\ i # 1
    BY <1>1, <1>2, <1>5, <2>2 DEF FlushShape
  <2>3. CASE i # 1 /\ j # 1
    <3>1. i - 1 = j - 1
      BY <1>2, <1>5, <2>3 DEF FlushShape
    <3>2. QED BY <3>1
  <2>4. QED BY <2>1, <2>2, <2>3
<1>6. (fl \/ fr.op = "flush") <=> \E i \in 1 .. Len(t) : t[i].op = "flush"
  <2>1. ASSUME NEW k \in 1 .. Len(s), s[k].op = "flush"
        PROVE  \E i \in 1 .. Len(t) : t[i].op = "flush"
    <3>1. k + 1 \in 1 .. Len(t) /\ t[k + 1] = s[k]
      BY <1>1
    <3>2. QED BY <2>1, <3>1
  <2>2. fr.op = "flush" => \E i \in 1 .. Len(t) : t[i].op = "flush"
    BY <1>1
  <2>3. QED BY <1>1, <1>2, <2>1, <2>2 DEF FlushShape
<1>7. FlushShape(t, fl \/ fr.op = "flush")
  BY <1>4, <1>5, <1>6 DEF FlushShape
<1>8. QED BY <1>7 DEF t

\* A stack of the same nodes that do the same, or go on evaluating.
LEMMA LikeShape ==
  ASSUME NEW s \in Seq(Frame), NEW t \in Seq(Frame), NEW fl \in BOOLEAN, FlushShape(s, fl),
         Len(t) = Len(s),
         \A i \in 1 .. Len(s) :
           /\ t[i].node = s[i].node
           /\ t[i].op = s[i].op \/ {t[i].op, s[i].op} \subseteq Evals
  PROVE  FlushShape(t, fl)
<1>1. \A i \in 1 .. Len(s) : (t[i].op = "flush") <=> (s[i].op = "flush")
  BY DEF Evals
<1>2. \A i \in 1 .. Len(s) : RunsEffect(t[i]) <=> RunsEffect(s[i])
  BY DEF RunsEffect
<1>3. fl <=> \E i \in 1 .. Len(t) : t[i].op = "flush"
  BY <1>1 DEF FlushShape
<1>4. \A i, j \in 1 .. Len(t) : t[i].op = "flush" /\ t[j].op = "flush" => i = j
  BY <1>1 DEF FlushShape
<1>5. ASSUME NEW i \in 1 .. Len(t), RunsEffect(t[i])
      PROVE  i < Len(t) /\ t[i + 1].op = "flush"
  <2>1. i < Len(s) /\ s[i + 1].op = "flush"
    BY <1>2, <1>5 DEF FlushShape
  <2>2. i + 1 \in 1 .. Len(s)
    BY <2>1
  <2>3. QED BY <1>1, <2>1, <2>2
<1>6. QED BY <1>3, <1>4, <1>5 DEF FlushShape

LEMMA PopRefresh ==
  ASSUME NEW s \in Seq(Frame), s # <<>>, NEW e, HasRefresh(s, e),
         ~(s[1].node = e /\ s[1].op \in {"refresh", "torn"})
  PROVE  HasRefresh(Tail(s), e)
<1>1. /\ Len(Tail(s)) = Len(s) - 1 /\ Len(s) \in Nat
      /\ \A i \in 1 .. Len(s) - 1 : Tail(s)[i] = s[i + 1]
  BY Rests
<1>2. PICK k \in 1 .. Len(s) : s[k].node = e /\ s[k].op \in {"refresh", "torn"}
  BY DEF HasRefresh
<1>3. k - 1 \in 1 .. Len(Tail(s)) /\ k - 1 + 1 = k
  BY <1>1, <1>2
<1>4. Tail(s)[k - 1] = s[k]
  BY <1>1, <1>3
<1>5. QED BY <1>2, <1>3, <1>4 DEF HasRefresh

LEMMA PushRefresh ==
  ASSUME NEW s \in Seq(Frame), NEW fr \in Frame, NEW e,
         \/ HasRefresh(s, e)
         \/ fr.node = e /\ fr.op \in {"refresh", "torn"}
  PROVE  HasRefresh(<<fr>> \o s, e)
<1> DEFINE t == <<fr>> \o s
<1>1. /\ Len(t) = Len(s) + 1 /\ t[1] = fr /\ Len(s) \in Nat
      /\ \A i \in 1 .. Len(s) : t[i + 1] = s[i]
  BY Cons
<1> HIDE DEF t
<1>2. ASSUME NEW k \in 1 .. Len(s), s[k].node = e, s[k].op \in {"refresh", "torn"}
      PROVE  HasRefresh(t, e)
  <2>1. k + 1 \in 1 .. Len(t) /\ t[k + 1] = s[k]
    BY <1>1
  <2>2. QED BY <1>2, <2>1 DEF HasRefresh
<1>3. ASSUME fr.node = e, fr.op \in {"refresh", "torn"} PROVE HasRefresh(t, e)
  <2>1. 1 \in 1 .. Len(t)
    BY <1>1
  <2>2. QED BY <1>1, <1>3, <2>1 DEF HasRefresh
<1>4. HasRefresh(t, e)
  BY <1>2, <1>3 DEF HasRefresh
<1>5. QED BY <1>4 DEF t

LEMMA CarryPop ==
  ASSUME NEW s \in Seq(Frame), s # <<>>, s[1].op \notin {"flush", "refresh", "torn"}
  PROVE  Carries(s, Tail(s))
<1>1. ASSUME NEW fl \in BOOLEAN, FlushShape(s, fl) PROVE FlushShape(Tail(s), fl)
  BY <1>1, PopShape
<1>2. ASSUME NEW e \in Effects, HasRefresh(s, e) PROVE HasRefresh(Tail(s), e)
  BY <1>2, PopRefresh
<1>3. QED BY <1>1, <1>2 DEF Carries

LEMMA CarryPush ==
  ASSUME NEW s \in Seq(Frame), NEW fr \in Frame, fr.op # "flush", ~RunsEffect(fr)
  PROVE  Carries(s, <<fr>> \o s)
<1>1. ASSUME NEW fl \in BOOLEAN, FlushShape(s, fl) PROVE FlushShape(<<fr>> \o s, fl)
  <2>1. (fl \/ fr.op = "flush") = fl
    OBVIOUS
  <2>2. FlushShape(<<fr>> \o s, fl \/ fr.op = "flush")
    BY <1>1, PushShape
  <2>3. QED BY <2>1, <2>2
<1>2. ASSUME NEW e \in Effects, HasRefresh(s, e) PROVE HasRefresh(<<fr>> \o s, e)
  BY <1>2, PushRefresh
<1>3. QED BY <1>1, <1>2 DEF Carries

LEMMA CarryTorn ==
  ASSUME NEW s \in Seq(Frame), NEW n
  PROVE  Carries(s, Torn(n, s))
<1> DEFINE t == Torn(n, s)
<1>1. /\ t \in Seq(Frame) /\ Len(t) = Len(s)
      /\ \A i \in 1 .. Len(s) :
           /\ t[i].node = s[i].node
           /\ t[i].op = s[i].op \/ (s[i].op = "refresh" /\ t[i].op = "torn")
  BY TornFrames
<1> HIDE DEF t
<1>2. \A i \in 1 .. Len(s) :
        /\ t[i].node = s[i].node
        /\ t[i].op = s[i].op \/ {t[i].op, s[i].op} \subseteq Evals
  BY <1>1 DEF Evals
<1>3. ASSUME NEW fl \in BOOLEAN, FlushShape(s, fl) PROVE FlushShape(t, fl)
  BY <1>1, <1>2, <1>3, LikeShape
<1>4. ASSUME NEW e \in Effects, HasRefresh(s, e) PROVE HasRefresh(t, e)
  BY <1>1, <1>4 DEF HasRefresh
<1>5. Carries(s, t)
  BY <1>3, <1>4 DEF Carries
<1>6. QED BY <1>5 DEF t

\* The innermost frame is replaced by one of the same node; what is below may be torn.
LEMMA HeadShape ==
  ASSUME NEW s \in Seq(Frame), s # <<>>, NEW fr \in Frame, fr.node = s[1].node,
         fr.op = s[1].op \/ {fr.op, s[1].op} \subseteq Evals,
         NEW fl \in BOOLEAN, FlushShape(s, fl), NEW n
  PROVE  /\ FlushShape(<<fr>> \o Tail(s), fl)
         /\ FlushShape(<<fr>> \o Torn(n, Tail(s)), fl)
<1> DEFINE u == Tail(s)
           w == Torn(n, u)
<1>1. /\ u \in Seq(Frame) /\ Len(u) = Len(s) - 1 /\ Len(s) >= 1 /\ Len(s) \in Nat
      /\ \A i \in 1 .. Len(s) - 1 : u[i] = s[i + 1]
  BY Rests
<1>2. /\ w \in Seq(Frame) /\ Len(w) = Len(u)
      /\ \A i \in 1 .. Len(u) :
           /\ w[i].node = u[i].node
           /\ w[i].op = u[i].op \/ (u[i].op = "refresh" /\ w[i].op = "torn")
  <2>1. u \in Seq(Frame)
    BY <1>1
  <2> HIDE DEF u
  <2>2. /\ Torn(n, u) \in Seq(Frame) /\ Len(Torn(n, u)) = Len(u)
        /\ \A i \in 1 .. Len(u) :
             /\ Torn(n, u)[i].node = u[i].node
             /\ \/ Torn(n, u)[i].op = u[i].op
                \/ (u[i].op = "refresh" /\ Torn(n, u)[i].op = "torn")
    BY <2>1, TornFrames
  <2>3. QED BY <2>2
<1> HIDE DEF u, w
<1>3. ASSUME NEW x \in Seq(Frame), Len(x) = Len(u),
             \A i \in 1 .. Len(u) :
               /\ x[i].node = u[i].node
               /\ x[i].op = u[i].op \/ (u[i].op = "refresh" /\ x[i].op = "torn")
      PROVE  FlushShape(<<fr>> \o x, fl)
  <2> DEFINE t == <<fr>> \o x
  <2>1. /\ t \in Seq(Frame) /\ Len(t) = Len(x) + 1 /\ t[1] = fr
        /\ \A i \in 2 .. Len(x) + 1 : t[i] = x[i - 1]
    BY Cons
  <2> HIDE DEF t
  <2>2. ASSUME NEW i \in 1 .. Len(s)
        PROVE  /\ t[i].node = s[i].node
               /\ t[i].op = s[i].op \/ {t[i].op, s[i].op} \subseteq Evals
    <3>1. CASE i = 1
      BY <2>1, <3>1
    <3>2. CASE i # 1
      <4>1. i - 1 \in 1 .. Len(u) /\ i - 1 + 1 = i /\ i \in 2 .. Len(x) + 1
        BY <1>1, <1>3, <3>2
      <4>2. u[i - 1] = s[i] /\ t[i] = x[i - 1]
        BY <1>1, <2>1, <4>1
      <4>3. QED BY <1>3, <4>1, <4>2 DEF Evals
    <3>3. QED BY <3>1, <3>2
  <2>3. Len(t) = Len(s)
    BY <1>1, <1>3, <2>1
  <2>4. FlushShape(t, fl)
    BY <2>1, <2>2, <2>3, LikeShape
  <2>5. QED BY <2>4 DEF t
<1>4. FlushShape(<<fr>> \o u, fl) /\ FlushShape(<<fr>> \o w, fl)
  BY <1>1, <1>2, <1>3
<1>5. QED BY <1>4 DEF u, w

LEMMA CarryHead ==
  ASSUME NEW s \in Seq(Frame), s # <<>>, NEW fr \in Frame, fr.node = s[1].node,
         fr.op = s[1].op
  PROVE  Carries(s, <<fr>> \o Tail(s))
<1>1. ASSUME NEW fl \in BOOLEAN, FlushShape(s, fl) PROVE FlushShape(<<fr>> \o Tail(s), fl)
  BY <1>1, HeadShape
<1>2. ASSUME NEW e \in Effects, HasRefresh(s, e) PROVE HasRefresh(<<fr>> \o Tail(s), e)
  <2>1. Tail(s) \in Seq(Frame)
    BY Rests
  <2>2. CASE s[1].node = e /\ s[1].op \in {"refresh", "torn"}
    BY <2>1, <2>2, PushRefresh
  <2>3. CASE ~(s[1].node = e /\ s[1].op \in {"refresh", "torn"})
    BY <1>2, <2>1, <2>3, PopRefresh, PushRefresh
  <2>4. QED BY <2>2, <2>3
<1>3. QED BY <1>1, <1>2 DEF Carries
-----------------------------------------------------------------------------
(* What each step does to the stack.                                         *)

LEMMA CarryCall ==
  ASSUME NEW s \in Seq(Frame), NEW op \in Ops, op # "flush",
         NEW n \in Nodes \union Producers \union {Nothing}, op \in Evals => n \notin Effects,
         NEW list \in Seq(Nodes \union Producers)
  PROVE  /\ <<Call(op, n, list)>> \o s \in Seq(Frame)
         /\ Carries(s, <<Call(op, n, list)>> \o s)
<1> DEFINE fr == Call(op, n, list)
<1>1. fr \in Frame /\ fr.op = op /\ fr.node = n
  <2>1. /\ Call(op, n, list) \in Frame /\ Call(op, n, list).op = op
        /\ Call(op, n, list).node = n
    BY DEF Call, Frame
  <2>2. QED BY <2>1
<1> HIDE DEF fr
<1>2. fr.op # "flush" /\ ~RunsEffect(fr)
  BY <1>1 DEF RunsEffect
<1>3. <<fr>> \o s \in Seq(Frame)
  BY <1>1, Cons
<1>4. Carries(s, <<fr>> \o s)
  BY <1>1, <1>2, CarryPush
<1>5. QED BY <1>3, <1>4 DEF fr

\* The evaluation of a computed.
LEMMA CarryRefresh ==
  ASSUME NEW s \in Seq(Frame), NEW c \in Computeds
  PROVE  <<Refresh(c)>> \o s \in Seq(Frame) /\ Carries(s, <<Refresh(c)>> \o s)
<1> DEFINE none == <<>>
<1>1. /\ "refresh" \in Ops /\ none \in Seq(Nodes \union Producers)
      /\ c \in Nodes \union Producers \union {Nothing}
  BY DEF Ops, Nodes
<1>2. c \notin Effects
  BY GraphAssumption DEF GraphAssumption, Producers
<1> HIDE DEF none
<1>3. /\ <<Call("refresh", c, none)>> \o s \in Seq(Frame)
      /\ Carries(s, <<Call("refresh", c, none)>> \o s)
  BY <1>1, <1>2, CarryCall
<1>4. QED BY <1>3 DEF Refresh, none

\* propagate: the walk of the consumers of p.
LEMMA CarryMark ==
  ASSUME EdgesOK, NEW s \in Seq(Frame), NEW p \in Producers
  PROVE  /\ <<Call("mark", p, consumers[p])>> \o s \in Seq(Frame)
         /\ Carries(s, <<Call("mark", p, consumers[p])>> \o s)
<1>1. "mark" \in Ops /\ "mark" \notin Evals /\ consumers[p] \in Seq(Nodes \union Producers)
  BY ConsumersOK DEF Ops, Evals
<1>2. QED BY <1>1, CarryCall

LEMMA CarryCaller ==
  ASSUME Idle, NEW x \in Nodes \union Producers
  PROVE  Caller(x) \in Seq(Frame) /\ Carries(stack, Caller(x))
<1> DEFINE none == <<>>
           fr == Call("call", x, none)
<1>1. /\ "call" \in Ops /\ "call" \notin Evals /\ none \in Seq(Nodes \union Producers)
      /\ none \in Seq(Frame)
  BY DEF Ops, Evals
<1>2. fr \in Frame
  BY <1>1, CallOK
<1>3. <<fr>> \o <<>> = <<fr>>
  BY <1>2
<1> HIDE DEF none
<1>4. <<Call("call", x, none)>> \o none \in Seq(Frame)
      /\ Carries(none, <<Call("call", x, none)>> \o none)
  BY <1>1, CarryCall
<1>5. QED BY <1>3, <1>4 DEF Caller, Idle, none, fr

LEMMA CarryAnswered ==
  ASSUME NEW s, StackOK(s), s # <<>>, s[1].op = "body",
         NEW v \in Values \union {Nothing}
  PROVE  Answered(s, v) \in Seq(Frame) /\ Carries(s, Answered(s, v))
<1> DEFINE fr == [Head(s) EXCEPT !.seen = Append(@, v)]
<1>1. s \in Seq(Frame) /\ Head(s) = s[1] /\ Head(s) \in Frame /\ Tail(s) \in Seq(Frame)
  BY Rests DEF StackOK
<1>2. s[1].seen \in Seq(Values \union {Nothing})
  BY <1>1 DEF Frame
<1>3. Append(s[1].seen, v) \in Seq(Values \union {Nothing})
  BY <1>2
<1>4. fr \in Frame /\ fr.op = s[1].op /\ fr.node = s[1].node
  BY <1>1, <1>3 DEF Frame
<1> HIDE DEF fr
<1>5. Carries(s, <<fr>> \o Tail(s))
  BY <1>1, <1>4, CarryHead
<1>6. <<fr>> \o Tail(s) \in Seq(Frame)
  BY <1>1, <1>4, Cons
<1>7. QED BY <1>5, <1>6 DEF Answered, fr

\* The walk of the innermost frame has moved on.
LEMMA CarryRelisted ==
  ASSUME StackOK(stack), stack # <<>>, NEW list \in Seq(Nodes \union Producers)
  PROVE  /\ <<[Top EXCEPT !.list = list]>> \o Tail(stack) \in Seq(Frame)
         /\ Carries(stack, <<[Top EXCEPT !.list = list]>> \o Tail(stack))
<1> DEFINE fr == [Top EXCEPT !.list = list]
<1>1. Top \in Frame /\ Top = stack[1] /\ StackOK(Tail(stack))
  BY TopOK
<1>2. fr \in Frame /\ fr.op = Top.op /\ fr.node = Top.node
  BY <1>1 DEF Frame
<1> HIDE DEF fr
<1>3. stack \in Seq(Frame) /\ Tail(stack) \in Seq(Frame)
  BY <1>1 DEF StackOK
<1>4. Carries(stack, <<fr>> \o Tail(stack))
  BY <1>1, <1>2, <1>3, CarryHead
<1>5. <<fr>> \o Tail(stack) \in Seq(Frame)
  BY <1>2, <1>3, Cons
<1>6. QED BY <1>4, <1>5 DEF fr

LEMMA CarrySame == ASSUME NEW s PROVE Carries(s, s)
BY DEF Carries

\* A pop of a frame that is no flush and no refresh.
LEMMA CarryTail ==
  ASSUME TypeInv, stack # <<>>, Top.op \notin {"flush", "refresh", "torn"}
  PROVE  Tail(stack) \in Seq(Frame) /\ Carries(stack, Tail(stack))
<1>1. stack \in Seq(Frame) /\ stack[1] = Top /\ StackOK(Tail(stack))
  BY TopOK DEF TypeInv, StackOK
<1>2. Carries(stack, Tail(stack))
  BY <1>1, CarryPop
<1>3. QED BY <1>1, <1>2 DEF StackOK

\* The steps of a body go on from Done.
LEMMA CarryDone ==
  ASSUME TypeInv, At("body")
  PROVE  /\ Done \in Seq(Frame) /\ Carries(stack, Done)
         /\ \A v \in Values \union {Nothing} : Carries(stack, Answered(stack, v))
<1>1. StackOK(stack) /\ stack # <<>> /\ stack[1].op = "body"
  BY TopOK DEF TypeInv, At
<1>2. \A v \in Values \union {Nothing} :
        Answered(stack, v) \in Seq(Frame) /\ Carries(stack, Answered(stack, v))
  BY <1>1, CarryAnswered
<1>3. (CHOOSE v \in Values : TRUE) \in Values
  BY GraphAssumption DEF GraphAssumption
<1>4. QED BY <1>2, <1>3 DEF Done

Quiet == Carries(stack, stack') /\ flushing' = flushing

LEMMA QuietCalls ==
  ASSUME TypeInv,
         \/ \E s \in Sources, v \in Values : Set(s, v)
         \/ \E c \in Computeds : Get(c)
         \/ \E e \in Effects : DestroyEffect(e)
         \/ Return
  PROVE  Quiet
<1>1. ASSUME NEW s \in Sources, NEW v \in Values, Set(s, v) PROVE Quiet
  <2>1. Idle /\ s \in Producers /\ s \in Nodes \union Producers
    BY <1>1 DEF Set, Producers
  <2>2. Caller(s) \in Seq(Frame) /\ Carries(stack, Caller(s))
    BY <2>1, CarryCaller
  <2>3. Carries(Caller(s), <<Call("mark", s, consumers[s])>> \o Caller(s))
    BY <2>1, <2>2, CarryMark DEF TypeInv
  <2>4. stack' = <<Call("mark", s, consumers[s])>> \o Caller(s) /\ flushing' = flushing
    BY <1>1 DEF Set, Write, scheduler
  <2>5. QED BY <2>2, <2>3, <2>4, CarryOn DEF Quiet
<1>2. ASSUME NEW c \in Computeds, Get(c) PROVE Quiet
  <2>1. Idle /\ c \in Nodes \union Producers
    BY <1>2 DEF Get, Producers
  <2>2. Caller(c) \in Seq(Frame) /\ Carries(stack, Caller(c))
    BY <2>1, CarryCaller
  <2>3. Carries(Caller(c), <<Refresh(c)>> \o Caller(c))
    BY <2>2, CarryRefresh
  <2>4. stack' = <<Refresh(c)>> \o Caller(c) /\ flushing' = flushing
    BY <1>2 DEF Get, scheduler
  <2>5. QED BY <2>2, <2>3, <2>4, CarryOn DEF Quiet
<1>3. ASSUME NEW e \in Effects, DestroyEffect(e) PROVE Quiet
  BY <1>3, CarrySame DEF DestroyEffect, Destroy, Quiet
<1>4. CASE Return
  <2>1. Carries(stack, Tail(stack))
    BY <1>4, CarryTail DEF Return, Idle
  <2>2. QED BY <1>4, <2>1 DEF Return, scheduler, Quiet
<1>5. QED BY <1>1, <1>2, <1>3, <1>4

LEMMA QuietMarks ==
  ASSUME TypeInv, MarkSkip \/ MarkComputed \/ Leave \/ RefreshNext \/ PushFails
  PROVE  Quiet
<1>1. stack # <<>> /\ StackOK(stack)
  BY DEF MarkSkip, MarkComputed, Leave, RefreshNext, PushFails, AtRefresh, At, TypeInv
<1>2. Top.list \in Seq(Nodes \union Producers)
  BY <1>1, TopOK DEF Frame
<1>3. ASSUME Top.list # <<>>
      PROVE  Rest \in Seq(Frame) /\ Carries(stack, Rest)
  <2>1. Tail(Top.list) \in Seq(Nodes \union Producers)
    BY <1>2, <1>3, Rests
  <2>2. QED BY <1>1, <2>1, CarryRelisted DEF Rest, Advanced
<1>4. CASE MarkSkip
  BY <1>3, <1>4 DEF MarkSkip, scheduler, Quiet
<1>5. CASE MarkComputed
  <2> DEFINE c == Head(Top.list)
  <2>1. c \in Producers /\ stack' = <<Call("mark", c, consumers[c])>> \o Rest
        /\ Top.list # <<>> /\ flushing' = flushing
    BY <1>5 DEF MarkComputed, Producers, scheduler
  <2>2. Carries(Rest, <<Call("mark", c, consumers[c])>> \o Rest)
    BY <1>3, <2>1, CarryMark DEF TypeInv
  <2>3. QED BY <1>3, <2>1, <2>2, CarryOn DEF Quiet
<1>6. CASE Leave
  <2>1. Carries(stack, Tail(stack))
    BY <1>6, CarryTail DEF Leave, At
  <2>2. QED BY <1>6, <2>1 DEF Leave, scheduler, Quiet
<1>7. CASE RefreshNext
  <2> DEFINE frames == <<[Top EXCEPT !.list = Append(Top.list, Producer)]>> \o Tail(stack)
  <2>1. Top.node \in Nodes /\ Top \in Frame
    BY <1>7, TopOK DEF RefreshNext, At, TypeInv, Whole, Evals
  <2>2. Producer \in Producers
    BY <1>7, <2>1 DEF RefreshNext, Ahead, TypeInv, EdgesOK, Producer, Frame
  <2>3. Append(Top.list, Producer) \in Seq(Nodes \union Producers)
    BY <1>2, <2>2
  <2>4. frames \in Seq(Frame) /\ Carries(stack, frames)
    BY <1>1, <2>3, CarryRelisted
  <2>5. /\ flushing' = flushing
        /\ stack' = IF Pull(Producer) THEN <<Refresh(Producer)>> \o frames ELSE frames
    BY <1>7 DEF RefreshNext, scheduler
  <2> HIDE DEF frames
  <2>6. Pull(Producer) => Carries(frames, <<Refresh(Producer)>> \o frames)
    BY <2>4, CarryRefresh DEF Pull
  <2>7. QED BY <2>4, <2>5, <2>6, CarryOn DEF Quiet
<1>8. CASE PushFails
  BY <1>8, CarrySame DEF PushFails, Raise, scheduler, Quiet
<1>9. QED BY <1>4, <1>5, <1>6, <1>7, <1>8

LEMMA QuietReads ==
  ASSUME TypeInv, Peek \/ Evaluate \/ Read \/ PeekDone \/ ReadError \/ RaiseNew
  PROVE  Quiet
<1>1. flushing' = flushing
  BY DEF Peek, Evaluate, Read, PeekDone, ReadError, RaiseNew, Unmoved, scheduler
<1>2. stack \in Seq(Frame)
  BY DEF TypeInv, StackOK
<1>3. CASE Peek
  <2> DEFINE none == <<>>
  <2>1. At("body") /\ Instr.do = "peek"
    BY <1>3 DEF Peek, Doing
  <2>2. Instr.node \in Producers
    BY <2>1, InstrOK, InstructionParts
  <2>3. "untracked" \in Ops /\ "untracked" \notin Evals /\ none \in Seq(Nodes \union Producers)
    BY DEF Ops, Evals
  <2>4. stack' = <<Call("untracked", Instr.node, none)>> \o stack
    BY <1>3 DEF Peek
  <2> HIDE DEF none
  <2>5. Carries(stack, <<Call("untracked", Instr.node, none)>> \o stack)
    BY <1>2, <2>2, <2>3, CarryCall
  <2>6. QED BY <1>1, <2>4, <2>5 DEF Quiet
<1>4. CASE Evaluate
  <2>1. Carries(stack, <<Refresh(Wanted)>> \o stack)
    BY <1>2, <1>4, CarryRefresh DEF Evaluate, Pull
  <2>2. QED BY <1>1, <1>4, <2>1 DEF Evaluate, Quiet
<1>5. CASE Read
  <2>1. Reading /\ ~Failed(Wanted) /\ Top.op = "body"
    BY <1>5 DEF Read, Ready
  <2>2. Wanted \in Producers /\ At("body")
    BY <2>1, ReadingOK DEF Reading, Doing, At
  <2>3. Result(Wanted) \in Values \union {Nothing}
    BY <2>1, <2>2, ResultOK DEF TypeInv
  <2>4. Carries(stack, Answered(stack, Result(Wanted)))
    BY <2>2, <2>3, CarryDone
  <2>5. QED BY <1>1, <1>5, <2>4 DEF Read, Quiet
<1>6. CASE PeekDone
  <2>1. Reading /\ ~Failed(Wanted) /\ Top.op = "untracked" /\ stack # <<>>
    BY <1>6, ReadingOK DEF PeekDone, Ready
  <2>2. Wanted \in Producers /\ Result(Wanted) \in Values \union {Nothing}
    BY <2>1, ReadingOK, ResultOK DEF TypeInv, PeekDone, Ready
  <2>3. Tail(stack) # <<>> /\ Tail(stack)[1].op = "body" /\ StackOK(Tail(stack))
    BY <2>1, TopOK DEF TypeInv
  <2>4. Carries(Tail(stack), Answered(Tail(stack), Result(Wanted)))
    BY <2>2, <2>3, CarryAnswered
  <2>5. Carries(stack, Tail(stack))
    BY <2>1, CarryTail
  <2>6. QED BY <1>1, <1>6, <2>4, <2>5, CarryOn DEF PeekDone, Quiet
<1>7. CASE ReadError \/ RaiseNew
  BY <1>1, <1>7, CarrySame DEF ReadError, RaiseNew, Raise, Quiet
<1>8. QED BY <1>3, <1>4, <1>5, <1>6, <1>7

\* A computed's new value or error: its own frame becomes one that propagates.
LEMMA CarryResult ==
  ASSUME TypeInv, stack # <<>>, Top.op \in {"body", "propagate"}, Top.node \in Computeds,
         NEW op \in {"propagate", "failed"}
  PROVE  Carries(stack, <<Call("mark", Top.node, consumers[Top.node])>> \o
                          (<<Call(op, Top.node, <<>>)>> \o Tail(stack)))
<1> DEFINE none == <<>>
           frames == <<Call(op, Top.node, none)>> \o Tail(stack)
<1>1. /\ op \in Ops /\ op # "flush" /\ op \notin Evals /\ none \in Seq(Nodes \union Producers)
      /\ Top.node \in Nodes \union Producers \union {Nothing} /\ Top.node \in Producers
  BY DEF Ops, Evals, Producers
<1> HIDE DEF none
<1>2. Tail(stack) \in Seq(Frame) /\ Carries(stack, Tail(stack))
  BY CarryTail
<1>3. frames \in Seq(Frame) /\ Carries(Tail(stack), frames)
  BY <1>1, <1>2, CarryCall
<1> HIDE DEF frames
<1>4. Carries(frames, <<Call("mark", Top.node, consumers[Top.node])>> \o frames)
  BY <1>1, <1>3, CarryMark DEF TypeInv
<1>5. Carries(stack, <<Call("mark", Top.node, consumers[Top.node])>> \o frames)
  BY <1>2, <1>3, <1>4, CarryOn
<1>6. QED BY <1>5 DEF frames, none

LEMMA QuietBodies ==
  ASSUME TypeInv,
         WriteInBody \/ DestroyInBody \/ NoEffect \/ ReturnSame \/ ReturnNew \/ Catch
  PROVE  Quiet
<1>1. flushing' = flushing
  BY DEF WriteInBody, DestroyInBody, Destroy, NoEffect, ReturnSame, ReturnNew, Catch, Unmoved,
         scheduler
<1>2. CASE WriteInBody
  <2>1. At("body") /\ Instr.do = "write"
    BY <1>2 DEF WriteInBody, Doing
  <2>2. Instr.node \in Producers
    BY <2>1, InstrOK, InstructionParts DEF Producers
  <2>3. Done \in Seq(Frame) /\ Carries(stack, Done)
    BY <2>1, CarryDone
  <2>4. Carries(Done, <<Call("mark", Instr.node, consumers[Instr.node])>> \o Done)
    BY <2>2, <2>3, CarryMark DEF TypeInv
  <2>5. stack' = <<Call("mark", Instr.node, consumers[Instr.node])>> \o Done
    BY <1>2 DEF WriteInBody, Write
  <2>6. QED BY <1>1, <2>3, <2>4, <2>5, CarryOn DEF Quiet
<1>3. CASE DestroyInBody
  <2>1. At("body") /\ stack' = Torn(Instr.node, Done)
    BY <1>3 DEF DestroyInBody, Doing
  <2>2. Done \in Seq(Frame) /\ Carries(stack, Done)
    BY <2>1, CarryDone
  <2>3. Carries(Done, Torn(Instr.node, Done))
    BY <2>2, CarryTorn
  <2>4. QED BY <1>1, <2>1, <2>2, <2>3, CarryOn DEF Quiet
<1>4. CASE NoEffect
  <2>1. At("body") /\ stack' = Done
    BY <1>4 DEF NoEffect, Doing
  <2>2. QED BY <1>1, <2>1, CarryDone DEF Quiet
<1>5. CASE ReturnSame
  <2>1. stack # <<>> /\ Top.op = "body" /\ stack' = Tail(stack)
    BY <1>5 DEF ReturnSame, Doing, At
  <2>2. QED BY <1>1, <2>1, CarryTail DEF Quiet
<1>6. CASE ReturnNew
  <2>1. stack # <<>> /\ Top.op = "body" /\ Top.node \in Computeds
    BY <1>6 DEF ReturnNew, Doing, At
  <2>2. stack' = <<Call("mark", Top.node, consumers[Top.node])>> \o
                   (<<Call("propagate", Top.node, <<>>)>> \o Tail(stack))
    BY <1>6 DEF ReturnNew
  <2>3. QED BY <1>1, <2>1, <2>2, CarryResult DEF Quiet
<1>7. CASE Catch
  <2>1. stack # <<>> /\ Top.op \in {"body", "propagate"} /\ Top.node \in Computeds
    BY <1>7 DEF Catch, Catches, Raised, Idle
  <2>2. \/ stack' = Tail(stack)
        \/ stack' = <<Call("mark", Top.node, consumers[Top.node])>> \o
                      (<<Call("failed", Top.node, <<>>)>> \o Tail(stack))
    BY <1>7 DEF Catch
  <2>3. Carries(stack, Tail(stack))
    BY <2>1, CarryTail
  <2>4. QED BY <1>1, <2>1, <2>2, <2>3, CarryResult DEF Quiet
<1>8. QED BY <1>2, <1>3, <1>4, <1>5, <1>6, <1>7

\* The steps that begin or end no flush and no run of an effect.
QuietSteps ==
  \/ UNCHANGED graphVars
  \/ \E s \in Sources, v \in Values : Set(s, v)
  \/ \E c \in Computeds : Get(c)
  \/ \E e \in Effects : DestroyEffect(e)
  \/ Return \/ MarkSkip \/ MarkComputed \/ Leave \/ RefreshNext \/ PushFails
  \/ Peek \/ Evaluate \/ Read \/ PeekDone \/ ReadError \/ RaiseNew
  \/ WriteInBody \/ DestroyInBody \/ NoEffect \/ ReturnSame \/ ReturnNew \/ Catch

LEMMA QuietStep == ASSUME TypeInv, QuietSteps PROVE Quiet
<1>1. CASE UNCHANGED graphVars
  BY <1>1, CarrySame DEF graphVars, scheduler, Quiet
<1>2. QED BY <1>1, QuietCalls, QuietMarks, QuietReads, QuietBodies DEF QuietSteps

-----------------------------------------------------------------------------
(* One flush, and effects in turn.                                           *)

\* Putting an effect into the queue begins a flush if none is running.
LEMMA ScheduleShape ==
  ASSUME NEW e \in Effects, NEW frames \in Seq(Frame), QueueOK,
         FlushShape(frames, flushing), Schedule(e, frames)
  PROVE  /\ FlushShape(stack', flushing')
         /\ \A x : HasRefresh(frames, x) => HasRefresh(stack', x)
<1> DEFINE none == <<>>
           fr == Call("flush", Nothing, none)
<1>1. /\ "flush" \in Ops /\ none \in Seq(Nodes \union Producers)
      /\ Nothing \in Nodes \union Producers \union {Nothing}
  BY DEF Ops
<1>2. /\ flushing' = TRUE /\ stack' = IF flushing THEN frames ELSE <<fr>> \o frames
  BY DEF Schedule
<1> HIDE DEF none
<1>3. fr \in Frame /\ fr.op = "flush"
  BY <1>1, CallOK
<1> HIDE DEF fr
<1>4. CASE flushing
  BY <1>2, <1>4 DEF QueueOK
<1>5. CASE ~flushing
  <2>1. ~RunsEffect(fr) /\ FlushShape(frames, FALSE)
    BY <1>3, <1>5 DEF RunsEffect, Evals, QueueOK
  <2>2. FlushShape(<<fr>> \o frames, FALSE \/ fr.op = "flush")
    BY <1>3, <2>1, PushShape
  <2>3. (FALSE \/ fr.op = "flush") = TRUE
    BY <1>3
  <2>4. \A x : HasRefresh(frames, x) => HasRefresh(<<fr>> \o frames, x)
    BY <1>3, PushRefresh
  <2>5. QED BY <1>2, <1>5, <2>2, <2>3, <2>4
<1>6. QED BY <1>4, <1>5

\* The steps that put an effect into the queue.
LEMMA ScheduleSteps ==
  ASSUME TypeInv, NEW e \in Effects,
         \/ NewEffect(e)
         \/ MarkEffect /\ e = Head(Top.list)
         \/ CreateInBody /\ e = Instr.node
  PROVE  \E frames \in Seq(Frame) : Carries(stack, frames) /\ Schedule(e, frames)
<1>1. CASE NewEffect(e)
  <2>1. Caller(e) \in Seq(Frame) /\ Carries(stack, Caller(e))
    BY <1>1, CarryCaller DEF NewEffect, Nodes
  <2>2. QED BY <1>1, <2>1 DEF NewEffect, Create
<1>2. CASE MarkEffect /\ e = Head(Top.list)
  <2>1. stack # <<>> /\ Top.list # <<>> /\ StackOK(stack)
    BY <1>2 DEF MarkEffect, At, TypeInv
  <2>2. Top.list \in Seq(Nodes \union Producers)
    BY <2>1, TopOK DEF Frame
  <2>3. Tail(Top.list) \in Seq(Nodes \union Producers)
    BY <2>1, <2>2, Rests
  <2>4. Rest \in Seq(Frame) /\ Carries(stack, Rest)
    BY <2>1, <2>3, CarryRelisted DEF Rest, Advanced
  <2>5. QED BY <1>2, <2>4 DEF MarkEffect
<1>3. CASE CreateInBody /\ e = Instr.node
  BY <1>3, CarryDone DEF CreateInBody, Doing, Create
<1>4. QED BY <1>1, <1>2, <1>3

LEMMA ShapeSchedule ==
  ASSUME TypeInv, FlushShape(stack, flushing),
         (\E e \in Effects : NewEffect(e)) \/ MarkEffect \/ CreateInBody
  PROVE  FlushShape(stack, flushing)'
<1>1. \E e \in Effects : \/ NewEffect(e)
                         \/ MarkEffect /\ e = Head(Top.list)
                         \/ CreateInBody /\ e = Instr.node
  BY InstrOK, InstructionParts DEF MarkEffect, CreateInBody, Doing
<1>2. PICK e \in Effects, frames \in Seq(Frame) :
        Carries(stack, frames) /\ Schedule(e, frames)
  BY <1>1, ScheduleSteps
<1>3. FlushShape(frames, flushing) /\ QueueOK
  BY <1>2 DEF Carries, TypeInv, QueueOK
<1>4. QED BY <1>2, <1>3, ScheduleShape DEF FlushShape

LEMMA ShapeFlush ==
  ASSUME TypeInv, FlushShape(stack, flushing), FlushNext \/ FlushEnds
  PROVE  FlushShape(stack', flushing')
<1>1. /\ stack # <<>> /\ stack[1].op = "flush" /\ stack \in Seq(Frame) /\ Len(stack) >= 1
      /\ flushing \in BOOLEAN
  BY TopOK DEF FlushNext, FlushEnds, At, TypeInv, StackOK, QueueOK
<1>2. CASE FlushNext
  <2> DEFINE e == Head(queue)
             none == <<>>
             fr == Call("refresh", e, none)
  <2>1. e \in Effects /\ none \in Seq(Nodes \union Producers) /\ "refresh" \in Ops
        /\ e \in Nodes \union Producers \union {Nothing}
    BY <1>2, Rests DEF FlushNext, TypeInv, QueueOK, Ops, Nodes
  <2>2. flushing' = flushing /\ stack' = IF ~dirty[e] THEN stack ELSE <<fr>> \o stack
    BY <1>2 DEF FlushNext, Refresh
  <2> HIDE DEF none, e
  <2>3. fr \in Frame /\ fr.op = "refresh"
    BY <2>1, CallOK
  <2> HIDE DEF fr
  <2>4. FlushShape(<<fr>> \o stack, flushing \/ fr.op = "flush")
    BY <1>1, <2>3, PushShape
  <2>5. (flushing \/ fr.op = "flush") = flushing
    BY <1>1, <2>3
  <2>6. QED BY <2>2, <2>4, <2>5
<1>3. CASE FlushEnds
  BY <1>1, <1>3, PopShape DEF FlushEnds
<1>4. QED BY <1>2, <1>3

LEMMA ShapeRuns ==
  ASSUME TypeInv, FlushShape(stack, flushing), SkipBody \/ StartBody
  PROVE  FlushShape(stack', flushing')
<1>1. /\ stack # <<>> /\ stack[1] = Top /\ Top.op \in {"refresh", "torn"}
      /\ stack \in Seq(Frame) /\ flushing \in BOOLEAN /\ Top.node \in Nodes
  BY TopOK DEF SkipBody, StartBody, AtRefresh, At, TypeInv, StackOK, QueueOK, Whole, Evals
<1>2. CASE SkipBody
  BY <1>1, <1>2, PopShape DEF SkipBody, scheduler
<1>3. CASE StartBody
  <2> DEFINE none == <<>>
             n == Top.node
             fr == Call("body", n, none)
  <2>1. none \in Seq(Nodes \union Producers) /\ "body" \in Ops
        /\ n \in Nodes \union Producers \union {Nothing}
    BY <1>1 DEF Ops
  <2>2. flushing' = flushing /\ stack' = <<fr>> \o Torn(n, Tail(stack))
    BY <1>3 DEF StartBody, Start, scheduler
  <2> HIDE DEF none
  <2>3. fr \in Frame /\ fr.op = "body" /\ fr.node = stack[1].node
    BY <1>1, <2>1, CallOK
  <2> HIDE DEF fr
  <2>4. FlushShape(<<fr>> \o Torn(n, Tail(stack)), flushing)
    <3>1. {fr.op, stack[1].op} \subseteq Evals
      BY <1>1, <2>3 DEF Evals
    <3>2. QED BY <1>1, <2>3, <3>1, HeadShape
  <2>5. QED BY <2>2, <2>4
<1>4. QED BY <1>2, <1>3

LEMMA ShapeUnwind ==
  ASSUME TypeInv, FlushShape(stack, flushing), Unwind
  PROVE  FlushShape(stack', flushing')
<1>1. /\ stack # <<>> /\ stack[1] = Top /\ stack \in Seq(Frame) /\ flushing \in BOOLEAN
  BY TopOK DEF Unwind, Raised, Idle, TypeInv, StackOK, QueueOK
<1>2. stack' = Tail(stack) /\ flushing' = (flushing /\ Top.op # "flush")
  BY DEF Unwind
<1>3. CASE Top.op = "flush"
  <2>1. flushing' = FALSE
    BY <1>2, <1>3
  <2>2. FlushShape(Tail(stack), FALSE)
    BY <1>1, <1>3, PopShape
  <2>3. QED BY <1>2, <2>1, <2>2
<1>4. CASE Top.op # "flush"
  <2>1. flushing' = flushing
    BY <1>1, <1>2, <1>4
  <2>2. FlushShape(Tail(stack), flushing)
    BY <1>1, <1>4, PopShape
  <2>3. QED BY <1>2, <2>1, <2>2
<1>5. QED BY <1>3, <1>4

\* Every step is quiet or one of the few that begin or end a flush or a run.
LEMMA StepKinds ==
  [Next]_graphVars =>
    \/ QuietSteps
    \/ (\E e \in Effects : NewEffect(e)) \/ MarkEffect \/ CreateInBody
    \/ FlushNext \/ FlushEnds \/ SkipBody \/ StartBody \/ Unwind
BY DEF Next, Calls, Step, QuietSteps

TurnInv == TypeInv /\ FlushShape(stack, flushing)

LEMMA TurnInit == Init => TurnInv
<1> SUFFICES ASSUME Init PROVE TurnInv
  OBVIOUS
<1>1. stack = <<>> /\ flushing = FALSE /\ Len(<<>>) = 0
  BY DEF Init
<1>2. FlushShape(stack, flushing)
  BY <1>1 DEF FlushShape
<1>3. QED BY <1>2, TypeInit DEF TurnInv

LEMMA TurnStep == TurnInv /\ [Next]_graphVars => TurnInv'
<1> SUFFICES ASSUME TurnInv, [Next]_graphVars PROVE TurnInv'
  OBVIOUS
<1>1. TypeInv /\ FlushShape(stack, flushing) /\ TypeInv'
  BY TypeStep DEF TurnInv
<1>2. ASSUME QuietSteps PROVE FlushShape(stack', flushing')
  <2>1. Carries(stack, stack') /\ flushing' = flushing
    BY <1>1, <1>2, QuietStep DEF Quiet
  <2>2. QED BY <1>1, <2>1 DEF Carries, TypeInv, QueueOK
<1>3. FlushShape(stack', flushing')
  BY <1>1, <1>2, StepKinds, ShapeSchedule, ShapeFlush, ShapeRuns, ShapeUnwind DEF FlushShape
<1>4. QED BY <1>1, <1>3 DEF TurnInv, FlushShape

LEMMA InvariantTurn == Spec => []TurnInv
BY TurnInit, TurnStep, PTL DEF Spec

\* flushing is set exactly while a flush is on the stack, and no flush runs inside
\* another: also when an exception ends it, an effect writes, or an effect makes
\* another one.
THEOREM FlushOwnedCorrect == Spec => []FlushOwned
<1>1. TurnInv => FlushOwned
  BY DEF TurnInv, FlushShape, FlushOwned
<1>2. QED BY <1>1, InvariantTurn, PTL

\* No effect starts, or has its producers refreshed, while another one or the same
\* one is: every effect is run by the flush, from the queue.
THEOREM EffectsInTurnCorrect == Spec => []EffectsInTurn
<1>1. ASSUME TurnInv, NEW e \in Effects, NEW f \in Effects,
             NEW i \in Evaluating(e), NEW j \in Evaluating(f)
      PROVE  i = j
  <2>1. /\ i \in 1 .. Len(stack) /\ RunsEffect(stack[i])
        /\ j \in 1 .. Len(stack) /\ RunsEffect(stack[j])
    BY DEF Evaluating, Frames, RunsEffect, Evals
  <2>2. /\ i < Len(stack) /\ stack[i + 1].op = "flush"
        /\ j < Len(stack) /\ stack[j + 1].op = "flush"
    BY <1>1, <2>1 DEF TurnInv, FlushShape
  <2>3. stack \in Seq(Frame) /\ Len(stack) \in Nat
    BY <1>1 DEF TurnInv, TypeInv, StackOK
  <2>4. i + 1 \in 1 .. Len(stack) /\ j + 1 \in 1 .. Len(stack)
    BY <2>1, <2>2, <2>3
  <2>5. i + 1 = j + 1
    BY <1>1, <2>2, <2>4 DEF TurnInv, FlushShape
  <2>6. QED BY <2>1, <2>5
<1>2. TurnInv => EffectsInTurn
  BY <1>1 DEF EffectsInTurn
<1>3. QED BY <1>2, InvariantTurn, PTL

-----------------------------------------------------------------------------
(* Effects are not forgotten.                                                *)

\* The queue lists the effects whose flag says so, once.
Listed ==
  Once(queue) /\ \A e \in Effects : scheduled[e] <=> Holds(queue, e)

\* Where a dirty effect is.
Kept(e) == Holds(queue, e) \/ HasRefresh(stack, e) \/ e \in dropped

AllKept == \A e \in Effects : life[e] # "unborn" /\ dirty[e] => Kept(e)

LEMMA KeptIsNothingForgotten == TypeInv => (NothingForgotten <=> Listed /\ AllKept)
<1>1. ASSUME NEW e \in Effects PROVE Refreshing(e) # {} <=> HasRefresh(stack, e)
  BY DEF Refreshing, Frames, HasRefresh
<1>2. QED BY <1>1 DEF NothingForgotten, Listed, AllKept, Kept

LEMMA ListedSchedule ==
  ASSUME QueueOK, Listed, NEW e \in Effects, NEW frames, Schedule(e, frames)
  PROVE  Listed' /\ \A x \in Effects : Holds(queue', x) <=> Holds(queue, x) \/ x = e
<1>1. CASE scheduled[e]
  <2>1. queue' = queue /\ scheduled' = scheduled /\ Holds(queue, e)
    BY <1>1 DEF Schedule, Listed, QueueOK
  <2>2. QED BY <2>1 DEF Listed
<1>2. CASE ~scheduled[e]
  <2>1. queue' = Append(queue, e) /\ scheduled' = [scheduled EXCEPT ![e] = TRUE]
    BY <1>2 DEF Schedule
  <2>2. /\ \A x : Holds(queue', x) <=> (Holds(queue, x) \/ x = e)
        /\ Once(queue')
    BY <1>2, <2>1, Appended DEF QueueOK, Listed
  <2>3. QED BY <2>1, <2>2 DEF Listed, QueueOK
<1>3. QED BY <1>1, <1>2

LEMMA ListedDestroy ==
  ASSUME QueueOK, Listed, NEW e \in Effects, Destroy(e)
  PROVE  /\ Listed'
         /\ \A x \in Effects : Holds(queue, x) /\ x # e => Holds(queue', x)
<1>1. queue' = Without(queue, e) /\ scheduled' = [scheduled EXCEPT ![e] = FALSE]
  BY DEF Destroy
<1>2. /\ \A x : Holds(queue', x) => Holds(queue, x)
      /\ \A x : x # e /\ Holds(queue, x) => Holds(queue', x)
      /\ Once(queue') /\ ~Holds(queue', e)
  BY <1>1, WithoutOne DEF QueueOK, Listed
<1>3. QED BY <1>1, <1>2 DEF Listed, QueueOK

\* What a quiet step leaves as it is, unless it destroys an effect.
LEMMA QuietEffects ==
  ASSUME TypeInv, QuietSteps
  PROVE  \/ \E e \in Effects : Destroy(e) /\ dropped' = dropped
         \/ /\ UNCHANGED <<queue, scheduled, life, dropped>>
            /\ \A e \in Effects : dirty'[e] => dirty[e]
<1> DEFINE Same == /\ UNCHANGED <<queue, scheduled, life, dropped>>
                   /\ \A e \in Effects : dirty'[e] => dirty[e]
           Gone == \E e \in Effects : Destroy(e) /\ dropped' = dropped
<1>1. ASSUME UNCHANGED graphVars PROVE Same
  BY <1>1 DEF graphVars, scheduler, flags, past
<1>2. ASSUME NEW s \in Sources, NEW v \in Values, Set(s, v) PROVE Same
  BY <1>2 DEF Set, scheduler, flags, past
<1>3. ASSUME NEW c \in Computeds, Get(c) PROVE Same
  BY <1>3 DEF Get, scheduler, flags, past
<1>4. ASSUME NEW e \in Effects, DestroyEffect(e) PROVE Gone
  BY <1>4 DEF DestroyEffect, past
<1>5. ASSUME MarkComputed PROVE Same
  <2>1. Head(Top.list) \notin Effects
    BY <1>5, GraphAssumption DEF MarkComputed, GraphAssumption, Producers
  <2>2. QED BY <1>5, <2>1 DEF MarkComputed, scheduler, Reach, TypeInv, DataOK
<1>6. ASSUME Return \/ MarkSkip \/ Leave \/ RefreshNext \/ PushFails PROVE Same
  <2>1. CASE Return \/ MarkSkip \/ Leave \/ RefreshNext
    BY <2>1 DEF Return, MarkSkip, Leave, RefreshNext, scheduler, flags, past, Reach
  <2>2. CASE PushFails
    <3>1. /\ UNCHANGED <<queue, scheduled, life, dropped>>
          /\ dirty' = [dirty EXCEPT ![Top.node] = FALSE]
      BY <2>2 DEF PushFails, scheduler, past
    <3>2. QED BY <3>1 DEF TypeInv, DataOK, Nodes
  <2>3. QED BY <1>6, <2>1, <2>2
<1>7. ASSUME Peek \/ Evaluate \/ Read \/ PeekDone \/ ReadError \/ RaiseNew PROVE Same
  BY <1>7 DEF Peek, Evaluate, Read, PeekDone, ReadError, RaiseNew, Unmoved, scheduler, flags
<1>8. ASSUME DestroyInBody PROVE Gone
  <2>1. Instr.node \in Effects
    BY <1>8, InstrOK, InstructionParts DEF DestroyInBody, Doing
  <2>2. QED BY <1>8, <2>1 DEF DestroyInBody, past
<1>9. ASSUME WriteInBody \/ NoEffect \/ ReturnSame \/ ReturnNew \/ Catch PROVE Same
  BY <1>9 DEF WriteInBody, NoEffect, ReturnSame, ReturnNew, Catch, Unmoved, scheduler, flags
<1> HIDE DEF Same, Gone
<1>10. Same \/ Gone
  BY <1>1, <1>2, <1>3, <1>4, <1>5, <1>6, <1>7, <1>8, <1>9 DEF QuietSteps
<1>11. QED BY <1>10 DEF Same, Gone

LEMMA KeptQuiet ==
  ASSUME TypeInv, Listed, AllKept, QuietSteps
  PROVE  Listed' /\ AllKept'
<1>1. \A e \in Effects : HasRefresh(stack, e) => HasRefresh(stack', e)
  BY QuietStep DEF Quiet, Carries
<1>2. ASSUME NEW e \in Effects, Destroy(e), dropped' = dropped PROVE Listed' /\ AllKept'
  <2>1. Listed' /\ \A x \in Effects : Holds(queue, x) /\ x # e => Holds(queue', x)
    BY <1>2, ListedDestroy DEF TypeInv
  <2>2. ~dirty'[e] /\ \A x \in Effects : x # e => dirty'[x] = dirty[x] /\ life'[x] = life[x]
    BY <1>2 DEF Destroy, TypeInv, DataOK, Nodes
  <2>3. QED BY <1>1, <1>2, <2>1, <2>2 DEF AllKept, Kept, HasRefresh
<1>3. ASSUME UNCHANGED <<queue, scheduled, life, dropped>>,
             \A e \in Effects : dirty'[e] => dirty[e]
      PROVE  Listed' /\ AllKept'
  BY <1>1, <1>3 DEF Listed, AllKept, Kept, HasRefresh
<1>4. QED BY <1>2, <1>3, QuietEffects

LEMMA KeptSchedule ==
  ASSUME TypeInv, Listed, AllKept, FlushShape(stack, flushing),
         (\E e \in Effects : NewEffect(e)) \/ MarkEffect \/ CreateInBody
  PROVE  Listed' /\ AllKept'
<1>1. \E e \in Effects : \/ NewEffect(e)
                         \/ MarkEffect /\ e = Head(Top.list)
                         \/ CreateInBody /\ e = Instr.node
  BY InstrOK, InstructionParts DEF MarkEffect, CreateInBody, Doing
<1>2. PICK e \in Effects : \/ NewEffect(e)
                           \/ MarkEffect /\ e = Head(Top.list)
                           \/ CreateInBody /\ e = Instr.node
  BY <1>1
<1>3. PICK frames \in Seq(Frame) : Carries(stack, frames) /\ Schedule(e, frames)
  BY <1>2, ScheduleSteps
<1>4. FlushShape(frames, flushing) /\ QueueOK
  BY <1>3 DEF Carries, TypeInv, QueueOK
<1>5. Listed' /\ \A x \in Effects : Holds(queue', x) <=> Holds(queue, x) \/ x = e
  BY <1>3, <1>4, ListedSchedule
<1>6. \A x : HasRefresh(frames, x) => HasRefresh(stack', x)
  BY <1>3, <1>4, ScheduleShape
<1>7. \A x \in Effects : HasRefresh(stack, x) => HasRefresh(stack', x)
  BY <1>3, <1>6 DEF Carries
<1>8. /\ dropped' = dropped
      /\ \A x \in Effects : x # e => dirty'[x] = dirty[x] /\ life'[x] = life[x]
  <2>1. dirty \in [Nodes -> BOOLEAN] /\ life \in [Effects -> {"unborn", "live", "destroyed", "cut"}]
    BY DEF TypeInv, DataOK
  <2>2. CASE NewEffect(e)
    BY <2>1, <2>2 DEF NewEffect, Create, flags, past
  <2>3. CASE MarkEffect /\ e = Head(Top.list)
    BY <2>1, <2>3 DEF MarkEffect, Reach, Nodes
  <2>4. CASE CreateInBody /\ e = Instr.node
    BY <2>1, <2>4 DEF CreateInBody, Create, flags, past
  <2>5. QED BY <1>2, <2>2, <2>3, <2>4
<1>9. AllKept'
  BY <1>5, <1>7, <1>8 DEF AllKept, Kept, HasRefresh
<1>10. QED BY <1>5, <1>9

LEMMA KeptFlush ==
  ASSUME TypeInv, Listed, AllKept, FlushNext \/ FlushEnds
  PROVE  Listed' /\ AllKept'
<1>1. /\ stack # <<>> /\ stack[1].op = "flush" /\ stack \in Seq(Frame)
  BY TopOK DEF FlushNext, FlushEnds, At, TypeInv, StackOK
<1>2. CASE FlushNext
  <2> DEFINE e == Head(queue)
             none == <<>>
             fr == Call("refresh", e, none)
  <2>1. e \in Effects /\ none \in Seq(Nodes \union Producers) /\ "refresh" \in Ops
        /\ e \in Nodes \union Producers \union {Nothing}
    BY <1>2, Rests DEF FlushNext, TypeInv, QueueOK, Ops, Nodes
  <2>2. /\ stack' = IF ~dirty[e] THEN stack ELSE <<fr>> \o stack
        /\ queue' = Tail(queue) /\ scheduled' = [scheduled EXCEPT ![e] = FALSE]
        /\ dirty' = dirty /\ life' = life /\ dropped' = dropped
    BY <1>2 DEF FlushNext, Refresh, flags, past
  <2>3. Once(queue') /\ \A x : Holds(queue', x) <=> Holds(queue, x) /\ x # e
    BY <1>2, Shortened DEF FlushNext, TypeInv, QueueOK, Listed
  <2> HIDE DEF none, e
  <2>4. Listed'
    BY <2>1, <2>2, <2>3 DEF Listed, TypeInv, QueueOK
  <2>5. fr \in Frame /\ fr.op = "refresh" /\ fr.node = e
    BY <2>1, CallOK
  <2> HIDE DEF fr
  <2>6. \A x : HasRefresh(stack, x) => HasRefresh(stack', x)
    BY <1>1, <2>2, <2>5, PushRefresh
  <2>7. dirty[e] => HasRefresh(stack', e)
    BY <1>1, <2>2, <2>5, PushRefresh
  <2>8. ASSUME NEW x \in Effects, life'[x] # "unborn", dirty'[x]
        PROVE  Holds(queue', x) \/ HasRefresh(stack', x) \/ x \in dropped'
    BY <2>2, <2>3, <2>6, <2>7, <2>8 DEF AllKept, Kept
  <2>9. AllKept'
    BY <2>8 DEF AllKept, Kept, HasRefresh
  <2>10. QED BY <2>4, <2>9
<1>3. CASE FlushEnds
  <2>1. \A x : HasRefresh(stack, x) => HasRefresh(Tail(stack), x)
    BY <1>1, PopRefresh
  <2>2. stack' = Tail(stack) /\ UNCHANGED <<queue, scheduled, dirty, life, dropped>>
    BY <1>3 DEF FlushEnds, flags, past
  <2>3. \A x : HasRefresh(stack, x) => HasRefresh(stack', x)
    BY <2>1, <2>2
  <2>4. QED BY <2>2, <2>3 DEF Listed, AllKept, Kept, HasRefresh
<1>4. QED BY <1>2, <1>3

LEMMA KeptRuns ==
  ASSUME TypeInv, Listed, AllKept, SkipBody \/ StartBody \/ Unwind
  PROVE  Listed' /\ AllKept'
<1>1. /\ stack # <<>> /\ stack[1] = Top /\ stack \in Seq(Frame) /\ Tail(stack) \in Seq(Frame)
  BY TopOK DEF SkipBody, StartBody, AtRefresh, At, Unwind, Raised, Idle, TypeInv, StackOK
<1>2. \A x : HasRefresh(stack, x) /\ ~(Top.node = x /\ Top.op \in {"refresh", "torn"})
               => HasRefresh(Tail(stack), x)
  BY <1>1, PopRefresh
<1>3. CASE SkipBody
  <2>1. /\ stack' = Tail(stack) /\ dirty' = [dirty EXCEPT ![Top.node] = FALSE]
        /\ UNCHANGED <<queue, scheduled, life, dropped>>
    BY <1>3 DEF SkipBody, scheduler, past
  <2>2. \A x : HasRefresh(stack, x) /\ x # Top.node => HasRefresh(stack', x)
    BY <1>2, <2>1
  <2>3. \A x \in Effects : dirty'[x] => dirty[x] /\ x # Top.node
    BY <2>1 DEF TypeInv, DataOK, Nodes
  <2>4. QED BY <2>1, <2>2, <2>3 DEF Listed, AllKept, Kept, HasRefresh
<1>4. CASE StartBody
  <2> DEFINE none == <<>>
             n == Top.node
             fr == Call("body", n, none)
             t == Torn(n, Tail(stack))
  <2>1. n \in Nodes /\ none \in Seq(Nodes \union Producers) /\ "body" \in Ops
        /\ n \in Nodes \union Producers \union {Nothing}
    BY <1>4, TopOK DEF StartBody, AtRefresh, At, TypeInv, Whole, Evals, Ops
  <2>2. /\ stack' = <<fr>> \o t /\ dirty' = [dirty EXCEPT ![n] = FALSE]
        /\ UNCHANGED <<queue, scheduled, life, dropped>>
    BY <1>4 DEF StartBody, Start, scheduler
  <2> HIDE DEF none
  <2>3. fr \in Frame
    BY <2>1, CallOK
  <2> HIDE DEF fr
  <2>4. t \in Seq(Frame) /\ \A x \in Effects : HasRefresh(Tail(stack), x) => HasRefresh(t, x)
    BY <1>1, TornFrames, CarryTorn DEF Carries
  <2> HIDE DEF t
  <2>5. \A x \in Effects : HasRefresh(t, x) => HasRefresh(stack', x)
    BY <2>2, <2>3, <2>4, PushRefresh
  <2>6. \A x \in Effects : HasRefresh(stack, x) /\ x # n => HasRefresh(stack', x)
    BY <1>2, <2>4, <2>5
  <2>7. \A x \in Effects : dirty'[x] => dirty[x] /\ x # n
    BY <2>2 DEF TypeInv, DataOK, Nodes
  <2>8. QED BY <2>2, <2>6, <2>7 DEF Listed, AllKept, Kept, HasRefresh
<1>5. CASE Unwind
  <2>1. /\ stack' = Tail(stack) /\ dropped' = dropped \union GivenUp
        /\ UNCHANGED <<queue, scheduled, dirty, life>>
    BY <1>5 DEF Unwind, flags
  <2>2. ASSUME NEW x \in Effects, HasRefresh(stack, x)
        PROVE  HasRefresh(stack', x) \/ x \in dropped'
    <3>1. CASE Top.node = x /\ Top.op \in {"refresh", "torn"}
      BY <2>1, <3>1 DEF GivenUp
    <3>2. CASE ~(Top.node = x /\ Top.op \in {"refresh", "torn"})
      BY <1>2, <2>1, <2>2, <3>2
    <3>3. QED BY <3>1, <3>2
  <2>3. QED BY <2>1, <2>2 DEF Listed, AllKept, Kept, HasRefresh
<1>6. QED BY <1>3, <1>4, <1>5

KeptInv == TurnInv /\ Listed /\ AllKept

LEMMA KeptInit == Init => KeptInv
<1>1. Once(<<>>) /\ \A x : ~Holds(<<>>, x)
  BY DEF Once, Holds
<1>2. Init => Listed /\ AllKept
  BY <1>1 DEF Init, Listed, AllKept
<1>3. QED BY <1>2, TurnInit DEF KeptInv

LEMMA KeptStep == KeptInv /\ [Next]_graphVars => KeptInv'
<1> SUFFICES ASSUME KeptInv, [Next]_graphVars PROVE KeptInv'
  OBVIOUS
<1>1. TypeInv /\ FlushShape(stack, flushing) /\ Listed /\ AllKept /\ TurnInv'
  BY TurnStep DEF KeptInv, TurnInv
<1>2. Listed' /\ AllKept'
  BY <1>1, StepKinds, KeptQuiet, KeptSchedule, KeptFlush, KeptRuns
<1>3. QED BY <1>1, <1>2 DEF KeptInv

LEMMA InvariantKept == Spec => []KeptInv
BY KeptInit, KeptStep, PTL DEF Spec

\* An effect that is dirty is in the queue, once, or a flush has taken it out to run
\* it, or an exception ended that run before the body: it is never dirty and nowhere.
THEOREM NothingForgottenCorrect == Spec => []NothingForgotten
<1>1. KeptInv => NothingForgotten
  BY KeptIsNothingForgotten DEF KeptInv, TurnInv
<1>2. QED BY <1>1, InvariantKept, PTL

-----------------------------------------------------------------------------
(* The walks of producers that are under way, and the marks on their way.    *)

Walks(fr, n) == fr.op \in {"refresh", "torn"} /\ fr.node = n

\* A mark of p that has n on the list it still walks.
Pends(s, n, p) ==
  \E i \in 1 .. Len(s) : s[i].op = "mark" /\ s[i].node = p /\ Holds(s[i].list, n)

\* A walk has visited the first producers of its node, in order; of those that are
\* loose ends, only the last may be left, and is being evaluated.
Visits(s, i, pr, loose) ==
  s[i].op = "refresh" =>
    /\ Len(s[i].list) <= Len(pr[s[i].node])
    /\ \A k \in 1 .. Len(s[i].list) :
         /\ s[i].list[k] = pr[s[i].node][k]
         /\ <<s[i].node, s[i].list[k]>> \in loose => i > 1 /\ Walks(s[i - 1], s[i].list[k])

\* A walk that was torn is of a calm node, and so is every walk below the node's body.
Vetted(s, pr, loose, calm) ==
  /\ \A i \in 1 .. Len(s) : Visits(s, i, pr, loose)
  /\ \A i \in 1 .. Len(s) : s[i].op = "torn" => s[i].node \in calm
  /\ \A i, j \in 1 .. Len(s) :
       i < j /\ s[i].op = "body" /\ s[j].op = "refresh" => s[i].node # s[j].node

LEMMA VettedPop ==
  ASSUME NEW s \in Seq(Frame), s # <<>>, NEW pr, NEW loose, NEW calm,
         Vetted(s, pr, loose, calm),
         \A n, p : Walks(s[1], p) => <<n, p>> \notin loose
  PROVE  Vetted(Tail(s), pr, loose, calm)
<1> DEFINE t == Tail(s)
<1>1. /\ t \in Seq(Frame) /\ Len(t) = Len(s) - 1 /\ Len(s) >= 1 /\ Len(s) \in Nat
      /\ \A i \in 1 .. Len(s) - 1 : t[i] = s[i + 1]
  BY Rests
<1> HIDE DEF t
<1>2. \A i \in 1 .. Len(t) : i + 1 \in 1 .. Len(s) /\ t[i] = s[i + 1]
  BY <1>1
<1>3. ASSUME NEW i \in 1 .. Len(t) PROVE Visits(t, i, pr, loose)
  <2>1. i + 1 \in 1 .. Len(s) /\ t[i] = s[i + 1] /\ i + 1 - 1 = i
    BY <1>2
  <2>2. Visits(s, i + 1, pr, loose)
    BY <2>1 DEF Vetted
  <2>3. ASSUME t[i].op = "refresh", NEW k \in 1 .. Len(t[i].list),
               <<t[i].node, t[i].list[k]>> \in loose
        PROVE  i > 1 /\ Walks(t[i - 1], t[i].list[k])
    <3>1. Walks(s[i], t[i].list[k])
      BY <2>1, <2>2, <2>3 DEF Visits
    <3>2. i # 1
      BY <2>3, <3>1
    <3>3. i - 1 \in 1 .. Len(t) /\ i - 1 + 1 = i
      BY <1>1, <3>2
    <3>4. t[i - 1] = s[i]
      BY <1>2, <3>3
    <3>5. QED BY <3>1, <3>2, <3>4
  <2>4. QED BY <2>1, <2>2, <2>3 DEF Visits
<1>4. \A i \in 1 .. Len(t) : t[i].op = "torn" => t[i].node \in calm
  BY <1>2 DEF Vetted
<1>5. ASSUME NEW i \in 1 .. Len(t), NEW j \in 1 .. Len(t), i < j, t[i].op = "body",
             t[j].op = "refresh"
      PROVE  t[i].node # t[j].node
  <2>1. i + 1 < j + 1
    BY <1>5
  <2>2. QED BY <1>2, <1>5, <2>1 DEF Vetted
<1>6. Vetted(t, pr, loose, calm)
  BY <1>3, <1>4, <1>5 DEF Vetted
<1>7. QED BY <1>6 DEF t

LEMMA VettedPush ==
  ASSUME NEW s \in Seq(Frame), NEW fr \in Frame, NEW pr, NEW loose, NEW calm,
         Vetted(s, pr, loose, calm), fr.op # "torn",
         fr.op = "refresh" => Len(fr.list) = 0 /\ Len(pr[fr.node]) >= 0,
         fr.op = "body" => \A i \in 1 .. Len(s) : ~(s[i].op = "refresh" /\ s[i].node = fr.node)
  PROVE  Vetted(<<fr>> \o s, pr, loose, calm)
<1> DEFINE t == <<fr>> \o s
<1>1. /\ t \in Seq(Frame) /\ Len(t) = Len(s) + 1 /\ t[1] = fr /\ Len(s) \in Nat
      /\ \A i \in 2 .. Len(s) + 1 : t[i] = s[i - 1]
  BY Cons
<1> HIDE DEF t
<1>2. \A i \in 1 .. Len(t) : i # 1 => i - 1 \in 1 .. Len(s) /\ t[i] = s[i - 1]
  BY <1>1
<1>3. ASSUME NEW i \in 1 .. Len(t) PROVE Visits(t, i, pr, loose)
  <2>1. CASE i = 1
    <3>1. fr.op = "refresh" => Len(fr.list) <= Len(pr[fr.node]) /\ 1 .. Len(fr.list) = {}
      BY SMT
    <3>2. QED BY <1>1, <2>1, <3>1 DEF Visits
  <2>2. CASE i # 1
    <3>1. i - 1 \in 1 .. Len(s) /\ t[i] = s[i - 1] /\ Visits(s, i - 1, pr, loose)
      BY <1>2, <2>2 DEF Vetted
    <3>2. ASSUME t[i].op = "refresh", NEW k \in 1 .. Len(t[i].list),
                 <<t[i].node, t[i].list[k]>> \in loose
          PROVE  i > 1 /\ Walks(t[i - 1], t[i].list[k])
      <4>1. i - 1 > 1 /\ Walks(s[i - 1 - 1], t[i].list[k])
        BY <3>1, <3>2 DEF Visits
      <4>2. i - 1 \in 1 .. Len(t) /\ i - 1 # 1
        BY <1>1, <3>1, <4>1
      <4>3. t[i - 1] = s[i - 1 - 1]
        BY <1>2, <4>2
      <4>4. QED BY <4>1, <4>3
    <3>3. QED BY <3>1, <3>2 DEF Visits
  <2>3. QED BY <2>1, <2>2
<1>4. ASSUME NEW i \in 1 .. Len(t), t[i].op = "torn" PROVE t[i].node \in calm
  BY <1>1, <1>2, <1>4 DEF Vetted
<1>5. ASSUME NEW i \in 1 .. Len(t), NEW j \in 1 .. Len(t), i < j, t[i].op = "body",
             t[j].op = "refresh"
      PROVE  t[i].node # t[j].node
  <2>1. j - 1 \in 1 .. Len(s) /\ t[j] = s[j - 1]
    BY <1>2, <1>5
  <2>2. CASE i = 1
    BY <1>1, <1>5, <2>1, <2>2
  <2>3. CASE i # 1
    <3>1. i - 1 \in 1 .. Len(s) /\ t[i] = s[i - 1] /\ i - 1 < j - 1
      BY <1>2, <1>5, <2>3
    <3>2. QED BY <1>5, <2>1, <3>1 DEF Vetted
  <2>4. QED BY <2>2, <2>3
<1>6. Vetted(t, pr, loose, calm)
  BY <1>3, <1>4, <1>5 DEF Vetted
<1>7. QED BY <1>6 DEF t

\* After the walks of a node are torn, none is left that is not.
LEMMA VettedTorn ==
  ASSUME NEW s \in Seq(Frame), NEW n, NEW pr, NEW loose, NEW calm,
         Vetted(s, pr, loose, calm), n \in calm
  PROVE  /\ Vetted(Torn(n, s), pr, loose, calm)
         /\ \A i \in 1 .. Len(Torn(n, s)) :
              ~(Torn(n, s)[i].op = "refresh" /\ Torn(n, s)[i].node = n)
<1> DEFINE t == Torn(n, s)
<1>1. /\ t \in Seq(Frame) /\ Len(t) = Len(s) /\ Len(s) \in Nat
      /\ \A i \in 1 .. Len(s) :
           /\ t[i].node = s[i].node /\ t[i].list = s[i].list
           /\ t[i].op = s[i].op \/ (s[i].op = "refresh" /\ t[i].op = "torn")
  BY TornFrames
<1>2. ASSUME NEW i \in 1 .. Len(s)
      PROVE  /\ t[i].op = "refresh" => s[i].op = "refresh" /\ s[i].node # n
             /\ t[i].op = "torn" => s[i].op = "torn" \/ s[i].node = n
             /\ t[i].op = "body" => s[i].op = "body"
  <2>1. t[i] = IF s[i].op = "refresh" /\ s[i].node = n
                 THEN [s[i] EXCEPT !.op = "torn"] ELSE s[i]
    BY DEF Torn
  <2>2. s[i] \in Frame
    OBVIOUS
  <2>3. s[i].op = "refresh" /\ s[i].node = n => t[i].op = "torn"
    BY <2>1, <2>2 DEF Frame
  <2>4. ~(s[i].op = "refresh" /\ s[i].node = n) => t[i] = s[i]
    BY <2>1
  <2>5. QED BY <2>3, <2>4
<1> HIDE DEF t
<1>3. ASSUME NEW i \in 1 .. Len(t) PROVE Visits(t, i, pr, loose)
  <2>1. Visits(s, i, pr, loose)
    BY <1>1 DEF Vetted
  <2>2. ASSUME t[i].op = "refresh", NEW k \in 1 .. Len(t[i].list),
               <<t[i].node, t[i].list[k]>> \in loose
        PROVE  i > 1 /\ Walks(t[i - 1], t[i].list[k])
    <3>1. i > 1 /\ Walks(s[i - 1], s[i].list[k]) /\ t[i].list[k] = s[i].list[k]
      BY <1>1, <1>2, <2>1, <2>2 DEF Visits
    <3>2. i - 1 \in 1 .. Len(s)
      BY <1>1, <3>1
    <3>3. QED BY <1>1, <3>1, <3>2 DEF Walks
  <2>3. QED BY <1>1, <1>2, <2>1, <2>2 DEF Visits
<1>4. \A i \in 1 .. Len(t) : t[i].op = "torn" => t[i].node \in calm
  BY <1>1, <1>2 DEF Vetted
<1>5. \A i, j \in 1 .. Len(t) :
        i < j /\ t[i].op = "body" /\ t[j].op = "refresh" => t[i].node # t[j].node
  BY <1>1, <1>2 DEF Vetted
<1>6. Vetted(t, pr, loose, calm)
  BY <1>3, <1>4, <1>5 DEF Vetted
<1>7. \A i \in 1 .. Len(t) : ~(t[i].op = "refresh" /\ t[i].node = n)
  BY <1>1, <1>2
<1>8. QED BY <1>6, <1>7 DEF t

\* The innermost frame goes on, as what it was.
LEMMA VettedHead ==
  ASSUME NEW s \in Seq(Frame), s # <<>>, NEW fr \in Frame, fr.op = s[1].op,
         fr.node = s[1].node, NEW pr, NEW loose, NEW calm, Vetted(s, pr, loose, calm),
         fr.op = "refresh" =>
           /\ Len(fr.list) <= Len(pr[fr.node])
           /\ \A k \in 1 .. Len(fr.list) : fr.list[k] = pr[fr.node][k]
           /\ \A k \in 1 .. Len(fr.list) : <<fr.node, fr.list[k]>> \notin loose
  PROVE  Vetted(<<fr>> \o Tail(s), pr, loose, calm)
<1> DEFINE u == Tail(s)
           t == <<fr>> \o u
<1>1. /\ u \in Seq(Frame) /\ Len(u) = Len(s) - 1 /\ Len(s) >= 1 /\ Len(s) \in Nat
      /\ \A i \in 1 .. Len(s) - 1 : u[i] = s[i + 1]
  BY Rests
<1>2. /\ t \in Seq(Frame) /\ Len(t) = Len(s) /\ t[1] = fr
      /\ \A i \in 2 .. Len(s) : t[i] = s[i]
  <2> HIDE DEF u
  <2>1. /\ t \in Seq(Frame) /\ Len(t) = Len(u) + 1 /\ t[1] = fr
        /\ \A i \in 2 .. Len(u) + 1 : t[i] = u[i - 1]
    BY <1>1, Cons
  <2>2. ASSUME NEW i \in 2 .. Len(s) PROVE t[i] = s[i]
    <3>1. i - 1 \in 1 .. Len(s) - 1 /\ i - 1 + 1 = i /\ i \in 2 .. Len(u) + 1
      BY <1>1
    <3>2. u[i - 1] = s[i]
      BY <1>1, <3>1
    <3>3. QED BY <2>1, <3>1, <3>2
  <2>3. QED BY <1>1, <2>1, <2>2
<1> HIDE DEF u, t
<1>3. \A i \in 1 .. Len(s) :
        /\ t[i].op = s[i].op /\ t[i].node = s[i].node
        /\ i = 1 \/ t[i] = s[i]
  BY <1>1, <1>2
<1>4. ASSUME NEW i \in 1 .. Len(t) PROVE Visits(t, i, pr, loose)
  <2>1. CASE i = 1
    BY <1>2, <2>1 DEF Visits
  <2>2. CASE i # 1
    <3>1. t[i] = s[i] /\ Visits(s, i, pr, loose) /\ i - 1 \in 1 .. Len(s)
      BY <1>2, <1>3, <2>2 DEF Vetted
    <3>2. t[i - 1].op = s[i - 1].op /\ t[i - 1].node = s[i - 1].node
      BY <1>3, <3>1
    <3>3. QED BY <3>1, <3>2 DEF Visits, Walks
  <2>3. QED BY <2>1, <2>2
<1>5. \A i \in 1 .. Len(t) : t[i].op = "torn" => t[i].node \in calm
  BY <1>2, <1>3 DEF Vetted
<1>6. \A i, j \in 1 .. Len(t) :
        i < j /\ t[i].op = "body" /\ t[j].op = "refresh" => t[i].node # t[j].node
  BY <1>2, <1>3 DEF Vetted
<1>7. Vetted(t, pr, loose, calm)
  BY <1>4, <1>5, <1>6 DEF Vetted
<1>8. QED BY <1>7 DEF t, u

HasWalk(s, n) == \E i \in 1 .. Len(s) : s[i].op = "refresh" /\ s[i].node = n

\* The same stack, when no walk gets a new loose end and what was torn stays calm.
LEMMA VettedNow ==
  ASSUME NEW s \in Seq(Frame), NEW pr, NEW loose, NEW calm, Vetted(s, pr, loose, calm),
         NEW pr2, NEW loose2, NEW calm2,
         \A n : HasWalk(s, n) =>
           /\ pr2[n] = pr[n]
           /\ \A p : Holds(pr[n], p) /\ <<n, p>> \in loose2 => <<n, p>> \in loose,
         \A i \in 1 .. Len(s) : s[i].op = "torn" /\ s[i].node \in calm => s[i].node \in calm2,
         \A n : HasWalk(s, n) => Len(pr[n]) \in Nat
  PROVE  Vetted(s, pr2, loose2, calm2)
<1>1. ASSUME NEW i \in 1 .. Len(s), s[i].op = "refresh"
      PROVE  /\ Len(s[i].list) <= Len(pr2[s[i].node])
             /\ \A k \in 1 .. Len(s[i].list) :
                  /\ s[i].list[k] = pr2[s[i].node][k]
                  /\ <<s[i].node, s[i].list[k]>> \in loose2 =>
                       i > 1 /\ Walks(s[i - 1], s[i].list[k])
  <2> DEFINE n == s[i].node
  <2>1. HasWalk(s, n)
    BY <1>1 DEF HasWalk
  <2>2. pr2[n] = pr[n] /\ Len(pr[n]) \in Nat /\ s[i] \in Frame
    BY <2>1
  <2>3. Visits(s, i, pr, loose)
    BY DEF Vetted
  <2>4. Len(s[i].list) <= Len(pr[n]) /\ Len(s[i].list) \in Nat
    BY <1>1, <2>2, <2>3 DEF Visits, Frame
  <2>5. ASSUME NEW k \in 1 .. Len(s[i].list)
        PROVE  Holds(pr[n], s[i].list[k]) /\ s[i].list[k] = pr[n][k]
    <3>1. k \in 1 .. Len(pr[n])
      BY <2>2, <2>4
    <3>2. s[i].list[k] = pr[n][k]
      BY <1>1, <2>3 DEF Visits
    <3>3. QED BY <3>1, <3>2 DEF Holds
  <2>6. ASSUME NEW k \in 1 .. Len(s[i].list), <<n, s[i].list[k]>> \in loose2
        PROVE  i > 1 /\ Walks(s[i - 1], s[i].list[k])
    <3>1. <<n, s[i].list[k]>> \in loose
      BY <2>1, <2>5, <2>6
    <3>2. QED BY <1>1, <2>3, <3>1 DEF Visits
  <2>7. QED BY <2>2, <2>4, <2>5, <2>6
<1>2. \A i \in 1 .. Len(s) : Visits(s, i, pr2, loose2)
  BY <1>1 DEF Visits
<1>3. QED BY <1>2 DEF Vetted

\* The innermost frame visits p and evaluates it.
LEMMA VettedPull ==
  ASSUME NEW s \in Seq(Frame), s # <<>>, NEW fr \in Frame, NEW up \in Frame,
         s[1].op = "refresh", fr.op = "refresh", fr.node = s[1].node,
         NEW pr, NEW loose, NEW calm, Vetted(s, pr, loose, calm),
         NEW p, up.op = "refresh", up.node = p, Len(up.list) = 0, Len(pr[p]) >= 0,
         Len(fr.list) <= Len(pr[fr.node]),
         \A k \in 1 .. Len(fr.list) :
           /\ fr.list[k] = pr[fr.node][k]
           /\ fr.list[k] = p \/ <<fr.node, fr.list[k]>> \notin loose
  PROVE  Vetted(<<up>> \o (<<fr>> \o Tail(s)), pr, loose, calm)
<1> DEFINE less == loose \ {<<fr.node, p>>}
           u == <<fr>> \o Tail(s)
           t == <<up>> \o u
<1>1. Vetted(s, pr, less, calm)
  <2>1. \A i \in 1 .. Len(s) : Visits(s, i, pr, less)
    BY DEF Vetted, Visits
  <2>2. QED BY <2>1 DEF Vetted
<1>2. \A k \in 1 .. Len(fr.list) : <<fr.node, fr.list[k]>> \notin less
  OBVIOUS
<1>3. Tail(s) \in Seq(Frame) /\ Len(s) \in Nat /\ Len(Tail(s)) = Len(s) - 1
      /\ \A i \in 1 .. Len(s) - 1 : Tail(s)[i] = s[i + 1]
  BY Rests
<1> HIDE DEF less
<1>4. Vetted(u, pr, less, calm)
  BY <1>1, <1>2, VettedHead
<1>5. /\ u \in Seq(Frame) /\ u[1] = fr /\ Len(u) = Len(s)
      /\ \A i \in 2 .. Len(s) : u[i] = Tail(s)[i - 1]
  BY <1>3, Cons
<1>6. \A i \in 2 .. Len(s) : u[i] = s[i]
  <2>1. ASSUME NEW i \in 2 .. Len(s) PROVE u[i] = s[i]
    <3>1. i - 1 \in 1 .. Len(s) - 1 /\ i - 1 + 1 = i
      BY <1>3
    <3>2. QED BY <1>3, <1>5, <3>1
  <2>2. QED BY <2>1
<1> HIDE DEF u
<1>7. Vetted(t, pr, less, calm)
  BY <1>4, <1>5, VettedPush
<1>8. /\ t \in Seq(Frame) /\ t[1] = up /\ Len(t) = Len(s) + 1
      /\ \A i \in 2 .. Len(s) + 1 : t[i] = u[i - 1]
  BY <1>5, Cons
<1> HIDE DEF t
<1>9. ASSUME NEW i \in 1 .. Len(t) PROVE Visits(t, i, pr, loose)
  <2>1. Visits(t, i, pr, less)
    BY <1>7 DEF Vetted
  <2>2. ASSUME t[i].op = "refresh", NEW k \in 1 .. Len(t[i].list),
               <<t[i].node, t[i].list[k]>> \in loose, <<t[i].node, t[i].list[k]>> \notin less
        PROVE  i > 1 /\ Walks(t[i - 1], t[i].list[k])
    <3>1. t[i].node = fr.node /\ t[i].list[k] = p
      BY <2>2 DEF less
    <3>2. CASE i = 1
      <4>1. k \in 1 .. 0
        BY <1>8, <2>2, <3>2
      <4>2. QED BY <4>1
    <3>3. CASE i = 2
      BY <1>8, <3>1, <3>3 DEF Walks
    <3>4. CASE i > 2
      <4>1. i - 1 \in 2 .. Len(s) /\ i \in 2 .. Len(s) + 1 /\ i - 1 \in 1 .. Len(s)
        BY <1>3, <1>8, <3>4
      <4>2. t[i] = s[i - 1]
        BY <1>6, <1>8, <4>1
      <4>3. Visits(s, i - 1, pr, loose)
        BY <4>1 DEF Vetted
      <4>4. Walks(s[i - 1 - 1], p)
        BY <2>2, <3>1, <4>2, <4>3 DEF Visits
      <4>5. i - 2 \in 1 .. Len(s) /\ i - 1 \in 2 .. Len(s) + 1
        BY <1>3, <4>1
      <4>6. t[i - 1] = u[i - 2]
        BY <1>8, <4>5
      <4>7. Walks(u[i - 2], p)
        <5>1. CASE i - 2 = 1
          BY <1>5, <4>4, <5>1 DEF Walks
        <5>2. CASE i - 2 # 1
          BY <1>6, <4>4, <4>5, <5>2
        <5>3. QED BY <5>1, <5>2
      <4>8. QED BY <3>1, <3>4, <4>6, <4>7
    <3>5. i = 1 \/ i = 2 \/ i > 2
      BY <1>3, <1>8
    <3>6. QED BY <3>2, <3>3, <3>4, <3>5
  <2>3. QED BY <2>1, <2>2 DEF Visits
<1>10. Vetted(t, pr, loose, calm)
  BY <1>7, <1>9 DEF Vetted
<1>11. QED BY <1>10 DEF t, u

-----------------------------------------------------------------------------
(* What the steps do to walks and marks.                                     *)

LEMMA PendsPop ==
  ASSUME NEW s \in Seq(Frame), s # <<>>, NEW n, NEW p, Pends(s, n, p),
         ~(s[1].op = "mark" /\ s[1].node = p /\ Holds(s[1].list, n))
  PROVE  Pends(Tail(s), n, p)
<1>1. /\ Len(Tail(s)) = Len(s) - 1 /\ Len(s) \in Nat
      /\ \A i \in 1 .. Len(s) - 1 : Tail(s)[i] = s[i + 1]
  BY Rests
<1>2. PICK k \in 1 .. Len(s) : s[k].op = "mark" /\ s[k].node = p /\ Holds(s[k].list, n)
  BY DEF Pends
<1>3. k - 1 \in 1 .. Len(Tail(s)) /\ k - 1 + 1 = k
  BY <1>1, <1>2
<1>4. Tail(s)[k - 1] = s[k]
  BY <1>1, <1>3
<1>5. QED BY <1>2, <1>3, <1>4 DEF Pends

LEMMA PendsPush ==
  ASSUME NEW s \in Seq(Frame), NEW fr \in Frame, NEW n, NEW p,
         \/ Pends(s, n, p)
         \/ fr.op = "mark" /\ fr.node = p /\ Holds(fr.list, n)
  PROVE  Pends(<<fr>> \o s, n, p)
<1> DEFINE t == <<fr>> \o s
<1>1. /\ Len(t) = Len(s) + 1 /\ t[1] = fr /\ Len(s) \in Nat
      /\ \A i \in 1 .. Len(s) : t[i + 1] = s[i]
  BY Cons
<1> HIDE DEF t
<1>2. ASSUME NEW k \in 1 .. Len(s), s[k].op = "mark", s[k].node = p, Holds(s[k].list, n)
      PROVE  Pends(t, n, p)
  <2>1. k + 1 \in 1 .. Len(t) /\ t[k + 1] = s[k]
    BY <1>1
  <2>2. QED BY <1>2, <2>1 DEF Pends
<1>3. ASSUME fr.op = "mark", fr.node = p, Holds(fr.list, n) PROVE Pends(t, n, p)
  <2>1. 1 \in 1 .. Len(t)
    BY <1>1
  <2>2. QED BY <1>1, <1>3, <2>1 DEF Pends
<1>4. Pends(t, n, p)
  BY <1>2, <1>3 DEF Pends
<1>5. QED BY <1>4 DEF t

LEMMA PendsTorn ==
  ASSUME NEW s \in Seq(Frame), NEW m, NEW n, NEW p, Pends(s, n, p)
  PROVE  Pends(Torn(m, s), n, p)
<1>1. /\ Len(Torn(m, s)) = Len(s)
      /\ \A i \in 1 .. Len(s) :
           /\ Torn(m, s)[i].node = s[i].node /\ Torn(m, s)[i].list = s[i].list
           /\ Torn(m, s)[i].op = s[i].op \/ s[i].op = "refresh"
  BY TornFrames
<1>2. QED BY <1>1 DEF Pends

Sized(pr) == \A n \in Nodes : Len(pr[n]) \in Nat

\* No mark is lost, and walks go on as they were.
Keeps(s, t) ==
  /\ t \in Seq(Frame)
  /\ \A pr, loose, calm :
       Sized(pr) /\ Vetted(s, pr, loose, calm) => Vetted(t, pr, loose, calm)
  /\ \A n, p : Pends(s, n, p) => Pends(t, n, p)

LEMMA KeepsOn ==
  ASSUME NEW r, NEW s, NEW t, Keeps(r, s), Keeps(s, t)
  PROVE  Keeps(r, t)
BY DEF Keeps

LEMMA KeepsSame == ASSUME NEW s \in Seq(Frame) PROVE Keeps(s, s)
BY DEF Keeps

LEMMA KeepsPop ==
  ASSUME NEW s \in Seq(Frame), s # <<>>, s[1].op \notin {"refresh", "torn"},
         s[1].op = "mark" => s[1].list = <<>>
  PROVE  Keeps(s, Tail(s))
<1>1. \A n, p : Walks(s[1], p) => FALSE
  BY DEF Walks
<1>2. ASSUME NEW pr, NEW loose, NEW calm, Vetted(s, pr, loose, calm)
      PROVE  Vetted(Tail(s), pr, loose, calm)
  BY <1>1, <1>2, VettedPop
<1>3. ASSUME NEW n, NEW p, Pends(s, n, p) PROVE Pends(Tail(s), n, p)
  <2>1. \A x : ~Holds(<<>>, x)
    BY DEF Holds
  <2>2. QED BY <1>3, <2>1, PendsPop
<1>4. Tail(s) \in Seq(Frame)
  BY Rests
<1>5. QED BY <1>2, <1>3, <1>4 DEF Keeps

LEMMA KeepsCall ==
  ASSUME NEW s \in Seq(Frame), NEW op \in Ops, op \notin {"torn", "body"},
         NEW n \in Nodes \union Producers \union {Nothing}, NEW list \in Seq(Nodes \union Producers),
         op = "refresh" => list = <<>> /\ n \in Nodes
  PROVE  Keeps(s, <<Call(op, n, list)>> \o s)
<1> DEFINE fr == Call(op, n, list)
<1>1. fr \in Frame /\ fr.op = op /\ fr.node = n /\ fr.list = list
  <2>1. /\ Call(op, n, list) \in Frame /\ Call(op, n, list).op = op
        /\ Call(op, n, list).node = n /\ Call(op, n, list).list = list
    BY DEF Call, Frame
  <2>2. QED BY <2>1
<1> HIDE DEF fr
<1>2. op = "refresh" => Len(fr.list) = 0
  BY <1>1
<1>3. ASSUME NEW pr, NEW loose, NEW calm, Sized(pr), Vetted(s, pr, loose, calm)
      PROVE  Vetted(<<fr>> \o s, pr, loose, calm)
  <2>1. op = "refresh" => Len(pr[fr.node]) >= 0
    BY <1>1, <1>3 DEF Sized
  <2>2. fr.op = "refresh" => Len(fr.list) = 0 /\ Len(pr[fr.node]) >= 0
    BY <1>1, <1>2, <2>1
  <2>3. fr.op # "torn" /\ fr.op # "body"
    BY <1>1
  <2>4. fr.op = "body" => \A i \in 1 .. Len(s) : ~(s[i].op = "refresh" /\ s[i].node = fr.node)
    BY <2>3
  <2>5. Vetted(s, pr, loose, calm) /\ fr \in Frame
    BY <1>1, <1>3
  <2>6. QED BY <2>2, <2>3, <2>4, <2>5, VettedPush
<1>4. \A m, p : Pends(s, m, p) => Pends(<<fr>> \o s, m, p)
  BY <1>1, PendsPush
<1>5. <<fr>> \o s \in Seq(Frame)
  BY <1>1, Cons
<1>6. Keeps(s, <<fr>> \o s)
  BY <1>3, <1>4, <1>5 DEF Keeps
<1>7. QED BY <1>6 DEF fr

LEMMA KeepsRefresh ==
  ASSUME NEW s \in Seq(Frame), NEW n \in Nodes
  PROVE  Keeps(s, <<Refresh(n)>> \o s)
<1> DEFINE none == <<>>
<1>1. /\ "refresh" \in Ops /\ none \in Seq(Nodes \union Producers)
      /\ n \in Nodes \union Producers \union {Nothing}
  BY DEF Ops
<1>2. Keeps(s, <<Call("refresh", n, none)>> \o s)
  BY <1>1, KeepsCall
<1>3. QED BY <1>2 DEF Refresh, none

\* propagate, which begins a mark of p that has all consumers of p on its list.
LEMMA KeepsMark ==
  ASSUME EdgesOK, NEW s \in Seq(Frame), NEW p \in Producers
  PROVE  /\ Keeps(s, <<Call("mark", p, consumers[p])>> \o s)
         /\ \A n : Holds(consumers[p], n) => Pends(<<Call("mark", p, consumers[p])>> \o s, n, p)
<1>1. /\ "mark" \in Ops /\ consumers[p] \in Seq(Nodes \union Producers)
      /\ p \in Nodes \union Producers \union {Nothing}
  BY ConsumersOK DEF Ops
<1>2. Keeps(s, <<Call("mark", p, consumers[p])>> \o s)
  BY <1>1, KeepsCall
<1> DEFINE fr == Call("mark", p, consumers[p])
<1>3. fr \in Frame /\ fr.op = "mark" /\ fr.node = p /\ fr.list = consumers[p]
  BY <1>1, CallOK
<1> HIDE DEF fr
<1>4. \A n : Holds(consumers[p], n) => Pends(<<fr>> \o s, n, p)
  BY <1>3, PendsPush
<1>5. QED BY <1>2, <1>4 DEF fr

LEMMA KeepsCaller ==
  ASSUME Idle, NEW x \in Nodes \union Producers
  PROVE  Keeps(stack, Caller(x))
<1> DEFINE none == <<>>
           fr == Call("call", x, none)
<1>1. /\ "call" \in Ops /\ none \in Seq(Nodes \union Producers) /\ none \in Seq(Frame)
      /\ x \in Nodes \union Producers \union {Nothing}
  BY DEF Ops
<1>2. fr \in Frame
  BY <1>1, CallOK
<1>3. <<fr>> \o <<>> = <<fr>>
  BY <1>2
<1>4. Keeps(none, <<Call("call", x, none)>> \o none)
  <2> HIDE DEF none
  <2>1. QED BY <1>1, KeepsCall
<1>5. QED BY <1>3, <1>4 DEF Caller, Idle, none, fr

LEMMA KeepsAnswered ==
  ASSUME NEW s, StackOK(s), s # <<>>, s[1].op = "body", NEW v \in Values \union {Nothing}
  PROVE  Keeps(s, Answered(s, v))
<1> DEFINE fr == [Head(s) EXCEPT !.seen = Append(@, v)]
<1>1. s \in Seq(Frame) /\ Head(s) = s[1] /\ Head(s) \in Frame /\ Tail(s) \in Seq(Frame)
  BY Rests DEF StackOK
<1>2. s[1].seen \in Seq(Values \union {Nothing})
  BY <1>1 DEF Frame
<1>3. Append(s[1].seen, v) \in Seq(Values \union {Nothing})
  BY <1>2
<1>4. fr \in Frame /\ fr.op = s[1].op /\ fr.node = s[1].node
  BY <1>1, <1>3 DEF Frame
<1> HIDE DEF fr
<1>5. \A pr, loose, calm : Vetted(s, pr, loose, calm) =>
        Vetted(<<fr>> \o Tail(s), pr, loose, calm)
  BY <1>1, <1>4, VettedHead
<1>6. \A n, p : Pends(s, n, p) => Pends(<<fr>> \o Tail(s), n, p)
  BY <1>1, <1>4, PendsPop, PendsPush
<1>7. <<fr>> \o Tail(s) \in Seq(Frame)
  BY <1>1, <1>4, Cons
<1>8. Keeps(s, <<fr>> \o Tail(s))
  BY <1>5, <1>6, <1>7 DEF Keeps
<1>9. QED BY <1>8 DEF Answered, fr

LEMMA KeepsDone ==
  ASSUME TypeInv, At("body")
  PROVE  /\ Keeps(stack, Done) /\ Done \in Seq(Frame)
         /\ \A v \in Values \union {Nothing} : Keeps(stack, Answered(stack, v))
<1>1. StackOK(stack) /\ stack # <<>> /\ stack[1].op = "body"
  BY TopOK DEF TypeInv, At
<1>2. \A v \in Values \union {Nothing} : Keeps(stack, Answered(stack, v))
  BY <1>1, KeepsAnswered
<1>3. (CHOOSE v \in Values : TRUE) \in Values
  BY GraphAssumption DEF GraphAssumption
<1>4. Keeps(stack, Done)
  BY <1>2, <1>3 DEF Done
<1>5. QED BY <1>2, <1>4 DEF Keeps

LEMMA KeepsTail ==
  ASSUME TypeInv, stack # <<>>, Top.op \notin {"refresh", "torn"},
         Top.op = "mark" => Top.list = <<>>
  PROVE  Keeps(stack, Tail(stack))
<1>1. stack \in Seq(Frame) /\ stack[1] = Top
  BY TopOK DEF TypeInv, StackOK
<1>2. QED BY <1>1, KeepsPop

LEMMA KeepsSchedule ==
  ASSUME NEW e, NEW frames \in Seq(Frame), Schedule(e, frames)
  PROVE  Keeps(frames, stack')
<1> DEFINE none == <<>>
<1>1. /\ "flush" \in Ops /\ none \in Seq(Nodes \union Producers)
      /\ Nothing \in Nodes \union Producers \union {Nothing}
  BY DEF Ops
<1>2. stack' = IF flushing THEN frames ELSE <<Call("flush", Nothing, none)>> \o frames
  BY DEF Schedule
<1> HIDE DEF none
<1>3. Keeps(frames, <<Call("flush", Nothing, none)>> \o frames)
  BY <1>1, KeepsCall
<1>4. QED BY <1>2, <1>3, KeepsSame

\* A computed's new value or error: its own frame becomes one that propagates.
LEMMA KeepsResult ==
  ASSUME TypeInv, stack # <<>>, Top.op \in {"body", "propagate"}, Top.node \in Computeds,
         NEW op \in {"propagate", "failed"}, NEW t,
         t = <<Call("mark", Top.node, consumers[Top.node])>> \o
               (<<Call(op, Top.node, <<>>)>> \o Tail(stack))
  PROVE  /\ Keeps(stack, t)
         /\ \A n : Holds(consumers[Top.node], n) => Pends(t, n, Top.node)
<1> DEFINE none == <<>>
           frames == <<Call(op, Top.node, none)>> \o Tail(stack)
<1>1. /\ op \in Ops /\ op \notin {"torn", "body", "refresh"} /\ none \in Seq(Nodes \union Producers)
      /\ Top.node \in Nodes \union Producers \union {Nothing} /\ Top.node \in Producers
  BY DEF Ops, Producers
<1>2. t = <<Call("mark", Top.node, consumers[Top.node])>> \o frames
  OBVIOUS
<1> HIDE DEF none
<1>3. Keeps(stack, Tail(stack)) /\ Tail(stack) \in Seq(Frame)
  BY KeepsTail DEF Keeps
<1>4. Keeps(Tail(stack), frames)
  BY <1>1, <1>3, KeepsCall
<1>5. frames \in Seq(Frame)
  BY <1>4 DEF Keeps
<1> HIDE DEF frames
<1>6. /\ Keeps(frames, t)
      /\ \A n : Holds(consumers[Top.node], n) => Pends(t, n, Top.node)
  BY <1>1, <1>2, <1>5, KeepsMark DEF TypeInv
<1>7. QED BY <1>3, <1>4, <1>6, KeepsOn

-----------------------------------------------------------------------------
(* What was read, and who was told of a change.                              *)

Ended(lf, n) == n \in Effects /\ lf[n] \in {"destroyed", "cut"}

\* The nodes whose edges must be right, and of which no mark was taken back.
Followed(lf, ms, n) == ~Ended(lf, n) /\ n \notin ms

\* A read would have another result now.
Stale(r) ==
  IF r[1] \in Sources THEN r[2] # value[r[1]]
  ELSE r[2] # cached[r[1]] \/ error[r[1]] # Nothing

\* What a node read is among its producers, and what changed since is unseen.
Heard ==
  /\ reads \in [Nodes -> SUBSET (Producers \X (Values \union Errors \union {Nothing}))]
  /\ \A n \in Nodes : ~Ended(life, n) =>
       /\ \A r \in reads[n] : Holds(producers[n], r[1])
       /\ \A p \in unseen[n] : Holds(producers[n], p)
       /\ n \notin missed => \A r \in reads[n] : Stale(r) => r[1] \in unseen[n]

\* A node with a producer that changed, or that is dirty, is dirty, or the mark that
\* says so is on its way.
Told(st, lf, ms, dr, un, pr) ==
  \A n \in Nodes, p \in Producers :
    Followed(lf, ms, n) /\ Holds(pr[n], p) /\ (p \in un[n] \/ (p \in Computeds /\ dr[p])) =>
      dr[n] \/ Pends(st, n, p)

\* The edges to dirty producers of which no mark is on its way.
LooseOf(st, lf, ms, dr) ==
  {x \in Nodes \X Producers :
     /\ Followed(lf, ms, x[1]) /\ x[2] \in Computeds /\ dr[x[2]]
     /\ ~Pends(st, x[1], x[2])}

CalmOf(lf, ms, dr) == {n \in Nodes : ~Followed(lf, ms, n) \/ ~dr[n]}

Loose == LooseOf(stack, life, missed, dirty)
Calm == CalmOf(life, missed, dirty)

WalkOK ==
  Heard /\ Told(stack, life, missed, dirty, unseen, producers)
    /\ Vetted(stack, producers, Loose, Calm)

\* No exception has got out of a body, or is about to.
Intact ==
  ~broken /\ ~(stack # <<>> /\ thrown # Nothing /\ Top.op \in {"refresh", "torn"})

LEMMA WalkPrime ==
  ASSUME Heard', Told(stack', life', missed', dirty', unseen', producers'),
         Vetted(stack', producers', LooseOf(stack', life', missed', dirty'),
                CalmOf(life', missed', dirty'))
  PROVE  WalkOK'
BY DEF WalkOK, Told, Vetted, Visits, Walks, Loose, Calm, LooseOf, CalmOf, Pends, Followed, Ended

\* What an edge without a mark, and a calm node, are.
LEMMA LooseIs ==
  ASSUME NEW st, NEW lf, NEW ms, NEW dr, NEW n, NEW p
  PROVE  <<n, p>> \in LooseOf(st, lf, ms, dr) <=>
           /\ n \in Nodes /\ p \in Producers /\ Followed(lf, ms, n)
           /\ p \in Computeds /\ dr[p] /\ ~Pends(st, n, p)
<1> DEFINE x == <<n, p>>
<1>1. x[1] = n /\ x[2] = p /\ (x \in Nodes \X Producers <=> n \in Nodes /\ p \in Producers)
  OBVIOUS
<1>2. x \in LooseOf(st, lf, ms, dr) <=>
        /\ x \in Nodes \X Producers /\ Followed(lf, ms, x[1]) /\ x[2] \in Computeds
        /\ dr[x[2]] /\ ~Pends(st, x[1], x[2])
  BY DEF LooseOf
<1> HIDE DEF x
<1>3. QED BY <1>1, <1>2 DEF x

LEMMA CalmIs ==
  ASSUME NEW lf, NEW ms, NEW dr, NEW n \in Nodes
  PROVE  n \in CalmOf(lf, ms, dr) <=> ~Followed(lf, ms, n) \/ ~dr[n]
BY DEF CalmOf

LEMMA SizedNow == ASSUME EdgesOK PROVE Sized(producers)
BY DEF EdgesOK, Sized

\* Once an exception has got out it stays out.
LEMMA BrokenStays ==
  ASSUME [Next]_graphVars, ~broken'
  PROVE  ~broken
<1>1. broken' = broken \/ broken' = TRUE
  <2>1. CASE UNCHANGED graphVars
    BY <2>1 DEF graphVars, past
  <2>2. CASE Calls
    BY <2>2 DEF Calls, Set, Get, NewEffect, DestroyEffect, past
  <2>3. CASE MarkSkip \/ MarkComputed \/ MarkEffect \/ Leave \/ FlushNext \/ FlushEnds
              \/ RefreshNext \/ SkipBody \/ StartBody \/ PushFails
    BY <2>3 DEF MarkSkip, MarkComputed, MarkEffect, Leave, FlushNext, FlushEnds, RefreshNext,
                SkipBody, StartBody, Start, PushFails, Reach, past
  <2>4. CASE Peek \/ Evaluate \/ Read \/ PeekDone \/ ReadError \/ RaiseNew
    BY <2>4 DEF Peek, Evaluate, Read, PeekDone, ReadError, RaiseNew
  <2>5. CASE WriteInBody \/ CreateInBody \/ DestroyInBody \/ NoEffect \/ ReturnSame
              \/ ReturnNew \/ Catch \/ Unwind \/ Return
    BY <2>5 DEF WriteInBody, CreateInBody, DestroyInBody, NoEffect, ReturnSame, ReturnNew,
                Catch, Unwind, Return, past
  <2>6. QED BY <2>1, <2>2, <2>3, <2>4, <2>5 DEF Next, Step
<1>2. QED BY <1>1

\* From a walk, an exception gets out.
LEMMA IntactBack ==
  ASSUME [Next]_graphVars, Intact'
  PROVE  Intact
<1>1. ~broken' /\ ~broken
  BY BrokenStays DEF Intact
<1>2. ASSUME stack # <<>>, thrown # Nothing, Top.op \in {"refresh", "torn"}
      PROVE  FALSE
  <2>1. ~Calls
    BY <1>2 DEF Calls, Set, Get, NewEffect, DestroyEffect, Idle
  <2>2. ~(MarkSkip \/ MarkComputed \/ MarkEffect \/ Leave \/ FlushNext \/ FlushEnds
            \/ RefreshNext \/ SkipBody \/ StartBody \/ PushFails)
    BY <1>2 DEF MarkSkip, MarkComputed, MarkEffect, Leave, FlushNext, FlushEnds, RefreshNext,
                SkipBody, StartBody, PushFails, AtRefresh, At
  <2>3. ~(Peek \/ Evaluate \/ Read \/ PeekDone \/ ReadError \/ RaiseNew)
    BY <1>2 DEF Peek, Evaluate, Read, PeekDone, ReadError, RaiseNew, Ready, Reading, Doing, At
  <2>4. ~(WriteInBody \/ CreateInBody \/ DestroyInBody \/ NoEffect \/ ReturnSame
            \/ ReturnNew \/ Catch \/ Return)
    BY <1>2 DEF WriteInBody, CreateInBody, DestroyInBody, NoEffect, ReturnSame, ReturnNew,
                Catch, Catches, Return, Doing, At
  <2>5. ~Unwind
    BY <1>1 DEF Unwind
  <2>6. UNCHANGED graphVars
    BY <2>1, <2>2, <2>3, <2>4, <2>5 DEF Next, Step
  <2>7. QED BY <1>2, <2>6 DEF Intact, Top, graphVars
<1>3. QED BY <1>1, <1>2 DEF Intact

LEMMA WalksOfNodes ==
  ASSUME NEW s, StackOK(s), NEW n, HasWalk(s, n)
  PROVE  n \in Nodes
BY DEF StackOK, Whole, Evals, HasWalk

\* Walks go on with fewer loose ends and more calm nodes.
LEMMA VettedOn ==
  ASSUME NEW s, StackOK(s), NEW t, Keeps(s, t), NEW pr, NEW loose, NEW calm, NEW loose2, NEW calm2,
         Sized(pr), Vetted(s, pr, loose, calm),
         \A n : HasWalk(s, n) => \A p : Holds(pr[n], p) /\ <<n, p>> \in loose2 => <<n, p>> \in loose,
         \A i \in 1 .. Len(s) : s[i].op = "torn" /\ s[i].node \in calm => s[i].node \in calm2
  PROVE  Vetted(t, pr, loose2, calm2)
<1>1. \A n : HasWalk(s, n) => Len(pr[n]) \in Nat
  BY WalksOfNodes DEF Sized
<1>2. s \in Seq(Frame)
  BY DEF StackOK
<1>3. Vetted(s, pr, loose2, calm2)
  BY <1>1, <1>2, VettedNow
<1>4. QED BY <1>3 DEF Keeps

\* A step that changes no data, marks no node and loses no mark.
LEMMA WalkSame ==
  ASSUME TypeInv, WalkOK, Keeps(stack, stack'),
         UNCHANGED <<value, cached, dirty, producers, unseen, reads, missed>>,
         \A n \in Nodes : Ended(life', n) <=> Ended(life, n),
         \A c \in Computeds : error'[c] # Nothing => error[c] # Nothing
  PROVE  WalkOK'
<1>1. ASSUME NEW r \in Producers \X (Values \union Errors \union {Nothing}), Stale(r)'
      PROVE  Stale(r)
  <2>1. r[1] \in Producers
    OBVIOUS
  <2>2. QED BY <1>1, <2>1 DEF Stale, Producers
<1>2. Heard'
  <2>1. reads' \in [Nodes -> SUBSET (Producers \X (Values \union Errors \union {Nothing}))]
    BY DEF WalkOK, Heard
  <2>2. ASSUME NEW n \in Nodes, ~Ended(life', n)
        PROVE  /\ \A r \in reads'[n] : Holds(producers'[n], r[1])
               /\ \A p \in unseen'[n] : Holds(producers'[n], p)
               /\ n \notin missed' => \A r \in reads'[n] : Stale(r)' => r[1] \in unseen'[n]
    <3>1. ~Ended(life, n) /\ reads[n] \subseteq Producers \X (Values \union Errors \union {Nothing})
      BY <2>2 DEF WalkOK, Heard
    <3>2. QED BY <1>1, <3>1 DEF WalkOK, Heard
  <2>3. QED BY <2>1, <2>2 DEF Heard, Ended, Holds
<1>3. \A n, p : Pends(stack, n, p) => Pends(stack', n, p)
  BY DEF Keeps
<1>4. \A n \in Nodes : Followed(life', missed', n) <=> Followed(life, missed, n)
  BY DEF Followed
<1>5. Told(stack', life', missed', dirty', unseen', producers')
  BY <1>3, <1>4 DEF WalkOK, Told
<1> DEFINE loose2 == LooseOf(stack', life', missed', dirty')
           calm2 == CalmOf(life', missed', dirty')
<1>6. \A n, p : <<n, p>> \in loose2 => <<n, p>> \in Loose
  BY <1>3, <1>4, LooseIs DEF Loose
<1>7. \A n : n \in Calm => n \in calm2
  BY <1>4 DEF Calm, CalmOf
<1> HIDE DEF loose2, calm2
<1>8. Vetted(stack', producers, loose2, calm2)
  BY <1>6, <1>7, VettedOn, SizedNow DEF WalkOK, TypeInv
<1>9. QED BY <1>2, <1>5, <1>8, WalkPrime DEF loose2, calm2

\* A step that gives p another result and has all its consumers marked.
LEMMA WalkChange ==
  ASSUME TypeInv, EdgesMirror, WalkOK, Keeps(stack, stack'),
         UNCHANGED <<dirty, producers, reads, missed, life>>,
         NEW p \in Producers, unseen' = Bump(p),
         \A s \in Sources : s # p => value'[s] = value[s],
         \A c \in Computeds : c # p => cached'[c] = cached[c] /\ error'[c] = error[c],
         \A n : Holds(consumers[p], n) => Pends(stack', n, p)
  PROVE  WalkOK'
<1>1. ASSUME NEW r \in Producers \X (Values \union Errors \union {Nothing}), Stale(r)', r[1] # p
      PROVE  Stale(r)
  <2>1. r[1] \in Producers
    OBVIOUS
  <2>2. QED BY <1>1, <2>1 DEF Stale, Producers
<1>2. \A n \in Nodes : unseen'[n] = IF Holds(producers[n], p) THEN unseen[n] \union {p} ELSE unseen[n]
  BY DEF Bump
<1>3. Heard'
  <2>1. reads' \in [Nodes -> SUBSET (Producers \X (Values \union Errors \union {Nothing}))]
    BY DEF WalkOK, Heard
  <2>2. ASSUME NEW n \in Nodes, ~Ended(life', n)
        PROVE  /\ \A r \in reads'[n] : Holds(producers'[n], r[1])
               /\ \A q \in unseen'[n] : Holds(producers'[n], q)
               /\ n \notin missed' => \A r \in reads'[n] : Stale(r)' => r[1] \in unseen'[n]
    <3>1. ~Ended(life, n) /\ reads[n] \subseteq Producers \X (Values \union Errors \union {Nothing})
      BY <2>2 DEF WalkOK, Heard
    <3>2. /\ \A r \in reads[n] : Holds(producers[n], r[1])
          /\ \A q \in unseen[n] : Holds(producers[n], q)
          /\ n \notin missed => \A r \in reads[n] : Stale(r) => r[1] \in unseen[n]
      BY <3>1 DEF WalkOK, Heard
    <3>3. \A q \in unseen'[n] : Holds(producers'[n], q)
      BY <1>2, <3>2
    <3>4. ASSUME n \notin missed, NEW r \in reads[n], Stale(r)' PROVE r[1] \in unseen'[n]
      <4>1. CASE r[1] = p
        BY <1>2, <3>2, <4>1
      <4>2. CASE r[1] # p
        BY <1>1, <1>2, <3>1, <3>2, <3>4, <4>2
      <4>3. QED BY <4>1, <4>2
    <3>5. QED BY <3>2, <3>3, <3>4
  <2>3. QED BY <2>1, <2>2 DEF Heard, Ended, Holds
<1>4. \A n, q : Pends(stack, n, q) => Pends(stack', n, q)
  BY DEF Keeps
<1>5. Told(stack', life', missed', dirty', unseen', producers')
  <2>1. ASSUME NEW n \in Nodes, NEW q \in Producers, Followed(life', missed', n),
               Holds(producers'[n], q), q \in unseen'[n] \/ (q \in Computeds /\ dirty'[q])
        PROVE  dirty'[n] \/ Pends(stack', n, q)
    <3>1. CASE q = p
      BY <2>1, <3>1 DEF EdgesMirror
    <3>2. CASE q # p
      <4>1. q \in unseen'[n] => q \in unseen[n]
        <5>1. unseen'[n] = unseen[n] \union {p} \/ unseen'[n] = unseen[n]
          BY <1>2
        <5>2. QED BY <3>2, <5>1
      <4>2. dirty[n] \/ Pends(stack, n, q)
        BY <2>1, <4>1 DEF WalkOK, Told
      <4>3. QED BY <1>4, <4>2
    <3>3. QED BY <3>1, <3>2
  <2>2. QED BY <2>1 DEF Told
<1> DEFINE loose2 == LooseOf(stack', life', missed', dirty')
           calm2 == CalmOf(life', missed', dirty')
<1>6. \A n, q : <<n, q>> \in loose2 => <<n, q>> \in Loose
  BY <1>4, LooseIs DEF Loose
<1>7. \A n : n \in Calm => n \in calm2
  BY DEF Calm, CalmOf
<1> HIDE DEF loose2, calm2
<1>8. Vetted(stack', producers, loose2, calm2)
  BY <1>6, <1>7, VettedOn, SizedNow DEF WalkOK, TypeInv
<1>9. QED BY <1>3, <1>5, <1>8, WalkPrime DEF loose2, calm2

\* A mark goes on to the next node of its list.
LEMMA RestMarks ==
  ASSUME TypeInv, At("mark"), Top.list # <<>>
  PROVE  /\ Rest \in Seq(Frame) /\ Head(Top.list) \in Nodes
         /\ \A pr, loose, calm : Vetted(stack, pr, loose, calm) => Vetted(Rest, pr, loose, calm)
         /\ \A n, p : Pends(stack, n, p) /\ ~(n = Head(Top.list) /\ p = Top.node) =>
              Pends(Rest, n, p)
<1> DEFINE fr == [Top EXCEPT !.list = Tail(Top.list)]
<1>1. stack \in Seq(Frame) /\ stack # <<>> /\ stack[1] = Top /\ Top \in Frame /\ Top.op = "mark"
      /\ Whole(Top) /\ Tail(stack) \in Seq(Frame)
  BY TopOK, Rests DEF TypeInv, StackOK, At
<1>2. Top.list \in Seq(Nodes) /\ Top.list \in Seq(Nodes \union Producers)
  BY <1>1 DEF Whole, Frame
<1>3. /\ Head(Top.list) \in Nodes /\ Head(Top.list) = Top.list[1]
      /\ Len(Tail(Top.list)) = Len(Top.list) - 1 /\ Len(Top.list) \in Nat
      /\ \A i \in 1 .. Len(Top.list) - 1 : Tail(Top.list)[i] = Top.list[i + 1]
  BY <1>2, Rests
<1>4. Tail(Top.list) \in Seq(Nodes \union Producers)
  BY <1>2, Rests
<1>5. fr \in Frame /\ fr.op = "mark" /\ fr.node = Top.node /\ fr.list = Tail(Top.list)
  BY <1>1, <1>4 DEF Frame
<1>6. Rest = <<fr>> \o Tail(stack)
  BY DEF Rest, Advanced
<1> HIDE DEF fr
<1>7. Rest \in Seq(Frame)
  BY <1>1, <1>5, <1>6, Cons
<1>8. \A pr, loose, calm : Vetted(stack, pr, loose, calm) => Vetted(Rest, pr, loose, calm)
  BY <1>1, <1>5, <1>6, VettedHead
<1>9. ASSUME NEW n, NEW p, Pends(stack, n, p), ~(n = Head(Top.list) /\ p = Top.node)
      PROVE  Pends(Rest, n, p)
  <2>1. CASE Top.node = p /\ Holds(Top.list, n)
    <3>1. PICK i \in 1 .. Len(Top.list) : Top.list[i] = n
      BY <2>1 DEF Holds
    <3>2. i # 1
      BY <1>3, <1>9, <2>1, <3>1
    <3>3. i - 1 \in 1 .. Len(Tail(Top.list)) /\ i - 1 + 1 = i
      BY <1>3, <3>1, <3>2
    <3>4. Tail(Top.list)[i - 1] = n
      BY <1>3, <3>1, <3>3
    <3>5. Holds(fr.list, n)
      BY <1>5, <3>3, <3>4 DEF Holds
    <3>6. QED BY <1>1, <1>5, <1>6, <2>1, <3>5, PendsPush
  <2>2. CASE ~(Top.node = p /\ Holds(Top.list, n))
    <3>1. Pends(Tail(stack), n, p)
      BY <1>1, <1>9, <2>2, PendsPop
    <3>2. QED BY <1>1, <1>5, <1>6, <3>1, PendsPush
  <2>3. QED BY <2>1, <2>2
<1>10. QED BY <1>3, <1>7, <1>8, <1>9

LEMMA WalkingIs ==
  ASSUME NEW n
  PROVE  /\ HasWalk(stack, n) => Refreshing(n) # {}
         /\ \A i \in 1 .. Len(stack) :
              stack[i].op = "torn" /\ stack[i].node = n => Refreshing(n) # {}
BY DEF HasWalk, Refreshing, Frames

\* The next node of a mark's list is, or becomes, dirty; while it walks its producers
\* it is not followed any more.
LEMMA WalkMark ==
  ASSUME TypeInv, EdgesMirror, WalkOK, At("mark"), Top.list # <<>>,
         UNCHANGED <<value, cached, error, producers, unseen, reads, life>>,
         NEW m, m = Head(Top.list), dirty'[m],
         \A n \in Nodes : n # m => dirty'[n] = dirty[n],
         missed' = IF Refreshing(m) = {} THEN missed ELSE missed \union {m},
         Keeps(Rest, stack'),
         m \in Computeds /\ ~dirty[m] =>
           \A n : Holds(consumers[m], n) => Pends(stack', n, m)
  PROVE  WalkOK'
<1>1. /\ Rest \in Seq(Frame) /\ m \in Nodes
      /\ \A pr, loose, calm : Vetted(stack, pr, loose, calm) => Vetted(Rest, pr, loose, calm)
      /\ \A n, p : Pends(stack, n, p) /\ ~(n = m /\ p = Top.node) => Pends(Rest, n, p)
  BY RestMarks
<1>2. \A n, p : Pends(stack, n, p) /\ n # m => Pends(stack', n, p)
  BY <1>1 DEF Keeps
<1>3. missed \subseteq missed' /\ (m \notin missed' => Refreshing(m) = {})
  BY SMT
<1>4. \A n \in Nodes : Followed(life', missed', n) => Followed(life, missed, n)
  BY <1>3 DEF Followed
<1>5. Heard'
  <2>1. reads' \in [Nodes -> SUBSET (Producers \X (Values \union Errors \union {Nothing}))]
    BY DEF WalkOK, Heard
  <2>2. \A r : Stale(r)' <=> Stale(r)
    BY DEF Stale
  <2>3. ASSUME NEW n \in Nodes, ~Ended(life', n)
        PROVE  /\ \A r \in reads'[n] : Holds(producers'[n], r[1])
               /\ \A q \in unseen'[n] : Holds(producers'[n], q)
               /\ n \notin missed' => \A r \in reads'[n] : Stale(r)' => r[1] \in unseen'[n]
    BY <1>3, <2>2, <2>3 DEF WalkOK, Heard
  <2>4. QED BY <2>1, <2>3 DEF Heard, Ended, Holds
<1>6. ASSUME NEW n \in Nodes, NEW p \in Producers, n # m, Followed(life', missed', n),
             Holds(producers[n], p)
      PROVE  /\ p \in unseen[n] \/ (p \in Computeds /\ dirty'[p]) => dirty[n] \/ Pends(stack', n, p)
             /\ p \in Computeds /\ dirty'[p] /\ ~Pends(stack', n, p) =>
                  dirty[p] /\ ~Pends(stack, n, p)
  <2>1. CASE p = m /\ p \in Computeds /\ ~dirty[m]
    <3>1. Pends(stack', n, p)
      BY <1>6, <2>1 DEF EdgesMirror
    <3>2. QED BY <3>1
  <2>2. CASE ~(p = m /\ p \in Computeds /\ ~dirty[m])
    <3>1. p \in Computeds /\ dirty'[p] => dirty[p]
      BY <2>2 DEF Nodes
    <3>2. p \in unseen[n] \/ (p \in Computeds /\ dirty[p]) => dirty[n] \/ Pends(stack, n, p)
      BY <1>4, <1>6 DEF WalkOK, Told
    <3>3. QED BY <1>2, <1>6, <3>1, <3>2
  <2>3. QED BY <2>1, <2>2
<1>7. Told(stack', life', missed', dirty', unseen', producers')
  BY <1>6 DEF Told
<1> DEFINE loose2 == LooseOf(stack', life', missed', dirty')
           calm2 == CalmOf(life', missed', dirty')
<1>8. ASSUME NEW n, HasWalk(stack, n), NEW p, Holds(producers[n], p), <<n, p>> \in loose2
      PROVE  <<n, p>> \in Loose
  <2>1. /\ n \in Nodes /\ p \in Producers /\ Followed(life', missed', n)
        /\ p \in Computeds /\ dirty'[p] /\ ~Pends(stack', n, p)
    BY <1>8, LooseIs
  <2>2. n # m
    BY <1>3, <1>8, <2>1, WalkingIs DEF Followed
  <2>3. dirty[p] /\ ~Pends(stack, n, p) /\ Followed(life, missed, n)
    BY <1>4, <1>6, <1>8, <2>1, <2>2
  <2>4. QED BY <2>1, <2>3, LooseIs DEF Loose
<1>9. ASSUME NEW i \in 1 .. Len(stack), stack[i].op = "torn", stack[i].node \in Calm
      PROVE  stack[i].node \in calm2
  <2> DEFINE n == stack[i].node
  <2>1. n \in Nodes /\ (~Followed(life, missed, n) \/ ~dirty[n])
    BY <1>9 DEF Calm, CalmOf
  <2>2. CASE n = m
    <3>1. ~Followed(life', missed', n)
      BY <1>3, <1>9, <2>2, WalkingIs DEF Followed
    <3>2. QED BY <2>1, <3>1, CalmIs
  <2>3. CASE n # m
    <3>1. ~Followed(life', missed', n) \/ ~dirty'[n]
      BY <1>4, <2>1, <2>3
    <3>2. QED BY <2>1, <3>1, CalmIs
  <2>4. QED BY <2>2, <2>3
<1> HIDE DEF loose2, calm2
<1>10. Vetted(stack, producers, loose2, calm2)
  <2>1. StackOK(stack) /\ Sized(producers) /\ stack \in Seq(Frame)
    BY SizedNow DEF TypeInv, StackOK
  <2>2. Keeps(stack, stack) /\ Vetted(stack, producers, Loose, Calm)
    BY <2>1, KeepsSame DEF WalkOK
  <2>3. QED BY <1>8, <1>9, <2>1, <2>2, VettedOn
<1>11. Vetted(stack', producers, loose2, calm2)
  <2>1. Vetted(Rest, producers, loose2, calm2) /\ Sized(producers)
    BY <1>1, <1>10, SizedNow DEF TypeInv
  <2>2. QED BY <2>1 DEF Keeps
<1>12. QED BY <1>5, <1>7, <1>11, WalkPrime DEF loose2, calm2

\* A read: the producer is no loose end, and no walk of the node is below its body.
LEMMA WalkRead ==
  ASSUME TypeInv, TypeInv', WalkOK, Read
  PROVE  WalkOK'
<1> DEFINE n == Top.node
           p == Wanted
           add == <<p, Result(p)>>
           RR == Producers \X (Values \union Errors \union {Nothing})
<1>1. /\ Ready /\ ~Failed(p) /\ Top.op = "body" /\ Reading
      /\ Record(n, p)
      /\ reads' = [reads EXCEPT ![n] = @ \union {add}]
      /\ missed' = IF Mixes(n, p) THEN missed \union {n} ELSE missed
      /\ stack' = Answered(stack, Result(p))
      /\ UNCHANGED <<value, cached, error, dirty, life>>
  BY DEF Read, Ready, nodeVars, flags
<1>2. p \in Producers /\ n \in Nodes /\ At("body")
  BY <1>1, ReadingOK DEF Reading, Doing, At
<1>3. Result(p) \in Values \union {Nothing}
  BY <1>1, <1>2, ResultOK DEF TypeInv
<1>4. Keeps(stack, stack')
  BY <1>1, <1>2, <1>3, KeepsDone
<1>5. stack \in Seq(Frame) /\ stack # <<>> /\ stack[1] = Top /\ Len(stack) >= 1 /\ StackOK(stack)
  BY <1>2, TopOK DEF At, TypeInv, StackOK
<1>6. missed \subseteq missed' /\ \A m : m # n => (m \in missed' <=> m \in missed)
  BY <1>1
<1>7. ~Stale(add) /\ ~Pull(p)
  <2>1. add[1] = p /\ add[2] = Result(p)
    OBVIOUS
  <2>2. p \in Sources \/ (p \in Computeds /\ p \notin Sources /\ error[p] = Nothing)
    BY <1>1, <1>2, GraphAssumption DEF Failed, Producers, GraphAssumption
  <2>3. Result(p) = IF p \in Sources THEN value[p] ELSE cached[p]
    BY <2>2 DEF Result
  <2> HIDE DEF add
  <2>4. ~Stale(add)
    BY <2>1, <2>2, <2>3 DEF Stale
  <2>5. QED BY <1>1, <2>4 DEF Ready
<1>8. /\ \A m \in Nodes : m # n => producers'[m] = producers[m] /\ unseen'[m] = unseen[m]
      /\ unseen'[n] = unseen[n] \ {p}
      /\ \A q : Holds(producers'[n], q) <=> Holds(producers[n], q) \/ q = p
  <2>1. unseen' = [unseen EXCEPT ![n] = @ \ {p}]
    BY <1>1 DEF Record
  <2>2. unseen'[n] = unseen[n] \ {p} /\ \A m \in Nodes : m # n => unseen'[m] = unseen[m]
    BY <1>2, <2>1 DEF TypeInv, EdgesOK
  <2>3. CASE Holds(producers[n], p)
    BY <1>1, <2>2, <2>3 DEF Record
  <2>4. CASE ~Holds(producers[n], p)
    <3>1. producers' = [producers EXCEPT ![n] = Append(@, p)]
      BY <1>1, <2>4 DEF Record
    <3>2. producers'[n] = Append(producers[n], p) /\ \A m \in Nodes : m # n => producers'[m] = producers[m]
      BY <1>2, <3>1 DEF TypeInv, EdgesOK
    <3>3. producers[n] \in Seq(Producers)
      BY <1>2 DEF TypeInv, EdgesOK
    <3>4. \A q : Holds(Append(producers[n], p), q) <=> (Holds(producers[n], q) \/ q = p)
      BY <1>2, <3>3, Appended
    <3>5. QED BY <2>2, <3>2, <3>4
  <2>5. QED BY <2>3, <2>4
<1>9. /\ reads' \in [Nodes -> SUBSET RR]
      /\ reads'[n] = reads[n] \union {add}
      /\ \A m \in Nodes : m # n => reads'[m] = reads[m]
  <2>1. reads \in [Nodes -> SUBSET RR] /\ add \in RR
    BY <1>2, <1>3 DEF WalkOK, Heard
  <2> HIDE DEF RR, add
  <2>2. QED BY <1>1, <1>2, <2>1
<1>10. \A r : Stale(r)' <=> Stale(r)
  BY <1>1 DEF Stale
<1> HIDE DEF n, p, add, RR
<1>11. Heard'
  <2>1. ASSUME NEW m \in Nodes, ~Ended(life', m)
        PROVE  /\ \A r \in reads'[m] : Holds(producers'[m], r[1])
               /\ \A q \in unseen'[m] : Holds(producers'[m], q)
               /\ m \notin missed' => \A r \in reads'[m] : Stale(r)' => r[1] \in unseen'[m]
    <3>1. /\ \A r \in reads[m] : Holds(producers[m], r[1])
          /\ \A q \in unseen[m] : Holds(producers[m], q)
          /\ m \notin missed => \A r \in reads[m] : Stale(r) => r[1] \in unseen[m]
      BY <1>1, <2>1 DEF WalkOK, Heard
    <3>2. CASE m # n
      BY <1>6, <1>8, <1>9, <1>10, <3>1, <3>2
    <3>3. CASE m = n
      <4>1. add[1] = p
        BY DEF add
      <4>2. \A r \in reads'[m] : Holds(producers'[m], r[1])
        BY <1>8, <1>9, <3>1, <3>3, <4>1
      <4>3. \A q \in unseen'[m] : Holds(producers'[m], q)
        BY <1>8, <3>1, <3>3
      <4>4. ASSUME m \notin missed', NEW r \in reads'[m], Stale(r)' PROVE r[1] \in unseen'[m]
        <5>1. m \notin missed /\ ~Mixes(n, p)
          BY <1>1, <1>6, <3>3, <4>4
        <5>2. r \in reads[n] /\ Stale(r)
          BY <1>7, <1>9, <1>10, <3>3, <4>4
        <5>3. r[1] \in unseen[n]
          BY <3>1, <3>3, <5>1, <5>2
        <5>4. r[1] = p => r[2] = Result(p)
          BY <5>1, <5>2 DEF Mixes
        <5>5. r[1] # p
          BY <1>7, <5>2, <5>4 DEF Stale, add
        <5>6. QED BY <1>8, <3>3, <5>3, <5>5
      <4>5. QED BY <4>2, <4>3, <4>4
    <3>4. QED BY <3>2, <3>3
  <2>2. QED BY <1>9, <2>1 DEF Heard, Ended, Holds, RR
<1>12. \A m, q : Pends(stack, m, q) => Pends(stack', m, q)
  BY <1>4 DEF Keeps
<1>13. \A m \in Nodes : Followed(life', missed', m) => Followed(life, missed, m)
  BY <1>1, <1>6 DEF Followed
<1>14. Told(stack', life', missed', dirty', unseen', producers')
  <2>1. ASSUME NEW m \in Nodes, NEW q \in Producers, Followed(life', missed', m),
               Holds(producers'[m], q), q \in unseen'[m] \/ (q \in Computeds /\ dirty'[q])
        PROVE  dirty'[m] \/ Pends(stack', m, q)
    <3>1. ~(m = n /\ q = p)
      BY <1>1, <1>7, <1>8, <2>1 DEF Pull
    <3>2. Holds(producers[m], q) /\ (q \in unseen'[m] => q \in unseen[m])
      BY <1>8, <2>1, <3>1
    <3>3. dirty[m] \/ Pends(stack, m, q)
      BY <1>1, <1>13, <2>1, <3>2 DEF WalkOK, Told
    <3>4. QED BY <1>1, <1>12, <3>3
  <2>2. QED BY <2>1 DEF Told
<1> DEFINE loose2 == LooseOf(stack', life', missed', dirty')
           calm2 == CalmOf(life', missed', dirty')
<1>15. \A m, q : <<m, q>> \in loose2 => <<m, q>> \in Loose
  BY <1>1, <1>12, <1>13, LooseIs DEF Loose
<1>16. \A m : m \in Calm => m \in calm2
  BY <1>1, <1>13 DEF Calm, CalmOf
<1> HIDE DEF loose2, calm2
<1>17. \A m : HasWalk(stack, m) => m \in Nodes /\ m # n
  <2>1. ASSUME NEW j \in 1 .. Len(stack), stack[j].op = "refresh" PROVE stack[j].node # n
    <3>1. j # 1 /\ 1 \in 1 .. Len(stack)
      BY <1>1, <1>5, <2>1
    <3>2. 1 < j
      BY <1>5, <3>1
    <3>3. QED BY <1>1, <1>5, <2>1, <3>1, <3>2 DEF WalkOK, Vetted, n
  <2>2. QED BY <1>5, <2>1, WalksOfNodes DEF HasWalk
<1>18. Sized(producers) /\ Sized(producers')
  BY DEF TypeInv, EdgesOK, Sized
<1>19. Vetted(stack, producers', loose2, calm2)
  <2>1. Vetted(stack, producers, Loose, Calm)
    BY DEF WalkOK
  <2>2. \A m : HasWalk(stack, m) => Len(producers[m]) \in Nat
    BY <1>17, <1>18 DEF Sized
  <2>3. \A m : HasWalk(stack, m) => producers'[m] = producers[m]
    BY <1>8, <1>17
  <2>4. QED BY <1>5, <1>15, <1>16, <2>1, <2>2, <2>3, VettedNow
<1>20. Vetted(stack', producers', loose2, calm2)
  BY <1>4, <1>18, <1>19 DEF Keeps
<1>21. QED BY <1>11, <1>14, <1>20, WalkPrime DEF loose2, calm2

LEMMA HeardSame ==
  ASSUME Heard, UNCHANGED <<value, cached, error, producers, unseen, life, reads, missed>>
  PROVE  Heard'
<1>1. \A r : Stale(r)' <=> Stale(r)
  BY DEF Stale
<1>2. reads' \in [Nodes -> SUBSET (Producers \X (Values \union Errors \union {Nothing}))]
  BY DEF Heard
<1>3. ASSUME NEW n \in Nodes, ~Ended(life', n)
      PROVE  /\ \A r \in reads'[n] : Holds(producers'[n], r[1])
             /\ \A p \in unseen'[n] : Holds(producers'[n], p)
             /\ n \notin missed' => \A r \in reads'[n] : Stale(r)' => r[1] \in unseen'[n]
  BY <1>1, <1>3 DEF Heard
<1>4. QED BY <1>2, <1>3 DEF Heard, Ended, Holds

\* What the walk at the top of the stack has visited has no loose end.
LEMMA TopVisited ==
  ASSUME TypeInv, WalkOK, At("refresh")
  PROVE  /\ stack \in Seq(Frame) /\ stack # <<>> /\ stack[1] = Top /\ Top \in Frame
         /\ Top.op = "refresh" /\ Tail(stack) \in Seq(Frame)
         /\ Top.node \in Nodes /\ producers[Top.node] \in Seq(Producers)
         /\ Len(Top.list) \in Nat /\ Len(Top.list) <= Len(producers[Top.node])
         /\ \A k \in 1 .. Len(Top.list) :
              /\ Top.list[k] = producers[Top.node][k]
              /\ <<Top.node, Top.list[k]>> \notin Loose
<1>1. /\ stack \in Seq(Frame) /\ stack # <<>> /\ stack[1] = Top /\ Top \in Frame
      /\ Top.op = "refresh" /\ Whole(Top) /\ Tail(stack) \in Seq(Frame) /\ 1 \in 1 .. Len(stack)
  BY TopOK, Rests DEF TypeInv, StackOK, At
<1>2. Top.node \in Nodes /\ producers[Top.node] \in Seq(Producers)
  BY <1>1 DEF Whole, Evals, TypeInv, EdgesOK
<1>3. Visits(stack, 1, producers, Loose)
  BY <1>1 DEF WalkOK, Vetted
<1>4. Len(Top.list) \in Nat
  BY <1>1 DEF Frame
<1>5. QED BY <1>1, <1>2, <1>3, <1>4 DEF Visits

\* The walk visits the next producer.
LEMMA WalkNext ==
  ASSUME TypeInv, WalkOK, RefreshNext
  PROVE  WalkOK'
<1> DEFINE n == Top.node
           q == Producer
           fr == [Top EXCEPT !.list = Append(Top.list, q)]
           frames == <<fr>> \o Tail(stack)
           up == Refresh(q)
<1>1. /\ stack \in Seq(Frame) /\ stack # <<>> /\ stack[1] = Top /\ Top \in Frame
      /\ Top.op = "refresh" /\ Tail(stack) \in Seq(Frame)
      /\ n \in Nodes /\ producers[n] \in Seq(Producers) /\ Len(Top.list) \in Nat
      /\ \A k \in 1 .. Len(Top.list) :
           Top.list[k] = producers[n][k] /\ <<n, Top.list[k]>> \notin Loose
  BY TopVisited DEF RefreshNext
<1>2. /\ stack' = IF Pull(q) THEN <<up>> \o frames ELSE frames
      /\ UNCHANGED <<value, cached, error, dirty, producers, unseen, life, reads, missed>>
  BY DEF RefreshNext, nodeVars, flags, edges, past
<1>3. Len(Top.list) + 1 \in 1 .. Len(producers[n]) /\ q = producers[n][Len(Top.list) + 1]
  BY <1>1 DEF RefreshNext, Ahead, Producer
<1>4. q \in Producers
  BY <1>1, <1>3
<1> HIDE DEF q
<1>5. /\ Append(Top.list, q) \in Seq(Nodes \union Producers)
      /\ Len(Append(Top.list, q)) = Len(Top.list) + 1
      /\ \A k \in 1 .. Len(Top.list) : Append(Top.list, q)[k] = Top.list[k]
      /\ Append(Top.list, q)[Len(Top.list) + 1] = q
  <2>1. Top.list \in Seq(Nodes \union Producers)
    BY <1>1 DEF Frame
  <2>2. QED BY <1>4, <2>1
<1>6. fr \in Frame /\ fr.op = "refresh" /\ fr.node = n /\ fr.list = Append(Top.list, q)
  BY <1>1, <1>5 DEF Frame
<1> HIDE DEF fr
<1>7. /\ Len(fr.list) <= Len(producers[n])
      /\ \A k \in 1 .. Len(fr.list) :
           /\ fr.list[k] = producers[n][k]
           /\ fr.list[k] = q \/ <<n, fr.list[k]>> \notin Loose
  <2>1. Len(fr.list) <= Len(producers[n])
    BY <1>3, <1>5, <1>6
  <2>2. ASSUME NEW k \in 1 .. Len(fr.list)
        PROVE  fr.list[k] = producers[n][k] /\ (fr.list[k] = q \/ <<n, fr.list[k]>> \notin Loose)
    <3>1. k \in 1 .. Len(Top.list) \/ k = Len(Top.list) + 1
      BY <1>1, <1>5, <1>6
    <3>2. QED BY <1>1, <1>3, <1>5, <1>6, <3>1
  <2>3. QED BY <2>1, <2>2
<1>8. Pull(q) \/ <<n, q>> \notin Loose
  BY LooseIs DEF Loose, Pull
<1>9. /\ up \in Frame /\ up.op = "refresh" /\ up.node = q /\ up.list = <<>>
  <2> DEFINE none == <<>>
  <2>1. "refresh" \in Ops /\ none \in Seq(Nodes \union Producers)
        /\ q \in Nodes \union Producers \union {Nothing}
    BY <1>4 DEF Ops
  <2> HIDE DEF none
  <2>2. /\ Call("refresh", q, none) \in Frame /\ Call("refresh", q, none).op = "refresh"
        /\ Call("refresh", q, none).node = q /\ Call("refresh", q, none).list = none
    BY <2>1, CallOK
  <2>3. QED BY <2>2 DEF Refresh, none
<1> HIDE DEF up
<1>10. ASSUME NEW m, NEW p, Pends(stack, m, p) PROVE Pends(stack', m, p)
  <2>1. Pends(Tail(stack), m, p)
    BY <1>1, <1>10, PendsPop
  <2>2. Pends(frames, m, p)
    BY <1>1, <1>6, <2>1, PendsPush
  <2>3. frames \in Seq(Frame)
    BY <1>1, <1>6, Cons
  <2> HIDE DEF frames
  <2>4. Pends(<<up>> \o frames, m, p)
    BY <1>9, <2>2, <2>3, PendsPush
  <2>5. QED BY <1>2, <2>2, <2>4
<1>11. Vetted(stack, producers, Loose, Calm) /\ Sized(producers)
  BY SizedNow DEF WalkOK, TypeInv
<1>12. ASSUME Pull(q) PROVE Vetted(stack', producers, Loose, Calm)
  <2>1. q \in Nodes /\ Len(up.list) = 0
    BY <1>9, <1>12 DEF Pull, Nodes
  <2>2. Len(producers[q]) >= 0
    BY <1>11, <2>1 DEF Sized
  <2>3. Len(fr.list) <= Len(producers[fr.node])
    BY <1>6, <1>7
  <2>4. \A k \in 1 .. Len(fr.list) :
          /\ fr.list[k] = producers[fr.node][k]
          /\ fr.list[k] = q \/ <<fr.node, fr.list[k]>> \notin Loose
    BY <1>6, <1>7
  <2>5. Vetted(<<up>> \o (<<fr>> \o Tail(stack)), producers, Loose, Calm)
    BY <1>1, <1>6, <1>9, <1>11, <2>1, <2>2, <2>3, <2>4, VettedPull
  <2>6. QED BY <1>2, <1>12, <2>5
<1>13. ASSUME ~Pull(q) PROVE Vetted(stack', producers, Loose, Calm)
  <2>1. /\ Len(fr.list) <= Len(producers[fr.node])
        /\ \A k \in 1 .. Len(fr.list) : fr.list[k] = producers[fr.node][k]
        /\ \A k \in 1 .. Len(fr.list) : <<fr.node, fr.list[k]>> \notin Loose
    BY <1>6, <1>7, <1>8, <1>13
  <2>2. Vetted(<<fr>> \o Tail(stack), producers, Loose, Calm)
    BY <1>1, <1>6, <1>11, <2>1, VettedHead
  <2>3. QED BY <1>2, <1>13, <2>2
<1> DEFINE loose2 == LooseOf(stack', life', missed', dirty')
           calm2 == CalmOf(life', missed', dirty')
<1>14. \A m, p : <<m, p>> \in loose2 => <<m, p>> \in Loose
  BY <1>2, <1>10, LooseIs DEF Loose
<1>15. calm2 = Calm
  BY <1>2 DEF Calm
<1> HIDE DEF loose2, calm2
<1>16. Vetted(stack', producers, loose2, calm2)
  <2>1. Vetted(stack', producers, Loose, Calm)
    BY <1>12, <1>13
  <2>2. \A i \in 1 .. Len(stack') : Visits(stack', i, producers, loose2)
    BY <1>14, <2>1 DEF Vetted, Visits
  <2>3. QED BY <1>15, <2>1, <2>2 DEF Vetted
<1>17. Told(stack', life', missed', dirty', unseen', producers')
  BY <1>2, <1>10 DEF WalkOK, Told
<1>18. Heard'
  BY <1>2, HeardSame DEF WalkOK
<1>19. QED BY <1>2, <1>16, <1>17, <1>18, WalkPrime DEF loose2, calm2

\* The walk ends without a run: nothing that the node read has changed.
LEMMA WalkSkip ==
  ASSUME TypeInv, WalkOK, SkipBody
  PROVE  WalkOK'
<1> DEFINE n == Top.node
<1>1. /\ stack \in Seq(Frame) /\ stack # <<>> /\ stack[1] = Top /\ Top \in Frame
      /\ Top.op \in {"refresh", "torn"} /\ Tail(stack) \in Seq(Frame) /\ n \in Nodes
      /\ 1 \in 1 .. Len(stack) /\ stack' = Tail(stack)
  BY TopOK, Rests DEF SkipBody, AtRefresh, At, TypeInv, StackOK, Whole, Evals
<1>2. /\ unseen[n] = {} /\ Walked
      /\ UNCHANGED <<value, cached, error, producers, unseen, life, reads, missed>>
      /\ dirty' = [dirty EXCEPT ![n] = FALSE]
  BY DEF SkipBody, Changed, nodeVars, edges, past
<1>3. ~dirty'[n] /\ \A m \in Nodes : m # n => dirty'[m] = dirty[m]
  BY <1>1, <1>2 DEF TypeInv, DataOK
<1> HIDE DEF n
<1>4. \A p \in Computeds : dirty'[p] => dirty[p] /\ p # n
  BY <1>3 DEF Nodes
<1>5. \A m, p : Pends(stack, m, p) => Pends(stack', m, p)
  BY <1>1, PendsPop
<1>6. ASSUME NEW p \in Producers, Followed(life, missed, n), Holds(producers[n], p),
             p \in Computeds, dirty[p]
      PROVE  Pends(stack, n, p)
  <2>1. CASE At("refresh")
    <3>1. PICK k \in 1 .. Len(producers[n]) : producers[n][k] = p
      BY <1>6 DEF Holds
    <3>2. k \in 1 .. Len(Top.list)
      BY <1>2 DEF Walked, n
    <3>3. <<n, p>> \notin Loose
      BY <2>1, <3>1, <3>2, TopVisited DEF n
    <3>4. QED BY <1>1, <1>6, <3>3, LooseIs DEF Loose
  <2>2. CASE Top.op = "torn"
    <3>1. n \in Calm
      BY <1>1, <2>2 DEF WalkOK, Vetted, n
    <3>2. ~dirty[n]
      BY <1>6, <3>1 DEF Calm, CalmOf
    <3>3. QED BY <1>1, <1>6, <3>2 DEF WalkOK, Told
  <2>3. QED BY <1>1, <2>1, <2>2 DEF At, SkipBody, AtRefresh
<1>7. Told(stack', life', missed', dirty', unseen', producers')
  <2>1. ASSUME NEW m \in Nodes, NEW p \in Producers, Followed(life, missed, m),
               Holds(producers[m], p), p \in unseen[m] \/ (p \in Computeds /\ dirty'[p])
        PROVE  dirty'[m] \/ Pends(stack', m, p)
    <3>1. CASE m = n
      BY <1>2, <1>4, <1>5, <1>6, <2>1, <3>1
    <3>2. CASE m # n
      <4>1. dirty[m] \/ Pends(stack, m, p)
        BY <1>4, <2>1 DEF WalkOK, Told
      <4>2. QED BY <1>3, <1>5, <3>2, <4>1
    <3>3. QED BY <3>1, <3>2
  <2>2. QED BY <1>2, <2>1 DEF Told
<1> DEFINE loose2 == LooseOf(stack', life', missed', dirty')
           calm2 == CalmOf(life', missed', dirty')
<1>8. \A m, p : <<m, p>> \in loose2 => <<m, p>> \in Loose /\ p # n
  BY <1>2, <1>4, <1>5, LooseIs DEF Loose
<1>9. \A m : m \in Calm => m \in calm2
  <2>1. ASSUME NEW m \in Nodes, ~Followed(life, missed, m) \/ ~dirty[m]
        PROVE  ~Followed(life, missed, m) \/ ~dirty'[m]
    BY <1>3, <2>1
  <2>2. QED BY <1>2, <2>1 DEF Calm, CalmOf
<1> HIDE DEF loose2, calm2
<1>10. Vetted(stack, producers, loose2, calm2)
  <2>1. StackOK(stack) /\ Sized(producers)
    BY SizedNow DEF TypeInv
  <2>2. Keeps(stack, stack) /\ Vetted(stack, producers, Loose, Calm)
    BY <1>1, KeepsSame DEF WalkOK
  <2>3. QED BY <1>8, <1>9, <2>1, <2>2, VettedOn
<1>11. Vetted(stack', producers, loose2, calm2)
  <2>1. \A m, p : Walks(stack[1], p) => <<m, p>> \notin loose2
    BY <1>1, <1>8 DEF Walks, n
  <2>2. QED BY <1>1, <1>10, <2>1, VettedPop
<1>12. Heard'
  BY <1>2, HeardSame DEF WalkOK
<1>13. QED BY <1>2, <1>7, <1>11, <1>12, WalkPrime DEF loose2, calm2

\* The body starts: what the node read is forgotten, and its walks below are torn.
LEMMA WalkStart ==
  ASSUME TypeInv, TypeInv', WalkOK, StartBody
  PROVE  WalkOK'
<1> DEFINE n == Top.node
           none == <<>>
           fr == Call("body", n, none)
           low == Torn(n, Tail(stack))
           RR == Producers \X (Values \union Errors \union {Nothing})
<1>1. /\ stack \in Seq(Frame) /\ stack # <<>> /\ stack[1] = Top /\ Top \in Frame
      /\ Top.op \in {"refresh", "torn"} /\ Tail(stack) \in Seq(Frame) /\ n \in Nodes
  BY TopOK, Rests DEF StartBody, AtRefresh, At, TypeInv, StackOK, Whole, Evals
<1>2. /\ dirty' = [dirty EXCEPT ![n] = FALSE] /\ ResetProducers(n)
      /\ stack' = <<fr>> \o low
      /\ reads' = [reads EXCEPT ![n] = {}] /\ missed' = missed \ {n}
      /\ UNCHANGED <<value, cached, error, life>>
  BY DEF StartBody, Start, nodeVars
<1>3. ~dirty'[n] /\ \A m \in Nodes : m # n => dirty'[m] = dirty[m]
  BY <1>1, <1>2 DEF TypeInv, DataOK
<1>4. /\ \A m \in Nodes : m # n => producers'[m] = producers[m] /\ unseen'[m] = unseen[m]
      /\ unseen'[n] = {} /\ \A q : ~Holds(producers'[n], q)
  <2>1. producers' = [producers EXCEPT ![n] = <<>>] /\ unseen' = [unseen EXCEPT ![n] = {}]
    BY <1>2 DEF ResetProducers
  <2>2. \A q : ~Holds(<<>>, q)
    BY DEF Holds
  <2>3. QED BY <1>1, <2>1, <2>2 DEF TypeInv, EdgesOK
<1>5. /\ reads' \in [Nodes -> SUBSET RR] /\ reads'[n] = {}
      /\ \A m \in Nodes : m # n => reads'[m] = reads[m]
  <2>1. reads \in [Nodes -> SUBSET RR]
    BY DEF WalkOK, Heard
  <2> HIDE DEF RR
  <2>2. QED BY <1>1, <1>2, <2>1
<1>6. fr \in Frame /\ fr.op = "body" /\ fr.node = n /\ fr.list = none
  <2>1. none \in Seq(Nodes \union Producers) /\ "body" \in Ops
        /\ n \in Nodes \union Producers \union {Nothing}
    BY <1>1 DEF Ops
  <2> HIDE DEF none
  <2>2. QED BY <2>1, CallOK
<1>7. low \in Seq(Frame)
  BY <1>1, TornFrames
<1> HIDE DEF n, none, fr, low, RR
<1>8. Heard'
  <2>1. \A r : Stale(r)' <=> Stale(r)
    BY <1>2 DEF Stale
  <2>2. ASSUME NEW m \in Nodes, ~Ended(life', m)
        PROVE  /\ \A r \in reads'[m] : Holds(producers'[m], r[1])
               /\ \A q \in unseen'[m] : Holds(producers'[m], q)
               /\ m \notin missed' => \A r \in reads'[m] : Stale(r)' => r[1] \in unseen'[m]
    <3>1. CASE m = n
      BY <1>4, <1>5, <3>1
    <3>2. CASE m # n
      <4>1. m \notin missed' => m \notin missed
        BY <1>2, <3>2
      <4>2. QED BY <1>2, <1>4, <1>5, <2>1, <2>2, <3>2, <4>1 DEF WalkOK, Heard
    <3>3. QED BY <3>1, <3>2
  <2>3. QED BY <1>5, <2>2 DEF Heard, Ended, Holds, RR
<1>9. ASSUME NEW m, NEW q, Pends(stack, m, q) PROVE Pends(stack', m, q)
  <2>1. Pends(Tail(stack), m, q)
    BY <1>1, <1>9, PendsPop
  <2>2. Pends(low, m, q)
    BY <1>1, <2>1, PendsTorn DEF low
  <2>3. QED BY <1>2, <1>6, <1>7, <2>2, PendsPush
<1>10. \A m \in Nodes : m # n => (Followed(life', missed', m) <=> Followed(life, missed, m))
  BY <1>2 DEF Followed
<1>11. \A q \in Computeds : dirty'[q] => dirty[q] /\ q # n
  BY <1>3 DEF Nodes
<1>12. Told(stack', life', missed', dirty', unseen', producers')
  <2>1. ASSUME NEW m \in Nodes, NEW q \in Producers, Followed(life', missed', m),
               Holds(producers'[m], q), q \in unseen'[m] \/ (q \in Computeds /\ dirty'[q])
        PROVE  dirty'[m] \/ Pends(stack', m, q)
    <3>1. m # n
      BY <1>4, <2>1
    <3>2. dirty[m] \/ Pends(stack, m, q)
      BY <1>4, <1>10, <1>11, <2>1, <3>1 DEF WalkOK, Told
    <3>3. QED BY <1>3, <1>9, <3>1, <3>2
  <2>2. QED BY <2>1 DEF Told
<1> DEFINE loose2 == LooseOf(stack', life', missed', dirty')
           calm2 == CalmOf(life', missed', dirty')
           less == loose2 \ {<<n, q>> : q \in Producers}
<1>13. \A m, q : <<m, q>> \in loose2 => q \in Producers /\ q # n /\ (m # n => <<m, q>> \in Loose)
  BY <1>9, <1>10, <1>11, LooseIs DEF Loose
<1>14. /\ \A m \in Nodes : m \in Calm => m \in calm2
       /\ n \in calm2
  <2>1. ASSUME NEW m \in Nodes, ~Followed(life, missed, m) \/ ~dirty[m]
        PROVE  ~Followed(life', missed', m) \/ ~dirty'[m]
    BY <1>3, <1>10, <2>1
  <2>2. QED BY <1>1, <1>3, <2>1 DEF Calm, CalmOf, n
<1>15. \A m, q : <<m, q>> \in less => <<m, q>> \in loose2 /\ m # n /\ <<m, q>> \in Loose
  BY <1>13
<1> HIDE DEF loose2, calm2, less
<1>16. Sized(producers) /\ Sized(producers') /\ StackOK(stack)
  BY DEF TypeInv, EdgesOK, Sized
<1>17. Vetted(stack, producers, less, calm2)
  <2>1. Keeps(stack, stack) /\ Vetted(stack, producers, Loose, Calm)
    BY <1>1, KeepsSame DEF WalkOK
  <2>2. \A i \in 1 .. Len(stack) : stack[i].op = "torn" /\ stack[i].node \in Calm
          => stack[i].node \in calm2
    BY <1>14 DEF Calm, CalmOf
  <2>3. QED BY <1>15, <1>16, <2>1, <2>2, VettedOn
<1>18. Vetted(Tail(stack), producers, less, calm2)
  <2>1. \A m, q : Walks(stack[1], q) => <<m, q>> \notin less
    BY <1>1, <1>13, <1>15 DEF Walks, n
  <2>2. QED BY <1>1, <1>17, <2>1, VettedPop
<1>19. /\ Vetted(low, producers, less, calm2)
       /\ \A i \in 1 .. Len(low) : ~(low[i].op = "refresh" /\ low[i].node = n)
  BY <1>1, <1>14, <1>18, VettedTorn DEF low
<1>20. Vetted(stack', producers, less, calm2)
  BY <1>2, <1>6, <1>7, <1>19, VettedPush
<1>21. stack' \in Seq(Frame) /\ StackOK(stack')
  BY DEF TypeInv, StackOK
<1>22. \A m : HasWalk(stack', m) => m \in Nodes /\ m # n
  <2>1. /\ Len(stack') = Len(low) + 1 /\ stack'[1] = fr /\ Len(low) \in Nat
        /\ \A i \in 2 .. Len(low) + 1 : stack'[i] = low[i - 1]
    BY <1>2, <1>6, <1>7, Cons
  <2>2. ASSUME NEW i \in 1 .. Len(stack'), stack'[i].op = "refresh" PROVE stack'[i].node # n
    <3>1. i # 1
      BY <1>6, <2>1, <2>2
    <3>2. i - 1 \in 1 .. Len(low) /\ stack'[i] = low[i - 1]
      BY <2>1, <3>1
    <3>3. QED BY <1>19, <2>2, <3>2
  <2>3. QED BY <1>21, <2>2, WalksOfNodes DEF HasWalk
<1>23. Vetted(stack', producers', loose2, calm2)
  <2>1. \A m : HasWalk(stack', m) =>
          /\ producers'[m] = producers[m] /\ Len(producers[m]) \in Nat
          /\ \A q : <<m, q>> \in loose2 => <<m, q>> \in less
    BY <1>4, <1>13, <1>16, <1>22 DEF Sized, less
  <2>2. QED BY <1>20, <1>21, <2>1, VettedNow
<1>24. QED BY <1>8, <1>12, <1>23, WalkPrime DEF loose2, calm2

\* An effect is destroyed: nothing is asked of its edges any more.
LEMMA WalkDestroy ==
  ASSUME TypeInv, TypeInv', WalkOK, NEW e \in Effects, Destroy(e),
         UNCHANGED <<value, cached, error, reads, missed>>,
         NEW frames, Keeps(stack, frames),
         \/ stack' = Torn(e, frames)
         \/ stack' = frames /\ ~HasWalk(stack', e)
  PROVE  WalkOK'
<1>1. e \in Nodes /\ e \notin Computeds
  BY GraphAssumption DEF Nodes, GraphAssumption, Producers
<1>2. /\ ResetProducers(e) /\ dirty' = [dirty EXCEPT ![e] = FALSE]
      /\ life' = [life EXCEPT ![e] = IF OnStack(e) THEN "cut" ELSE "destroyed"]
  BY DEF Destroy
<1>3. /\ Ended(life', e)
      /\ \A m \in Nodes : m # e => (Ended(life', m) <=> Ended(life, m))
  BY <1>2 DEF Ended, TypeInv, DataOK
<1>4. \A m \in Nodes : m # e => dirty'[m] = dirty[m]
  BY <1>2 DEF TypeInv, DataOK
<1>5. \A m \in Nodes : m # e => producers'[m] = producers[m] /\ unseen'[m] = unseen[m]
  BY <1>2 DEF ResetProducers, TypeInv, EdgesOK
<1>6. Heard'
  <2>1. \A r : Stale(r)' <=> Stale(r)
    BY DEF Stale
  <2>2. reads' \in [Nodes -> SUBSET (Producers \X (Values \union Errors \union {Nothing}))]
    BY DEF WalkOK, Heard
  <2>3. ASSUME NEW m \in Nodes, ~Ended(life', m)
        PROVE  /\ \A r \in reads'[m] : Holds(producers'[m], r[1])
               /\ \A q \in unseen'[m] : Holds(producers'[m], q)
               /\ m \notin missed' => \A r \in reads'[m] : Stale(r)' => r[1] \in unseen'[m]
    <3>1. m # e /\ ~Ended(life, m)
      BY <1>3, <2>3
    <3>2. QED BY <1>5, <2>1, <3>1 DEF WalkOK, Heard
  <2>4. QED BY <2>2, <2>3 DEF Heard, Ended, Holds
<1>7. frames \in Seq(Frame) /\ StackOK(stack) /\ StackOK(stack')
  BY DEF Keeps, TypeInv
<1>8. \A m, q : Pends(stack, m, q) => Pends(stack', m, q)
  BY <1>7, PendsTorn DEF Keeps
<1>9. /\ ~Followed(life', missed', e)
      /\ \A m \in Nodes : m # e => (Followed(life', missed', m) <=> Followed(life, missed, m))
  BY <1>3 DEF Followed
<1>10. \A q \in Computeds : dirty'[q] => dirty[q]
  BY <1>1, <1>4 DEF Nodes
<1>11. Told(stack', life', missed', dirty', unseen', producers')
  <2>1. ASSUME NEW m \in Nodes, NEW q \in Producers, Followed(life', missed', m),
               Holds(producers'[m], q), q \in unseen'[m] \/ (q \in Computeds /\ dirty'[q])
        PROVE  dirty'[m] \/ Pends(stack', m, q)
    <3>1. m # e
      BY <1>9, <2>1
    <3>2. dirty[m] \/ Pends(stack, m, q)
      BY <1>5, <1>9, <1>10, <2>1, <3>1 DEF WalkOK, Told
    <3>3. QED BY <1>4, <1>8, <3>1, <3>2
  <2>2. QED BY <2>1 DEF Told
<1> DEFINE loose2 == LooseOf(stack', life', missed', dirty')
           calm2 == CalmOf(life', missed', dirty')
<1>12. \A m, q : <<m, q>> \in loose2 => <<m, q>> \in Loose
  BY <1>8, <1>9, <1>10, LooseIs DEF Loose
<1>13. /\ \A m \in Nodes : m \in Calm => m \in calm2
       /\ e \in calm2
  <2>1. ASSUME NEW m \in Nodes, ~Followed(life, missed, m) \/ ~dirty[m]
        PROVE  ~Followed(life', missed', m) \/ ~dirty'[m]
    BY <1>4, <1>9, <2>1
  <2>2. QED BY <1>1, <1>9, <2>1 DEF Calm, CalmOf
<1> HIDE DEF loose2, calm2
<1>14. Sized(producers)
  BY SizedNow DEF TypeInv
<1>15. Vetted(frames, producers, loose2, calm2)
  <2>1. Vetted(stack, producers, Loose, Calm)
    BY DEF WalkOK
  <2>2. \A i \in 1 .. Len(stack) : stack[i].op = "torn" /\ stack[i].node \in Calm
          => stack[i].node \in calm2
    BY <1>13 DEF Calm, CalmOf
  <2>3. QED BY <1>7, <1>12, <1>14, <2>1, <2>2, VettedOn
<1>16. Vetted(stack', producers, loose2, calm2) /\ ~HasWalk(stack', e)
  BY <1>7, <1>13, <1>15, VettedTorn DEF HasWalk
<1>17. Vetted(stack', producers', loose2, calm2)
  <2>1. \A m : HasWalk(stack', m) => producers'[m] = producers[m] /\ Len(producers[m]) \in Nat
    BY <1>5, <1>7, <1>14, <1>16, WalksOfNodes DEF Sized
  <2>2. stack' \in Seq(Frame)
    BY <1>7 DEF StackOK
  <2>3. QED BY <1>16, <2>1, <2>2, VettedNow
<1>18. QED BY <1>6, <1>11, <1>17, WalkPrime DEF loose2, calm2

\* The calls from outside.
LEMMA WalkCalls ==
  ASSUME TypeInv, TypeInv', EdgesMirror, WalkOK, Calls \/ Return
  PROVE  WalkOK'
<1>1. ASSUME NEW s \in Sources, NEW v \in Values, Set(s, v) PROVE WalkOK'
  <2>1. Idle /\ s \in Producers /\ s \in Nodes \union Producers
    BY <1>1 DEF Set, Producers
  <2>2. Keeps(stack, Caller(s))
    BY <2>1, KeepsCaller
  <2>3. Caller(s) \in Seq(Frame)
    BY <2>2 DEF Keeps
  <2>4. /\ Keeps(Caller(s), <<Call("mark", s, consumers[s])>> \o Caller(s))
        /\ \A n : Holds(consumers[s], n) =>
             Pends(<<Call("mark", s, consumers[s])>> \o Caller(s), n, s)
    BY <2>1, <2>3, KeepsMark DEF TypeInv
  <2>5. /\ stack' = <<Call("mark", s, consumers[s])>> \o Caller(s) /\ unseen' = Bump(s)
        /\ value' = [value EXCEPT ![s] = v]
        /\ UNCHANGED <<cached, error, dirty, producers, reads, missed, life>>
    BY <1>1 DEF Set, Write, flags, past
  <2>6. \A x \in Sources : x # s => value'[x] = value[x]
    BY <2>5 DEF TypeInv, DataOK
  <2>7. Keeps(stack, stack') /\ \A n : Holds(consumers[s], n) => Pends(stack', n, s)
    BY <2>2, <2>4, <2>5, KeepsOn
  <2>8. QED BY <2>1, <2>5, <2>6, <2>7, WalkChange
<1>2. ASSUME NEW c \in Computeds, Get(c) PROVE WalkOK'
  <2>1. Idle /\ c \in Nodes \union Producers /\ c \in Nodes
    BY <1>2 DEF Get, Producers, Nodes
  <2>2. Keeps(stack, Caller(c))
    BY <2>1, KeepsCaller
  <2>3. Caller(c) \in Seq(Frame)
    BY <2>2 DEF Keeps
  <2>4. Keeps(Caller(c), <<Refresh(c)>> \o Caller(c))
    BY <2>1, <2>3, KeepsRefresh
  <2>5. /\ stack' = <<Refresh(c)>> \o Caller(c)
        /\ UNCHANGED <<value, cached, error, dirty, producers, unseen, reads, missed, life>>
    BY <1>2 DEF Get, nodeVars, flags, edges, past
  <2>6. Keeps(stack, stack')
    BY <2>2, <2>4, <2>5, KeepsOn
  <2>7. QED BY <2>5, <2>6, WalkSame
<1>3. ASSUME NEW e \in Effects, NewEffect(e) PROVE WalkOK'
  <2>1. Idle /\ e \in Nodes \union Producers
    BY <1>3 DEF NewEffect, Nodes
  <2>2. Keeps(stack, Caller(e))
    BY <2>1, KeepsCaller
  <2>3. Caller(e) \in Seq(Frame)
    BY <2>2 DEF Keeps
  <2>4. Keeps(Caller(e), stack')
    BY <1>3, <2>3, KeepsSchedule DEF NewEffect, Create
  <2>5. /\ life[e] = "unborn" /\ life' = [life EXCEPT ![e] = "live"]
        /\ UNCHANGED <<value, cached, error, dirty, producers, unseen, reads, missed>>
    BY <1>3 DEF NewEffect, Create, nodeVars, flags, edges, past
  <2>6. \A n \in Nodes : Ended(life', n) <=> Ended(life, n)
    BY <2>5 DEF Ended, TypeInv, DataOK
  <2>7. Keeps(stack, stack')
    BY <2>2, <2>4, KeepsOn
  <2>8. QED BY <2>5, <2>6, <2>7, WalkSame
<1>4. ASSUME NEW e \in Effects, DestroyEffect(e) PROVE WalkOK'
  <2>1. /\ Destroy(e) /\ Idle /\ stack' = stack
        /\ UNCHANGED <<value, cached, error, reads, missed>>
    BY <1>4 DEF DestroyEffect, nodeVars, past
  <2>2. stack \in Seq(Frame)
    BY DEF TypeInv, StackOK
  <2>3. Keeps(stack, stack)
    BY <2>2, KeepsSame
  <2>4. ~HasWalk(stack', e)
    <3>1. Len(<<>>) = 0
      OBVIOUS
    <3>2. QED BY <2>1, <3>1 DEF HasWalk, Idle
  <2>5. QED BY <2>1, <2>3, <2>4, WalkDestroy
<1>5. CASE Return
  <2>1. Keeps(stack, Tail(stack))
    BY <1>5, KeepsTail DEF Return, Idle
  <2>2. /\ stack' = Tail(stack)
        /\ UNCHANGED <<value, cached, error, dirty, producers, unseen, reads, missed, life>>
    BY <1>5 DEF Return, nodeVars, flags, edges
  <2>3. QED BY <2>1, <2>2, WalkSame
<1>6. QED BY <1>1, <1>2, <1>3, <1>4, <1>5 DEF Calls

\* Marks and the flush.
LEMMA WalkMarks ==
  ASSUME TypeInv, EdgesMirror, WalkOK,
         MarkSkip \/ MarkComputed \/ MarkEffect \/ Leave \/ FlushNext \/ FlushEnds
  PROVE  WalkOK'
<1> DEFINE m == Head(Top.list)
<1>1. ASSUME At("mark"), Top.list # <<>> PROVE Rest \in Seq(Frame) /\ m \in Nodes
  BY <1>1, RestMarks
<1>2. CASE MarkSkip
  <2>1. /\ At("mark") /\ Top.list # <<>> /\ dirty[m] /\ stack' = Rest
        /\ missed' = IF Refreshing(m) = {} THEN missed ELSE missed \union {m}
        /\ UNCHANGED <<value, cached, error, dirty, producers, unseen, reads, life>>
    BY <1>2 DEF MarkSkip, Reach, nodeVars, flags, edges
  <2>2. Keeps(Rest, stack')
    BY <1>1, <2>1, KeepsSame
  <2>3. QED BY <2>1, <2>2, WalkMark
<1>3. CASE MarkComputed
  <2>1. /\ At("mark") /\ Top.list # <<>> /\ m \in Computeds
        /\ stack' = <<Call("mark", m, consumers[m])>> \o Rest
        /\ dirty' = [dirty EXCEPT ![m] = TRUE]
        /\ missed' = IF Refreshing(m) = {} THEN missed ELSE missed \union {m}
        /\ UNCHANGED <<value, cached, error, producers, unseen, reads, life>>
    BY <1>3 DEF MarkComputed, Reach, nodeVars, edges
  <2>2. m \in Producers /\ Rest \in Seq(Frame) /\ m \in Nodes
    BY <1>1, <2>1 DEF Producers
  <2>3. /\ Keeps(Rest, stack')
        /\ \A n : Holds(consumers[m], n) => Pends(stack', n, m)
    BY <2>1, <2>2, KeepsMark DEF TypeInv
  <2>4. dirty'[m] /\ \A n \in Nodes : n # m => dirty'[n] = dirty[n]
    BY <2>1, <2>2 DEF TypeInv, DataOK
  <2>5. QED BY <2>1, <2>3, <2>4, WalkMark
<1>4. CASE MarkEffect
  <2>1. /\ At("mark") /\ Top.list # <<>> /\ m \in Effects /\ Schedule(m, Rest)
        /\ dirty' = [dirty EXCEPT ![m] = TRUE]
        /\ missed' = IF Refreshing(m) = {} THEN missed ELSE missed \union {m}
        /\ UNCHANGED <<value, cached, error, producers, unseen, reads, life>>
    BY <1>4 DEF MarkEffect, Reach, nodeVars, edges
  <2>2. Rest \in Seq(Frame) /\ m \in Nodes /\ m \notin Computeds
    BY <1>1, <2>1, GraphAssumption DEF GraphAssumption, Producers
  <2>3. Keeps(Rest, stack')
    BY <2>1, <2>2, KeepsSchedule
  <2>4. dirty'[m] /\ \A n \in Nodes : n # m => dirty'[n] = dirty[n]
    BY <2>1, <2>2 DEF TypeInv, DataOK
  <2>5. QED BY <2>1, <2>2, <2>3, <2>4, WalkMark
<1>5. CASE Leave
  <2>1. Keeps(stack, Tail(stack))
    BY <1>5, KeepsTail DEF Leave, At
  <2>2. /\ stack' = Tail(stack)
        /\ UNCHANGED <<value, cached, error, dirty, producers, unseen, reads, missed, life>>
    BY <1>5 DEF Leave, nodeVars, flags, edges, past
  <2>3. QED BY <2>1, <2>2, WalkSame
<1>6. CASE FlushNext
  <2>1. /\ stack' = stack \/ stack' = <<Refresh(Head(queue))>> \o stack
        /\ UNCHANGED <<value, cached, error, dirty, producers, unseen, reads, missed, life>>
    BY <1>6 DEF FlushNext, nodeVars, flags, edges, past
  <2>2. Head(queue) \in Nodes /\ stack \in Seq(Frame)
    BY <1>6, Rests DEF FlushNext, TypeInv, QueueOK, Nodes, StackOK
  <2>3. Keeps(stack, stack')
    BY <2>1, <2>2, KeepsSame, KeepsRefresh
  <2>4. QED BY <2>1, <2>3, WalkSame
<1>7. CASE FlushEnds
  <2>1. Keeps(stack, Tail(stack))
    BY <1>7, KeepsTail DEF FlushEnds, At
  <2>2. /\ stack' = Tail(stack)
        /\ UNCHANGED <<value, cached, error, dirty, producers, unseen, reads, missed, life>>
    BY <1>7 DEF FlushEnds, nodeVars, flags, edges, past
  <2>3. QED BY <2>1, <2>2, WalkSame
<1>8. QED BY <1>2, <1>3, <1>4, <1>5, <1>6, <1>7

LEMMA WalkReads ==
  ASSUME TypeInv, WalkOK, Peek \/ Evaluate \/ PeekDone \/ RaiseNew
  PROVE  WalkOK'
<1>1. UNCHANGED <<value, cached, error, dirty, producers, unseen, reads, missed, life>>
  BY DEF Peek, Evaluate, PeekDone, RaiseNew, Unmoved, nodeVars, flags, edges
<1>2. stack \in Seq(Frame)
  BY DEF TypeInv, StackOK
<1>3. CASE Peek
  <2> DEFINE none == <<>>
  <2>1. At("body") /\ Instr.do = "peek"
    BY <1>3 DEF Peek, Doing
  <2>2. Instr.node \in Producers
    BY <2>1, InstrOK, InstructionParts
  <2>3. "untracked" \in Ops /\ none \in Seq(Nodes \union Producers)
    BY DEF Ops
  <2>4. stack' = <<Call("untracked", Instr.node, none)>> \o stack
    BY <1>3 DEF Peek
  <2> HIDE DEF none
  <2>5. Keeps(stack, <<Call("untracked", Instr.node, none)>> \o stack)
    BY <1>2, <2>2, <2>3, KeepsCall
  <2>6. QED BY <1>1, <2>4, <2>5, WalkSame
<1>4. CASE Evaluate
  <2>1. Wanted \in Nodes /\ stack' = <<Refresh(Wanted)>> \o stack
    BY <1>4 DEF Evaluate, Pull, Nodes
  <2>2. Keeps(stack, stack')
    BY <1>2, <2>1, KeepsRefresh
  <2>3. QED BY <1>1, <2>2, WalkSame
<1>5. CASE PeekDone
  <2>1. Reading /\ ~Failed(Wanted) /\ Top.op = "untracked" /\ stack # <<>>
    BY <1>5, ReadingOK DEF PeekDone, Ready
  <2>2. Wanted \in Producers /\ Result(Wanted) \in Values \union {Nothing}
    BY <2>1, ReadingOK, ResultOK DEF TypeInv
  <2>3. Tail(stack) # <<>> /\ Tail(stack)[1].op = "body" /\ StackOK(Tail(stack))
    BY <2>1, TopOK DEF TypeInv
  <2>4. Keeps(Tail(stack), Answered(Tail(stack), Result(Wanted)))
    BY <2>2, <2>3, KeepsAnswered
  <2>5. Keeps(stack, Tail(stack))
    BY <2>1, KeepsTail
  <2>6. Keeps(stack, stack')
    BY <1>5, <2>4, <2>5, KeepsOn DEF PeekDone
  <2>7. QED BY <1>1, <2>6, WalkSame
<1>6. CASE RaiseNew
  <2>1. stack' = stack
    BY <1>6 DEF RaiseNew, Raise
  <2>2. Keeps(stack, stack')
    BY <1>2, <2>1, KeepsSame
  <2>3. QED BY <1>1, <2>2, WalkSame
<1>7. QED BY <1>3, <1>4, <1>5, <1>6

\* What bodies do, and how they end.
LEMMA WalkBodies ==
  ASSUME TypeInv, TypeInv', EdgesMirror, WalkOK,
         WriteInBody \/ CreateInBody \/ DestroyInBody \/ NoEffect
  PROVE  WalkOK'
<1>1. At("body")
  BY DEF WriteInBody, CreateInBody, DestroyInBody, NoEffect, Doing
<1>2. Keeps(stack, Done) /\ Done \in Seq(Frame)
  BY <1>1, KeepsDone
<1>3. CASE WriteInBody
  <2> DEFINE s == Instr.node
  <2>1. s \in Sources /\ s \in Producers
    BY <1>1, <1>3, InstrOK, InstructionParts DEF WriteInBody, Doing, Producers
  <2>2. /\ stack' = <<Call("mark", s, consumers[s])>> \o Done /\ unseen' = Bump(s)
        /\ value' = [value EXCEPT ![s] = Instr.value]
        /\ UNCHANGED <<cached, error, dirty, producers, reads, missed, life>>
    BY <1>3 DEF WriteInBody, Write, Unmoved, flags
  <2> HIDE DEF s
  <2>3. \A x \in Sources : x # s => value'[x] = value[x]
    BY <2>2 DEF TypeInv, DataOK
  <2>4. /\ Keeps(Done, stack')
        /\ \A n : Holds(consumers[s], n) => Pends(stack', n, s)
    BY <1>2, <2>1, <2>2, KeepsMark DEF TypeInv
  <2>5. Keeps(stack, stack')
    BY <1>2, <2>4, KeepsOn
  <2>6. QED BY <2>1, <2>2, <2>3, <2>4, <2>5, WalkChange
<1>4. CASE CreateInBody
  <2> DEFINE e == Instr.node
  <2>1. /\ life[e] = "unborn" /\ life' = [life EXCEPT ![e] = "live"]
        /\ Schedule(e, Done)
        /\ UNCHANGED <<value, cached, error, dirty, producers, unseen, reads, missed>>
    BY <1>4 DEF CreateInBody, Create, nodeVars, flags, edges, past
  <2>2. \A n \in Nodes : Ended(life', n) <=> Ended(life, n)
    BY <2>1 DEF Ended, TypeInv, DataOK
  <2>3. Keeps(Done, stack')
    BY <1>2, <2>1, KeepsSchedule
  <2>4. Keeps(stack, stack')
    BY <1>2, <2>3, KeepsOn
  <2>5. QED BY <2>1, <2>2, <2>4, WalkSame
<1>5. CASE DestroyInBody
  <2> DEFINE e == Instr.node
  <2>1. e \in Effects
    BY <1>1, <1>5, InstrOK, InstructionParts DEF DestroyInBody, Doing
  <2>2. /\ Destroy(e) /\ stack' = Torn(e, Done)
        /\ UNCHANGED <<value, cached, error, reads, missed>>
    BY <1>5 DEF DestroyInBody, nodeVars, past
  <2>3. QED BY <1>2, <2>1, <2>2, WalkDestroy
<1>6. CASE NoEffect
  <2>1. /\ stack' = Done
        /\ UNCHANGED <<value, cached, error, dirty, producers, unseen, reads, missed, life>>
    BY <1>6 DEF NoEffect, Unmoved, nodeVars, flags, edges
  <2>2. QED BY <1>2, <2>1, WalkSame
<1>7. QED BY <1>3, <1>4, <1>5, <1>6

LEMMA WalkResults ==
  ASSUME TypeInv, EdgesMirror, WalkOK, ReturnSame \/ ReturnNew \/ Catch
  PROVE  WalkOK'
<1> DEFINE c == Top.node
<1>1. /\ stack # <<>> /\ Top.op \in {"body", "propagate"}
      /\ UNCHANGED <<value, dirty, producers, reads, missed, life>>
      /\ ReturnNew \/ Catch => c \in Computeds
  BY DEF ReturnSame, ReturnNew, Catch, Catches, Raised, Idle, Doing, At, Unmoved, edges, flags
<1>2. Keeps(stack, Tail(stack))
  BY <1>1, KeepsTail
<1> HIDE DEF c
<1>3. CASE ReturnSame
  <2>1. /\ UNCHANGED <<cached, unseen>> /\ stack' = Tail(stack)
        /\ error' = error \/ error' = [error EXCEPT ![c] = Nothing]
    BY <1>3 DEF ReturnSame, edges, c
  <2>2. \A x \in Computeds : error'[x] # Nothing => error[x] # Nothing
    BY <2>1 DEF TypeInv, DataOK
  <2>3. QED BY <1>1, <1>2, <2>1, <2>2, WalkSame
<1>4. CASE ReturnNew
  <2>1. /\ cached' = [cached EXCEPT ![c] = Instr.value] /\ error' = [error EXCEPT ![c] = Nothing]
        /\ unseen' = Bump(c)
        /\ stack' = <<Call("mark", Top.node, consumers[Top.node])>> \o
                      (<<Call("propagate", Top.node, <<>>)>> \o Tail(stack))
    BY <1>4 DEF ReturnNew, c
  <2>2. \A x \in Computeds : x # c => cached'[x] = cached[x] /\ error'[x] = error[x]
    BY <2>1 DEF TypeInv, DataOK
  <2>3. c \in Producers /\ c \in Computeds
    BY <1>1, <1>4 DEF Producers
  <2>4. /\ Keeps(stack, stack')
        /\ \A n : Holds(consumers[c], n) => Pends(stack', n, c)
    BY <1>1, <2>1, <2>3, KeepsResult DEF c
  <2>5. QED BY <1>1, <2>1, <2>2, <2>3, <2>4, WalkChange
<1>5. CASE Catch
  <2>1. cached' = cached /\ c \in Producers /\ c \in Computeds
    BY <1>1, <1>5 DEF Catch, Producers
  <2>2. CASE error[c] = thrown
    <3>1. stack' = Tail(stack) /\ UNCHANGED <<error, unseen>>
      BY <1>5, <2>2 DEF Catch, c
    <3>2. QED BY <1>1, <1>2, <2>1, <3>1, WalkSame
  <2>3. CASE error[c] # thrown
    <3>1. /\ error' = [error EXCEPT ![c] = thrown] /\ unseen' = Bump(c)
          /\ stack' = <<Call("mark", Top.node, consumers[Top.node])>> \o
                        (<<Call("failed", Top.node, <<>>)>> \o Tail(stack))
      BY <1>5, <2>3 DEF Catch, c
    <3>2. \A x \in Computeds : x # c => cached'[x] = cached[x] /\ error'[x] = error[x]
      BY <2>1, <3>1 DEF TypeInv, DataOK
    <3>3. /\ Keeps(stack, stack')
          /\ \A n : Holds(consumers[c], n) => Pends(stack', n, c)
      BY <1>1, <2>1, <3>1, KeepsResult DEF c
    <3>4. QED BY <1>1, <2>1, <3>1, <3>2, <3>3, WalkChange
  <2>4. QED BY <2>2, <2>3
<1>6. QED BY <1>3, <1>4, <1>5

LEMMA WalkUnmoved ==
  ASSUME TypeInv, WalkOK, UNCHANGED graphVars
  PROVE  WalkOK'
<1>1. /\ stack' = stack
      /\ UNCHANGED <<value, cached, error, dirty, producers, unseen, reads, missed, life>>
  BY DEF graphVars, nodeVars, flags, edges, past
<1>2. stack \in Seq(Frame)
  BY DEF TypeInv, StackOK
<1>3. Keeps(stack, stack')
  BY <1>1, <1>2, KeepsSame
<1>4. QED BY <1>1, <1>3, WalkSame

\* A queue is left over only by an exception.
Drained == ~broken /\ queue # <<>> => flushing

WalkInv == TurnInv /\ EdgesMirror /\ (Intact => WalkOK) /\ Drained

LEMMA WalkInit == Init => WalkInv
<1> SUFFICES ASSUME Init PROVE WalkInv
  OBVIOUS
<1>1. Len(<<>>) = 0 /\ stack = <<>> /\ \A x : ~Holds(<<>>, x)
  BY DEF Init, Holds
<1>2. Heard
  BY <1>1 DEF Init, Heard
<1>3. Told(stack, life, missed, dirty, unseen, producers)
  BY <1>1 DEF Init, Told
<1>4. Vetted(stack, producers, Loose, Calm)
  BY <1>1 DEF Vetted
<1>5. Drained
  BY DEF Init, Drained
<1>6. QED BY <1>2, <1>3, <1>4, <1>5, TurnInit, MirrorInit DEF WalkInv, WalkOK

LEMMA WalkStep ==
  ASSUME TypeInv, TypeInv', EdgesMirror, [Next]_graphVars, Intact', Intact => WalkOK
  PROVE  WalkOK'
<1>1. WalkOK
  BY IntactBack
<1>2. ~broken'
  BY DEF Intact
<1>3. ~(ReadError \/ Unwind)
  BY <1>2 DEF ReadError, Unwind
<1>4. ~PushFails
  <2>1. ASSUME PushFails PROVE FALSE
    <3>1. stack # <<>> /\ Top.op \in {"refresh", "torn"} /\ stack' = stack /\ thrown' = NewError
      BY <2>1 DEF PushFails, AtRefresh, At, Raise
    <3>2. thrown' # Nothing
      <4>1. NewError \in Errors
        BY NewErrorOK DEF TypeInv
      <4>2. QED BY <3>1, <4>1, GraphAssumption DEF GraphAssumption
    <3>3. Top' = Top
      BY <3>1 DEF Top
    <3>4. QED BY <3>1, <3>2, <3>3 DEF Intact
  <2>2. QED BY <2>1
<1>5. \/ UNCHANGED graphVars
      \/ Calls \/ Return
      \/ MarkSkip \/ MarkComputed \/ MarkEffect \/ Leave \/ FlushNext \/ FlushEnds
      \/ RefreshNext \/ SkipBody \/ StartBody \/ Read
      \/ Peek \/ Evaluate \/ PeekDone \/ RaiseNew
      \/ WriteInBody \/ CreateInBody \/ DestroyInBody \/ NoEffect
      \/ ReturnSame \/ ReturnNew \/ Catch
  BY <1>3, <1>4 DEF Next, Step
<1>6. QED BY <1>1, <1>5, WalkUnmoved, WalkCalls, WalkMarks, WalkNext, WalkSkip, WalkStart,
             WalkRead, WalkReads, WalkBodies, WalkResults

LEMMA DrainedStep ==
  ASSUME TypeInv, Drained, [Next]_graphVars
  PROVE  Drained'
<1>1. ASSUME ~broken' PROVE ~broken
  BY <1>1, BrokenStays
<1>2. ASSUME QuietSteps, ~broken', queue' # <<>> PROVE flushing'
  <2>1. flushing' = flushing
    BY <1>2, QuietStep DEF Quiet
  <2>2. CASE queue' = queue
    BY <1>1, <1>2, <2>1, <2>2 DEF Drained
  <2>3. CASE \E e \in Effects : Destroy(e)
    <3>1. PICK e \in Effects : queue' = Without(queue, e)
      BY <2>3 DEF Destroy
    <3>2. queue = <<>> => queue' = <<>>
      BY <3>1 DEF Without, Holds
    <3>3. QED BY <1>1, <1>2, <2>1, <3>2 DEF Drained
  <2>4. QED BY <1>2, <2>2, <2>3, QuietEffects
<1>3. ASSUME (\E e \in Effects : NewEffect(e)) \/ MarkEffect \/ CreateInBody PROVE flushing'
  BY <1>3 DEF NewEffect, MarkEffect, CreateInBody, Create, Schedule
<1>4. ASSUME FlushNext, ~broken' PROVE flushing'
  BY <1>1, <1>4 DEF FlushNext, Drained
<1>5. ASSUME FlushEnds PROVE queue' = <<>>
  BY <1>5 DEF FlushEnds
<1>6. ASSUME SkipBody \/ StartBody, ~broken', queue' # <<>> PROVE flushing'
  BY <1>1, <1>6 DEF SkipBody, StartBody, Start, scheduler, Drained
<1>7. ASSUME Unwind PROVE broken'
  BY <1>7 DEF Unwind
<1>8. QED BY <1>2, <1>3, <1>4, <1>5, <1>6, <1>7, StepKinds DEF Drained

LEMMA InvariantWalk == Spec => []WalkInv
<1>1. WalkInv /\ [Next]_graphVars => WalkInv'
  <2> SUFFICES ASSUME WalkInv, [Next]_graphVars PROVE WalkInv'
    OBVIOUS
  <2>1. TypeInv /\ EdgesMirror /\ TurnInv' /\ TypeInv' /\ EdgesMirror'
    BY TurnStep, MirrorStep DEF WalkInv, TurnInv
  <2>2. Intact' => WalkOK'
    BY <2>1, WalkStep DEF WalkInv
  <2>3. Drained'
    BY <2>1, DrainedStep DEF WalkInv
  <2>4. QED BY <2>1, <2>2, <2>3 DEF WalkInv
<1>2. QED BY <1>1, WalkInit, PTL DEF Spec

\* When a call has returned and no exception has ever got out of a body, the queue
\* is empty, and every node that is clean has read what a read would give now, but
\* for a node that a change overtook while it was evaluated (missed).
THEOREM CaughtUpCorrect == Spec => []CaughtUp
<1>1. ASSUME WalkInv, Idle, ~broken PROVE queue = <<>>
  <2>1. Len(<<>>) = 0
    OBVIOUS
  <2>2. ~flushing
    BY <1>1, <2>1 DEF WalkInv, TurnInv, FlushShape, Idle
  <2>3. QED BY <1>1, <2>2 DEF WalkInv, Drained
<1>2. ASSUME WalkInv, Idle, ~broken, NEW n \in Nodes, ~dirty[n], n \notin missed,
             n \in Effects => life[n] = "live", NEW r \in reads[n]
      PROVE  r[2] = Result(r[1]) /\ (r[1] \in Computeds => ~dirty[r[1]])
  <2>1. WalkOK /\ TypeInv
    BY <1>2 DEF WalkInv, TurnInv, Intact, Idle
  <2>2. Followed(life, missed, n)
    BY <1>2 DEF Followed, Ended
  <2>3. r \in Producers \X (Values \union Errors \union {Nothing})
    BY <2>1 DEF WalkOK, Heard
  <2>4. r[1] \in Producers /\ Holds(producers[n], r[1]) /\ (Stale(r) => r[1] \in unseen[n])
    BY <1>2, <2>1, <2>2, <2>3 DEF WalkOK, Heard, Followed
  <2>5. \A m, p : ~Pends(stack, m, p)
    <3>1. Len(<<>>) = 0
      OBVIOUS
    <3>2. QED BY <1>2, <3>1 DEF Pends, Idle
  <2>6. r[1] \notin unseen[n] /\ ~(r[1] \in Computeds /\ dirty[r[1]])
    BY <1>2, <2>1, <2>2, <2>4, <2>5 DEF WalkOK, Told
  <2>7. ~Stale(r)
    BY <2>4, <2>6
  <2>8. r[2] = Result(r[1])
    BY <2>7 DEF Stale, Result
  <2>9. QED BY <2>6, <2>8
<1>3. WalkInv => CaughtUp
  BY <1>1, <1>2 DEF CaughtUp, Consistent
<1>4. QED BY <1>3, InvariantWalk, PTL

-----------------------------------------------------------------------------
(* An effect that has gone, or has not run yet.                              *)

HasBody(s, e) == \E i \in 1 .. Len(s) : s[i].op = "body" /\ s[i].node = e

HasMark(s, e) == \E i \in 1 .. Len(s) : s[i].op = "mark" /\ Holds(s[i].list, e)

\* A walk of e has begun something.
Deep(s, e) == \E i \in 2 .. Len(s) : Walks(s[i], e)

\* A frame has no more to do with e than another.
Less(g, f, e) ==
  /\ Walks(g, e) => Walks(f, e)
  /\ g.op = "body" /\ g.node = e => f.op = "body" /\ f.node = e
  /\ g.op = "mark" /\ Holds(g.list, e) => f.op = "mark" /\ Holds(f.list, e)

NoMore(s, t, e) ==
  /\ t \in Seq(Frame)
  /\ HasBody(t, e) => HasBody(s, e)
  /\ HasMark(t, e) => HasMark(s, e)
  /\ Deep(t, e) => Deep(s, e)
  /\ HasRefresh(t, e) => HasRefresh(s, e)

\* e is not being walked by the innermost frame.
Clear(s, e) == s # <<>> => ~Walks(s[1], e)

LEMMA NoMoreOn ==
  ASSUME NEW r, NEW s, NEW t, NEW e, NoMore(r, s, e), NoMore(s, t, e)
  PROVE  NoMore(r, t, e)
BY DEF NoMore

LEMMA NoMoreSame == ASSUME NEW s \in Seq(Frame), NEW e PROVE NoMore(s, s, e)
BY DEF NoMore

LEMMA RefreshIs ==
  ASSUME NEW s, NEW e
  PROVE  HasRefresh(s, e) <=> \E i \in 1 .. Len(s) : Walks(s[i], e)
BY DEF HasRefresh, Walks

LEMMA NoMoreLike ==
  ASSUME NEW s \in Seq(Frame), NEW t \in Seq(Frame), Len(t) = Len(s), NEW e,
         \A i \in 1 .. Len(s) : Less(t[i], s[i], e)
  PROVE  NoMore(s, t, e)
<1>1. \A i \in 2 .. Len(s) : i \in 1 .. Len(s)
  OBVIOUS
<1>2. Deep(t, e) => Deep(s, e)
  BY <1>1 DEF Deep, Less
<1>3. HasRefresh(t, e) => HasRefresh(s, e)
  BY RefreshIs DEF Less
<1>4. HasBody(t, e) => HasBody(s, e)
  BY DEF HasBody, Less
<1>5. HasMark(t, e) => HasMark(s, e)
  BY DEF HasMark, Less
<1>6. QED BY <1>2, <1>3, <1>4, <1>5 DEF NoMore

LEMMA NoMorePop ==
  ASSUME NEW s \in Seq(Frame), s # <<>>, NEW e
  PROVE  NoMore(s, Tail(s), e)
<1> DEFINE t == Tail(s)
<1>1. /\ t \in Seq(Frame) /\ Len(t) = Len(s) - 1 /\ Len(s) \in Nat
      /\ \A i \in 1 .. Len(s) - 1 : t[i] = s[i + 1]
  BY Rests
<1> HIDE DEF t
<1>2. \A i \in 1 .. Len(t) : i + 1 \in 2 .. Len(s) /\ i + 1 \in 1 .. Len(s) /\ t[i] = s[i + 1]
  BY <1>1
<1>3. \A i \in 2 .. Len(t) : i \in 1 .. Len(t)
  OBVIOUS
<1>4. Deep(t, e) => Deep(s, e)
  BY <1>2, <1>3 DEF Deep
<1>5. HasRefresh(t, e) => HasRefresh(s, e)
  BY <1>2, RefreshIs
<1>6. HasBody(t, e) => HasBody(s, e)
  BY <1>2 DEF HasBody
<1>7. HasMark(t, e) => HasMark(s, e)
  BY <1>2 DEF HasMark
<1>8. NoMore(s, t, e)
  BY <1>1, <1>4, <1>5, <1>6, <1>7 DEF NoMore
<1>9. QED BY <1>8 DEF t

\* A frame on top: it may be the first of a walk of e.
LEMMA PushMore ==
  ASSUME NEW s \in Seq(Frame), NEW fr \in Frame, NEW e, Clear(s, e),
         ~(fr.op = "body" /\ fr.node = e), ~(fr.op = "mark" /\ Holds(fr.list, e))
  PROVE  /\ <<fr>> \o s \in Seq(Frame)
         /\ HasBody(<<fr>> \o s, e) => HasBody(s, e)
         /\ HasMark(<<fr>> \o s, e) => HasMark(s, e)
         /\ Deep(<<fr>> \o s, e) => Deep(s, e)
         /\ ~Walks(fr, e) => NoMore(s, <<fr>> \o s, e) /\ Clear(<<fr>> \o s, e)
<1> DEFINE t == <<fr>> \o s
<1>1. /\ t \in Seq(Frame) /\ Len(t) = Len(s) + 1 /\ t[1] = fr /\ Len(s) \in Nat
      /\ \A i \in 2 .. Len(s) + 1 : t[i] = s[i - 1]
  BY Cons
<1> HIDE DEF t
<1>2. \A i \in 1 .. Len(t) : i # 1 => i - 1 \in 1 .. Len(s) /\ t[i] = s[i - 1]
  BY <1>1
<1>3. HasBody(t, e) => HasBody(s, e)
  BY <1>1, <1>2 DEF HasBody
<1>4. HasMark(t, e) => HasMark(s, e)
  BY <1>1, <1>2 DEF HasMark
<1>5. ASSUME NEW i \in 2 .. Len(t), Walks(t[i], e) PROVE Deep(s, e)
  <2>1. i - 1 \in 1 .. Len(s) /\ Walks(s[i - 1], e) /\ s # <<>>
    BY <1>1, <1>2, <1>5
  <2>2. i - 1 # 1
    BY <2>1 DEF Clear
  <2>3. i - 1 \in 2 .. Len(s)
    BY <2>1, <2>2
  <2>4. QED BY <2>1, <2>3 DEF Deep
<1>6. Deep(t, e) => Deep(s, e)
  BY <1>5 DEF Deep
<1>7. ASSUME ~Walks(fr, e) PROVE NoMore(s, t, e) /\ Clear(t, e)
  <2>1. HasRefresh(t, e) => HasRefresh(s, e)
    BY <1>1, <1>2, <1>7, RefreshIs
  <2>2. QED BY <1>1, <1>3, <1>4, <1>6, <1>7, <2>1 DEF NoMore, Clear
<1>8. QED BY <1>1, <1>3, <1>4, <1>6, <1>7 DEF t

LEMMA NoMoreCall ==
  ASSUME NEW s \in Seq(Frame), NEW e, Clear(s, e), NEW op \in Ops, op # "body",
         NEW n \in Nodes \union Producers \union {Nothing}, NEW list \in Seq(Nodes \union Producers),
         op = "mark" => ~Holds(list, e), op \in {"refresh", "torn"} => n # e
  PROVE  NoMore(s, <<Call(op, n, list)>> \o s, e) /\ Clear(<<Call(op, n, list)>> \o s, e)
<1> DEFINE fr == Call(op, n, list)
<1>1. fr \in Frame /\ fr.op = op /\ fr.node = n /\ fr.list = list
  <2>1. /\ Call(op, n, list) \in Frame /\ Call(op, n, list).op = op
        /\ Call(op, n, list).node = n /\ Call(op, n, list).list = list
    BY DEF Call, Frame
  <2>2. QED BY <2>1
<1> HIDE DEF fr
<1>2. ~Walks(fr, e) /\ fr.op # "body" /\ ~(fr.op = "mark" /\ Holds(fr.list, e))
  BY <1>1 DEF Walks
<1>3. NoMore(s, <<fr>> \o s, e) /\ Clear(<<fr>> \o s, e)
  BY <1>1, <1>2, PushMore
<1>4. QED BY <1>3 DEF fr

LEMMA NoMoreMark ==
  ASSUME EdgesOK, NEW s \in Seq(Frame), NEW e, Clear(s, e), NEW p \in Producers,
         ~Holds(consumers[p], e)
  PROVE  /\ NoMore(s, <<Call("mark", p, consumers[p])>> \o s, e)
         /\ Clear(<<Call("mark", p, consumers[p])>> \o s, e)
<1>1. /\ "mark" \in Ops /\ consumers[p] \in Seq(Nodes \union Producers)
      /\ p \in Nodes \union Producers \union {Nothing}
  BY ConsumersOK DEF Ops
<1>2. QED BY <1>1, NoMoreCall

LEMMA NoMoreRefresh ==
  ASSUME NEW s \in Seq(Frame), NEW e, Clear(s, e), NEW n \in Nodes, n # e
  PROVE  NoMore(s, <<Refresh(n)>> \o s, e)
<1> DEFINE none == <<>>
<1>1. /\ "refresh" \in Ops /\ none \in Seq(Nodes \union Producers)
      /\ n \in Nodes \union Producers \union {Nothing}
  BY DEF Ops
<1> HIDE DEF none
<1>2. NoMore(s, <<Call("refresh", n, none)>> \o s, e)
  BY <1>1, NoMoreCall
<1>3. QED BY <1>2 DEF Refresh, none

LEMMA NoMoreCaller ==
  ASSUME Idle, NEW x \in Nodes \union Producers, NEW e
  PROVE  NoMore(stack, Caller(x), e) /\ Clear(Caller(x), e)
<1> DEFINE none == <<>>
           fr == Call("call", x, none)
<1>1. /\ "call" \in Ops /\ none \in Seq(Nodes \union Producers) /\ none \in Seq(Frame)
      /\ x \in Nodes \union Producers \union {Nothing} /\ Clear(none, e)
  BY DEF Ops, Clear
<1>2. fr \in Frame
  BY <1>1, CallOK
<1>3. <<fr>> \o <<>> = <<fr>>
  BY <1>2
<1>4. /\ NoMore(none, <<Call("call", x, none)>> \o none, e)
      /\ Clear(<<Call("call", x, none)>> \o none, e)
  <2> HIDE DEF none
  <2>1. QED BY <1>1, NoMoreCall
<1>5. QED BY <1>3, <1>4 DEF Caller, Idle, none, fr

LEMMA NoMoreSchedule ==
  ASSUME NEW x, NEW frames \in Seq(Frame), Schedule(x, frames), NEW e, Clear(frames, e)
  PROVE  NoMore(frames, stack', e)
<1> DEFINE none == <<>>
<1>1. /\ "flush" \in Ops /\ none \in Seq(Nodes \union Producers)
      /\ Nothing \in Nodes \union Producers \union {Nothing}
  BY DEF Ops
<1>2. stack' = IF flushing THEN frames ELSE <<Call("flush", Nothing, none)>> \o frames
  BY DEF Schedule
<1> HIDE DEF none
<1>3. NoMore(frames, <<Call("flush", Nothing, none)>> \o frames, e)
  BY <1>1, NoMoreCall
<1>4. QED BY <1>2, <1>3, NoMoreSame

\* The innermost frame is replaced.
LEMMA NoMoreHead ==
  ASSUME NEW s \in Seq(Frame), s # <<>>, NEW fr \in Frame, NEW e, Less(fr, s[1], e)
  PROVE  NoMore(s, <<fr>> \o Tail(s), e)
<1> DEFINE u == Tail(s)
           t == <<fr>> \o u
<1>1. /\ u \in Seq(Frame) /\ Len(u) = Len(s) - 1 /\ Len(s) >= 1 /\ Len(s) \in Nat
      /\ \A i \in 1 .. Len(s) - 1 : u[i] = s[i + 1]
  BY Rests
<1> HIDE DEF u
<1>2. /\ t \in Seq(Frame) /\ Len(t) = Len(u) + 1 /\ t[1] = fr
      /\ \A i \in 2 .. Len(u) + 1 : t[i] = u[i - 1]
  BY <1>1, Cons
<1> HIDE DEF t
<1>3. ASSUME NEW i \in 1 .. Len(s) PROVE Less(t[i], s[i], e)
  <2>1. CASE i = 1
    BY <1>2, <2>1
  <2>2. CASE i # 1
    <3>1. i \in 2 .. Len(u) + 1 /\ i - 1 \in 1 .. Len(s) - 1 /\ i - 1 + 1 = i
      BY <1>1, <2>2
    <3>2. t[i] = s[i]
      BY <1>1, <1>2, <3>1
    <3>3. QED BY <3>2 DEF Less
  <2>3. QED BY <2>1, <2>2
<1>4. NoMore(s, t, e)
  BY <1>1, <1>2, <1>3, NoMoreLike
<1>5. QED BY <1>4 DEF t, u

LEMMA NoMoreTorn ==
  ASSUME NEW s \in Seq(Frame), NEW n, NEW e
  PROVE  NoMore(s, Torn(n, s), e)
<1>1. /\ Torn(n, s) \in Seq(Frame) /\ Len(Torn(n, s)) = Len(s)
      /\ \A i \in 1 .. Len(s) :
           /\ Torn(n, s)[i].node = s[i].node /\ Torn(n, s)[i].list = s[i].list
           /\ \/ Torn(n, s)[i].op = s[i].op
              \/ (s[i].op = "refresh" /\ Torn(n, s)[i].op = "torn")
  BY TornFrames
<1>2. \A i \in 1 .. Len(s) : Less(Torn(n, s)[i], s[i], e)
  BY <1>1 DEF Less, Walks
<1>3. QED BY <1>1, <1>2, NoMoreLike

\* A body goes on.
LEMMA NoMoreAnswered ==
  ASSUME NEW s, StackOK(s), s # <<>>, s[1].op = "body", NEW v \in Values \union {Nothing}, NEW e
  PROVE  NoMore(s, Answered(s, v), e) /\ Clear(Answered(s, v), e)
<1> DEFINE fr == [Head(s) EXCEPT !.seen = Append(@, v)]
<1>1. s \in Seq(Frame) /\ Head(s) = s[1] /\ Head(s) \in Frame /\ Tail(s) \in Seq(Frame)
  BY Rests DEF StackOK
<1>2. s[1].seen \in Seq(Values \union {Nothing})
  BY <1>1 DEF Frame
<1>3. Append(s[1].seen, v) \in Seq(Values \union {Nothing})
  BY <1>2
<1>4. fr \in Frame /\ fr.op = s[1].op /\ fr.node = s[1].node
  BY <1>1, <1>3 DEF Frame
<1> HIDE DEF fr
<1>5. Less(fr, s[1], e) /\ ~Walks(fr, e)
  BY <1>4 DEF Less, Walks
<1>6. NoMore(s, <<fr>> \o Tail(s), e)
  BY <1>1, <1>4, <1>5, NoMoreHead
<1>7. (<<fr>> \o Tail(s))[1] = fr
  BY <1>1, <1>4, Cons
<1>8. QED BY <1>5, <1>6, <1>7 DEF Answered, Clear, fr

\* An effect without producers is on no list of consumers.
Alone(e) ==
  producers[e] = <<>> /\ \A p \in Producers : ~Holds(consumers[p], e)

LEMMA AloneIs ==
  ASSUME EdgesMirror, NEW e \in Effects, producers[e] = <<>>
  PROVE  Alone(e)
<1>1. \A x : ~Holds(<<>>, x)
  BY DEF Holds
<1>2. QED BY <1>1 DEF EdgesMirror, Alone, Nodes

LEMMA ClearNow ==
  ASSUME TypeInv, NEW e, stack # <<>> => Top.op \notin {"refresh", "torn"}
  PROVE  Clear(stack, e) /\ stack \in Seq(Frame)
BY Rests DEF Clear, Walks, Top, TypeInv, StackOK

LEMMA MoreCalls ==
  ASSUME TypeInv, NEW e \in Effects, Alone(e), Calls \/ Return
  PROVE  NoMore(stack, stack', e)
<1>1. ASSUME NEW s \in Sources, NEW v \in Values, Set(s, v) PROVE NoMore(stack, stack', e)
  <2>1. Idle /\ s \in Producers /\ s \in Nodes \union Producers
    BY <1>1 DEF Set, Producers
  <2>2. NoMore(stack, Caller(s), e) /\ Clear(Caller(s), e)
    BY <2>1, NoMoreCaller
  <2>3. Caller(s) \in Seq(Frame) /\ ~Holds(consumers[s], e)
    BY <2>1, <2>2 DEF NoMore, Alone
  <2>4. NoMore(Caller(s), <<Call("mark", s, consumers[s])>> \o Caller(s), e)
    BY <2>1, <2>2, <2>3, NoMoreMark DEF TypeInv
  <2>5. stack' = <<Call("mark", s, consumers[s])>> \o Caller(s)
    BY <1>1 DEF Set, Write
  <2>6. QED BY <2>2, <2>4, <2>5, NoMoreOn
<1>2. ASSUME NEW c \in Computeds, Get(c) PROVE NoMore(stack, stack', e)
  <2>1. Idle /\ c \in Nodes \union Producers /\ c \in Nodes /\ c # e
    BY <1>2, GraphAssumption DEF Get, Producers, Nodes, GraphAssumption
  <2>2. NoMore(stack, Caller(c), e) /\ Clear(Caller(c), e)
    BY <2>1, NoMoreCaller
  <2>3. Caller(c) \in Seq(Frame)
    BY <2>2 DEF NoMore
  <2>4. NoMore(Caller(c), <<Refresh(c)>> \o Caller(c), e)
    BY <2>1, <2>2, <2>3, NoMoreRefresh
  <2>5. stack' = <<Refresh(c)>> \o Caller(c)
    BY <1>2 DEF Get
  <2>6. QED BY <2>2, <2>4, <2>5, NoMoreOn
<1>3. ASSUME NEW x \in Effects, NewEffect(x) PROVE NoMore(stack, stack', e)
  <2>1. Idle /\ x \in Nodes \union Producers
    BY <1>3 DEF NewEffect, Nodes
  <2>2. NoMore(stack, Caller(x), e) /\ Clear(Caller(x), e)
    BY <2>1, NoMoreCaller
  <2>3. Caller(x) \in Seq(Frame)
    BY <2>2 DEF NoMore
  <2>4. NoMore(Caller(x), stack', e)
    BY <1>3, <2>2, <2>3, NoMoreSchedule DEF NewEffect, Create
  <2>5. QED BY <2>2, <2>4, NoMoreOn
<1>4. ASSUME NEW x \in Effects, DestroyEffect(x) PROVE NoMore(stack, stack', e)
  <2>1. stack' = stack /\ stack \in Seq(Frame)
    BY <1>4 DEF DestroyEffect, TypeInv, StackOK
  <2>2. QED BY <2>1, NoMoreSame
<1>5. CASE Return
  <2>1. stack' = Tail(stack) /\ stack # <<>> /\ stack \in Seq(Frame)
    BY <1>5 DEF Return, Idle, TypeInv, StackOK
  <2>2. QED BY <2>1, NoMorePop
<1>6. QED BY <1>1, <1>2, <1>3, <1>4, <1>5 DEF Calls

LEMMA MoreMarks ==
  ASSUME TypeInv, NEW e \in Effects, Alone(e),
         \/ MarkSkip \/ MarkComputed \/ MarkEffect \/ Leave
         \/ (FlushNext /\ e # Head(queue)) \/ FlushEnds
  PROVE  NoMore(stack, stack', e)
<1> DEFINE m == Head(Top.list)
           fr == [Top EXCEPT !.list = Tail(Top.list)]
<1>1. stack \in Seq(Frame) /\ stack # <<>> /\ stack[1] = Top /\ Top \in Frame /\ Clear(stack, e)
      /\ Top.op \notin {"refresh", "torn"} /\ Whole(Top)
  BY TopOK, ClearNow DEF MarkSkip, MarkComputed, MarkEffect, Leave, FlushNext, FlushEnds, At, TypeInv,
     StackOK
<1>2. ASSUME At("mark"), Top.list # <<>>
      PROVE  NoMore(stack, Rest, e) /\ Clear(Rest, e) /\ Rest \in Seq(Frame) /\ m \in Nodes
  <2>1. Rest \in Seq(Frame) /\ m \in Nodes
    BY <1>2, RestMarks
  <2>2. /\ Top.op = "mark" /\ Top.list \in Seq(Nodes) /\ Top.list \in Seq(Nodes \union Producers)
    BY <1>1, <1>2 DEF At, Whole, Frame
  <2>3. /\ Tail(Top.list) \in Seq(Nodes \union Producers)
        /\ Len(Tail(Top.list)) = Len(Top.list) - 1 /\ Len(Top.list) \in Nat
        /\ \A i \in 1 .. Len(Top.list) - 1 : Tail(Top.list)[i] = Top.list[i + 1]
    BY <1>2, <2>2, Rests
  <2>4. fr \in Frame /\ fr.op = "mark" /\ fr.node = Top.node /\ fr.list = Tail(Top.list)
    BY <1>1, <2>2, <2>3 DEF Frame
  <2>5. Holds(Tail(Top.list), e) => Holds(Top.list, e)
    <3>1. ASSUME NEW i \in 1 .. Len(Tail(Top.list)), Tail(Top.list)[i] = e
          PROVE  Holds(Top.list, e)
      <4>1. i + 1 \in 1 .. Len(Top.list) /\ Top.list[i + 1] = e
        BY <2>3, <3>1
      <4>2. QED BY <4>1 DEF Holds
    <3>2. QED BY <3>1 DEF Holds
  <2>6. Rest = <<fr>> \o Tail(stack)
    BY DEF Rest, Advanced
  <2> HIDE DEF fr
  <2>7. Less(fr, stack[1], e) /\ ~Walks(fr, e)
    BY <1>1, <2>2, <2>4, <2>5 DEF Less, Walks
  <2>8. NoMore(stack, Rest, e)
    BY <1>1, <2>4, <2>6, <2>7, NoMoreHead
  <2>9. Tail(stack) \in Seq(Frame)
    BY <1>1, Rests
  <2>10. Rest[1] = fr
    BY <2>4, <2>6, <2>9, Cons
  <2>11. QED BY <2>1, <2>7, <2>8, <2>10 DEF Clear
<1>3. CASE MarkSkip
  BY <1>2, <1>3 DEF MarkSkip
<1>4. CASE MarkComputed
  <2>1. /\ At("mark") /\ Top.list # <<>> /\ m \in Computeds
        /\ stack' = <<Call("mark", m, consumers[m])>> \o Rest
    BY <1>4 DEF MarkComputed
  <2>2. m \in Producers /\ ~Holds(consumers[m], e)
    BY <2>1 DEF Producers, Alone
  <2>3. NoMore(Rest, stack', e)
    BY <1>2, <2>1, <2>2, NoMoreMark DEF TypeInv
  <2>4. QED BY <1>2, <2>1, <2>3, NoMoreOn
<1>5. CASE MarkEffect
  <2>1. At("mark") /\ Top.list # <<>> /\ Schedule(m, Rest)
    BY <1>5 DEF MarkEffect
  <2>2. NoMore(Rest, stack', e)
    BY <1>2, <2>1, NoMoreSchedule
  <2>3. QED BY <1>2, <2>1, <2>2, NoMoreOn
<1>6. CASE Leave \/ FlushEnds
  BY <1>1, <1>6, NoMorePop DEF Leave, FlushEnds
<1>7. CASE FlushNext /\ e # Head(queue)
  <2>1. stack' = stack \/ stack' = <<Refresh(Head(queue))>> \o stack
    BY <1>7 DEF FlushNext
  <2>2. Head(queue) \in Nodes
    BY <1>7, Rests DEF FlushNext, TypeInv, QueueOK, Nodes
  <2>3. QED BY <1>1, <1>7, <2>1, <2>2, NoMoreSame, NoMoreRefresh
<1>8. QED BY <1>3, <1>4, <1>5, <1>6, <1>7

LEMMA MoreWalks ==
  ASSUME TypeInv, NEW e \in Effects, Alone(e),
         RefreshNext \/ SkipBody \/ PushFails \/ (StartBody /\ Top.node # e)
  PROVE  NoMore(stack, stack', e)
<1>1. stack \in Seq(Frame) /\ stack # <<>> /\ stack[1] = Top /\ Top \in Frame /\ Whole(Top)
      /\ Top.node \in Nodes /\ Tail(stack) \in Seq(Frame)
  BY TopOK, Rests DEF RefreshNext, SkipBody, PushFails, StartBody, AtRefresh, At, TypeInv, StackOK,
     Whole, Evals
<1>2. CASE RefreshNext
  <2> DEFINE q == Producer
             fr == [Top EXCEPT !.list = Append(Top.list, q)]
             frames == <<fr>> \o Tail(stack)
  <2>1. Top.op = "refresh" /\ Len(Top.list) \in Nat /\ Len(Top.list) < Len(producers[Top.node])
    BY <1>1, <1>2 DEF RefreshNext, At, Ahead, Frame
  <2>2. Top.node # e
    <3>1. Len(<<>>) = 0
      OBVIOUS
    <3>2. QED BY <2>1, <3>1 DEF Alone
  <2>3. q \in Producers
    <3>1. producers[Top.node] \in Seq(Producers)
      BY <1>1 DEF TypeInv, EdgesOK
    <3>2. QED BY <2>1, <3>1 DEF Producer
  <2>4. Append(Top.list, q) \in Seq(Nodes \union Producers)
    <3>1. Top.list \in Seq(Nodes \union Producers)
      BY <1>1 DEF Frame
    <3>2. QED BY <2>3, <3>1
  <2>5. stack' = IF Pull(q) THEN <<Refresh(q)>> \o frames ELSE frames
    BY <1>2 DEF RefreshNext
  <2> HIDE DEF q
  <2>6. fr \in Frame /\ fr.op = "refresh" /\ fr.node = Top.node
    BY <1>1, <2>1, <2>4 DEF Frame
  <2> HIDE DEF fr
  <2>7. Less(fr, stack[1], e) /\ ~Walks(fr, e)
    BY <2>2, <2>6 DEF Less, Walks
  <2>8. NoMore(stack, frames, e)
    BY <1>1, <2>6, <2>7, NoMoreHead
  <2>9. frames \in Seq(Frame) /\ Clear(frames, e)
    BY <1>1, <2>6, <2>7, Cons DEF Clear
  <2> HIDE DEF frames
  <2>10. Pull(q) => NoMore(frames, <<Refresh(q)>> \o frames, e)
    <3>1. Pull(q) => q \in Nodes /\ q # e
      BY GraphAssumption DEF Pull, Nodes, Producers, GraphAssumption
    <3>2. QED BY <2>9, <3>1, NoMoreRefresh
  <2>11. QED BY <2>5, <2>8, <2>10, NoMoreOn
<1>3. CASE SkipBody
  BY <1>1, <1>3, NoMorePop DEF SkipBody
<1>4. CASE PushFails
  BY <1>1, <1>4, NoMoreSame DEF PushFails, Raise
<1>5. CASE StartBody /\ Top.node # e
  <2> DEFINE n == Top.node
             none == <<>>
             fr == Call("body", n, none)
             u == Tail(stack)
             low == Torn(n, u)
             t == <<fr>> \o low
  <2>1. stack' = t
    BY <1>5 DEF StartBody, Start
  <2>2. fr \in Frame /\ fr.op = "body" /\ fr.node = n
    <3>1. none \in Seq(Nodes \union Producers) /\ "body" \in Ops
          /\ n \in Nodes \union Producers \union {Nothing}
      BY <1>1 DEF Ops
    <3> HIDE DEF none
    <3>2. QED BY <3>1, CallOK
  <2>3. /\ Len(u) = Len(stack) - 1 /\ Len(stack) \in Nat
        /\ \A i \in 1 .. Len(stack) - 1 : u[i] = stack[i + 1]
    BY <1>1, Rests
  <2>4. /\ low \in Seq(Frame) /\ Len(low) = Len(u)
        /\ \A i \in 1 .. Len(u) :
             /\ low[i].node = u[i].node /\ low[i].list = u[i].list
             /\ \/ low[i].op = u[i].op
                \/ (u[i].op = "refresh" /\ low[i].op = "torn")
    <3>1. u \in Seq(Frame)
      BY <1>1
    <3> HIDE DEF u, n
    <3>2. QED BY <3>1, TornFrames
  <2> HIDE DEF n, fr, u, low
  <2>5. /\ t \in Seq(Frame) /\ Len(t) = Len(low) + 1 /\ t[1] = fr
        /\ \A i \in 2 .. Len(low) + 1 : t[i] = low[i - 1]
    BY <2>2, <2>4, Cons
  <2> HIDE DEF t
  <2>6. ASSUME NEW i \in 1 .. Len(stack) PROVE Less(t[i], stack[i], e)
    <3>1. CASE i = 1
      BY <1>5, <2>2, <2>5, <3>1 DEF Less, Walks, n
    <3>2. CASE i # 1
      <4>1. i \in 2 .. Len(low) + 1 /\ i - 1 \in 1 .. Len(u) /\ i - 1 + 1 = i
            /\ i - 1 \in 1 .. Len(stack) - 1
        BY <2>3, <2>4, <3>2
      <4>2. t[i] = low[i - 1] /\ u[i - 1] = stack[i]
        BY <2>3, <2>5, <4>1
      <4>3. QED BY <2>4, <4>1, <4>2 DEF Less, Walks
    <3>3. QED BY <3>1, <3>2
  <2>7. NoMore(stack, t, e)
    BY <1>1, <2>3, <2>4, <2>5, <2>6, NoMoreLike
  <2>8. QED BY <2>1, <2>7
<1>6. QED BY <1>2, <1>3, <1>4, <1>5

\* A body goes on, whatever it did.
LEMMA MoreDone ==
  ASSUME TypeInv, At("body"), NEW e
  PROVE  /\ NoMore(stack, Done, e) /\ Clear(Done, e) /\ Done \in Seq(Frame)
         /\ \A v \in Values \union {Nothing} : NoMore(stack, Answered(stack, v), e)
<1>1. StackOK(stack) /\ stack # <<>> /\ stack[1].op = "body"
  BY TopOK DEF TypeInv, At
<1>2. \A v \in Values \union {Nothing} :
        NoMore(stack, Answered(stack, v), e) /\ Clear(Answered(stack, v), e)
  BY <1>1, NoMoreAnswered
<1>3. (CHOOSE v \in Values : TRUE) \in Values \union {Nothing}
  BY GraphAssumption DEF GraphAssumption
<1>4. NoMore(stack, Done, e) /\ Clear(Done, e)
  BY <1>2, <1>3 DEF Done
<1>5. QED BY <1>2, <1>4 DEF NoMore

LEMMA MoreReads ==
  ASSUME TypeInv, NEW e \in Effects,
         Peek \/ Evaluate \/ Read \/ PeekDone \/ ReadError \/ RaiseNew
  PROVE  NoMore(stack, stack', e)
<1>1. stack \in Seq(Frame)
  BY DEF TypeInv, StackOK
<1>2. Reading \/ At("body") => Clear(stack, e)
  BY ClearNow DEF Reading, Doing, At
<1>3. CASE Peek
  <2> DEFINE none == <<>>
  <2>1. At("body") /\ Instr.do = "peek"
    BY <1>3 DEF Peek, Doing
  <2>2. Instr.node \in Nodes \union Producers \union {Nothing}
    BY <2>1, InstrOK, InstructionParts
  <2>3. "untracked" \in Ops /\ none \in Seq(Nodes \union Producers)
    BY DEF Ops
  <2>4. stack' = <<Call("untracked", Instr.node, none)>> \o stack
    BY <1>3 DEF Peek
  <2> HIDE DEF none
  <2>5. NoMore(stack, <<Call("untracked", Instr.node, none)>> \o stack, e)
    BY <1>1, <1>2, <2>1, <2>2, <2>3, NoMoreCall
  <2>6. QED BY <2>4, <2>5
<1>4. CASE Evaluate
  <2>1. Reading /\ Wanted \in Nodes /\ Wanted # e /\ stack' = <<Refresh(Wanted)>> \o stack
    BY <1>4, GraphAssumption DEF Evaluate, Pull, Nodes, Producers, GraphAssumption
  <2>2. QED BY <1>1, <1>2, <2>1, NoMoreRefresh
<1>5. CASE Read
  <2>1. Reading /\ ~Failed(Wanted) /\ Top.op = "body" /\ At("body")
    BY <1>5 DEF Read, Ready, Reading, Doing, At
  <2>2. Result(Wanted) \in Values \union {Nothing}
    BY <2>1, ReadingOK, ResultOK DEF TypeInv
  <2>3. QED BY <1>5, <2>1, <2>2, MoreDone DEF Read
<1>6. CASE PeekDone
  <2>1. Reading /\ ~Failed(Wanted) /\ Top.op = "untracked" /\ stack # <<>>
    BY <1>6, ReadingOK DEF PeekDone, Ready
  <2>2. Wanted \in Producers /\ Result(Wanted) \in Values \union {Nothing}
    BY <2>1, ReadingOK, ResultOK DEF TypeInv
  <2>3. Tail(stack) # <<>> /\ Tail(stack)[1].op = "body" /\ StackOK(Tail(stack))
    BY <2>1, TopOK DEF TypeInv
  <2>4. NoMore(Tail(stack), Answered(Tail(stack), Result(Wanted)), e)
    BY <2>2, <2>3, NoMoreAnswered
  <2>5. NoMore(stack, Tail(stack), e)
    BY <1>1, <2>1, NoMorePop
  <2>6. QED BY <1>6, <2>4, <2>5, NoMoreOn DEF PeekDone
<1>7. CASE ReadError \/ RaiseNew
  BY <1>1, <1>7, NoMoreSame DEF ReadError, RaiseNew, Raise
<1>8. QED BY <1>3, <1>4, <1>5, <1>6, <1>7

LEMMA MoreBodies ==
  ASSUME TypeInv, NEW e \in Effects, Alone(e), WriteInBody \/ CreateInBody \/ NoEffect
  PROVE  NoMore(stack, stack', e)
<1>1. At("body")
  BY DEF WriteInBody, CreateInBody, NoEffect, Doing
<1>2. NoMore(stack, Done, e) /\ Clear(Done, e) /\ Done \in Seq(Frame)
  BY <1>1, MoreDone
<1>3. CASE WriteInBody
  <2> DEFINE s == Instr.node
  <2>1. s \in Producers /\ ~Holds(consumers[s], e)
    BY <1>1, <1>3, InstrOK, InstructionParts DEF WriteInBody, Doing, Producers, Alone
  <2>2. stack' = <<Call("mark", s, consumers[s])>> \o Done
    BY <1>3 DEF WriteInBody, Write
  <2> HIDE DEF s
  <2>3. NoMore(Done, stack', e)
    BY <1>2, <2>1, <2>2, NoMoreMark DEF TypeInv
  <2>4. QED BY <1>2, <2>3, NoMoreOn
<1>4. CASE CreateInBody
  <2>1. Schedule(Instr.node, Done)
    BY <1>4 DEF CreateInBody, Create
  <2>2. NoMore(Done, stack', e)
    BY <1>2, <2>1, NoMoreSchedule
  <2>3. QED BY <1>2, <2>2, NoMoreOn
<1>5. CASE NoEffect
  BY <1>2, <1>5 DEF NoEffect
<1>6. QED BY <1>3, <1>4, <1>5

LEMMA MoreDestroy ==
  ASSUME TypeInv, NEW e \in Effects, DestroyInBody
  PROVE  NoMore(stack, stack', e)
<1>1. NoMore(stack, Done, e) /\ Done \in Seq(Frame)
  BY MoreDone DEF DestroyInBody, Doing
<1>2. NoMore(Done, Torn(Instr.node, Done), e)
  BY <1>1, NoMoreTorn
<1>3. QED BY <1>1, <1>2, NoMoreOn DEF DestroyInBody

\* A node marks its consumers when its evaluation has ended.
LEMMA MoreResult ==
  ASSUME TypeInv, stack # <<>>, Top.node \in Computeds, NEW op \in {"propagate", "failed"},
         NEW e \in Effects, Alone(e)
  PROVE  NoMore(stack, <<Call("mark", Top.node, consumers[Top.node])>> \o
                         (<<Call(op, Top.node, <<>>)>> \o Tail(stack)), e)
<1> DEFINE none == <<>>
           fr == Call(op, Top.node, none)
           frames == <<fr>> \o Tail(stack)
<1>1. /\ op \in Ops /\ op \notin {"torn", "body", "refresh", "mark"}
      /\ none \in Seq(Nodes \union Producers)
      /\ Top.node \in Nodes \union Producers \union {Nothing} /\ Top.node \in Producers
  BY DEF Ops, Producers
<1>2. stack \in Seq(Frame) /\ Tail(stack) \in Seq(Frame) /\ ~Holds(consumers[Top.node], e)
  BY <1>1, Rests DEF TypeInv, StackOK, Alone
<1>3. fr \in Frame /\ fr.op = op
  <2> HIDE DEF none
  <2>1. QED BY <1>1, CallOK
<1>4. frames = <<Call(op, Top.node, <<>>)>> \o Tail(stack)
  OBVIOUS
<1> HIDE DEF fr
<1>5. Less(fr, stack[1], e) /\ ~Walks(fr, e)
  BY <1>1, <1>3 DEF Less, Walks
<1>6. NoMore(stack, frames, e)
  BY <1>2, <1>3, <1>5, NoMoreHead
<1>7. frames \in Seq(Frame) /\ Clear(frames, e)
  BY <1>2, <1>3, <1>5, Cons DEF Clear
<1> HIDE DEF frames
<1>8. NoMore(frames, <<Call("mark", Top.node, consumers[Top.node])>> \o frames, e)
  BY <1>1, <1>2, <1>7, NoMoreMark DEF TypeInv
<1>9. NoMore(stack, <<Call("mark", Top.node, consumers[Top.node])>> \o frames, e)
  BY <1>6, <1>8, NoMoreOn
<1>10. QED BY <1>4, <1>9

LEMMA MoreResults ==
  ASSUME TypeInv, NEW e \in Effects, Alone(e), ReturnSame \/ ReturnNew \/ Catch \/ Unwind
  PROVE  NoMore(stack, stack', e)
<1>1. stack # <<>> /\ stack \in Seq(Frame)
  BY DEF ReturnSame, ReturnNew, Catch, Unwind, Raised, Idle, Doing, At, TypeInv, StackOK
<1>2. NoMore(stack, Tail(stack), e)
  BY <1>1, NoMorePop
<1>3. CASE ReturnSame \/ Unwind
  BY <1>2, <1>3 DEF ReturnSame, Unwind
<1>4. CASE ReturnNew
  <2>1. /\ Top.node \in Computeds
        /\ stack' = <<Call("mark", Top.node, consumers[Top.node])>> \o
                      (<<Call("propagate", Top.node, <<>>)>> \o Tail(stack))
    BY <1>4 DEF ReturnNew
  <2>2. QED BY <1>1, <2>1, MoreResult
<1>5. CASE Catch
  <2>1. /\ Top.node \in Computeds
        /\ \/ stack' = Tail(stack)
           \/ stack' = <<Call("mark", Top.node, consumers[Top.node])>> \o
                         (<<Call("failed", Top.node, <<>>)>> \o Tail(stack))
    BY <1>5 DEF Catch, Catches
  <2>2. QED BY <1>1, <1>2, <2>1, MoreResult
<1>6. QED BY <1>3, <1>4, <1>5

\* What a step does to the frames that an effect without producers has to do with:
\* nothing, unless it is taken out of the queue or begins to run.
LEMMA MoreStep ==
  ASSUME TypeInv, [Next]_graphVars, NEW e \in Effects, Alone(e),
         ~(FlushNext /\ e = Head(queue)), ~(StartBody /\ e = Top.node)
  PROVE  NoMore(stack, stack', e)
<1>1. CASE UNCHANGED graphVars
  <2>1. stack' = stack /\ stack \in Seq(Frame)
    BY <1>1 DEF graphVars, TypeInv, StackOK
  <2>2. QED BY <2>1, NoMoreSame
<1>2. CASE Calls \/ Step
  BY <1>2, MoreCalls, MoreMarks, MoreWalks, MoreReads, MoreBodies, MoreDestroy, MoreResults
  DEF Step
<1>3. QED BY <1>1, <1>2 DEF Next

\* An effect is taken out of the queue to be run.
LEMMA FlushMore ==
  ASSUME TypeInv, FlushNext, NEW e
  PROVE  /\ HasBody(stack', e) => HasBody(stack, e)
         /\ HasMark(stack', e) => HasMark(stack, e)
         /\ Deep(stack', e) => Deep(stack, e)
<1> DEFINE n == Head(queue)
           none == <<>>
           fr == Call("refresh", n, none)
<1>1. stack' = stack \/ stack' = <<fr>> \o stack
  BY DEF FlushNext, Refresh
<1>2. n \in Nodes \union Producers \union {Nothing}
  BY Rests DEF FlushNext, TypeInv, QueueOK, Nodes
<1>3. "refresh" \in Ops /\ none \in Seq(Nodes \union Producers)
  BY DEF Ops
<1>4. Clear(stack, e) /\ stack \in Seq(Frame)
  BY ClearNow DEF FlushNext, At
<1> HIDE DEF n, none
<1>5. fr \in Frame /\ fr.op = "refresh"
  BY <1>2, <1>3, CallOK
<1> HIDE DEF fr
<1>6. QED BY <1>1, <1>4, <1>5, PushMore

-----------------------------------------------------------------------------
\* What an effect with no producers, no news and no body keeps.
Bare(e) == producers[e] = <<>> /\ unseen[e] = {} /\ ~HasBody(stack, e)

\* What a step does to the edges of a node and to what they saw.
LEMMA SeenSteps ==
  ASSUME TypeInv, [Next]_graphVars
  PROVE  \/ UNCHANGED <<producers, unseen>>
         \/ producers' = producers /\ \E p \in Producers : unseen' = Bump(p)
         \/ Read
         \/ \E n \in Nodes : ResetProducers(n)
<1> DEFINE Same == UNCHANGED <<producers, unseen>>
           News == producers' = producers /\ \E p \in Producers : unseen' = Bump(p)
           Drop == \E n \in Nodes : ResetProducers(n)
<1>1. ASSUME UNCHANGED graphVars PROVE Same
  BY <1>1 DEF graphVars, edges
<1>2. ASSUME NEW s \in Sources, NEW v \in Values, Set(s, v) PROVE News
  BY <1>2 DEF Set, Write, Producers
<1>3. ASSUME NEW c \in Computeds, Get(c) PROVE Same
  BY <1>3 DEF Get, edges
<1>4. ASSUME NEW e \in Effects, NewEffect(e) PROVE Same
  BY <1>4 DEF NewEffect, edges
<1>5. ASSUME NEW e \in Effects, DestroyEffect(e) PROVE Drop
  BY <1>5 DEF DestroyEffect, Destroy, Nodes
<1>6. ASSUME Return \/ MarkSkip \/ MarkComputed \/ MarkEffect \/ Leave PROVE Same
  BY <1>6 DEF Return, MarkSkip, MarkComputed, MarkEffect, Leave, edges
<1>7. ASSUME FlushNext \/ FlushEnds \/ RefreshNext \/ SkipBody \/ PushFails PROVE Same
  BY <1>7 DEF FlushNext, FlushEnds, RefreshNext, SkipBody, PushFails, edges
<1>8. ASSUME StartBody PROVE Drop
  <2>1. Top.node \in Nodes
    BY <1>8, TopOK DEF StartBody, AtRefresh, At, TypeInv, Whole, Evals
  <2>2. QED BY <1>8, <2>1 DEF StartBody, Start
<1>9. ASSUME Peek \/ Evaluate \/ PeekDone \/ ReadError \/ RaiseNew PROVE Same
  BY <1>9 DEF Peek, Evaluate, PeekDone, ReadError, RaiseNew, edges
<1>10. ASSUME WriteInBody PROVE News
  <2>1. Instr.node \in Producers
    BY <1>10, InstrOK, InstructionParts DEF WriteInBody, Doing, Producers
  <2>2. QED BY <1>10, <2>1 DEF WriteInBody, Write
<1>11. ASSUME CreateInBody \/ NoEffect \/ ReturnSame \/ Unwind PROVE Same
  BY <1>11 DEF CreateInBody, NoEffect, ReturnSame, Unwind, edges
<1>12. ASSUME DestroyInBody PROVE Drop
  <2>1. Instr.node \in Nodes
    BY <1>12, InstrOK, InstructionParts DEF DestroyInBody, Doing, Nodes
  <2>2. QED BY <1>12, <2>1 DEF DestroyInBody, Destroy
<1>13. ASSUME ReturnNew PROVE News
  BY <1>13 DEF ReturnNew, Producers
<1>14. ASSUME Catch PROVE Same \/ News
  BY <1>14 DEF Catch, Catches, Producers
<1> HIDE DEF Same, News, Drop
<1>15. Same \/ News \/ Read \/ Drop
  BY <1>1, <1>2, <1>3, <1>4, <1>5, <1>6, <1>7, <1>8, <1>9, <1>10, <1>11, <1>12, <1>13, <1>14
  DEF Next, Calls, Step
<1>16. QED BY <1>15 DEF Same, News, Drop

LEMMA StaysBare ==
  ASSUME TypeInv, [Next]_graphVars, NEW e \in Effects, Bare(e)
  PROVE  producers'[e] = <<>> /\ unseen'[e] = {}
<1>1. e \in Nodes /\ producers[e] = <<>> /\ unseen[e] = {} /\ ~HasBody(stack, e)
  BY DEF Nodes, Bare
<1>2. \A x : ~Holds(<<>>, x)
  BY DEF Holds
<1>3. CASE UNCHANGED <<producers, unseen>>
  BY <1>1, <1>3
<1>4. CASE producers' = producers /\ \E p \in Producers : unseen' = Bump(p)
  BY <1>1, <1>2, <1>4 DEF Bump
<1>5. CASE Read
  <2>1. Top.op = "body" /\ stack # <<>> /\ Record(Top.node, Wanted)
    BY <1>5, ReadingOK DEF Read, Ready
  <2>2. Top = stack[1] /\ Len(stack) >= 1 /\ Len(stack) \in Nat
    BY <2>1, TopOK DEF TypeInv, StackOK
  <2>3. Top.node # e
    BY <1>1, <2>1, <2>2 DEF HasBody
  <2>4. QED BY <1>1, <2>1, <2>3 DEF Record, TypeInv, EdgesOK
<1>6. ASSUME NEW n \in Nodes, ResetProducers(n)
      PROVE  producers'[e] = <<>> /\ unseen'[e] = {}
  BY <1>1, <1>6 DEF ResetProducers, TypeInv, EdgesOK
<1>7. QED BY <1>3, <1>4, <1>5, <1>6, SeenSteps

LEMMA FirstSteps ==
  ASSUME TypeInv, [Next]_graphVars, NEW e \in Effects, firstRun'[e]
  PROVE  firstRun[e] /\ ~(StartBody /\ Top.node = e)
<1>1. \/ firstRun' = firstRun
      \/ firstRun' = [firstRun EXCEPT ![Top.node] = FALSE]
  <2>1. CASE UNCHANGED graphVars
    BY <2>1 DEF graphVars, flags
  <2>2. CASE Calls \/ Return
    BY <2>2 DEF Calls, Set, Get, NewEffect, DestroyEffect, Return, flags
  <2>3. CASE MarkSkip \/ MarkComputed \/ MarkEffect \/ Leave \/ FlushNext \/ FlushEnds
    BY <2>3 DEF MarkSkip, MarkComputed, MarkEffect, Leave, FlushNext, FlushEnds, flags
  <2>4. CASE RefreshNext \/ SkipBody
    BY <2>4 DEF RefreshNext, SkipBody, flags
  <2>5. CASE StartBody \/ PushFails
    BY <2>5 DEF StartBody, Start, PushFails
  <2>6. CASE Peek \/ Evaluate \/ Read \/ PeekDone \/ ReadError \/ RaiseNew
    BY <2>6 DEF Peek, Evaluate, Read, PeekDone, ReadError, RaiseNew, Unmoved, flags
  <2>7. CASE WriteInBody \/ CreateInBody \/ DestroyInBody \/ NoEffect
    BY <2>7 DEF WriteInBody, CreateInBody, DestroyInBody, NoEffect, Unmoved, flags
  <2>8. CASE ReturnSame \/ ReturnNew \/ Catch \/ Unwind
    BY <2>8 DEF ReturnSame, ReturnNew, Catch, Unwind, Unmoved, flags
  <2>9. QED BY <2>1, <2>2, <2>3, <2>4, <2>5, <2>6, <2>7, <2>8 DEF Next, Step
<1>2. e \in Nodes /\ firstRun \in [Nodes -> BOOLEAN]
  BY DEF Nodes, TypeInv, DataOK
<1>3. firstRun[e]
  BY <1>1, <1>2
<1>4. ASSUME StartBody PROVE Top.node # e
  <2>1. firstRun' = [firstRun EXCEPT ![Top.node] = FALSE]
    BY <1>4 DEF StartBody, Start
  <2>2. QED BY <1>2, <2>1
<1>5. QED BY <1>3, <1>4

LEMMA LifeSteps ==
  ASSUME TypeInv, [Next]_graphVars, NEW e \in Effects, life'[e] = "destroyed"
  PROVE  life[e] = "destroyed"
           \/ (Destroy(e) /\ ~OnStack(e) /\ ((stack' = stack /\ Idle) \/ DestroyInBody))
<1>1. life \in [Effects -> {"unborn", "live", "destroyed", "cut"}]
  BY DEF TypeInv, DataOK
<1>2. \/ life' = life
      \/ \E x \in Effects : Create(x, Caller(x)) \/ Create(x, Done)
      \/ \E x \in Effects : Destroy(x) /\ ((stack' = stack /\ Idle) \/ DestroyInBody)
  <2>1. CASE UNCHANGED graphVars
    BY <2>1 DEF graphVars
  <2>2. CASE Calls \/ Return
    BY <2>2 DEF Calls, Set, Get, NewEffect, DestroyEffect, Return
  <2>3. CASE MarkSkip \/ MarkComputed \/ MarkEffect \/ Leave \/ FlushNext \/ FlushEnds
    BY <2>3 DEF MarkSkip, MarkComputed, MarkEffect, Leave, FlushNext, FlushEnds
  <2>4. CASE RefreshNext \/ SkipBody \/ StartBody \/ PushFails
    BY <2>4 DEF RefreshNext, SkipBody, StartBody, Start, PushFails
  <2>5. CASE Peek \/ Evaluate \/ Read \/ PeekDone \/ ReadError \/ RaiseNew
    BY <2>5 DEF Peek, Evaluate, Read, PeekDone, ReadError, RaiseNew, Unmoved
  <2>6. CASE WriteInBody \/ NoEffect \/ ReturnSame \/ ReturnNew \/ Catch \/ Unwind
    BY <2>6 DEF WriteInBody, NoEffect, ReturnSame, ReturnNew, Catch, Unwind, Unmoved
  <2>7. CASE CreateInBody \/ DestroyInBody
    <3>1. Instr.node \in Effects
      BY <2>7, InstrOK, InstructionParts DEF CreateInBody, DestroyInBody, Doing
    <3>2. QED BY <2>7, <3>1 DEF CreateInBody, DestroyInBody
  <2>8. QED BY <2>1, <2>2, <2>3, <2>4, <2>5, <2>6, <2>7 DEF Next, Step
<1>3. ASSUME NEW x \in Effects, Create(x, Caller(x)) \/ Create(x, Done)
      PROVE  life[e] = "destroyed"
  <2>1. life' = [life EXCEPT ![x] = "live"]
    BY <1>3 DEF Create
  <2>2. QED BY <1>1, <2>1
<1>4. ASSUME NEW x \in Effects, Destroy(x), life[e] # "destroyed"
      PROVE  x = e /\ ~OnStack(e)
  <2>1. life' = [life EXCEPT ![x] = IF OnStack(x) THEN "cut" ELSE "destroyed"]
    BY <1>4 DEF Destroy
  <2>2. x = e
    BY <1>1, <1>4, <2>1
  <2>3. OnStack(e) => life'[e] = "cut"
    BY <1>1, <2>1, <2>2
  <2>4. QED BY <2>2, <2>3
<1>5. QED BY <1>2, <1>3, <1>4

\* An effect enters the queue when it is made or marked.
LEMMA QueueSteps ==
  ASSUME TypeInv, Listed, [Next]_graphVars, NEW e \in Effects, Holds(queue', e)
  PROVE  \/ Holds(queue, e) /\ ~(FlushNext /\ Head(queue) = e)
         \/ life[e] = "unborn" /\ life'[e] = "live"
         \/ HasMark(stack, e)
<1>1. ASSUME NEW frames, NEW x \in Effects, Schedule(x, frames)
      PROVE  Holds(queue, e) \/ x = e
  BY <1>1, ListedSchedule DEF TypeInv
<1>2. ASSUME NEW frames, NEW x \in Effects, Create(x, frames), x = e
      PROVE  life[e] = "unborn" /\ life'[e] = "live"
  BY <1>2 DEF Create, TypeInv, DataOK
<1>3. ASSUME NEW x \in Effects, Destroy(x) PROVE Holds(queue, e)
  BY <1>3, WithoutOne DEF Destroy, TypeInv, QueueOK
<1>4. CASE FlushNext
  <2>1. \A x : Holds(Tail(queue), x) <=> Holds(queue, x) /\ x # Head(queue)
    BY <1>4, Shortened DEF FlushNext, TypeInv, QueueOK, Listed
  <2>2. QED BY <1>4, <2>1 DEF FlushNext
<1>5. CASE \E x \in Effects : NewEffect(x)
  BY <1>1, <1>2, <1>5 DEF NewEffect, Create, FlushNext, At, Idle
<1>6. CASE CreateInBody
  <2>1. Instr.node \in Effects /\ At("body")
    BY <1>6, InstrOK, InstructionParts DEF CreateInBody, Doing
  <2>2. QED BY <1>1, <1>2, <1>6, <2>1 DEF CreateInBody, Create, FlushNext, At
<1>7. CASE MarkEffect
  <2>1. /\ Head(Top.list) \in Effects /\ Schedule(Head(Top.list), Rest)
        /\ At("mark") /\ Top.list # <<>>
    BY <1>7 DEF MarkEffect
  <2>2. /\ Top = stack[1] /\ Top \in Frame /\ Len(stack) >= 1 /\ Len(stack) \in Nat
    BY <2>1, TopOK DEF At, TypeInv, StackOK
  <2>3. Holds(Top.list, Head(Top.list))
    <3>1. Top.list \in Seq(Nodes \union Producers)
      BY <2>2 DEF Frame
    <3>2. Head(Top.list) = Top.list[1] /\ 1 \in 1 .. Len(Top.list)
      BY <2>1, <3>1
    <3>3. QED BY <3>2 DEF Holds
  <2>4. Head(Top.list) = e => HasMark(stack, e)
    BY <2>1, <2>2, <2>3 DEF HasMark, At
  <2>5. QED BY <1>1, <2>1, <2>4 DEF FlushNext, At
<1>8. CASE FlushEnds \/ SkipBody \/ StartBody \/ Unwind
  <2>1. queue' = queue
    BY <1>8 DEF FlushEnds, SkipBody, StartBody, Start, Unwind, scheduler
  <2>2. QED BY <1>4, <2>1
<1>9. CASE QuietSteps
  <2>1. Holds(queue, e)
    BY <1>3, <1>9, QuietEffects
  <2>2. QED BY <1>4, <2>1
<1>10. QED BY <1>4, <1>5, <1>6, <1>7, <1>8, <1>9, StepKinds

\* A destroyed effect depends on nothing and does not run.
Gone(e) == life[e] = "destroyed" => Bare(e)

\* One that has not run depends on nothing either, no mark is on its way to it, and
\* its first run has nothing to visit.
Fresh(e) == firstRun[e] => Bare(e) /\ ~HasMark(stack, e) /\ ~Deep(stack, e)

\* If it is destroyed before it has run, it is never taken to run.
Spared(e) ==
  life[e] = "destroyed" /\ firstRun[e] => ~Holds(queue, e) /\ ~HasRefresh(stack, e)

Silent(e) == Gone(e) /\ Fresh(e) /\ Spared(e)

LEMMA NeverStarts ==
  ASSUME TypeInv, NEW e \in Effects, Silent(e), life[e] = "destroyed"
  PROVE  ~(StartBody /\ Top.node = e)
<1> SUFFICES ASSUME StartBody, Top.node = e PROVE FALSE
  OBVIOUS
<1>1. /\ stack # <<>> /\ Top.op \in {"refresh", "torn"} /\ Changed(e)
      /\ Top = stack[1] /\ 1 \in 1 .. Len(stack)
  BY TopOK DEF StartBody, AtRefresh, At, TypeInv, StackOK
<1>2. HasRefresh(stack, e)
  BY <1>1 DEF HasRefresh
<1>3. unseen[e] = {} /\ ~firstRun[e]
  BY <1>2 DEF Silent, Gone, Spared, Bare
<1>4. QED BY <1>1, <1>3 DEF Changed

LEMMA GoneStep ==
  ASSUME TypeInv, EdgesMirror, [Next]_graphVars, NEW e \in Effects, Silent(e),
         life'[e] = "destroyed"
  PROVE  producers'[e] = <<>> /\ unseen'[e] = {} /\ ~HasBody(stack', e)
<1>1. CASE life[e] = "destroyed"
  <2>1. Bare(e) /\ Alone(e)
    BY <1>1, AloneIs DEF Silent, Gone, Bare
  <2>2. producers'[e] = <<>> /\ unseen'[e] = {}
    BY <2>1, StaysBare
  <2>3. ~(StartBody /\ e = Top.node)
    BY <1>1, NeverStarts
  <2>4. HasBody(stack', e) => HasBody(stack, e)
    <3>1. CASE FlushNext /\ e = Head(queue)
      BY <3>1, FlushMore
    <3>2. CASE ~(FlushNext /\ e = Head(queue))
      BY <2>1, <2>3, <3>2, MoreStep DEF NoMore
    <3>3. QED BY <3>1, <3>2
  <2>5. QED BY <2>1, <2>2, <2>4 DEF Bare
<1>2. CASE Destroy(e) /\ ~OnStack(e) /\ ((stack' = stack /\ Idle) \/ DestroyInBody)
  <2>1. producers'[e] = <<>> /\ unseen'[e] = {}
    BY <1>2 DEF Destroy, ResetProducers, TypeInv, EdgesOK, Nodes
  <2>2. ~HasBody(stack, e)
    BY <1>2 DEF OnStack, HasBody
  <2>3. HasBody(stack', e) => HasBody(stack, e)
    BY <1>2, MoreDestroy DEF NoMore
  <2>4. QED BY <2>1, <2>2, <2>3
<1>3. QED BY <1>1, <1>2, LifeSteps

LEMMA FreshStep ==
  ASSUME TypeInv, EdgesMirror, [Next]_graphVars, NEW e \in Effects, Silent(e), firstRun'[e]
  PROVE  /\ producers'[e] = <<>> /\ unseen'[e] = {} /\ ~HasBody(stack', e)
         /\ ~HasMark(stack', e) /\ ~Deep(stack', e)
<1>1. firstRun[e] /\ ~(StartBody /\ e = Top.node)
  BY FirstSteps
<1>2. Bare(e) /\ Alone(e) /\ ~HasMark(stack, e) /\ ~Deep(stack, e)
  BY <1>1, AloneIs DEF Silent, Fresh, Bare
<1>3. producers'[e] = <<>> /\ unseen'[e] = {}
  BY <1>2, StaysBare
<1>4. ~HasBody(stack', e) /\ ~HasMark(stack', e) /\ ~Deep(stack', e)
  <2>1. CASE FlushNext /\ e = Head(queue)
    BY <1>2, <2>1, FlushMore DEF Bare
  <2>2. CASE ~(FlushNext /\ e = Head(queue))
    BY <1>1, <1>2, <2>2, MoreStep DEF NoMore, Bare
  <2>3. QED BY <2>1, <2>2
<1>5. QED BY <1>3, <1>4

LEMMA SparedStep ==
  ASSUME TypeInv, EdgesMirror, Listed, [Next]_graphVars, NEW e \in Effects, Silent(e),
         life'[e] = "destroyed", firstRun'[e]
  PROVE  ~Holds(queue', e) /\ ~HasRefresh(stack', e)
<1>1. firstRun[e] /\ ~(StartBody /\ e = Top.node)
  BY FirstSteps
<1>2. Alone(e) /\ ~HasMark(stack, e) /\ ~Deep(stack, e)
  BY <1>1, AloneIs DEF Silent, Fresh, Bare
<1>3. CASE life[e] = "destroyed"
  <2>1. ~Holds(queue, e) /\ ~HasRefresh(stack, e)
    BY <1>1, <1>3 DEF Silent, Spared
  <2>2. ~Holds(queue', e)
    BY <1>2, <1>3, <2>1, QueueSteps
  <2>3. ~(FlushNext /\ e = Head(queue))
    <3>1. FlushNext => 1 \in 1 .. Len(queue) /\ Head(queue) = queue[1]
      BY Rests DEF FlushNext, TypeInv, QueueOK
    <3>2. QED BY <2>1, <3>1 DEF Holds
  <2>4. HasRefresh(stack', e) => HasRefresh(stack, e)
    BY <1>1, <1>2, <2>3, MoreStep DEF NoMore
  <2>5. QED BY <2>1, <2>2, <2>4
<1>4. CASE Destroy(e) /\ ((stack' = stack /\ Idle) \/ DestroyInBody)
  <2>1. ~Holds(queue', e)
    BY <1>4, WithoutOne DEF Destroy, TypeInv, QueueOK, Listed
  <2>2. HasRefresh(stack', e) => HasRefresh(stack, e)
    BY <1>4, MoreDestroy DEF NoMore
  <2>3. stack # <<>> => Top.op = "body" /\ Top = stack[1]
    BY <1>4, TopOK DEF Idle, DestroyInBody, Doing, At, TypeInv
  <2>4. ASSUME NEW i \in 1 .. Len(stack), Walks(stack[i], e) PROVE FALSE
    <3>1. stack # <<>> /\ Len(stack) \in Nat
      BY <2>4, Rests DEF TypeInv, StackOK
    <3>2. i # 1
      BY <2>3, <2>4, <3>1 DEF Walks
    <3>3. i \in 2 .. Len(stack)
      BY <3>1, <3>2
    <3>4. QED BY <1>2, <2>4, <3>3 DEF Deep
  <2>5. QED BY <2>1, <2>2, <2>4, RefreshIs
<1>5. QED BY <1>3, <1>4, LifeSteps

SilentInv == KeptInv /\ EdgesMirror /\ \A e \in Effects : Silent(e)

LEMMA SilentInit == Init => SilentInv
<1> SUFFICES ASSUME Init PROVE SilentInv
  OBVIOUS
<1>1. KeptInv /\ EdgesMirror
  BY KeptInit, MirrorInit
<1>2. Len(<<>>) = 0 /\ stack = <<>>
  BY DEF Init
<1>3. ASSUME NEW e \in Effects PROVE Silent(e)
  <2>1. producers[e] = <<>> /\ unseen[e] = {} /\ life[e] = "unborn"
    BY DEF Init, Nodes
  <2>2. ~HasBody(stack, e) /\ ~HasMark(stack, e) /\ ~Deep(stack, e)
    BY <1>2 DEF HasBody, HasMark, Deep
  <2>3. QED BY <2>1, <2>2 DEF Silent, Gone, Fresh, Spared, Bare
<1>4. QED BY <1>1, <1>3 DEF SilentInv

LEMMA SilentStep == SilentInv /\ [Next]_graphVars => SilentInv'
<1> SUFFICES ASSUME SilentInv, [Next]_graphVars PROVE SilentInv'
  OBVIOUS
<1>1. TypeInv /\ EdgesMirror /\ Listed /\ KeptInv' /\ EdgesMirror'
  BY KeptStep, MirrorStep DEF SilentInv, KeptInv, TurnInv
<1>2. ASSUME NEW e \in Effects PROVE Silent(e)'
  <2>1. Silent(e)
    BY DEF SilentInv
  <2>2. Gone(e)'
    BY <1>1, <2>1, GoneStep DEF Gone, Bare, HasBody
  <2>3. Fresh(e)'
    BY <1>1, <2>1, FreshStep DEF Fresh, Bare, HasBody, HasMark, Deep
  <2>4. Spared(e)'
    BY <1>1, <2>1, SparedStep DEF Spared, HasRefresh
  <2>5. QED BY <2>2, <2>3, <2>4 DEF Silent
<1>3. QED BY <1>1, <1>2 DEF SilentInv

\* An effect that was destroyed from outside its own run does not run again: the marks,
\* the queue entries and the walks it may still be in find that it depends on nothing.
THEOREM DestroyedSilentCorrect == Spec => DestroyedSilent
<1>1. ASSUME SilentInv, NEW e \in Effects, life[e] = "destroyed"
      PROVE  ~(StartBody /\ Top.node = e)
  BY <1>1, NeverStarts DEF SilentInv, KeptInv, TurnInv
<1>2. SilentInv => [\A e \in Effects :
                      life[e] = "destroyed" => ~(StartBody /\ Top.node = e)]_graphVars
  BY <1>1
<1>3. QED BY <1>2, SilentInit, SilentStep, PTL DEF Spec, DestroyedSilent
=============================================================================
