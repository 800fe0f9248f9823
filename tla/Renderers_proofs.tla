-------------------------- MODULE Renderers_proofs ---------------------------
(* Proofs about Renderers, for every set of ids, components, values, tokens   *)
(* and tables: references show what they resolve to.                          *)
EXTENDS Renderers, ListFacts, FiniteSetTheorems

-----------------------------------------------------------------------------
(* Folds of opcodes.                                                         *)

\* What the opcodes keep to is what all of them make.
LEMMA FoldStays ==
  ASSUME NEW A, NEW g \in A, NEW n \in Nat, NEW s, DOMAIN s = 1 .. n,
         \A a \in A : \A k \in 1 .. n : Applied(a, s[k]) \in A
  PROVE  FoldLeft(Applied, g, s) \in A
<1> DEFINE F == [k \in 1 .. n |-> [a \in A |-> Applied(a, s[k])]]
           Table(h) == h = [t \in SUBSET (1 .. n) |->
                              IF t = {} THEN g ELSE Applied(h[t \ {Max(t)}], s[Max(t)])]
           h == CHOOSE f : Table(f)
<1>1. PICK f \in [SUBSET (1 .. n) -> A] : FoldTable(f, g, F, n)
  <2>1. F \in [1 .. n -> [A -> A]] OBVIOUS
  <2> HIDE DEF F
  <2>2. QED BY <2>1, FoldTableExists
<1>2. Table(f)
  <2>1. ASSUME NEW t \in SUBSET (1 .. n)
        PROVE  f[t] = IF t = {} THEN g ELSE Applied(f[t \ {Max(t)}], s[Max(t)])
    <3>1. f[t] = IF t = {} THEN g ELSE F[Max(t)][f[t \ {Max(t)}]] BY <1>1 DEF FoldTable
    <3>2. CASE t = {} BY <3>1, <3>2
    <3>3. CASE t # {}
      <4>1. Max(t) \in 1 .. n BY <3>3, MaxIs
      <4>2. f[t \ {Max(t)}] \in A OBVIOUS
      <4>3. QED BY <3>1, <3>3, <4>1, <4>2
    <3>4. QED BY <3>2, <3>3
  <2>2. f = [t \in SUBSET (1 .. n) |-> f[t]] OBVIOUS
  <2>3. QED BY <2>1, <2>2
<1>3. Table(h) BY <1>2
<1>4. FoldLeft(Applied, g, s) = h[1 .. n]
  BY DEF FoldLeft, MapThenFoldSet
<1> DEFINE S == {m \in Nat : m <= n => h[1 .. m] \in A}
<1> HIDE DEF h
<1>5. 0 \in S
  <2>1. 1 .. 0 = {} /\ {} \in SUBSET (1 .. n) OBVIOUS
  <2>2. QED BY <1>3, <2>1
<1>6. ASSUME NEW m \in Nat, m \in S PROVE m + 1 \in S
  <2> SUFFICES ASSUME m + 1 <= n PROVE h[1 .. m + 1] \in A OBVIOUS
  <2>1. (1 .. m + 1) \in SUBSET (1 .. n) /\ m + 1 \in Nat \ {0} /\ (m + 1) - 1 = m OBVIOUS
  <2>2. 1 .. m + 1 # {} /\ Max(1 .. m + 1) = m + 1 /\ (1 .. m + 1) \ {m + 1} = 1 .. m
    BY <2>1, LastOfRange
  <2>3. h[1 .. m + 1] = Applied(h[1 .. m], s[m + 1]) BY <1>3, <2>1, <2>2
  <2>4. h[1 .. m] \in A /\ m + 1 \in 1 .. n BY <1>6
  <2>5. QED BY <2>3, <2>4
<1>7. Nat \subseteq S
  <2> HIDE DEF S
  <2>1. QED BY <1>5, <1>6, Inductive
<1>8. QED BY <1>4, <1>7

\* One opcode, whatever it is applied to.
LEMMA FoldOne ==
  ASSUME NEW g, NEW o
  PROVE  FoldLeft(Applied, g, <<o>>) = Applied(g, o)
<1> DEFINE a == Applied(g, o)
           D == SUBSET (1 .. 1)
           s == <<o>>
           Table(h) == h = [t \in D |->
                              IF t = {} THEN g ELSE Applied(h[t \ {Max(t)}], s[Max(t)])]
           f == [t \in D |-> IF t = {} THEN g ELSE a]
           h == CHOOSE e : Table(e)
<1>1. D = {{}, {1}} /\ Max({1}) = 1 /\ {1} \ {1} = {} /\ s[1] = o /\ DOMAIN s = 1 .. 1
  <2>1. 1 .. 1 = {1} OBVIOUS
  <2>2. Max(1 .. 1) = 1
    <3>1. 1 \in Nat \ {0} OBVIOUS
    <3>2. QED BY ONLY <3>1, LastOfRange
  <2>3. QED BY <2>1, <2>2
<1>2. Table(f)
  <2>1. f[{}] = g /\ f[{1}] = a BY <1>1
  <2>2. ASSUME NEW t \in D
        PROVE  f[t] = IF t = {} THEN g ELSE Applied(f[t \ {Max(t)}], s[Max(t)])
    <3>1. CASE t = {} BY <2>1, <3>1
    <3>2. CASE t = {1}
      <4>1. t \ {Max(t)} = {} /\ s[Max(t)] = o BY <1>1, <3>2
      <4>2. t # {} BY <3>2
      <4>3. QED BY <2>1, <3>2, <4>1, <4>2
    <3>3. QED BY <1>1, <3>1, <3>2
  <2>3. f = [t \in D |-> f[t]] OBVIOUS
  <2> HIDE DEF f
  <2>4. QED BY <2>2, <2>3
<1>3. Table(h)
  <2> HIDE DEF f
  <2>1. QED BY <1>2
<1>4. FoldLeft(Applied, g, s) = h[1 .. 1]
  BY <1>1 DEF FoldLeft, MapThenFoldSet
<1>5. h[{}] = g BY <1>1, <1>3
<1>6. h[{1}] = Applied(h[{} ], o) BY <1>1, <1>3
<1>7. QED BY <1>1, <1>4, <1>5, <1>6


-----------------------------------------------------------------------------
(* The renderer's tree.                                                      *)

\* Nodes whose fields, but for the children, have values of V; and trees of them.
NodesOf(V) ==
  [component : V, parent : V, children : Seq(Ids), text : V, prop : V, token : V]
TreesOf(V) == [Ids -> NodesOf(V) \union {None}]

\* Opcodes that carry values of V, but for overrides.
OpcodesOf(V) ==
  {CreateOp(i, c) : i \in Ids, c \in V}
    \union {InsertOp(p, i) : p \in Ids, i \in Ids}
    \union {TextOp(i, t) : i \in Ids, t \in V} \union {PropertyOp(i, v) : i \in Ids, v \in V}
    \union {TokenOp(i, path) : i \in Ids, path \in V}

LEMMA WithoutTyped ==
  ASSUME NEW list \in Seq(Ids), NEW c
  PROVE  Tree!Without(list, c) \in Seq(Ids)
<1>1. CASE ~Tree!Holds(list, c) BY <1>1 DEF Tree!Without
<1>2. CASE Tree!Holds(list, c)
  <2> DEFINE at == CHOOSE k \in 1 .. Len(list) : list[k] = c
  <2>1. at \in 1 .. Len(list) BY <1>2 DEF Tree!Holds
  <2> HIDE DEF at
  <2>2. /\ SubSeq(list, 1, at - 1) \in Seq(Ids)
        /\ SubSeq(list, at + 1, Len(list)) \in Seq(Ids)
    BY <2>1
  <2>3. Tree!Without(list, c) = SubSeq(list, 1, at - 1) \o SubSeq(list, at + 1, Len(list))
    BY <1>2 DEF Tree!Without, at
  <2>4. QED BY <2>2, <2>3
<1>3. QED BY <1>1, <1>2

LEMMA InsertedTyped ==
  ASSUME NEW list \in Seq(Ids), NEW c \in Ids, NEW k \in Nat
  PROVE  Tree!InsertedAt(list, k, c) \in Seq(Ids)
<1> DEFINE at == IF k < Len(list) THEN k ELSE Len(list)
<1>1. at \in 0 .. Len(list) OBVIOUS
<1> HIDE DEF at
<1>2. SubSeq(list, 1, at) \in Seq(Ids) /\ SubSeq(list, at + 1, Len(list)) \in Seq(Ids)
      /\ <<c>> \in Seq(Ids)
  BY <1>1
<1>3. Tree!InsertedAt(list, k, c) = SubSeq(list, 1, at) \o <<c>> \o SubSeq(list, at + 1, Len(list))
  BY DEF Tree!InsertedAt, at
<1>4. QED BY <1>2, <1>3

LEMMA RelinkedTyped ==
  ASSUME NEW V, NEW t \in TreesOf(V), NEW p, NEW list, p \in Ids => list \in Seq(Ids), NEW c, NEW q \in V
  PROVE  Tree!Relinked(t, p, list, c, q) \in TreesOf(V)
<1>1. ASSUME NEW i \in Ids, t[i] # None
      PROVE  /\ [t[i] EXCEPT !.parent = q] \in NodesOf(V)
             /\ i = p => [t[i] EXCEPT !.children = list] \in NodesOf(V)
  BY <1>1 DEF TreesOf, NodesOf
<1>2. QED BY <1>1 DEF TreesOf, Tree!Relinked

LEMMA AppliedTyped ==
  ASSUME NEW V, None \in V, Ids \subseteq V, NEW T,
         NEW g \in [tree : TreesOf(V), tables : {T}], NEW o \in OpcodesOf(V)
  PROVE  Applied(g, o) \in [tree : TreesOf(V), tables : {T}]
<1> DEFINE t == g.tree
<1>1. t \in TreesOf(V) OBVIOUS
<1>2. \A u \in TreesOf(V) : [g EXCEPT !.tree = u] \in [tree : TreesOf(V), tables : {T}] OBVIOUS
<1>3. ASSUME NEW i \in Ids PROVE t[i] = None \/ t[i] \in NodesOf(V) BY DEF TreesOf
<1>4. ASSUME NEW i \in Ids, NEW n \in NodesOf(V) PROVE [t EXCEPT ![i] = n] \in TreesOf(V)
  BY DEF TreesOf
<1>5. ASSUME NEW i \in Ids, t[i] # None, NEW v \in V
      PROVE  /\ [t[i] EXCEPT !.component = v] \in NodesOf(V)
             /\ [t[i] EXCEPT !.text = v] \in NodesOf(V)
             /\ [t[i] EXCEPT !.prop = v] \in NodesOf(V)
             /\ [t[i] EXCEPT !.token = v] \in NodesOf(V)
  BY <1>3, <1>5 DEF NodesOf
<1>6. ASSUME NEW i \in Ids PROVE Tree!ChildrenOf(t, i) \in Seq(Ids)
  BY <1>3 DEF NodesOf, Tree!ChildrenOf
<1> HIDE DEF t
<1>7. ASSUME NEW i \in Ids, NEW c \in V, o = CreateOp(i, c)
      PROVE  Applied(g, o) \in [tree : TreesOf(V), tables : {T}]
  <2>1. Tree!NewNode(c) \in NodesOf(V)
    <3>1. <<>> \in Seq(Ids) OBVIOUS
    <3>2. QED BY <3>1 DEF NodesOf, Tree!NewNode
  <2>2. Tree!CreateNode(t, i, c) \in TreesOf(V)
    <3> DEFINE n == IF t[i] = None THEN Tree!NewNode(c) ELSE [t[i] EXCEPT !.component = c]
    <3>1. Tree!CreateNode(t, i, c) = [t EXCEPT ![i] = n] BY DEF Tree!CreateNode
    <3>2. n \in NodesOf(V) BY <1>5, <2>1
    <3> HIDE DEF n
    <3>3. QED BY <1>4, <3>1, <3>2
  <2>3. Applied(g, o) = [g EXCEPT !.tree = Tree!CreateNode(t, i, c)]
    BY <1>7 DEF Applied, CreateOp, t
  <2>4. QED BY <1>2, <2>2, <2>3
<1>8. ASSUME NEW p \in Ids, NEW i \in Ids, o = InsertOp(p, i)
      PROVE  Applied(g, o) \in [tree : TreesOf(V), tables : {T}]
  <2> DEFINE list == Tree!ChildrenOf(t, p)
             new == IF Tree!Holds(list, i) THEN list ELSE Append(list, i)
  <2>1. new \in Seq(Ids) BY <1>6
  <2>2. Tree!InsertChild(t, p, i) = Tree!Relinked(t, p, new, i, p) BY DEF Tree!InsertChild
  <2> HIDE DEF new
  <2>3. Tree!InsertChild(t, p, i) \in TreesOf(V) BY <1>1, <2>1, <2>2, RelinkedTyped
  <2>4. Applied(g, o) = [g EXCEPT !.tree = Tree!InsertChild(t, p, i)]
    BY <1>8 DEF Applied, InsertOp, t
  <2>5. QED BY <1>2, <2>3, <2>4
<1>11. ASSUME NEW i \in Ids, NEW v \in V, o = TextOp(i, v)
       PROVE  Applied(g, o) \in [tree : TreesOf(V), tables : {T}]
  <2>1. Tree!SetText(t, i, v) \in TreesOf(V)
    <3> DEFINE n == [t[i] EXCEPT !.text = v]
    <3>1. Tree!SetText(t, i, v) = IF t[i] = None THEN t ELSE [t EXCEPT ![i] = n] BY DEF Tree!SetText
    <3>2. t[i] # None => n \in NodesOf(V) BY <1>5
    <3> HIDE DEF n
    <3>3. QED BY <1>1, <1>4, <3>1, <3>2
  <2>2. Applied(g, o) = [g EXCEPT !.tree = Tree!SetText(t, i, v)] BY <1>11 DEF Applied, TextOp, t
  <2>3. QED BY <1>2, <2>1, <2>2
<1>12. ASSUME NEW i \in Ids, NEW v \in V, o = PropertyOp(i, v)
       PROVE  Applied(g, o) \in [tree : TreesOf(V), tables : {T}]
  <2>1. Tree!SetProperty(t, i, v) \in TreesOf(V)
    <3> DEFINE n == [t[i] EXCEPT !.prop = v]
    <3>1. Tree!SetProperty(t, i, v) = IF t[i] = None THEN t ELSE [t EXCEPT ![i] = n] BY DEF Tree!SetProperty
    <3>2. t[i] # None => n \in NodesOf(V) BY <1>5
    <3> HIDE DEF n
    <3>3. QED BY <1>1, <1>4, <3>1, <3>2
  <2>2. Applied(g, o) = [g EXCEPT !.tree = Tree!SetProperty(t, i, v)]
    BY <1>12 DEF Applied, PropertyOp, t
  <2>3. QED BY <1>2, <2>1, <2>2
<1>13. ASSUME NEW i \in Ids, NEW v \in V, o = TokenOp(i, v)
       PROVE  Applied(g, o) \in [tree : TreesOf(V), tables : {T}]
  <2>1. Tree!SetToken(t, i, v) \in TreesOf(V)
    <3> DEFINE n == [t[i] EXCEPT !.token = v]
    <3>1. Tree!SetToken(t, i, v) = IF t[i] = None THEN t ELSE [t EXCEPT ![i] = n] BY DEF Tree!SetToken
    <3>2. t[i] # None => n \in NodesOf(V) BY <1>5
    <3> HIDE DEF n
    <3>3. QED BY <1>1, <1>4, <3>1, <3>2
  <2>2. Applied(g, o) = [g EXCEPT !.tree = Tree!SetToken(t, i, v)]
    BY <1>13 DEF Applied, TokenOp, t
  <2>3. QED BY <1>2, <2>1, <2>2
<1>14. QED BY <1>7, <1>8, <1>11, <1>12, <1>13 DEF OpcodesOf

LEMMA RemovedTyped ==
  ASSUME NEW V, None \in V, NEW T, NEW g \in [tree : TreesOf(V), tables : {T}], NEW p, NEW i
  PROVE  Applied(g, RemoveOp(p, i)) \in [tree : TreesOf(V), tables : {T}]
<1>1. Applied(g, RemoveOp(p, i)) = [g EXCEPT !.tree = Tree!RemoveChild(g.tree, p, i)]
  BY DEF Applied, RemoveOp
<1>2. ASSUME p \in Ids PROVE Tree!Without(Tree!ChildrenOf(g.tree, p), i) \in Seq(Ids)
  <2>1. Tree!ChildrenOf(g.tree, p) \in Seq(Ids) BY <1>2 DEF TreesOf, NodesOf, Tree!ChildrenOf
  <2>2. QED BY <2>1, WithoutTyped
<1>3. g.tree \in TreesOf(V) OBVIOUS
<1>4. Tree!RemoveChild(g.tree, p, i) \in TreesOf(V)
  BY <1>2, <1>3, RelinkedTyped DEF Tree!RemoveChild
<1>5. QED BY <1>1, <1>4

LEMMA MovedTyped ==
  ASSUME NEW V, NEW T, NEW g \in [tree : TreesOf(V), tables : {T}], NEW p, NEW i \in Ids, NEW k \in Nat
  PROVE  Applied(g, MoveOp(p, i, k)) \in [tree : TreesOf(V), tables : {T}]
<1> DEFINE t == g.tree
           list == Tree!InsertedAt(Tree!Without(t[p].children, i), k, i)
<1>1. t \in TreesOf(V) OBVIOUS
<1>2. Applied(g, MoveOp(p, i, k)) = [g EXCEPT !.tree = Tree!MoveChild(t, p, i, k)]
  BY DEF Applied, MoveOp
<1>3. Tree!MoveChild(t, p, i, k) = IF t[p] = None THEN t
                                   ELSE [t EXCEPT ![p] = [t[p] EXCEPT !.children = list]]
  BY DEF Tree!MoveChild
<1> HIDE DEF t
<1>4. ASSUME p \in Ids, t[p] # None PROVE list \in Seq(Ids) /\ t[p] \in NodesOf(V)
  <2>1. t[p] \in NodesOf(V) BY <1>1, <1>4 DEF TreesOf
  <2>2. t[p].children \in Seq(Ids) BY <2>1 DEF NodesOf
  <2>3. QED BY <2>1, <2>2, WithoutTyped, InsertedTyped
<1> HIDE DEF list
<1>5. Tree!MoveChild(t, p, i, k) \in TreesOf(V)
  <2>1. CASE t[p] = None BY <1>1, <1>3, <2>1
  <2>2. CASE p \notin Ids BY <1>1, <1>3, <2>2 DEF TreesOf
  <2>3. CASE p \in Ids /\ t[p] # None
    <3>1. [t[p] EXCEPT !.children = list] \in NodesOf(V) BY <1>4, <2>3 DEF NodesOf
    <3>2. QED BY <1>1, <1>3, <2>3, <3>1 DEF TreesOf
  <2>4. QED BY <2>1, <2>2, <2>3
<1>6. QED BY <1>2, <1>5 DEF t

\* Opcodes that leave such a tree one, whatever node they name.
Loose(o) == \/ \E p, i : o \in {DeleteOp(i), RemoveOp(p, i)}
            \/ \E p : \E i \in Ids, k \in Nat : o = MoveOp(p, i, k)

LEMMA DeletedTyped ==
  ASSUME NEW V, NEW T, NEW g \in [tree : TreesOf(V), tables : {T}], NEW i
  PROVE  Applied(g, DeleteOp(i)) \in [tree : TreesOf(V), tables : {T}]
<1>1. Applied(g, DeleteOp(i)) = [g EXCEPT !.tree = Tree!DeleteNode(g.tree, i)]
  BY DEF Applied, DeleteOp
<1>2. Tree!DeleteNode(g.tree, i) \in TreesOf(V) BY DEF Tree!DeleteNode, TreesOf
<1>3. QED BY <1>1, <1>2


-----------------------------------------------------------------------------
(* Frames.                                                                   *)

\* The tree is one of nodes, whatever the values are.
GtkTyped == \E V : gtk \in TreesOf(V)

\* TokensShown, of any tree.
ShownIn(t, s, ts) ==
  \A i \in Ids : t[i] # None /\ t[i].token # None => Resolve(t[i].token, s, ts) \in {None, t[i].prop}

LEMMA Resolved ==
  ASSUME NEW V, NEW t \in TreesOf(V), NEW s, NEW ts
  PROVE  /\ \E W : ResolveTokens(t, s, ts) \in TreesOf(W)
         /\ ShownIn(ResolveTokens(t, s, ts), s, ts)
<1> DEFINE Value(i) == Resolve(t[i].token, s, ts)
           W == V \union {Value(i) : i \in Ids}
           r == ResolveTokens(t, s, ts)
<1>1. \A i \in Ids :
        r[i] = IF t[i] = None \/ t[i].token = None \/ Value(i) = None THEN t[i]
               ELSE [t[i] EXCEPT !.prop = Value(i)]
  BY DEF ResolveTokens
<1>2. r = [i \in Ids |-> r[i]] BY DEF ResolveTokens
<1> HIDE DEF r
<1>3. ASSUME NEW i \in Ids, t[i] # None
      PROVE  /\ t[i] \in NodesOf(V) /\ t[i] \in NodesOf(W)
             /\ [t[i] EXCEPT !.prop = Value(i)] \in NodesOf(W)
             /\ [t[i] EXCEPT !.prop = Value(i)].prop = Value(i)
             /\ [t[i] EXCEPT !.prop = Value(i)].token = t[i].token
  <2> HIDE DEF Value
  <2>1. t[i] \in NodesOf(V) BY <1>3 DEF TreesOf
  <2>2. V \subseteq W /\ Value(i) \in W OBVIOUS
  <2> HIDE DEF W
  <2>3. QED BY <2>1, <2>2 DEF NodesOf
<1>4. r \in TreesOf(W)
  <2> HIDE DEF W, Value
  <2>1. ASSUME NEW i \in Ids PROVE r[i] \in NodesOf(W) \union {None} BY <1>1, <1>3
  <2>2. QED BY <1>2, <2>1 DEF TreesOf
<1>5. ASSUME NEW i \in Ids, r[i] # None, r[i].token # None
      PROVE  Resolve(r[i].token, s, ts) \in {None, r[i].prop}
  <2>1. CASE t[i] = None BY <1>1, <1>5, <2>1
  <2>2. CASE t[i] # None /\ t[i].token = None BY <1>1, <1>5, <2>2
  <2>3. CASE t[i] # None /\ t[i].token # None /\ Value(i) = None BY <1>1, <2>3
  <2>4. CASE t[i] # None /\ t[i].token # None /\ Value(i) # None
    <3>1. r[i] = [t[i] EXCEPT !.prop = Value(i)] BY <1>1, <2>4
    <3>2. r[i].prop = Value(i) /\ r[i].token = t[i].token BY <1>3, <2>4, <3>1
    <3>3. QED BY <3>2
  <2>5. QED BY <2>1, <2>2, <2>3, <2>4
<1>6. QED BY <1>4, <1>5 DEF ShownIn, r

\* What a frame leaves is resolved.
LEMMA FrameShown ==
  ASSUME NEW ops, Frame(ops), \E V : FoldLeft(Applied, [tree |-> gtk, tables |-> tables], ops).tree \in TreesOf(V)
  PROVE  GtkTyped' /\ TokensShown'
<1> DEFINE g == FoldLeft(Applied, [tree |-> gtk, tables |-> tables], ops)
<1>1. /\ gtk' = ResolveTokens(ResolveTokens(g.tree, scheme, g.tables), scheme, tables')
      /\ scheme' = scheme
  BY DEF Frame
<1>2. PICK V : g.tree \in TreesOf(V) OBVIOUS
<1> HIDE DEF g
<1> DEFINE once == ResolveTokens(g.tree, scheme, g.tables)
<1>3. PICK W : once \in TreesOf(W) BY <1>2, Resolved
<1> HIDE DEF once
<1>4. gtk' = ResolveTokens(once, scheme, tables') BY <1>1 DEF once
<1>5. (\E X : gtk' \in TreesOf(X)) /\ ShownIn(gtk', scheme, tables') BY <1>3, <1>4, Resolved
<1>6. QED BY <1>1, <1>5 DEF GtkTyped, TokensShown, ShownIn

LEMMA FrameOf ==
  ASSUME NEW V, None \in V, Ids \subseteq V, gtk \in TreesOf(V),
         NEW n \in Nat, NEW ops, DOMAIN ops = 1 .. n,
         \A k \in 1 .. n : ops[k] \in OpcodesOf(V) \/ Loose(ops[k]),
         Frame(ops)
  PROVE  GtkTyped' /\ TokensShown'
<1> DEFINE A == [tree : TreesOf(V), tables : {tables}]
           g == [tree |-> gtk, tables |-> tables]
<1>1. g \in A OBVIOUS
<1>2. \A a \in A : \A k \in 1 .. n : Applied(a, ops[k]) \in A 
  BY AppliedTyped, DeletedTyped, RemovedTyped, MovedTyped DEF Loose
<1> HIDE DEF A, g
<1>3. FoldLeft(Applied, g, ops) \in A BY <1>1, <1>2, FoldStays
<1>4. FoldLeft(Applied, g, ops).tree \in TreesOf(V) BY <1>3 DEF A
<1>5. QED BY <1>4, FrameShown DEF g


-----------------------------------------------------------------------------
(* The theorems.                                                             *)

LEMMA RenderStart == RenderInit => GtkTyped /\ TokensShown
<1> SUFFICES ASSUME RenderInit PROVE GtkTyped /\ TokensShown OBVIOUS
<1>1. gtk = [i \in Ids |-> None] BY DEF RenderInit, Tree!NoNodes
<1>2. gtk \in TreesOf({}) BY <1>1 DEF TreesOf
<1>3. QED BY <1>1, <1>2 DEF GtkTyped, TokensShown

\* A frame of one opcode, an override or not.
LEMMA OneFramed ==
  ASSUME GtkTyped, NEW o, Frame(<<o>>),
         \/ \E i \in Ids : \E v : o \in {CreateOp(i, v), TextOp(i, v), PropertyOp(i, v), TokenOp(i, v)}
         \/ Loose(o)
         \/ \E path, dark, v : o = OverrideOp(path, dark, v)
  PROVE  GtkTyped' /\ TokensShown'
<1>1. PICK V : gtk \in TreesOf(V) BY DEF GtkTyped
<1>2. CASE \E path, dark, v : o = OverrideOp(path, dark, v)
  <2>1. PICK path, dark, v : o = OverrideOp(path, dark, v) BY <1>2
  <2> DEFINE g == [tree |-> gtk, tables |-> tables]
  <2>2. Applied(g, o) = [g EXCEPT !.tables = Overridden(g.tables, o.path, o.dark, o.value)]
    BY <2>1 DEF Applied, OverrideOp
  <2>3. Applied(g, o).tree = gtk BY <2>2
  <2>4. FoldLeft(Applied, g, <<o>>) = Applied(g, o)
    <3> HIDE DEF g
    <3>1. QED BY FoldOne
  <2>5. QED BY <1>1, <2>3, <2>4, FrameShown
<1>3. CASE ~\E path, dark, v : o = OverrideOp(path, dark, v)
  <2>1. PICK x : \/ \E i \in Ids : o \in {CreateOp(i, x), TextOp(i, x), PropertyOp(i, x), TokenOp(i, x)}
                 \/ Loose(o)
    BY <1>3
  <2> DEFINE W == V \union Ids \union {None, x}
  <2>2. gtk \in TreesOf(W)
    <3>1. V \subseteq W OBVIOUS
    <3> HIDE DEF W
    <3>2. QED BY <1>1, <3>1 DEF TreesOf, NodesOf
  <2>3. o \in OpcodesOf(W) \/ Loose(o) BY <2>1 DEF OpcodesOf
  <2>4. DOMAIN <<o>> = 1 .. 1 /\ <<o>>[1] = o /\ 1 \in Nat /\ None \in W /\ Ids \subseteq W OBVIOUS
  <2> HIDE DEF W
  <2>5. \A k \in 1 .. 1 : <<o>>[k] \in OpcodesOf(W) \/ Loose(<<o>>[k]) BY <2>3, <2>4
  <2>6. QED BY <2>2, <2>4, <2>5, FrameOf
<1>4. QED BY <1>2, <1>3

LEMMA MountFramed ==
  ASSUME GtkTyped, NEW i \in Ids, NEW p \in Ids \union {None}, NEW n, Mount(i, p, n)
  PROVE  GtkTyped' /\ TokensShown'
<1>1. PICK V : gtk \in TreesOf(V) BY DEF GtkTyped
<1> DEFINE node == [component |-> n.component, parent |-> p, children |-> <<>>,
                    text |-> n.text, prop |-> n.prop, token |-> n.token]
           W == V \union Ids \union {None, n.component, n.text, n.prop, n.token}
           a == <<CreateOp(i, n.component)>>
           b == IF p = None THEN <<>> ELSE <<InsertOp(p, i)>>
           c == IF n.token # None THEN <<TokenOp(i, n.token)>>
                ELSE IF n.prop # None THEN <<PropertyOp(i, n.prop)>> ELSE <<>>
           d == IF n.text # None THEN <<TextOp(i, n.text)>> ELSE <<>>
<1>2. Frame(MountOpcodes(i, node)) BY DEF Mount
<1>3. MountOpcodes(i, node) = a \o b \o c \o d BY DEF MountOpcodes
<1>4. gtk \in TreesOf(W) /\ None \in W /\ Ids \subseteq W
  <2>1. V \subseteq W /\ None \in W /\ Ids \subseteq W OBVIOUS
  <2> HIDE DEF W
  <2>2. QED BY <1>1, <2>1 DEF TreesOf, NodesOf
<1> DEFINE O == OpcodesOf(W)
<1>5. /\ CreateOp(i, n.component) \in O /\ (p # None => InsertOp(p, i) \in O)
      /\ TokenOp(i, n.token) \in O /\ PropertyOp(i, n.prop) \in O /\ TextOp(i, n.text) \in O
  BY DEF OpcodesOf
<1> HIDE DEF O, node
<1>6. <<>> \in Seq(O) /\ \A x \in O : <<x>> \in Seq(O) OBVIOUS
<1>7. \A x, y \in Seq(O) : x \o y \in Seq(O) OBVIOUS
<1>8. a \in Seq(O) /\ b \in Seq(O) /\ c \in Seq(O) /\ d \in Seq(O) BY <1>5, <1>6
<1> DEFINE ops == MountOpcodes(i, node)
<1>9. ops \in Seq(OpcodesOf(W))
  <2> HIDE DEF a, b, c, d, W
  <2>1. a \o b \o c \o d \in Seq(O) BY <1>7, <1>8
  <2>2. QED BY <1>3, <2>1 DEF O
<1> HIDE DEF ops, W
<1>10. DOMAIN ops = 1 .. Len(ops) /\ Len(ops) \in Nat /\ \A k \in 1 .. Len(ops) : ops[k] \in OpcodesOf(W)
  BY <1>9
<1>11. Frame(ops) BY <1>2 DEF ops
<1>12. QED BY <1>4, <1>10, <1>11, FrameOf


LEMMA UnmountFramed ==
  ASSUME GtkTyped, NEW i \in Ids, Unmount(i)
  PROVE  GtkTyped' /\ TokensShown'
<1>1. PICK V : gtk \in TreesOf(V) BY DEF GtkTyped
<1> DEFINE W == V \union Ids \union {None}
           S == Subtree(i)
           n == Cardinality(S)
<1>2. gtk \in TreesOf(W) /\ None \in W /\ Ids \subseteq W
  <2>1. V \subseteq W /\ None \in W /\ Ids \subseteq W OBVIOUS
  <2> HIDE DEF W
  <2>2. QED BY <1>1, <2>1 DEF TreesOf, NodesOf
<1>3. n \in Nat
  <2>1. S \subseteq Ids
    <3>1. Tree!Below(app, i) \subseteq Ids BY DEF Tree!Below
    <3>2. S = Tree!Below(app, i) BY DEF Subtree
    <3>3. QED BY <3>1, <3>2
  <2>2. IsFiniteSet(S) BY <2>1, RenderersAssumption, FS_Subset
  <2>3. QED BY <2>2, FS_CardinalityType
<1>4. /\ DOMAIN Deletes(S) = 1 .. n
      /\ \A k \in 1 .. n : Loose(Deletes(S)[k])
  BY DEF Deletes, Loose
<1>5. Frame(Deletes(S)) BY DEF Unmount
<1> HIDE DEF W, S, n
<1>6. QED BY <1>2, <1>3, <1>4, <1>5, FrameOf

LEMMA ReparentFramed ==
  ASSUME GtkTyped, NEW i \in Ids, NEW p \in Ids, Reparent(i, p)
  PROVE  GtkTyped' /\ TokensShown'
<1>1. PICK V : gtk \in TreesOf(V) BY DEF GtkTyped
<1> DEFINE W == V \union Ids \union {None}
           a == RemoveOp(app[i].parent, i)
           b == InsertOp(p, i)
<1>2. gtk \in TreesOf(W) /\ None \in W /\ Ids \subseteq W
  <2>1. V \subseteq W /\ None \in W /\ Ids \subseteq W OBVIOUS
  <2> HIDE DEF W
  <2>2. QED BY <1>1, <2>1 DEF TreesOf, NodesOf
<1>3. b \in OpcodesOf(W) /\ Loose(a) BY DEF OpcodesOf, Loose
<1>4. Frame(<<a, b>>) BY DEF Reparent
<1> HIDE DEF a, b, W
<1>5. DOMAIN <<a, b>> = 1 .. 2 /\ 2 \in Nat OBVIOUS
<1>6. \A k \in 1 .. 2 : <<a, b>>[k] \in OpcodesOf(W) \/ Loose(<<a, b>>[k])
  BY <1>3
<1>7. QED BY <1>2, <1>4, <1>5, <1>6, FrameOf


LEMMA RenderStep ==
  ASSUME GtkTyped, TokensShown, [RenderNext]_renderVars
  PROVE  GtkTyped' /\ TokensShown'
<1>1. CASE \E i \in Ids, p \in Ids \union {None}, n \in New : Mount(i, p, n)
  BY <1>1, MountFramed
<1>2. CASE \E i \in Ids : Unmount(i) BY <1>2, UnmountFramed
<1>3. ASSUME NEW i \in Ids, NEW k \in 0 .. 1, Reorder(i, k) PROVE GtkTyped' /\ TokensShown'
  <2> DEFINE p == app[i].parent
  <2>1. Frame(<<MoveOp(p, i, k)>>) BY <1>3 DEF Reorder
  <2>2. k \in Nat OBVIOUS
  <2>3. Loose(MoveOp(p, i, k)) BY <2>2 DEF Loose
  <2> HIDE DEF p
  <2>4. QED BY <2>1, <2>3, OneFramed
<1>4. CASE \E i, p \in Ids : Reparent(i, p) BY <1>4, ReparentFramed
<1>5. ASSUME NEW i \in Ids, NEW c \in Components, Retype(i, c) PROVE GtkTyped' /\ TokensShown'
  BY <1>5, OneFramed DEF Retype
<1>6. ASSUME NEW i \in Ids, NEW t \in TextValues, Retext(i, t) PROVE GtkTyped' /\ TokensShown'
  BY <1>6, OneFramed DEF Retext
<1>7. ASSUME NEW i \in Ids, NEW v \in PropValues, Restyle(i, v) PROVE GtkTyped' /\ TokensShown'
  BY <1>7, OneFramed DEF Restyle
<1>8. ASSUME NEW i \in Ids, NEW path \in Tokens, Refer(i, path) PROVE GtkTyped' /\ TokensShown'
  BY <1>8, OneFramed DEF Refer
<1>9. ASSUME NEW path \in Themed, NEW dark \in BOOLEAN, NEW v \in PropValues,
             ApplyTheme(path, dark, v)
      PROVE  GtkTyped' /\ TokensShown'
  BY <1>9, OneFramed DEF ApplyTheme
<1>10. ASSUME NEW s \in Schemes, SetScheme(s) PROVE GtkTyped' /\ TokensShown'
  <2> DEFINE once == ResolveTokens(gtk, scheme, tables')
  <2>1. gtk' = ResolveTokens(once, s, tables') /\ scheme' = s BY <1>10 DEF SetScheme
  <2>2. PICK V : gtk \in TreesOf(V) BY DEF GtkTyped
  <2>3. PICK W : once \in TreesOf(W) BY <2>2, Resolved
  <2> HIDE DEF once
  <2>4. (\E X : gtk' \in TreesOf(X)) /\ ShownIn(gtk', s, tables') BY <2>1, <2>3, Resolved
  <2>5. QED BY <2>1, <2>4 DEF GtkTyped, TokensShown, ShownIn
<1>11. CASE UNCHANGED renderVars BY <1>11 DEF renderVars, GtkTyped, TokensShown
<1>12. QED BY <1>1, <1>2, <1>3, <1>4, <1>5, <1>6, <1>7, <1>8, <1>9, <1>10, <1>11 DEF RenderNext

\* A reference shows what its path resolves to with the scheme, theme and defaults
\* there are: every frame and every change of scheme resolve all of them again, last
\* of all (resolve_tokens, set_scheme).
THEOREM TokensCorrect == RenderSpec => []TokensShown
<1>1. GtkTyped /\ TokensShown /\ [RenderNext]_renderVars => (GtkTyped /\ TokensShown)' BY RenderStep
<1>2. QED BY RenderStart, <1>1, PTL DEF RenderSpec
=============================================================================
