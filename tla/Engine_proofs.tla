---------------------------- MODULE Engine_proofs ----------------------------
(* Proofs about Engine, for every set of node ids, values, signals and trees,  *)
(* and about GtkWidgets, the other module that is built on RenderTree, for     *)
(* every finite set of node ids and every set of components, texts, properties *)
(* and listener bits.                                                          *)
EXTENDS Engine, GtkWidgets, ListFacts, FiniteSetTheorems, TLAPS

-----------------------------------------------------------------------------
(* The renderer's tree.                                                      *)

Tree == [Ids -> Optional(HostNode)]

\* Two nodes that differ at most in their lists of children.
Alike(a, b) ==
  /\ a = None <=> b = None
  /\ a # None =>
       /\ a.component = b.component /\ a.parent = b.parent
       /\ a.text = b.text /\ a.prop = b.prop /\ a.token = b.token

\* The tree operations keep lists of children lists of ids.
LEMMA ListTypes ==
  ASSUME NEW list \in Seq(Ids), NEW c \in Ids, NEW k \in Nat
  PROVE  /\ Without(list, c) \in Seq(Ids)
         /\ InsertedAt(list, k, c) \in Seq(Ids)
<1>1. Without(list, c) \in Seq(Ids)
  <2>1. CASE ~Holds(list, c)
    BY <2>1 DEF Without
  <2>2. CASE Holds(list, c)
    <3> DEFINE at == CHOOSE j \in 1 .. Len(list) : list[j] = c
    <3>1. at \in 1 .. Len(list)
      BY <2>2 DEF Holds
    <3> HIDE DEF at
    <3>2. /\ SubSeq(list, 1, at - 1) \in Seq(Ids)
          /\ SubSeq(list, at + 1, Len(list)) \in Seq(Ids)
      BY <3>1
    <3>3. SubSeq(list, 1, at - 1) \o SubSeq(list, at + 1, Len(list)) \in Seq(Ids)
      BY <3>2
    <3>4. QED BY <2>2, <3>3 DEF Without, at
  <2>3. QED BY <2>1, <2>2
<1>2. InsertedAt(list, k, c) \in Seq(Ids)
  <2> DEFINE at == IF k < Len(list) THEN k ELSE Len(list)
  <2>1. at \in 0 .. Len(list)
    OBVIOUS
  <2> HIDE DEF at
  <2>2. /\ SubSeq(list, 1, at) \in Seq(Ids)
        /\ SubSeq(list, at + 1, Len(list)) \in Seq(Ids)
    BY <2>1
  <2>3. <<c>> \in Seq(Ids)
    OBVIOUS
  <2>4. SubSeq(list, 1, at) \o <<c>> \o SubSeq(list, at + 1, Len(list)) \in Seq(Ids)
    BY <2>2, <2>3
  <2>5. QED BY <2>4 DEF InsertedAt, at
<1>3. QED BY <1>1, <1>2

\* The children of any node, there or not, are a list of ids.
LEMMA ListOfChildren ==
  ASSUME NEW host \in Tree, NEW p \in Ids
  PROVE  ChildrenOf(host, p) \in Seq(Ids)
BY DEF Tree, ChildrenOf, Optional, HostNode

\* Relinking a child sets its parent and changes no other node but for its list.
LEMMA RelinkedTree ==
  ASSUME NEW host \in Tree, NEW p \in Ids, NEW list \in Seq(Ids), NEW c \in Ids,
         NEW q \in Optional(Ids)
  PROVE  LET new == Relinked(host, p, list, c, q)
         IN  /\ new \in Tree
             /\ \A i \in Ids \ {c} : Alike(host[i], new[i])
             /\ host[c] = None => new[c] = None
             /\ host[c] # None => new[c] = [host[c] EXCEPT !.parent = q]
<1> DEFINE new == Relinked(host, p, list, c, q)
<1>1. \A i \in Ids : host[i] # None => host[i] \in HostNode
  BY DEF Tree, Optional
<1>2. \A i \in Ids : host[i] \in HostNode =>
        /\ [host[i] EXCEPT !.parent = q] \in HostNode
        /\ [host[i] EXCEPT !.children = list] \in HostNode
  BY DEF HostNode
<1>3. new \in Tree
  BY <1>1, <1>2 DEF Relinked, Tree, Optional
<1>4. None \notin HostNode
  BY NodeAssumption
<1>5. ASSUME NEW i \in Ids \ {c} PROVE Alike(host[i], new[i])
  <2>1. CASE host[i] = None
    BY <2>1 DEF Alike, Relinked
  <2>2. CASE host[i] # None /\ i = p
    <3>1. host[i] \in HostNode
      BY <2>2, <1>1
    <3>2. new[i] = [host[i] EXCEPT !.children = list]
      BY <2>2 DEF Relinked
    <3>3. new[i] # None
      BY <3>1, <3>2, <1>2, <1>4
    <3>4. QED BY <2>2, <3>1, <3>2, <3>3 DEF Alike, HostNode
  <2>3. CASE host[i] # None /\ i # p
    BY <2>3 DEF Alike, Relinked
  <2>4. QED BY <2>1, <2>2, <2>3
<1>6. QED BY <1>3, <1>5 DEF Relinked

\* What an opcode for node id leaves of the other nodes.
OthersAlike(host, new, id) == \A i \in Ids \ {id} : Alike(host[i], new[i])

\* CREATE_NODE: the node is there with its type and, if it was, with all it had.
LEMMA CreateTree ==
  ASSUME NEW host \in Tree, NEW id \in Ids, NEW c \in Components
  PROVE  LET new == CreateNode(host, id, c)
         IN  /\ new \in Tree /\ OthersAlike(host, new, id)
             /\ new[id] # None
             /\ new[id].component = c
             /\ host[id] # None => new[id] = [host[id] EXCEPT !.component = c]
             /\ host[id] = None => new[id] = NewNode(c)
<1> DEFINE new == CreateNode(host, id, c)
<1>1. NewNode(c) \in HostNode
  BY DEF NewNode, HostNode, Optional
<1>2. host[id] # None =>
        /\ host[id] \in HostNode
        /\ [host[id] EXCEPT !.component = c] \in HostNode
        /\ [host[id] EXCEPT !.component = c].component = c
  BY DEF Tree, Optional, HostNode
<1>3. /\ new \in Tree
      /\ new[id] = IF host[id] = None THEN NewNode(c)
                   ELSE [host[id] EXCEPT !.component = c]
      /\ \A i \in Ids \ {id} : new[i] = host[i]
  BY <1>1, <1>2 DEF CreateNode, Tree, Optional
<1>4. OthersAlike(host, new, id)
  BY <1>3 DEF OthersAlike, Alike
<1>5. new[id] # None /\ new[id].component = c
  BY <1>1, <1>2, <1>3, NodeAssumption DEF NewNode
<1>6. QED BY <1>3, <1>4, <1>5

\* INSERT_CHILD sets the child's parent; beside that only a list grows.
LEMMA InsertTree ==
  ASSUME NEW host \in Tree, NEW p \in Ids, NEW c \in Ids
  PROVE  LET new == InsertChild(host, p, c)
         IN  /\ new \in Tree /\ OthersAlike(host, new, c)
             /\ host[c] = None => new[c] = None
             /\ host[c] # None => new[c] = [host[c] EXCEPT !.parent = p]
<1> DEFINE list == ChildrenOf(host, p)
           grown == IF Holds(list, c) THEN list ELSE Append(list, c)
<1>1. grown \in Seq(Ids)
  BY ListOfChildren
<1>2. InsertChild(host, p, c) = Relinked(host, p, grown, c, p)
  BY DEF InsertChild
<1> HIDE DEF grown
<1>3. p \in Optional(Ids)
  BY DEF Optional
<1>4. LET new == Relinked(host, p, grown, c, p)
      IN  /\ new \in Tree
          /\ \A i \in Ids \ {c} : Alike(host[i], new[i])
          /\ host[c] = None => new[c] = None
          /\ host[c] # None => new[c] = [host[c] EXCEPT !.parent = p]
  BY <1>1, <1>3, RelinkedTree
<1>5. QED BY <1>2, <1>4 DEF OthersAlike

\* What has been inserted is as it was, but for its parent.
LEMMA InsertedNode ==
  ASSUME NEW host \in Tree, NEW p \in Ids, NEW c \in Ids, host[c] # None
  PROVE  InsertChild(host, p, c)[c] = [host[c] EXCEPT !.parent = p]
BY InsertTree

\* REMOVE_CHILD clears the child's parent; beside that only a list shrinks.
LEMMA RemoveTree ==
  ASSUME NEW host \in Tree, NEW p \in Ids, NEW c \in Ids
  PROVE  LET new == RemoveChild(host, p, c)
         IN  /\ new \in Tree /\ OthersAlike(host, new, c)
             /\ host[c] = None => new[c] = None
             /\ host[c] # None => new[c] = [host[c] EXCEPT !.parent = None]
<1>1. Without(ChildrenOf(host, p), c) \in Seq(Ids)
  <2>1. 0 \in Nat
    OBVIOUS
  <2>2. QED BY <2>1, ListOfChildren, ListTypes
<1>2. None \in Optional(Ids)
  BY DEF Optional
<1> DEFINE list == Without(ChildrenOf(host, p), c)
<1>3. LET new == Relinked(host, p, list, c, None)
      IN  /\ new \in Tree
          /\ \A i \in Ids \ {c} : Alike(host[i], new[i])
          /\ host[c] = None => new[c] = None
          /\ host[c] # None => new[c] = [host[c] EXCEPT !.parent = None]
  BY <1>1, <1>2, RelinkedTree
<1>4. QED BY <1>3 DEF OthersAlike, RemoveChild

\* MOVE_CHILD reorders one list and touches nothing else.
LEMMA MoveTree ==
  ASSUME NEW host \in Tree, NEW p \in Ids, NEW c \in Ids, NEW k \in Nat
  PROVE  LET new == MoveChild(host, p, c, k)
         IN  new \in Tree /\ \A i \in Ids : Alike(host[i], new[i])
<1> DEFINE list == InsertedAt(Without(ChildrenOf(host, p), c), k, c)
           new == MoveChild(host, p, c, k)
<1>1. CASE host[p] = None
  BY <1>1 DEF MoveChild, Alike
<1>2. CASE host[p] # None
  <2>1. list \in Seq(Ids)
    BY ListOfChildren, ListTypes
  <2>2. new = [host EXCEPT ![p] = [host[p] EXCEPT !.children = list]]
    BY <1>2 DEF MoveChild, ChildrenOf
  <2> HIDE DEF list
  <2>3. host[p] \in HostNode
    BY <1>2 DEF Tree, Optional
  <2>4. [host[p] EXCEPT !.children = list] \in HostNode
    BY <2>1, <2>3 DEF HostNode
  <2>5. Alike(host[p], [host[p] EXCEPT !.children = list])
    BY <2>3, <2>4, <1>2, NodeAssumption DEF Alike, HostNode
  <2> HIDE DEF new
  <2>6. new \in Tree
    BY <2>2, <2>4 DEF Tree, Optional
  <2>7. \A i \in Ids : new[i] = IF i = p THEN [host[p] EXCEPT !.children = list]
                                ELSE host[i]
    BY <2>2 DEF Tree
  <2>8. \A i \in Ids : Alike(host[i], new[i])
    BY <2>5, <2>7 DEF Alike
  <2>9. QED BY <2>6, <2>8 DEF new
<1>3. QED BY <1>1, <1>2

\* SET_TEXT and the two kinds of SET_PROPERTY.
LEMMA SetTree ==
  ASSUME NEW host \in Tree, NEW id \in Ids
  PROVE  /\ \A t \in Optional(TextValues) :
              /\ SetText(host, id, t) \in Tree
              /\ OthersAlike(host, SetText(host, id, t), id)
              /\ SetText(host, id, t)[id] = IF host[id] = None THEN None
                                            ELSE [host[id] EXCEPT !.text = t]
         /\ \A v \in Optional(PropValues) :
              /\ SetProperty(host, id, v) \in Tree
              /\ OthersAlike(host, SetProperty(host, id, v), id)
              /\ SetProperty(host, id, v)[id] = IF host[id] = None THEN None
                                                ELSE [host[id] EXCEPT !.prop = v]
         /\ \A t \in Optional(Tokens) :
              /\ SetToken(host, id, t) \in Tree
              /\ OthersAlike(host, SetToken(host, id, t), id)
              /\ SetToken(host, id, t)[id] = IF host[id] = None THEN None
                                             ELSE [host[id] EXCEPT !.token = t]
<1>1. CASE host[id] = None
  BY <1>1 DEF SetText, SetProperty, SetToken, OthersAlike, Alike
<1>2. CASE host[id] # None
  <2>1. host[id] \in HostNode
    BY <1>2 DEF Tree, Optional
  <2>2. \A t \in Optional(TextValues) : [host[id] EXCEPT !.text = t] \in HostNode
    BY <2>1 DEF HostNode
  <2>3. \A v \in Optional(PropValues) : [host[id] EXCEPT !.prop = v] \in HostNode
    BY <2>1 DEF HostNode
  <2>4. \A t \in Optional(Tokens) : [host[id] EXCEPT !.token = t] \in HostNode
    BY <2>1 DEF HostNode
  <2>5. \A n \in HostNode :
          /\ [host EXCEPT ![id] = n] \in Tree
          /\ [host EXCEPT ![id] = n][id] = n
          /\ OthersAlike(host, [host EXCEPT ![id] = n], id)
    BY DEF Tree, Optional, OthersAlike, Alike
  <2>6. ASSUME NEW t \in Optional(TextValues)
        PROVE  /\ SetText(host, id, t) \in Tree
               /\ OthersAlike(host, SetText(host, id, t), id)
               /\ SetText(host, id, t)[id] = [host[id] EXCEPT !.text = t]
    <3> DEFINE n == [host[id] EXCEPT !.text = t]
    <3>1. n \in HostNode
      BY <2>2
    <3>2. SetText(host, id, t) = [host EXCEPT ![id] = n]
      BY <1>2 DEF SetText
    <3> HIDE DEF n
    <3>3. /\ SetText(host, id, t) \in Tree
          /\ OthersAlike(host, SetText(host, id, t), id)
          /\ SetText(host, id, t)[id] = n
      BY <3>1, <3>2, <2>5
    <3>4. QED BY <3>3 DEF n
  <2>7. ASSUME NEW v \in Optional(PropValues)
        PROVE  /\ SetProperty(host, id, v) \in Tree
               /\ OthersAlike(host, SetProperty(host, id, v), id)
               /\ SetProperty(host, id, v)[id] = [host[id] EXCEPT !.prop = v]
    <3> DEFINE n == [host[id] EXCEPT !.prop = v]
    <3>1. n \in HostNode
      BY <2>3
    <3>2. SetProperty(host, id, v) = [host EXCEPT ![id] = n]
      BY <1>2 DEF SetProperty
    <3> HIDE DEF n
    <3>3. /\ SetProperty(host, id, v) \in Tree
          /\ OthersAlike(host, SetProperty(host, id, v), id)
          /\ SetProperty(host, id, v)[id] = n
      BY <3>1, <3>2, <2>5
    <3>4. QED BY <3>3 DEF n
  <2>8. ASSUME NEW t \in Optional(Tokens)
        PROVE  /\ SetToken(host, id, t) \in Tree
               /\ OthersAlike(host, SetToken(host, id, t), id)
               /\ SetToken(host, id, t)[id] = [host[id] EXCEPT !.token = t]
    <3> DEFINE n == [host[id] EXCEPT !.token = t]
    <3>1. n \in HostNode
      BY <2>4
    <3>2. SetToken(host, id, t) = [host EXCEPT ![id] = n]
      BY <1>2 DEF SetToken
    <3> HIDE DEF n
    <3>3. /\ SetToken(host, id, t) \in Tree
          /\ OthersAlike(host, SetToken(host, id, t), id)
          /\ SetToken(host, id, t)[id] = n
      BY <3>1, <3>2, <2>5
    <3>4. QED BY <3>3 DEF n
  <2>9. QED BY <1>2, <2>6, <2>7, <2>8
<1>3. QED BY <1>1, <1>2

-----------------------------------------------------------------------------
(* The inductive invariant.                                                  *)

\* A node on its way to t, from the snapshot p: what its pending opcodes do not
\* set is set already.
Reaching(node, p, t, todo) ==
  /\ node = None => p = None /\ "create" \in todo
  /\ "create" \in todo \/ (node # None /\ node.component = t.component)
  /\ "remove" \in todo => p # None /\ (t.parent # None => "insert" \in todo)
  /\ "remove" \in todo => p.parent # None
  /\ "insert" \in todo \/ "move" \in todo => t.parent # None
  /\ "token" \in todo => t.token # None
  /\ t.parent # None => "insert" \in todo \/ (node # None /\ node.parent = t.parent)
  /\ t.text # None => "text" \in todo \/ (node # None /\ node.text = t.text)
  /\ t.token # None => "token" \in todo \/ (node # None /\ node.token = t.token)
  /\ t.prop # None =>
       \/ "prop" \in todo \/ "token" \in todo
       \/ (node # None /\ (node.token # None \/ node.prop = t.prop))

\* The node at hand is on its way; it is the next of the walk.
VisitInv ==
  visit # None =>
    /\ call = "emit" /\ walk # <<>>
    /\ visit.id = Head(walk).id /\ visit.target = Target(Head(walk))
    /\ snapshot[visit.id] = None
    /\ Reaching(screen[visit.id], visit.prev, visit.target, pending)

\* Between the nodes of a walk, and between calls, nothing is pending.
CallInv ==
  /\ call # "emit" => visit = None
  /\ visit = None => pending = {}
  /\ call = "set" => setting # None /\ ~settled

\* How far a walk has come.
Done == Len(view) - Len(walk)

WalkInv ==
  call = "emit" =>
    /\ Done >= 0
    /\ \A k \in 1 .. Len(walk) : walk[k] = view[Done + k]
    /\ visited = {view[k].id : k \in 1 .. Done}
    /\ \A k \in 1 .. Done : snapshot[view[k].id] = Target(view[k])

ViewInv == \A i, j \in 1 .. Len(view) : view[i].id = view[j].id => i = j

\* A settled tree is the snapshot, but for the node at hand.
SettledInv ==
  settled =>
    /\ pending = {}
    /\ \A k \in 1 .. Len(view) :
         \/ snapshot[view[k].id] = Target(view[k])
         \/ visit # None /\ visit.id = view[k].id
    /\ \A i \in Ids : snapshot[i] # None => \E k \in 1 .. Len(view) : view[k].id = i

EngineIInv ==
  /\ EngineTypeOK /\ Truthful
  /\ VisitInv /\ CallInv /\ WalkInv /\ ViewInv /\ SettledInv

\* Nodes that differ at most in their children agree with the same snapshots.
LEMMA AlikeAgree ==
  ASSUME NEW a, NEW b, NEW s, Alike(a, b), Agrees(a, s)
  PROVE  Agrees(b, s)
BY DEF Alike, Agrees

\* Resolving the bindings of a node of a tree gives what a snapshot can hold.
LEMMA TargetType ==
  ASSUME EngineTypeOK, NEW n \in ViewNode
  PROVE  Target(n) \in Snapshot
<1>1. /\ Value(n.textBinding, TextValues) \in Optional(TextValues)
      /\ Value(n.propBinding, PropValues) \in Optional(PropValues)
  BY DEF Value, Optional
<1>2. /\ Resolved(n.textBinding, TextValues, n.text) \in Optional(TextValues)
      /\ Resolved(n.propBinding, PropValues, n.prop) \in Optional(PropValues)
  BY <1>1 DEF Resolved, ViewNode
<1>3. QED BY <1>2 DEF Target, Snapshot, ViewNode

\* The engine starts in the invariant.
LEMMA EngineInitIInv == EngineInit => EngineIInv
<1> SUFFICES ASSUME EngineInit PROVE EngineIInv
  OBVIOUS
<1> USE DEF EngineInit
<1>1. EngineTypeOK
  <2>1. /\ snapshot \in [Ids -> Optional(Snapshot)] /\ cells \in [Signals -> Optional(SignalValues)]
        /\ screen \in [Ids -> Optional(HostNode)] /\ deps \in [Signals -> Seq(Dep)]
    BY DEF Optional, NoNodes
  <2>2. settled \in BOOLEAN /\ refused \in BOOLEAN
    BY Zenon
  <2>3. /\ walk \in Seq(ViewNode) /\ visited \subseteq Ids /\ pending \subseteq Stages
        /\ depsLeft \in Seq(Dep) /\ view \in Seq(ViewNode)
    OBVIOUS
  <2>4. QED BY <2>1, <2>2, <2>3 DEF EngineTypeOK, Optional
<1>2. Truthful /\ VisitInv /\ CallInv /\ ViewInv /\ SettledInv
  BY DEF Truthful, VisitInv, CallInv, ViewInv, SettledInv
<1>3. WalkInv
  BY DEF WalkInv
<1>4. QED BY <1>1, <1>2, <1>3 DEF EngineIInv

\* emit begins.
LEMMA EmitStep ==
  ASSUME EngineIInv, NEW v \in Views, Emit(v)
  PROVE  EngineIInv'
<1> USE DEF Emit, Idle
<1>1. v \in Seq(ViewNode)
      /\ \A i, j \in 1 .. Len(v) : v[i].id = v[j].id => i = j
  BY EngineAssumption
<1>2. EngineTypeOK'
  BY <1>1 DEF EngineIInv, EngineTypeOK, Optional, setProgress
<1>3. Truthful'
  BY DEF EngineIInv, Truthful, Agrees
<1>4. VisitInv' /\ CallInv'
  BY DEF EngineIInv, VisitInv, CallInv
<1>5. WalkInv' /\ ViewInv'
  BY <1>1 DEF WalkInv, ViewInv, Done
<1>6. SettledInv'
  <2>1. visit = None
    BY DEF EngineIInv, CallInv
  <2>2. \A n : Target(n)' = Target(n)
    BY DEF Target, Resolved, Value
  <2>3. QED BY <2>1, <2>2 DEF EngineIInv, SettledInv
<1>7. QED BY <1>2, <1>3, <1>4, <1>5, <1>6 DEF EngineIInv

\* At the start of a visit, without a snapshot and with one.
LEMMA MountReaching ==
  ASSUME NEW node, NEW t
  PROVE  Reaching(node, None, t, MountStages(t))
<1> DEFINE todo == MountStages(t)
<1>1. /\ "create" \in todo
      /\ "remove" \notin todo
      /\ "move" \notin todo
      /\ "insert" \in todo <=> t.parent # None
      /\ "text" \in todo <=> t.text # None
      /\ "prop" \in todo <=> t.prop # None /\ t.token = None
      /\ "token" \in todo <=> t.token # None
  BY DEF MountStages
<1> HIDE DEF todo
<1>2. Reaching(node, None, t, todo)
  BY <1>1 DEF Reaching
<1>3. QED BY <1>2 DEF todo

\* The same for a node that has a snapshot: what is not compared unequal is on the
\* screen, because the snapshot is.
LEMMA UpdateReaching ==
  ASSUME NEW node, NEW p, NEW t, p # None, Agrees(node, p)
  PROVE  Reaching(node, p, t, UpdateStages(p, t))
<1> DEFINE todo == UpdateStages(p, t)
<1>1. /\ "create" \in todo <=> p.component # t.component
      /\ "remove" \in todo <=> p.parent # t.parent /\ p.parent # None
      /\ "insert" \in todo <=> p.parent # t.parent /\ t.parent # None
      /\ "move" \in todo => t.parent # None
      /\ "text" \in todo <=> p.text # t.text /\ t.text # None
      /\ "prop" \in todo <=> t.prop # None /\ t.token = None /\ p.prop # t.prop
      /\ "token" \in todo <=> t.token # None /\ p.token # t.token
  BY DEF UpdateStages
<1> HIDE DEF todo
<1>2. /\ node # None /\ node.component = p.component
      /\ p.parent # None => node.parent = p.parent
      /\ p.text # None => node.text = p.text
      /\ p.token # None => node.token = p.token
      /\ p.prop # None /\ node.token = None => node.prop = p.prop
  BY DEF Agrees
<1>3. Reaching(node, p, t, todo)
  BY <1>1, <1>2 DEF Reaching
<1>4. QED BY <1>3 DEF todo

\* A node is taken up: its snapshot is out, everything it needs is pending.
LEMMA VisitStep ==
  ASSUME EngineIInv, Visit
  PROVE  EngineIInv'
<1> DEFINE n == Head(walk)
           prev == snapshot[n.id]
           t == Target(n)
<1>0. call = "emit" /\ visit = None /\ walk # <<>>
  BY DEF Visit
<1>1. /\ n \in ViewNode /\ n.id \in Ids /\ walk[1] = n /\ Len(walk) >= 1
      /\ walk \in Seq(ViewNode)
  <2>1. walk \in Seq(ViewNode)
    BY DEF EngineIInv, EngineTypeOK
  <2>2. n \in ViewNode /\ walk[1] = n /\ Len(walk) >= 1
    BY <2>1, <1>0
  <2>3. QED BY <2>1, <2>2 DEF ViewNode
<1>2. t \in Snapshot /\ prev \in Optional(Snapshot)
  BY <1>1, TargetType DEF EngineIInv, EngineTypeOK
<1>3. /\ visit' = [id |-> n.id, prev |-> prev, target |-> t]
      /\ pending' = IF prev = None THEN MountStages(t) ELSE UpdateStages(prev, t)
      /\ snapshot' = [snapshot EXCEPT ![n.id] = None]
      /\ UNCHANGED <<cells, deps, call, walk, visited, depsLeft, setting, screen, view,
                     settled, refused, answer>>
  BY DEF Visit, setProgress, history
<1>4. visit' \in VisitState /\ visit' # None
  BY <1>1, <1>2, <1>3, SnapshotAssumption DEF VisitState
<1>5. \A m : Target(m)' = Target(m)
  BY <1>3 DEF Target, Resolved, Value
<1>6. EngineTypeOK'
  <2>1. pending' \subseteq Stages
    BY <1>3 DEF MountStages, UpdateStages, Stages
  <2>2. snapshot' \in [Ids -> Optional(Snapshot)]
    BY <1>1, <1>3 DEF EngineIInv, EngineTypeOK, Optional
  <2>3. QED BY <1>3, <1>4, <2>1, <2>2 DEF EngineIInv, EngineTypeOK, Optional
<1>7. Truthful'
  BY <1>1, <1>3 DEF EngineIInv, EngineTypeOK, Truthful, Agrees
<1>8. VisitInv'
  <2>1. /\ visit' # None /\ visit'.id = n.id /\ visit'.target = t /\ visit'.prev = prev
        /\ snapshot'[n.id] = None /\ screen' = screen /\ walk' = walk /\ call' = "emit"
          /\ Target(Head(walk))' = t /\ walk # <<>> /\ n.id \in Ids
    BY <1>0, <1>1, <1>3, <1>4, <1>5 DEF EngineIInv, EngineTypeOK
  <2>2. Reaching(screen[n.id], prev, t, pending')
    <3>1. CASE prev = None
      BY <3>1, <1>3, MountReaching
    <3>2. CASE prev # None
      <4>1. Agrees(screen[n.id], prev)
        BY <3>2, <1>1 DEF EngineIInv, Truthful
      <4>2. QED BY <3>2, <4>1, <1>3, UpdateReaching
    <3>3. QED BY <3>1, <3>2
  <2> HIDE DEF prev, t
  <2>3. QED BY <2>1, <2>2 DEF VisitInv
<1>9. CallInv'
  BY <1>0, <1>3, <1>4 DEF EngineIInv, CallInv
<1>10. WalkInv' /\ ViewInv'
  <2>1. Done' = Done /\ Done >= 0 /\ Len(view) \in Nat /\ Done \in Nat
    BY <1>0, <1>3 DEF Done, EngineIInv, EngineTypeOK, WalkInv
  <2>2. n = view[Done + 1] /\ Done + 1 <= Len(view)
    BY <1>0, <1>1, <2>1 DEF EngineIInv, WalkInv, Done
  <2>3. \A k \in 1 .. Done : view[k].id # n.id
    BY <2>1, <2>2 DEF EngineIInv, ViewInv
  <2>4. \A k \in 1 .. Done : snapshot'[view[k].id] = Target(view[k])
    <3> TAKE k \in 1 .. Done
    <3>1. view[k] \in ViewNode
      BY <2>1, <2>2 DEF EngineIInv, EngineTypeOK
    <3>2. view[k].id \in Ids
      BY <3>1 DEF ViewNode
    <3>3. QED BY <1>0, <1>3, <2>3, <3>2 DEF EngineIInv, EngineTypeOK, WalkInv
  <2>5. QED BY <1>0, <1>3, <1>5, <2>1, <2>4 DEF EngineIInv, WalkInv, ViewInv
<1>11. SettledInv'
  <2> SUFFICES ASSUME settled PROVE SettledInv'
    BY <1>3 DEF SettledInv
  <2>1. PICK k \in 1 .. Len(view) : view[k] = n
    BY <1>0, <1>1 DEF EngineIInv, EngineTypeOK, WalkInv, Done
  <2>2. prev = t
    BY <1>0, <2>1 DEF EngineIInv, SettledInv
  <2>3. pending' = {}
    BY <1>2, <1>3, <2>2, SnapshotAssumption DEF UpdateStages
  <2>4. \A i \in Ids : snapshot'[i] # None => snapshot[i] # None
    BY <1>3 DEF EngineIInv, EngineTypeOK
  <2>5. \A j \in 1 .. Len(view) :
          \/ snapshot'[view[j].id] = Target(view[j])
          \/ visit'.id = view[j].id
    <3> TAKE j \in 1 .. Len(view)
    <3>1. view[j] \in ViewNode
      BY DEF EngineIInv, EngineTypeOK
    <3>2. view[j].id \in Ids
      BY <3>1 DEF ViewNode
    <3>3. snapshot[view[j].id] = Target(view[j])
      BY <1>0 DEF EngineIInv, SettledInv
    <3>4. snapshot \in [Ids -> Optional(Snapshot)] /\ visit'.id = n.id
      BY <1>3 DEF EngineIInv, EngineTypeOK
    <3>5. QED BY <1>1, <1>3, <3>2, <3>3, <3>4
  <2>6. QED BY <1>3, <1>4, <1>5, <2>3, <2>4, <2>5 DEF EngineIInv, SettledInv
<1>12. QED BY <1>6, <1>7, <1>8, <1>9, <1>10, <1>11 DEF EngineIInv

\* The pushed opcode is the earliest pending: the node is on the screen unless
\* it is created now, and a child is removed before it is inserted.
LEMMA DueStage ==
  ASSUME visit # None, NEW stage \in Stages, Due(stage),
         NEW node, NEW t, Reaching(node, visit.prev, t, pending)
  PROVE  /\ stage \in pending
         /\ stage # "create" => node # None
         /\ stage = "insert" => "remove" \notin pending
<1>1. visit.prev = None => \A q \in pending : MountOrder[stage] <= MountOrder[q]
  BY DEF Due
<1>2. visit.prev # None => \A q \in pending : UpdateOrder[stage] <= UpdateOrder[q]
  BY DEF Due
<1>3. stage \in pending
  BY DEF Due
<1>4. stage # "create" => node # None
  <2> SUFFICES ASSUME stage # "create", node = None PROVE FALSE
    OBVIOUS
  <2>1. visit.prev = None /\ "create" \in pending
    BY DEF Reaching
  <2>2. MountOrder[stage] <= MountOrder["create"]
    BY <1>1, <2>1
  <2>3. QED BY <2>2 DEF MountOrder, Stages
<1>5. stage = "insert" => "remove" \notin pending
  <2> SUFFICES ASSUME stage = "insert", "remove" \in pending PROVE FALSE
    OBVIOUS
  <2>1. visit.prev # None
    BY DEF Reaching
  <2>2. UpdateOrder["insert"] <= UpdateOrder["remove"]
    BY <1>2, <2>1
  <2>3. QED BY <2>2 DEF UpdateOrder
<1>6. QED BY <1>3, <1>4, <1>5

\* What each opcode does to its own node.
LEMMA StageReaching ==
  ASSUME NEW node \in Optional(HostNode), NEW new \in Optional(HostNode),
         NEW p, NEW t \in Snapshot, NEW todo, NEW stage \in todo,
         Reaching(node, p, t, todo),
         stage # "create" => node # None,
         stage = "insert" => "remove" \notin todo,
         \/ /\ stage = "create"
            /\ new = IF node = None THEN NewNode(t.component)
                     ELSE [node EXCEPT !.component = t.component]
         \/ stage = "remove" /\ new = [node EXCEPT !.parent = None]
         \/ stage = "insert" /\ new = [node EXCEPT !.parent = t.parent]
         \/ stage = "move" /\ Alike(node, new)
         \/ stage = "text" /\ new = [node EXCEPT !.text = t.text]
         \/ stage = "prop" /\ new = [node EXCEPT !.prop = t.prop]
         \/ stage = "token" /\ new = [node EXCEPT !.token = t.token]
  PROVE  Reaching(new, p, t, todo \ {stage})
<1>1. node # None => node \in HostNode
  BY DEF Optional
<1>2. CASE stage = "create" /\ node = None
  <2>1. new = NewNode(t.component) /\ NewNode(t.component) \in HostNode
    BY <1>2 DEF NewNode, HostNode, Optional, Snapshot
  <2>2. new # None /\ new.component = t.component
    BY <2>1, NodeAssumption DEF NewNode
  <2>3. QED BY <1>2, <2>2 DEF Reaching
<1>3. CASE node # None
  <2>1. new # None
    <3>1. CASE stage = "move"
      BY <3>1, <1>3 DEF Alike
    <3>2. CASE stage # "move"
      <4>1. new \in HostNode
        BY <3>2, <1>1, <1>3 DEF HostNode, Optional, Snapshot
      <4>2. QED BY <4>1, NodeAssumption
    <3>3. QED BY <3>1, <3>2
  <2>2. /\ new.component = IF stage = "create" THEN t.component ELSE node.component
        /\ new.parent = IF stage = "remove" THEN None
                        ELSE IF stage = "insert" THEN t.parent ELSE node.parent
        /\ new.text = IF stage = "text" THEN t.text ELSE node.text
        /\ new.prop = IF stage = "prop" THEN t.prop ELSE node.prop
        /\ new.token = IF stage = "token" THEN t.token ELSE node.token
    <3>1. CASE stage = "move"
      BY <3>1, <1>3 DEF Alike
    <3>2. CASE stage # "move"
      BY <3>2, <1>1, <1>3 DEF HostNode
    <3>3. QED BY <3>1, <3>2
  <2>3. QED BY <1>3, <2>1, <2>2 DEF Reaching
<1>4. QED BY <1>2, <1>3

\* The opcode at hand changes its own node as the stage says and no other node,
\* but for lists of children.
LEMMA AppliedTree ==
  ASSUME screen \in Tree, visit \in VisitState, NEW stage \in Stages,
         Reaching(screen[visit.id], visit.prev, visit.target, pending),
         visit # None, Due(stage)
  PROVE  /\ Applied(stage) \in Tree
         /\ OthersAlike(screen, Applied(stage), visit.id)
         /\ Reaching(Applied(stage)[visit.id], visit.prev, visit.target, pending \ {stage})
<1> DEFINE id == visit.id
           t == visit.target
           p == visit.prev
           node == screen[id]
           host == Applied(stage)
<1>1. /\ id \in Ids /\ t \in Snapshot /\ p \in Optional(Snapshot)
      /\ node \in Optional(HostNode)
  BY DEF VisitState, Tree
<1>2. /\ t.component \in Components /\ t.parent \in Optional(Ids) /\ t.index \in Nat
      /\ t.text \in Optional(TextValues) /\ t.prop \in Optional(PropValues)
      /\ t.token \in Optional(Tokens)
  BY <1>1 DEF Snapshot
<1>3. /\ stage \in pending
      /\ stage # "create" => node # None
      /\ stage = "insert" => "remove" \notin pending
  BY DueStage
<1>4. /\ stage = "remove" => p # None /\ p.parent # None
      /\ stage \in {"insert", "move"} => t.parent # None
  BY <1>3 DEF Reaching
<1>5. /\ stage = "remove" => p.parent \in Ids
      /\ stage \in {"insert", "move"} => t.parent \in Ids
  BY <1>1, <1>2, <1>4 DEF Optional, Snapshot
<1> DEFINE Moved ==
         \/ /\ stage = "create"
            /\ host[id] = IF node = None THEN NewNode(t.component)
                          ELSE [node EXCEPT !.component = t.component]
         \/ stage = "remove" /\ host[id] = [node EXCEPT !.parent = None]
         \/ stage = "insert" /\ host[id] = [node EXCEPT !.parent = t.parent]
         \/ stage = "move" /\ Alike(node, host[id])
         \/ stage = "text" /\ host[id] = [node EXCEPT !.text = t.text]
         \/ stage = "prop" /\ host[id] = [node EXCEPT !.prop = t.prop]
         \/ stage = "token" /\ host[id] = [node EXCEPT !.token = t.token]
<1>6. host \in Tree /\ OthersAlike(screen, host, id) /\ Moved
  <2>1. CASE stage = "create"
    <3>1. host = CreateNode(screen, id, t.component)
      BY <2>1 DEF Applied
    <3>2. QED BY <2>1, <3>1, <1>1, <1>2, CreateTree
  <2>2. CASE stage = "remove"
    <3>1. host = RemoveChild(screen, p.parent, id)
      BY <2>2 DEF Applied
    <3>2. QED BY <2>2, <3>1, <1>1, <1>3, <1>5, RemoveTree
  <2>3. CASE stage = "insert"
    <3>1. host = InsertChild(screen, t.parent, id)
      BY <2>3 DEF Applied
    <3>2. QED BY <2>3, <3>1, <1>1, <1>3, <1>5, InsertTree
  <2>4. CASE stage = "move"
    <3>1. host = MoveChild(screen, t.parent, id, t.index)
      BY <2>4 DEF Applied
    <3>2. host \in Tree /\ \A i \in Ids : Alike(screen[i], host[i])
      BY <2>4, <3>1, <1>1, <1>2, <1>5, MoveTree
    <3> HIDE DEF host
    <3>3. QED BY <2>4, <3>2, <1>1 DEF OthersAlike
  <2>5. CASE stage = "text"
    <3>1. host = SetText(screen, id, t.text)
      BY <2>5 DEF Applied
    <3>2. QED BY <2>5, <3>1, <1>1, <1>2, <1>3, SetTree
  <2>6. CASE stage = "prop"
    <3>1. host = SetProperty(screen, id, t.prop)
      BY <2>6 DEF Applied
    <3>2. QED BY <2>6, <3>1, <1>1, <1>2, <1>3, SetTree
  <2>7. CASE stage = "token"
    <3>1. host = SetToken(screen, id, t.token)
      BY <2>7 DEF Applied
    <3>2. QED BY <2>7, <3>1, <1>1, <1>2, <1>3, SetTree
  <2>8. QED BY <2>1, <2>2, <2>3, <2>4, <2>5, <2>6, <2>7 DEF Stages
<1> HIDE DEF host
<1>7. host[id] \in Optional(HostNode)
  BY <1>1, <1>6 DEF Tree
<1>8. Reaching(host[id], p, t, pending \ {stage})
  <2> DEFINE new == host[id]
  <2>1. new \in Optional(HostNode)
    BY <1>7
  <2>2. \/ /\ stage = "create"
           /\ new = IF node = None THEN NewNode(t.component)
                    ELSE [node EXCEPT !.component = t.component]
        \/ stage = "remove" /\ new = [node EXCEPT !.parent = None]
        \/ stage = "insert" /\ new = [node EXCEPT !.parent = t.parent]
        \/ stage = "move" /\ Alike(node, new)
        \/ stage = "text" /\ new = [node EXCEPT !.text = t.text]
        \/ stage = "prop" /\ new = [node EXCEPT !.prop = t.prop]
        \/ stage = "token" /\ new = [node EXCEPT !.token = t.token]
    BY <1>6
  <2>3. Reaching(node, p, t, pending)
    OBVIOUS
  <2> HIDE DEF new, node, t, p
  <2>4. QED BY <1>1, <1>3, <2>1, <2>2, <2>3, StageReaching DEF new
<1>9. QED BY <1>6, <1>8 DEF host

\* One opcode of the node at hand.
LEMMA PushStep ==
  ASSUME EngineIInv, NEW stage \in Stages, PushOpcode(stage)
  PROVE  EngineIInv'
<1>1. /\ call = "emit" /\ visit # None /\ Due(stage) /\ stage \in pending
      /\ screen' = Applied(stage) /\ pending' = pending \ {stage}
      /\ UNCHANGED <<snapshot, cells, deps, call, walk, visited, visit, depsLeft, setting,
                     view, settled, refused, answer>>
  BY DEF PushOpcode, Due, engine, setProgress, history
<1>2. /\ screen \in Tree /\ visit \in VisitState
      /\ Reaching(screen[visit.id], visit.prev, visit.target, pending)
      /\ snapshot[visit.id] = None /\ visit.id \in Ids
  BY <1>1 DEF EngineIInv, EngineTypeOK, VisitInv, Tree, Optional, VisitState
<1>3. /\ screen' \in Tree
      /\ OthersAlike(screen, screen', visit.id)
      /\ Reaching(screen'[visit.id], visit.prev, visit.target, pending')
  BY <1>1, <1>2, AppliedTree
<1>4. \A m : Target(m)' = Target(m)
  BY <1>1 DEF Target, Resolved, Value
<1>5. EngineTypeOK'
  BY <1>1, <1>3 DEF EngineIInv, EngineTypeOK, Tree
<1>6. Truthful'
  <2> SUFFICES ASSUME NEW i \in Ids, snapshot[i] # None
               PROVE  Agrees(screen'[i], snapshot[i])
    BY <1>1 DEF Truthful
  <2>1. Agrees(screen[i], snapshot[i])
    BY DEF EngineIInv, Truthful
  <2>2. Alike(screen[i], screen'[i])
    BY <1>2, <1>3 DEF OthersAlike
  <2>3. QED BY <2>1, <2>2, AlikeAgree
<1>7. VisitInv'
  <2>1. Target(Head(walk))' = Target(Head(walk))
    BY <1>1, <1>4
  <2>2. QED BY <1>1, <1>2, <1>3, <2>1 DEF EngineIInv, VisitInv
<1>8. CallInv'
  BY <1>1 DEF EngineIInv, CallInv
<1>9. WalkInv' /\ ViewInv'
  BY <1>1, <1>4 DEF EngineIInv, WalkInv, ViewInv, Done
<1>10. SettledInv'
  BY <1>1 DEF EngineIInv, SettledInv
<1>11. QED BY <1>5, <1>6, <1>7, <1>8, <1>9, <1>10 DEF EngineIInv

\* With nothing pending the node has come to its target.
LEMMA Reached ==
  ASSUME NEW node, NEW p, NEW t, Reaching(node, p, t, {})
  PROVE  Agrees(node, t)
BY DEF Reaching, Agrees

\* A dependency list stays one.
LEMMA AddDepType ==
  ASSUME NEW ds \in [Signals -> Seq(Dep)], NEW s \in Optional(Signals), NEW d \in Dep
  PROVE  AddDep(ds, s, d) \in [Signals -> Seq(Dep)]
<1>1. CASE s = None \/ Holds(ds[s], d)
  BY <1>1 DEF AddDep
<1>2. CASE s # None /\ ~Holds(ds[s], d)
  <2>1. s \in Signals /\ Append(ds[s], d) \in Seq(Dep)
    BY <1>2 DEF Optional
  <2>2. AddDep(ds, s, d) = [ds EXCEPT ![s] = Append(ds[s], d)]
    BY <1>2 DEF AddDep
  <2>3. QED BY <2>1, <2>2
<1>3. QED BY <1>1, <1>2

\* The node is done: what the engine stores is what the screen shows.
LEMMA StoreStep ==
  ASSUME EngineIInv, StoreNode
  PROVE  EngineIInv'
<1> DEFINE n == Head(walk)
           t == Target(n)
<1>1. /\ call = "emit" /\ visit # None /\ pending = {} /\ walk # <<>>
      /\ visit.id = n.id /\ visit.target = t
      /\ Reaching(screen[n.id], visit.prev, t, {})
  BY DEF StoreNode, EngineIInv, VisitInv
<1>2. /\ walk \in Seq(ViewNode) /\ n \in ViewNode /\ n.id \in Ids /\ walk[1] = n
      /\ Len(walk) >= 1
  <2>1. walk \in Seq(ViewNode)
    BY DEF EngineIInv, EngineTypeOK
  <2>2. n \in ViewNode /\ walk[1] = n /\ Len(walk) >= 1
    BY <2>1, <1>1
  <2>3. QED BY <2>1, <2>2 DEF ViewNode
<1>3. t \in Snapshot
  BY <1>2, TargetType DEF EngineIInv
<1>4. /\ snapshot' = [snapshot EXCEPT ![n.id] = t]
      /\ walk' = Tail(walk) /\ visited' = visited \union {n.id} /\ visit' = None
      /\ UNCHANGED <<cells, call, pending, depsLeft, setting, screen, view, settled,
                     refused, answer>>
  BY <1>1 DEF StoreNode, setProgress, history
<1>5. deps' \in [Signals -> Seq(Dep)]
  <2>1. /\ n.textBinding \in Optional(Signals) /\ n.propBinding \in Optional(Signals)
        /\ [node |-> n.id, field |-> "text"] \in Dep
        /\ [node |-> n.id, field |-> "prop"] \in Dep
    BY <1>2 DEF ViewNode, Dep
  <2>2. deps \in [Signals -> Seq(Dep)]
    BY DEF EngineIInv, EngineTypeOK
  <2>3. AddDep(deps, n.textBinding, [node |-> n.id, field |-> "text"])
          \in [Signals -> Seq(Dep)]
    BY <2>1, <2>2, AddDepType
  <2>4. AddDep(AddDep(deps, n.textBinding, [node |-> n.id, field |-> "text"]),
               n.propBinding, [node |-> n.id, field |-> "prop"]) \in [Signals -> Seq(Dep)]
    BY <2>1, <2>3, AddDepType
  <2>5. QED BY <2>4 DEF StoreNode
<1>6. \A m : Target(m)' = Target(m)
  BY <1>4 DEF Target, Resolved, Value
<1>7. snapshot \in [Ids -> Optional(Snapshot)]
  BY DEF EngineIInv, EngineTypeOK
<1>8. /\ Done' = Done + 1 /\ Done \in Nat /\ Done + 1 \in 1 .. Len(view)
      /\ view[Done + 1] = n /\ Len(view) \in Nat
  <2>1. /\ Len(walk') = Len(walk) - 1 /\ Len(walk') \in Nat
        /\ Len(view) \in Nat /\ Len(walk) \in Nat
    BY <1>2, <1>4 DEF EngineIInv, EngineTypeOK
  <2>2. Done >= 0 /\ walk[1] = view[Done + 1]
    BY <1>1, <1>2 DEF EngineIInv, WalkInv
  <2>3. PICK a \in Nat : a = Len(view)
    BY ONLY <2>1
  <2>4. PICK b \in Nat : b = Len(walk)
    BY ONLY <2>1
  <2>5. PICK c \in Nat : c = Len(walk')
    BY ONLY <2>1
  <2>6. Done = a - b /\ c = b - 1 /\ b >= 1 /\ a - b >= 0
    BY <1>2, <2>1, <2>2, <2>3, <2>4, <2>5 DEF Done
  <2>7. Done' = a - c
    BY <1>4, <2>3, <2>5 DEF Done
  <2>8. /\ a - c = (a - b) + 1 /\ a - b \in Nat /\ (a - b) + 1 \in 1 .. a
    BY ONLY <2>6, a \in Nat, b \in Nat, c \in Nat
  <2>9. QED BY <2>2, <2>3, <2>6, <2>7, <2>8
<1>9. \A k \in 1 .. Len(view) :
        /\ view[k].id \in Ids
        /\ view[k].id = n.id => k = Done + 1 /\ view[k] = n
  <2> TAKE k \in 1 .. Len(view)
  <2>1. view[k] \in ViewNode
    BY DEF EngineIInv, EngineTypeOK
  <2>2. view[k].id \in Ids
    BY <2>1 DEF ViewNode
  <2>3. QED BY <1>8, <2>2 DEF EngineIInv, ViewInv
<1> HIDE DEF t, n
<1>10. EngineTypeOK'
  <2>1. walk' \in Seq(ViewNode) /\ visited' \subseteq Ids
    BY <1>1, <1>2, <1>4 DEF EngineIInv, EngineTypeOK
  <2>2. snapshot' \in [Ids -> Optional(Snapshot)]
    BY <1>3, <1>4, <1>7 DEF Optional
  <2>3. QED BY <1>4, <1>5, <2>1, <2>2 DEF EngineIInv, EngineTypeOK, Optional
<1>11. Truthful'
  <2> SUFFICES ASSUME NEW i \in Ids, snapshot'[i] # None
               PROVE  Agrees(screen[i], snapshot'[i])
    BY <1>4 DEF Truthful
  <2>1. CASE i = n.id
    BY <2>1, <1>1, <1>4, <1>7, Reached
  <2>2. CASE i # n.id
    BY <2>2, <1>4, <1>7 DEF EngineIInv, Truthful
  <2>3. QED BY <2>1, <2>2
<1>12. VisitInv' /\ CallInv'
  BY <1>1, <1>4 DEF EngineIInv, VisitInv, CallInv
<1>13. ViewInv'
  BY <1>4 DEF EngineIInv, ViewInv
<1>14. WalkInv'
  <2>1. \A k \in 1 .. Len(walk') : walk'[k] = view[Done' + k]
    <3> TAKE k \in 1 .. Len(walk')
    <3>1. k + 1 \in 1 .. Len(walk) /\ walk'[k] = walk[k + 1]
      BY <1>2, <1>4
    <3>2. walk[k + 1] = view[Done + (k + 1)]
      BY <3>1, <1>1 DEF EngineIInv, WalkInv
    <3>3. QED BY <3>1, <3>2, <1>8
  <2>2. visited' = {view[k].id : k \in 1 .. Done'}
    <3>1. visited = {view[k].id : k \in 1 .. Done}
      BY <1>1 DEF EngineIInv, WalkInv
    <3>2. visited' = {view[k].id : k \in 1 .. Done} \union {view[Done + 1].id}
      BY <3>1, <1>4, <1>8
    <3>3. QED BY <3>2, <1>8
  <2>3. \A k \in 1 .. Done' : snapshot'[view[k].id] = Target(view[k])
    <3> TAKE k \in 1 .. Done'
    <3>1. k \in 1 .. Len(view)
      BY <1>8
    <3>2. CASE view[k].id = n.id
      BY <3>1, <3>2, <1>2, <1>4, <1>7, <1>9 DEF t
    <3>3. CASE view[k].id # n.id
      <4>1. k \in 1 .. Done
        BY <3>3, <1>8
      <4>2. snapshot[view[k].id] = Target(view[k])
        BY <4>1, <1>1 DEF EngineIInv, WalkInv
      <4>3. QED BY <3>1, <3>3, <4>2, <1>4, <1>7, <1>9
    <3>4. QED BY <3>2, <3>3
  <2>4. view' = view
    BY <1>4
  <2>5. QED BY <1>6, <1>8, <2>1, <2>2, <2>3, <2>4 DEF WalkInv
<1>15. SettledInv'
  <2> SUFFICES ASSUME settled PROVE SettledInv'
    BY <1>4 DEF SettledInv
  <2>1. \A k \in 1 .. Len(view) : snapshot'[view[k].id] = Target(view[k])
    <3> TAKE k \in 1 .. Len(view)
    <3>1. CASE view[k].id = n.id
      BY <3>1, <1>2, <1>4, <1>7, <1>9 DEF t
    <3>2. CASE view[k].id # n.id
      <4>1. snapshot[view[k].id] = Target(view[k])
        BY <3>2, <1>1 DEF EngineIInv, SettledInv
      <4>2. QED BY <3>2, <4>1, <1>4, <1>7, <1>9
    <3>3. QED BY <3>1, <3>2
  <2>2. \A i \in Ids : snapshot'[i] # None => \E k \in 1 .. Len(view) : view[k].id = i
    <3> TAKE i \in Ids
    <3>1. CASE i = n.id
      BY <3>1, <1>8
    <3>2. CASE i # n.id
      BY <3>2, <1>4, <1>7 DEF EngineIInv, SettledInv
    <3>3. QED BY <3>1, <3>2
  <2>3. view' = view /\ pending' = {}
    BY <1>1, <1>4
  <2>4. QED BY <1>6, <2>1, <2>2, <2>3 DEF SettledInv
<1>16. QED BY <1>10, <1>11, <1>12, <1>13, <1>14, <1>15 DEF EngineIInv

\* A node the walk did not meet goes from screen and snapshots together.
LEMMA SweepStep ==
  ASSUME EngineIInv, NEW i \in Ids, Sweep(i)
  PROVE  EngineIInv'
<1>1. /\ call = "emit" /\ visit = None /\ walk = <<>> /\ snapshot[i] # None /\ i \notin visited
      /\ screen' = [screen EXCEPT ![i] = None] /\ snapshot' = [snapshot EXCEPT ![i] = None]
      /\ UNCHANGED <<cells, deps, call, walk, visited, visit, pending, depsLeft, setting,
                     view, settled, refused, answer>>
  BY DEF Sweep, Stale, DeleteNode, progress, setProgress, history
<1>2. /\ snapshot \in [Ids -> Optional(Snapshot)] /\ screen \in [Ids -> Optional(HostNode)]
      /\ Len(view) \in Nat
  BY DEF EngineIInv, EngineTypeOK
<1>3. \A m : Target(m)' = Target(m)
  BY <1>1 DEF Target, Resolved, Value
<1>4. Done = Len(view) /\ visited = {view[k].id : k \in 1 .. Len(view)}
  BY <1>1, <1>2 DEF EngineIInv, WalkInv, Done
<1>5. EngineTypeOK'
  <2>1. /\ snapshot' \in [Ids -> Optional(Snapshot)]
        /\ screen' \in [Ids -> Optional(HostNode)]
    BY <1>1, <1>2 DEF Optional
  <2>2. QED BY <1>1, <2>1 DEF EngineIInv, EngineTypeOK
<1>6. Truthful'
  BY <1>1, <1>2 DEF EngineIInv, Truthful
<1>7. VisitInv' /\ CallInv' /\ ViewInv'
  BY <1>1 DEF EngineIInv, VisitInv, CallInv, ViewInv
<1>8. WalkInv'
  <2>1. \A k \in 1 .. Done : snapshot'[view[k].id] = Target(view[k])
    <3> TAKE k \in 1 .. Done
    <3>1. view[k].id # i /\ view[k] \in ViewNode
      BY <1>1, <1>4 DEF EngineIInv, EngineTypeOK
    <3>2. view[k].id \in Ids
      BY <3>1 DEF ViewNode
    <3>3. snapshot[view[k].id] = Target(view[k])
      BY <1>1 DEF EngineIInv, WalkInv
    <3>4. QED BY <3>1, <3>2, <3>3, <1>1, <1>2
  <2>2. Done' = Done
    BY <1>1 DEF Done
  <2>3. QED BY <1>1, <1>3, <2>1, <2>2 DEF EngineIInv, WalkInv
<1>9. SettledInv'
  <2>1. ~settled
    BY <1>1, <1>4 DEF EngineIInv, SettledInv
  <2>2. QED BY <2>1, <1>1 DEF SettledInv
<1>10. QED BY <1>5, <1>6, <1>7, <1>8, <1>9 DEF EngineIInv

\* emit has returned Ok.
LEMMA ReturnStep ==
  ASSUME EngineIInv, EmitReturns
  PROVE  EngineIInv'
<1>1. /\ call = "emit" /\ visit = None /\ walk = <<>> /\ Stale = {}
      /\ call' = "none" /\ settled' = TRUE
      /\ UNCHANGED <<snapshot, cells, deps, walk, visited, visit, pending, depsLeft, setting,
                     screen, view, refused, answer>>
  BY DEF EmitReturns, engine, progress, setProgress
<1>2. Len(view) \in Nat
  BY DEF EngineIInv, EngineTypeOK
<1>3. \A m : Target(m)' = Target(m)
  BY <1>1 DEF Target, Resolved, Value
<1>4. Done = Len(view) /\ visited = {view[k].id : k \in 1 .. Len(view)}
  BY <1>1, <1>2 DEF EngineIInv, WalkInv, Done
<1>5. EngineTypeOK'
  <2>1. settled' \in BOOLEAN
    BY <1>1, Zenon
  <2>2. QED BY <1>1, <2>1 DEF EngineIInv, EngineTypeOK
<1>6. Truthful' /\ VisitInv' /\ CallInv' /\ ViewInv' /\ WalkInv'
  BY <1>1 DEF EngineIInv, Truthful, VisitInv, CallInv, ViewInv, WalkInv
<1>7. SettledInv'
  <2>1. pending' = {} /\ view' = view /\ snapshot' = snapshot
    BY <1>1 DEF EngineIInv, CallInv
  <2>2. \A k \in 1 .. Len(view) : snapshot[view[k].id] = Target(view[k])
    BY <1>1, <1>4 DEF EngineIInv, WalkInv
  <2>3. \A i \in Ids : snapshot[i] # None => \E k \in 1 .. Len(view) : view[k].id = i
    BY <1>1, <1>4 DEF Stale
  <2>4. QED BY <1>3, <2>1, <2>2, <2>3 DEF SettledInv
<1>8. QED BY <1>5, <1>6, <1>7 DEF EngineIInv

-----------------------------------------------------------------------------
(* Signals.                                                                  *)

\* A signal is created, or set to a new value: between calls.
LEMMA ValueStep ==
  ASSUME EngineIInv, NEW s \in Signals, NEW v \in SignalValues,
         CreateSignal(s, v) \/ SetSignal(s, v)
  PROVE  EngineIInv'
<1>1. /\ call = "none" /\ cells' = [cells EXCEPT ![s] = v] /\ settled' = FALSE
      /\ answer' = None
      /\ \/ call' = "none" /\ setting' = setting /\ depsLeft' = depsLeft
         \/ call' = "set" /\ setting' = s /\ depsLeft' = deps[s]
      /\ UNCHANGED <<snapshot, deps, walk, visited, visit, pending, screen, view, refused>>
  BY DEF CreateSignal, SetSignal, Idle, progress, setProgress
<1>2. EngineTypeOK'
  <2>1. cells' \in [Signals -> Optional(SignalValues)]
    BY <1>1 DEF EngineIInv, EngineTypeOK, Optional
  <2>2. settled' \in BOOLEAN
    BY <1>1, Zenon
  <2>3. depsLeft' \in Seq(Dep) /\ setting' \in Optional(Signals)
    BY <1>1 DEF EngineIInv, EngineTypeOK, Optional
  <2>4. answer' \in Optional(Signals) /\ call' \in {"none", "emit", "set"}
    BY <1>1 DEF Optional
  <2>5. QED BY <1>1, <2>1, <2>2, <2>3, <2>4 DEF EngineIInv, EngineTypeOK
<1>3. Truthful' /\ ViewInv'
  BY <1>1 DEF EngineIInv, Truthful, ViewInv
<1>4. visit = None /\ pending = {}
  BY <1>1 DEF EngineIInv, CallInv
<1>5. VisitInv' /\ WalkInv' /\ SettledInv'
  BY <1>1, <1>4 DEF VisitInv, WalkInv, SettledInv
<1>6. CallInv'
  BY <1>1, <1>4, EngineAssumption DEF CallInv
<1>7. QED BY <1>2, <1>3, <1>5, <1>6 DEF EngineIInv

\* The same value again.
LEMMA SameStep ==
  ASSUME EngineIInv, NEW s \in Signals, SetSame(s)
  PROVE  EngineIInv'
<1>1. /\ call = "none" /\ answer' = s
      /\ UNCHANGED <<snapshot, cells, deps, call, walk, visited, visit, pending, depsLeft,
                     setting, screen, view, settled, refused>>
  BY DEF SetSame, Idle, engine, progress, setProgress
<1>2. \A m : Target(m)' = Target(m)
  BY <1>1 DEF Target, Resolved, Value
<1>3. EngineTypeOK'
  BY <1>1 DEF EngineIInv, EngineTypeOK, Optional
<1>4. Truthful' /\ VisitInv' /\ CallInv' /\ ViewInv' /\ WalkInv'
  BY <1>1, <1>2 DEF EngineIInv, Truthful, VisitInv, CallInv, ViewInv, WalkInv
<1>5. SettledInv'
  BY <1>1, <1>2 DEF EngineIInv, SettledInv
<1>6. QED BY <1>3, <1>4, <1>5 DEF EngineIInv

\* A snapshot with a new value in one field.
FieldSet(s, field, new) ==
  LET noted == [s EXCEPT ![field] = new]
  IN  /\ noted \in Snapshot
      /\ noted.component = s.component /\ noted.parent = s.parent /\ noted.token = s.token
      /\ noted.text = IF field = "text" THEN new ELSE s.text
      /\ noted.prop = IF field = "prop" THEN new ELSE s.prop

\* Noting a value of a field's own kind in a snapshot leaves a snapshot.
LEMMA FieldOfSnapshot ==
  ASSUME NEW s \in Snapshot, NEW field \in {"text", "prop"}, NEW new,
         field = "text" => new \in Optional(TextValues),
         field = "prop" => new \in Optional(PropValues)
  PROVE  FieldSet(s, field, new)
<1>1. CASE field = "text"
  <2>1. FieldSet(s, "text", new)
    BY <1>1 DEF FieldSet, Snapshot
  <2>2. QED BY <1>1, <2>1
<1>2. CASE field = "prop"
  <2>1. FieldSet(s, "prop", new)
    BY <1>2 DEF FieldSet, Snapshot
  <2>2. QED BY <1>2, <2>1
<1>3. QED BY <1>1, <1>2

\* A dependency: the pushed value goes to the screen and to the snapshot.
LEMMA DepStep ==
  ASSUME EngineIInv, NextDep
  PROVE  EngineIInv'
<1> DEFINE d == Head(depsLeft)
           i == d.node
           new == DepNew(d)
<1>1. /\ call = "set" /\ depsLeft # <<>> /\ depsLeft' = Tail(depsLeft)
      /\ snapshot' = Noted(d)
      /\ screen' = IF ~DepPush(d) THEN screen
                   ELSE IF d.field = "text" THEN SetText(screen, i, new)
                   ELSE SetProperty(screen, i, new)
      /\ UNCHANGED <<cells, deps, call, walk, visited, visit, pending, setting, view,
                     settled, refused, answer>>
  BY DEF NextDep, progress, history
<1>2. /\ snapshot \in [Ids -> Optional(Snapshot)] /\ screen \in Tree
      /\ depsLeft \in Seq(Dep) /\ visit = None /\ ~settled
  BY <1>1 DEF EngineIInv, EngineTypeOK, CallInv, Tree
<1>3. d \in Dep /\ i \in Ids /\ d.field \in {"text", "prop"} /\ Tail(depsLeft) \in Seq(Dep)
  <2>1. d \in Dep /\ Tail(depsLeft) \in Seq(Dep)
    BY <1>1, <1>2
  <2>2. QED BY <2>1 DEF Dep
<1>4. /\ d.field = "text" => new \in Optional(TextValues)
      /\ d.field = "prop" => new \in Optional(PropValues)
  BY <1>3 DEF DepNew, DepKind, Value, Optional
<1>5. /\ new = DepNew(d) /\ DepOld(d) = IF snapshot[i] = None THEN None ELSE snapshot[i][d.field]
      /\ DepPush(d) <=> new # DepOld(d) /\ new # None
      /\ Noted(d) = IF snapshot[i] = None THEN snapshot
                    ELSE [snapshot EXCEPT ![i] = [snapshot[i] EXCEPT ![d.field] = new]]
  BY DEF DepOld, DepPush, Noted
<1> HIDE DEF new, d
<1>6. /\ screen' \in Tree
      /\ OthersAlike(screen, screen', i)
      /\ screen'[i] = IF ~DepPush(d) \/ screen[i] = None THEN screen[i]
                      ELSE IF d.field = "text" THEN [screen[i] EXCEPT !.text = new]
                      ELSE [screen[i] EXCEPT !.prop = new]
  <2>1. CASE ~DepPush(d)
    BY <2>1, <1>1, <1>2 DEF OthersAlike, Alike
  <2>2. CASE DepPush(d) /\ d.field = "text"
    BY <2>2, <1>1, <1>2, <1>3, <1>4, SetTree
  <2>3. CASE DepPush(d) /\ d.field = "prop"
    BY <2>3, <1>1, <1>2, <1>3, <1>4, SetTree
  <2>4. QED BY <1>3, <2>1, <2>2, <2>3
<1>7. snapshot[i] # None => FieldSet(snapshot[i], d.field, new)
  <2> SUFFICES ASSUME snapshot[i] # None PROVE FieldSet(snapshot[i], d.field, new)
    OBVIOUS
  <2>1. snapshot[i] \in Snapshot
    BY <1>2, <1>3 DEF Optional
  <2>2. QED BY <2>1, <1>3, <1>4, FieldOfSnapshot
<1>8. snapshot' \in [Ids -> Optional(Snapshot)]
  BY <1>1, <1>2, <1>3, <1>5, <1>7 DEF Optional, FieldSet
<1>9. EngineTypeOK'
  BY <1>1, <1>3, <1>6, <1>8 DEF EngineIInv, EngineTypeOK, Tree
<1>10. Truthful'
  <2> SUFFICES ASSUME NEW j \in Ids, snapshot'[j] # None
               PROVE  Agrees(screen'[j], snapshot'[j])
    BY DEF Truthful
  <2>1. CASE j # i
    <3>1. snapshot'[j] = snapshot[j]
      BY <2>1, <1>1, <1>2, <1>5
    <3>2. Agrees(screen[j], snapshot[j])
      BY <3>1 DEF EngineIInv, Truthful
    <3>3. Alike(screen[j], screen'[j])
      BY <2>1, <1>6 DEF OthersAlike
    <3>4. QED BY <3>1, <3>2, <3>3, AlikeAgree
  <2>2. CASE j = i
    <3> DEFINE old == snapshot[i]
               s == [snapshot[i] EXCEPT ![d.field] = new]
               node == screen[i]
               shown == screen'[i]
    <3>1. old # None /\ snapshot'[i] = s
      BY <2>2, <1>1, <1>2, <1>3, <1>5
    <3>2. Agrees(node, old)
      BY <3>1, <1>3 DEF EngineIInv, Truthful
    <3>3. node # None /\ node \in HostNode
      BY <3>2, <1>2, <1>3 DEF Agrees, Tree, Optional
    <3>4. /\ s.component = old.component /\ s.parent = old.parent /\ s.token = old.token
          /\ s.text = IF d.field = "text" THEN new ELSE old.text
          /\ s.prop = IF d.field = "prop" THEN new ELSE old.prop
      BY <3>1, <1>7 DEF FieldSet
    <3>5. /\ shown # None /\ shown.component = node.component /\ shown.parent = node.parent
          /\ shown.token = node.token
          /\ shown.text = IF DepPush(d) /\ d.field = "text" THEN new ELSE node.text
          /\ shown.prop = IF DepPush(d) /\ d.field # "text" THEN new ELSE node.prop
      <4>1. [node EXCEPT !.text = new] # None \/ ~(DepPush(d) /\ d.field = "text")
        <5>1. CASE DepPush(d) /\ d.field = "text"
          <6>1. [node EXCEPT !.text = new] \in HostNode
            BY <5>1, <3>3, <1>4 DEF HostNode
          <6>2. QED BY <6>1, NodeAssumption
        <5>2. QED BY <5>1
      <4>2. [node EXCEPT !.prop = new] # None \/ ~(DepPush(d) /\ d.field = "prop")
        <5>1. CASE DepPush(d) /\ d.field = "prop"
          <6>1. [node EXCEPT !.prop = new] \in HostNode
            BY <5>1, <3>3, <1>4 DEF HostNode
          <6>2. QED BY <6>1, NodeAssumption
        <5>2. QED BY <5>1
      <4>3. shown = IF ~DepPush(d) THEN node
                    ELSE IF d.field = "text" THEN [node EXCEPT !.text = new]
                    ELSE [node EXCEPT !.prop = new]
        BY <3>3, <1>6
      <4> HIDE DEF shown
      <4>4. QED BY <4>1, <4>2, <4>3, <3>3, <1>3 DEF HostNode
    <3>6. DepPush(d) <=> new # old[d.field] /\ new # None
      BY <3>1, <1>5
    <3>7. /\ d.field = "text" => old[d.field] = old.text
          /\ d.field = "prop" => old[d.field] = old.prop
      OBVIOUS
    <3> HIDE DEF old, s, node, shown
    <3>8. Agrees(shown, s)
      BY <3>2, <3>4, <3>5, <3>6, <3>7, <1>3 DEF Agrees
    <3>9. QED BY <2>2, <3>1, <3>8 DEF shown
  <2>3. QED BY <2>1, <2>2
<1>11. VisitInv' /\ CallInv' /\ ViewInv' /\ WalkInv' /\ SettledInv'
  BY <1>1, <1>2 DEF EngineIInv, VisitInv, CallInv, ViewInv, WalkInv, SettledInv
<1>12. QED BY <1>9, <1>10, <1>11 DEF EngineIInv

\* set_signal has returned Ok.
LEMMA SetReturnStep ==
  ASSUME EngineIInv, SetReturns
  PROVE  EngineIInv'
<1>1. /\ call = "set" /\ call' = "none" /\ setting' = None /\ answer' = setting
      /\ UNCHANGED <<snapshot, cells, deps, walk, visited, visit, pending, depsLeft,
                     screen, view, settled, refused>>
  BY DEF SetReturns, engine, progress
<1>2. visit = None /\ ~settled
  BY <1>1 DEF EngineIInv, CallInv
<1>3. EngineTypeOK'
  BY <1>1 DEF EngineIInv, EngineTypeOK, Optional
<1>4. Truthful' /\ VisitInv' /\ CallInv' /\ ViewInv' /\ WalkInv' /\ SettledInv'
  BY <1>1, <1>2 DEF EngineIInv, Truthful, VisitInv, CallInv, ViewInv, WalkInv, SettledInv
<1>5. QED BY <1>3, <1>4 DEF EngineIInv

\* A push is refused and the call gives up.
LEMMA RefuseStep ==
  ASSUME EngineIInv, Refuse
  PROVE  EngineIInv'
<1>1. /\ call' = "none" /\ refused' = TRUE /\ settled' = FALSE
      /\ walk' = <<>> /\ visited' = {} /\ visit' = None /\ pending' = {}
      /\ depsLeft' = <<>> /\ setting' = None
      /\ UNCHANGED <<snapshot, cells, deps, screen, view, answer>>
  BY DEF Refuse, engine
<1>2. EngineTypeOK'
  <2>1. settled' \in BOOLEAN /\ refused' \in BOOLEAN
    BY <1>1, Zenon
  <2>2. QED BY <1>1, <2>1 DEF EngineIInv, EngineTypeOK, Optional
<1>3. Truthful' /\ ViewInv'
  BY <1>1 DEF EngineIInv, Truthful, ViewInv
<1>4. VisitInv' /\ CallInv' /\ WalkInv' /\ SettledInv'
  BY <1>1 DEF VisitInv, CallInv, WalkInv, SettledInv
<1>5. QED BY <1>2, <1>3, <1>4 DEF EngineIInv

-----------------------------------------------------------------------------
(* The theorems.                                                             *)

\* The invariant holds throughout: one lemma above per action.
LEMMA EngineInductive == EngineSpec => []EngineIInv
<1>1. EngineIInv /\ [EngineNext]_engineVars => EngineIInv'
  <2> SUFFICES ASSUME EngineIInv, [EngineNext]_engineVars PROVE EngineIInv'
    OBVIOUS
  <2>1. CASE EngineNext
    <3>1. ASSUME NEW v \in Views, Emit(v) PROVE EngineIInv'
      BY <3>1, EmitStep
    <3>2. CASE Visit
      BY <3>2, VisitStep
    <3>3. ASSUME NEW stage \in Stages, PushOpcode(stage) PROVE EngineIInv'
      BY <3>3, PushStep
    <3>4. CASE StoreNode
      BY <3>4, StoreStep
    <3>5. ASSUME NEW i \in Ids, Sweep(i) PROVE EngineIInv'
      BY <3>5, SweepStep
    <3>6. CASE EmitReturns
      BY <3>6, ReturnStep
    <3>7. ASSUME NEW s \in Signals, NEW v \in SignalValues,
                 CreateSignal(s, v) \/ SetSignal(s, v)
          PROVE  EngineIInv'
      BY <3>7, ValueStep
    <3>8. ASSUME NEW s \in Signals, SetSame(s) PROVE EngineIInv'
      BY <3>8, SameStep
    <3>9. CASE NextDep
      BY <3>9, DepStep
    <3>10. CASE SetReturns
      BY <3>10, SetReturnStep
    <3>11. CASE Refuse
      BY <3>11, RefuseStep
    <3>12. QED
      BY <2>1, <3>1, <3>2, <3>3, <3>4, <3>5, <3>6, <3>7, <3>8, <3>9, <3>10, <3>11
         DEF EngineNext
  <2>2. CASE UNCHANGED engineVars
    <3>1. UNCHANGED <<snapshot, cells, deps, call, walk, visited, visit, pending, depsLeft,
                      setting, screen, view, settled, refused, answer>>
      BY <2>2 DEF engineVars, engine, progress, setProgress, history
    <3>2. \A m : Target(m)' = Target(m)
      BY <3>1 DEF Target, Resolved, Value
    <3>3. EngineTypeOK'
      BY <3>1 DEF EngineIInv, EngineTypeOK
    <3>4. Truthful' /\ CallInv' /\ ViewInv' /\ WalkInv' /\ SettledInv'
      BY <3>1, <3>2 DEF EngineIInv, Truthful, CallInv, ViewInv, WalkInv, Done, SettledInv
    <3>5. VisitInv'
      BY <3>1, <3>2 DEF EngineIInv, VisitInv
    <3>6. QED BY <3>3, <3>4, <3>5 DEF EngineIInv
  <2>3. QED BY <2>1, <2>2
<1>2. QED BY <1>1, EngineInitIInv, PTL DEF EngineSpec

\* EngineTypeOK is an invariant: every variable of the engine keeps its type.
THEOREM EngineTypeCorrect == EngineSpec => []EngineTypeOK
<1>1. EngineIInv => EngineTypeOK
  BY DEF EngineIInv
<1>2. QED BY <1>1, EngineInductive, PTL

\* Truthful is an invariant: whatever a refused push stops half-way, every
\* snapshot the engine keeps (engine.rs) is on the renderer's screen.
THEOREM SnapshotTruthful == EngineSpec => []Truthful
<1>1. EngineIInv => Truthful
  BY DEF EngineIInv
<1>2. QED BY <1>1, EngineInductive, PTL

\* ViewOnScreen is an invariant: an emit that returns Ok has brought every node
\* of its tree to the screen, whatever earlier calls left behind.
THEOREM ViewShown == EngineSpec => []ViewOnScreen
<1>1. EngineIInv => ViewOnScreen
  <2> SUFFICES ASSUME EngineIInv, settled, call = "none", NEW k \in 1 .. Len(view)
               PROVE  Agrees(screen[view[k].id], Target(view[k]))
    BY DEF ViewOnScreen, Idle
  <2>1. view[k] \in ViewNode
    BY DEF EngineIInv, EngineTypeOK
  <2>2. view[k].id \in Ids
    BY <2>1 DEF ViewNode
  <2>3. snapshot[view[k].id] = Target(view[k])
    BY DEF EngineIInv, CallInv, SettledInv
  <2>4. Target(view[k]) \in Snapshot
    BY <2>1, TargetType DEF EngineIInv
  <2>5. snapshot[view[k].id] # None
    BY <2>3, <2>4, SnapshotAssumption
  <2>6. QED BY <2>2, <2>3, <2>5 DEF EngineIInv, Truthful
<1>2. QED BY <1>1, EngineInductive, PTL

\* UnchangedEmitsNothing is an invariant: emitting a settled tree again pushes no
\* opcode and deletes no node (engine.rs, reconcile_node and the sweep of emit).
THEOREM SteadyState == EngineSpec => []UnchangedEmitsNothing
<1>1. EngineIInv => UnchangedEmitsNothing
  <2> SUFFICES ASSUME EngineIInv, settled PROVE ~Pushing
    BY DEF UnchangedEmitsNothing
  <2>1. pending = {} /\ call # "set"
    BY DEF EngineIInv, SettledInv, CallInv
  <2>2. ASSUME call = "emit", walk = <<>> PROVE Stale = {}
    <3>1. Done = Len(view) /\ visited = {view[k].id : k \in 1 .. Len(view)}
      BY <2>2 DEF EngineIInv, EngineTypeOK, WalkInv, Done
    <3>2. QED BY <3>1 DEF Stale, EngineIInv, SettledInv
  <2>3. QED BY <2>1, <2>2 DEF Pushing
<1>2. QED BY <1>1, EngineInductive, PTL

-----------------------------------------------------------------------------
(* What is on the screen, and where.                                         *)

\* i is on the screen's list of the children of p.
Listed(host, p, i) == host[p] # None /\ Holds(host[p].children, i)

\* No child but c is taken off a list.
KeepsLists(host, new, c) ==
  \A p \in Ids : \A i \in Ids \ {c} : Listed(host, p, i) => Listed(new, p, i)

\* A part of a list has what the list has at its places.
LEMMA PartHolds ==
  ASSUME NEW list \in Seq(Ids), NEW m \in 0 .. Len(list), NEW k \in 1 .. Len(list)
  PROVE  /\ SubSeq(list, 1, m) \in Seq(Ids)
         /\ SubSeq(list, m + 1, Len(list)) \in Seq(Ids)
         /\ k <= m => Holds(SubSeq(list, 1, m), list[k])
         /\ k > m => Holds(SubSeq(list, m + 1, Len(list)), list[k])
<1> DEFINE before == SubSeq(list, 1, m)
           after == SubSeq(list, m + 1, Len(list))
<1>1. /\ before \in Seq(Ids) /\ Len(before) = m
      /\ \A j \in 1 .. m : before[j] = list[j]
  OBVIOUS
<1>2. /\ after \in Seq(Ids) /\ Len(after) = Len(list) - m
      /\ \A j \in 1 .. Len(list) - m : after[j] = list[m + j]
  OBVIOUS
<1> HIDE DEF before, after
<1>3. k <= m => Holds(before, list[k])
  BY <1>1 DEF Holds
<1>4. ASSUME k > m PROVE Holds(after, list[k])
  <2>1. k - m \in 1 .. Len(after) /\ m + (k - m) = k
    BY <1>2, <1>4
  <2>2. after[k - m] = list[k]
    BY <2>1, <1>2
  <2>3. QED BY <2>1, <2>2 DEF Holds
<1>5. QED BY <1>1, <1>2, <1>3, <1>4 DEF before, after

\* Two lists joined have what either has.
LEMMA JoinedHolds ==
  ASSUME NEW a \in Seq(Ids), NEW b \in Seq(Ids), NEW i
  PROVE  /\ a \o b \in Seq(Ids)
         /\ Holds(a, i) \/ Holds(b, i) => Holds(a \o b, i)
<1>1. /\ a \o b \in Seq(Ids) /\ Len(a \o b) = Len(a) + Len(b)
      /\ \A k \in 1 .. Len(a) : (a \o b)[k] = a[k]
      /\ \A k \in 1 .. Len(b) : (a \o b)[Len(a) + k] = b[k]
  OBVIOUS
<1>2. Len(a) \in Nat /\ Len(b) \in Nat
  OBVIOUS
<1>3. ASSUME Holds(a, i) PROVE Holds(a \o b, i)
  <2>1. PICK k \in 1 .. Len(a) : a[k] = i
    BY <1>3 DEF Holds
  <2>2. k \in 1 .. Len(a \o b) /\ (a \o b)[k] = i
    BY <2>1, <1>1, <1>2
  <2>3. QED BY <2>2 DEF Holds
<1>4. ASSUME Holds(b, i) PROVE Holds(a \o b, i)
  <2>1. PICK k \in 1 .. Len(b) : b[k] = i
    BY <1>4 DEF Holds
  <2>2. Len(a) + k \in 1 .. Len(a \o b) /\ (a \o b)[Len(a) + k] = i
    BY <2>1, <1>1, <1>2
  <2>3. QED BY <2>2 DEF Holds
<1>5. QED BY <1>1, <1>3, <1>4

\* A list in which nothing is twice.
Once(list) == \A i, j \in 1 .. Len(list) : list[i] = list[j] => i = j

\* What a list without c holds.
LEMMA WithoutOne ==
  ASSUME NEW list \in Seq(Ids), NEW c
  PROVE  /\ Without(list, c) \in Seq(Ids)
         /\ \A x : Holds(Without(list, c), x) => Holds(list, x)
         /\ \A x : x # c /\ Holds(list, x) => Holds(Without(list, c), x)
         /\ Once(list) => Once(Without(list, c)) /\ ~Holds(Without(list, c), c)
<1>1. CASE ~Holds(list, c)
  BY <1>1 DEF Without
<1>2. CASE Holds(list, c)
  <2> DEFINE at == CHOOSE k \in 1 .. Len(list) : list[k] = c
             fst == SubSeq(list, 1, at - 1)
             snd == SubSeq(list, at + 1, Len(list))
             w == fst \o snd
  <2>1. at \in 1 .. Len(list) /\ list[at] = c
    BY <1>2 DEF Holds
  <2>2. Without(list, c) = w
    BY <1>2 DEF Without
  <2> HIDE DEF at
  <2>3. /\ fst \in Seq(Ids) /\ Len(fst) = at - 1
        /\ \A i \in 1 .. at - 1 : fst[i] = list[i]
    BY <2>1
  <2>4. /\ snd \in Seq(Ids) /\ Len(snd) = Len(list) - at
        /\ \A i \in 1 .. Len(list) - at : snd[i] = list[at + i]
    BY <2>1
  <2> HIDE DEF fst, snd
  <2>5. /\ w \in Seq(Ids) /\ Len(w) = Len(list) - 1
        /\ \A i \in 1 .. Len(w) : w[i] = IF i < at THEN list[i] ELSE list[i + 1]
    <3>1. fst \in Seq(Ids) /\ snd \in Seq(Ids)
      BY <2>3, <2>4
    <3>2. /\ w \in Seq(Ids) /\ Len(w) = Len(fst) + Len(snd)
          /\ \A i \in 1 .. Len(fst) + Len(snd) :
               w[i] = IF i <= Len(fst) THEN fst[i] ELSE snd[i - Len(fst)]
      BY <3>1, SMTT(30)
    <3> HIDE DEF w
    <3>3. ASSUME NEW i \in 1 .. Len(w), i < at PROVE w[i] = list[i]
      BY <2>1, <2>3, <2>4, <3>2, <3>3
    <3>4. ASSUME NEW i \in 1 .. Len(w), ~(i < at) PROVE w[i] = list[i + 1]
      <4> DEFINE k == i - Len(fst)
      <4>1. /\ Len(list) \in Nat /\ at \in 1 .. Len(list) /\ i \in Nat /\ i >= at
            /\ i <= Len(list) - 1 /\ Len(fst) = at - 1
        BY <2>1, <2>3, <2>4, <3>2, <3>4
      <4>2. k \in 1 .. Len(list) - at /\ at + k = i + 1 /\ ~(i <= Len(fst))
        BY <4>1
      <4>3. w[i] = snd[k]
        BY <3>2, <4>2
      <4>4. snd[k] = list[at + k]
        BY <2>4, <4>2
      <4>5. QED BY <4>2, <4>3, <4>4
    <3>5. QED BY <2>1, <2>3, <2>4, <3>2, <3>3, <3>4
  <2> HIDE DEF w
  <2>6. \A x : Holds(w, x) => Holds(list, x)
    BY <2>1, <2>5 DEF Holds
  <2>7. ASSUME NEW x, x # c, Holds(list, x) PROVE Holds(w, x)
    <3>1. PICK i \in 1 .. Len(list) : list[i] = x
      BY <2>7 DEF Holds
    <3>2. CASE i < at
      <4>1. i \in 1 .. Len(w) /\ w[i] = x
        BY <2>1, <2>5, <3>1, <3>2
      <4>2. QED BY <4>1 DEF Holds
    <3>3. CASE i > at
      <4>1. i - 1 \in 1 .. Len(w) /\ w[i - 1] = x
        BY <2>1, <2>5, <3>1, <3>3
      <4>2. QED BY <4>1 DEF Holds
    <3>4. QED BY <2>1, <2>7, <3>1, <3>2, <3>3
  <2>8. ASSUME Once(list) PROVE Once(w) /\ ~Holds(w, c)
    <3>1. ASSUME NEW i \in 1 .. Len(w), NEW j \in 1 .. Len(w), w[i] = w[j]
          PROVE  i = j
      BY <2>1, <2>5, <2>8, <3>1 DEF Once
    <3>2. ASSUME NEW i \in 1 .. Len(w), w[i] = c PROVE FALSE
      BY <2>1, <2>5, <2>8, <3>2 DEF Once
    <3>3. QED BY <3>1, <3>2 DEF Once, Holds
  <2>9. QED BY <2>2, <2>5, <2>6, <2>7, <2>8
<1>3. QED BY <1>1, <1>2

\* What a list holds into which c has been put.
LEMMA InsertedOne ==
  ASSUME NEW list \in Seq(Ids), NEW c \in Ids, NEW k \in Nat
  PROVE  /\ InsertedAt(list, k, c) \in Seq(Ids)
         /\ \A x : Holds(InsertedAt(list, k, c), x) <=> Holds(list, x) \/ x = c
         /\ Once(list) /\ ~Holds(list, c) => Once(InsertedAt(list, k, c))
<1> DEFINE at == IF k < Len(list) THEN k ELSE Len(list)
           fst == SubSeq(list, 1, at)
           snd == SubSeq(list, at + 1, Len(list))
           u == fst \o <<c>>
           w == u \o snd
<1>1. at \in 0 .. Len(list) OBVIOUS
<1>2. InsertedAt(list, k, c) = w BY DEF InsertedAt
<1> HIDE DEF at
<1>3. fst \in Seq(Ids) /\ Len(fst) = at /\ \A i \in 1 .. at : fst[i] = list[i]
  BY <1>1
<1>4. /\ snd \in Seq(Ids) /\ Len(snd) = Len(list) - at
      /\ \A i \in 1 .. Len(list) - at : snd[i] = list[at + i]
  BY <1>1
<1> HIDE DEF fst, snd
<1>5. u \in Seq(Ids) /\ Len(u) = at + 1 /\ \A i \in 1 .. at + 1 : u[i] = IF i <= at THEN list[i] ELSE c
  <2>1. fst \in Seq(Ids) /\ <<c>> \in Seq(Ids) /\ Len(<<c>>) = 1 /\ <<c>>[1] = c BY <1>3
  <2>2. u \in Seq(Ids) /\ Len(u) = Len(fst) + 1
        /\ \A i \in 1 .. Len(fst) + 1 : u[i] = IF i <= Len(fst) THEN fst[i] ELSE c
    BY <2>1
  <2> HIDE DEF u
  <2>3. QED BY <2>2, <1>3, <1>1
<1> HIDE DEF u
<1>6. /\ w \in Seq(Ids) /\ Len(w) = Len(u) + Len(snd)
      /\ \A i \in 1 .. Len(u) + Len(snd) :
           w[i] = IF i <= Len(u) THEN u[i] ELSE snd[i - Len(u)]
  BY <1>4, <1>5, SMTT(30)
<1> HIDE DEF w
<1>7. Len(w) = Len(list) + 1 BY <1>1, <1>4, <1>5, <1>6
<1>8. /\ \A i \in 1 .. at : w[i] = list[i]
      /\ w[at + 1] = c
      /\ \A i \in at + 1 .. Len(list) : w[i + 1] = list[i]
  <2>1. at \in Nat /\ Len(list) \in Nat /\ at <= Len(list) BY <1>1
  <2>2. ASSUME NEW i \in 1 .. at PROVE w[i] = list[i]
    <3>1. i \in 1 .. Len(u) + Len(snd) /\ i <= Len(u) /\ i \in 1 .. at + 1
      BY <2>1, <1>4, <1>5
    <3>2. QED BY <1>5, <1>6, <3>1
  <2>3. w[at + 1] = c
    <3>1. at + 1 \in 1 .. Len(u) + Len(snd) /\ at + 1 <= Len(u) /\ at + 1 \in 1 .. at + 1
      BY <2>1, <1>4, <1>5
    <3>2. QED BY <1>5, <1>6, <2>1, <3>1
  <2>4. ASSUME NEW i \in at + 1 .. Len(list) PROVE w[i + 1] = list[i]
    <3>1. /\ i + 1 \in 1 .. Len(u) + Len(snd) /\ ~(i + 1 <= Len(u))
          /\ (i + 1) - Len(u) = i - at /\ i - at \in 1 .. Len(list) - at /\ at + (i - at) = i
      BY <2>1, <1>4, <1>5
    <3>2. w[i + 1] = snd[i - at] BY <1>6, <3>1
    <3>3. snd[i - at] = list[at + (i - at)] BY <1>4, <3>1
    <3>4. QED BY <3>1, <3>2, <3>3
  <2>5. QED BY <2>2, <2>3, <2>4
<1>9. \A j \in 1 .. Len(w) : j \in 1 .. at \/ j = at + 1 \/ (j - 1 \in at + 1 .. Len(list) /\ (j - 1) + 1 = j)
  BY <1>1, <1>7
<1>10. ASSUME NEW x, Holds(w, x) PROVE Holds(list, x) \/ x = c
  <2>1. PICK j \in 1 .. Len(w) : w[j] = x BY <1>10 DEF Holds
  <2>2. CASE j \in 1 .. at
    <3>1. j \in 1 .. Len(list) BY <1>1, <2>2
    <3>2. QED BY <1>8, <2>1, <2>2, <3>1 DEF Holds
  <2>3. CASE j = at + 1 BY <1>8, <2>1, <2>3
  <2>4. CASE j - 1 \in at + 1 .. Len(list) /\ (j - 1) + 1 = j
    <3>1. j - 1 \in 1 .. Len(list) BY <1>1, <2>4
    <3>2. list[j - 1] = x BY <1>8, <2>1, <2>4
    <3>3. QED BY <3>1, <3>2 DEF Holds
  <2>5. QED BY <1>9, <2>2, <2>3, <2>4
<1>11. ASSUME NEW x, Holds(list, x) \/ x = c PROVE Holds(w, x)
  <2>1. CASE x = c
    <3>1. at + 1 \in 1 .. Len(w) BY <1>1, <1>7
    <3>2. QED BY <1>8, <2>1, <3>1 DEF Holds
  <2>2. CASE Holds(list, x)
    <3>1. PICK i \in 1 .. Len(list) : list[i] = x BY <2>2 DEF Holds
    <3>2. CASE i \in 1 .. at
      <4>1. i \in 1 .. Len(w) BY <1>7
      <4>2. QED BY <1>8, <3>1, <3>2, <4>1 DEF Holds
    <3>3. CASE i \notin 1 .. at
      <4>1. i \in at + 1 .. Len(list) /\ i + 1 \in 1 .. Len(w) BY <1>1, <1>7, <3>3
      <4>2. QED BY <1>8, <3>1, <4>1 DEF Holds
    <3>4. QED BY <3>2, <3>3
  <2>3. QED BY <1>11, <2>1, <2>2
<1>12. ASSUME Once(list), ~Holds(list, c) PROVE Once(w)
  <2> DEFINE Was(j) == IF j <= at THEN j ELSE j - 1
  <2>1. ASSUME NEW j \in 1 .. Len(w), j # at + 1
        PROVE  Was(j) \in 1 .. Len(list) /\ w[j] = list[Was(j)]
    <3>1. CASE j \in 1 .. at
      <4>1. j \in 1 .. Len(list) /\ Was(j) = j BY <1>1, <3>1
      <4>2. QED BY <1>8, <3>1, <4>1
    <3>2. CASE j \notin 1 .. at
      <4>1. j - 1 \in at + 1 .. Len(list) /\ (j - 1) + 1 = j /\ ~(j <= at) BY <1>1, <1>7, <2>1, <3>2
      <4>2. w[j] = list[j - 1] BY <1>8, <4>1
      <4>3. j - 1 \in 1 .. Len(list) BY <1>1, <4>1
      <4>4. QED BY <4>1, <4>2, <4>3
    <3>3. QED BY <3>1, <3>2
  <2>2. \A j \in 1 .. Len(w) : j # at + 1 => w[j] # c BY <1>12, <2>1 DEF Holds
  <2>3. ASSUME NEW i \in 1 .. Len(w), NEW j \in 1 .. Len(w), w[i] = w[j] PROVE i = j
    <3>1. CASE i = at + 1 \/ j = at + 1 BY <1>8, <2>2, <2>3, <3>1
    <3>2. CASE i # at + 1 /\ j # at + 1
      <4>1. Was(i) = Was(j) BY <1>12, <2>1, <2>3, <3>2 DEF Once
      <4>2. QED BY <1>1, <3>2, <4>1
    <3>3. QED BY <3>1, <3>2
  <2>4. QED BY <2>3 DEF Once
<1>13. QED BY <1>2, <1>6, <1>10, <1>11, <1>12

\* Relinking replaces one list; if that one keeps its elements, every list does.
LEMMA RelinkedLists ==
  ASSUME NEW host \in Tree, NEW p \in Ids, NEW list \in Seq(Ids), NEW c \in Ids,
         NEW q \in Optional(Ids),
         \A i \in Ids \ {c} : Holds(ChildrenOf(host, p), i) => Holds(list, i)
  PROVE  LET new == Relinked(host, p, list, c, q)
         IN  /\ KeepsLists(host, new, c)
             /\ host[p] # None /\ p # c /\ Holds(list, c) => Listed(new, p, c)
<1> DEFINE new == Relinked(host, p, list, c, q)
<1>1. \A i \in Ids : host[i] # None => host[i] \in HostNode
  BY DEF Tree, Optional
<1>2. \A n \in HostNode :
        /\ [n EXCEPT !.parent = q] \in HostNode
        /\ [n EXCEPT !.parent = q].children = n.children
        /\ [n EXCEPT !.children = list] \in HostNode
        /\ [n EXCEPT !.children = list].children = list
  BY DEF HostNode
<1>3. \A n \in HostNode : n # None
  BY NodeAssumption
<1>4. ASSUME NEW k \in Ids, host[k] # None
      PROVE  /\ new[k] # None
             /\ new[k].children = IF k = p /\ k # c THEN list ELSE host[k].children
  <2>1. host[k] \in HostNode
    BY <1>1, <1>4
  <2>2. CASE k = c
    BY <2>1, <2>2, <1>2, <1>3, <1>4 DEF Relinked
  <2>3. CASE k = p /\ k # c
    BY <2>1, <2>3, <1>2, <1>3, <1>4 DEF Relinked
  <2>4. CASE k # p /\ k # c
    BY <2>1, <2>4, <1>2, <1>3, <1>4 DEF Relinked
  <2>5. QED BY <2>2, <2>3, <2>4
<1> HIDE DEF new
<1>5. KeepsLists(host, new, c)
  <2>1. SUFFICES ASSUME NEW k \in Ids, NEW i \in Ids \ {c}, Listed(host, k, i)
                 PROVE  Listed(new, k, i)
    BY DEF KeepsLists
  <2>2. host[k] # None /\ Holds(host[k].children, i)
    BY <2>1 DEF Listed
  <2>3. CASE k = p /\ k # c
    BY <2>2, <2>3, <1>4 DEF Listed, ChildrenOf
  <2>4. CASE ~(k = p /\ k # c)
    BY <2>2, <2>4, <1>4 DEF Listed
  <2>5. QED BY <2>3, <2>4
<1>6. host[p] # None /\ p # c /\ Holds(list, c) => Listed(new, p, c)
  BY <1>4 DEF Listed
<1>7. QED BY <1>5, <1>6 DEF new

\* INSERT_CHILD lists the child, and takes none off a list.
LEMMA InsertLists ==
  ASSUME NEW host \in Tree, NEW p \in Ids, NEW c \in Ids
  PROVE  LET new == InsertChild(host, p, c)
         IN  /\ KeepsLists(host, new, c)
             /\ host[p] # None /\ p # c => Listed(new, p, c)
<1> DEFINE list == ChildrenOf(host, p)
           grown == IF Holds(list, c) THEN list ELSE Append(list, c)
<1>1. list \in Seq(Ids)
  BY ListOfChildren
<1>2. InsertChild(host, p, c) = Relinked(host, p, grown, c, p)
  BY DEF InsertChild
<1> HIDE DEF list
<1>3. grown \in Seq(Ids) /\ Holds(grown, c) /\ \A i \in Ids : Holds(list, i) => Holds(grown, i)
  <2>1. CASE Holds(list, c)
    BY <1>1, <2>1
  <2>2. CASE ~Holds(list, c)
    <3>1. /\ grown \in Seq(Ids) /\ Len(grown) = Len(list) + 1 /\ grown[Len(list) + 1] = c
          /\ \A k \in 1 .. Len(list) : grown[k] = list[k]
      BY <1>1, <2>2
    <3>2. Holds(grown, c)
      BY <1>1, <3>1 DEF Holds
    <3>3. \A i \in Ids : Holds(list, i) => Holds(grown, i)
      BY <1>1, <3>1 DEF Holds
    <3>4. QED BY <3>1, <3>2, <3>3
  <2>3. QED BY <2>1, <2>2
<1> HIDE DEF grown
<1>4. \A i \in Ids \ {c} : Holds(ChildrenOf(host, p), i) => Holds(grown, i)
  BY <1>3 DEF list
<1>5. p \in Optional(Ids)
  BY DEF Optional
<1>6. LET new == Relinked(host, p, grown, c, p)
      IN  /\ KeepsLists(host, new, c)
          /\ host[p] # None /\ p # c /\ Holds(grown, c) => Listed(new, p, c)
  BY <1>3, <1>4, <1>5, RelinkedLists
<1>7. QED BY <1>2, <1>3, <1>6

\* REMOVE_CHILD takes no other child off a list.
LEMMA RemoveLists ==
  ASSUME NEW host \in Tree, NEW p \in Ids, NEW c \in Ids
  PROVE  KeepsLists(host, RemoveChild(host, p, c), c)
<1> DEFINE list == Without(ChildrenOf(host, p), c)
<1>1. ChildrenOf(host, p) \in Seq(Ids)
  BY ListOfChildren
<1>2. list \in Seq(Ids)
  <2>1. 0 \in Nat
    OBVIOUS
  <2>2. QED BY <1>1, <2>1, ListTypes
<1>3. \A i \in Ids \ {c} : Holds(ChildrenOf(host, p), i) => Holds(list, i)
  BY <1>1, WithoutOne
<1>4. None \in Optional(Ids)
  BY DEF Optional
<1>5. KeepsLists(host, Relinked(host, p, list, c, None), c)
  BY <1>2, <1>3, <1>4, RelinkedLists
<1>6. QED BY <1>5 DEF RemoveChild

\* MOVE_CHILD takes no child off a list.
LEMMA MoveLists ==
  ASSUME NEW host \in Tree, NEW p \in Ids, NEW c \in Ids, NEW k \in Nat
  PROVE  LET new == MoveChild(host, p, c, k)
         IN  /\ KeepsLists(host, new, c)
             /\ \A q \in Ids : Listed(host, q, c) => Listed(new, q, c)
<1> DEFINE less == Without(ChildrenOf(host, p), c)
           list == InsertedAt(less, k, c)
           new == MoveChild(host, p, c, k)
<1>1. CASE host[p] = None
  BY <1>1 DEF MoveChild, KeepsLists
<1>2. CASE host[p] # None
  <2>1. ChildrenOf(host, p) \in Seq(Ids)
    BY ListOfChildren
  <2>2. less \in Seq(Ids)
    BY <2>1, ListTypes
  <2>3. \A i \in Ids \ {c} : Holds(host[p].children, i) => Holds(less, i)
    BY <1>2, <2>1, WithoutOne DEF ChildrenOf
  <2>4. new = [host EXCEPT ![p] = [host[p] EXCEPT !.children = list]]
    BY <1>2 DEF MoveChild, ChildrenOf
  <2> HIDE DEF less, new
  <2>5. /\ list \in Seq(Ids) /\ Holds(list, c)
        /\ \A i \in Ids : Holds(less, i) => Holds(list, i)
    BY <2>2, ListTypes, InsertedOne
  <2> HIDE DEF list
  <2>6. host[p] \in HostNode
    BY <1>2 DEF Tree, Optional
  <2>7. /\ [host[p] EXCEPT !.children = list] \in HostNode
        /\ [host[p] EXCEPT !.children = list].children = list
    BY <2>5, <2>6 DEF HostNode
  <2>8. /\ new[p] # None /\ new[p].children = list
        /\ \A q \in Ids \ {p} : new[q] = host[q]
    BY <2>4, <2>7, NodeAssumption DEF Tree
  <2>9. ASSUME NEW q \in Ids, NEW i \in Ids, Listed(host, q, i)
        PROVE  Listed(new, q, i)
    <3>1. CASE q # p
      BY <2>8, <2>9, <3>1 DEF Listed
    <3>2. CASE q = p
      BY <2>3, <2>5, <2>8, <2>9, <3>2 DEF Listed
    <3>3. QED BY <3>1, <3>2
  <2>10. QED BY <2>9 DEF KeepsLists, new
<1>3. QED BY <1>1, <1>2

\* The other opcodes leave every list alone.
SameLists(host, new) ==
  \A p \in Ids : \A i \in Ids : Listed(host, p, i) => Listed(new, p, i)

\* CREATE_NODE of a node that exists keeps its list, as SET_TEXT and the two
\* kinds of SET_PROPERTY do.
LEMMA ContentLists ==
  ASSUME NEW host \in Tree, NEW id \in Ids
  PROVE  /\ \A c \in Components : SameLists(host, CreateNode(host, id, c))
         /\ \A t \in Optional(TextValues) : SameLists(host, SetText(host, id, t))
         /\ \A v \in Optional(PropValues) : SameLists(host, SetProperty(host, id, v))
         /\ \A t \in Optional(Tokens) : SameLists(host, SetToken(host, id, t))
<1>1. ASSUME NEW new \in HostNode, NEW changed,
             host[id] # None => new.children = host[id].children,
             changed = [host EXCEPT ![id] = new]
      PROVE  SameLists(host, changed)
  <2>1. new # None
    BY NodeAssumption
  <2>2. changed[id] = new /\ \A q \in Ids \ {id} : changed[q] = host[q]
    BY <1>1 DEF Tree
  <2>3. QED BY <1>1, <2>1, <2>2 DEF SameLists, Listed
<1>2. host[id] # None => host[id] \in HostNode
  BY DEF Tree, Optional
<1>3. ASSUME NEW c \in Components PROVE SameLists(host, CreateNode(host, id, c))
  <2>1. CASE host[id] = None
    <3>1. NewNode(c) \in HostNode
      BY DEF NewNode, HostNode, Optional
    <3>2. CreateNode(host, id, c) = [host EXCEPT ![id] = NewNode(c)]
      BY <2>1 DEF CreateNode
    <3>3. QED BY <1>1, <2>1, <3>1, <3>2
  <2>2. CASE host[id] # None
    <3> DEFINE new == [host[id] EXCEPT !.component = c]
    <3>1. new \in HostNode /\ new.children = host[id].children
      BY <1>2, <2>2 DEF HostNode
    <3>2. CreateNode(host, id, c) = [host EXCEPT ![id] = new]
      BY <2>2 DEF CreateNode
    <3> HIDE DEF new
    <3>3. QED BY <1>1, <3>1, <3>2
  <2>3. QED BY <2>1, <2>2
<1>4. ASSUME NEW t \in Optional(TextValues) PROVE SameLists(host, SetText(host, id, t))
  <2>1. CASE host[id] = None
    BY <2>1 DEF SetText, SameLists
  <2>2. CASE host[id] # None
    <3> DEFINE new == [host[id] EXCEPT !.text = t]
    <3>1. new \in HostNode /\ new.children = host[id].children
      BY <1>2, <2>2 DEF HostNode
    <3>2. SetText(host, id, t) = [host EXCEPT ![id] = new]
      BY <2>2 DEF SetText
    <3> HIDE DEF new
    <3>3. QED BY <1>1, <3>1, <3>2
  <2>3. QED BY <2>1, <2>2
<1>5. ASSUME NEW v \in Optional(PropValues) PROVE SameLists(host, SetProperty(host, id, v))
  <2>1. CASE host[id] = None
    BY <2>1 DEF SetProperty, SameLists
  <2>2. CASE host[id] # None
    <3> DEFINE new == [host[id] EXCEPT !.prop = v]
    <3>1. new \in HostNode /\ new.children = host[id].children
      BY <1>2, <2>2 DEF HostNode
    <3>2. SetProperty(host, id, v) = [host EXCEPT ![id] = new]
      BY <2>2 DEF SetProperty
    <3> HIDE DEF new
    <3>3. QED BY <1>1, <3>1, <3>2
  <2>3. QED BY <2>1, <2>2
<1>6. ASSUME NEW t \in Optional(Tokens) PROVE SameLists(host, SetToken(host, id, t))
  <2>1. CASE host[id] = None
    BY <2>1 DEF SetToken, SameLists
  <2>2. CASE host[id] # None
    <3> DEFINE new == [host[id] EXCEPT !.token = t]
    <3>1. new \in HostNode /\ new.children = host[id].children
      BY <1>2, <2>2 DEF HostNode
    <3>2. SetToken(host, id, t) = [host EXCEPT ![id] = new]
      BY <2>2 DEF SetToken
    <3> HIDE DEF new
    <3>3. QED BY <1>1, <3>1, <3>2
  <2>3. QED BY <2>1, <2>2
<1>7. QED BY <1>3, <1>4, <1>5, <1>6

\* What the opcode at hand does to lists: it takes at most its own node off one,
\* and that only to remove it; an insert lists it.
LEMMA AppliedLists ==
  ASSUME screen \in Tree, visit \in VisitState, NEW stage \in Stages,
         Reaching(screen[visit.id], visit.prev, visit.target, pending),
         visit # None, Due(stage)
  PROVE  /\ KeepsLists(screen, Applied(stage), visit.id)
         /\ stage \notin {"remove", "insert"} => SameLists(screen, Applied(stage))
         /\ /\ stage = "insert" /\ visit.target.parent # visit.id
            /\ screen[visit.target.parent] # None
            => Listed(Applied(stage), visit.target.parent, visit.id)
<1> DEFINE id == visit.id
           t == visit.target
           p == visit.prev
           host == Applied(stage)
<1>1. id \in Ids /\ t \in Snapshot /\ p \in Optional(Snapshot)
  BY DEF VisitState
<1>2. /\ t.component \in Components /\ t.parent \in Optional(Ids) /\ t.index \in Nat
      /\ t.text \in Optional(TextValues) /\ t.prop \in Optional(PropValues)
      /\ t.token \in Optional(Tokens)
  BY <1>1 DEF Snapshot
<1>3. /\ stage = "remove" => p # None /\ p.parent # None
      /\ stage \in {"insert", "move"} => t.parent # None
  BY DueStage DEF Reaching
<1>4. /\ stage = "remove" => p.parent \in Ids
      /\ stage \in {"insert", "move"} => t.parent \in Ids
  BY <1>1, <1>2, <1>3 DEF Optional, Snapshot
<1>5. SameLists(screen, host) => KeepsLists(screen, host, id)
  BY DEF SameLists, KeepsLists
<1>6. CASE stage = "create"
  <2>1. host = CreateNode(screen, id, t.component)
    BY <1>6 DEF Applied
  <2> HIDE DEF host
  <2>2. QED BY <1>6, <2>1, <1>1, <1>2, <1>5, ContentLists DEF host
<1>7. CASE stage = "remove"
  <2>1. host = RemoveChild(screen, p.parent, id)
    BY <1>7 DEF Applied
  <2>2. QED BY <1>7, <2>1, <1>1, <1>4, RemoveLists
<1>8. CASE stage = "insert"
  <2>1. host = InsertChild(screen, t.parent, id)
    BY <1>8 DEF Applied
  <2>2. QED BY <1>8, <2>1, <1>1, <1>4, InsertLists
<1>9. CASE stage = "move"
  <2>1. host = MoveChild(screen, t.parent, id, t.index)
    BY <1>9 DEF Applied
  <2>2. KeepsLists(screen, host, id) /\ \A q \in Ids : Listed(screen, q, id) => Listed(host, q, id)
    BY <1>9, <2>1, <1>1, <1>2, <1>4, MoveLists
  <2> HIDE DEF host
  <2>3. SameLists(screen, host)
    BY <2>2 DEF KeepsLists, SameLists
  <2>4. QED BY <1>9, <2>2, <2>3 DEF host
<1>10. CASE stage = "text"
  <2>1. host = SetText(screen, id, t.text)
    BY <1>10 DEF Applied
  <2>2. QED BY <1>10, <2>1, <1>1, <1>2, <1>5, ContentLists
<1>11. CASE stage = "prop"
  <2>1. host = SetProperty(screen, id, t.prop)
    BY <1>11 DEF Applied
  <2>2. QED BY <1>11, <2>1, <1>1, <1>2, <1>5, ContentLists
<1>12. CASE stage = "token"
  <2>1. host = SetToken(screen, id, t.token)
    BY <1>12 DEF Applied
  <2>2. QED BY <1>12, <2>1, <1>1, <1>2, <1>5, ContentLists
<1>13. QED
  BY <1>6, <1>7, <1>8, <1>9, <1>10, <1>11, <1>12 DEF Stages

-----------------------------------------------------------------------------
(* The second invariant: while no push was refused, the screen holds the       *)
(* nodes that have a snapshot, and the one at hand, and no other; each is on   *)
(* the list of the parent its snapshot names, but for those the sweep still    *)
(* has to take.                                                                *)

ParentsFirst ==
  \A k \in 1 .. Len(view) :
    view[k].parent # None => \E j \in 1 .. k - 1 : view[j].id = view[k].parent

OnlyKnown ==
  \A i \in Ids :
    (screen[i] # None) <=> \/ snapshot[i] # None
                           \/ /\ visit # None /\ visit.id = i
                              /\ visit.prev # None \/ "create" \notin pending

Anchored(i) ==
  snapshot[i].parent # None => Listed(screen, snapshot[i].parent, i)

ToSweep(i) == call = "emit" /\ visit = None /\ walk = <<>> /\ i \in Stale

Placed ==
  /\ \A i \in Ids : snapshot[i] # None => Anchored(i) \/ ToSweep(i)
  /\ visit # None /\ visit.target.parent # None =>
       "insert" \in pending \/ Listed(screen, visit.target.parent, visit.id)

PlacesInv == ParentsFirst /\ (~refused => OnlyKnown /\ Placed)

\* The parent of a node that the walk has come to has been walked and stored.
LEMMA ParentStored ==
  ASSUME EngineIInv, ParentsFirst, call = "emit",
         NEW k \in 1 .. Len(view), k <= Done + 1, view[k].parent # None
  PROVE  /\ view[k].parent \in Ids /\ view[k].parent \in visited
         /\ view[k].parent # view[k].id
         /\ snapshot[view[k].parent] # None
         /\ screen[view[k].parent] # None
<1>1. PICK j \in 1 .. k - 1 : view[j].id = view[k].parent
  BY DEF ParentsFirst
<1>2. Len(view) \in Nat /\ Len(walk) \in Nat /\ Done >= 0
  BY DEF EngineIInv, EngineTypeOK, WalkInv
<1>3. j \in 1 .. Len(view) /\ j \in 1 .. Done /\ j # k
  BY <1>1, <1>2 DEF Done
<1>4. view[j] \in ViewNode
  BY <1>3 DEF EngineIInv, EngineTypeOK
<1>5. view[j].id \in Ids /\ Target(view[j]) \in Snapshot
  BY <1>4, TargetType DEF EngineIInv, ViewNode
<1>6. view[k].parent # view[k].id
  BY <1>1, <1>3 DEF EngineIInv, ViewInv
<1>7. view[k].parent \in visited /\ snapshot[view[k].parent] = Target(view[j])
  BY <1>1, <1>3 DEF EngineIInv, WalkInv
<1>8. snapshot[view[k].parent] # None
  BY <1>5, <1>7, SnapshotAssumption
<1>9. QED BY <1>1, <1>5, <1>6, <1>7, <1>8 DEF EngineIInv, Truthful, Agrees

\* The engine starts in the invariant.
LEMMA PlacesInit == EngineInit => PlacesInv
BY DEF EngineInit, PlacesInv, ParentsFirst, OnlyKnown, Placed, NoNodes

\* emit begins: nothing has changed yet.
LEMMA EmitPlaces ==
  ASSUME EngineIInv, PlacesInv, NEW v \in Views, Emit(v)
  PROVE  PlacesInv'
<1>1. /\ call = "none" /\ view' = v /\ visit' = None
      /\ UNCHANGED <<snapshot, screen, refused>>
  BY DEF Emit, Idle
<1>2. ParentsFirst'
  BY <1>1, WalkAssumption DEF ParentsFirst
<1>3. visit = None
  BY <1>1 DEF EngineIInv, CallInv
<1>4. ~refused' => OnlyKnown' /\ Placed'
  BY <1>1, <1>3 DEF PlacesInv, OnlyKnown, Placed, Anchored, ToSweep
<1>5. QED BY <1>2, <1>4 DEF PlacesInv

\* A node is taken up: it stays on the screen, and it is listed already unless it
\* is to be inserted.
LEMMA VisitPlaces ==
  ASSUME EngineIInv, PlacesInv, Visit
  PROVE  PlacesInv'
<1> DEFINE n == Head(walk)
           prev == snapshot[n.id]
           t == Target(n)
<1>1. /\ call = "emit" /\ visit = None /\ walk # <<>>
      /\ visit' = [id |-> n.id, prev |-> prev, target |-> t]
      /\ pending' = IF prev = None THEN MountStages(t) ELSE UpdateStages(prev, t)
      /\ snapshot' = [snapshot EXCEPT ![n.id] = None]
      /\ UNCHANGED <<screen, view, refused>>
  BY DEF Visit, history
<1>2. n \in ViewNode /\ n.id \in Ids
  <2>1. n \in ViewNode
    BY <1>1 DEF EngineIInv, EngineTypeOK
  <2>2. QED BY <2>1 DEF ViewNode
<1>3. snapshot \in [Ids -> Optional(Snapshot)] /\ t \in Snapshot
  BY <1>2, TargetType DEF EngineIInv, EngineTypeOK
<1>4. visit' # None /\ visit'.id = n.id /\ visit'.prev = prev /\ visit'.target = t
  <2>1. visit' \in VisitState
    BY <1>1, <1>2, <1>3 DEF VisitState
  <2>2. QED BY <2>1, <1>1, SnapshotAssumption
<1>5. ParentsFirst'
  BY <1>1 DEF PlacesInv, ParentsFirst
<1> SUFFICES ASSUME ~refused PROVE OnlyKnown' /\ Placed'
  BY <1>1, <1>5 DEF PlacesInv
<1>6. OnlyKnown /\ \A i \in Ids : snapshot[i] # None => Anchored(i)
  BY <1>1 DEF PlacesInv, Placed, ToSweep
<1>7. prev = None => "create" \in pending'
  BY <1>1 DEF MountStages
<1> HIDE DEF t, prev, n
<1>8. OnlyKnown'
  <2>1. SUFFICES ASSUME NEW i \in Ids
                 PROVE  (screen[i] # None) <=>
                          \/ snapshot'[i] # None
                          \/ n.id = i /\ (prev # None \/ "create" \notin pending')
    BY <1>1, <1>4 DEF OnlyKnown
  <2>2. (screen[i] # None) <=> snapshot[i] # None
    BY <1>1, <1>6 DEF OnlyKnown
  <2>3. CASE i = n.id
    BY <2>2, <2>3, <1>1, <1>3, <1>7 DEF prev
  <2>4. CASE i # n.id
    BY <2>2, <2>4, <1>1, <1>3
  <2>5. QED BY <2>3, <2>4
<1>9. \A i \in Ids : snapshot'[i] # None => Anchored(i)'
  BY <1>1, <1>2, <1>3, <1>6 DEF Anchored
<1>10. t.parent # None => "insert" \in pending' \/ Listed(screen, t.parent, n.id)
  <2>1. CASE prev = None
    BY <2>1, <1>1 DEF MountStages
  <2>2. CASE prev # None /\ prev.parent # t.parent
    BY <2>2, <1>1 DEF UpdateStages
  <2>3. CASE prev # None /\ prev.parent = t.parent
    BY <2>3, <1>2, <1>6 DEF Anchored, prev
  <2>4. QED BY <2>1, <2>2, <2>3
<1>11. QED BY <1>1, <1>4, <1>8, <1>9, <1>10 DEF Placed

\* One opcode: only the list it is about changes, and for the better.
LEMMA PushPlaces ==
  ASSUME EngineIInv, EngineIInv', PlacesInv, NEW stage \in Stages, PushOpcode(stage)
  PROVE  PlacesInv'
<1> DEFINE id == visit.id
           q == visit.target.parent
<1>1. /\ call = "emit" /\ visit # None /\ Due(stage) /\ stage \in pending
      /\ screen' = Applied(stage) /\ pending' = pending \ {stage}
      /\ UNCHANGED <<snapshot, call, walk, visited, visit, view, refused>>
  BY DEF PushOpcode, Due, engine, history
<1>2. /\ screen \in Tree /\ visit \in VisitState /\ id \in Ids
      /\ visit.target \in Snapshot
      /\ Reaching(screen[id], visit.prev, visit.target, pending)
      /\ snapshot[id] = None
      /\ snapshot \in [Ids -> Optional(Snapshot)]
  BY <1>1 DEF EngineIInv, EngineTypeOK, VisitInv, Tree, Optional, VisitState
<1>3. /\ OthersAlike(screen, screen', id)
      /\ Reaching(screen'[id], visit.prev, visit.target, pending')
  BY <1>1, <1>2, AppliedTree
<1>4. /\ KeepsLists(screen, screen', id)
      /\ stage \notin {"remove", "insert"} => SameLists(screen, screen')
      /\ stage = "insert" /\ q # id /\ screen[q] # None => Listed(screen', q, id)
  BY <1>1, <1>2, AppliedLists
<1>5. ParentsFirst'
  BY <1>1 DEF PlacesInv, ParentsFirst
<1> SUFFICES ASSUME ~refused PROVE OnlyKnown' /\ Placed'
  BY <1>1, <1>5 DEF PlacesInv
<1>6. OnlyKnown /\ Placed
  BY DEF PlacesInv
<1>7. OnlyKnown'
  <2>1. SUFFICES ASSUME NEW i \in Ids
                 PROVE  (screen'[i] # None) <=>
                          \/ snapshot[i] # None
                          \/ id = i /\ (visit.prev # None \/ "create" \notin pending')
    BY <1>1 DEF OnlyKnown
  <2>2. CASE i # id
    <3>1. Alike(screen[i], screen'[i])
      BY <2>2, <1>3 DEF OthersAlike
    <3>2. QED BY <2>2, <3>1, <1>1, <1>6 DEF OnlyKnown, Alike
  <2>3. CASE i = id
    <3>1. visit.prev # None \/ "create" \notin pending' => screen'[id] # None
      BY <1>3 DEF Reaching
    <3>2. ASSUME visit.prev = None, "create" \in pending'
          PROVE  screen'[id] = None
      <4>1. stage # "create" /\ screen[id] = None
        BY <3>2, <1>1, <1>2, <1>6 DEF OnlyKnown
      <4>2. screen[id] # None
        BY <4>1, <1>1, <1>2, DueStage
      <4>3. QED BY <4>1, <4>2
    <3>3. QED BY <2>3, <3>1, <3>2, <1>2
  <2>4. QED BY <2>2, <2>3
<1>8. \A i \in Ids : snapshot[i] # None => Anchored(i)'
  <2>1. SUFFICES ASSUME NEW i \in Ids, snapshot[i] # None, snapshot[i].parent # None
                 PROVE  Listed(screen', snapshot[i].parent, i)
    BY <1>1 DEF Anchored
  <2>2. Listed(screen, snapshot[i].parent, i)
    BY <2>1, <1>1, <1>6 DEF Placed, Anchored, ToSweep
  <2>3. i # id /\ snapshot[i].parent \in Ids
    BY <2>1, <1>2 DEF Optional, Snapshot
  <2>4. QED BY <2>2, <2>3, <1>4 DEF KeepsLists
<1>9. ASSUME q # None
      PROVE  "insert" \in pending' \/ Listed(screen', q, id)
  <2>0. q \in Ids
    BY <1>2, <1>9 DEF Snapshot, Optional
  <2>1. CASE stage = "insert"
    <3>1. /\ walk # <<>> /\ id = Head(walk).id /\ visit.target = Target(Head(walk))
          /\ Len(view) \in Nat /\ walk \in Seq(ViewNode) /\ Done >= 0
      BY <1>1 DEF EngineIInv, EngineTypeOK, VisitInv, WalkInv
    <3>2. /\ Done + 1 \in 1 .. Len(view)
          /\ view[Done + 1] = Head(walk)
      BY <3>1, <1>1 DEF EngineIInv, WalkInv, Done
    <3>3. view[Done + 1].id = id /\ view[Done + 1].parent = q
      BY <3>1, <3>2 DEF Target
    <3>4. ParentsFirst /\ Done + 1 <= Done + 1
      BY <3>1, <3>2 DEF PlacesInv
    <3>5. q # id /\ screen[q] # None
      BY <3>2, <3>3, <3>4, <1>1, <1>9, ParentStored
    <3>6. QED BY <2>1, <3>5, <1>4
  <2>2. CASE stage = "remove"
    BY <2>2, <1>1, <1>2, <1>9 DEF Reaching
  <2>3. CASE stage \notin {"remove", "insert"}
    <3>1. "insert" \in pending \/ Listed(screen, q, id)
      BY <1>1, <1>6, <1>9 DEF Placed
    <3>2. QED BY <3>1, <2>0, <2>3, <1>1, <1>2, <1>4 DEF SameLists
  <2>4. QED BY <2>1, <2>2, <2>3
<1>10. QED BY <1>1, <1>7, <1>8, <1>9 DEF Placed

\* The node is done: it is on the screen, and listed.
LEMMA StorePlaces ==
  ASSUME EngineIInv, EngineIInv', PlacesInv, StoreNode
  PROVE  PlacesInv'
<1> DEFINE id == visit.id
           t == visit.target
<1>1. /\ call = "emit" /\ visit # None /\ pending = {} /\ walk # <<>>
      /\ snapshot' = [snapshot EXCEPT ![id] = t]
      /\ visit' = None
      /\ UNCHANGED <<screen, view, refused>>
  BY DEF StoreNode, EngineIInv, VisitInv, history
<1>2. id \in Ids /\ t \in Snapshot /\ snapshot \in [Ids -> Optional(Snapshot)] /\ t # None
  BY <1>1, SnapshotAssumption DEF EngineIInv, EngineTypeOK, VisitState, Optional
<1>3. ParentsFirst'
  BY <1>1 DEF PlacesInv, ParentsFirst
<1> SUFFICES ASSUME ~refused PROVE OnlyKnown' /\ Placed'
  BY <1>1, <1>3 DEF PlacesInv
<1>4. OnlyKnown /\ Placed
  BY DEF PlacesInv
<1> HIDE DEF id, t
<1>5. OnlyKnown'
  <2>1. SUFFICES ASSUME NEW i \in Ids PROVE (screen[i] # None) <=> (snapshot'[i] # None)
    BY <1>1 DEF OnlyKnown
  <2>2. CASE i = id
    BY <2>2, <1>1, <1>2, <1>4 DEF OnlyKnown, id
  <2>3. CASE i # id
    BY <2>3, <1>1, <1>2, <1>4 DEF OnlyKnown, id
  <2>4. QED BY <2>2, <2>3
<1>6. \A i \in Ids : snapshot'[i] # None => Anchored(i)'
  <2>1. SUFFICES ASSUME NEW i \in Ids, snapshot'[i] # None, snapshot'[i].parent # None
                 PROVE  Listed(screen, snapshot'[i].parent, i)
    BY <1>1 DEF Anchored
  <2>2. CASE i = id
    BY <2>1, <2>2, <1>1, <1>2, <1>4 DEF Placed, id, t
  <2>3. CASE i # id
    BY <2>1, <2>3, <1>1, <1>2, <1>4 DEF Placed, Anchored, ToSweep
  <2>4. QED BY <2>2, <2>3
<1>7. QED BY <1>1, <1>5, <1>6 DEF Placed

\* A node is swept: its children on the screen, if any, are to be swept too.
LEMMA SweepPlaces ==
  ASSUME EngineIInv, EngineIInv', PlacesInv, NEW i \in Ids, Sweep(i)
  PROVE  PlacesInv'
<1>1. /\ call = "emit" /\ visit = None /\ walk = <<>> /\ i \in Stale
      /\ screen' = [screen EXCEPT ![i] = None] /\ snapshot' = [snapshot EXCEPT ![i] = None]
      /\ UNCHANGED <<call, walk, visited, visit, view, refused>>
  BY DEF Sweep, DeleteNode, progress, history
<1>2. /\ snapshot \in [Ids -> Optional(Snapshot)] /\ screen \in [Ids -> Optional(HostNode)]
      /\ Len(view) \in Nat
  BY DEF EngineIInv, EngineTypeOK
<1>3. ParentsFirst' /\ ParentsFirst
  BY <1>1 DEF PlacesInv, ParentsFirst
<1> SUFFICES ASSUME ~refused PROVE OnlyKnown' /\ Placed'
  BY <1>1, <1>3 DEF PlacesInv
<1>4. OnlyKnown /\ Placed
  BY DEF PlacesInv
<1>5. OnlyKnown'
  BY <1>1, <1>2, <1>4 DEF OnlyKnown
<1>6. ASSUME NEW j \in Ids, snapshot'[j] # None
      PROVE  (Anchored(j) \/ ToSweep(j))'
  <2>1. j # i /\ snapshot'[j] = snapshot[j]
    BY <1>1, <1>2, <1>6
  <2>2. CASE j \notin visited
    BY <2>1, <2>2, <1>1, <1>2, <1>6 DEF ToSweep, Stale
  <2>3. CASE j \in visited
    <3>1. Done = Len(view)
      BY <1>1, <1>2 DEF Done
    <3>2. PICK k \in 1 .. Len(view) : view[k].id = j /\ snapshot[j] = Target(view[k])
      BY <2>3, <3>1, <1>1 DEF EngineIInv, WalkInv
    <3>3. Anchored(j)
      BY <2>1, <2>3, <1>4, <1>6 DEF Placed, ToSweep, Stale
    <3>4. SUFFICES ASSUME snapshot[j].parent # None
                   PROVE  Listed(screen', snapshot[j].parent, j)
      BY <2>1 DEF Anchored
    <3>5. view[k].parent = snapshot[j].parent
      BY <3>2 DEF Target
    <3>6. k <= Done + 1
      BY <3>1, <1>2
    <3>7. snapshot[j].parent \in visited /\ snapshot[j].parent \in Ids
      BY <3>4, <3>5, <3>6, <1>1, <1>3, ParentStored
    <3>8. snapshot[j].parent # i
      BY <3>7, <1>1 DEF Stale
    <3>9. QED BY <3>3, <3>4, <3>7, <3>8, <1>1, <1>2 DEF Anchored, Listed
  <2>4. QED BY <2>2, <2>3
<1>7. QED BY <1>1, <1>5, <1>6 DEF Placed

\* A dependency: a text or a property, and no list.
LEMMA DepPlaces ==
  ASSUME EngineIInv, EngineIInv', PlacesInv, NextDep
  PROVE  PlacesInv'
<1> DEFINE d == Head(depsLeft)
           i == d.node
           new == DepNew(d)
<1>1. /\ call = "set" /\ depsLeft # <<>>
      /\ snapshot' = Noted(d)
      /\ screen' = IF ~DepPush(d) THEN screen
                   ELSE IF d.field = "text" THEN SetText(screen, i, new)
                   ELSE SetProperty(screen, i, new)
      /\ UNCHANGED <<call, walk, visited, visit, pending, view, refused>>
  BY DEF NextDep, progress, history
<1>2. /\ snapshot \in [Ids -> Optional(Snapshot)] /\ screen \in Tree
      /\ depsLeft \in Seq(Dep) /\ visit = None
      /\ snapshot' \in [Ids -> Optional(Snapshot)] /\ screen' \in Tree
  BY <1>1 DEF EngineIInv, EngineTypeOK, CallInv, Tree
<1>3. d \in Dep /\ i \in Ids /\ d.field \in {"text", "prop"}
  <2>1. d \in Dep
    BY <1>1, <1>2
  <2>2. QED BY <2>1 DEF Dep
<1>4. /\ d.field = "text" => new \in Optional(TextValues)
      /\ d.field = "prop" => new \in Optional(PropValues)
  BY <1>3 DEF DepNew, DepKind, Value, Optional
<1>5. Noted(d) = IF snapshot[i] = None THEN snapshot
                 ELSE [snapshot EXCEPT ![i] = [snapshot[i] EXCEPT ![d.field] = new]]
  BY DEF Noted
<1> HIDE DEF d, i, new
<1>6. /\ SameLists(screen, screen')
      /\ OthersAlike(screen, screen', i)
      /\ screen[i] = None => screen'[i] = None
  <2>1. CASE ~DepPush(d)
    BY <2>1, <1>1, <1>2 DEF SameLists, OthersAlike, Alike
  <2>2. CASE DepPush(d) /\ d.field = "text"
    <3>1. screen' = SetText(screen, i, new)
      BY <2>2, <1>1
    <3>2. SameLists(screen, screen')
      BY <2>2, <3>1, <1>2, <1>3, <1>4, ContentLists
    <3>3. /\ OthersAlike(screen, screen', i)
          /\ screen'[i] = IF screen[i] = None THEN None ELSE [screen[i] EXCEPT !.text = new]
      BY <2>2, <3>1, <1>2, <1>3, <1>4, SetTree
    <3>4. QED BY <3>2, <3>3
  <2>3. CASE DepPush(d) /\ d.field = "prop"
    <3>1. screen' = SetProperty(screen, i, new)
      BY <2>3, <1>1
    <3>2. SameLists(screen, screen')
      BY <2>3, <3>1, <1>2, <1>3, <1>4, ContentLists
    <3>3. /\ OthersAlike(screen, screen', i)
          /\ screen'[i] = IF screen[i] = None THEN None ELSE [screen[i] EXCEPT !.prop = new]
      BY <2>3, <3>1, <1>2, <1>3, <1>4, SetTree
    <3>4. QED BY <3>2, <3>3
  <2>4. QED BY <1>3, <2>1, <2>2, <2>3
<1>7. \A j \in Ids : /\ (snapshot'[j] = None) <=> (snapshot[j] = None)
                     /\ snapshot[j] # None => snapshot'[j].parent = snapshot[j].parent
  <2> SUFFICES ASSUME NEW j \in Ids
               PROVE  /\ (snapshot'[j] = None) <=> (snapshot[j] = None)
                      /\ snapshot[j] # None => snapshot'[j].parent = snapshot[j].parent
    OBVIOUS
  <2>1. CASE j # i \/ snapshot[i] = None
    BY <2>1, <1>1, <1>2, <1>5
  <2>2. CASE j = i /\ snapshot[i] # None
    <3>1. snapshot[i] \in Snapshot
      BY <2>2, <1>2 DEF Optional
    <3>2. FieldSet(snapshot[i], d.field, new)
      BY <3>1, <1>3, <1>4, FieldOfSnapshot
    <3>3. /\ [snapshot[i] EXCEPT ![d.field] = new] \in Snapshot
          /\ [snapshot[i] EXCEPT ![d.field] = new].parent = snapshot[i].parent
      BY <3>2 DEF FieldSet
    <3>4. snapshot'[i] = [snapshot[i] EXCEPT ![d.field] = new]
      BY <2>2, <1>1, <1>2, <1>5
    <3>5. QED BY <2>2, <3>3, <3>4, SnapshotAssumption
  <2>3. QED BY <2>1, <2>2
<1>8. ParentsFirst'
  BY <1>1 DEF PlacesInv, ParentsFirst
<1> SUFFICES ASSUME ~refused PROVE OnlyKnown' /\ Placed'
  BY <1>1, <1>8 DEF PlacesInv
<1>9. OnlyKnown /\ Placed
  BY DEF PlacesInv
<1>10. OnlyKnown'
  <2>1. SUFFICES ASSUME NEW j \in Ids PROVE (screen'[j] # None) <=> (snapshot'[j] # None)
    BY <1>1, <1>2 DEF OnlyKnown
  <2>2. (screen[j] # None) <=> (snapshot[j] # None)
    BY <1>2, <1>9 DEF OnlyKnown
  <2>3. snapshot'[j] # None => screen'[j] # None
    BY DEF EngineIInv, Truthful, Agrees
  <2>4. screen[j] = None => screen'[j] = None
    BY <1>6, <1>3 DEF OthersAlike, Alike
  <2>5. QED BY <2>2, <2>3, <2>4, <1>7
<1>11. \A j \in Ids : snapshot'[j] # None => Anchored(j)'
  <2>1. SUFFICES ASSUME NEW j \in Ids, snapshot'[j] # None, snapshot'[j].parent # None
                 PROVE  Listed(screen', snapshot'[j].parent, j)
    BY DEF Anchored
  <2>2. snapshot[j] # None /\ snapshot'[j].parent = snapshot[j].parent
    BY <2>1, <1>7
  <2>3. Listed(screen, snapshot[j].parent, j) /\ snapshot[j].parent \in Ids
    BY <2>1, <2>2, <1>1, <1>2, <1>9 DEF Placed, Anchored, ToSweep, Optional, Snapshot
  <2>4. QED BY <2>2, <2>3, <1>6 DEF SameLists
<1>12. QED BY <1>1, <1>2, <1>10, <1>11 DEF Placed

\* What touches neither screen nor snapshots, outside of a walk.
LEMMA RestPlaces ==
  ASSUME EngineIInv, PlacesInv,
         \/ EmitReturns
         \/ \E s \in Signals, v \in SignalValues : CreateSignal(s, v) \/ SetSignal(s, v)
         \/ \E s \in Signals : SetSame(s)
         \/ SetReturns
         \/ Refuse
         \/ UNCHANGED engineVars
  PROVE  PlacesInv'
<1>1. view' = view /\ screen' = screen /\ snapshot' = snapshot
  BY DEF EmitReturns, CreateSignal, SetSignal, SetSame, SetReturns, Refuse, engineVars,
         engine, progress, setProgress, history
<1>2. ParentsFirst'
  BY <1>1 DEF PlacesInv, ParentsFirst
<1>3. CASE Refuse
  BY <1>2, <1>3 DEF PlacesInv, Refuse
<1>4. CASE EmitReturns
  <2>1. /\ visit = None /\ visit' = None /\ Stale = {} /\ refused' = refused
    BY <1>4 DEF EmitReturns, progress
  <2>2. QED BY <2>1, <1>1, <1>2 DEF PlacesInv, OnlyKnown, Placed, Anchored, ToSweep
<1>5. CASE ~EmitReturns /\ ~Refuse /\ ~UNCHANGED engineVars
  <2>1. /\ call \in {"none", "set"} /\ UNCHANGED <<visit, refused>>
    BY <1>5 DEF CreateSignal, SetSignal, SetSame, SetReturns, Idle, progress
  <2>2. visit = None
    BY <2>1 DEF EngineIInv, CallInv
  <2>3. QED BY <2>1, <2>2, <1>1, <1>2 DEF PlacesInv, OnlyKnown, Placed, Anchored, ToSweep
<1>6. CASE UNCHANGED engineVars
  <2>1. UNCHANGED <<snapshot, screen, visit, pending, call, walk, visited, view, refused>>
    BY <1>6 DEF engineVars, engine, progress, history
  <2>2. QED BY <2>1 DEF PlacesInv, ParentsFirst, OnlyKnown, Placed, Anchored, ToSweep, Stale
<1>7. QED BY <1>3, <1>4, <1>5, <1>6

\* The second invariant holds throughout.
LEMMA PlacesInductive == EngineSpec => []PlacesInv
<1>1. EngineIInv /\ EngineIInv' /\ PlacesInv /\ [EngineNext]_engineVars => PlacesInv'
  <2> SUFFICES ASSUME EngineIInv, EngineIInv', PlacesInv, [EngineNext]_engineVars
               PROVE  PlacesInv'
    OBVIOUS
  <2>1. ASSUME NEW v \in Views, Emit(v) PROVE PlacesInv'
    BY <2>1, EmitPlaces
  <2>2. CASE Visit
    BY <2>2, VisitPlaces
  <2>3. ASSUME NEW stage \in Stages, PushOpcode(stage) PROVE PlacesInv'
    BY <2>3, PushPlaces
  <2>4. CASE StoreNode
    BY <2>4, StorePlaces
  <2>5. ASSUME NEW i \in Ids, Sweep(i) PROVE PlacesInv'
    BY <2>5, SweepPlaces
  <2>6. CASE NextDep
    BY <2>6, DepPlaces
  <2>7. CASE \/ EmitReturns
             \/ \E s \in Signals, v \in SignalValues : CreateSignal(s, v) \/ SetSignal(s, v)
             \/ \E s \in Signals : SetSame(s)
             \/ SetReturns
             \/ Refuse
             \/ UNCHANGED engineVars
    BY <2>7, RestPlaces
  <2>8. QED BY <2>1, <2>2, <2>3, <2>4, <2>5, <2>6, <2>7 DEF EngineNext
<1>2. QED BY <1>1, PlacesInit, EngineInductive, PTL DEF EngineSpec

\* NothingLeftOver is an invariant: as long as no push was ever refused, an emit
\* that returns Ok leaves the nodes of its tree on the screen and no other, each
\* on its parent's list (engine.rs, emit, reconcile_node and the sweep).
THEOREM NothingStays == EngineSpec => []NothingLeftOver
<1>1. EngineIInv /\ PlacesInv => NothingLeftOver
  <2> SUFFICES ASSUME EngineIInv, PlacesInv, settled, call = "none", ~refused
               PROVE  /\ \A i \in Ids :
                           (screen[i] # None) <=> \E k \in 1 .. Len(view) : view[k].id = i
                      /\ \A k \in 1 .. Len(view) :
                           view[k].parent # None =>
                             Holds(ChildrenOf(screen, view[k].parent), view[k].id)
    BY DEF NothingLeftOver, Idle
  <2>1. visit = None /\ OnlyKnown /\ Placed
    BY DEF EngineIInv, CallInv, PlacesInv
  <2>2. \A k \in 1 .. Len(view) :
          /\ view[k].id \in Ids
          /\ snapshot[view[k].id] = Target(view[k])
          /\ snapshot[view[k].id] # None
    <3> TAKE k \in 1 .. Len(view)
    <3>1. view[k] \in ViewNode
      BY DEF EngineIInv, EngineTypeOK
    <3>2. view[k].id \in Ids /\ Target(view[k]) \in Snapshot
      BY <3>1, TargetType DEF EngineIInv, ViewNode
    <3>3. snapshot[view[k].id] = Target(view[k])
      BY <2>1 DEF EngineIInv, SettledInv
    <3>4. QED BY <3>2, <3>3, SnapshotAssumption
  <2>3. \A i \in Ids : (screen[i] # None) <=> \E k \in 1 .. Len(view) : view[k].id = i
    BY <2>1, <2>2 DEF OnlyKnown, EngineIInv, SettledInv
  <2>4. ASSUME NEW k \in 1 .. Len(view), view[k].parent # None
        PROVE  Holds(ChildrenOf(screen, view[k].parent), view[k].id)
    <3>1. snapshot[view[k].id].parent = view[k].parent
      <4>1. Target(view[k]).parent = view[k].parent
        BY DEF Target
      <4>2. QED BY <4>1, <2>2
    <3>2. Listed(screen, view[k].parent, view[k].id)
      BY <2>1, <2>2, <2>4, <3>1 DEF Placed, Anchored, ToSweep
    <3>3. QED BY <3>2 DEF Listed, ChildrenOf
  <2>5. QED BY <2>3, <2>4
<1>2. QED BY <1>1, EngineInductive, PlacesInductive, PTL

-----------------------------------------------------------------------------
(* The third invariant: while no push was refused, the dependencies of a       *)
(* signal are the bindings of the tree to it, as far as the walk has come; and *)
(* what is bound has the signal's value in its snapshot, but for the           *)
(* dependencies that set_signal still has to come to.                          *)

TextDep(n) == [node |-> n.id, field |-> "text"]
PropDep(n) == [node |-> n.id, field |-> "prop"]

\* d is a binding of the tree to s.
Bound(s, d) ==
  \E k \in 1 .. Len(view) : \/ d = TextDep(view[k]) /\ view[k].textBinding = s
                            \/ d = PropDep(view[k]) /\ view[k].propBinding = s

DueFor(s, d) == call = "set" /\ setting = s /\ Holds(depsLeft, d)

Fresh(s, d) ==
  s # None =>
    /\ Holds(deps[s], d)
    /\ snapshot[d.node] # None
    /\ Value(s, DepKind(d)) # None =>
         snapshot[d.node][d.field] = Value(s, DepKind(d)) \/ DueFor(s, d)

Walked(k) == call = "emit" => k <= Done

FreshAll ==
  \A k \in 1 .. Len(view) :
    Walked(k) => /\ Fresh(view[k].textBinding, TextDep(view[k]))
                 /\ Fresh(view[k].propBinding, PropDep(view[k]))

DepsBound ==
  /\ \A s \in Signals : \A d \in Dep : Holds(deps[s], d) => Bound(s, d)
  /\ call = "set" => \A d \in Dep : Holds(depsLeft, d) => Bound(setting, d)

BindInv == Bindable(view) /\ (~refused => FreshAll /\ DepsBound)

\* The nodes of the tree, their bindings and the dependencies these make.
LEMMA BindingTypes ==
  ASSUME EngineTypeOK, NEW k \in 1 .. Len(view)
  PROVE  /\ view[k] \in ViewNode /\ view[k].id \in Ids
         /\ view[k].textBinding \in Optional(Signals)
         /\ view[k].propBinding \in Optional(Signals)
         /\ TextDep(view[k]) \in Dep /\ PropDep(view[k]) \in Dep
         /\ TextDep(view[k]).node = view[k].id /\ PropDep(view[k]).node = view[k].id
         /\ TextDep(view[k]).field = "text" /\ PropDep(view[k]).field = "prop"
<1>1. view[k] \in ViewNode
  BY DEF EngineTypeOK
<1>2. QED BY <1>1 DEF ViewNode, TextDep, PropDep, Dep

\* add_dep keeps every dependency and adds the one it is given, and no other.
LEMMA AddDepHolds ==
  ASSUME NEW ds \in [Signals -> Seq(Dep)], NEW s \in Optional(Signals), NEW d \in Dep
  PROVE  LET new == AddDep(ds, s, d)
         IN  /\ s # None => Holds(new[s], d)
             /\ \A r \in Signals : \A e \in Dep :
                  Holds(new[r], e) <=> Holds(ds[r], e) \/ (r = s /\ e = d)
<1> DEFINE new == AddDep(ds, s, d)
<1>1. CASE s = None \/ Holds(ds[s], d)
  <2>1. new = ds
    BY <1>1 DEF AddDep
  <2>2. s = None => s \notin Signals
    BY EngineAssumption
  <2>3. QED BY <1>1, <2>1, <2>2
<1>2. CASE s # None /\ ~Holds(ds[s], d)
  <2>1. s \in Signals
    BY <1>2 DEF Optional
  <2>2. new = [ds EXCEPT ![s] = Append(ds[s], d)]
    BY <1>2 DEF AddDep
  <2>3. new[s] = Append(ds[s], d) /\ \A r \in Signals \ {s} : new[r] = ds[r]
    BY <2>1, <2>2
  <2> HIDE DEF new
  <2> DEFINE list == ds[s]
             grown == Append(ds[s], d)
  <2>4. list \in Seq(Dep) /\ Len(list) \in Nat
    BY <2>1
  <2>5. /\ Len(grown) = Len(list) + 1 /\ grown[Len(list) + 1] = d
        /\ \A k \in 1 .. Len(list) : grown[k] = list[k]
    BY <2>4
  <2> HIDE DEF list, grown
  <2>6. \A e \in Dep : Holds(grown, e) <=> Holds(list, e) \/ e = d
    <3> SUFFICES ASSUME NEW e \in Dep PROVE Holds(grown, e) <=> Holds(list, e) \/ e = d
      OBVIOUS
    <3>1. Holds(list, e) => Holds(grown, e)
      BY <2>4, <2>5 DEF Holds
    <3>2. Holds(grown, d)
      BY <2>4, <2>5 DEF Holds
    <3>3. ASSUME Holds(grown, e) PROVE Holds(list, e) \/ e = d
      <4>1. PICK k \in 1 .. Len(grown) : grown[k] = e
        BY <3>3 DEF Holds
      <4>2. k \in 1 .. Len(list) \/ k = Len(list) + 1
        BY <2>4, <2>5
      <4>3. QED BY <4>1, <4>2, <2>5 DEF Holds
    <3>4. QED BY <3>1, <3>2, <3>3
  <2>7. QED BY <2>1, <2>3, <2>6 DEF grown, list, new
<1>3. QED BY <1>1, <1>2

\* The engine starts in the invariant.
LEMMA BindInit == EngineInit => BindInv
<1> SUFFICES ASSUME EngineInit PROVE BindInv
  OBVIOUS
<1>1. Bindable(view) /\ FreshAll
  BY DEF EngineInit, Bindable, FreshAll
<1>2. DepsBound
  BY DEF EngineInit, DepsBound, Holds
<1>3. QED BY <1>1, <1>2 DEF BindInv

\* emit begins: it has walked over nothing and forgets all dependencies.
LEMMA EmitBind ==
  ASSUME EngineIInv, EngineIInv', BindInv, NEW v \in Views, Emit(v)
  PROVE  BindInv'
<1>1. /\ Bindable(v) /\ call' = "emit" /\ view' = v /\ walk' = v
      /\ cells' = cells /\ refused' = refused
      /\ deps' = [s \in Signals |-> <<>>]
  BY DEF Emit
<1>2. Bindable(view)'
  BY <1>1 DEF Bindable
<1>3. FreshAll'
  <2>1. Done' = 0
    BY <1>1 DEF EngineIInv, EngineTypeOK, Done
  <2>2. QED BY <2>1, <1>1 DEF FreshAll, Walked
<1>4. DepsBound'
  BY <1>1 DEF DepsBound, Holds
<1>5. QED BY <1>2, <1>3, <1>4 DEF BindInv

\* A node is taken up whose bindings the walk has not come to.
LEMMA VisitBind ==
  ASSUME EngineIInv, BindInv, Visit
  PROVE  BindInv'
<1> DEFINE n == Head(walk)
<1>1. /\ call = "emit" /\ walk # <<>>
      /\ snapshot' = [snapshot EXCEPT ![n.id] = None]
      /\ UNCHANGED <<cells, deps, call, walk, depsLeft, setting, view, refused>>
  BY DEF Visit, setProgress, history
<1>2. /\ Len(view) \in Nat /\ Done >= 0 /\ walk[1] = n /\ n = view[Done + 1]
      /\ Done + 1 <= Len(view) /\ snapshot \in [Ids -> Optional(Snapshot)]
  <2>1. walk \in Seq(ViewNode) /\ Len(walk) >= 1 /\ walk[1] = n
    BY <1>1 DEF EngineIInv, EngineTypeOK
  <2>2. QED BY <2>1, <1>1 DEF EngineIInv, EngineTypeOK, WalkInv, Done
<1>3. Bindable(view)' /\ (DepsBound => DepsBound')
  BY <1>1 DEF BindInv, Bindable, DepsBound, Bound
<1>4. ASSUME FreshAll PROVE FreshAll'
  <2>1. SUFFICES ASSUME NEW k \in 1 .. Len(view), k <= Done
                 PROVE  /\ Fresh(view[k].textBinding, TextDep(view[k]))'
                        /\ Fresh(view[k].propBinding, PropDep(view[k]))'
    BY <1>1 DEF FreshAll, Walked, Done
  <2>2. view[k].id # n.id /\ view[k].id \in Ids
    BY <2>1, <1>2, BindingTypes DEF EngineIInv, ViewInv, Done
  <2>3. snapshot'[view[k].id] = snapshot[view[k].id]
    BY <2>2, <1>1, <1>2
  <2>4. /\ Fresh(view[k].textBinding, TextDep(view[k]))
        /\ Fresh(view[k].propBinding, PropDep(view[k]))
    BY <2>1, <1>4 DEF FreshAll, Walked
  <2>5. TextDep(view[k]).node = view[k].id /\ PropDep(view[k]).node = view[k].id
    BY DEF TextDep, PropDep
  <2>6. QED BY <2>3, <2>4, <2>5, <1>1 DEF Fresh, Value, DueFor, DepKind
<1>5. QED BY <1>1, <1>3, <1>4 DEF BindInv

\* The node's bindings are recorded, and its snapshot has their values.
LEMMA StoreBind ==
  ASSUME EngineIInv, EngineIInv', BindInv, StoreNode
  PROVE  BindInv'
<1> DEFINE n == Head(walk)
           withText == AddDep(deps, n.textBinding, TextDep(n))
<1>1. /\ call = "emit" /\ visit # None /\ pending = {} /\ walk # <<>>
      /\ visit.id = n.id /\ visit.target = Target(n)
  BY DEF StoreNode, EngineIInv, VisitInv
<1>2. /\ snapshot' = [snapshot EXCEPT ![n.id] = Target(n)]
      /\ deps' = AddDep(withText, n.propBinding, PropDep(n))
      /\ walk' = Tail(walk)
      /\ UNCHANGED <<cells, call, depsLeft, setting, view, refused>>
  BY <1>1 DEF StoreNode, setProgress, history, TextDep, PropDep
<1>3. /\ Len(view) \in Nat /\ Done \in Nat /\ Done' = Done + 1
      /\ Done + 1 \in 1 .. Len(view) /\ n = view[Done + 1]
  <2>1. walk \in Seq(ViewNode) /\ Len(walk) >= 1 /\ walk[1] = n
    BY <1>1 DEF EngineIInv, EngineTypeOK
  <2>2. /\ Len(walk') = Len(walk) - 1 /\ Len(walk) \in Nat /\ Len(view) \in Nat
        /\ view' = view /\ Done >= 0 /\ walk[1] = view[Done + 1]
    BY <2>1, <1>1, <1>2 DEF EngineIInv, EngineTypeOK, WalkInv
  <2>3. QED BY <2>1, <2>2 DEF Done
<1>4. /\ n \in ViewNode /\ n.id \in Ids /\ Target(n) \in Snapshot
      /\ n.textBinding \in Optional(Signals) /\ n.propBinding \in Optional(Signals)
      /\ TextDep(n) \in Dep /\ PropDep(n) \in Dep
      /\ snapshot \in [Ids -> Optional(Snapshot)] /\ deps \in [Signals -> Seq(Dep)]
  BY <1>3, BindingTypes, TargetType DEF EngineIInv, EngineTypeOK
<1>5. withText \in [Signals -> Seq(Dep)]
  BY <1>4, AddDepType
<1>6. /\ n.textBinding # None => Holds(withText[n.textBinding], TextDep(n))
      /\ \A s \in Signals : \A d \in Dep :
           Holds(withText[s], d) <=> Holds(deps[s], d) \/ (s = n.textBinding /\ d = TextDep(n))
  BY <1>4, AddDepHolds
<1>7. /\ n.propBinding # None => Holds(deps'[n.propBinding], PropDep(n))
      /\ \A s \in Signals : \A d \in Dep :
           Holds(deps'[s], d) <=> Holds(withText[s], d) \/ (s = n.propBinding /\ d = PropDep(n))
  <2> HIDE DEF withText
  <2>1. QED BY <1>2, <1>4, <1>5, AddDepHolds
<1>8. Bindable(view)'
  BY <1>2 DEF BindInv, Bindable
<1> SUFFICES ASSUME ~refused PROVE FreshAll' /\ DepsBound'
  BY <1>2, <1>8 DEF BindInv
<1>9. FreshAll /\ DepsBound
  BY DEF BindInv
<1> HIDE DEF n, withText
<1>10. DepsBound'
  <2>1. SUFFICES ASSUME NEW s \in Signals, NEW d \in Dep, Holds(deps'[s], d)
                 PROVE  Bound(s, d)'
    BY <1>1, <1>2 DEF DepsBound
  <2>2. \/ Holds(deps[s], d)
        \/ s = n.textBinding /\ d = TextDep(n)
        \/ s = n.propBinding /\ d = PropDep(n)
    BY <2>1, <1>6, <1>7
  <2>3. Bound(s, d)
    BY <2>2, <1>3, <1>9 DEF DepsBound, Bound
  <2>4. QED BY <2>3, <1>2 DEF Bound
<1>11. FreshAll'
  <2>1. SUFFICES ASSUME NEW k \in 1 .. Len(view), k <= Done + 1
                 PROVE  /\ Fresh(view[k].textBinding, TextDep(view[k]))'
                        /\ Fresh(view[k].propBinding, PropDep(view[k]))'
    BY <1>1, <1>2, <1>3 DEF FreshAll, Walked
  <2>2. /\ view[k].textBinding \in Optional(Signals)
        /\ view[k].propBinding \in Optional(Signals)
        /\ TextDep(view[k]) \in Dep /\ PropDep(view[k]) \in Dep
        /\ TextDep(view[k]).node = view[k].id /\ PropDep(view[k]).node = view[k].id
        /\ TextDep(view[k]).field = "text" /\ PropDep(view[k]).field = "prop"
        /\ view[k].id \in Ids
    BY BindingTypes DEF EngineIInv
  <2>3. CASE k = Done + 1
    <3>1. view[k] = n /\ snapshot'[n.id] = Target(n) /\ Target(n) # None
      BY <2>3, <1>2, <1>3, <1>4, SnapshotAssumption
    <3>2. /\ Value(n.textBinding, TextValues) # None =>
               Target(n).text = Value(n.textBinding, TextValues)
          /\ Value(n.propBinding, PropValues) # None =>
               Target(n).prop = Value(n.propBinding, PropValues)
      BY DEF Target, Resolved
    <3>3. n.textBinding # None => Holds(deps'[n.textBinding], TextDep(n))
      BY <1>4, <1>6, <1>7 DEF Optional
    <3>4. Fresh(view[k].textBinding, TextDep(view[k]))'
      <4>1. DepKind(TextDep(view[k])) = TextValues
        BY <2>2 DEF DepKind
      <4>2. view[k].textBinding # None =>
              Holds(deps'[view[k].textBinding], TextDep(view[k]))
        BY <3>1, <3>3
      <4>3. \A s : Value(s, TextValues)' = Value(s, TextValues)
        BY <1>2 DEF Value
      <4>4. snapshot'[view[k].id] # None
            /\ (Value(view[k].textBinding, TextValues) # None =>
                  snapshot'[view[k].id].text = Value(view[k].textBinding, TextValues))
        BY <3>1, <3>2
      <4>5. QED BY <4>1, <4>2, <4>3, <4>4, <2>2, <1>2 DEF Fresh, DepKind
    <3>5. Fresh(view[k].propBinding, PropDep(view[k]))'
      <4>1. DepKind(PropDep(view[k])) = PropValues
        BY <2>2 DEF DepKind
      <4>2. view[k].propBinding # None =>
              Holds(deps'[view[k].propBinding], PropDep(view[k]))
        BY <3>1, <1>7
      <4>3. \A s : Value(s, PropValues)' = Value(s, PropValues)
        BY <1>2 DEF Value
      <4>4. snapshot'[view[k].id] # None
            /\ (Value(view[k].propBinding, PropValues) # None =>
                  snapshot'[view[k].id].prop = Value(view[k].propBinding, PropValues))
        BY <3>1, <3>2
      <4>5. QED BY <4>1, <4>2, <4>3, <4>4, <2>2, <1>2 DEF Fresh, DepKind
    <3>6. QED BY <3>4, <3>5
  <2>4. CASE k <= Done
    <3>1. k # Done + 1
      BY <1>3, <2>4
    <3>2. view[k].id # n.id
      BY <1>3, <3>1 DEF EngineIInv, ViewInv
    <3>3. snapshot'[view[k].id] = snapshot[view[k].id]
      BY <3>2, <2>2, <1>2, <1>4
    <3>4. /\ Fresh(view[k].textBinding, TextDep(view[k]))
          /\ Fresh(view[k].propBinding, PropDep(view[k]))
      BY <2>4, <1>9 DEF FreshAll, Walked
    <3>5. \A s \in Signals : \A d \in Dep : Holds(deps[s], d) => Holds(deps'[s], d)
      BY <1>6, <1>7
    <3>6. Fresh(view[k].textBinding, TextDep(view[k]))'
      BY <3>3, <3>4, <3>5, <2>2, <1>1, <1>2 DEF Fresh, Value, DepKind, DueFor, Optional
    <3>7. Fresh(view[k].propBinding, PropDep(view[k]))'
      BY <3>3, <3>4, <3>5, <2>2, <1>1, <1>2 DEF Fresh, Value, DepKind, DueFor, Optional
    <3>8. QED BY <3>6, <3>7
  <2>5. QED BY <2>1, <2>3, <2>4, <1>3
<1>12. QED BY <1>10, <1>11

\* A node is swept: none that the tree has.
LEMMA SweepBind ==
  ASSUME EngineIInv, BindInv, NEW i \in Ids, Sweep(i)
  PROVE  BindInv'
<1>1. /\ call = "emit" /\ walk = <<>> /\ i \notin visited
      /\ snapshot' = [snapshot EXCEPT ![i] = None]
      /\ UNCHANGED <<cells, deps, call, walk, depsLeft, setting, view, refused>>
  BY DEF Sweep, Stale, progress, setProgress, history
<1>2. /\ Done = Len(view) /\ Len(view) \in Nat
      /\ snapshot \in [Ids -> Optional(Snapshot)]
  BY <1>1 DEF EngineIInv, EngineTypeOK, Done
<1>3. Bindable(view)' /\ (DepsBound => DepsBound')
  BY <1>1 DEF BindInv, Bindable, DepsBound, Bound
<1>4. ASSUME FreshAll PROVE FreshAll'
  <2>1. SUFFICES ASSUME NEW k \in 1 .. Len(view)
                 PROVE  /\ Fresh(view[k].textBinding, TextDep(view[k]))'
                        /\ Fresh(view[k].propBinding, PropDep(view[k]))'
    BY <1>1 DEF FreshAll
  <2>2. view[k].id # i /\ view[k].id \in Ids
    BY <1>1, <1>2, BindingTypes DEF EngineIInv, WalkInv
  <2>3. snapshot'[view[k].id] = snapshot[view[k].id]
    BY <2>2, <1>1, <1>2
  <2>4. /\ Fresh(view[k].textBinding, TextDep(view[k]))
        /\ Fresh(view[k].propBinding, PropDep(view[k]))
    BY <1>2, <1>4 DEF FreshAll, Walked
  <2>5. TextDep(view[k]).node = view[k].id /\ PropDep(view[k]).node = view[k].id
    BY DEF TextDep, PropDep
  <2>6. QED BY <2>3, <2>4, <2>5, <1>1 DEF Fresh, Value, DueFor, DepKind
<1>5. QED BY <1>1, <1>3, <1>4 DEF BindInv

\* A signal is created that no tree binds, or is set: then its dependencies are
\* all still to come.
LEMMA ValueBind ==
  ASSUME EngineIInv, BindInv, NEW s \in Signals, NEW v \in SignalValues,
         CreateSignal(s, v) \/ SetSignal(s, v)
  PROVE  BindInv'
<1>1. /\ call = "none" /\ cells' = [cells EXCEPT ![s] = v] /\ cells \in [Signals -> Optional(SignalValues)]
      /\ \/ call' = "none" /\ cells[s] = None
         \/ call' = "set" /\ setting' = s /\ depsLeft' = deps[s]
      /\ UNCHANGED <<snapshot, deps, view, refused>>
  BY DEF CreateSignal, SetSignal, Idle, progress, EngineIInv, EngineTypeOK
<1>2. v # None
  BY TreeAssumption DEF SignalValues
<1>3. Bindable(view)'
  <2>1. \A r \in Signals : cells[r] # None => cells'[r] # None
    BY <1>1, <1>2
  <2>2. ASSUME NEW k \in 1 .. Len(view),
               NEW r \in {view[k].textBinding, view[k].propBinding} \ {None}
        PROVE  cells'[r] # None
    <3>1. r \in Signals
      BY BindingTypes DEF EngineIInv, Optional
    <3>2. QED BY <2>1, <3>1 DEF BindInv, Bindable
  <2>3. QED BY <2>2, <1>1 DEF Bindable
<1> SUFFICES ASSUME ~refused PROVE FreshAll' /\ DepsBound'
  BY <1>1, <1>3 DEF BindInv
<1>4. FreshAll /\ DepsBound
  BY DEF BindInv
<1>5. DepsBound'
  BY <1>1, <1>4 DEF DepsBound, Bound
<1>6. ASSUME NEW r \in Optional(Signals), NEW d \in Dep, Fresh(r, d),
             r # None => cells[r] # None
      PROVE  Fresh(r, d)'
  <2>1. SUFFICES ASSUME r # None PROVE Fresh(r, d)'
    BY DEF Fresh
  <2>2. r \in Signals
    BY <2>1 DEF Optional
  <2>3. CASE r = s
    <3>1. call' = "set" /\ setting' = s /\ depsLeft' = deps[s]
      BY <2>1, <2>3, <1>1, <1>6
    <3>2. QED BY <2>1, <2>3, <3>1, <1>1, <1>6 DEF Fresh, DueFor
  <2>4. CASE r # s
    <3>1. Value(r, DepKind(d))' = Value(r, DepKind(d))
      BY <2>2, <2>4, <1>1 DEF Value, DepKind
    <3>2. ~DueFor(r, d)
      BY <1>1 DEF DueFor
    <3>3. QED BY <2>1, <3>1, <3>2, <1>1, <1>6 DEF Fresh
  <2>5. QED BY <2>3, <2>4
<1>7. FreshAll'
  <2>1. SUFFICES ASSUME NEW k \in 1 .. Len(view)
                 PROVE  /\ Fresh(view[k].textBinding, TextDep(view[k]))'
                        /\ Fresh(view[k].propBinding, PropDep(view[k]))'
    BY <1>1 DEF FreshAll
  <2>2. /\ Fresh(view[k].textBinding, TextDep(view[k]))
        /\ Fresh(view[k].propBinding, PropDep(view[k]))
    BY <1>1, <1>4 DEF FreshAll, Walked
  <2>3. /\ view[k].textBinding # None => cells[view[k].textBinding] # None
        /\ view[k].propBinding # None => cells[view[k].propBinding] # None
    BY DEF BindInv, Bindable
  <2>4. /\ view[k].textBinding \in Optional(Signals)
        /\ view[k].propBinding \in Optional(Signals)
        /\ TextDep(view[k]) \in Dep /\ PropDep(view[k]) \in Dep
    BY BindingTypes DEF EngineIInv
  <2>5. QED BY <2>2, <2>3, <2>4, <1>1, <1>6
<1>8. QED BY <1>5, <1>7

\* A dependency is set: it is a binding to the signal and to no other, so what
\* else is bound keeps its value.
LEMMA DepBind ==
  ASSUME EngineIInv, EngineIInv', BindInv, NextDep
  PROVE  BindInv'
<1> DEFINE d == Head(depsLeft)
           new == DepNew(d)
<1>1. /\ call = "set" /\ depsLeft # <<>> /\ depsLeft' = Tail(depsLeft)
      /\ snapshot' = Noted(d)
      /\ UNCHANGED <<cells, deps, call, walk, setting, view, refused>>
  BY DEF NextDep, progress, history
<1>2. /\ snapshot \in [Ids -> Optional(Snapshot)] /\ depsLeft \in Seq(Dep)
      /\ setting \in Signals
  BY <1>1 DEF EngineIInv, EngineTypeOK, CallInv, Optional
<1>3. d \in Dep /\ d.node \in Ids /\ d.field \in {"text", "prop"} /\ Holds(depsLeft, d)
  <2>1. d \in Dep /\ depsLeft[1] = d /\ 1 \in 1 .. Len(depsLeft)
    BY <1>1, <1>2
  <2>2. QED BY <2>1 DEF Dep, Holds
<1>4. \A e \in Dep : /\ Holds(Tail(depsLeft), e) => Holds(depsLeft, e)
                     /\ Holds(depsLeft, e) => e = d \/ Holds(Tail(depsLeft), e)
  <2> SUFFICES ASSUME NEW e \in Dep
               PROVE  /\ Holds(Tail(depsLeft), e) => Holds(depsLeft, e)
                      /\ Holds(depsLeft, e) => e = d \/ Holds(Tail(depsLeft), e)
    OBVIOUS
  <2> DEFINE rest == Tail(depsLeft)
  <2>1. /\ Len(depsLeft) \in Nat /\ Len(rest) = Len(depsLeft) - 1 /\ depsLeft[1] = d
        /\ \A k \in 1 .. Len(rest) : rest[k] = depsLeft[k + 1]
    BY <1>1, <1>2
  <2> HIDE DEF rest, d
  <2>2. Holds(rest, e) => Holds(depsLeft, e)
    <3>1. \A k \in 1 .. Len(rest) : k + 1 \in 1 .. Len(depsLeft)
      BY <2>1
    <3>2. QED BY <2>1, <3>1 DEF Holds
  <2>3. ASSUME Holds(depsLeft, e), e # d PROVE Holds(rest, e)
    <3>1. PICK k \in 1 .. Len(depsLeft) : depsLeft[k] = e
      BY <2>3 DEF Holds
    <3>2. k - 1 \in 1 .. Len(rest) /\ (k - 1) + 1 = k
      BY <2>1, <2>3, <3>1
    <3>3. rest[k - 1] = e
      BY <2>1, <3>1, <3>2
    <3>4. QED BY <3>2, <3>3 DEF Holds
  <2>4. QED BY <2>2, <2>3 DEF rest
<1>5. Noted(d) = IF snapshot[d.node] = None THEN snapshot
                 ELSE [snapshot EXCEPT ![d.node] = [snapshot[d.node] EXCEPT ![d.field] = new]]
  BY DEF Noted
<1>6. new = Value(setting, DepKind(d))
  BY DEF DepNew
<1>7. /\ d.field = "text" => new \in Optional(TextValues)
      /\ d.field = "prop" => new \in Optional(PropValues)
  BY <1>3 DEF DepNew, DepKind, Value, Optional
<1> HIDE DEF d, new
<1>8. ASSUME NEW e \in Dep, snapshot[e.node] # None
      PROVE  /\ snapshot'[e.node] # None
             /\ snapshot'[e.node][e.field] = IF e = d THEN new ELSE snapshot[e.node][e.field]
  <2>1. e.node \in Ids /\ e.field \in {"text", "prop"}
    BY DEF Dep
  <2>2. CASE e.node # d.node
    BY <2>1, <2>2, <1>1, <1>2, <1>3, <1>5, <1>8
  <2>3. CASE e.node = d.node
    <3>1. snapshot[d.node] \in Snapshot
      BY <2>3, <1>2, <1>3, <1>8 DEF Optional
    <3> DEFINE old == snapshot[d.node]
               noted == [snapshot[d.node] EXCEPT ![d.field] = new]
    <3>2. FieldSet(old, d.field, new)
      BY <3>1, <1>3, <1>7, FieldOfSnapshot
    <3>3. /\ noted \in Snapshot
          /\ noted.text = IF d.field = "text" THEN new ELSE old.text
          /\ noted.prop = IF d.field = "prop" THEN new ELSE old.prop
      BY <3>2 DEF FieldSet
    <3>4. snapshot'[e.node] = noted
      BY <2>3, <1>1, <1>2, <1>3, <1>5, <1>8
    <3> HIDE DEF noted
    <3>5. noted # None
      BY <3>3, SnapshotAssumption
    <3>6. e = d <=> e.field = d.field
      <4>1. e = [node |-> e.node, field |-> e.field] /\ d = [node |-> d.node, field |-> d.field]
        BY <1>3 DEF Dep
      <4>2. QED BY <4>1, <2>3
    <3>7. CASE e.field = "text"
      BY <3>3, <3>4, <3>5, <3>6, <3>7, <2>3, <1>3
    <3>8. CASE e.field = "prop"
      BY <3>3, <3>4, <3>5, <3>6, <3>8, <2>3, <1>3
    <3>9. QED BY <2>1, <3>7, <3>8
  <2>4. QED BY <2>2, <2>3
<1>9. Bindable(view)'
  BY <1>1 DEF BindInv, Bindable
<1> SUFFICES ASSUME ~refused PROVE FreshAll' /\ DepsBound'
  BY <1>1, <1>9 DEF BindInv
<1>10. FreshAll /\ DepsBound
  BY DEF BindInv
<1>11. DepsBound'
  BY <1>1, <1>4, <1>10 DEF DepsBound, Bound
<1>12. ASSUME NEW s \in Optional(Signals), NEW e \in Dep, Fresh(s, e),
              e = d => s = setting
       PROVE  Fresh(s, e)'
  <2>1. SUFFICES ASSUME s # None PROVE Fresh(s, e)'
    BY DEF Fresh
  <2>2. /\ Holds(deps'[s], e)
        /\ snapshot[e.node] # None
        /\ Value(s, DepKind(e)) # None =>
             snapshot[e.node][e.field] = Value(s, DepKind(e)) \/ DueFor(s, e)
    BY <2>1, <1>1, <1>12 DEF Fresh
  <2>3. Value(s, DepKind(e))' = Value(s, DepKind(e))
    BY <1>1 DEF Value, DepKind
  <2>4. CASE e = d
    <3>1. snapshot'[e.node] # None /\ snapshot'[e.node][e.field] = Value(s, DepKind(e))
      BY <2>2, <2>4, <1>6, <1>8, <1>12
    <3>2. QED BY <2>2, <2>3, <3>1 DEF Fresh
  <2>5. CASE e # d
    <3>1. snapshot'[e.node] # None /\ snapshot'[e.node][e.field] = snapshot[e.node][e.field]
      BY <2>2, <2>5, <1>8
    <3>2. DueFor(s, e) => DueFor(s, e)'
      BY <2>5, <1>1, <1>4 DEF DueFor
    <3>3. QED BY <2>2, <2>3, <3>1, <3>2 DEF Fresh
  <2>6. QED BY <2>4, <2>5
<1>13. FreshAll'
  <2>1. SUFFICES ASSUME NEW k \in 1 .. Len(view)
                 PROVE  /\ Fresh(view[k].textBinding, TextDep(view[k]))'
                        /\ Fresh(view[k].propBinding, PropDep(view[k]))'
    BY <1>1 DEF FreshAll
  <2>2. /\ Fresh(view[k].textBinding, TextDep(view[k]))
        /\ Fresh(view[k].propBinding, PropDep(view[k]))
    BY <1>1, <1>10 DEF FreshAll, Walked
  <2>3. /\ view[k].textBinding \in Optional(Signals)
        /\ view[k].propBinding \in Optional(Signals)
        /\ TextDep(view[k]) \in Dep /\ PropDep(view[k]) \in Dep
    BY BindingTypes DEF EngineIInv
  <2>4. PICK j \in 1 .. Len(view) :
          \/ d = TextDep(view[j]) /\ view[j].textBinding = setting
          \/ d = PropDep(view[j]) /\ view[j].propBinding = setting
    BY <1>1, <1>3, <1>10 DEF DepsBound, Bound
  <2>5. TextDep(view[k]) = d => view[k].textBinding = setting
    <3> SUFFICES ASSUME TextDep(view[k]) = d PROVE view[k].textBinding = setting
      OBVIOUS
    <3>1. d.field = "text" /\ d.node = view[k].id
      BY DEF TextDep
    <3>2. d # PropDep(view[j])
      BY <3>1 DEF PropDep
    <3>3. d.node = view[j].id /\ view[j].textBinding = setting
      BY <2>4, <3>2 DEF TextDep
    <3>4. j = k
      BY <3>1, <3>3 DEF EngineIInv, ViewInv
    <3>5. QED BY <3>3, <3>4
  <2>6. PropDep(view[k]) = d => view[k].propBinding = setting
    <3> SUFFICES ASSUME PropDep(view[k]) = d PROVE view[k].propBinding = setting
      OBVIOUS
    <3>1. d.field = "prop" /\ d.node = view[k].id
      BY DEF PropDep
    <3>2. d # TextDep(view[j])
      BY <3>1 DEF TextDep
    <3>3. d.node = view[j].id /\ view[j].propBinding = setting
      BY <2>4, <3>2 DEF PropDep
    <3>4. j = k
      BY <3>1, <3>3 DEF EngineIInv, ViewInv
    <3>5. QED BY <3>3, <3>4
  <2>7. \A s \in Optional(Signals) : \A e \in Dep :
          Fresh(s, e) /\ (e = d => s = setting) => Fresh(s, e)'
    BY <1>12
  <2>8. QED BY <2>2, <2>3, <2>5, <2>6, <1>1, <1>12
<1>14. QED BY <1>11, <1>13

\* What touches neither cells, dependencies, snapshots nor the tree.
LEMMA RestBind ==
  ASSUME EngineIInv, BindInv,
         \/ \E stage \in Stages : PushOpcode(stage)
         \/ EmitReturns
         \/ \E s \in Signals : SetSame(s)
         \/ SetReturns
         \/ Refuse
         \/ UNCHANGED engineVars
  PROVE  BindInv'
<1>1. UNCHANGED <<snapshot, cells, deps, view>>
  BY DEF PushOpcode, EmitReturns, SetSame, SetReturns, Refuse, engineVars,
         engine, progress, setProgress, history
<1>2. Bindable(view)'
  BY <1>1 DEF BindInv, Bindable
<1>3. CASE Refuse
  BY <1>2, <1>3 DEF BindInv, Refuse
<1>4. CASE EmitReturns
  <2>1. /\ call = "emit" /\ call' = "none" /\ walk = <<>> /\ refused' = refused
    BY <1>4 DEF EmitReturns
  <2>2. Done = Len(view) /\ Len(view) \in Nat
    BY <2>1 DEF EngineIInv, EngineTypeOK, Done
  <2>3. FreshAll => FreshAll'
    BY <2>1, <2>2, <1>1 DEF FreshAll, Walked, Fresh, Value, DepKind, DueFor, TextDep, PropDep
  <2>4. DepsBound => DepsBound'
    BY <2>1, <1>1 DEF DepsBound, Bound, TextDep, PropDep
  <2>5. QED BY <2>1, <2>3, <2>4, <1>2 DEF BindInv
<1>5. CASE SetReturns
  <2>1. /\ call = "set" /\ call' = "none" /\ depsLeft = <<>> /\ refused' = refused
    BY <1>5 DEF SetReturns
  <2>2. \A s, d : ~DueFor(s, d)
    BY <2>1 DEF DueFor, Holds
  <2>3. FreshAll => FreshAll'
    BY <2>1, <2>2, <1>1 DEF FreshAll, Walked, Fresh, Value, DepKind, TextDep, PropDep
  <2>4. DepsBound => DepsBound'
    BY <2>1, <1>1 DEF DepsBound, Bound, TextDep, PropDep
  <2>5. QED BY <2>1, <2>3, <2>4, <1>2 DEF BindInv
<1>6. CASE \/ \E stage \in Stages : PushOpcode(stage)
           \/ \E s \in Signals : SetSame(s)
           \/ UNCHANGED engineVars
  <2>1. UNCHANGED <<call, walk, depsLeft, setting, refused>>
    BY <1>6 DEF PushOpcode, SetSame, engineVars, progress, setProgress, history
  <2>2. FreshAll => FreshAll'
    BY <2>1, <1>1 DEF FreshAll, Walked, Done, Fresh, Value, DepKind, DueFor, TextDep, PropDep
  <2>3. DepsBound => DepsBound'
    BY <2>1, <1>1 DEF DepsBound, Bound, TextDep, PropDep
  <2>4. QED BY <2>1, <2>2, <2>3, <1>2 DEF BindInv
<1>7. QED BY <1>3, <1>4, <1>5, <1>6

\* The third invariant holds throughout.
LEMMA BindInductive == EngineSpec => []BindInv
<1>1. EngineIInv /\ EngineIInv' /\ BindInv /\ [EngineNext]_engineVars => BindInv'
  <2> SUFFICES ASSUME EngineIInv, EngineIInv', BindInv, [EngineNext]_engineVars
               PROVE  BindInv'
    OBVIOUS
  <2>1. ASSUME NEW v \in Views, Emit(v) PROVE BindInv'
    BY <2>1, EmitBind
  <2>2. CASE Visit
    BY <2>2, VisitBind
  <2>3. CASE StoreNode
    BY <2>3, StoreBind
  <2>4. ASSUME NEW i \in Ids, Sweep(i) PROVE BindInv'
    BY <2>4, SweepBind
  <2>5. ASSUME NEW s \in Signals, NEW v \in SignalValues,
               CreateSignal(s, v) \/ SetSignal(s, v)
        PROVE  BindInv'
    BY <2>5, ValueBind
  <2>6. CASE NextDep
    BY <2>6, DepBind
  <2>7. CASE \/ \E stage \in Stages : PushOpcode(stage)
             \/ EmitReturns
             \/ \E s \in Signals : SetSame(s)
             \/ SetReturns
             \/ Refuse
             \/ UNCHANGED engineVars
    BY <2>7, RestBind
  <2>8. QED BY <2>1, <2>2, <2>3, <2>4, <2>5, <2>6, <2>7 DEF EngineNext
<1>2. QED BY <1>1, BindInit, EngineInductive, PTL DEF EngineSpec

\* BindingsShown is an invariant: between calls, and as long as no push was ever
\* refused, every binding of the tree whose signal has a value of its kind shows
\* it, on a property only where the node has no token (engine.rs, set_signal and
\* reconcile_node; signal.rs, add_dep and set).
THEOREM BoundShown == EngineSpec => []BindingsShown
<1>1. EngineIInv /\ BindInv => BindingsShown
  <2> SUFFICES ASSUME EngineIInv, BindInv, call = "none", ~refused,
                      NEW k \in 1 .. Len(view)
               PROVE  /\ ShowsValue(view[k].textBinding, TextDep(view[k]))
                      /\ ShowsValue(view[k].propBinding, PropDep(view[k]))
    BY DEF BindingsShown, Idle, TextDep, PropDep
  <2>1. /\ Fresh(view[k].textBinding, TextDep(view[k]))
        /\ Fresh(view[k].propBinding, PropDep(view[k]))
    BY DEF BindInv, FreshAll, Walked
  <2>2. /\ TextDep(view[k]).node = view[k].id /\ PropDep(view[k]).node = view[k].id
        /\ TextDep(view[k]).field = "text" /\ PropDep(view[k]).field = "prop"
        /\ view[k].id \in Ids
    BY BindingTypes DEF EngineIInv
  <2>3. \A s, d : ~DueFor(s, d)
    BY DEF DueFor
  <2>4. snapshot[view[k].id] # None => Agrees(screen[view[k].id], snapshot[view[k].id])
    BY <2>2 DEF EngineIInv, Truthful
  <2>5. ShowsValue(view[k].textBinding, TextDep(view[k]))
    BY <2>1, <2>2, <2>3, <2>4 DEF Fresh, ShowsValue, Agrees
  <2>6. ShowsValue(view[k].propBinding, PropDep(view[k]))
    BY <2>1, <2>2, <2>3, <2>4 DEF Fresh, ShowsValue, Agrees
  <2>7. QED BY <2>5, <2>6
<1>2. QED BY <1>1, EngineInductive, BindInductive, PTL

-----------------------------------------------------------------------------
(* The renderer's widgets: the tree they follow.                             *)

\* One list after another.
LEMMA JoinedIs ==
  ASSUME NEW X, NEW a \in Seq(X), NEW b \in Seq(X)
  PROVE  /\ a \o b \in Seq(X) /\ Len(a \o b) = Len(a) + Len(b)
         /\ Len(a) \in Nat /\ Len(b) \in Nat
         /\ \A k \in 1 .. Len(a) : (a \o b)[k] = a[k]
         /\ \A k \in 1 .. Len(b) : (a \o b)[Len(a) + k] = b[k]
         /\ \A x : Holds(a \o b, x) <=> Holds(a, x) \/ Holds(b, x)
<1>1. /\ a \o b \in Seq(X) /\ Len(a \o b) = Len(a) + Len(b)
      /\ Len(a) \in Nat /\ Len(b) \in Nat
      /\ \A k \in 1 .. Len(a) : (a \o b)[k] = a[k]
      /\ \A k \in 1 .. Len(b) : (a \o b)[Len(a) + k] = b[k]
  OBVIOUS
<1>2. ASSUME NEW x, Holds(b, x) PROVE Holds(a \o b, x)
  <2>1. PICK k \in 1 .. Len(b) : b[k] = x BY <1>2 DEF Holds
  <2>2. Len(a) + k \in 1 .. Len(a \o b) /\ (a \o b)[Len(a) + k] = x BY <1>1, <2>1
  <2>3. QED BY <2>2 DEF Holds
<1>3. ASSUME NEW x, Holds(a, x) PROVE Holds(a \o b, x)
  <2>1. PICK k \in 1 .. Len(a) : a[k] = x BY <1>3 DEF Holds
  <2>2. k \in 1 .. Len(a \o b) /\ (a \o b)[k] = x BY <1>1, <2>1
  <2>3. QED BY <2>2 DEF Holds
<1>4. ASSUME NEW x, Holds(a \o b, x) PROVE Holds(a, x) \/ Holds(b, x)
  <2>1. PICK k \in 1 .. Len(a \o b) : (a \o b)[k] = x BY <1>4 DEF Holds
  <2>2. CASE k <= Len(a)
    <3>1. k \in 1 .. Len(a) BY <1>1, <2>1, <2>2
    <3>2. a[k] = x BY <1>1, <2>1, <3>1
    <3>3. QED BY <3>1, <3>2 DEF Holds
  <2>3. CASE k > Len(a)
    <3>1. k - Len(a) \in 1 .. Len(b) /\ Len(a) + (k - Len(a)) = k BY <1>1, <2>1, <2>3
    <3>2. b[k - Len(a)] = x BY <1>1, <2>1, <3>1
    <3>3. QED BY <3>1, <3>2 DEF Holds
  <2>4. QED BY <1>1, <2>1, <2>2, <2>3
<1>5. QED BY <1>1, <1>2, <1>3, <1>4

\* A list with an element added.
LEMMA AppendIs ==
  ASSUME NEW X, NEW a \in Seq(X), NEW e \in X
  PROVE  Append(a, e) \in Seq(X) /\ \A x : Holds(Append(a, e), x) <=> Holds(a, x) \/ x = e
<1>1. Append(a, e) = a \o <<e>> /\ <<e>> \in Seq(X) OBVIOUS
<1>2. \A x : Holds(<<e>>, x) <=> x = e
  <2>1. Len(<<e>>) = 1 /\ <<e>>[1] = e OBVIOUS
  <2>2. QED BY <2>1 DEF Holds
<1> DEFINE b == <<e>>
<1> HIDE DEF b
<1>3. a \o b \in Seq(X) /\ \A x : Holds(a \o b, x) <=> Holds(a, x) \/ Holds(b, x)
  <2>1. b \in Seq(X) BY <1>1 DEF b
  <2>2. QED BY <2>1, JoinedIs
<1>4. QED BY <1>1, <1>2, <1>3 DEF b

\* OnlyIn goes through a list keeping what it has so far.
OnlyInTable(h, list, S) ==
  /\ h[0] = <<>>
  /\ \A k \in 1 .. Len(list) :
       h[k] = IF list[k] \in S THEN Append(h[k - 1], list[k]) ELSE h[k - 1]

LEMMA OnlyInTableExists ==
  ASSUME NEW list \in Seq(Ids), NEW S
  PROVE  \E h : OnlyInTable(h, list, S) /\ OnlyIn(list, S) = h[Len(list)]
<1> DEFINE n == Len(list)
           Fix(f) == f = [k \in 0 .. Len(list) |->
                            IF k = 0 THEN <<>>
                            ELSE IF list[k] \in S THEN Append(f[k - 1], list[k]) ELSE f[k - 1]]
           h == CHOOSE f : Fix(f)
<1>1. n \in Nat /\ \A k \in 1 .. n : list[k] \in Ids OBVIOUS
<1>2. OnlyIn(list, S) = h[n] BY DEF OnlyIn
<1>3. \E f : Fix(f)
  <2> DEFINE F == [k \in 1 .. n |-> [x \in Seq(Ids) |-> IF list[k] \in S THEN Append(x, list[k]) ELSE x]]
             A == Seq(Ids)
  <2>1. F \in [1 .. n -> [A -> A]] /\ <<>> \in A BY <1>1
  <2>2. PICK g \in [SUBSET (1 .. n) -> A] : FoldTable(g, <<>>, F, n)
    <3> HIDE DEF F, A, n
    <3>1. QED BY <1>1, <2>1, FoldTableExists
  <2> DEFINE f == [k \in 0 .. n |-> g[1 .. k]]
  <2>3. f[0] = <<>>
    <3>1. 1 .. 0 = {} /\ {} \in SUBSET (1 .. n) /\ 0 \in 0 .. n OBVIOUS
    <3>2. QED BY <2>2, <3>1 DEF FoldTable
  <2>4. ASSUME NEW k \in 1 .. n PROVE f[k] = F[k][f[k - 1]]
    <3>1. k \in Nat \ {0} /\ k \in 0 .. n /\ k - 1 \in 0 .. n /\ (1 .. k) \in SUBSET (1 .. n) OBVIOUS
    <3>2. 1 .. k # {} /\ Max(1 .. k) = k /\ (1 .. k) \ {k} = 1 .. k - 1 BY <3>1, LastOfRange
    <3>3. g[1 .. k] = F[k][g[1 .. k - 1]] BY <2>2, <3>1, <3>2 DEF FoldTable
    <3>4. QED BY <3>1, <3>3
  <2>5. \A k \in 0 .. n : f[k] \in A OBVIOUS
  <2> HIDE DEF f
  <2>6. ASSUME NEW k \in 1 .. n
        PROVE  f[k] = IF list[k] \in S THEN Append(f[k - 1], list[k]) ELSE f[k - 1]
    <3>1. k - 1 \in 0 .. n OBVIOUS
    <3>2. QED BY <2>4, <2>5, <3>1
  <2>7. f = [k \in 0 .. n |-> f[k]] BY DEF f
  <2>8. Fix(f)
    <3>1. ASSUME NEW k \in 0 .. n
          PROVE  f[k] = IF k = 0 THEN <<>>
                        ELSE IF list[k] \in S THEN Append(f[k - 1], list[k]) ELSE f[k - 1]
      <4>1. CASE k = 0 BY <2>3, <4>1
      <4>2. CASE k # 0
        <5>1. k \in 1 .. n BY <4>2
        <5>2. QED BY <2>6, <4>2, <5>1
      <4>3. QED BY <4>1, <4>2
    <3>2. QED BY <2>7, <3>1
  <2>9. QED BY <2>8
<1>4. Fix(h) BY <1>3
<1> HIDE DEF h
<1>5. /\ h[0] = <<>>
      /\ \A k \in 1 .. n : h[k] = IF list[k] \in S THEN Append(h[k - 1], list[k]) ELSE h[k - 1]
  <2>1. 0 \in 0 .. n /\ \A k \in 1 .. n : k \in 0 .. n /\ k # 0 OBVIOUS
  <2>2. \A k \in 0 .. n : h[k] = IF k = 0 THEN <<>>
                        ELSE IF list[k] \in S THEN Append(h[k - 1], list[k]) ELSE h[k - 1]
    BY <1>4
  <2>3. QED BY <2>1, <2>2
<1>6. QED BY <1>2, <1>5 DEF OnlyInTable

\* What is left of a list when only the elements of a set are kept.
LEMMA OnlyInIs ==
  ASSUME NEW list \in Seq(Ids), NEW S
  PROVE  /\ OnlyIn(list, S) \in Seq(Ids)
         /\ \A c : Holds(OnlyIn(list, S), c) <=> Holds(list, c) /\ c \in S
<1> DEFINE n == Len(list)
<1>1. n \in Nat /\ \A k \in 1 .. n : list[k] \in Ids OBVIOUS
<1>2. PICK h : OnlyInTable(h, list, S) /\ OnlyIn(list, S) = h[n] BY OnlyInTableExists
<1>5. /\ h[0] = <<>>
      /\ \A k \in 1 .. n : h[k] = IF list[k] \in S THEN Append(h[k - 1], list[k]) ELSE h[k - 1]
  BY <1>2 DEF OnlyInTable
<1> DEFINE Good(m) == /\ h[m] \in Seq(Ids)
                      /\ \A c : Holds(h[m], c) <=> (\E k \in 1 .. m : list[k] = c) /\ c \in S
           G == {m \in Nat : m <= n => Good(m)}
<1>6. 0 \in G
  <2>1. h[0] \in Seq(Ids) /\ Len(h[0]) = 0 BY <1>5
  <2>2. QED BY <2>1 DEF Holds
<1>7. ASSUME NEW m \in Nat, m \in G PROVE m + 1 \in G
  <2> SUFFICES ASSUME m + 1 <= n PROVE Good(m + 1) OBVIOUS
  <2>1. m + 1 \in 1 .. n /\ (m + 1) - 1 = m /\ m <= n BY <1>1
  <2>2. Good(m) BY <1>7, <2>1
  <2>3. h[m + 1] = IF list[m + 1] \in S THEN Append(h[m], list[m + 1]) ELSE h[m]
    BY <1>5, <2>1
  <2>4. list[m + 1] \in Ids BY <1>1, <2>1
  <2>5. h[m] \in Seq(Ids) BY <2>2
  <2> DEFINE x == list[m + 1]
  <2>6. \A c : (\E k \in 1 .. m + 1 : list[k] = c) <=> (\E k \in 1 .. m : list[k] = c) \/ c = x
    OBVIOUS
  <2>7. CASE x \in S
    <3>1. h[m + 1] = Append(h[m], x) BY <2>3, <2>7
    <3>2. h[m + 1] \in Seq(Ids) /\ \A c : Holds(h[m + 1], c) <=> Holds(h[m], c) \/ c = x
      BY <3>1, <2>4, <2>5, AppendIs
    <3>3. QED BY <2>2, <2>6, <2>7, <3>2
  <2>8. CASE x \notin S BY <2>2, <2>3, <2>5, <2>6, <2>8
  <2>9. QED BY <2>7, <2>8
<1>8. Nat \subseteq G
  <2> HIDE DEF G
  <2>1. QED BY <1>6, <1>7, Inductive
<1>9. Good(n)
  <2>1. n \in G /\ n <= n
    <3> HIDE DEF n, G
    <3>1. QED BY <1>1, <1>8
  <2> HIDE DEF n, Good
  <2>2. QED BY <2>1
<1>10. QED BY <1>2, <1>9 DEF Holds

\* The parts of a list put together stay in a set of lists that is closed under that.
LEMMA FlattenStays ==
  ASSUME NEW X, NEW G \in SUBSET Seq(X), <<>> \in G, \A a, b \in G : a \o b \in G,
         NEW n \in Nat, NEW s \in [1 .. n -> G]
  PROVE  /\ FlattenSeq(s) \in G
         /\ \A k \in 1 .. n : \A x : Holds(s[k], x) => Holds(FlattenSeq(s), x)
<1>1. Len(s) = n /\ \A i \in 1 .. n : s[i] \in G /\ s[i] \in Seq(X) OBVIOUS
<1>2. CASE n = 0
  <2>1. s = <<>> BY <1>2
  <2>2. FlattenSeq(s) = <<>> BY <1>1, <1>2, <2>1 DEF FlattenSeq
  <2>3. QED BY <1>2, <2>2
<1>3. CASE n # 0
  <2> DEFINE Fix(g) == g = [i \in 1 .. Len(s) |-> IF i = 1 THEN s[i] ELSE g[i - 1] \o s[i]]
             h == CHOOSE g : Fix(g)
  <2>1. FlattenSeq(s) = h[Len(s)] BY <1>1, <1>3 DEF FlattenSeq
  <2>2. \E g : Fix(g)
    <3> DEFINE F == [k \in 1 .. n |-> [x \in G |-> IF k = 1 THEN s[k] ELSE x \o s[k]]]
    <3>1. F \in [1 .. n -> [G -> G]] BY <1>1
    <3>2. PICK g \in [SUBSET (1 .. n) -> G] : FoldTable(g, <<>>, F, n)
      <4> HIDE DEF F
      <4>1. QED BY <3>1, FoldTableExists
    <3> DEFINE f == [k \in 1 .. n |-> g[1 .. k]]
    <3>3. ASSUME NEW k \in 1 .. n PROVE f[k] = IF k = 1 THEN s[k] ELSE f[k - 1] \o s[k]
      <4>1. k \in Nat \ {0} /\ (1 .. k) \in SUBSET (1 .. n) /\ (1 .. k - 1) \in SUBSET (1 .. n) OBVIOUS
      <4>2. 1 .. k # {} /\ Max(1 .. k) = k /\ (1 .. k) \ {k} = 1 .. k - 1 BY <4>1, LastOfRange
      <4>3. g[1 .. k] = F[k][g[1 .. k - 1]]
        <5> HIDE DEF F, f
        <5>1. QED BY <3>2, <4>1, <4>2 DEF FoldTable
      <4>4. g[1 .. k - 1] \in G BY <4>1
      <4>5. k # 1 => k - 1 \in 1 .. n OBVIOUS
      <4>6. QED BY <4>3, <4>4, <4>5
    <3>4. f = [k \in 1 .. n |-> f[k]] OBVIOUS
    <3> HIDE DEF f
    <3>5. Fix(f) BY <1>1, <3>3, <3>4
    <3>6. QED BY <3>5
  <2>3. Fix(h) BY <2>2
  <2> HIDE DEF h
  <2>4. \A i \in 1 .. n : h[i] = IF i = 1 THEN s[i] ELSE h[i - 1] \o s[i] BY <1>1, <2>3
  <2> HIDE DEF Fix
  <2> DEFINE Good(m) == h[m] \in G /\ \A k \in 1 .. m : \A x : Holds(s[k], x) => Holds(h[m], x)
             S == {m \in Nat : m + 1 <= n => Good(m + 1)}
  <2>5. 0 \in S
    <3>1. 1 \in 1 .. n /\ 0 + 1 = 1 BY <1>3
    <3>2. h[1] = s[1] BY <2>4, <3>1
    <3>3. \A k \in 1 .. 1 : k = 1 OBVIOUS
    <3>4. QED BY <1>1, <3>1, <3>2, <3>3
  <2>6. ASSUME NEW m \in Nat, m \in S PROVE m + 1 \in S
    <3> SUFFICES ASSUME m + 2 <= n PROVE Good(m + 2) OBVIOUS
    <3>1. m + 2 \in 1 .. n /\ (m + 2) - 1 = m + 1 /\ m + 2 # 1 /\ m + 1 <= n OBVIOUS
    <3>2. Good(m + 1) BY <2>6, <3>1
    <3>3. h[m + 2] = h[m + 1] \o s[m + 2] BY <2>4, <3>1
    <3>4. h[m + 1] \in Seq(X) /\ s[m + 2] \in Seq(X) /\ h[m + 2] \in G BY <1>1, <3>1, <3>2, <3>3
    <3>5. \A x : Holds(h[m + 1], x) \/ Holds(s[m + 2], x) => Holds(h[m + 2], x)
      <4> DEFINE a == h[m + 1]
                 b == s[m + 2]
      <4>1. a \in Seq(X) /\ b \in Seq(X) /\ h[m + 2] = a \o b BY <3>3, <3>4
      <4> HIDE DEF a, b
      <4>2. \A x : Holds(a \o b, x) <=> Holds(a, x) \/ Holds(b, x) BY <4>1, JoinedIs
      <4>3. QED BY <4>1, <4>2 DEF a, b
    <3>6. \A k \in 1 .. m + 2 : k = m + 2 \/ k \in 1 .. m + 1 OBVIOUS
    <3>7. QED BY <3>2, <3>4, <3>5, <3>6
  <2>7. Nat \subseteq S
    <3> HIDE DEF S
    <3>1. QED BY <2>5, <2>6, Inductive
  <2>8. n - 1 \in Nat /\ (n - 1) + 1 = n BY <1>3
  <2>9. n - 1 \in S BY <2>7, <2>8
  <2>10. Good(n) BY <2>8, <2>9
  <2>11. QED BY <1>1, <2>1, <2>10
<1>4. QED BY <1>2, <1>3

\* The children a walk finds of a node.
LEMMA KidsAre ==
  ASSUME NEW t \in Tree, NEW p \in Ids
  PROVE  /\ LiveChildren(t, p) \in Seq(Ids)
         /\ \A c : Holds(LiveChildren(t, p), c) <=>
                     Holds(ChildrenOf(t, p), c) /\ c \in Ids /\ t[c] # None
         /\ \A k \in 1 .. Len(LiveChildren(t, p)) :
              LiveChildren(t, p)[k] \in Ids /\ t[LiveChildren(t, p)[k]] # None
<1>1. ChildrenOf(t, p) \in Seq(Ids) BY ListOfChildren
<1>2. /\ LiveChildren(t, p) \in Seq(Ids)
      /\ \A c : Holds(LiveChildren(t, p), c) <=>
                  Holds(ChildrenOf(t, p), c) /\ c \in Ids /\ t[c] # None
  BY <1>1, OnlyInIs DEF LiveChildren
<1>3. \A k \in 1 .. Len(LiveChildren(t, p)) : Holds(LiveChildren(t, p), LiveChildren(t, p)[k])
  BY DEF Holds
<1>4. QED BY <1>2, <1>3

\* Every node but the root is listed by its parent, which is there.
Attached(t, r) ==
  /\ t[r] # None /\ t[r].parent = None
  /\ \A j \in Ids \ {r} :
       t[j] # None => t[j].parent \in Ids /\ Listed(t, t[j].parent, j)

\* Nobody is above their own parent.
Descends(t, rank) ==
  \A j \in Ids : t[j] # None /\ t[j].parent # None => rank[t[j].parent] < rank[j]

\* The retained tree between frames.  Nodes may be listed by others than their
\* parent.
Whole(t) ==
  /\ t \in Tree /\ \E r \in Ids : Attached(t, r)
  /\ \E rank \in [Ids -> Nat] : Descends(t, rank)

\* What is known of one node.
LEMMA NodeOf ==
  ASSUME NEW t \in Tree, NEW i \in Ids, t[i] # None
  PROVE  /\ t[i] \in HostNode /\ t[i].component \in Components
         /\ t[i].parent \in Ids \union {None} /\ t[i].children \in Seq(Ids)
         /\ ChildrenOf(t, i) = t[i].children
         /\ t[i].text \in TextValues \union {None} /\ t[i].prop \in PropValues \union {None}
<1>1. t[i] \in HostNode BY DEF Tree, Optional
<1>2. QED BY <1>1 DEF HostNode, Optional, ChildrenOf

\* There is one root.
LEMMA RootIs ==
  ASSUME NEW t \in Tree, NEW r \in Ids, Attached(t, r)
  PROVE  Root(t) = r
<1>1. None \notin Ids BY TreeAssumption
<1>2. \A i \in Ids : t[i] # None /\ t[i].parent = None => i = r BY <1>1 DEF Attached
<1>3. QED BY <1>2 DEF Root, Attached

\* Ranks may be chosen smaller than the number of ids.
LEMMA SmallRanks ==
  ASSUME NEW t \in Tree, NEW r \in Ids, Attached(t, r),
         NEW rank \in [Ids -> Nat], Descends(t, rank)
  PROVE  /\ Cardinality(Ids) \in Nat
         /\ \E small \in [Ids -> 0 .. Cardinality(Ids) - 1] : Descends(t, small)
<1> DEFINE N == Cardinality(Ids)
           Lower(j) == {k \in Ids : rank[k] < rank[j]}
           small == [j \in Ids |-> Cardinality(Lower(j))]
<1>1. IsFiniteSet(Ids) BY GtkAssumption
<1>2. N \in Nat BY <1>1, FS_CardinalityType
<1>3. ASSUME NEW j \in Ids
      PROVE  IsFiniteSet(Lower(j)) /\ Cardinality(Lower(j)) \in 0 .. N - 1
  <2>1. Lower(j) \in SUBSET Ids OBVIOUS
  <2>2. j \notin Lower(j) OBVIOUS
  <2> HIDE DEF Lower
  <2>3. IsFiniteSet(Lower(j)) /\ Cardinality(Lower(j)) <= N BY <1>1, <2>1, FS_Subset
  <2>4. Cardinality(Lower(j)) # N BY <1>1, <2>1, <2>2, FS_Subset
  <2>5. Cardinality(Lower(j)) \in Nat BY <2>3, FS_CardinalityType
  <2>6. QED BY <1>2, <2>3, <2>4, <2>5
<1>4. ASSUME NEW i \in Ids, NEW j \in Ids, rank[i] < rank[j]
      PROVE  Cardinality(Lower(i)) < Cardinality(Lower(j))
  <2>1. Lower(i) \in SUBSET Lower(j) BY <1>4
  <2>2. i \in Lower(j) /\ i \notin Lower(i) BY <1>4
  <2> HIDE DEF Lower
  <2>3. /\ Cardinality(Lower(i)) <= Cardinality(Lower(j))
        /\ Cardinality(Lower(i)) # Cardinality(Lower(j))
    BY <1>3, <2>1, <2>2, FS_Subset
  <2>4. QED BY <1>3, <2>3
<1>5. small \in [Ids -> 0 .. N - 1]
  <2> HIDE DEF Lower
  <2>1. QED BY <1>3
<1>6. Descends(t, small)
  <2> SUFFICES ASSUME NEW j \in Ids, t[j] # None, t[j].parent # None
               PROVE  small[t[j].parent] < small[j]
    BY DEF Descends
  <2>1. t[j].parent \in Ids BY NodeOf
  <2>2. rank[t[j].parent] < rank[j] BY DEF Descends
  <2>3. Cardinality(Lower(t[j].parent)) < Cardinality(Lower(j)) BY <1>4, <2>1, <2>2
  <2> HIDE DEF Lower
  <2>4. QED BY <2>1, <2>3
<1>7. QED BY <1>2, <1>5, <1>6

\* up[n][j]: the n-th above j, if there is one.
Ascents(up, t) ==
  \A n \in 0 .. Cardinality(Ids) : \A j \in Ids :
    up[n][j] = IF n = 0 \/ t[j] = None THEN j
               ELSE IF t[j].parent = None THEN None ELSE up[n - 1][t[j].parent]

Climbs == [Ids -> Ids \union {None}]
Here == [j \in Ids |-> j]

LEMMA ClimbsExist ==
  ASSUME NEW n \in Nat, NEW F \in [Climbs -> Climbs]
  PROVE  \E h \in [0 .. n -> Climbs] : h = [d \in 0 .. n |-> IF d = 0 THEN Here ELSE F[h[d - 1]]]
<1>1. Here \in Climbs BY DEF Here, Climbs
<1>2. QED BY <1>1, IterationExists

\* What Below is made of.
LEMMA BelowIs ==
  ASSUME NEW t \in Tree, NEW i \in Ids
  PROVE  \E up : /\ Ascents(up, t)
                 /\ Below(t, i) = {j \in Ids : t[j] # None /\
                                     \E n \in 0 .. Cardinality(Ids) : up[n][j] = i}
<1> DEFINE N == Cardinality(Ids)
           Fix(up) == up = [n \in 0 .. Cardinality(Ids) |->
                              [j \in Ids |->
                                 IF n = 0 \/ t[j] = None THEN j
                                 ELSE IF t[j].parent = None THEN None
                                 ELSE up[n - 1][t[j].parent]]]
           ups == CHOOSE up : Fix(up)
<1>1. N \in Nat BY GtkAssumption, FS_CardinalityType
<1>2. \E up : Fix(up)
  <2> DEFINE F == [a \in Climbs |-> [j \in Ids |->
                                  IF t[j] = None THEN j
                                  ELSE IF t[j].parent = None THEN None ELSE a[t[j].parent]]]
  <2>1. \A j \in Ids : t[j] # None /\ t[j].parent # None => t[j].parent \in Ids BY NodeOf
  <2>3. F \in [Climbs -> Climbs] BY <2>1 DEF Climbs
  <2>4. PICK h \in [0 .. N -> Climbs] : h = [d \in 0 .. N |-> IF d = 0 THEN Here ELSE F[h[d - 1]]]
    <3> HIDE DEF F, N
    <3>1. QED BY <1>1, <2>3, ClimbsExist
  <2>5. ASSUME NEW n \in 0 .. N
        PROVE  h[n] = [j \in Ids |->
                         IF n = 0 \/ t[j] = None THEN j
                         ELSE IF t[j].parent = None THEN None ELSE h[n - 1][t[j].parent]]
    <3>1. CASE n = 0
      <4>1. h[n] = Here BY <2>4, <3>1
      <4>2. QED BY <3>1, <4>1 DEF Here
    <3>2. CASE n # 0
      <4>1. n - 1 \in 0 .. N BY <1>1, <3>2
      <4>2. h[n - 1] \in Climbs BY <2>4, <4>1
      <4>3. h[n] = F[h[n - 1]]
        <5> HIDE DEF F
        <5>1. QED BY <2>4, <3>2
      <4>4. QED BY <3>2, <4>2, <4>3
    <3>3. QED BY <3>1, <3>2
  <2>6. h = [n \in 0 .. N |-> h[n]]
    <3>1. QED BY <2>4
  <2>7. Fix(h) BY <2>5, <2>6
  <2>8. QED BY <2>7
<1>3. Fix(ups) BY <1>2
<1>4. Below(t, i) = {j \in Ids : t[j] # None /\ \E n \in 0 .. Cardinality(Ids) : ups[n][j] = i}
  BY DEF Below
<1> HIDE DEF ups
<1>5. Ascents(ups, t)
  <2> SUFFICES ASSUME NEW n \in 0 .. Cardinality(Ids), NEW j \in Ids
               PROVE  ups[n][j] = IF n = 0 \/ t[j] = None THEN j
                                ELSE IF t[j].parent = None THEN None ELSE ups[n - 1][t[j].parent]
    BY DEF Ascents
  <2>1. ups[n] = [k \in Ids |-> IF n = 0 \/ t[k] = None THEN k
                               ELSE IF t[k].parent = None THEN None ELSE ups[n - 1][t[k].parent]]
    BY <1>3
  <2> HIDE DEF Fix
  <2>2. QED BY <2>1
<1>6. QED BY <1>4, <1>5

\* Going up, ranks fall.
LEMMA ClimbFalls ==
  ASSUME NEW t \in Tree, NEW r \in Ids, Attached(t, r), NEW up, Ascents(up, t),
         NEW rank \in [Ids -> Nat], Descends(t, rank), NEW n \in 0 .. Cardinality(Ids),
         Cardinality(Ids) \in Nat, NEW j \in Ids, t[j] # None, up[n][j] \in Ids
  PROVE  rank[up[n][j]] + n <= rank[j]
<1> DEFINE N == Cardinality(Ids)
           G == {m \in Nat : m <= N => \A k \in Ids :
                   t[k] # None /\ up[m][k] \in Ids => rank[up[m][k]] + m <= rank[k]}
<1>1. 0 \in G
  <2> SUFFICES ASSUME NEW k \in Ids, t[k] # None PROVE rank[up[0][k]] + 0 <= rank[k] OBVIOUS
  <2>1. 0 \in 0 .. N OBVIOUS
  <2>2. up[0][k] = k BY <2>1 DEF Ascents
  <2>3. rank[k] \in Nat OBVIOUS
  <2>4. QED BY <2>2, <2>3
<1>2. ASSUME NEW m \in Nat, m \in G PROVE m + 1 \in G
  <2> SUFFICES ASSUME m + 1 <= N, NEW k \in Ids, t[k] # None, up[m + 1][k] \in Ids
               PROVE  rank[up[m + 1][k]] + (m + 1) <= rank[k]
    OBVIOUS
  <2>1. m + 1 \in 0 .. N /\ m + 1 # 0 /\ (m + 1) - 1 = m /\ m <= N OBVIOUS
  <2>2. up[m + 1][k] = IF t[k].parent = None THEN None ELSE up[m][t[k].parent]
    BY <2>1 DEF Ascents
  <2>3. None \notin Ids BY TreeAssumption
  <2>4. t[k].parent # None /\ up[m + 1][k] = up[m][t[k].parent] BY <2>2, <2>3
  <2>5. t[k].parent \in Ids /\ t[t[k].parent] # None
    <3>1. k # r BY <2>4 DEF Attached
    <3>2. QED BY <3>1 DEF Attached, Listed
  <2>6. rank[t[k].parent] < rank[k] BY <2>4 DEF Descends
  <2>7. rank[up[m][t[k].parent]] + m <= rank[t[k].parent] BY <1>2, <2>1, <2>4, <2>5
  <2>8. rank[up[m + 1][k]] \in Nat /\ rank[t[k].parent] \in Nat /\ rank[k] \in Nat BY <2>5
  <2>9. QED BY <2>4, <2>6, <2>7, <2>8
<1>3. Nat \subseteq G
  <2> HIDE DEF G
  <2>1. QED BY <1>1, <1>2, Inductive
<1>4. n \in G /\ n <= N
  <2> HIDE DEF G
  <2>1. QED BY <1>3
<1>5. QED BY <1>4

\* What is below a node: the node, and what has its parent there.
LEMMA BelowUp ==
  ASSUME NEW t, Whole(t), NEW i \in Ids, t[i] # None
  PROVE  /\ Below(t, i) \subseteq Ids /\ i \in Below(t, i)
         /\ \A j \in Below(t, i) \ {i} : t[j].parent \in Below(t, i)
         /\ \A j \in Ids : t[j] # None /\ t[j].parent \in Below(t, i) => j \in Below(t, i)
<1> DEFINE N == Cardinality(Ids)
<1>1. t \in Tree /\ None \notin Ids BY TreeAssumption DEF Whole
<1>2. PICK r \in Ids : Attached(t, r) BY DEF Whole
<1>3. PICK rank \in [Ids -> Nat] : Descends(t, rank) BY DEF Whole
<1>4. N \in Nat BY <1>1, <1>2, <1>3, SmallRanks
<1>5. PICK small \in [Ids -> 0 .. N - 1] : Descends(t, small) BY <1>1, <1>2, <1>3, SmallRanks
<1>6. PICK up : /\ Ascents(up, t)
                /\ Below(t, i) = {j \in Ids : t[j] # None /\ \E n \in 0 .. N : up[n][j] = i}
  BY <1>1, BelowIs
<1>7. i \in Below(t, i)
  <2>1. 0 \in 0 .. N /\ up[0][i] = i BY <1>4, <1>6 DEF Ascents
  <2>2. QED BY <1>6, <2>1
<1>8. ASSUME NEW j \in Below(t, i) \ {i} PROVE t[j].parent \in Below(t, i)
  <2>1. j \in Ids /\ t[j] # None BY <1>6
  <2>2. PICK n \in 0 .. N : up[n][j] = i BY <1>6
  <2>3. n # 0
    <3>1. n = 0 => up[n][j] = j BY <1>6, <2>1 DEF Ascents
    <3>2. QED BY <2>2, <3>1
  <2>4. up[n][j] = IF t[j].parent = None THEN None ELSE up[n - 1][t[j].parent]
    BY <1>6, <2>1, <2>3 DEF Ascents
  <2>5. t[j].parent # None /\ up[n - 1][t[j].parent] = i BY <1>1, <2>2, <2>4
  <2>6. t[j].parent \in Ids /\ t[t[j].parent] # None
    <3>1. j # r BY <1>2, <2>5 DEF Attached
    <3>2. QED BY <1>2, <2>1, <3>1 DEF Attached, Listed
  <2>7. n - 1 \in 0 .. N BY <1>4, <2>3
  <2>8. QED BY <1>6, <2>5, <2>6, <2>7
<1>9. ASSUME NEW j \in Ids, t[j] # None, t[j].parent \in Below(t, i) PROVE j \in Below(t, i)
  <2> DEFINE p == t[j].parent
  <2>1. p \in Ids /\ t[p] # None /\ p # None BY <1>1, <1>6, <1>9
  <2>2. PICK n \in 0 .. N : up[n][p] = i BY <1>6, <1>9
  <2>3. n + 1 \in 0 .. N
    <3>1. small \in [Ids -> Nat] BY <1>4, <1>5
    <3>2. small[i] + n <= small[p]
      <4>1. up[n][p] \in Ids BY <2>2
      <4>2. small[up[n][p]] + n <= small[p]
        BY <1>1, <1>2, <1>4, <1>5, <1>6, <2>1, <2>2, <3>1, <4>1, ClimbFalls
      <4>3. QED BY <2>2, <4>2
    <3>3. small[p] <= N - 1 /\ small[p] \in Nat /\ small[i] \in Nat BY <1>4, <1>5, <2>1, <3>1
    <3>4. QED BY <1>4, <2>2, <3>2, <3>3
  <2>4. n + 1 # 0 /\ (n + 1) - 1 = n BY <2>2
  <2>5. up[n + 1][j] = up[n][p] BY <1>6, <1>9, <2>1, <2>3, <2>4 DEF Ascents
  <2>6. QED BY <1>6, <1>9, <2>2, <2>3, <2>5
<1>10. Below(t, i) \subseteq Ids BY <1>6
<1>11. QED BY <1>7, <1>8, <1>9, <1>10

SameParents(t, u) ==
  \A j \in Ids : /\ t[j] = None <=> u[j] = None
                 /\ t[j] # None => u[j].parent = t[j].parent

\* Where parents stay and no list loses anything the tree stays whole.
LEMMA StaysWhole ==
  ASSUME NEW t, Whole(t), NEW u \in Tree, SameLists(t, u), SameParents(t, u)
  PROVE  Whole(u)
<1>1. PICK r \in Ids : Attached(t, r) BY DEF Whole
<1>2. PICK rank \in [Ids -> Nat] : Descends(t, rank) BY DEF Whole
<1>3. Attached(u, r)
  <2>1. u[r] # None /\ u[r].parent = None BY <1>1 DEF Attached, SameParents
  <2>2. ASSUME NEW j \in Ids \ {r}, u[j] # None
        PROVE  u[j].parent \in Ids /\ Listed(u, u[j].parent, j)
    <3>1. t[j] # None /\ u[j].parent = t[j].parent BY <2>2 DEF SameParents
    <3>2. t[j].parent \in Ids /\ Listed(t, t[j].parent, j) BY <1>1, <3>1 DEF Attached
    <3>3. QED BY <3>1, <3>2 DEF SameLists
  <2>3. QED BY <2>1, <2>2 DEF Attached
<1>4. Descends(u, rank) BY <1>2 DEF Descends, SameParents
<1>5. QED BY <1>2, <1>3, <1>4 DEF Whole

\* What a frame that is no delete does to the tree: all nodes but i are as they
\* were, but for lists.
Kept(t, u, i) == Whole(u) /\ OthersAlike(t, u, i) /\ u[i] # None

\* Frames that change one node's type, text or property.
LEMMA ContentWhole ==
  ASSUME NEW t, Whole(t), NEW i \in Ids, t[i] # None
  PROVE  /\ \A c \in Components : Kept(t, CreateNode(t, i, c), i)
         /\ \A v \in Optional(TextValues) : Kept(t, SetText(t, i, v), i)
         /\ \A v \in Optional(PropValues) : Kept(t, SetProperty(t, i, v), i)
<1>1. t \in Tree BY DEF Whole
<1>2. ASSUME NEW u \in Tree, SameLists(t, u), OthersAlike(t, u, i), u[i] # None,
             u[i].parent = t[i].parent
      PROVE  Kept(t, u, i)
  <2>1. SameParents(t, u) BY <1>2 DEF OthersAlike, Alike, SameParents
  <2>2. Whole(u) BY <1>2, <2>1, StaysWhole
  <2>3. QED BY <1>2, <2>2 DEF Kept
<1>3. t[i] \in HostNode BY <1>1, NodeOf
<1>4. ASSUME NEW c \in Components PROVE Kept(t, CreateNode(t, i, c), i)
  <2> DEFINE u == CreateNode(t, i, c)
  <2>1. u \in Tree /\ OthersAlike(t, u, i) /\ u[i] # None /\ u[i] = [t[i] EXCEPT !.component = c]
    BY <1>1, CreateTree
  <2>2. SameLists(t, u) BY <1>1, ContentLists
  <2>3. u[i].parent = t[i].parent BY <1>3, <2>1 DEF HostNode
  <2>4. QED BY <1>2, <2>1, <2>2, <2>3
<1>5. ASSUME NEW v \in Optional(TextValues) PROVE Kept(t, SetText(t, i, v), i)
  <2> DEFINE u == SetText(t, i, v)
  <2>1. u \in Tree /\ OthersAlike(t, u, i) /\ u[i] = [t[i] EXCEPT !.text = v]
    BY <1>1, SetTree
  <2>2. SameLists(t, u) BY <1>1, ContentLists
  <2>3. u[i].parent = t[i].parent /\ u[i] \in HostNode BY <1>3, <2>1 DEF HostNode
  <2>4. u[i] # None BY <2>3, NodeAssumption
  <2>5. QED BY <1>2, <2>1, <2>2, <2>3, <2>4
<1>6. ASSUME NEW v \in Optional(PropValues) PROVE Kept(t, SetProperty(t, i, v), i)
  <2> DEFINE u == SetProperty(t, i, v)
  <2>1. u \in Tree /\ OthersAlike(t, u, i) /\ u[i] = [t[i] EXCEPT !.prop = v]
    BY <1>1, SetTree
  <2>2. SameLists(t, u) BY <1>1, ContentLists
  <2>3. u[i].parent = t[i].parent /\ u[i] \in HostNode BY <1>3, <2>1 DEF HostNode
  <2>4. u[i] # None BY <2>3, NodeAssumption
  <2>5. QED BY <1>2, <2>1, <2>2, <2>3, <2>4
<1>7. QED BY <1>4, <1>5, <1>6

\* A child is moved in its parent's list.
LEMMA MoveWhole ==
  ASSUME NEW t, Whole(t), NEW i \in Ids, t[i] # None, t[i].parent # None, NEW k \in Nat
  PROVE  Kept(t, MoveChild(t, t[i].parent, i, k), i) /\ Alike(t[i], MoveChild(t, t[i].parent, i, k)[i])
<1> DEFINE u == MoveChild(t, t[i].parent, i, k)
<1>1. t \in Tree BY DEF Whole
<1>2. t[i].parent \in Ids BY <1>1, NodeOf
<1>3. u \in Tree /\ \A j \in Ids : Alike(t[j], u[j]) BY <1>1, <1>2, MoveTree
<1>4. KeepsLists(t, u, i) /\ \A q \in Ids : Listed(t, q, i) => Listed(u, q, i)
  BY <1>1, <1>2, MoveLists
<1> HIDE DEF u
<1>5. SameLists(t, u) BY <1>4 DEF KeepsLists, SameLists
<1>6. SameParents(t, u) BY <1>3 DEF Alike, SameParents
<1>7. Whole(u) BY <1>3, <1>5, <1>6, StaysWhole
<1>8. Kept(t, u, i) /\ Alike(t[i], u[i]) BY <1>3, <1>6, <1>7 DEF Kept, OthersAlike, SameParents
<1>9. QED BY <1>8 DEF u

LEMMA AlikeChain ==
  ASSUME NEW a, NEW b, NEW c, Alike(a, b), Alike(b, c)
  PROVE  Alike(a, c)
BY DEF Alike

\* A new node is put below one that is there.
LEMMA MountWhole ==
  ASSUME NEW t, Whole(t), NEW i \in Ids, t[i] = None, NEW p \in Ids, t[p] # None, NEW n \in New
  PROVE  LET created == SetText(SetProperty(CreateNode(t, i, n.component), i, n.prop), i, n.text)
         IN  Kept(t, InsertChild(created, p, i), i)
<1> DEFINE a == CreateNode(t, i, n.component)
           b == SetProperty(a, i, n.prop)
           c == SetText(b, i, n.text)
           u == InsertChild(c, p, i)
<1>1. t \in Tree /\ p # i BY DEF Whole
<1>2. n.component \in Components /\ n.text \in Optional(TextValues) /\ n.prop \in Optional(PropValues)
  BY GtkAssumption
<1>3. a \in Tree /\ OthersAlike(t, a, i) /\ a[i] # None BY <1>1, <1>2, CreateTree
<1>4. \A q \in Ids : \A j \in Ids : Listed(t, q, j) => Listed(a, q, j)
  BY <1>1, <1>2, ContentLists DEF SameLists
<1> HIDE DEF a
<1>5. b \in Tree /\ OthersAlike(a, b, i) /\ b[i] # None
  <2>1. b \in Tree /\ OthersAlike(a, b, i) /\ b[i] = [a[i] EXCEPT !.prop = n.prop]
    BY <1>2, <1>3, SetTree
  <2>2. a[i] \in HostNode BY <1>3, NodeOf
  <2>3. b[i] \in HostNode BY <1>2, <2>1, <2>2 DEF HostNode
  <2>4. QED BY <2>1, <2>3, NodeAssumption
<1>6. SameLists(a, b) BY <1>2, <1>3, ContentLists
<1> HIDE DEF b
<1>7. c \in Tree /\ OthersAlike(b, c, i) /\ c[i] # None
  <2>1. c \in Tree /\ OthersAlike(b, c, i) /\ c[i] = [b[i] EXCEPT !.text = n.text]
    BY <1>2, <1>5, SetTree
  <2>2. b[i] \in HostNode BY <1>5, NodeOf
  <2>3. c[i] \in HostNode BY <1>2, <2>1, <2>2 DEF HostNode
  <2>4. QED BY <2>1, <2>3, NodeAssumption
<1>8. SameLists(b, c) BY <1>2, <1>5, ContentLists
<1> HIDE DEF c
<1>9. u \in Tree /\ OthersAlike(c, u, i) /\ u[i] = [c[i] EXCEPT !.parent = p]
  BY <1>7, InsertTree
<1>10. KeepsLists(c, u, i) /\ Listed(u, p, i)
  <2>1. c[p] # None BY <1>1, <1>3, <1>5, <1>7 DEF OthersAlike, Alike
  <2>2. QED BY <1>1, <1>7, <2>1, InsertLists
<1> HIDE DEF u
<1>11. u[i] # None /\ u[i].parent = p
  <2>1. c[i] \in HostNode BY <1>7, NodeOf
  <2>2. u[i] \in HostNode /\ u[i].parent = p BY <1>9, <2>1 DEF HostNode, Optional
  <2>3. QED BY <2>2, NodeAssumption
<1>12. OthersAlike(t, u, i)
  <2> SUFFICES ASSUME NEW j \in Ids \ {i} PROVE Alike(t[j], u[j]) BY DEF OthersAlike
  <2>1. Alike(t[j], a[j]) /\ Alike(a[j], b[j]) /\ Alike(b[j], c[j]) /\ Alike(c[j], u[j])
    BY <1>3, <1>5, <1>7, <1>9 DEF OthersAlike
  <2>2. QED BY <2>1, AlikeChain
<1>13. KeepsLists(t, u, i) BY <1>4, <1>6, <1>8, <1>10 DEF SameLists, KeepsLists
<1>14. PICK r \in Ids : Attached(t, r) BY DEF Whole
<1>15. r # i BY <1>14 DEF Attached
<1>16. Attached(u, r)
  <2>1. u[r] # None /\ u[r].parent = None
    BY <1>12, <1>14, <1>15 DEF Attached, OthersAlike, Alike
  <2>2. ASSUME NEW j \in Ids \ {r}, u[j] # None
        PROVE  u[j].parent \in Ids /\ Listed(u, u[j].parent, j)
    <3>1. CASE j = i BY <1>10, <1>11, <3>1
    <3>2. CASE j # i
      <4>1. t[j] # None /\ u[j].parent = t[j].parent BY <1>12, <2>2, <3>2 DEF OthersAlike, Alike
      <4>2. t[j].parent \in Ids /\ Listed(t, t[j].parent, j) BY <1>14, <4>1 DEF Attached
      <4>3. QED BY <1>13, <3>2, <4>1, <4>2 DEF KeepsLists
    <3>3. QED BY <3>1, <3>2
  <2>3. QED BY <2>1, <2>2 DEF Attached
<1>17. PICK rank \in [Ids -> Nat] : Descends(t, rank) BY DEF Whole
<1> DEFINE higher == [rank EXCEPT ![i] = rank[p] + 1]
<1>18. higher \in [Ids -> Nat] OBVIOUS
<1>19. Descends(u, higher)
  <2> SUFFICES ASSUME NEW j \in Ids, u[j] # None, u[j].parent # None
               PROVE  higher[u[j].parent] < higher[j]
    BY DEF Descends
  <2>1. CASE j = i BY <1>1, <1>11, <2>1
  <2>2. CASE j # i
    <3>1. t[j] # None /\ u[j].parent = t[j].parent BY <1>12, <2>2 DEF OthersAlike, Alike
    <3>2. j # r BY <1>14, <3>1 DEF Attached
    <3>3. t[j].parent \in Ids /\ t[t[j].parent] # None BY <1>14, <3>1, <3>2 DEF Attached, Listed
    <3>4. t[j].parent # i BY <3>3
    <3>5. rank[t[j].parent] < rank[j] BY <1>17, <3>1 DEF Descends
    <3>6. QED BY <2>2, <3>1, <3>3, <3>4, <3>5
  <2>3. QED BY <2>1, <2>2
<1>20. Whole(u)
  <2> HIDE DEF higher
  <2>1. QED BY <1>9, <1>16, <1>18, <1>19 DEF Whole
<1>21. QED BY <1>11, <1>12, <1>20 DEF Kept, u, c, b, a

\* A node is taken away with all below it.
LEMMA DeleteWhole ==
  ASSUME NEW t, Whole(t), NEW i \in Ids, t[i] # None, t[i].parent # None
  PROVE  Whole([j \in Ids |-> IF j \in Below(t, i) THEN None ELSE t[j]])
<1> DEFINE B == Below(t, i)
           u == [j \in Ids |-> IF j \in B THEN None ELSE t[j]]
<1>1. /\ B \subseteq Ids /\ i \in B
      /\ \A j \in B \ {i} : t[j].parent \in B
      /\ \A j \in Ids : t[j] # None /\ t[j].parent \in B => j \in B
  BY BelowUp
<1> HIDE DEF B
<1>2. t \in Tree /\ None \notin Ids BY TreeAssumption DEF Whole
<1>3. PICK r \in Ids : Attached(t, r) BY DEF Whole
<1>4. PICK rank \in [Ids -> Nat] : Descends(t, rank) BY DEF Whole
<1>5. r \notin B BY <1>1, <1>2, <1>3 DEF Attached
<1>6. u \in Tree BY <1>2 DEF Tree, Optional
<1>7. \A j \in Ids : u[j] # None => j \notin B /\ u[j] = t[j] OBVIOUS
<1>8. \A j \in Ids : j \notin B => u[j] = t[j] OBVIOUS
<1> HIDE DEF u
<1>9. Attached(u, r)
  <2>1. u[r] # None /\ u[r].parent = None BY <1>3, <1>5, <1>8 DEF Attached
  <2>2. ASSUME NEW j \in Ids \ {r}, u[j] # None
        PROVE  u[j].parent \in Ids /\ Listed(u, u[j].parent, j)
    <3>1. j \notin B /\ u[j] = t[j] /\ t[j] # None BY <1>7, <2>2
    <3>2. t[j].parent \in Ids /\ Listed(t, t[j].parent, j) BY <1>3, <3>1 DEF Attached
    <3>3. t[j].parent \notin B BY <1>1, <3>1
    <3>4. QED BY <1>8, <3>1, <3>2, <3>3 DEF Listed
  <2>3. QED BY <2>1, <2>2 DEF Attached
<1>10. Descends(u, rank)
  <2> SUFFICES ASSUME NEW j \in Ids, u[j] # None, u[j].parent # None
               PROVE  rank[u[j].parent] < rank[j]
    BY DEF Descends
  <2>1. u[j] = t[j] BY <1>7
  <2>2. QED BY <1>4, <2>1 DEF Descends
<1>11. Whole(u) BY <1>4, <1>6, <1>9, <1>10 DEF Whole
<1>12. QED BY <1>11 DEF u, B

\* A node is moved with all below it, to a node that is not below it.
LEMMA ReparentWhole ==
  ASSUME NEW t, Whole(t), NEW i \in Ids, t[i] # None, t[i].parent # None,
         NEW p \in Ids, t[p] # None, p # t[i].parent, p \notin Below(t, i)
  PROVE  Kept(t, InsertChild(RemoveChild(t, t[i].parent, i), p, i), i)
<1> DEFINE q == t[i].parent
           B == Below(t, i)
           a == RemoveChild(t, q, i)
           u == InsertChild(a, p, i)
<1>1. t \in Tree /\ None \notin Ids BY TreeAssumption DEF Whole
<1>2. /\ B \subseteq Ids /\ i \in B
      /\ \A j \in B \ {i} : t[j].parent \in B
      /\ \A j \in Ids : t[j] # None /\ t[j].parent \in B => j \in B
  BY BelowUp
<1> HIDE DEF B
<1>3. p # i /\ p \notin B BY <1>2 DEF B
<1>4. PICK r \in Ids : Attached(t, r) BY DEF Whole
<1>5. PICK rank \in [Ids -> Nat] : Descends(t, rank) BY DEF Whole
<1>6. q \in Ids BY <1>1, NodeOf
<1>7. a \in Tree /\ OthersAlike(t, a, i) /\ a[i] = [t[i] EXCEPT !.parent = None]
  BY <1>1, <1>6, RemoveTree
<1>8. KeepsLists(t, a, i) BY <1>1, <1>6, RemoveLists
<1> HIDE DEF a
<1>9. a[i] # None
  <2>1. t[i] \in HostNode BY <1>1, NodeOf
  <2>2. a[i] \in HostNode BY <1>7, <2>1 DEF HostNode, Optional
  <2>3. QED BY <2>2, NodeAssumption
<1>10. a[p] # None BY <1>3, <1>7 DEF OthersAlike, Alike
<1>11. u \in Tree /\ OthersAlike(a, u, i) /\ u[i] = [a[i] EXCEPT !.parent = p]
  <2> HIDE DEF q
  <2>1. a \in Tree BY <1>7
  <2>2. LET new == InsertChild(a, p, i)
        IN  /\ new \in Tree /\ OthersAlike(a, new, i)
            /\ a[i] # None => new[i] = [a[i] EXCEPT !.parent = p]
    BY <2>1, InsertTree
  <2>3. QED BY <1>9, <2>2
<1>12. KeepsLists(a, u, i) /\ Listed(u, p, i) BY <1>3, <1>7, <1>10, InsertLists
<1> HIDE DEF u
<1>13. u[i] # None /\ u[i].parent = p
  <2>1. a[i] \in HostNode BY <1>7, <1>9, NodeOf
  <2>2. u[i] \in HostNode /\ u[i].parent = p BY <1>11, <2>1 DEF HostNode, Optional
  <2>3. QED BY <2>2, NodeAssumption
<1>14. OthersAlike(t, u, i)
  <2> SUFFICES ASSUME NEW j \in Ids \ {i} PROVE Alike(t[j], u[j]) BY DEF OthersAlike
  <2>1. Alike(t[j], a[j]) /\ Alike(a[j], u[j]) BY <1>7, <1>11 DEF OthersAlike
  <2>2. QED BY <2>1, AlikeChain
<1>15. KeepsLists(t, u, i) BY <1>8, <1>12 DEF KeepsLists
<1>16. r # i BY <1>4 DEF Attached
<1>17. Attached(u, r)
  <2>1. u[r] # None /\ u[r].parent = None
    BY <1>4, <1>14, <1>16 DEF Attached, OthersAlike, Alike
  <2>2. ASSUME NEW j \in Ids \ {r}, u[j] # None
        PROVE  u[j].parent \in Ids /\ Listed(u, u[j].parent, j)
    <3>1. CASE j = i BY <1>12, <1>13, <3>1
    <3>2. CASE j # i
      <4>1. t[j] # None /\ u[j].parent = t[j].parent BY <1>14, <2>2, <3>2 DEF OthersAlike, Alike
      <4>2. t[j].parent \in Ids /\ Listed(t, t[j].parent, j) BY <1>4, <4>1 DEF Attached
      <4>3. QED BY <1>15, <3>2, <4>1, <4>2 DEF KeepsLists
    <3>3. QED BY <3>1, <3>2
  <2>3. QED BY <2>1, <2>2 DEF Attached
<1> DEFINE higher == [j \in Ids |-> IF j \in B THEN rank[j] + rank[p] + 1 ELSE rank[j]]
<1>18. higher \in [Ids -> Nat] OBVIOUS
<1>19. Descends(u, higher)
  <2> SUFFICES ASSUME NEW j \in Ids, u[j] # None, u[j].parent # None
               PROVE  higher[u[j].parent] < higher[j]
    BY DEF Descends
  <2>1. rank[j] \in Nat /\ rank[p] \in Nat OBVIOUS
  <2>2. CASE j = i BY <1>2, <1>3, <1>13, <2>1, <2>2
  <2>3. CASE j # i
    <3>1. t[j] # None /\ u[j].parent = t[j].parent BY <1>14, <2>3 DEF OthersAlike, Alike
    <3>2. j # r BY <1>17 DEF Attached
    <3>3. t[j].parent \in Ids BY <1>4, <3>1, <3>2 DEF Attached
    <3>4. rank[t[j].parent] < rank[j] BY <1>5, <3>1, <3>3, <1>1 DEF Descends
    <3>5. j \in B <=> t[j].parent \in B BY <1>2, <2>3, <3>1
    <3>6. rank[t[j].parent] \in Nat BY <3>3
    <3>7. QED BY <2>1, <3>1, <3>3, <3>4, <3>5, <3>6
  <2>4. QED BY <2>2, <2>3
<1>20. Whole(u)
  <2> HIDE DEF higher
  <2>1. QED BY <1>11, <1>17, <1>18, <1>19 DEF Whole
<1>21. Kept(t, u, i) BY <1>13, <1>14, <1>20 DEF Kept
<1>22. QED BY <1>21 DEF u, a

\* The first frame's root.
LEMMA StartWhole ==
  ASSUME NEW r \in Ids, NEW c \in Components
  PROVE  Whole(CreateNode(NoNodes, r, c))
<1> DEFINE u == CreateNode(NoNodes, r, c)
<1>1. NoNodes \in Tree BY DEF NoNodes, Tree, Optional
<1>2. u \in Tree /\ OthersAlike(NoNodes, u, r) /\ u[r] # None /\ u[r] = NewNode(c)
  <2>1. NoNodes[r] = None BY DEF NoNodes
  <2>2. QED BY <1>1, <2>1, CreateTree
<1> HIDE DEF u
<1>3. u[r].parent = None BY <1>2 DEF NewNode
<1>4. \A j \in Ids \ {r} : u[j] = None BY <1>2 DEF OthersAlike, Alike, NoNodes
<1>5. Attached(u, r) BY <1>2, <1>3, <1>4 DEF Attached
<1> DEFINE rank == [j \in Ids |-> 0]
<1>6. rank \in [Ids -> Nat] /\ Descends(u, rank) BY <1>3, <1>4 DEF Descends
<1>7. Whole(u)
  <2> HIDE DEF rank
  <2>1. QED BY <1>2, <1>5, <1>6 DEF Whole
<1>8. QED BY <1>7 DEF u

-----------------------------------------------------------------------------
(* The walk over the tree.                                                   *)

Steps == {"enter", "leave", "endless"} \X Ids
Tours == Seq(Steps)

\* What the children's tours make one after the other, and with the node's own steps.
Between(t, rows, i) ==
  FlattenSeq([k \in 1 .. Len(LiveChildren(t, i)) |-> rows[LiveChildren(t, i)[k]]])
Around(t, rows, i) == <<<<"enter", i>>>> \o Between(t, rows, i) \o <<<<"leave", i>>>>

Level(t) == [i \in Ids |-> <<<<"endless", i>>>>]
Levels == [Ids -> Tours]

\* The tours that go depth nodes down.
Tour(below, t) ==
  /\ below \in [0 .. Cardinality(Ids) -> Levels] /\ below[0] = Level(t)
  /\ \A d \in 0 .. Cardinality(Ids) - 1 : \A i \in Ids :
       below[d + 1][i] = Around(t, below[d], i)

LEMMA SingleStep ==
  ASSUME NEW i \in Ids, NEW what \in {"enter", "leave", "endless"}
  PROVE  /\ <<<<what, i>>>> \in Tours /\ <<what, i>> \in Steps
         /\ \A x : Holds(<<<<what, i>>>>, x) <=> x = <<what, i>>
<1>1. <<what, i>> \in Steps BY DEF Steps
<1> DEFINE s == <<what, i>>
<1> HIDE DEF s
<1>2. <<s>> \in Tours /\ Len(<<s>>) = 1 /\ <<s>>[1] = s BY <1>1 DEF Tours, s
<1>3. \A x : Holds(<<s>>, x) <=> x = s BY <1>2 DEF Holds
<1>4. QED BY <1>1, <1>2, <1>3 DEF s

\* The children's part lies in every set of tours that has each child's and is
\* closed under concatenation, and has each child's steps.
LEMMA BetweenIn ==
  ASSUME NEW t \in Tree, NEW i \in Ids, NEW rows \in Levels,
         NEW G \in SUBSET Tours, <<>> \in G, \A a, b \in G : a \o b \in G,
         \A c \in Ids : Holds(LiveChildren(t, i), c) => rows[c] \in G
  PROVE  /\ Between(t, rows, i) \in G
         /\ \A c \in Ids : Holds(LiveChildren(t, i), c) =>
              \A x : Holds(rows[c], x) => Holds(Between(t, rows, i), x)
<1> DEFINE kids == LiveChildren(t, i)
           n == Len(kids)
           s == [k \in 1 .. n |-> rows[kids[k]]]
<1>1. kids \in Seq(Ids) /\ n \in Nat BY KidsAre
<1> HIDE DEF kids
<1>2. \A k \in 1 .. n : kids[k] \in Ids /\ Holds(kids, kids[k]) BY <1>1 DEF Holds
<1>3. s \in [1 .. n -> G] BY <1>2 DEF kids
<1>4. Between(t, rows, i) = FlattenSeq(s) BY DEF Between, kids
<1>5. /\ FlattenSeq(s) \in G
      /\ \A k \in 1 .. n : \A x : Holds(s[k], x) => Holds(FlattenSeq(s), x)
  <2> HIDE DEF s, n
  <2>1. G \in SUBSET Seq(Steps) BY DEF Tours
  <2>2. QED BY <1>1, <1>3, <2>1, FlattenStays
<1>6. ASSUME NEW c \in Ids, Holds(kids, c), NEW x, Holds(rows[c], x)
      PROVE  Holds(Between(t, rows, i), x)
  <2>1. PICK k \in 1 .. n : kids[k] = c BY <1>6 DEF Holds
  <2>2. s[k] = rows[c] BY <2>1
  <2> HIDE DEF s
  <2>3. QED BY <1>4, <1>5, <1>6, <2>1, <2>2
<1>7. QED BY <1>4, <1>5, <1>6 DEF kids

\* The steps of a tour: the node's, and those of its children's tours.
LEMMA AroundIs ==
  ASSUME NEW t \in Tree, NEW i \in Ids, NEW rows \in Levels
  PROVE  /\ Around(t, rows, i) \in Tours /\ Between(t, rows, i) \in Tours
         /\ \A x : Holds(Around(t, rows, i), x) <=>
              \/ x = <<"enter", i>> \/ x = <<"leave", i>>
              \/ \E c \in Ids : Holds(LiveChildren(t, i), c) /\ Holds(rows[c], x)
<1> DEFINE B == Between(t, rows, i)
           Of(x) == \E c \in Ids : Holds(LiveChildren(t, i), c) /\ Holds(rows[c], x)
           G == {L \in Tours : \A x : Holds(L, x) => Of(x)}
<1>1. <<>> \in G
  <2>1. <<>> \in Tours /\ Len(<<>>) = 0 BY DEF Tours
  <2>2. \A x : ~Holds(<<>>, x) BY <2>1 DEF Holds
  <2>3. QED BY <2>1, <2>2
<1>2. ASSUME NEW a \in G, NEW b \in G PROVE a \o b \in G
  <2>1. a \in Seq(Steps) /\ b \in Seq(Steps) BY DEF Tours
  <2>2. a \o b \in Seq(Steps) /\ \A x : Holds(a \o b, x) <=> Holds(a, x) \/ Holds(b, x)
    BY <2>1, JoinedIs
  <2> HIDE DEF Of
  <2>3. QED BY <2>2 DEF Tours
<1>3. ASSUME NEW c \in Ids, Holds(LiveChildren(t, i), c) PROVE rows[c] \in G
  <2>1. rows[c] \in Tours BY DEF Levels
  <2>2. \A x : Holds(rows[c], x) => Of(x) BY <1>3
  <2> HIDE DEF Of
  <2>3. QED BY <2>1, <2>2
<1>4. B \in G /\ \A c \in Ids : Holds(LiveChildren(t, i), c) =>
                   \A x : Holds(rows[c], x) => Holds(B, x)
  <2>1. G \in SUBSET Tours OBVIOUS
  <2> HIDE DEF G, B
  <2>2. QED BY <1>1, <1>2, <1>3, <2>1, BetweenIn DEF B
<1>5. B \in Tours /\ \A x : Holds(B, x) <=> Of(x) BY <1>4
<1> HIDE DEF B, Of, G
<1> DEFINE e == <<<<"enter", i>>>>
           l == <<<<"leave", i>>>>
<1>6. /\ e \in Seq(Steps) /\ l \in Seq(Steps)
      /\ \A x : Holds(e, x) <=> x = <<"enter", i>>
      /\ \A x : Holds(l, x) <=> x = <<"leave", i>>
  BY SingleStep DEF Tours
<1> HIDE DEF e, l
<1>7. e \o B \in Seq(Steps) /\ \A x : Holds(e \o B, x) <=> Holds(e, x) \/ Holds(B, x)
  BY <1>5, <1>6, JoinedIs DEF Tours
<1>8. /\ (e \o B) \o l \in Seq(Steps)
      /\ \A x : Holds((e \o B) \o l, x) <=> Holds(e \o B, x) \/ Holds(l, x)
  <2> DEFINE f == e \o B
  <2> HIDE DEF f
  <2>1. f \o l \in Seq(Steps) /\ \A x : Holds(f \o l, x) <=> Holds(f, x) \/ Holds(l, x)
    <3>1. f \in Seq(Steps) BY <1>7 DEF f
    <3>2. QED BY <1>6, <3>1, JoinedIs
  <2>2. QED BY <2>1 DEF f
<1>9. Around(t, rows, i) = (e \o B) \o l BY DEF Around, e, l, B
<1>10. QED BY <1>5, <1>6, <1>7, <1>8, <1>9 DEF Tours, Of, B

LEMMA LevelsExist ==
  ASSUME NEW t \in Tree, NEW n \in Nat, NEW F \in [Levels -> Levels]
  PROVE  \E h \in [0 .. n -> Levels] : h = [d \in 0 .. n |-> IF d = 0 THEN Level(t) ELSE F[h[d - 1]]]
<1>1. Level(t) \in Levels BY SingleStep DEF Level, Levels
<1>2. QED BY <1>1, IterationExists

\* What Walk is made of.
LEMMA TourIs ==
  ASSUME NEW t \in Tree
  PROVE  \E below : /\ Tour(below, t)
                    /\ \A i \in Ids : Walk(t, i) = below[Cardinality(Ids)][i]
<1> DEFINE N == Cardinality(Ids)
           Fix(h) == h = [depth \in 0 .. Cardinality(Ids) |->
                            [i \in Ids |->
                               IF depth = 0 THEN <<<<"endless", i>>>>
                               ELSE LET kids == LiveChildren(t, i)
                                    IN  <<<<"enter", i>>>>
                                          \o FlattenSeq([k \in 1 .. Len(kids) |-> h[depth - 1][kids[k]]])
                                          \o <<<<"leave", i>>>>]]
           below == CHOOSE h : Fix(h)
           F == [rows \in Levels |-> [i \in Ids |-> Around(t, rows, i)]]
<1>1. N \in Nat BY GtkAssumption, FS_CardinalityType
<1>2. F \in [Levels -> Levels]
  <2>1. ASSUME NEW rows \in Levels PROVE [i \in Ids |-> Around(t, rows, i)] \in Levels
    BY AroundIs DEF Levels
  <2>2. QED BY <2>1
<1>3. PICK f \in [0 .. N -> Levels] : f = [d \in 0 .. N |-> IF d = 0 THEN Level(t) ELSE F[f[d - 1]]]
  <2> HIDE DEF F, N
  <2>1. QED BY <1>1, <1>2, LevelsExist
<1>4. f[0] = Level(t)
  <2>1. 0 \in 0 .. N BY <1>1
  <2> HIDE DEF F
  <2>2. QED BY <1>3, <2>1
<1>5. ASSUME NEW d \in 1 .. N PROVE f[d] = [i \in Ids |-> Around(t, f[d - 1], i)]
  <2>1. d \in 0 .. N /\ d # 0 /\ d - 1 \in 0 .. N BY <1>1
  <2>2. f[d - 1] \in Levels BY <2>1
  <2>3. f[d] = F[f[d - 1]]
    <3> HIDE DEF F
    <3>1. QED BY <1>3, <2>1
  <2>4. QED BY <2>2, <2>3
<1>6. Fix(f)
  <2>1. ASSUME NEW d \in 0 .. N
        PROVE  f[d] = [i \in Ids |->
                         IF d = 0 THEN <<<<"endless", i>>>>
                         ELSE LET kids == LiveChildren(t, i)
                              IN  <<<<"enter", i>>>>
                                    \o FlattenSeq([k \in 1 .. Len(kids) |-> f[d - 1][kids[k]]])
                                    \o <<<<"leave", i>>>>]
    <3>1. CASE d = 0 BY <1>4, <3>1 DEF Level
    <3>2. CASE d # 0
      <4>1. d \in 1 .. N BY <3>2
      <4>2. QED BY <1>5, <3>2, <4>1 DEF Around, Between
    <3>3. QED BY <3>1, <3>2
  <2>2. f = [d \in 0 .. N |-> f[d]]
    <3> HIDE DEF F
    <3>1. QED OBVIOUS
  <2>3. QED BY <2>1, <2>2
<1>7. Fix(below) BY <1>6
<1>8. \A i \in Ids : Walk(t, i) = below[N][i] BY DEF Walk
<1> HIDE DEF below
<1>9. below = f
  <2>1. below = [d \in 0 .. N |-> below[d]] BY <1>7
  <2> DEFINE S == {d \in Nat : d <= N => below[d] = f[d]}
  <2>2. 0 \in S
    <3>1. 0 \in 0 .. N BY <1>1
    <3>2. below[0] = [i \in Ids |-> <<<<"endless", i>>>>] BY <1>7, <3>1
    <3>3. QED BY <1>4, <3>2 DEF Level
  <2>3. ASSUME NEW d \in Nat, d \in S PROVE d + 1 \in S
    <3> SUFFICES ASSUME d + 1 <= N PROVE below[d + 1] = f[d + 1] OBVIOUS
    <3>1. d + 1 \in 1 .. N /\ d + 1 \in 0 .. N /\ d + 1 # 0 /\ (d + 1) - 1 = d BY <1>1
    <3>2. below[d] = f[d] BY <1>1, <2>3, <3>1
    <3>3. f[d + 1] = [i \in Ids |-> Around(t, f[d], i)] BY <1>5, <3>1
    <3>4. below[d + 1] = [i \in Ids |-> Around(t, below[d], i)]
      BY <1>7, <3>1 DEF Around, Between
    <3>5. QED BY <3>2, <3>3, <3>4
  <2>4. Nat \subseteq S
    <3> HIDE DEF S
    <3>1. QED BY <2>2, <2>3, Inductive
  <2>5. \A d \in 0 .. N : below[d] = f[d] BY <1>1, <2>4
  <2>6. f = [d \in 0 .. N |-> f[d]]
    <3> HIDE DEF F
    <3>1. QED OBVIOUS
  <2> HIDE DEF S, Fix
  <2>7. QED BY <2>1, <2>5, <2>6
<1>10. \A d \in 0 .. N - 1 : \A i \in Ids : f[d + 1][i] = Around(t, f[d], i)
  <2> SUFFICES ASSUME NEW d \in 0 .. N - 1, NEW i \in Ids PROVE f[d + 1][i] = Around(t, f[d], i)
    OBVIOUS
  <2>1. d + 1 \in 1 .. N /\ (d + 1) - 1 = d BY <1>1
  <2>2. f[d + 1] = [j \in Ids |-> Around(t, f[d], j)] BY <1>5, <2>1
  <2>3. QED BY <2>2
<1>11. Tour(f, t)
  <2> HIDE DEF F
  <2>1. QED BY <1>3, <1>4, <1>10 DEF Tour
<1>12. QED BY <1>8, <1>9, <1>11


-----------------------------------------------------------------------------
(* What the walk does, step by step.                                         *)

\* The fold of Step over the places of L, as a function on sets of places.
StepTable(h, base, L, n) ==
  h = [s \in SUBSET (1 .. n) |-> IF s = {} THEN base ELSE Step(h[s \ {Max(s)}], L[Max(s)])]

LEMMA StepTableExists ==
  ASSUME NEW base, NEW L, NEW N \in Nat
  PROVE  \E h : StepTable(h, base, L, N)
<1> DEFINE S == {m \in Nat : \E h : StepTable(h, base, L, m)}
<1>1. 0 \in S
  <2>1. SUBSET (1 .. 0) = {{}} OBVIOUS
  <2> DEFINE h == [s \in {{}} |-> base]
  <2>2. h = [s \in SUBSET (1 .. 0) |-> IF s = {} THEN base ELSE Step(h[s \ {Max(s)}], L[Max(s)])]
    BY <2>1
  <2>3. QED BY <2>2 DEF StepTable
<1>2. ASSUME NEW m \in Nat, m \in S PROVE m + 1 \in S
  <2>1. PICK h : StepTable(h, base, L, m) BY <1>2
  <2> HIDE DEF S
  <2> DEFINE g == [s \in SUBSET (1 .. m + 1) |->
                     IF m + 1 \in s THEN Step(h[s \ {m + 1}], L[m + 1]) ELSE h[s]]
  <2>2. ASSUME NEW s \in SUBSET (1 .. m + 1)
        PROVE  g[s] = IF s = {} THEN base ELSE Step(g[s \ {Max(s)}], L[Max(s)])
    <3>1. CASE s = {}
      <4>1. g[s] = h[s] /\ s \in SUBSET (1 .. m) BY <3>1
      <4>2. h[s] = base BY <4>1, <3>1, <2>1 DEF StepTable
      <4>3. QED BY <3>1, <4>1, <4>2
    <3>2. CASE s # {} /\ m + 1 \in s
      <4>1. Max(s) = m + 1
        <5>1. Max(s) \in s /\ m + 1 <= Max(s)
          <6>1. m + 1 \in Nat OBVIOUS
          <6>2. QED BY <6>1, <3>2, MaxIs
        <5>2. Max(s) \in 1 .. m + 1 BY <5>1
        <5>3. QED BY <5>1, <5>2
      <4>2. s \ {m + 1} \in SUBSET (1 .. m) /\ m + 1 \notin s \ {m + 1} OBVIOUS
      <4>3. s \ {m + 1} \in SUBSET (1 .. m + 1) OBVIOUS
      <4>4. g[s \ {m + 1}] = h[s \ {m + 1}] BY <4>2, <4>3
      <4>5. g[s] = Step(h[s \ {m + 1}], L[m + 1]) BY <3>2
      <4>6. QED BY <3>2, <4>1, <4>4, <4>5
    <3>3. CASE s # {} /\ m + 1 \notin s
      <4>1. s \in SUBSET (1 .. m) /\ Max(s) \in s
        <5>1. s \in SUBSET (1 .. m) BY <3>3
        <5>2. QED BY <5>1, <3>3, MaxIs
      <4>2. g[s] = h[s] BY <3>3
      <4>3. h[s] = Step(h[s \ {Max(s)}], L[Max(s)])
        BY <4>1, <3>3, <2>1 DEF StepTable
      <4>4. s \ {Max(s)} \in SUBSET (1 .. m + 1) /\ m + 1 \notin s \ {Max(s)}
        BY <3>3
      <4>5. g[s \ {Max(s)}] = h[s \ {Max(s)}] BY <4>4
      <4>6. QED BY <3>3, <4>2, <4>3, <4>5
    <3>4. QED BY <3>1, <3>2, <3>3
  <2>3. g = [s \in SUBSET (1 .. m + 1) |-> g[s]] OBVIOUS
  <2> HIDE DEF g
  <2>4. StepTable(g, base, L, m + 1) BY <2>2, <2>3 DEF StepTable
  <2>5. QED BY <2>4 DEF S
<1>3. Nat \subseteq S
  <2> HIDE DEF S
  <2>1. QED BY <1>1, <1>2, Inductive
<1>4. QED BY <1>3

\* What the walk has made of the start after each of its steps.
Course(h, base, L) ==
  /\ h[0] = base
  /\ \A k \in 1 .. Len(L) : h[k] = Step(h[k - 1], L[k])

LEMMA CourseExists ==
  ASSUME NEW base, NEW L \in Tours
  PROVE  \E h : Course(h, base, L) /\ FoldLeft(Step, base, L) = h[Len(L)]
<1> DEFINE n == Len(L)
           g == CHOOSE h : StepTable(h, base, L, n)
           h == [k \in 0 .. n |-> g[1 .. k]]
<1>1. n \in Nat /\ DOMAIN L = 1 .. n BY DEF Tours
<1>2. StepTable(g, base, L, n) BY <1>1, StepTableExists
<1>3. FoldLeft(Step, base, L) = g[1 .. n]
  BY <1>1 DEF FoldLeft, MapThenFoldSet, StepTable
<1> HIDE DEF g, n
<1>4. g[{}] = base
  <2>1. {} \in SUBSET (1 .. n) OBVIOUS
  <2>2. QED BY <1>2, <2>1 DEF StepTable
<1>5. ASSUME NEW k \in 1 .. n PROVE g[1 .. k] = Step(g[1 .. k - 1], L[k])
  <2>1. k \in Nat \ {0} /\ (1 .. k) \in SUBSET (1 .. n) BY <1>1
  <2>2. 1 .. k # {} /\ Max(1 .. k) = k /\ (1 .. k) \ {k} = 1 .. k - 1 BY <2>1, LastOfRange
  <2>3. QED BY <1>2, <2>1, <2>2 DEF StepTable
<1>6. h[0] = base
  <2>1. 0 \in 0 .. n /\ 1 .. 0 = {} BY <1>1
  <2>2. QED BY <1>4, <2>1
<1>7. \A k \in 1 .. n : h[k] = Step(h[k - 1], L[k])
  <2> SUFFICES ASSUME NEW k \in 1 .. n PROVE h[k] = Step(h[k - 1], L[k]) OBVIOUS
  <2>1. k \in 0 .. n /\ k - 1 \in 0 .. n BY <1>1
  <2>2. QED BY <1>5, <2>1
<1>8. FoldLeft(Step, base, L) = h[n] BY <1>1, <1>3
<1> HIDE DEF h
<1>9. QED BY <1>6, <1>7, <1>8 DEF Course, n


\* Tours of nodes that are there, in which a node is entered before it is left.
ProperAt(t, L, k) ==
  /\ L[k][2] \in Ids /\ t[L[k][2]] # None
  /\ \A i \in Ids : L[k] = <<"leave", i>> => \E m \in 1 .. k - 1 : L[m] = <<"enter", i>>
Proper(t) == {L \in Tours : \A k \in 1 .. Len(L) : ProperAt(t, L, k)}

LEMMA ProperEmpty ==
  ASSUME NEW t
  PROVE  <<>> \in Proper(t)
<1>1. <<>> \in Tours /\ Len(<<>>) = 0 BY DEF Tours
<1>2. QED BY <1>1 DEF Proper

LEMMA ProperOne ==
  ASSUME NEW t, NEW i \in Ids, t[i] # None, NEW what \in {"enter", "endless"}
  PROVE  <<<<what, i>>>> \in Proper(t)
<1> DEFINE L == <<<<what, i>>>>
<1>1. L \in Tours BY SingleStep
<1>2. Len(L) = 1 /\ L[1] = <<what, i>> OBVIOUS
<1>3. what # "leave" OBVIOUS
<1> HIDE DEF L
<1>4. ASSUME NEW k \in 1 .. Len(L) PROVE ProperAt(t, L, k)
  <2>1. L[k] = <<what, i>> BY <1>2
  <2>2. L[k][2] = i /\ L[k][1] = what BY <2>1
  <2>3. \A j \in Ids : L[k] # <<"leave", j>>
    <3>1. \A j \in Ids : <<"leave", j>>[1] = "leave" OBVIOUS
    <3>2. QED BY <1>3, <2>2, <3>1
  <2>4. QED BY <2>2, <2>3 DEF ProperAt
<1>5. QED BY <1>1, <1>4 DEF Proper, L

LEMMA ProperJoined ==
  ASSUME NEW t, NEW a \in Proper(t), NEW b \in Proper(t)
  PROVE  a \o b \in Proper(t)
<1>1. a \in Seq(Steps) /\ b \in Seq(Steps) BY DEF Proper, Tours
<1>2. /\ a \o b \in Seq(Steps) /\ Len(a \o b) = Len(a) + Len(b)
      /\ Len(a) \in Nat /\ Len(b) \in Nat
      /\ \A k \in 1 .. Len(a) : (a \o b)[k] = a[k]
      /\ \A k \in 1 .. Len(b) : (a \o b)[Len(a) + k] = b[k]
  BY <1>1, JoinedIs
<1> DEFINE L == a \o b
<1> HIDE DEF L
<1>3. ASSUME NEW k \in 1 .. Len(L) PROVE ProperAt(t, L, k)
  <2>1. CASE k <= Len(a)
    <3>1. k \in 1 .. Len(a) BY <1>2, <2>1 DEF L
    <3>2. L[k] = a[k] /\ \A m \in 1 .. k - 1 : L[m] = a[m] BY <1>2, <3>1 DEF L
    <3>3. ProperAt(t, a, k) BY <3>1 DEF Proper
    <3>4. QED BY <3>2, <3>3 DEF ProperAt
  <2>2. CASE k > Len(a)
    <3>1. PICK n \in 1 .. Len(b) : k = Len(a) + n
      <4>1. k - Len(a) \in 1 .. Len(b) /\ k = Len(a) + (k - Len(a)) BY <1>2, <2>2 DEF L
      <4>2. QED BY <4>1
    <3>2. L[k] = b[n] BY <1>2, <3>1 DEF L
    <3>3. ProperAt(t, b, n) BY <3>1 DEF Proper
    <3>4. ASSUME NEW i \in Ids, L[k] = <<"leave", i>>
          PROVE  \E m \in 1 .. k - 1 : L[m] = <<"enter", i>>
      <4>1. PICK m \in 1 .. n - 1 : b[m] = <<"enter", i>> BY <3>2, <3>3, <3>4 DEF ProperAt
      <4>2. Len(a) + m \in 1 .. k - 1 /\ m \in 1 .. Len(b) BY <1>2, <3>1, <4>1
      <4>3. L[Len(a) + m] = b[m] BY <1>2, <4>2 DEF L
      <4>4. QED BY <4>1, <4>2, <4>3
    <3>5. QED BY <3>2, <3>3, <3>4 DEF ProperAt
  <2>3. QED BY <1>2, <2>1, <2>2 DEF L
<1>4. L \in Tours BY <1>2 DEF L, Tours
<1>5. QED BY <1>3, <1>4 DEF Proper, L

\* A tour that has entered a node may leave it.
LEMMA ProperLeft ==
  ASSUME NEW t, NEW i \in Ids, t[i] # None, NEW a \in Proper(t), Holds(a, <<"enter", i>>)
  PROVE  a \o <<<<"leave", i>>>> \in Proper(t)
<1> DEFINE b == <<<<"leave", i>>>>
           L == a \o b
<1>1. a \in Seq(Steps) /\ b \in Seq(Steps) BY SingleStep DEF Proper, Tours
<1>2. Len(b) = 1 /\ b[1] = <<"leave", i>> OBVIOUS
<1> HIDE DEF b
<1>3. /\ L \in Seq(Steps) /\ Len(L) = Len(a) + 1
      /\ Len(a) \in Nat
      /\ \A k \in 1 .. Len(a) : L[k] = a[k]
      /\ L[Len(a) + 1] = <<"leave", i>>
  <2>1. /\ L \in Seq(Steps) /\ Len(L) = Len(a) + Len(b)
        /\ Len(a) \in Nat /\ Len(b) \in Nat
        /\ \A k \in 1 .. Len(a) : L[k] = a[k]
        /\ \A k \in 1 .. Len(b) : L[Len(a) + k] = b[k]
    BY <1>1, JoinedIs
  <2>2. 1 \in 1 .. Len(b) BY <1>2
  <2> HIDE DEF L
  <2>3. QED BY <1>2, <2>1, <2>2
<1> HIDE DEF L
<1>4. ASSUME NEW k \in 1 .. Len(L) PROVE ProperAt(t, L, k)
  <2>1. CASE k <= Len(a)
    <3>1. k \in 1 .. Len(a) BY <1>3, <2>1
    <3>2. L[k] = a[k] /\ \A m \in 1 .. k - 1 : L[m] = a[m] BY <1>3, <3>1
    <3>3. ProperAt(t, a, k) BY <3>1 DEF Proper
    <3>4. QED BY <3>2, <3>3 DEF ProperAt
  <2>2. CASE k > Len(a)
    <3>1. k = Len(a) + 1 BY <1>3, <2>2
    <3>2. L[k] = <<"leave", i>> BY <1>3, <3>1
    <3>3. L[k][2] = i BY <3>2
    <3>4. PICK m \in 1 .. Len(a) : a[m] = <<"enter", i>> BY DEF Holds
    <3>5. m \in 1 .. k - 1 /\ L[m] = <<"enter", i>> BY <1>3, <3>1, <3>4
    <3>6. \A j \in Ids : L[k] = <<"leave", j>> => j = i BY <3>2
    <3>7. QED BY <3>3, <3>5, <3>6 DEF ProperAt
  <2>3. QED BY <1>3, <2>1, <2>2
<1>5. L \in Tours BY <1>3 DEF Tours
<1>6. QED BY <1>4, <1>5 DEF Proper, L, b

LEMMA ProperAround ==
  ASSUME NEW t \in Tree, NEW i \in Ids, t[i] # None, NEW rows \in Levels,
         \A c \in Ids : t[c] # None => rows[c] \in Proper(t)
  PROVE  Around(t, rows, i) \in Proper(t)
<1> DEFINE e == <<<<"enter", i>>>>
           B == Between(t, rows, i)
<1>1. B \in Proper(t)
  <2> DEFINE G == Proper(t)
  <2>1. G \in SUBSET Tours BY DEF Proper
  <2>2. <<>> \in G BY ProperEmpty
  <2>3. \A a, b \in G : a \o b \in G BY ProperJoined
  <2>4. \A c \in Ids : Holds(LiveChildren(t, i), c) => rows[c] \in G BY KidsAre
  <2> HIDE DEF G
  <2>5. Between(t, rows, i) \in G BY <2>1, <2>2, <2>3, <2>4, BetweenIn
  <2>6. QED BY <2>5 DEF G
<1>2. e \in Proper(t) /\ Holds(e, <<"enter", i>>)
  <2>1. "enter" \in {"enter", "endless"} OBVIOUS
  <2>2. e \in Proper(t) BY <2>1, ProperOne
  <2>3. Len(e) = 1 /\ e[1] = <<"enter", i>> OBVIOUS
  <2> HIDE DEF e
  <2>4. QED BY <2>2, <2>3 DEF Holds
<1> HIDE DEF e, B
<1>3. e \o B \in Proper(t) BY <1>1, <1>2, ProperJoined
<1>4. Holds(e \o B, <<"enter", i>>)
  <2>1. e \in Seq(Steps) /\ B \in Seq(Steps) BY <1>1, <1>2 DEF Proper, Tours
  <2>2. \A x : Holds(e \o B, x) <=> Holds(e, x) \/ Holds(B, x) BY <2>1, JoinedIs
  <2>3. QED BY <1>2, <2>2
<1> DEFINE f == e \o B
<1> HIDE DEF f
<1>5. f \o <<<<"leave", i>>>> \in Proper(t)
  <2>1. f \in Proper(t) /\ Holds(f, <<"enter", i>>) BY <1>3, <1>4 DEF f
  <2>2. QED BY <2>1, ProperLeft
<1>6. Around(t, rows, i) = f \o <<<<"leave", i>>>> BY DEF Around, f, e, B
<1>7. QED BY <1>5, <1>6

LEMMA ToursProper ==
  ASSUME NEW t \in Tree, NEW below, Tour(below, t)
  PROVE  \A d \in 0 .. Cardinality(Ids) : \A i \in Ids : t[i] # None => below[d][i] \in Proper(t)
<1> DEFINE N == Cardinality(Ids)
           S == {d \in Nat : d <= N => \A i \in Ids : t[i] # None => below[d][i] \in Proper(t)}
<1>1. N \in Nat BY GtkAssumption, FS_CardinalityType
<1>2. 0 \in S
  <2>1. \A i \in Ids : below[0][i] = <<<<"endless", i>>>> BY DEF Tour, Level
  <2>2. QED BY <2>1, ProperOne
<1>3. ASSUME NEW d \in Nat, d \in S PROVE d + 1 \in S
  <2> SUFFICES ASSUME d + 1 <= N, NEW i \in Ids, t[i] # None
               PROVE  below[d + 1][i] \in Proper(t)
    OBVIOUS
  <2>1. d \in 0 .. N - 1 /\ d \in 0 .. N /\ d <= N BY <1>1
  <2>2. below[d] \in Levels /\ below[d + 1][i] = Around(t, below[d], i) BY <2>1 DEF Tour
  <2>3. \A c \in Ids : t[c] # None => below[d][c] \in Proper(t) BY <1>3, <2>1
  <2>4. QED BY <2>2, <2>3, ProperAround
<1>4. Nat \subseteq S
  <2> HIDE DEF S
  <2>1. QED BY <1>2, <1>3, Inductive
<1>5. QED BY <1>1, <1>4


\* Who is entered leads on to those they list, one level down.
LEMMA EnteredOn ==
  ASSUME NEW t \in Tree, NEW below, Tour(below, t)
  PROVE  \A d \in 0 .. Cardinality(Ids) - 1 : \A i, q, c \in Ids :
           Holds(below[d][i], <<"enter", q>>) /\ Holds(LiveChildren(t, q), c) =>
             Holds(below[d + 1][i], <<"enter", c>>)
<1> DEFINE N == Cardinality(Ids)
           On(d) == \A i, q, c \in Ids :
                      Holds(below[d][i], <<"enter", q>>) /\ Holds(LiveChildren(t, q), c) =>
                        Holds(below[d + 1][i], <<"enter", c>>)
           S == {d \in Nat : d + 1 <= N => On(d)}
<1>1. N \in Nat BY GtkAssumption, FS_CardinalityType
<1>2. 0 \in S
  <2>1. ASSUME NEW i \in Ids, NEW q \in Ids PROVE ~Holds(below[0][i], <<"enter", q>>)
    <3>1. below[0][i] = <<<<"endless", i>>>> BY DEF Tour, Level
    <3>2. Holds(below[0][i], <<"enter", q>>) => <<"enter", q>> = <<"endless", i>>
      <4>1. "endless" \in {"enter", "leave", "endless"} OBVIOUS
      <4>2. QED BY <3>1, <4>1, SingleStep
    <3>3. <<"enter", q>>[1] = "enter" /\ <<"endless", i>>[1] = "endless" OBVIOUS
    <3>4. QED BY <3>2, <3>3
  <2>2. QED BY <2>1
<1>3. ASSUME NEW d \in Nat, d \in S PROVE d + 1 \in S
  <2> SUFFICES ASSUME (d + 1) + 1 <= N, NEW i \in Ids, NEW q \in Ids, NEW c \in Ids,
                      Holds(below[d + 1][i], <<"enter", q>>), Holds(LiveChildren(t, q), c)
               PROVE  Holds(below[(d + 1) + 1][i], <<"enter", c>>)
    OBVIOUS
  <2>1. d \in 0 .. N - 1 /\ d + 1 \in 0 .. N - 1 /\ d \in 0 .. N /\ d + 1 \in 0 .. N BY <1>1
  <2>2. On(d) BY <1>3, <1>1
  <2> HIDE DEF On, S
  <2>3. /\ below[d] \in Levels /\ below[d + 1] \in Levels
        /\ \A j \in Ids : below[d + 1][j] = Around(t, below[d], j)
        /\ below[(d + 1) + 1][i] = Around(t, below[d + 1], i)
    BY <2>1 DEF Tour
  <2>4. \A j \in Ids : \A x : Holds(below[d + 1][j], x) <=>
              \/ x = <<"enter", j>> \/ x = <<"leave", j>>
              \/ \E e \in Ids : Holds(LiveChildren(t, j), e) /\ Holds(below[d][e], x)
    BY <2>3, AroundIs
  <2>5. \A x : Holds(below[(d + 1) + 1][i], x) <=>
              \/ x = <<"enter", i>> \/ x = <<"leave", i>>
              \/ \E e \in Ids : Holds(LiveChildren(t, i), e) /\ Holds(below[d + 1][e], x)
    BY <2>3, AroundIs
  <2>6. CASE q = i
    <3>1. Holds(below[d + 1][c], <<"enter", c>>) BY <2>4
    <3>2. QED BY <2>5, <2>6, <3>1
  <2>7. CASE q # i
    <3>1. <<"enter", q>> # <<"enter", i>> /\ <<"enter", q>> # <<"leave", i>>
      <4>1. /\ <<"enter", q>>[1] = "enter" /\ <<"leave", i>>[1] = "leave"
            /\ <<"enter", q>>[2] = q /\ <<"enter", i>>[2] = i
        OBVIOUS
      <4>2. QED BY <2>7, <4>1
    <3>2. PICK e \in Ids : Holds(LiveChildren(t, i), e) /\ Holds(below[d][e], <<"enter", q>>)
      BY <2>4, <3>1
    <3>3. Holds(below[d + 1][e], <<"enter", c>>) BY <2>2, <3>2 DEF On
    <3>4. QED BY <2>5, <3>2, <3>3
  <2>8. QED BY <2>6, <2>7
<1>4. Nat \subseteq S
  <2> HIDE DEF S
  <2>1. QED BY <1>2, <1>3, Inductive
<1>5. \A d \in 0 .. N - 1 : On(d)
  <2>1. \A d \in 0 .. N - 1 : d \in Nat /\ d + 1 <= N BY <1>1
  <2> HIDE DEF On
  <2>2. QED BY <1>4, <2>1
<1>6. QED BY <1>5

\* Every node is entered.
LEMMA AllEntered ==
  ASSUME NEW t, Whole(t), NEW below, Tour(below, t), NEW r \in Ids, Attached(t, r)
  PROVE  \A j \in Ids : t[j] # None => Holds(below[Cardinality(Ids)][r], <<"enter", j>>)
<1> DEFINE N == Cardinality(Ids)
<1>1. t \in Tree BY DEF Whole
<1>2. PICK rank \in [Ids -> Nat] : Descends(t, rank) BY DEF Whole
<1>3. N \in Nat /\ \E small \in [Ids -> 0 .. N - 1] : Descends(t, small)
  BY <1>1, <1>2, SmallRanks
<1>4. PICK small \in [Ids -> 0 .. N - 1] : Descends(t, small) BY <1>3
<1> DEFINE ReachedBy(k) == \A j \in Ids : t[j] # None /\ small[j] <= k =>
                           Holds(below[k + 1][r], <<"enter", j>>)
           S == {k \in Nat : k + 1 <= N => ReachedBy(k)}
<1>5. ASSUME NEW d \in 0 .. N - 1 PROVE Holds(below[d + 1][r], <<"enter", r>>)
  <2>1. below[d] \in Levels /\ below[d + 1][r] = Around(t, below[d], r)
    <3>1. d \in 0 .. N BY <1>3
    <3>2. QED BY <3>1 DEF Tour
  <2>2. QED BY <1>1, <2>1, AroundIs
<1>6. ASSUME NEW j \in Ids, j # r, t[j] # None
      PROVE  /\ t[j].parent \in Ids /\ t[t[j].parent] # None
             /\ Holds(LiveChildren(t, t[j].parent), j)
             /\ small[t[j].parent] < small[j]
  <2>1. t[j].parent \in Ids /\ Listed(t, t[j].parent, j) BY <1>6 DEF Attached
  <2>2. None \notin Ids BY TreeAssumption
  <2>3. t[t[j].parent] # None /\ Holds(ChildrenOf(t, t[j].parent), j)
    BY <2>1 DEF Listed, ChildrenOf
  <2>4. Holds(LiveChildren(t, t[j].parent), j) BY <1>1, <1>6, <2>1, <2>3, KidsAre
  <2>5. small[t[j].parent] < small[j] BY <1>4, <1>6, <2>1, <2>2 DEF Descends
  <2>6. QED BY <2>1, <2>3, <2>4, <2>5
<1>7. 0 \in S
  <2> SUFFICES ASSUME 0 + 1 <= N, NEW j \in Ids, t[j] # None, small[j] <= 0
               PROVE  Holds(below[0 + 1][r], <<"enter", j>>)
    OBVIOUS
  <2>1. j = r
    <3>1. ASSUME j # r PROVE FALSE
      <4>1. t[j].parent \in Ids /\ small[t[j].parent] < small[j] BY <1>6, <3>1
      <4>2. small[t[j].parent] \in 0 .. N - 1 /\ small[j] \in 0 .. N - 1 BY <4>1
      <4>3. QED BY <4>1, <4>2
    <3>2. QED BY <3>1
  <2>2. 0 \in 0 .. N - 1 BY <1>3
  <2>3. QED BY <1>5, <2>1, <2>2
<1>8. ASSUME NEW k \in Nat, k \in S PROVE k + 1 \in S
  <2> SUFFICES ASSUME (k + 1) + 1 <= N, NEW j \in Ids, t[j] # None, small[j] <= k + 1
               PROVE  Holds(below[(k + 1) + 1][r], <<"enter", j>>)
    OBVIOUS
  <2>1. k + 1 \in 0 .. N - 1 /\ k + 1 <= N BY <1>3
  <2>2. ReachedBy(k) BY <1>8, <2>1
  <2>3. CASE j = r BY <1>5, <2>1, <2>3
  <2>4. CASE j # r
    <3> DEFINE p == t[j].parent
    <3>1. /\ p \in Ids /\ t[p] # None /\ Holds(LiveChildren(t, p), j)
          /\ small[p] < small[j]
      BY <1>6, <2>4
    <3> HIDE DEF p
    <3>2. small[p] \in 0 .. N - 1 /\ small[j] \in 0 .. N - 1 BY <3>1
    <3>3. small[p] <= k BY <3>1, <3>2
    <3>4. Holds(below[k + 1][r], <<"enter", p>>) BY <2>2, <3>1, <3>3
    <3>5. QED BY <1>1, <2>1, <3>1, <3>4, EnteredOn
  <2>5. QED BY <2>3, <2>4
<1>9. Nat \subseteq S
  <2> HIDE DEF S
  <2>1. QED BY <1>7, <1>8, Inductive
<1>10. ASSUME NEW j \in Ids, t[j] # None PROVE Holds(below[N][r], <<"enter", j>>)
  <2>1. small[j] \in 0 .. N - 1 OBVIOUS
  <2>2. N - 1 \in Nat /\ (N - 1) + 1 = N /\ small[j] <= N - 1 BY <1>3, <2>1
  <2>3. ReachedBy(N - 1)
    <3>1. N - 1 \in S BY <1>9, <2>2
    <3>2. QED BY <2>2, <3>1
  <2>4. QED BY <1>10, <2>2, <2>3
<1>11. QED BY <1>10

\* Those whose tours come to no end.
Endless(level) == {i \in Ids : \E j \in Ids : Holds(level[i], <<"endless", j>>)}

\* The walk is endless only if nodes are listed in a circle.
LEMMA EndlessCircles ==
  ASSUME NEW t \in Tree, NEW below, Tour(below, t), NEW i \in Ids, NEW j \in Ids,
         Holds(below[Cardinality(Ids)][i], <<"endless", j>>)
  PROVE  ListedInCircles(t)
<1> DEFINE N == Cardinality(Ids)
           D(d) == Endless(below[d])
<1>1. N \in Nat /\ IsFiniteSet(Ids) BY GtkAssumption, FS_CardinalityType
<1>2. ASSUME NEW d \in 0 .. N - 1, NEW k \in Ids
      PROVE  k \in D(d + 1) <=> \E c \in D(d) : Holds(LiveChildren(t, k), c)
  <2>1. below[d] \in Levels /\ below[d + 1][k] = Around(t, below[d], k)
    <3>1. d \in 0 .. N BY <1>1
    <3>2. QED BY <3>1 DEF Tour
  <2>2. \A x : Holds(below[d + 1][k], x) <=>
              \/ x = <<"enter", k>> \/ x = <<"leave", k>>
              \/ \E c \in Ids : Holds(LiveChildren(t, k), c) /\ Holds(below[d][c], x)
    BY <2>1, AroundIs
  <2>3. \A m \in Ids : <<"endless", m>> # <<"enter", k>> /\ <<"endless", m>> # <<"leave", k>>
    <3>1. \A m \in Ids : <<"endless", m>>[1] = "endless" OBVIOUS
    <3>2. <<"enter", k>>[1] = "enter" /\ <<"leave", k>>[1] = "leave" OBVIOUS
    <3>3. QED BY <3>1, <3>2
  <2>4. QED BY <2>2, <2>3 DEF Endless
<1>3. D(0) = Ids
  <2>1. ASSUME NEW k \in Ids PROVE Holds(below[0][k], <<"endless", k>>)
    <3>1. below[0][k] = <<<<"endless", k>>>> BY DEF Tour, Level
    <3>2. QED BY <3>1, SingleStep
  <2>2. QED BY <2>1 DEF Endless
<1>4. \A d \in 0 .. N : D(d) \in SUBSET Ids BY DEF Endless
<1> HIDE DEF D
<1>5. ASSUME ~ListedInCircles(t) PROVE FALSE
  <2>1. ASSUME NEW Q \in SUBSET Ids, Q # {}
        PROVE  \E k \in Q : \A c \in Q : ~Holds(LiveChildren(t, k), c)
    BY <1>5, <2>1 DEF ListedInCircles
  <2> DEFINE Shrinks(d) == D(d + 1) \subseteq D(d)
             A == {d \in Nat : d + 1 <= N => Shrinks(d)}
  <2>2. 0 \in A BY <1>1, <1>3, <1>4
  <2>3. ASSUME NEW d \in Nat, d \in A PROVE d + 1 \in A
    <3> SUFFICES ASSUME (d + 1) + 1 <= N, NEW k \in D((d + 1) + 1) PROVE k \in D(d + 1)
      OBVIOUS
    <3>1. d \in 0 .. N - 1 /\ d + 1 \in 0 .. N - 1 /\ (d + 1) + 1 \in 0 .. N BY <1>1
    <3>2. k \in Ids BY <1>4, <3>1
    <3>3. PICK c \in D(d + 1) : Holds(LiveChildren(t, k), c) BY <1>2, <3>1, <3>2
    <3>4. c \in D(d) BY <2>3, <1>1, <3>1, <3>3
    <3>5. QED BY <1>2, <3>1, <3>2, <3>3, <3>4
  <2>4. Nat \subseteq A
    <3> HIDE DEF A
    <3>1. QED BY <2>2, <2>3, Inductive
  <2>5. \A d \in 0 .. N - 1 : D(d + 1) \subseteq D(d)
    <3>1. \A d \in 0 .. N - 1 : d \in Nat /\ d + 1 <= N BY <1>1
    <3>2. QED BY <2>4, <3>1
  <2> HIDE DEF A
  <2> DEFINE B == {d \in Nat : d <= N => Cardinality(D(d)) <= N - d}
  <2>6. 0 \in B BY <1>1, <1>3
  <2>7. ASSUME NEW d \in Nat, d \in B PROVE d + 1 \in B
    <3> SUFFICES ASSUME d + 1 <= N PROVE Cardinality(D(d + 1)) <= N - (d + 1) OBVIOUS
    <3>1. d \in 0 .. N - 1 /\ d \in 0 .. N /\ d + 1 \in 0 .. N BY <1>1
    <3>2. Cardinality(D(d)) <= N - d BY <1>1, <2>7, <3>1
    <3> HIDE DEF B
    <3>3. IsFiniteSet(D(d)) /\ IsFiniteSet(D(d + 1)) BY <1>1, <1>4, <3>1, FS_Subset
    <3>4. Cardinality(D(d)) \in Nat /\ Cardinality(D(d + 1)) \in Nat BY <3>3, FS_CardinalityType
    <3>5. D(d + 1) \subseteq D(d) BY <2>5, <3>1
    <3>6. CASE D(d) = {}
      <4>1. D(d + 1) = {} BY <3>5, <3>6
      <4>2. Cardinality(D(d + 1)) = 0 BY <4>1, FS_EmptySet
      <4>3. QED BY <1>1, <3>1, <4>2
    <3>7. CASE D(d) # {}
      <4>1. PICK k \in D(d) : \A c \in D(d) : ~Holds(LiveChildren(t, k), c)
        BY <1>4, <2>1, <3>1, <3>7
      <4>2. k \notin D(d + 1)
        <5>1. k \in Ids BY <1>4, <3>1, <4>1
        <5>2. QED BY <1>2, <3>1, <4>1, <5>1
      <4>3. D(d + 1) # D(d) BY <4>1, <4>2
      <4>4. Cardinality(D(d + 1)) <= Cardinality(D(d)) /\ Cardinality(D(d + 1)) # Cardinality(D(d))
        BY <3>3, <3>5, <4>3, FS_Subset
      <4> DEFINE a == Cardinality(D(d))
                 b == Cardinality(D(d + 1))
      <4>5. a \in Nat /\ b \in Nat /\ b <= a /\ b # a /\ a <= N - d BY <3>2, <3>4, <4>4
      <4>6. N \in Nat /\ d \in Nat BY <1>1
      <4> HIDE DEF a, b, N
      <4>7. b <= N - (d + 1) BY <4>5, <4>6
      <4>8. QED BY <4>7 DEF b, N
    <3>8. QED BY <3>6, <3>7
  <2>8. Nat \subseteq B
    <3> HIDE DEF B
    <3>1. QED BY <2>6, <2>7, Inductive
  <2>9. Cardinality(D(N)) <= 0 BY <1>1, <2>8
  <2> HIDE DEF B
  <2>10. N \in 0 .. N BY <1>1
  <2>11. IsFiniteSet(D(N)) BY <1>1, <1>4, <2>10, FS_Subset
  <2>12. D(N) = {} BY <2>9, <2>11, FS_EmptySet, FS_CardinalityType
  <2>13. i \in D(N) BY DEF D, Endless
  <2>14. QED BY <2>12, <2>13
<1>6. QED BY <1>5

\* What is known of the walk over a tree.
LEMMA WalkIs ==
  ASSUME NEW t, Whole(t)
  PROVE  /\ Walk(t, Root(t)) \in Proper(t)
         /\ \A j \in Ids : t[j] # None => Holds(Walk(t, Root(t)), <<"enter", j>>)
         /\ \A j \in Ids : Holds(Walk(t, Root(t)), <<"endless", j>>) => ListedInCircles(t)
<1>1. t \in Tree BY DEF Whole
<1>2. PICK r \in Ids : Attached(t, r) BY DEF Whole
<1>3. Root(t) = r BY <1>1, <1>2, RootIs
<1>4. PICK below : Tour(below, t) /\ \A i \in Ids : Walk(t, i) = below[Cardinality(Ids)][i]
  BY <1>1, TourIs
<1>5. Walk(t, r) = below[Cardinality(Ids)][r] BY <1>4
<1>6. Walk(t, r) \in Proper(t)
  <2>1. Cardinality(Ids) \in 0 .. Cardinality(Ids) BY GtkAssumption, FS_CardinalityType
  <2>2. t[r] # None BY <1>2 DEF Attached
  <2>3. below[Cardinality(Ids)][r] \in Proper(t) BY <1>1, <1>4, <2>1, <2>2, ToursProper
  <2>4. QED BY <1>5, <2>3
<1>7. \A j \in Ids : t[j] # None => Holds(Walk(t, r), <<"enter", j>>)
  BY <1>2, <1>4, <1>5, AllEntered
<1>8. \A j \in Ids : Holds(Walk(t, r), <<"endless", j>>) => ListedInCircles(t)
  BY <1>1, <1>4, <1>5, EndlessCircles
<1>9. QED BY <1>3, <1>6, <1>7, <1>8


-----------------------------------------------------------------------------
(* What a walk does to a node's widget.                                      *)

States == [widgets : [Ids -> Widget \union {None}], attached : [Ids -> SUBSET Bits],
           crashed : BOOLEAN]

ControlKinds == {WidgetKind(c) : c \in Controls}

\* A widget's controllers and handlers, with the bits noted for it, its node n,
\* and those whose type changed or whose mask lost a bit: bits noted are wired; each
\* once, no other and only those that the node asks for, while neither happened;
\* only a bound control has handlers.
Wired(w, a, n, i, changed, shrunk) ==
  /\ \A b \in a : w.gestures[b] >= 1
  /\ i \notin changed \union shrunk =>
       /\ \A b \in Bits : w.gestures[b] = IF b \in a THEN 1 ELSE 0
       /\ a \subseteq DesiredListeners(n)
  /\ w.handlers > 0 => HasBinding(n) /\ w.kind \in ControlKinds
  /\ i \notin changed => w.kind = WidgetKind(n.component)

\* Once the walk has entered the node.
Served(w, a, n, i, changed) ==
  /\ DesiredListeners(n) \subseteq a
  /\ HasBinding(n) /\ n.component \in Controls /\ i \notin changed => w.handlers >= 1

Settled(w, n) ==
  n.component \in Controls /\ w.kind = WidgetKind(n.component) => w.shown = Content(n)

\* All but one node's widgets are left alone.
Elsewhere(s, u, i) ==
  \A j \in Ids \ {i} : u.widgets[j] = s.widgets[j] /\ u.attached[j] = s.attached[j]

LEMMA ListenersAre ==
  ASSUME NEW n \in HostNode
  PROVE  DesiredListeners(n) \in SUBSET Bits /\ Content(n) \in TextValues \union {NoText}
<1>1. n.prop \in PropValues \union {None} /\ n.text \in TextValues \union {None}
  BY DEF HostNode, Optional
<1>2. n.prop # None => Mask[n.prop] \in SUBSET Bits BY <1>1, GtkAssumption
<1>3. QED BY <1>1, <1>2 DEF DesiredListeners, Content

\* The classes of widgets; no control is a label.
LEMMA KindsAre ==
  /\ \A c : WidgetKind(c) \in Kinds
  /\ WidgetKind(TEXT) \notin ControlKinds
<1>1. \A c : WidgetKind(c) \in Kinds BY DEF WidgetKind, Boxes, Lazy, Kinds
<1>2. \A c \in Controls : WidgetKind(c) # WidgetKind(TEXT)
  BY ComponentAssumption DEF WidgetKind, Boxes, Lazy, Controls
<1>3. QED BY <1>1, <1>2 DEF ControlKinds

LEMMA BuiltIs ==
  ASSUME NEW n \in HostNode, NEW i, NEW changed, NEW shrunk
  PROVE  /\ BuildWidget(n) \in Widget /\ Wired(BuildWidget(n), {}, n, i, changed, shrunk)
         /\ BuildWidget(n).shown = IF n.component \in Composites \union {TEXT}
                                   THEN Content(n) ELSE NoText
         /\ BuildWidget(n).handlers = 0 /\ BuildWidget(n).kind = WidgetKind(n.component)
<1> DEFINE w == BuildWidget(n)
<1>1. /\ w.kind = WidgetKind(n.component) /\ w.children = <<>> /\ w.box = FALSE
      /\ w.body = FALSE /\ w.gestures = [b \in Bits |-> 0] /\ w.handlers = 0
      /\ w.shown = IF n.component \in Composites \union {TEXT} THEN Content(n) ELSE NoText
  BY DEF BuildWidget
<1>2. WidgetKind(n.component) \in Kinds BY KindsAre
<1>3. Content(n) \in TextValues \union {NoText} BY ListenersAre
<1>4. w \in Widget BY <1>2, <1>3 DEF BuildWidget, Widget
<1> HIDE DEF w
<1>5. Wired(w, {}, n, i, changed, shrunk) BY <1>1 DEF Wired
<1>6. QED BY <1>1, <1>4, <1>5 DEF w

LEMMA CreatedIs ==
  ASSUME NEW s \in States, NEW i \in Ids, NEW n \in HostNode, NEW changed, NEW shrunk,
         IF s.widgets[i] = None THEN s.attached[i] = {}
         ELSE Wired(s.widgets[i], s.attached[i], n, i, changed, shrunk)
  PROVE  LET u == GetOrCreate(s, i, n)
         IN  /\ u \in States /\ Elsewhere(s, u, i) /\ u.widgets[i] \in Widget
             /\ u.widgets[i] = IF s.widgets[i] = None THEN BuildWidget(n) ELSE s.widgets[i]
             /\ Wired(u.widgets[i], u.attached[i], n, i, changed, shrunk)
             /\ u.crashed => s.crashed \/ n.component \in Lazy
<1> DEFINE u == GetOrCreate(s, i, n)
<1>1. /\ s.widgets \in [Ids -> Widget \union {None}] /\ s.attached \in [Ids -> SUBSET Bits]
      /\ s.crashed \in BOOLEAN
  BY DEF States
<1>2. CASE s.widgets[i] # None
  <2>1. u = s BY <1>2 DEF GetOrCreate
  <2>2. u.widgets[i] \in Widget BY <1>1, <1>2, <2>1
  <2>3. QED BY <1>2, <2>1, <2>2 DEF Elsewhere
<1>3. CASE s.widgets[i] = None
  <2> DEFINE b == BuildWidget(n)
  <2>1. b \in Widget /\ Wired(b, {}, n, i, changed, shrunk) BY BuiltIs
  <2> HIDE DEF b
  <2>2. u = [s EXCEPT !.widgets[i] = b, !.crashed = @ \/ n.component \in Lazy]
    BY <1>3 DEF GetOrCreate, b
  <2>3. /\ u.widgets = [s.widgets EXCEPT ![i] = b] /\ u.attached = s.attached
        /\ u.crashed = (s.crashed \/ n.component \in Lazy)
    BY <2>2 DEF States
  <2>4. u \in States BY <1>1, <2>1, <2>2 DEF States
  <2> HIDE DEF u
  <2>5. u.widgets[i] = b /\ u.attached[i] = {} BY <1>1, <1>3, <2>3
  <2>6. Elsewhere(s, u, i) BY <1>1, <2>3 DEF Elsewhere
  <2>7. QED BY <1>3, <2>1, <2>3, <2>4, <2>5, <2>6 DEF u, b
<1>4. QED BY <1>2, <1>3


\* Wiring what the node asks for and is not noted.
LEMMA ListenedIs ==
  ASSUME NEW s \in States, NEW i \in Ids, NEW n \in HostNode, NEW changed, NEW shrunk,
         s.widgets[i] \in Widget,
         Wired(s.widgets[i], s.attached[i], n, i, changed, shrunk)
  PROVE  LET u == AttachListeners(s, i, n)
         IN  /\ u \in States /\ Elsewhere(s, u, i) /\ u.widgets[i] \in Widget
             /\ Wired(u.widgets[i], u.attached[i], n, i, changed, shrunk)
             /\ DesiredListeners(n) \subseteq u.attached[i]
             /\ u.widgets[i].shown = s.widgets[i].shown
             /\ u.widgets[i].kind = s.widgets[i].kind
             /\ u.crashed = s.crashed
<1> DEFINE u == AttachListeners(s, i, n)
           D == DesiredListeners(n)
           w == s.widgets[i]
           new == D \ s.attached[i]
           g == [b \in Bits |-> w.gestures[b] + IF b \in new THEN 1 ELSE 0]
           v == [w EXCEPT !.gestures = g]
<1>1. /\ s.widgets \in [Ids -> Widget \union {None}] /\ s.attached \in [Ids -> SUBSET Bits]
      /\ s.crashed \in BOOLEAN
  BY DEF States
<1>2. D \in SUBSET Bits BY ListenersAre
<1> HIDE DEF D
<1>3. CASE new = {}
  <2>1. u = s BY <1>3 DEF AttachListeners, D
  <2>2. D \subseteq s.attached[i] BY <1>3
  <2>3. QED BY <2>1, <2>2 DEF Elsewhere, D
<1>4. CASE new # {}
  <2>1. w.gestures \in [Bits -> Nat] BY DEF Widget
  <2>2. g \in [Bits -> Nat] BY <2>1
  <2>3. v \in Widget BY <2>2 DEF Widget
  <2>4. /\ v.gestures = g /\ v.shown = w.shown /\ v.kind = w.kind
        /\ v.handlers = w.handlers
    BY DEF Widget
  <2>5. u = [s EXCEPT !.widgets[i] = v, !.attached[i] = D]
    <3>1. u = [s EXCEPT !.widgets[i].gestures =
                       [b \in Bits |-> @[b] + IF b \in new THEN 1 ELSE 0],
                     !.attached[i] = D]
      BY <1>4 DEF AttachListeners, D
    <3>2. QED BY <3>1
  <2> HIDE DEF v
  <2>6. /\ u.widgets = [s.widgets EXCEPT ![i] = v]
        /\ u.attached = [s.attached EXCEPT ![i] = D] /\ u.crashed = s.crashed
    BY <2>5 DEF States
  <2>7. u \in States
    <3>1. u = [widgets |-> [s.widgets EXCEPT ![i] = v],
               attached |-> [s.attached EXCEPT ![i] = D], crashed |-> s.crashed]
      BY <2>5 DEF States
    <3>2. /\ [s.widgets EXCEPT ![i] = v] \in [Ids -> Widget \union {None}]
          /\ [s.attached EXCEPT ![i] = D] \in [Ids -> SUBSET Bits]
      BY <1>1, <1>2, <2>3
    <3> HIDE DEF u
    <3>3. QED BY <1>1, <3>1, <3>2 DEF States
  <2> HIDE DEF u
  <2>8. u.widgets[i] = v /\ u.attached[i] = D BY <1>1, <2>6
  <2>9. Elsewhere(s, u, i) BY <1>1, <2>6 DEF Elsewhere
  <2>10. Wired(v, D, n, i, changed, shrunk)
    <3>1. ASSUME NEW b \in D PROVE v.gestures[b] >= 1
      <4>1. b \in Bits /\ w.gestures[b] \in Nat BY <1>2, <2>1
      <4>2. v.gestures[b] = w.gestures[b] + IF b \in new THEN 1 ELSE 0 BY <2>4, <4>1
      <4>3. CASE b \in new BY <4>1, <4>2, <4>3
      <4>4. CASE b \notin new
        <5>1. b \in s.attached[i] BY <4>4
        <5>2. w.gestures[b] >= 1 BY <5>1 DEF Wired
        <5>3. QED BY <4>1, <4>2, <4>4, <5>2
      <4>5. QED BY <4>3, <4>4
    <3>2. ASSUME i \notin changed \union shrunk, NEW b \in Bits
          PROVE  v.gestures[b] = IF b \in D THEN 1 ELSE 0
      <4>1. /\ w.gestures[b] = IF b \in s.attached[i] THEN 1 ELSE 0
            /\ s.attached[i] \subseteq D
        BY <3>2 DEF Wired, D
      <4>2. v.gestures[b] = w.gestures[b] + IF b \in new THEN 1 ELSE 0 BY <2>4
      <4>3. QED BY <4>1, <4>2
    <3>3. /\ v.handlers > 0 => HasBinding(n) /\ v.kind \in ControlKinds
          /\ i \notin changed => v.kind = WidgetKind(n.component)
      BY <2>4 DEF Wired
    <3>4. QED BY <3>1, <3>2, <3>3 DEF Wired, D
  <2>11. QED BY <2>3, <2>4, <2>6, <2>7, <2>8, <2>9, <2>10 DEF u, D
<1>5. QED BY <1>3, <1>4

\* One handler more for a bound control.
LEMMA ControlledIs ==
  ASSUME NEW s \in States, NEW i \in Ids, NEW n \in HostNode, NEW changed, NEW shrunk,
         s.widgets[i] \in Widget,
         Wired(s.widgets[i], s.attached[i], n, i, changed, shrunk),
         DesiredListeners(n) \subseteq s.attached[i]
  PROVE  LET u == AttachControlEvents(s, i, n)
         IN  /\ u \in States /\ Elsewhere(s, u, i) /\ u.widgets[i] \in Widget
             /\ Wired(u.widgets[i], u.attached[i], n, i, changed, shrunk)
             /\ Served(u.widgets[i], u.attached[i], n, i, changed)
             /\ u.widgets[i].shown = s.widgets[i].shown
             /\ u.widgets[i].kind = s.widgets[i].kind
             /\ u.crashed = s.crashed
<1> DEFINE u == AttachControlEvents(s, i, n)
           w == s.widgets[i]
           v == [w EXCEPT !.handlers = w.handlers + 1]
           fits == /\ HasBinding(n) /\ n.component \in Controls
                   /\ w.kind = WidgetKind(n.component)
<1>1. /\ s.widgets \in [Ids -> Widget \union {None}] /\ s.attached \in [Ids -> SUBSET Bits]
      /\ s.crashed \in BOOLEAN
  BY DEF States
<1>2. CASE ~fits
  <2>1. u = s BY <1>2 DEF AttachControlEvents
  <2>2. i \notin changed => w.kind = WidgetKind(n.component) BY DEF Wired
  <2>3. Served(w, s.attached[i], n, i, changed) BY <1>2, <2>2 DEF Served
  <2>4. QED BY <2>1, <2>3 DEF Elsewhere
<1>3. CASE fits
  <2>1. w.handlers \in Nat BY DEF Widget
  <2>2. v \in Widget BY <2>1 DEF Widget
  <2>3. /\ v.gestures = w.gestures /\ v.shown = w.shown /\ v.kind = w.kind
        /\ v.handlers = w.handlers + 1
    BY DEF Widget
  <2>4. u = [s EXCEPT !.widgets[i] = v]
    <3>1. u = [s EXCEPT !.widgets[i].handlers = @ + 1] BY <1>3 DEF AttachControlEvents
    <3>2. QED BY <3>1
  <2> HIDE DEF v
  <2>5. /\ u.widgets = [s.widgets EXCEPT ![i] = v]
        /\ u.attached = s.attached /\ u.crashed = s.crashed
    BY <2>4 DEF States
  <2>6. u \in States BY <1>1, <2>2, <2>4 DEF States
  <2> HIDE DEF u
  <2>7. u.widgets[i] = v /\ u.attached[i] = s.attached[i] BY <1>1, <2>5
  <2>8. Elsewhere(s, u, i) BY <1>1, <2>5 DEF Elsewhere
  <2>9. Wired(v, s.attached[i], n, i, changed, shrunk)
    <3>1. v.kind \in ControlKinds BY <1>3, <2>3 DEF ControlKinds
    <3>2. QED BY <1>3, <2>3, <3>1 DEF Wired
  <2>10. Served(v, s.attached[i], n, i, changed) BY <2>1, <2>3 DEF Served
  <2>11. QED BY <2>2, <2>3, <2>5, <2>6, <2>7, <2>8, <2>9, <2>10 DEF u
<1>4. QED BY <1>2, <1>3


\* Showing what the node has: a panic only if a control with handlers showed
\* something else.
LEMMA ShownIs ==
  ASSUME NEW s \in States, NEW i \in Ids, NEW n \in HostNode, NEW changed, NEW shrunk,
         s.widgets[i] \in Widget,
         Wired(s.widgets[i], s.attached[i], n, i, changed, shrunk),
         Served(s.widgets[i], s.attached[i], n, i, changed)
  PROVE  LET u == ShowContent(s, i, n)
         IN  /\ u \in States /\ Elsewhere(s, u, i) /\ u.widgets[i] \in Widget
             /\ Wired(u.widgets[i], u.attached[i], n, i, changed, shrunk)
             /\ Served(u.widgets[i], u.attached[i], n, i, changed)
             /\ Settled(u.widgets[i], n)
             /\ u.crashed => \/ s.crashed
                             \/ /\ HasBinding(n) /\ n.component \in Controls
                                /\ s.widgets[i].shown # Content(n)
                                /\ s.widgets[i].kind = WidgetKind(n.component)
<1> DEFINE u == ShowContent(s, i, n)
           w == s.widgets[i]
           shows == n.component \in Controls \union {TEXT} /\ w.kind = WidgetKind(n.component)
<1>1. /\ s.widgets \in [Ids -> Widget \union {None}] /\ s.attached \in [Ids -> SUBSET Bits]
      /\ s.crashed \in BOOLEAN
  BY DEF States
<1>2. Content(n) \in TextValues \union {NoText} BY ListenersAre
<1>3. BUTTON \notin Controls BY ComponentAssumption DEF Controls
<1>4. CASE n.component = BUTTON /\ IsButton(w) /\ ~IsComposite(n)
  <2> DEFINE v == [w EXCEPT !.shown = Content(n), !.body = FALSE]
  <2>1. v \in Widget BY <1>2 DEF Widget
  <2>2. /\ v.gestures = w.gestures /\ v.kind = w.kind /\ v.handlers = w.handlers
    BY DEF Widget
  <2>3. u = [s EXCEPT !.widgets[i] = v]
    <3>1. u = [s EXCEPT !.widgets[i].shown = Content(n), !.widgets[i].body = FALSE]
      BY <1>4 DEF ShowContent
    <3>2. QED BY <3>1, <1>1 DEF States
  <2> HIDE DEF v
  <2>4. /\ u.widgets = [s.widgets EXCEPT ![i] = v]
        /\ u.attached = s.attached /\ u.crashed = s.crashed
    BY <2>3 DEF States
  <2>5. u \in States BY <1>1, <2>1, <2>3 DEF States
  <2> HIDE DEF u
  <2>6. u.widgets[i] = v /\ u.attached[i] = s.attached[i] BY <1>1, <2>4
  <2>7. Elsewhere(s, u, i) BY <1>1, <2>4 DEF Elsewhere
  <2>8. Wired(v, s.attached[i], n, i, changed, shrunk) BY <2>2 DEF Wired
  <2>9. Served(v, s.attached[i], n, i, changed) BY <2>2 DEF Served
  <2>10. Settled(v, n) BY <1>3, <1>4 DEF Settled
  <2>11. QED BY <2>1, <2>4, <2>5, <2>6, <2>7, <2>8, <2>9, <2>10 DEF u
<1>5. CASE n.component # BUTTON /\ shows
  <2> DEFINE v == [w EXCEPT !.shown = Content(n)]
             c == s.crashed \/ (w.shown # Content(n) /\ w.handlers > 0)
  <2>1. v \in Widget BY <1>2 DEF Widget
  <2>2. /\ v.gestures = w.gestures /\ v.kind = w.kind /\ v.handlers = w.handlers
        /\ v.shown = Content(n)
    BY DEF Widget
  <2>3. u = [s EXCEPT !.widgets[i] = v, !.crashed = c]
    <3>1. u = [s EXCEPT !.widgets[i].shown = Content(n),
                 !.crashed = @ \/ (s.widgets[i].shown # Content(n) /\ s.widgets[i].handlers > 0)]
      BY <1>5 DEF ShowContent, Set
    <3>2. QED BY <3>1, <1>1 DEF States
  <2> HIDE DEF v
  <2>4. /\ u.widgets = [s.widgets EXCEPT ![i] = v]
        /\ u.attached = s.attached /\ u.crashed = c
    BY <2>3 DEF States
  <2>5. u \in States
    <3>1. c \in BOOLEAN OBVIOUS
    <3>2. u = [widgets |-> [s.widgets EXCEPT ![i] = v], attached |-> s.attached, crashed |-> c]
      BY <2>3 DEF States
    <3>3. [s.widgets EXCEPT ![i] = v] \in [Ids -> Widget \union {None}] BY <1>1, <2>1
    <3> HIDE DEF u, c
    <3>4. QED BY <1>1, <3>1, <3>2, <3>3 DEF States
  <2> HIDE DEF u
  <2>6. u.widgets[i] = v /\ u.attached[i] = s.attached[i] BY <1>1, <2>4
  <2>7. Elsewhere(s, u, i) BY <1>1, <2>4 DEF Elsewhere
  <2>8. Wired(v, s.attached[i], n, i, changed, shrunk) BY <2>2 DEF Wired
  <2>9. Served(v, s.attached[i], n, i, changed) BY <2>2 DEF Served
  <2>10. Settled(v, n) BY <2>2 DEF Settled
  <2>11. u.crashed => \/ s.crashed
                      \/ /\ HasBinding(n) /\ n.component \in Controls
                         /\ w.shown # Content(n) /\ w.kind = WidgetKind(n.component)
    <3>1. w.handlers > 0 => HasBinding(n) /\ w.kind \in ControlKinds BY DEF Wired
    <3>2. w.kind = WidgetKind(n.component) /\ n.component \in Controls \union {TEXT} BY <1>5
    <3>3. w.handlers > 0 => n.component \in Controls BY <3>1, <3>2, KindsAre
    <3>4. QED BY <2>4, <3>1, <3>2, <3>3
  <2>12. QED BY <2>1, <2>5, <2>6, <2>7, <2>8, <2>9, <2>10, <2>11 DEF u
<1>6. CASE /\ ~(n.component = BUTTON /\ IsButton(w) /\ ~IsComposite(n))
           /\ ~(n.component # BUTTON /\ shows)
  <2>1. u = s BY <1>6 DEF ShowContent
  <2>2. Settled(w, n) BY <1>3, <1>6 DEF Settled
  <2>3. QED BY <2>1, <2>2 DEF Elsewhere
<1>7. QED BY <1>4, <1>5, <1>6


\* Entering node i, which is n now and of which the frame before left old: a panic
\* only if it is a lazy stack or a bound control that showed something else.
LEMMA EnteredIs ==
  ASSUME NEW s \in States, ~s.crashed, NEW i \in Ids, NEW n \in HostNode,
         NEW changed, NEW shrunk,
         IF s.widgets[i] = None THEN s.attached[i] = {}
         ELSE Wired(s.widgets[i], s.attached[i], n, i, changed, shrunk)
  PROVE  LET u == Update(GetOrCreate(s, i, n), i, n)
         IN  /\ u \in States /\ Elsewhere(s, u, i) /\ u.widgets[i] \in Widget
             /\ Wired(u.widgets[i], u.attached[i], n, i, changed, shrunk)
             /\ Served(u.widgets[i], u.attached[i], n, i, changed)
             /\ Settled(u.widgets[i], n)
             /\ u.crashed => \/ n.component \in Lazy
                             \/ /\ HasBinding(n) /\ n.component \in Controls
                                /\ IF s.widgets[i] = None
                                   THEN n.component \notin Composites /\ Content(n) # NoText
                                   ELSE /\ s.widgets[i].shown # Content(n)
                                        /\ s.widgets[i].kind = WidgetKind(n.component)
<1> DEFINE a == GetOrCreate(s, i, n)
           b == AttachListeners(a, i, n)
           c == AttachControlEvents(b, i, n)
           u == ShowContent(c, i, n)
<1>1. /\ a \in States /\ Elsewhere(s, a, i) /\ a.widgets[i] \in Widget
      /\ a.widgets[i] = IF s.widgets[i] = None THEN BuildWidget(n) ELSE s.widgets[i]
      /\ Wired(a.widgets[i], a.attached[i], n, i, changed, shrunk)
      /\ a.crashed => s.crashed \/ n.component \in Lazy
  BY CreatedIs
<1>2. Update(a, i, n) = u BY DEF Update
<1> HIDE DEF a
<1>3. /\ b \in States /\ Elsewhere(a, b, i) /\ b.widgets[i] \in Widget
      /\ Wired(b.widgets[i], b.attached[i], n, i, changed, shrunk)
      /\ DesiredListeners(n) \subseteq b.attached[i]
      /\ b.widgets[i].shown = a.widgets[i].shown /\ b.widgets[i].kind = a.widgets[i].kind
      /\ b.crashed = a.crashed
  BY <1>1, ListenedIs
<1> HIDE DEF b
<1>4. /\ c \in States /\ Elsewhere(b, c, i) /\ c.widgets[i] \in Widget
      /\ Wired(c.widgets[i], c.attached[i], n, i, changed, shrunk)
      /\ Served(c.widgets[i], c.attached[i], n, i, changed)
      /\ c.widgets[i].shown = b.widgets[i].shown /\ c.widgets[i].kind = b.widgets[i].kind
      /\ c.crashed = b.crashed
  BY <1>3, ControlledIs
<1> HIDE DEF c
<1>5. /\ u \in States /\ Elsewhere(c, u, i) /\ u.widgets[i] \in Widget
      /\ Wired(u.widgets[i], u.attached[i], n, i, changed, shrunk)
      /\ Served(u.widgets[i], u.attached[i], n, i, changed)
      /\ Settled(u.widgets[i], n)
      /\ u.crashed => \/ c.crashed
                      \/ /\ HasBinding(n) /\ n.component \in Controls
                         /\ c.widgets[i].shown # Content(n)
                         /\ c.widgets[i].kind = WidgetKind(n.component)
  BY <1>4, ShownIs
<1> HIDE DEF u
<1>6. Elsewhere(s, u, i) BY <1>1, <1>3, <1>4, <1>5 DEF Elsewhere
<1>7. ASSUME u.crashed, n.component \notin Lazy
      PROVE  /\ HasBinding(n) /\ n.component \in Controls
             /\ IF s.widgets[i] = None
                THEN n.component \notin Composites /\ Content(n) # NoText
                ELSE /\ s.widgets[i].shown # Content(n)
                     /\ s.widgets[i].kind = WidgetKind(n.component)
  <2>1. ~c.crashed BY <1>1, <1>3, <1>4, <1>7
  <2>2. /\ HasBinding(n) /\ n.component \in Controls
        /\ a.widgets[i].shown # Content(n) /\ a.widgets[i].kind = WidgetKind(n.component)
    BY <1>3, <1>4, <1>5, <1>7, <2>1
  <2>3. CASE s.widgets[i] = None
    <3>1. a.widgets[i].shown = IF n.component \in Composites \union {TEXT}
                               THEN Content(n) ELSE NoText
      BY <1>1, <2>3, BuiltIs
    <3>2. QED BY <2>2, <2>3, <3>1
  <2>4. CASE s.widgets[i] # None BY <1>1, <2>2, <2>4
  <2>5. QED BY <2>2, <2>3, <2>4
<1>8. QED BY <1>2, <1>5, <1>6, <1>7 DEF a

\* What a widget's children have nothing to do with.
AsWired(w, v) ==
  /\ v \in Widget /\ v.kind = w.kind /\ v.shown = w.shown /\ v.gestures = w.gestures
  /\ v.handlers = w.handlers

\* All but one node's widget, and of that its children, are left alone.
Relisted(s, u, i) ==
  /\ u \in States /\ u.attached = s.attached /\ u.crashed = s.crashed
  /\ \A j \in Ids \ {i} : u.widgets[j] = s.widgets[j]
  /\ AsWired(s.widgets[i], u.widgets[i])

LEMMA ReconciledIs ==
  ASSUME NEW s \in States, NEW i \in Ids, s.widgets[i] \in Widget, NEW target \in Seq(Ids)
  PROVE  Relisted(s, Reconcile(s, i, target), i)
<1> DEFINE w == s.widgets[i]
           kept == OnlyIn(target, {c \in Ids : ~HeldElsewhere(s, i, c)})
           v == [w EXCEPT !.children = kept]
           u == Reconcile(s, i, target)
<1>1. /\ s.widgets \in [Ids -> Widget \union {None}] /\ s.attached \in [Ids -> SUBSET Bits]
      /\ s.crashed \in BOOLEAN
  BY DEF States
<1>2. kept \in Seq(Ids) BY OnlyInIs
<1> HIDE DEF kept
<1>3. CASE w.children = target
  <2>1. u = s BY <1>3 DEF Reconcile
  <2>2. QED BY <2>1 DEF Relisted, AsWired
<1>4. CASE w.children # target
  <2>1. v \in Widget BY <1>2 DEF Widget
  <2>2. AsWired(w, v) BY <2>1 DEF Widget, AsWired
  <2>3. u = [s EXCEPT !.widgets[i] = v]
    <3>1. u = [s EXCEPT !.widgets[i].children = kept] BY <1>4 DEF Reconcile, kept
    <3>2. QED BY <3>1
  <2> HIDE DEF v
  <2>4. /\ u.widgets = [s.widgets EXCEPT ![i] = v]
        /\ u.attached = s.attached /\ u.crashed = s.crashed
    BY <2>3 DEF States
  <2>5. u \in States BY <1>1, <2>1, <2>3 DEF States
  <2> HIDE DEF u
  <2>6. QED BY <1>1, <2>2, <2>4, <2>5 DEF Relisted, u
<1>5. QED BY <1>3, <1>4

LEMMA ComposedIs ==
  ASSUME NEW s \in States, NEW i \in Ids, s.widgets[i] \in Widget, NEW target \in Seq(Ids)
  PROVE  Relisted(s, SyncComposite(s, i, target), i)
<1> DEFINE w == s.widgets[i]
           v == [w EXCEPT !.box = TRUE, !.body = TRUE]
           boxed == IF s.widgets[i].box THEN s
                    ELSE [s EXCEPT !.widgets[i].box = TRUE, !.widgets[i].body = TRUE]
<1>1. /\ s.widgets \in [Ids -> Widget \union {None}] /\ s.attached \in [Ids -> SUBSET Bits]
      /\ s.crashed \in BOOLEAN
  BY DEF States
<1>2. Relisted(s, s, i) BY DEF Relisted, AsWired
<1>3. Relisted(s, boxed, i)
  <2>1. CASE w.box BY <1>2, <2>1
  <2>2. CASE ~w.box
    <3>1. v \in Widget BY DEF Widget
    <3>2. AsWired(w, v) BY <3>1 DEF Widget, AsWired
    <3>3. boxed = [s EXCEPT !.widgets[i] = v] BY <2>2, <1>1 DEF States
    <3> HIDE DEF v, boxed
    <3>4. /\ boxed.widgets = [s.widgets EXCEPT ![i] = v]
          /\ boxed.attached = s.attached /\ boxed.crashed = s.crashed
      BY <3>3 DEF States
    <3>5. boxed \in States BY <1>1, <3>1, <3>3 DEF States
    <3>6. QED BY <1>1, <3>2, <3>4, <3>5 DEF Relisted
  <2>3. QED BY <2>1, <2>2
<1>4. CASE ~IsButton(s.widgets[i]) BY <1>2, <1>4 DEF SyncComposite
<1>5. CASE IsButton(s.widgets[i])
  <2>1. SyncComposite(s, i, target) = Reconcile(boxed, i, target) BY <1>5 DEF SyncComposite
  <2> HIDE DEF boxed
  <2>2. boxed \in States /\ boxed.widgets[i] \in Widget BY <1>3 DEF Relisted, AsWired
  <2>3. Relisted(boxed, Reconcile(boxed, i, target), i) BY <2>2, ReconciledIs
  <2>4. QED BY <1>3, <2>1, <2>3 DEF Relisted, AsWired
<1>6. QED BY <1>4, <1>5

LEMMA LeftIs ==
  ASSUME tree' \in Tree, NEW s \in States, NEW i \in Ids, s.widgets[i] \in Widget
  PROVE  Relisted(s, Leave(s, i), i)
<1>1. LiveChildren(tree', i) \in Seq(Ids) BY KidsAre
<1>2. Relisted(s, s, i) BY DEF Relisted, AsWired
<1>3. \/ Leave(s, i) = s
      \/ Leave(s, i) = Reconcile(s, i, LiveChildren(tree', i))
      \/ Leave(s, i) = SyncComposite(s, i, LiveChildren(tree', i))
  BY DEF Leave
<1>4. QED BY <1>1, <1>2, <1>3, ReconciledIs, ComposedIs


-----------------------------------------------------------------------------
(* What a frame does to the widgets.                                         *)

\* How the walk may find the widget of node i, which is n, when the frame before
\* left it as old.
Found(s, n, i, old, changed, shrunk) ==
  IF s.widgets[i] = None THEN s.attached[i] = {} /\ old = None
  ELSE /\ Wired(s.widgets[i], s.attached[i], n, i, changed, shrunk)
       /\ \/ Settled(s.widgets[i], n)
          \/ old # None /\ s.widgets[i].shown = old.shown

\* How it leaves it.
Shaped(s, n, i, changed, shrunk) ==
  /\ s.widgets[i] \in Widget
  /\ Wired(s.widgets[i], s.attached[i], n, i, changed, shrunk)
  /\ Served(s.widgets[i], s.attached[i], n, i, changed)

Excused ==
  \/ ListedInCircles(tree')
  \/ \E i \in Ids : Discrepancy(i)
  \/ \E i \in Ids : tree'[i] # None /\ tree'[i].component \in Lazy

\* The course of the walk, in which some nodes have been entered.
OnCourse(s, entered, changed, shrunk) ==
  /\ s \in States
  /\ s.crashed => Excused
  /\ ~s.crashed => \A i \in Ids :
       IF tree'[i] = None THEN s.widgets[i] = None /\ s.attached[i] = {}
       ELSE /\ Found(s, tree'[i], i, widgets[i], changed, shrunk)
            /\ i \in entered => Shaped(s, tree'[i], i, changed, shrunk)

LEMMA EnterOnCourse ==
  ASSUME tree' \in Tree, NEW s, NEW entered, NEW changed, NEW shrunk,
         OnCourse(s, entered, changed, shrunk), ~s.crashed,
         NEW i \in Ids, tree'[i] # None
  PROVE  OnCourse(Enter(s, i), entered \union {i}, changed, shrunk)
<1> DEFINE n == tree'[i]
           u == Enter(s, i)
<1>1. n \in HostNode BY NodeOf
<1>2. s \in States /\ Found(s, n, i, widgets[i], changed, shrunk) BY DEF OnCourse
<1>3. u = Update(GetOrCreate(s, i, n), i, n) BY DEF Enter
<1> HIDE DEF n
<1>4. IF s.widgets[i] = None THEN s.attached[i] = {}
      ELSE Wired(s.widgets[i], s.attached[i], n, i, changed, shrunk)
  BY <1>2 DEF Found
<1>5. /\ u \in States /\ Elsewhere(s, u, i) /\ u.widgets[i] \in Widget
      /\ Wired(u.widgets[i], u.attached[i], n, i, changed, shrunk)
      /\ Served(u.widgets[i], u.attached[i], n, i, changed)
      /\ Settled(u.widgets[i], n)
      /\ u.crashed => \/ n.component \in Lazy
                      \/ /\ HasBinding(n) /\ n.component \in Controls
                         /\ IF s.widgets[i] = None
                            THEN n.component \notin Composites /\ Content(n) # NoText
                            ELSE /\ s.widgets[i].shown # Content(n)
                                 /\ s.widgets[i].kind = WidgetKind(n.component)
  BY <1>1, <1>2, <1>3, <1>4, EnteredIs
<1> HIDE DEF u
<1>6. u.widgets[i] # None BY <1>5, WidgetAssumption
<1>7. ASSUME u.crashed, n.component \notin Lazy PROVE Discrepancy(i)
  <2>1. CASE s.widgets[i] = None
    <3>1. widgets[i] = None BY <1>2, <2>1 DEF Found
    <3>2. QED BY <1>5, <1>7, <2>1, <3>1 DEF Discrepancy, n
  <2>2. CASE s.widgets[i] # None
    <3>0. ~Settled(s.widgets[i], n) BY <1>5, <1>7, <2>2 DEF Settled
    <3>1. widgets[i] # None /\ s.widgets[i].shown = widgets[i].shown BY <1>2, <2>2, <3>0 DEF Found
    <3>2. QED BY <1>5, <1>7, <2>2, <3>1 DEF Discrepancy, n
  <2>3. QED BY <2>1, <2>2
<1>8. Found(u, n, i, widgets[i], changed, shrunk) BY <1>5, <1>6 DEF Found
<1>9. Shaped(u, n, i, changed, shrunk) BY <1>5 DEF Shaped
<1>10. ASSUME NEW j \in Ids, j # i
       PROVE  IF tree'[j] = None THEN u.widgets[j] = None /\ u.attached[j] = {}
              ELSE /\ Found(u, tree'[j], j, widgets[j], changed, shrunk)
                   /\ j \in entered \union {i} => Shaped(u, tree'[j], j, changed, shrunk)
  <2>1. IF tree'[j] = None THEN s.widgets[j] = None /\ s.attached[j] = {}
        ELSE /\ Found(s, tree'[j], j, widgets[j], changed, shrunk)
             /\ j \in entered => Shaped(s, tree'[j], j, changed, shrunk)
    BY DEF OnCourse
  <2>2. u.widgets[j] = s.widgets[j] /\ u.attached[j] = s.attached[j]
    BY <1>5, <1>10 DEF Elsewhere
  <2>3. QED BY <1>10, <2>1, <2>2 DEF Found, Shaped
<1>11. u.crashed => Excused BY <1>7 DEF Excused, n
<1>12. QED BY <1>5, <1>8, <1>9, <1>10, <1>11 DEF OnCourse, u, n


LEMMA LeaveOnCourse ==
  ASSUME tree' \in Tree, NEW s, NEW entered, NEW changed, NEW shrunk,
         OnCourse(s, entered, changed, shrunk), ~s.crashed,
         NEW i \in Ids, tree'[i] # None, i \in entered
  PROVE  OnCourse(Leave(s, i), entered, changed, shrunk)
<1> DEFINE u == Leave(s, i)
<1>1. s \in States /\ Shaped(s, tree'[i], i, changed, shrunk) BY DEF OnCourse
<1>2. Relisted(s, u, i) BY <1>1, LeftIs DEF Shaped
<1> HIDE DEF u
<1>3. u \in States /\ u.crashed = s.crashed /\ u.attached = s.attached BY <1>2 DEF Relisted
<1>4. ASSUME NEW j \in Ids, tree'[j] = None PROVE u.widgets[j] = None /\ u.attached[j] = {}
  <2>1. s.widgets[j] = None /\ s.attached[j] = {} BY <1>4 DEF OnCourse
  <2>2. j # i BY <1>4
  <2>3. QED BY <1>2, <2>1, <2>2 DEF Relisted
<1>5. ASSUME NEW j \in Ids, tree'[j] # None
      PROVE  /\ Found(u, tree'[j], j, widgets[j], changed, shrunk)
             /\ j \in entered => Shaped(u, tree'[j], j, changed, shrunk)
  <2>1. /\ Found(s, tree'[j], j, widgets[j], changed, shrunk)
        /\ j \in entered => Shaped(s, tree'[j], j, changed, shrunk)
    BY <1>5 DEF OnCourse
  <2>2. CASE j # i
    <3>1. u.widgets[j] = s.widgets[j] /\ u.attached[j] = s.attached[j]
      BY <1>2, <2>2 DEF Relisted
    <3>2. QED BY <2>1, <3>1 DEF Found, Shaped
  <2>3. CASE j = i
    <3> DEFINE w == s.widgets[i]
               v == u.widgets[i]
               a == s.attached[i]
               n == tree'[i]
    <3>1. AsWired(w, v) /\ u.attached[i] = a BY <1>2 DEF Relisted
    <3>2. w \in Widget /\ Wired(w, a, n, i, changed, shrunk) /\ Served(w, a, n, i, changed)
      BY <1>1 DEF Shaped
    <3>3. w # None /\ v # None /\ v \in Widget BY <3>1, <3>2, WidgetAssumption DEF AsWired
    <3>4. \/ Settled(w, n)
          \/ widgets[i] # None /\ w.shown = widgets[i].shown
      BY <2>1, <2>3, <3>3 DEF Found
    <3> HIDE DEF w, v, a, n
    <3>5. Wired(v, a, n, i, changed, shrunk) BY <3>1, <3>2 DEF Wired, AsWired
    <3>6. Served(v, a, n, i, changed) BY <3>1, <3>2 DEF Served, AsWired
    <3>7. \/ Settled(v, n)
          \/ widgets[i] # None /\ v.shown = widgets[i].shown
      BY <3>1, <3>4 DEF Settled, AsWired
    <3>8. Found(u, n, i, widgets[i], changed, shrunk)
      BY <3>1, <3>3, <3>5, <3>7 DEF Found, v
    <3>9. Shaped(u, n, i, changed, shrunk)
      BY <3>1, <3>3, <3>5, <3>6 DEF Shaped, v
    <3>10. QED BY <2>3, <3>8, <3>9 DEF n
  <2>4. QED BY <2>2, <2>3
<1>6. QED BY <1>3, <1>4, <1>5 DEF OnCourse, u

\* The ids entered in the first k steps.
EnteredBy(L, k) == {i \in Ids : \E m \in 1 .. k : L[m] = <<"enter", i>>}

\* What holds all along the walk.
LEMMA CourseIs ==
  ASSUME Whole(tree'), NEW changed, NEW shrunk, OnCourse(Dropped, {}, changed, shrunk)
  PROVE  LET L == Walk(tree', Root(tree'))
         IN  \E h : /\ Course(h, Dropped, L) /\ Synced = h[Len(L)]
                    /\ \A k \in 0 .. Len(L) : OnCourse(h[k], EnteredBy(L, k), changed, shrunk)
<1> DEFINE L == Walk(tree', Root(tree'))
<1>1. /\ L \in Proper(tree')
      /\ \A j \in Ids : Holds(L, <<"endless", j>>) => ListedInCircles(tree')
  BY WalkIs
<1> HIDE DEF L
<1>2. tree' \in Tree BY DEF Whole
<1>3. L \in Tours /\ Len(L) \in Nat /\ \A k \in 1 .. Len(L) : L[k] \in Steps
  BY <1>1 DEF Proper, Tours
<1>4. PICK h : Course(h, Dropped, L) /\ FoldLeft(Step, Dropped, L) = h[Len(L)]
  BY <1>3, CourseExists
<1>5. Synced = h[Len(L)] BY <1>4 DEF Synced, L
<1> DEFINE S == {k \in Nat : k <= Len(L) => OnCourse(h[k], EnteredBy(L, k), changed, shrunk)}
<1>6. 0 \in S
  <2>1. EnteredBy(L, 0) = {} BY DEF EnteredBy
  <2>2. h[0] = Dropped BY <1>4 DEF Course
  <2> HIDE DEF Course
  <2>3. QED BY <2>1, <2>2
<1>7. ASSUME NEW k \in Nat, k \in S PROVE k + 1 \in S
  <2> SUFFICES ASSUME k + 1 <= Len(L)
               PROVE  OnCourse(h[k + 1], EnteredBy(L, k + 1), changed, shrunk)
    OBVIOUS
  <2> DEFINE s == h[k]
             E == EnteredBy(L, k)
             F == EnteredBy(L, k + 1)
  <2>1. k + 1 \in 1 .. Len(L) /\ (k + 1) - 1 = k /\ k <= Len(L) BY <1>3
  <2>2. OnCourse(s, E, changed, shrunk) BY <1>7, <2>1
  <2>3. h[k + 1] = Step(s, L[k + 1]) BY <1>4, <2>1 DEF Course
  <2>4. ProperAt(tree', L, k + 1) BY <1>1, <2>1 DEF Proper
  <2>5. PICK what \in {"enter", "leave", "endless"}, i \in Ids : L[k + 1] = <<what, i>>
    BY <1>3, <2>1 DEF Steps
  <2>6. L[k + 1][1] = what /\ L[k + 1][2] = i BY <2>5
  <2>7. tree'[i] # None BY <2>4, <2>6 DEF ProperAt
  <2>8. 1 .. k + 1 = (1 .. k) \union {k + 1} OBVIOUS
  <2> HIDE DEF S, s
  <2>9. F = E \union {j \in Ids : L[k + 1] = <<"enter", j>>} BY <2>8 DEF EnteredBy
  <2>10. s \in States /\ s.crashed \in BOOLEAN BY <2>2 DEF OnCourse, States
  <2>11. CASE s.crashed
    <3>1. Step(s, L[k + 1]) = s BY <2>11 DEF Step
    <3>2. QED BY <2>2, <2>3, <2>11, <3>1 DEF OnCourse
  <2>12. CASE ~s.crashed /\ what = "enter"
    <3>1. Step(s, L[k + 1]) = Enter(s, i) BY <2>6, <2>12 DEF Step
    <3>2. F = E \union {i}
      <4>1. \A j \in Ids : <<"enter", i>> = <<"enter", j>> <=> i = j OBVIOUS
      <4>2. QED BY <2>5, <2>9, <2>12, <4>1
    <3> HIDE DEF E, F
    <3>3. QED BY <1>2, <2>2, <2>3, <2>7, <2>12, <3>1, <3>2, EnterOnCourse DEF F
  <2>13. CASE ~s.crashed /\ what = "leave"
    <3>1. Step(s, L[k + 1]) = Leave(s, i)
      <4>1. L[k + 1][1] = "leave" BY <2>6, <2>13
      <4>2. "leave" # "enter" OBVIOUS
      <4>3. QED BY <2>6, <2>13, <4>1, <4>2 DEF Step
    <3>2. F = E
      <4>1. \A j \in Ids : <<"leave", i>> # <<"enter", j>>
        <5>1. \A j \in Ids : <<"enter", j>>[1] = "enter" OBVIOUS
        <5>2. <<"leave", i>>[1] = "leave" OBVIOUS
        <5>3. QED BY <5>1, <5>2
      <4>2. QED BY <2>5, <2>9, <2>13, <4>1
    <3>3. i \in E
      <4>1. \E m \in 1 .. (k + 1) - 1 : L[m] = <<"enter", i>> BY <2>4, <2>5, <2>13 DEF ProperAt
      <4>2. QED BY <2>1, <4>1 DEF EnteredBy
    <3> HIDE DEF E, F
    <3>4. QED BY <1>2, <2>2, <2>3, <2>7, <2>13, <3>1, <3>2, <3>3, LeaveOnCourse DEF F
  <2>14. CASE ~s.crashed /\ what = "endless"
    <3>1. Step(s, L[k + 1]) = [s EXCEPT !.crashed = TRUE]
      <4>1. L[k + 1][1] = "endless" BY <2>6, <2>14
      <4>2. "endless" # "enter" /\ "endless" # "leave" OBVIOUS
      <4>3. QED BY <2>6, <2>14, <4>1, <4>2 DEF Step
    <3> DEFINE u == [s EXCEPT !.crashed = TRUE]
    <3>2. u \in States /\ u.crashed BY <2>10 DEF States
    <3>3. ListedInCircles(tree')
      <4>1. Holds(L, <<"endless", i>>) BY <2>1, <2>5, <2>14 DEF Holds
      <4>2. QED BY <1>1, <4>1
    <3> HIDE DEF u
    <3>4. OnCourse(u, F, changed, shrunk) BY <3>2, <3>3 DEF OnCourse, Excused
    <3>5. QED BY <2>3, <3>1, <3>4 DEF u
  <2>15. QED BY <2>10, <2>11, <2>12, <2>13, <2>14
<1>8. Nat \subseteq S
  <2> HIDE DEF S
  <2>1. QED BY <1>6, <1>7, Inductive
<1>9. \A k \in 0 .. Len(L) : OnCourse(h[k], EnteredBy(L, k), changed, shrunk)
  <2>1. \A k \in 0 .. Len(L) : k \in Nat /\ k <= Len(L) BY <1>3
  <2>2. QED BY <1>8, <2>1
<1> HIDE DEF S
<1>10. QED BY <1>4, <1>5, <1>9 DEF L

\* The state in which the walk finds what the frame before left.
LEMMA SyncedIs ==
  ASSUME Whole(tree'), NEW changed, NEW shrunk, OnCourse(Dropped, {}, changed, shrunk)
  PROVE  OnCourse(Synced, {i \in Ids : tree'[i] # None}, changed, shrunk)
<1> DEFINE L == Walk(tree', Root(tree'))
           There == {i \in Ids : tree'[i] # None}
<1>1. L \in Proper(tree') /\ \A j \in Ids : tree'[j] # None => Holds(L, <<"enter", j>>)
  BY WalkIs
<1>2. PICK h : /\ Synced = h[Len(L)]
               /\ \A k \in 0 .. Len(L) : OnCourse(h[k], EnteredBy(L, k), changed, shrunk)
  BY CourseIs
<1> HIDE DEF L
<1>3. OnCourse(h[Len(L)], EnteredBy(L, Len(L)), changed, shrunk)
  <2>1. Len(L) \in Nat BY <1>1 DEF Proper, Tours
  <2>2. QED BY <1>2, <2>1
<1>4. There \subseteq EnteredBy(L, Len(L)) BY <1>1 DEF EnteredBy, Holds
<1>5. OnCourse(h[Len(L)], There, changed, shrunk) BY <1>3, <1>4 DEF OnCourse
<1>6. QED BY <1>2, <1>5

-----------------------------------------------------------------------------
(* What the walk shows.                                                      *)

LEMMA OnlyInAppend ==
  ASSUME NEW list \in Seq(Ids), NEW x \in Ids, NEW S
  PROVE  OnlyIn(Append(list, x), S)
           = IF x \in S THEN Append(OnlyIn(list, S), x) ELSE OnlyIn(list, S)
<1> DEFINE more == Append(list, x)
           n == Len(list)
<1>1. n \in Nat /\ more \in Seq(Ids) /\ Len(more) = n + 1 /\ more[n + 1] = x
      /\ \A k \in 1 .. n : more[k] = list[k]
  OBVIOUS
<1> HIDE DEF more
<1>2. PICK h : OnlyInTable(h, list, S) /\ OnlyIn(list, S) = h[n] BY OnlyInTableExists
<1>3. PICK g : OnlyInTable(g, more, S) /\ OnlyIn(more, S) = g[n + 1]
  BY <1>1, OnlyInTableExists
<1> DEFINE G == {m \in Nat : m <= n => g[m] = h[m]}
<1>4. 0 \in G BY <1>2, <1>3 DEF OnlyInTable
<1>5. ASSUME NEW m \in Nat, m \in G PROVE m + 1 \in G
  <2> SUFFICES ASSUME m + 1 <= n PROVE g[m + 1] = h[m + 1] OBVIOUS
  <2>1. m + 1 \in 1 .. n /\ m + 1 \in 1 .. n + 1 /\ (m + 1) - 1 = m /\ m <= n BY <1>1
  <2>2. g[m] = h[m] /\ more[m + 1] = list[m + 1] BY <1>1, <1>5, <2>1
  <2>3. h[m + 1] = IF list[m + 1] \in S THEN Append(h[m], list[m + 1]) ELSE h[m]
    BY <1>2, <2>1 DEF OnlyInTable
  <2>4. g[m + 1] = IF more[m + 1] \in S THEN Append(g[m], more[m + 1]) ELSE g[m]
    BY <1>1, <1>3, <2>1 DEF OnlyInTable
  <2>5. QED BY <2>2, <2>3, <2>4
<1>6. Nat \subseteq G
  <2> HIDE DEF G
  <2>1. QED BY <1>4, <1>5, Inductive
<1>7. g[n] = h[n] BY <1>1, <1>6
<1>8. n + 1 \in 1 .. Len(more) /\ (n + 1) - 1 = n BY <1>1
<1>9. g[n + 1] = IF more[n + 1] \in S THEN Append(g[n], more[n + 1]) ELSE g[n]
  BY <1>3, <1>8 DEF OnlyInTable
<1>10. QED BY <1>1, <1>2, <1>3, <1>7, <1>9 DEF more

\* What is kept anyway may be kept first.
LEMMA OnlyInTwice ==
  ASSUME NEW list \in Seq(Ids), NEW S, NEW K, \A c \in K : Holds(list, c) => c \in S
  PROVE  OnlyIn(OnlyIn(list, S), K) = OnlyIn(list, K)
<1> DEFINE n == Len(list)
<1>1. n \in Nat /\ \A k \in 1 .. n : list[k] \in Ids /\ Holds(list, list[k]) BY DEF Holds
<1>2. PICK h : OnlyInTable(h, list, S) /\ OnlyIn(list, S) = h[n] BY OnlyInTableExists
<1>3. PICK g : OnlyInTable(g, list, K) /\ OnlyIn(list, K) = g[n] BY OnlyInTableExists
<1> DEFINE G == {m \in Nat : m <= n => h[m] \in Seq(Ids) /\ OnlyIn(h[m], K) = g[m]}
<1>4. 0 \in G
  <2>1. h[0] = <<>> /\ g[0] = <<>> BY <1>2, <1>3 DEF OnlyInTable
  <2>2. <<>> \in Seq(Ids) /\ Len(<<>>) = 0 OBVIOUS
  <2>3. PICK f : OnlyInTable(f, <<>>, K) /\ OnlyIn(<<>>, K) = f[0] BY <2>2, OnlyInTableExists
  <2>4. OnlyIn(<<>>, K) = <<>> BY <2>3 DEF OnlyInTable
  <2>5. QED BY <2>1, <2>2, <2>4
<1>5. ASSUME NEW m \in Nat, m \in G PROVE m + 1 \in G
  <2> SUFFICES ASSUME m + 1 <= n
               PROVE  h[m + 1] \in Seq(Ids) /\ OnlyIn(h[m + 1], K) = g[m + 1]
    OBVIOUS
  <2> DEFINE x == list[m + 1]
             a == h[m]
  <2>1. m + 1 \in 1 .. n /\ (m + 1) - 1 = m /\ m <= n BY <1>1
  <2>2. a \in Seq(Ids) /\ OnlyIn(a, K) = g[m] BY <1>5, <2>1
  <2>3. x \in Ids /\ (x \in K => x \in S) BY <1>1, <2>1
  <2>4. h[m + 1] = IF x \in S THEN Append(a, x) ELSE a BY <1>2, <2>1 DEF OnlyInTable
  <2>5. g[m + 1] = IF x \in K THEN Append(g[m], x) ELSE g[m] BY <1>3, <2>1 DEF OnlyInTable
  <2> HIDE DEF x, a
  <2>6. Append(a, x) \in Seq(Ids) BY <2>2, <2>3
  <2>7. OnlyIn(Append(a, x), K) = IF x \in K THEN Append(OnlyIn(a, K), x) ELSE OnlyIn(a, K)
    BY <2>2, <2>3, OnlyInAppend
  <2>8. QED BY <2>2, <2>3, <2>4, <2>5, <2>6, <2>7
<1>6. Nat \subseteq G
  <2> HIDE DEF G
  <2>1. QED BY <1>4, <1>5, Inductive
<1>7. QED BY <1>1, <1>2, <1>3, <1>6

-----------------------------------------------------------------------------
(* What a walk does to a widget's children and to what it shows.             *)

\* What neither wiring nor a handler touches.
SameBody(w, v) ==
  v.children = w.children /\ v.box = w.box /\ v.body = w.body /\ v.kind = w.kind

\* The content of a node that has one is shown, by a widget that can.
ShownAs(w, n) ==
  /\ n.component \in Controls \union {TEXT} /\ w.kind = WidgetKind(n.component) =>
       w.shown = Content(n)
  /\ n.component = BUTTON /\ IsButton(w) /\ ~IsComposite(n) => w.shown = Content(n)

LEMMA ListenedBody ==
  ASSUME NEW s \in States, NEW i \in Ids, NEW n, s.widgets[i] \in Widget
  PROVE  SameBody(s.widgets[i], AttachListeners(s, i, n).widgets[i])
<1> DEFINE u == AttachListeners(s, i, n)
           w == s.widgets[i]
           D == DesiredListeners(n)
           new == D \ s.attached[i]
           g == [b \in Bits |-> w.gestures[b] + IF b \in new THEN 1 ELSE 0]
           v == [w EXCEPT !.gestures = g]
<1>1. s.widgets \in [Ids -> Widget \union {None}] BY DEF States
<1>2. CASE new = {} BY <1>2 DEF AttachListeners, SameBody
<1>3. CASE new # {}
  <2>1. SameBody(w, v) BY DEF Widget, SameBody
  <2>2. u = [s EXCEPT !.widgets[i] = v, !.attached[i] = D]
    <3>1. u = [s EXCEPT !.widgets[i].gestures =
                       [b \in Bits |-> @[b] + IF b \in new THEN 1 ELSE 0],
                     !.attached[i] = D]
      BY <1>3 DEF AttachListeners
    <3>2. QED BY <3>1
  <2> HIDE DEF v
  <2>3. u.widgets = [s.widgets EXCEPT ![i] = v] BY <2>2 DEF States
  <2> HIDE DEF u
  <2>4. u.widgets[i] = v BY <1>1, <2>3
  <2>5. QED BY <2>1, <2>4 DEF u
<1>4. QED BY <1>2, <1>3

LEMMA ControlledBody ==
  ASSUME NEW s \in States, NEW i \in Ids, NEW n, s.widgets[i] \in Widget
  PROVE  SameBody(s.widgets[i], AttachControlEvents(s, i, n).widgets[i])
<1> DEFINE u == AttachControlEvents(s, i, n)
           w == s.widgets[i]
           v == [w EXCEPT !.handlers = w.handlers + 1]
<1>1. s.widgets \in [Ids -> Widget \union {None}] BY DEF States
<1>2. CASE u = s BY <1>2 DEF SameBody
<1>3. CASE u # s
  <2>1. SameBody(w, v) BY DEF Widget, SameBody
  <2>2. u = [s EXCEPT !.widgets[i] = v]
    <3>1. u = [s EXCEPT !.widgets[i].handlers = @ + 1] BY <1>3 DEF AttachControlEvents
    <3>2. QED BY <3>1
  <2> HIDE DEF v
  <2>3. u.widgets = [s.widgets EXCEPT ![i] = v] BY <2>2 DEF States
  <2> HIDE DEF u
  <2>4. u.widgets[i] = v BY <1>1, <2>3
  <2>5. QED BY <2>1, <2>4 DEF u
<1>4. QED BY <1>2, <1>3

\* Setting a button's label takes out its child.
LabelBody(w, v, n) ==
  /\ v.children = w.children /\ v.box = w.box /\ v.kind = w.kind
  /\ \/ v.body = w.body
     \/ ~v.body /\ n.component = BUTTON /\ ~IsComposite(n)

LEMMA ShownBody ==
  ASSUME NEW s \in States, NEW i \in Ids, NEW n, s.widgets[i] \in Widget
  PROVE  LET v == ShowContent(s, i, n).widgets[i]
         IN  LabelBody(s.widgets[i], v, n) /\ ShownAs(v, n)
<1> DEFINE u == ShowContent(s, i, n)
           w == s.widgets[i]
           shows == n.component \in Controls \union {TEXT} /\ w.kind = WidgetKind(n.component)
<1>1. s.widgets \in [Ids -> Widget \union {None}] BY DEF States
<1>2. BUTTON \notin Controls \union {TEXT} BY ComponentAssumption DEF Controls
<1>3. CASE n.component = BUTTON /\ IsButton(w) /\ ~IsComposite(n)
  <2> DEFINE v == [w EXCEPT !.shown = Content(n), !.body = FALSE]
  <2>1. /\ v.children = w.children /\ v.box = w.box /\ v.kind = w.kind
        /\ v.body = FALSE /\ v.shown = Content(n)
    BY DEF Widget
  <2>2. u = [s EXCEPT !.widgets[i] = v]
    <3>1. u = [s EXCEPT !.widgets[i].shown = Content(n), !.widgets[i].body = FALSE]
      BY <1>3 DEF ShowContent
    <3>2. QED BY <3>1, <1>1 DEF States
  <2> HIDE DEF v
  <2>3. u.widgets = [s.widgets EXCEPT ![i] = v] BY <2>2 DEF States
  <2> HIDE DEF u
  <2>4. u.widgets[i] = v BY <1>1, <2>3
  <2>5. LabelBody(w, v, n) BY <1>3, <2>1 DEF LabelBody
  <2>6. ShownAs(v, n) BY <1>2, <1>3, <2>1 DEF ShownAs
  <2>7. QED BY <2>4, <2>5, <2>6 DEF u
<1>4. CASE n.component # BUTTON /\ shows
  <2> DEFINE v == [w EXCEPT !.shown = Content(n)]
             c == s.crashed \/ (w.shown # Content(n) /\ w.handlers > 0)
  <2>1. SameBody(w, v) /\ v.shown = Content(n) BY DEF Widget, SameBody
  <2>2. u = [s EXCEPT !.widgets[i] = v, !.crashed = c]
    <3>1. u = [s EXCEPT !.widgets[i].shown = Content(n),
                 !.crashed = @ \/ (s.widgets[i].shown # Content(n) /\ s.widgets[i].handlers > 0)]
      BY <1>4 DEF ShowContent, Set
    <3>2. QED BY <3>1, <1>1 DEF States
  <2> HIDE DEF v, c
  <2>3. u.widgets = [s.widgets EXCEPT ![i] = v] BY <2>2 DEF States
  <2> HIDE DEF u
  <2>4. u.widgets[i] = v BY <1>1, <2>3
  <2>5. LabelBody(w, v, n) BY <2>1 DEF LabelBody, SameBody
  <2>6. ShownAs(v, n) BY <1>4, <2>1 DEF ShownAs
  <2>7. QED BY <2>4, <2>5, <2>6 DEF u
<1>5. CASE /\ ~(n.component = BUTTON /\ IsButton(w) /\ ~IsComposite(n))
           /\ ~(n.component # BUTTON /\ shows)
  <2>1. u = s BY <1>5 DEF ShowContent
  <2>2. ShownAs(w, n) BY <1>2, <1>5 DEF ShownAs
  <2>3. QED BY <2>1, <2>2 DEF LabelBody
<1>6. QED BY <1>3, <1>4, <1>5

\* Entering node i, which is n.
LEMMA EnteredBody ==
  ASSUME NEW s \in States, NEW i \in Ids, NEW n \in HostNode, NEW changed, NEW shrunk,
         IF s.widgets[i] = None THEN s.attached[i] = {}
         ELSE Wired(s.widgets[i], s.attached[i], n, i, changed, shrunk)
  PROVE  LET a == GetOrCreate(s, i, n)
             v == Update(a, i, n).widgets[i]
         IN  /\ LabelBody(a.widgets[i], v, n) /\ ShownAs(v, n)
             /\ a.crashed => Update(a, i, n).crashed
             /\ a.widgets[i] = IF s.widgets[i] = None THEN BuildWidget(n) ELSE s.widgets[i]
             /\ s.widgets[i] = None /\ n.component \in Lazy => a.crashed
<1> DEFINE a == GetOrCreate(s, i, n)
           b == AttachListeners(a, i, n)
           c == AttachControlEvents(b, i, n)
           u == ShowContent(c, i, n)
<1>1. /\ a \in States /\ a.widgets[i] \in Widget
      /\ a.widgets[i] = IF s.widgets[i] = None THEN BuildWidget(n) ELSE s.widgets[i]
      /\ Wired(a.widgets[i], a.attached[i], n, i, changed, shrunk)
  BY CreatedIs
<1>2. s.widgets[i] = None /\ n.component \in Lazy => a.crashed BY DEF GetOrCreate, States
<1>3. Update(a, i, n) = u BY DEF Update
<1> HIDE DEF a
<1>4. /\ b \in States /\ b.widgets[i] \in Widget /\ b.crashed = a.crashed
      /\ Wired(b.widgets[i], b.attached[i], n, i, changed, shrunk)
      /\ DesiredListeners(n) \subseteq b.attached[i]
  BY <1>1, ListenedIs
<1>5. SameBody(a.widgets[i], b.widgets[i]) BY <1>1, ListenedBody
<1> HIDE DEF b
<1>6. c \in States /\ c.widgets[i] \in Widget /\ c.crashed = b.crashed BY <1>4, ControlledIs
<1>7. SameBody(b.widgets[i], c.widgets[i]) BY <1>4, ControlledBody
<1> HIDE DEF c
<1>8. LabelBody(c.widgets[i], u.widgets[i], n) /\ ShownAs(u.widgets[i], n) BY <1>6, ShownBody
<1>9. c.crashed => u.crashed BY <1>6 DEF ShowContent, Set, States
<1> HIDE DEF u
<1>10. LabelBody(a.widgets[i], u.widgets[i], n) BY <1>5, <1>7, <1>8 DEF SameBody, LabelBody
<1>11. QED BY <1>1, <1>2, <1>3, <1>4, <1>6, <1>8, <1>9, <1>10 DEF a

\* The children that a container of node i takes: those of the list, all of them or
\* who no other holds.
Takes(s, i, v, list) ==
  \/ v.children = list
  \/ v.children = OnlyIn(list, {c \in Ids : ~HeldElsewhere(s, i, c)})

LEMMA ReconciledBody ==
  ASSUME NEW s \in States, NEW i \in Ids, NEW list, s.widgets[i] \in Widget
  PROVE  LET w == s.widgets[i]
             v == Reconcile(s, i, list).widgets[i]
         IN  Takes(s, i, v, list) /\ v.box = w.box /\ v.body = w.body
<1> DEFINE u == Reconcile(s, i, list)
           w == s.widgets[i]
           kept == OnlyIn(list, {c \in Ids : ~HeldElsewhere(s, i, c)})
           v == [w EXCEPT !.children = kept]
<1>1. s.widgets \in [Ids -> Widget \union {None}] BY DEF States
<1>2. CASE w.children = list BY <1>2 DEF Reconcile, Takes
<1>3. CASE w.children # list
  <2>1. v.children = kept /\ v.box = w.box /\ v.body = w.body BY DEF Widget
  <2>2. u = [s EXCEPT !.widgets[i] = v]
    <3>1. u = [s EXCEPT !.widgets[i].children = kept] BY <1>3 DEF Reconcile
    <3>2. QED BY <3>1
  <2>3. Takes(s, i, v, list) BY <2>1 DEF Takes
  <2> HIDE DEF v
  <2>4. u.widgets = [s.widgets EXCEPT ![i] = v] BY <2>2 DEF States
  <2> HIDE DEF u
  <2>5. u.widgets[i] = v BY <1>1, <2>4
  <2>6. QED BY <2>1, <2>3, <2>5 DEF u
<1>4. QED BY <1>2, <1>3

LEMMA ComposedBody ==
  ASSUME NEW s \in States, NEW i \in Ids, NEW list, s.widgets[i] \in Widget,
         IsButton(s.widgets[i])
  PROVE  LET w == s.widgets[i]
             v == SyncComposite(s, i, list).widgets[i]
         IN  Takes(s, i, v, list) /\ v.box /\ (v.body = IF w.box THEN w.body ELSE TRUE)
<1> DEFINE w == s.widgets[i]
           v == [w EXCEPT !.box = TRUE, !.body = TRUE]
           boxed == IF s.widgets[i].box THEN s
                    ELSE [s EXCEPT !.widgets[i].box = TRUE, !.widgets[i].body = TRUE]
<1>1. s.widgets \in [Ids -> Widget \union {None}] BY DEF States
<1>2. SyncComposite(s, i, list) = Reconcile(boxed, i, list) BY DEF SyncComposite
<1>3. /\ boxed \in States /\ boxed.widgets[i] \in Widget
      /\ boxed.widgets[i].box /\ (boxed.widgets[i].body = IF w.box THEN w.body ELSE TRUE)
      /\ \A j \in Ids \ {i} : boxed.widgets[j] = s.widgets[j]
  <2>1. CASE w.box BY <2>1
  <2>2. CASE ~w.box
    <3>1. v \in Widget /\ v.box = TRUE /\ v.body = TRUE BY DEF Widget
    <3>2. boxed = [s EXCEPT !.widgets[i] = v] BY <2>2, <1>1 DEF States
    <3> HIDE DEF v, boxed
    <3>3. boxed.widgets = [s.widgets EXCEPT ![i] = v] BY <3>2 DEF States
    <3>4. boxed \in States BY <1>1, <3>1, <3>2 DEF States
    <3>5. QED BY <1>1, <2>2, <3>1, <3>3, <3>4
  <2>3. QED BY <2>1, <2>2
<1> HIDE DEF boxed
<1>4. \A c : HeldElsewhere(boxed, i, c) <=> HeldElsewhere(s, i, c) BY <1>3 DEF HeldElsewhere
<1>5. {c \in Ids : ~HeldElsewhere(boxed, i, c)} = {c \in Ids : ~HeldElsewhere(s, i, c)}
  BY <1>4
<1>6. LET x == Reconcile(boxed, i, list).widgets[i]
      IN  /\ Takes(boxed, i, x, list) /\ x.box = boxed.widgets[i].box
          /\ x.body = boxed.widgets[i].body
  BY <1>3, ReconciledBody
<1>7. \A x : Takes(boxed, i, x, list) => Takes(s, i, x, list) BY <1>5 DEF Takes
<1>8. QED BY <1>2, <1>3, <1>6, <1>7

-----------------------------------------------------------------------------
(* What a walk leaves of a widget's children: those of the node.             *)

\* Nobody is listed twice by a node, and who is no stray by its parent alone.
Listing(t, stray) ==
  /\ \A i \in Ids : Once(ChildrenOf(t, i))
  /\ \A i, j \in Ids :
       t[j] # None /\ Holds(ChildrenOf(t, i), j) /\ j \notin stray => t[j].parent = i

\* Only what takes children has any, and only a composite button a body.
Plausible(w, n, i, changed, stray) ==
  /\ i \notin changed => n.component \notin Lazy
  /\ i \notin changed /\ ~IsContainer(n.component) /\ n.component \notin Composites =>
       w.children = <<>>
  /\ i \notin changed \union stray => w.body = w.box /\ (w.box => IsComposite(n) /\ IsButton(w))

\* Whom the widget of node i may hold: its children, strays, and, until the walk
\* leaves it, who was its child.
Holding(w, i, left) ==
  \A c \in Ids : Holds(w.children, c) =>
    /\ tree'[c] # None
    /\ \/ c \in lost' \/ tree'[c].parent = i
       \/ c \in moved' /\ i \notin left \union retyped' /\ tree'[i].component \notin Composites

KidsShown(w, i) ==
  LET meant == Ids \ (moved' \union lost')
  IN  OnlyIn(w.children, meant) = OnlyIn(LiveChildren(tree', i), meant)

\* The widget of node i shows the node's children.
Filled(w, i) ==
  i \notin retyped' \union lost' =>
    IF IsContainer(tree'[i].component) THEN KidsShown(w, i)
    ELSE IsComposite(tree'[i]) /\ IsButton(w) => w.body /\ KidsShown(w, i)

Follows(w, i, entered, left) ==
  /\ Plausible(w, tree'[i], i, retyped', lost') /\ Holding(w, i, left)
  /\ i \in entered => ShownAs(w, tree'[i])
  /\ i \in left => Filled(w, i)

\* The course of the walk, in which some nodes have been entered and some left.
Following(s, entered, left) ==
  ~s.crashed => \A i \in Ids :
    tree'[i] # None /\ s.widgets[i] # None => Follows(s.widgets[i], i, entered, left)

LEMMA EnterFollows ==
  ASSUME tree' \in Tree, NEW s, NEW entered, NEW left, NEW changed, NEW shrunk,
         OnCourse(s, entered, changed, shrunk), left \subseteq entered, ~s.crashed,
         Following(s, entered, left), NEW i \in Ids, tree'[i] # None
  PROVE  Following(Enter(s, i), entered \union {i}, left)
<1> DEFINE n == tree'[i]
           a == GetOrCreate(s, i, n)
           u == Enter(s, i)
           w == s.widgets[i]
           v == u.widgets[i]
<1>1. n \in HostNode BY NodeOf
<1>2. s \in States /\ Found(s, n, i, widgets[i], changed, shrunk) BY DEF OnCourse
<1>3. u = Update(a, i, n) BY DEF Enter
<1> HIDE DEF n
<1>4. IF s.widgets[i] = None THEN s.attached[i] = {}
      ELSE Wired(s.widgets[i], s.attached[i], n, i, changed, shrunk)
  BY <1>2 DEF Found
<1>5. u \in States /\ Elsewhere(s, u, i) /\ v \in Widget
  BY <1>1, <1>2, <1>3, <1>4, EnteredIs
<1>6. /\ LabelBody(a.widgets[i], v, n) /\ ShownAs(v, n)
      /\ a.crashed => u.crashed
      /\ a.widgets[i] = IF w = None THEN BuildWidget(n) ELSE w
      /\ w = None /\ n.component \in Lazy => a.crashed
  BY <1>1, <1>2, <1>3, <1>4, EnteredBody
<1> HIDE DEF a, u
<1>7. ASSUME ~u.crashed, NEW j \in Ids, j # i, tree'[j] # None, u.widgets[j] # None
      PROVE  Follows(u.widgets[j], j, entered \union {i}, left)
  <2>1. u.widgets[j] = s.widgets[j] BY <1>5, <1>7 DEF Elsewhere
  <2>2. Follows(s.widgets[j], j, entered, left) BY <1>7, <2>1 DEF Following
  <2>3. QED BY <1>7, <2>1, <2>2 DEF Follows
<1>8. ASSUME ~u.crashed PROVE Follows(v, i, entered \union {i}, left)
  <2>1. CASE w = None
    <3>1. n.component \notin Lazy BY <1>6, <1>8, <2>1
    <3>2. v.children = <<>> /\ v.box = FALSE /\ v.body = FALSE
      <4>1. LabelBody(BuildWidget(n), v, n) BY <1>6, <2>1
      <4>2. /\ BuildWidget(n).children = <<>> /\ BuildWidget(n).box = FALSE
            /\ BuildWidget(n).body = FALSE
        BY DEF BuildWidget
      <4>3. v.body \in BOOLEAN BY <1>5 DEF Widget
      <4> HIDE DEF v
      <4>4. QED BY <4>1, <4>2, <4>3 DEF LabelBody
    <3>3. i \notin left
      <4>1. i \in entered => s.widgets[i] \in Widget BY DEF OnCourse, Shaped
      <4>2. QED BY <2>1, <4>1, WidgetAssumption
    <3> HIDE DEF v
    <3>4. Plausible(v, n, i, retyped', lost') BY <3>1, <3>2 DEF Plausible
    <3>5. Holding(v, i, left) BY <3>2 DEF Holding, Holds
    <3>6. QED BY <1>6, <3>3, <3>4, <3>5 DEF Follows, n
  <2>2. CASE w # None
    <3>1. Follows(w, i, entered, left) BY <2>2 DEF Following
    <3>2. LabelBody(w, v, n) BY <1>6, <2>2
    <3>3. w \in Widget BY <1>2, <2>2 DEF States
    <3>4. /\ v.body \in BOOLEAN /\ v.box \in BOOLEAN /\ w.body \in BOOLEAN /\ w.box \in BOOLEAN
      BY <1>5, <3>3 DEF Widget
    <3>5. /\ v.children = w.children /\ v.box = w.box /\ (IsButton(v) <=> IsButton(w))
          /\ \/ v.body = w.body
             \/ v.body = FALSE /\ ~IsComposite(n)
      BY <3>2, <3>4 DEF LabelBody, IsButton
    <3> HIDE DEF v, w
    <3>6. Plausible(v, n, i, retyped', lost')
      <4>1. Plausible(w, n, i, retyped', lost') BY <3>1 DEF Follows, n
      <4>2. QED BY <3>4, <3>5, <4>1 DEF Plausible
    <3>7. Holding(v, i, left) BY <3>1, <3>5 DEF Follows, Holding
    <3>8. i \in left => Filled(v, i)
      <4>1. i \in left => Filled(w, i) BY <3>1 DEF Follows
      <4>2. KidsShown(v, i) <=> KidsShown(w, i) BY <3>5 DEF KidsShown
      <4>3. QED BY <3>4, <3>5, <4>1, <4>2 DEF Filled, n
    <3>9. QED BY <1>6, <3>6, <3>7, <3>8 DEF Follows, n
  <2>3. QED BY <2>1, <2>2
<1>9. QED BY <1>7, <1>8 DEF Following, u

\* Leaving node i.
LEMMA LeftBody ==
  ASSUME tree' \in Tree, NEW s \in States, NEW i \in Ids, s.widgets[i] \in Widget
  PROVE  LET n == tree'[i]
             w == s.widgets[i]
             v == Leave(s, i).widgets[i]
             takes == Takes(s, i, v, LiveChildren(tree', i))
         IN  IF IsContainer(n.component)
             THEN IF w.kind = WidgetKind(n.component) /\ n.component \notin Lazy
                  THEN takes /\ v.box = w.box /\ v.body = w.body
                  ELSE v = w
             ELSE IF IsComposite(n) /\ IsButton(w)
                  THEN takes /\ v.box /\ (v.body = IF w.box THEN w.body ELSE TRUE)
                  ELSE v = w
<1> DEFINE n == tree'[i]
           w == s.widgets[i]
           kids == LiveChildren(tree', i)
<1>1. CASE IsContainer(n.component) /\ w.kind = WidgetKind(n.component) /\ n.component \notin Lazy
  <2>1. Leave(s, i) = Reconcile(s, i, kids) BY <1>1 DEF Leave
  <2>2. QED BY <1>1, <2>1, ReconciledBody
<1>2. CASE IsContainer(n.component) /\ ~(w.kind = WidgetKind(n.component) /\ n.component \notin Lazy)
  <2>1. Leave(s, i) = s BY <1>2 DEF Leave
  <2>2. QED BY <1>2, <2>1
<1>3. CASE ~IsContainer(n.component) /\ IsComposite(n) /\ IsButton(w)
  <2>1. Leave(s, i) = SyncComposite(s, i, kids) BY <1>3 DEF Leave
  <2>2. LET v == SyncComposite(s, i, kids).widgets[i]
        IN  Takes(s, i, v, kids) /\ v.box /\ (v.body = IF w.box THEN w.body ELSE TRUE)
    BY <1>3, ComposedBody
  <2>3. QED BY <1>3, <2>1, <2>2
<1>4. CASE ~IsContainer(n.component) /\ ~(IsComposite(n) /\ IsButton(w))
  <2>1. Leave(s, i) = s BY <1>4 DEF Leave, SyncComposite
  <2>2. QED BY <1>4, <2>1
<1>5. QED BY <1>1, <1>2, <1>3, <1>4

\* What a widget takes on leaving is all that its node's children are.
LEMMA TakenKids ==
  ASSUME tree' \in Tree, Listing(tree', lost'), NEW s, NEW entered, NEW left,
         NEW changed, NEW shrunk, OnCourse(s, entered, changed, shrunk), ~s.crashed,
         Following(s, entered, left),
         NEW i \in Ids, tree'[i] # None, NEW v, Takes(s, i, v, LiveChildren(tree', i))
  PROVE  /\ KidsShown(v, i)
         /\ \A c \in Ids : Holds(v.children, c) =>
              tree'[c] # None /\ (c \in lost' \/ tree'[c].parent = i)
<1> DEFINE kids == LiveChildren(tree', i)
           S == {c \in Ids : ~HeldElsewhere(s, i, c)}
           K == Ids \ (moved' \union lost')
<1>1. /\ kids \in Seq(Ids)
      /\ \A c : Holds(kids, c) => Holds(ChildrenOf(tree', i), c) /\ c \in Ids /\ tree'[c] # None
  BY KidsAre
<1> HIDE DEF kids
<1>2. ASSUME NEW c, Holds(kids, c)
      PROVE  c \in Ids /\ tree'[c] # None /\ (c \in lost' \/ tree'[c].parent = i)
  <2>1. c \in Ids /\ tree'[c] # None /\ Holds(ChildrenOf(tree', i), c) BY <1>1, <1>2
  <2>2. QED BY <2>1 DEF Listing
<1>3. ASSUME NEW c \in K, Holds(kids, c) PROVE c \in S
  <2> SUFFICES ASSUME NEW j \in Ids \ {i}, s.widgets[j] # None, Holds(s.widgets[j].children, c)
               PROVE  FALSE
    BY DEF HeldElsewhere
  <2>1. tree'[j] # None BY DEF OnCourse
  <2>2. Holding(s.widgets[j], j, left) BY <2>1 DEF Following, Follows
  <2>3. c \in lost' \/ tree'[c].parent = j \/ c \in moved' BY <2>2 DEF Holding
  <2>4. tree'[c].parent = i BY <1>2, <1>3
  <2>5. QED BY <2>3, <2>4
<1>4. Takes(s, i, v, kids) BY DEF kids
<1>5. v.children = kids \/ v.children = OnlyIn(kids, S) BY <1>4 DEF Takes
<1> HIDE DEF S, K
<1>6. OnlyIn(OnlyIn(kids, S), K) = OnlyIn(kids, K)
  <2>1. \A c \in K : Holds(kids, c) => c \in S BY <1>3
  <2>2. QED BY <1>1, <2>1, OnlyInTwice
<1>7. OnlyIn(v.children, K) = OnlyIn(kids, K) BY <1>5, <1>6
<1>8. \A c : Holds(v.children, c) => Holds(kids, c) BY <1>1, <1>5, OnlyInIs
<1>9. KidsShown(v, i) BY <1>7 DEF KidsShown, K, kids
<1>10. QED BY <1>2, <1>8, <1>9

LEMMA LeaveFollows ==
  ASSUME tree' \in Tree, Listing(tree', lost'), NEW s, NEW entered, NEW left, NEW shrunk,
         OnCourse(s, entered, retyped', shrunk), ~s.crashed, Following(s, entered, left),
         NEW i \in Ids, tree'[i] # None, i \in entered
  PROVE  Following(Leave(s, i), entered, left \union {i})
<1> DEFINE n == tree'[i]
           u == Leave(s, i)
           w == s.widgets[i]
           v == u.widgets[i]
           kids == LiveChildren(tree', i)
<1>1. s \in States /\ Shaped(s, n, i, retyped', shrunk) BY DEF OnCourse
<1>2. w \in Widget /\ w # None BY <1>1, WidgetAssumption DEF Shaped
<1>3. Relisted(s, u, i) BY <1>1, <1>2, LeftIs
<1>4. AsWired(w, v) /\ v \in Widget BY <1>3 DEF Relisted, AsWired
<1>5. Follows(w, i, entered, left) BY <1>2 DEF Following
<1>6. IF IsContainer(n.component)
      THEN IF w.kind = WidgetKind(n.component) /\ n.component \notin Lazy
           THEN Takes(s, i, v, kids) /\ v.box = w.box /\ v.body = w.body
           ELSE v = w
      ELSE IF IsComposite(n) /\ IsButton(w)
           THEN Takes(s, i, v, kids) /\ v.box /\ (v.body = IF w.box THEN w.body ELSE TRUE)
           ELSE v = w
  BY <1>1, <1>2, LeftBody
<1>7. Takes(s, i, v, kids) =>
        /\ KidsShown(v, i)
        /\ \A c \in Ids : Holds(v.children, c) =>
             tree'[c] # None /\ (c \in lost' \/ tree'[c].parent = i)
  BY TakenKids
<1> HIDE DEF u
<1>8. ASSUME NEW j \in Ids, j # i, tree'[j] # None, u.widgets[j] # None
      PROVE  Follows(u.widgets[j], j, entered, left \union {i})
  <2>1. u.widgets[j] = s.widgets[j] BY <1>3, <1>8 DEF Relisted
  <2>2. Follows(s.widgets[j], j, entered, left) BY <1>8, <2>1 DEF Following
  <2>3. QED BY <1>8, <2>1, <2>2 DEF Follows, Holding
<1>9. Follows(v, i, entered, left \union {i})
  <2>1. /\ v.shown = w.shown /\ v.kind = w.kind /\ (IsButton(v) <=> IsButton(w))
        /\ v.box \in BOOLEAN /\ v.body \in BOOLEAN /\ w.box \in BOOLEAN /\ w.body \in BOOLEAN
    BY <1>2, <1>4 DEF AsWired, IsButton, Widget
  <2>2. Plausible(w, n, i, retyped', lost') /\ Holding(w, i, left) /\ ShownAs(w, n)
    BY <1>5 DEF Follows
  <2>3. ShownAs(v, n) BY <2>1, <2>2 DEF ShownAs
  <2>4. i \notin retyped' => w.kind = WidgetKind(n.component) BY <1>1 DEF Shaped, Wired
  <2>5. IsComposite(n) => n.component \in Composites BY DEF IsComposite
  <2>6. Takes(s, i, v, kids) \/ (v = w /\ (i \notin retyped' =>
             ~IsContainer(n.component) /\ ~(IsComposite(n) /\ IsButton(w))))
    BY <1>6, <2>2, <2>4 DEF Plausible
  <2>7. IsContainer(n.component) => v.box = w.box /\ v.body = w.body
    BY <1>6
  <2>8. ~IsContainer(n.component) =>
          \/ v = w
          \/ /\ IsComposite(n) /\ IsButton(w) /\ Takes(s, i, v, kids)
             /\ v.box = TRUE /\ (v.body = IF w.box THEN w.body ELSE TRUE)
    BY <1>6, <2>1
  <2>9. v # w => Takes(s, i, v, kids) /\ (IsContainer(n.component) \/ IsComposite(n))
    BY <1>6
  <2> HIDE DEF v, w, n, kids
  <2>10. Plausible(v, n, i, retyped', lost')
    <3>1. i \notin retyped' /\ ~IsContainer(n.component) /\ n.component \notin Composites => v.children = <<>>
      BY <2>2, <2>5, <2>9 DEF Plausible
    <3>2. i \notin retyped' \union lost' => v.body = v.box /\ (v.box => IsComposite(n) /\ IsButton(v))
      BY <2>1, <2>2, <2>7, <2>8 DEF Plausible
    <3>3. QED BY <2>2, <3>1, <3>2 DEF Plausible
  <2>11. Holding(v, i, left \union {i})
    <3>1. CASE Takes(s, i, v, kids) BY <1>7, <3>1 DEF Holding
    <3>2. CASE ~Takes(s, i, v, kids)
      <4>1. v = w BY <2>6, <3>2
      <4>2. CASE i \in retyped' \/ n.component \in Composites
        BY <2>2, <4>1, <4>2 DEF Holding, n
      <4>3. CASE i \notin retyped' /\ n.component \notin Composites
        <5>1. ~IsContainer(n.component) BY <2>6, <3>2, <4>3
        <5>2. v.children = <<>> BY <2>2, <4>1, <4>3, <5>1 DEF Plausible
        <5>3. QED BY <5>2 DEF Holding, Holds
      <4>4. QED BY <4>2, <4>3
    <3>3. QED BY <3>1, <3>2
  <2>12. Filled(v, i)
    <3>1. SUFFICES ASSUME i \notin retyped' \union lost'
                   PROVE  IF IsContainer(n.component) THEN KidsShown(v, i)
                          ELSE IsComposite(n) /\ IsButton(v) => v.body /\ KidsShown(v, i)
      BY DEF Filled, n
    <3>2. CASE IsContainer(n.component)
      <4>1. Takes(s, i, v, kids) BY <2>6, <3>1, <3>2
      <4>2. QED BY <1>7, <3>2, <4>1
    <3>3. CASE ~IsContainer(n.component)
      <4>1. SUFFICES ASSUME IsComposite(n), IsButton(v) PROVE v.body /\ KidsShown(v, i)
        BY <3>3
      <4>2. Takes(s, i, v, kids) BY <2>1, <2>6, <3>1, <4>1
      <4>3. v.body
        <5>1. w.body = w.box BY <2>2, <3>1 DEF Plausible
        <5>2. CASE v = w
          <6>1. QED BY <1>6, <2>1, <3>3, <4>1, <5>1, <5>2
        <5>3. CASE v # w BY <2>1, <2>8, <3>3, <5>1, <5>3
        <5>4. QED BY <5>2, <5>3
      <4>4. QED BY <1>7, <4>2, <4>3
    <3>4. QED BY <3>2, <3>3
  <2>13. QED BY <2>3, <2>10, <2>11, <2>12 DEF Follows, n
<1>10. QED BY <1>8, <1>9 DEF Following, u

\* Who is entered is left.
LEMMA EnteredLeft ==
  ASSUME NEW t \in Tree, NEW below, Tour(below, t)
  PROVE  \A d \in 0 .. Cardinality(Ids) : \A i, j \in Ids :
           Holds(below[d][i], <<"enter", j>>) => Holds(below[d][i], <<"leave", j>>)
<1> DEFINE N == Cardinality(Ids)
           Leaves(level) == \A i, j \in Ids :
             Holds(level[i], <<"enter", j>>) => Holds(level[i], <<"leave", j>>)
           A == {d \in Nat : d <= N => Leaves(below[d])}
<1>1. N \in Nat BY GtkAssumption, FS_CardinalityType
<1>2. 0 \in A
  <2>1. ASSUME NEW i \in Ids, NEW j \in Ids, Holds(below[0][i], <<"enter", j>>) PROVE FALSE
    <3>1. below[0][i] = <<<<"endless", i>>>> BY DEF Tour, Level
    <3>2. <<"enter", j>> = <<"endless", i>> BY <2>1, <3>1, SingleStep
    <3>3. <<"enter", j>>[1] = "enter" /\ <<"endless", i>>[1] = "endless" OBVIOUS
    <3>4. QED BY <3>2, <3>3
  <2>2. QED BY <2>1
<1>3. ASSUME NEW d \in Nat, d \in A PROVE d + 1 \in A
  <2> SUFFICES ASSUME d + 1 <= N, NEW i \in Ids, NEW j \in Ids,
                      Holds(below[d + 1][i], <<"enter", j>>)
               PROVE  Holds(below[d + 1][i], <<"leave", j>>)
    OBVIOUS
  <2>1. d \in 0 .. N - 1 /\ d \in 0 .. N BY <1>1
  <2>2. below[d] \in Levels /\ below[d + 1][i] = Around(t, below[d], i) BY <2>1 DEF Tour
  <2>3. \A x : Holds(below[d + 1][i], x) <=>
              \/ x = <<"enter", i>> \/ x = <<"leave", i>>
              \/ \E c \in Ids : Holds(LiveChildren(t, i), c) /\ Holds(below[d][c], x)
    BY <2>2, AroundIs
  <2>4. CASE <<"enter", j>> = <<"enter", i>>
    <3>1. j = i BY <2>4
    <3>2. QED BY <2>3, <3>1
  <2>5. CASE \E c \in Ids : Holds(LiveChildren(t, i), c) /\ Holds(below[d][c], <<"enter", j>>)
    <3>1. Leaves(below[d]) BY <1>1, <1>3, <2>1
    <3>2. QED BY <2>3, <2>5, <3>1
  <2>6. <<"enter", j>> # <<"leave", i>>
    <3>1. <<"enter", j>>[1] = "enter" /\ <<"leave", i>>[1] = "leave" OBVIOUS
    <3>2. QED BY <3>1
  <2>7. QED BY <2>3, <2>4, <2>5, <2>6
<1>4. Nat \subseteq A
  <2> HIDE DEF A
  <2>1. QED BY <1>2, <1>3, Inductive
<1>5. QED BY <1>1, <1>4

LEMMA WalkLeaves ==
  ASSUME NEW t, Whole(t)
  PROVE  \A j \in Ids : t[j] # None => Holds(Walk(t, Root(t)), <<"leave", j>>)
<1>1. t \in Tree BY DEF Whole
<1>2. PICK r \in Ids : Attached(t, r) BY DEF Whole
<1>3. Root(t) = r BY <1>1, <1>2, RootIs
<1>4. PICK below : Tour(below, t) /\ \A i \in Ids : Walk(t, i) = below[Cardinality(Ids)][i]
  BY <1>1, TourIs
<1>5. Walk(t, r) = below[Cardinality(Ids)][r] BY <1>4
<1>6. \A j \in Ids : t[j] # None => Holds(below[Cardinality(Ids)][r], <<"enter", j>>)
  BY <1>2, <1>4, AllEntered
<1>7. Cardinality(Ids) \in 0 .. Cardinality(Ids) BY GtkAssumption, FS_CardinalityType
<1>8. QED BY <1>1, <1>3, <1>4, <1>5, <1>6, <1>7, EnteredLeft

\* The ids left in the first k steps.
LeftBy(L, k) == {i \in Ids : \E m \in 1 .. k : L[m] = <<"leave", i>>}

\* Nobody is left who has not been entered.
LEMMA LeftEntered ==
  ASSUME NEW t, NEW L \in Proper(t), NEW k \in 0 .. Len(L)
  PROVE  LeftBy(L, k) \subseteq EnteredBy(L, k)
<1> SUFFICES ASSUME NEW i \in Ids, NEW m \in 1 .. k, L[m] = <<"leave", i>>
             PROVE  \E e \in 1 .. k : L[e] = <<"enter", i>>
  BY DEF LeftBy, EnteredBy
<1>1. Len(L) \in Nat BY DEF Proper, Tours
<1>2. m \in 1 .. Len(L) BY <1>1
<1>3. ProperAt(t, L, m) BY <1>2 DEF Proper
<1>4. PICK e \in 1 .. m - 1 : L[e] = <<"enter", i>> BY <1>3 DEF ProperAt
<1>5. e \in 1 .. k BY <1>1
<1>6. QED BY <1>4, <1>5

\* When the walk has come round every node is shown.
LEMMA SyncedFollows ==
  ASSUME Whole(tree'), Listing(tree', lost'), NEW shrunk,
         OnCourse(Dropped, {}, retyped', shrunk), Following(Dropped, {}, {})
  PROVE  LET There == {i \in Ids : tree'[i] # None}
         IN  Following(Synced, There, There)
<1> DEFINE L == Walk(tree', Root(tree'))
           There == {i \in Ids : tree'[i] # None}
<1>1. /\ L \in Proper(tree')
      /\ \A j \in Ids : tree'[j] # None =>
           Holds(L, <<"enter", j>>) /\ Holds(L, <<"leave", j>>)
  BY WalkIs, WalkLeaves
<1>2. PICK h : /\ Course(h, Dropped, L) /\ Synced = h[Len(L)]
               /\ \A k \in 0 .. Len(L) : OnCourse(h[k], EnteredBy(L, k), retyped', shrunk)
  BY CourseIs
<1> HIDE DEF L
<1>3. tree' \in Tree BY DEF Whole
<1>4. L \in Tours /\ Len(L) \in Nat /\ \A k \in 1 .. Len(L) : L[k] \in Steps
  BY <1>1 DEF Proper, Tours
<1> DEFINE S == {k \in Nat : k <= Len(L) => Following(h[k], EnteredBy(L, k), LeftBy(L, k))}
<1>5. 0 \in S
  <2>1. EnteredBy(L, 0) = {} /\ LeftBy(L, 0) = {} BY DEF EnteredBy, LeftBy
  <2>2. h[0] = Dropped BY <1>2 DEF Course
  <2>3. QED BY <2>1, <2>2
<1>6. ASSUME NEW k \in Nat, k \in S PROVE k + 1 \in S
  <2> SUFFICES ASSUME k + 1 <= Len(L)
               PROVE  Following(h[k + 1], EnteredBy(L, k + 1), LeftBy(L, k + 1))
    OBVIOUS
  <2> DEFINE s == h[k]
             E == EnteredBy(L, k)
             F == EnteredBy(L, k + 1)
             B == LeftBy(L, k)
             C == LeftBy(L, k + 1)
  <2>1. k + 1 \in 1 .. Len(L) /\ (k + 1) - 1 = k /\ k <= Len(L) /\ k \in 0 .. Len(L) BY <1>4
  <2>2. Following(s, E, B) /\ OnCourse(s, E, retyped', shrunk) BY <1>2, <1>6, <2>1
  <2>3. h[k + 1] = Step(s, L[k + 1]) BY <1>2, <2>1 DEF Course
  <2>4. ProperAt(tree', L, k + 1) BY <1>1, <2>1 DEF Proper
  <2>5. PICK what \in {"enter", "leave", "endless"}, i \in Ids : L[k + 1] = <<what, i>>
    BY <1>4, <2>1 DEF Steps
  <2>6. L[k + 1][1] = what /\ L[k + 1][2] = i BY <2>5
  <2>7. tree'[i] # None BY <2>4, <2>6 DEF ProperAt
  <2>8. 1 .. k + 1 = (1 .. k) \union {k + 1} OBVIOUS
  <2>9. B \subseteq E BY <1>1, <2>1, LeftEntered
  <2> HIDE DEF S, s
  <2>10. /\ F = E \union {j \in Ids : L[k + 1] = <<"enter", j>>}
         /\ C = B \union {j \in Ids : L[k + 1] = <<"leave", j>>}
    BY <2>8 DEF EnteredBy, LeftBy
  <2>11. \A j \in Ids : <<"leave", i>> # <<"enter", j>> /\ <<"enter", i>> # <<"leave", j>>
    <3>1. \A j \in Ids : <<"enter", j>>[1] = "enter" /\ <<"leave", j>>[1] = "leave" OBVIOUS
    <3>2. QED BY <3>1
  <2>12. CASE s.crashed
    <3>1. Step(s, L[k + 1]) = s BY <2>12 DEF Step
    <3>2. QED BY <2>3, <2>12, <3>1 DEF Following
  <2>13. CASE ~s.crashed /\ what = "enter"
    <3>1. Step(s, L[k + 1]) = Enter(s, i) BY <2>6, <2>13 DEF Step
    <3>2. F = E \union {i} /\ C = B
      <4>1. \A j \in Ids : <<"enter", i>> = <<"enter", j>> <=> i = j OBVIOUS
      <4>2. QED BY <2>5, <2>10, <2>11, <2>13, <4>1
    <3> HIDE DEF E, F, B, C
    <3>3. QED BY <1>3, <2>2, <2>3, <2>7, <2>9, <2>13, <3>1, <3>2, EnterFollows DEF F, C
  <2>14. CASE ~s.crashed /\ what = "leave"
    <3>1. Step(s, L[k + 1]) = Leave(s, i)
      <4>1. L[k + 1][1] = "leave" BY <2>6, <2>14
      <4>2. "leave" # "enter" OBVIOUS
      <4>3. QED BY <2>6, <2>14, <4>1, <4>2 DEF Step
    <3>2. F = E /\ C = B \union {i}
      <4>1. \A j \in Ids : <<"leave", i>> = <<"leave", j>> <=> i = j OBVIOUS
      <4>2. QED BY <2>5, <2>10, <2>11, <2>14, <4>1
    <3>3. i \in E
      <4>1. \E m \in 1 .. (k + 1) - 1 : L[m] = <<"enter", i>> BY <2>4, <2>5, <2>14 DEF ProperAt
      <4>2. QED BY <2>1, <4>1 DEF EnteredBy
    <3> HIDE DEF E, F, B, C
    <3>4. QED BY <1>3, <2>2, <2>3, <2>7, <2>14, <3>1, <3>2, <3>3, LeaveFollows DEF F, C
  <2>15. CASE ~s.crashed /\ what = "endless"
    <3>1. Step(s, L[k + 1]) = [s EXCEPT !.crashed = TRUE]
      <4>1. L[k + 1][1] = "endless" BY <2>6, <2>15
      <4>2. "endless" # "enter" /\ "endless" # "leave" OBVIOUS
      <4>3. QED BY <2>6, <2>15, <4>1, <4>2 DEF Step
    <3> DEFINE u == [s EXCEPT !.crashed = TRUE]
    <3>2. u.crashed BY <2>2 DEF OnCourse, States
    <3> HIDE DEF u
    <3>3. Following(u, F, C) BY <3>2 DEF Following
    <3>4. QED BY <2>3, <3>1, <3>3 DEF u
  <2>16. s.crashed \in BOOLEAN BY <2>2 DEF OnCourse, States
  <2>17. QED BY <2>12, <2>13, <2>14, <2>15, <2>16
<1>7. Nat \subseteq S
  <2> HIDE DEF S
  <2>1. QED BY <1>5, <1>6, Inductive
<1>8. Following(Synced, EnteredBy(L, Len(L)), LeftBy(L, Len(L))) BY <1>2, <1>4, <1>7
<1>9. There \subseteq EnteredBy(L, Len(L)) /\ There \subseteq LeftBy(L, Len(L))
  BY <1>1 DEF EnteredBy, LeftBy, Holds
<1> HIDE DEF S
<1>10. Following(Synced, There, There)
  <2> SUFFICES ASSUME ~Synced.crashed, NEW i \in Ids, tree'[i] # None, Synced.widgets[i] # None
               PROVE  Follows(Synced.widgets[i], i, There, There)
    BY DEF Following
  <2>1. Follows(Synced.widgets[i], i, EnteredBy(L, Len(L)), LeftBy(L, Len(L)))
    BY <1>8 DEF Following
  <2>2. i \in There /\ i \in EnteredBy(L, Len(L)) /\ i \in LeftBy(L, Len(L)) BY <1>9
  <2> HIDE DEF There
  <2>3. QED BY <2>1, <2>2 DEF Follows, Holding
<1>11. QED BY <1>10

-----------------------------------------------------------------------------
(* The inductive invariant: the tree is whole, and until a panic a node has a  *)
(* widget that is wired as it asks, and nobody else has one.                   *)

GtkInv ==
  /\ Whole(tree)
  /\ widgets \in [Ids -> Widget \union {None}] /\ attached \in [Ids -> SUBSET Bits]
  /\ crashed \in BOOLEAN
  /\ ~crashed => \A i \in Ids :
       IF tree[i] = None THEN widgets[i] = None /\ attached[i] = {}
       ELSE /\ widgets[i] \in Widget
            /\ Wired(widgets[i], attached[i], tree[i], i, retyped, swapped)
            /\ Served(widgets[i], attached[i], tree[i], i, retyped)

\* What node a asks of its widget, node b, which it becomes, asks too; and it is
\* noted if its type changes or its mask loses a bit.
AsksOn(a, b, i) ==
  /\ i \notin retyped' => i \notin retyped /\ b.component = a.component
  /\ i \notin retyped' \union swapped' =>
       i \notin retyped \union swapped /\ DesiredListeners(a) \subseteq DesiredListeners(b)
  /\ HasBinding(a) => HasBinding(b)

LEMMA AsksSame ==
  ASSUME NEW a, NEW b, a.component = b.component, a.prop = b.prop, NEW i,
         i \notin retyped' => i \notin retyped,
         i \notin retyped' \union swapped' => i \notin retyped \union swapped
  PROVE  AsksOn(a, b, i)
<1>1. DesiredListeners(a) = DesiredListeners(b) /\ (HasBinding(a) <=> HasBinding(b))
  BY DEF DesiredListeners, HasBinding
<1>2. QED BY <1>1 DEF AsksOn

LEMMA AsksAlike ==
  ASSUME NEW a, NEW b, a # None, Alike(a, b), NEW i,
         i \notin retyped' => i \notin retyped,
         i \notin retyped' \union swapped' => i \notin retyped \union swapped
  PROVE  AsksOn(a, b, i)
BY AsksSame DEF Alike

\* The walk starts with what the frame before left of the nodes that are there.
LEMMA DroppedIs ==
  ASSUME GtkInv, ~crashed, tree' \in Tree,
         \A i \in Ids : tree[i] # None /\ tree'[i] # None => AsksOn(tree[i], tree'[i], i)
  PROVE  OnCourse(Dropped, {}, retyped', swapped')
<1> DEFINE kept(w) == [w EXCEPT !.children = OnlyIn(@, {c \in Ids : tree'[c] # None})]
           s == Dropped
<1>1. /\ widgets \in [Ids -> Widget \union {None}] /\ attached \in [Ids -> SUBSET Bits]
      /\ \A i \in Ids :
           IF tree[i] = None THEN widgets[i] = None /\ attached[i] = {}
           ELSE /\ widgets[i] \in Widget
                /\ Wired(widgets[i], attached[i], tree[i], i, retyped, swapped)
                /\ Served(widgets[i], attached[i], tree[i], i, retyped)
  BY DEF GtkInv
<1>2. ASSUME NEW w \in Widget PROVE AsWired(w, kept(w)) /\ kept(w) \in Widget
  <2> DEFINE list == OnlyIn(w.children, {c \in Ids : tree'[c] # None})
  <2>1. w.children \in Seq(Ids) BY DEF Widget
  <2>2. list \in Seq(Ids) BY <2>1, OnlyInIs
  <2>3. kept(w) = [w EXCEPT !.children = list] OBVIOUS
  <2> HIDE DEF list
  <2>4. kept(w) \in Widget BY <2>2, <2>3 DEF Widget
  <2>5. QED BY <2>3, <2>4 DEF AsWired, Widget
<1>3. /\ s.widgets = [i \in Ids |-> IF widgets[i] = None \/ tree'[i] = None THEN None
                                    ELSE kept(widgets[i])]
      /\ s.attached = [i \in Ids |-> IF tree'[i] = None THEN {} ELSE attached[i]]
      /\ s.crashed = FALSE
      /\ s = [widgets |-> s.widgets, attached |-> s.attached, crashed |-> s.crashed]
  BY DEF Dropped
<1> HIDE DEF kept, s
<1>4. s \in States
  <2>1. s.widgets \in [Ids -> Widget \union {None}] BY <1>1, <1>2, <1>3
  <2>2. s.attached \in [Ids -> SUBSET Bits] BY <1>1, <1>3
  <2>3. QED BY <1>3, <2>1, <2>2 DEF States
<1>5. ASSUME NEW i \in Ids, tree'[i] = None PROVE s.widgets[i] = None /\ s.attached[i] = {}
  BY <1>3, <1>5
<1>6. ASSUME NEW i \in Ids, tree'[i] # None
      PROVE  Found(s, tree'[i], i, widgets[i], retyped', swapped')
  <2>1. CASE widgets[i] = None
    <3>1. s.widgets[i] = None /\ s.attached[i] = attached[i] BY <1>3, <1>6, <2>1
    <3>2. tree[i] = None BY <1>1, <2>1, WidgetAssumption
    <3>3. QED BY <1>1, <2>1, <3>1, <3>2 DEF Found
  <2>2. CASE widgets[i] # None
    <3> DEFINE w == widgets[i]
               v == kept(w)
               a == attached[i]
               n == tree'[i]
    <3>1. tree[i] # None BY <1>1, <2>2
    <3>2. /\ w \in Widget /\ Wired(w, a, tree[i], i, retyped, swapped)
          /\ Served(w, a, tree[i], i, retyped)
      BY <1>1, <3>1
    <3>3. s.widgets[i] = v /\ s.attached[i] = a BY <1>3, <1>6, <2>2
    <3>4. AsWired(w, v) /\ v \in Widget BY <1>2, <3>2
    <3>5. v # None BY <3>4, WidgetAssumption
    <3>6. AsksOn(tree[i], n, i) BY <1>6, <3>1
    <3> HIDE DEF w, v, a, n
    <3>7. Wired(v, a, n, i, retyped', swapped') BY <3>2, <3>4, <3>6 DEF Wired, AsWired, AsksOn
    <3>8. v.shown = w.shown BY <3>4 DEF AsWired
    <3>9. Found(s, n, i, w, retyped', swapped') BY <2>2, <3>3, <3>5, <3>7, <3>8 DEF Found, w
    <3>10. QED BY <3>9 DEF n, w
  <2>3. QED BY <2>1, <2>2
<1>7. QED BY <1>3, <1>4, <1>5, <1>6 DEF OnCourse, s

\* Who follows shows what its node has.
LEMMA FollowsShows ==
  ASSUME NEW i \in Ids, i \notin retyped' \union lost', NEW w,
         w.kind = WidgetKind(tree'[i].component),
         Plausible(w, tree'[i], i, retyped', lost'), ShownAs(w, tree'[i]), Filled(w, i)
  PROVE  LET n == tree'[i]
         IN  IF IsContainer(n.component) THEN KidsShown(w, i)
             ELSE IF IsComposite(n) /\ IsButton(w) THEN w.body /\ KidsShown(w, i)
             ELSE n.component \in Controls \union {TEXT, BUTTON} =>
                    w.shown = Content(n) /\ ~w.body
<1> DEFINE n == tree'[i]
<1>1. WidgetKind(BUTTON) = "GtkButton"
  <2>1. /\ BUTTON \notin Boxes \union Lazy /\ BUTTON \notin {GRID, TEXT, MENU}
        /\ BUTTON \notin {TOGGLE, TOGGLE_CHECK, TOGGLE_BUTTON, SLIDER, TEXT_FIELD, PICKER}
    BY ComponentAssumption DEF Boxes, Lazy
  <2>2. QED BY <2>1 DEF WidgetKind
<1>2. n.component = BUTTON => IsButton(w) BY <1>1 DEF IsButton
<1>3. ~(IsComposite(n) /\ IsButton(w)) => ~w.body BY DEF Plausible
<1>4. /\ n.component \in Controls \union {TEXT} => w.shown = Content(n)
      /\ n.component = BUTTON /\ IsButton(w) /\ ~IsComposite(n) => w.shown = Content(n)
  BY DEF ShownAs
<1>5. IF IsContainer(n.component) THEN KidsShown(w, i)
      ELSE IsComposite(n) /\ IsButton(w) => w.body /\ KidsShown(w, i)
  BY DEF Filled
<1> HIDE DEF n
<1>6. QED BY <1>2, <1>3, <1>4, <1>5 DEF n

\* The inductive invariant of what the widgets show.
FollowInv ==
  /\ Listing(tree, lost)
  /\ ~crashed => \A i \in Ids : tree[i] # None =>
       /\ Plausible(widgets[i], tree[i], i, retyped, lost)
       /\ \A c \in Ids : Holds(widgets[i].children, c) =>
            tree[c] # None /\ (c \in lost \/ tree[c].parent = i)
  /\ WidgetsFollowTree

\* How a frame changes the tree: a node keeps its parent, or it is noted.
Traced ==
  /\ Listing(tree', lost')
  /\ \A i \in Ids : tree[i] # None /\ tree'[i] # None =>
       /\ i \in lost => i \in lost'
       /\ i \notin retyped' \union lost' /\ IsComposite(tree[i]) => IsComposite(tree'[i])
       /\ \/ tree'[i].parent = tree[i].parent
          \/ i \in lost'
          \/ /\ i \in moved' /\ tree[i].parent \notin retyped'
             /\ tree'[tree[i].parent].component \notin Composites

\* The walk starts with what follows the tree of the frame before.
LEMMA DroppedFollows ==
  ASSUME GtkInv, FollowInv, ~crashed, Traced,
         \A i \in Ids : tree[i] # None /\ tree'[i] # None => AsksOn(tree[i], tree'[i], i)
  PROVE  Following(Dropped, {}, {})
<1> DEFINE there == {c \in Ids : tree'[c] # None}
           kept(w) == [w EXCEPT !.children = OnlyIn(@, there)]
<1>1. /\ widgets \in [Ids -> Widget \union {None}]
      /\ \A i \in Ids : tree[i] = None => widgets[i] = None
      /\ \A i \in Ids : tree[i] # None =>
           widgets[i] \in Widget /\ Wired(widgets[i], attached[i], tree[i], i, retyped, swapped)
  BY DEF GtkInv
<1>2. Dropped.widgets = [i \in Ids |-> IF widgets[i] = None \/ tree'[i] = None THEN None
                                       ELSE kept(widgets[i])]
  BY DEF Dropped
<1> SUFFICES ASSUME NEW i \in Ids, tree'[i] # None, Dropped.widgets[i] # None
             PROVE  Follows(Dropped.widgets[i], i, {}, {})
  BY DEF Following
<1> DEFINE w == widgets[i]
           v == Dropped.widgets[i]
           m == tree[i]
           n == tree'[i]
           list == OnlyIn(w.children, there)
<1>3. w # None /\ v = kept(w) BY <1>2
<1>4. m # None /\ w \in Widget BY <1>1, <1>3
<1>5. /\ v.children = list /\ v.box = w.box /\ v.body = w.body /\ v.kind = w.kind
  BY <1>3, <1>4 DEF Widget
<1>6. w.children \in Seq(Ids) BY <1>4 DEF Widget
<1>7. \A c : Holds(list, c) <=> Holds(w.children, c) /\ c \in there BY <1>6, OnlyInIs
<1>8. /\ Plausible(w, m, i, retyped, lost)
      /\ \A c \in Ids : Holds(w.children, c) => tree[c] # None /\ (c \in lost \/ tree[c].parent = i)
  BY <1>4 DEF FollowInv
<1>9. AsksOn(m, n, i) BY <1>4
<1>10. /\ i \in lost => i \in lost'
       /\ i \notin retyped' \union lost' /\ IsComposite(m) => IsComposite(n)
  BY <1>4 DEF Traced
<1>11. w.children = <<>> => list = <<>>
  <2>1. <<>> \in Seq(Ids) /\ Len(<<>>) = 0 OBVIOUS
  <2>2. PICK f : OnlyInTable(f, <<>>, there) /\ OnlyIn(<<>>, there) = f[0] BY <2>1, OnlyInTableExists
  <2>3. QED BY <2>2 DEF OnlyInTable
<1> HIDE DEF w, v, m, n, list
<1>12. Plausible(v, n, i, retyped', lost')
  <2>1. i \notin retyped' => i \notin retyped /\ n.component = m.component BY <1>9 DEF AsksOn
  <2>2. IsButton(v) <=> IsButton(w) BY <1>5 DEF IsButton
  <2>3. QED BY <1>5, <1>8, <1>10, <1>11, <2>1, <2>2 DEF Plausible
<1>13. Holding(v, i, {})
  <2> SUFFICES ASSUME NEW c \in Ids, Holds(list, c)
               PROVE  /\ tree'[c] # None
                      /\ \/ c \in lost' \/ tree'[c].parent = i
                         \/ c \in moved' /\ i \notin retyped' /\ tree'[i].component \notin Composites
    BY <1>5 DEF Holding
  <2>1. tree'[c] # None /\ Holds(w.children, c) BY <1>7
  <2>2. tree[c] # None /\ (c \in lost \/ tree[c].parent = i) BY <1>8, <2>1
  <2>3. /\ c \in lost => c \in lost'
        /\ \/ tree'[c].parent = tree[c].parent
           \/ c \in lost'
           \/ /\ c \in moved' /\ tree[c].parent \notin retyped'
              /\ tree'[tree[c].parent].component \notin Composites
    BY <2>1, <2>2 DEF Traced
  <2>4. QED BY <2>1, <2>2, <2>3
<1>14. QED BY <1>12, <1>13 DEF Follows, v, n

LEMMA FrameFollows ==
  ASSUME GtkInv, FollowInv, NEW t, Whole(t), Frame(t), Traced,
         \A i \in Ids : tree[i] # None /\ t[i] # None => AsksOn(tree[i], t[i], i)
  PROVE  FollowInv'
<1>1. ~crashed /\ tree' = t BY DEF Frame
<1>2. Whole(tree') /\ tree' \in Tree BY <1>1 DEF Whole
<1>3. OnCourse(Dropped, {}, retyped', swapped') BY <1>1, <1>2, DroppedIs
<1>4. Following(Dropped, {}, {}) BY <1>1, DroppedFollows
<1> DEFINE s == Synced
           There == {i \in Ids : tree'[i] # None}
<1>5. Listing(tree', lost') BY DEF Traced
<1>6. OnCourse(s, There, retyped', swapped') BY <1>2, <1>3, SyncedIs
<1>7. Following(s, There, There) BY <1>2, <1>3, <1>4, <1>5, SyncedFollows
<1>8. widgets' = s.widgets /\ crashed' = s.crashed BY DEF Frame
<1> HIDE DEF s
<1>9. ASSUME ~crashed', NEW i \in Ids, tree'[i] # None
      PROVE  /\ widgets'[i] \in Widget /\ widgets'[i] # None
             /\ i \notin retyped' => widgets'[i].kind = WidgetKind(tree'[i].component)
             /\ Plausible(widgets'[i], tree'[i], i, retyped', lost')
             /\ \A c \in Ids : Holds(widgets'[i].children, c) =>
                  tree'[c] # None /\ (c \in lost' \/ tree'[c].parent = i)
             /\ ShownAs(widgets'[i], tree'[i]) /\ Filled(widgets'[i], i)
  <2> DEFINE w == s.widgets[i]
  <2>1. Shaped(s, tree'[i], i, retyped', swapped') BY <1>6, <1>8, <1>9 DEF OnCourse
  <2>2. w \in Widget /\ w # None BY <2>1, WidgetAssumption DEF Shaped
  <2>3. i \notin retyped' => w.kind = WidgetKind(tree'[i].component) BY <2>1 DEF Shaped, Wired
  <2>4. i \in There BY <1>9
  <2>5. Follows(w, i, There, There) BY <1>7, <1>8, <1>9, <2>2 DEF Following
  <2> HIDE DEF w, There
  <2>6. /\ Plausible(w, tree'[i], i, retyped', lost')
        /\ \A c \in Ids : Holds(w.children, c) =>
             tree'[c] # None /\ (c \in lost' \/ tree'[c].parent = i)
        /\ ShownAs(w, tree'[i]) /\ Filled(w, i)
    BY <2>4, <2>5 DEF Follows, Holding
  <2>7. QED BY <1>8, <2>2, <2>3, <2>6 DEF w
<1>10. WidgetsFollowTree'
  <2> SUFFICES ASSUME ~crashed', NEW i \in Ids, tree'[i] # None, i \notin retyped' \union lost'
               PROVE  Shows(i, moved \union lost)'
    BY DEF WidgetsFollowTree, Live
  <2> DEFINE n == tree'[i]
             w == widgets'[i]
  <2>1. IF IsContainer(n.component) THEN KidsShown(w, i)
        ELSE IF IsComposite(n) /\ IsButton(w) THEN w.body /\ KidsShown(w, i)
        ELSE n.component \in Controls \union {TEXT, BUTTON} =>
               w.shown = Content(n) /\ ~w.body
    BY <1>9, FollowsShows
  <2>2. w # None /\ w.kind = WidgetKind(n.component) BY <1>9
  <2>3. QED BY <2>1, <2>2 DEF Shows, KidsShown
<1>11. Listing(tree, lost)' BY <1>5
<1>12. QED BY <1>9, <1>10, <1>11 DEF FollowInv

\* What a frame leaves: the invariants hold on, and there is a panic only with an
\* excuse.
Advances ==
  /\ GtkInv' /\ (crashed' => Excused)
  /\ FollowInv /\ Traced => FollowInv'

LEMMA FrameKeeps ==
  ASSUME GtkInv, NEW t, Whole(t), Frame(t),
         \A i \in Ids : tree[i] # None /\ t[i] # None => AsksOn(tree[i], t[i], i)
  PROVE  Advances
<1>1. ~crashed /\ tree' = t BY DEF Frame
<1>2. Whole(tree') /\ tree' \in Tree BY <1>1 DEF Whole
<1>3. OnCourse(Dropped, {}, retyped', swapped') BY <1>1, <1>2, DroppedIs
<1> DEFINE s == Synced
<1>4. OnCourse(s, {i \in Ids : tree'[i] # None}, retyped', swapped') BY <1>2, <1>3, SyncedIs
<1>5. widgets' = s.widgets /\ attached' = s.attached /\ crashed' = s.crashed
  BY DEF Frame
<1> HIDE DEF s
<1>6. /\ widgets' \in [Ids -> Widget \union {None}] /\ attached' \in [Ids -> SUBSET Bits]
      /\ crashed' \in BOOLEAN
  BY <1>4, <1>5 DEF OnCourse, States
<1>7. ASSUME ~crashed', NEW i \in Ids
      PROVE  IF tree'[i] = None THEN widgets'[i] = None /\ attached'[i] = {}
             ELSE /\ widgets'[i] \in Widget
                  /\ Wired(widgets'[i], attached'[i], tree'[i], i, retyped', swapped')
                  /\ Served(widgets'[i], attached'[i], tree'[i], i, retyped')
  <2>1. IF tree'[i] = None THEN s.widgets[i] = None /\ s.attached[i] = {}
        ELSE Shaped(s, tree'[i], i, retyped', swapped')
    BY <1>4, <1>5, <1>7 DEF OnCourse
  <2>2. QED BY <1>5, <2>1 DEF Shaped
<1>8. crashed' => Excused BY <1>4, <1>5 DEF OnCourse
<1>9. GtkInv'
  <2>1. Whole(tree)' BY <1>2
  <2>2. QED BY <1>6, <1>7, <2>1 DEF GtkInv, Wired, Served
<1>10. FollowInv /\ Traced => FollowInv' BY FrameFollows
<1>11. QED BY <1>8, <1>9, <1>10 DEF Advances


\* A frame that changes node i, and of it nothing that it asks for.
LEMMA FrameOf ==
  ASSUME GtkInv, NEW t, NEW i \in Ids, Kept(tree, t, i), Frame(t),
         \A j \in Ids \ {i} : j \notin retyped' => j \notin retyped,
         \A j \in Ids \ {i} : j \notin swapped' => j \notin swapped,
         tree[i] # None => AsksOn(tree[i], t[i], i)
  PROVE  Advances
<1>1. Whole(t) /\ OthersAlike(tree, t, i) BY DEF Kept
<1>2. ASSUME NEW j \in Ids, tree[j] # None, t[j] # None PROVE AsksOn(tree[j], t[j], j)
  <2>1. CASE j = i BY <1>2, <2>1
  <2>2. CASE j # i
    <3>1. Alike(tree[j], t[j]) BY <1>1, <2>2 DEF OthersAlike
    <3>2. QED BY <1>2, <2>2, <3>1, AsksAlike
  <2>3. QED BY <2>1, <2>2
<1>3. QED BY <1>1, <1>2, FrameKeeps

-----------------------------------------------------------------------------
(* The lists of children after an operation on the tree.                     *)

LEMMA RelinkedChildren ==
  ASSUME NEW host \in Tree, NEW p \in Ids, NEW list \in Seq(Ids), NEW c \in Ids,
         NEW q \in Optional(Ids), NEW k \in Ids
  PROVE  ChildrenOf(Relinked(host, p, list, c, q), k)
           = IF k = p /\ k # c /\ host[k] # None THEN list ELSE ChildrenOf(host, k)
<1> DEFINE new == Relinked(host, p, list, c, q)
<1>1. new \in Tree /\ (host[k] = None <=> new[k] = None)
  <2>1. /\ new \in Tree
        /\ \A i \in Ids \ {c} : Alike(host[i], new[i])
        /\ host[c] = None => new[c] = None
        /\ host[c] # None => new[c] = [host[c] EXCEPT !.parent = q]
    BY RelinkedTree
  <2>2. CASE k # c BY <2>1, <2>2 DEF Alike
  <2>3. CASE k = c /\ host[c] # None
    <3>1. host[c] \in HostNode BY <2>3, NodeOf
    <3>2. [host[c] EXCEPT !.parent = q] \in HostNode BY <3>1 DEF HostNode
    <3>3. new[c] # None BY <2>1, <2>3, <3>2, NodeAssumption
    <3>4. QED BY <2>1, <2>3, <3>3
  <2>4. QED BY <2>1, <2>2, <2>3
<1>2. CASE host[k] = None BY <1>1, <1>2 DEF ChildrenOf
<1>3. CASE host[k] # None
  <2>1. new[k] = IF k = c THEN [host[k] EXCEPT !.parent = q]
                 ELSE IF k = p THEN [host[k] EXCEPT !.children = list] ELSE host[k]
    BY <1>3 DEF Relinked
  <2>2. host[k] \in HostNode BY <1>3, NodeOf
  <2> HIDE DEF new
  <2>3. new[k].children = IF k = p /\ k # c THEN list ELSE host[k].children
    BY <2>1, <2>2 DEF HostNode
  <2>4. new[k] # None BY <1>1, <1>3
  <2>5. ChildrenOf(new, k) = new[k].children /\ ChildrenOf(host, k) = host[k].children
    BY <1>3, <2>4 DEF ChildrenOf
  <2>6. QED BY <1>3, <2>3, <2>5 DEF new
<1>4. QED BY <1>2, <1>3

LEMMA InsertChildren ==
  ASSUME NEW host \in Tree, NEW p \in Ids, NEW c \in Ids, host[p] # None, p # c, NEW k \in Ids
  PROVE  LET list == ChildrenOf(host, p)
         IN  ChildrenOf(InsertChild(host, p, c), k)
               = IF k = p THEN IF Holds(list, c) THEN list ELSE Append(list, c)
                 ELSE ChildrenOf(host, k)
<1> DEFINE list == ChildrenOf(host, p)
           grown == IF Holds(list, c) THEN list ELSE Append(list, c)
<1>1. grown \in Seq(Ids) BY ListOfChildren
<1>2. InsertChild(host, p, c) = Relinked(host, p, grown, c, p) BY DEF InsertChild
<1>3. p \in Optional(Ids) BY DEF Optional
<1> HIDE DEF grown
<1>4. ChildrenOf(Relinked(host, p, grown, c, p), k)
        = IF k = p /\ k # c /\ host[k] # None THEN grown ELSE ChildrenOf(host, k)
  BY <1>1, <1>3, RelinkedChildren
<1>5. QED BY <1>2, <1>4 DEF grown

LEMMA RemoveChildren ==
  ASSUME NEW host \in Tree, NEW p \in Ids, NEW c \in Ids, host[p] # None, p # c, NEW k \in Ids
  PROVE  ChildrenOf(RemoveChild(host, p, c), k)
           = IF k = p THEN Without(ChildrenOf(host, p), c) ELSE ChildrenOf(host, k)
<1> DEFINE list == Without(ChildrenOf(host, p), c)
<1>1. list \in Seq(Ids) BY ListOfChildren, WithoutOne
<1>2. RemoveChild(host, p, c) = Relinked(host, p, list, c, None) BY DEF RemoveChild
<1>3. None \in Optional(Ids) BY DEF Optional
<1> HIDE DEF list
<1>4. ChildrenOf(Relinked(host, p, list, c, None), k)
        = IF k = p /\ k # c /\ host[k] # None THEN list ELSE ChildrenOf(host, k)
  BY <1>1, <1>3, RelinkedChildren
<1>5. QED BY <1>2, <1>4 DEF list

LEMMA MoveChildren ==
  ASSUME NEW host \in Tree, NEW p \in Ids, NEW c \in Ids, host[p] # None, NEW n \in Nat,
         NEW k \in Ids
  PROVE  ChildrenOf(MoveChild(host, p, c, n), k)
           = IF k = p THEN InsertedAt(Without(ChildrenOf(host, p), c), n, c)
             ELSE ChildrenOf(host, k)
<1> DEFINE list == InsertedAt(Without(ChildrenOf(host, p), c), n, c)
           node == [host[p] EXCEPT !.children = list]
           new == MoveChild(host, p, c, n)
<1>1. new = [host EXCEPT ![p] = node] BY DEF MoveChild, ChildrenOf
<1>2. host[p] \in HostNode BY NodeOf
<1>3. list \in Seq(Ids) BY ListOfChildren, ListTypes
<1> HIDE DEF list
<1>4. node \in HostNode /\ node.children = list BY <1>2, <1>3 DEF HostNode
<1>5. node # None BY <1>4, NodeAssumption
<1> HIDE DEF new, node
<1>6. new[k] = IF k = p THEN node ELSE host[k] BY <1>1 DEF Tree
<1>7. ChildrenOf(new, k) = IF k = p THEN list ELSE ChildrenOf(host, k)
  BY <1>4, <1>5, <1>6 DEF ChildrenOf
<1>8. QED BY <1>7 DEF new, list

LEMMA PutChildren ==
  ASSUME NEW host \in Tree, NEW id \in Ids, NEW n \in HostNode,
         n.children = ChildrenOf(host, id), NEW k \in Ids
  PROVE  ChildrenOf([host EXCEPT ![id] = n], k) = ChildrenOf(host, k)
<1> DEFINE new == [host EXCEPT ![id] = n]
<1>1. new[k] = IF k = id THEN n ELSE host[k] BY DEF Tree
<1>2. n # None BY NodeAssumption
<1>3. QED BY <1>1, <1>2 DEF ChildrenOf

LEMMA ContentChildren ==
  ASSUME NEW host \in Tree, NEW id \in Ids, NEW k \in Ids
  PROVE  /\ \A c \in Components : ChildrenOf(CreateNode(host, id, c), k) = ChildrenOf(host, k)
         /\ \A v \in Optional(TextValues) : ChildrenOf(SetText(host, id, v), k) = ChildrenOf(host, k)
         /\ \A v \in Optional(PropValues) :
              ChildrenOf(SetProperty(host, id, v), k) = ChildrenOf(host, k)
<1>1. ASSUME NEW c \in Components PROVE ChildrenOf(CreateNode(host, id, c), k) = ChildrenOf(host, k)
  <2>1. CASE host[id] = None
    <3>1. NewNode(c) \in HostNode /\ NewNode(c).children = <<>>
      BY DEF NewNode, HostNode, Optional
    <3>2. CreateNode(host, id, c) = [host EXCEPT ![id] = NewNode(c)] BY <2>1 DEF CreateNode
    <3>3. NewNode(c).children = ChildrenOf(host, id) BY <2>1, <3>1 DEF ChildrenOf
    <3>4. ChildrenOf([host EXCEPT ![id] = NewNode(c)], k) = ChildrenOf(host, k)
      BY <3>1, <3>3, PutChildren
    <3>5. QED BY <3>2, <3>4
  <2>2. CASE host[id] # None
    <3> DEFINE n == [host[id] EXCEPT !.component = c]
    <3>1. host[id] \in HostNode BY <2>2, NodeOf
    <3>2. n \in HostNode /\ n.children = ChildrenOf(host, id) BY <2>2, <3>1 DEF HostNode, ChildrenOf
    <3>3. CreateNode(host, id, c) = [host EXCEPT ![id] = n] BY <2>2 DEF CreateNode
    <3> HIDE DEF n
    <3>4. ChildrenOf([host EXCEPT ![id] = n], k) = ChildrenOf(host, k) BY <3>2, PutChildren
    <3>5. QED BY <3>3, <3>4
  <2>3. QED BY <2>1, <2>2
<1>2. ASSUME NEW v \in Optional(TextValues) PROVE ChildrenOf(SetText(host, id, v), k) = ChildrenOf(host, k)
  <2>1. CASE host[id] = None BY <2>1 DEF SetText
  <2>2. CASE host[id] # None
    <3> DEFINE n == [host[id] EXCEPT !.text = v]
    <3>1. host[id] \in HostNode BY <2>2, NodeOf
    <3>2. n \in HostNode /\ n.children = ChildrenOf(host, id) BY <2>2, <3>1 DEF HostNode, ChildrenOf
    <3>3. SetText(host, id, v) = [host EXCEPT ![id] = n] BY <2>2 DEF SetText
    <3> HIDE DEF n
    <3>4. ChildrenOf([host EXCEPT ![id] = n], k) = ChildrenOf(host, k) BY <3>2, PutChildren
    <3>5. QED BY <3>3, <3>4
  <2>3. QED BY <2>1, <2>2
<1>3. ASSUME NEW v \in Optional(PropValues)
      PROVE  ChildrenOf(SetProperty(host, id, v), k) = ChildrenOf(host, k)
  <2>1. CASE host[id] = None BY <2>1 DEF SetProperty
  <2>2. CASE host[id] # None
    <3> DEFINE n == [host[id] EXCEPT !.prop = v]
    <3>1. host[id] \in HostNode BY <2>2, NodeOf
    <3>2. n \in HostNode /\ n.children = ChildrenOf(host, id) BY <2>2, <3>1 DEF HostNode, ChildrenOf
    <3>3. SetProperty(host, id, v) = [host EXCEPT ![id] = n] BY <2>2 DEF SetProperty
    <3> HIDE DEF n
    <3>4. ChildrenOf([host EXCEPT ![id] = n], k) = ChildrenOf(host, k) BY <3>2, PutChildren
    <3>5. QED BY <3>3, <3>4
  <2>3. QED BY <2>1, <2>2
<1>4. QED BY <1>1, <1>2, <1>3

\* A list that gets one more element at its end, unless it is there.
LEMMA GrownOne ==
  ASSUME NEW list \in Seq(Ids), NEW c \in Ids
  PROVE  LET grown == IF Holds(list, c) THEN list ELSE Append(list, c)
         IN  /\ grown \in Seq(Ids) /\ grown # <<>>
             /\ \A x : Holds(grown, x) <=> Holds(list, x) \/ x = c
             /\ Once(list) => Once(grown)
<1>1. CASE Holds(list, c)
  <2>1. list # <<>> BY <1>1 DEF Holds
  <2>2. QED BY <1>1, <2>1
<1>2. CASE ~Holds(list, c)
  <2> DEFINE w == Append(list, c)
             n == Len(list)
  <2>1. n \in Nat /\ w \in Seq(Ids) /\ Len(w) = n + 1 /\ w[n + 1] = c
        /\ \A k \in 1 .. n : w[k] = list[k]
    OBVIOUS
  <2> HIDE DEF w
  <2>2. w # <<>> BY <2>1
  <2>3. \A k \in 1 .. n + 1 : k \in 1 .. n \/ k = n + 1 BY <2>1
  <2>4. \A x : Holds(w, x) <=> Holds(list, x) \/ x = c
    <3>1. ASSUME NEW x, Holds(w, x) PROVE Holds(list, x) \/ x = c
      BY <2>1, <2>3, <3>1 DEF Holds
    <3>2. ASSUME NEW x, Holds(list, x) PROVE Holds(w, x)
      <4>1. PICK k \in 1 .. n : list[k] = x BY <3>2 DEF Holds
      <4>2. k \in 1 .. Len(w) /\ w[k] = x BY <2>1, <4>1
      <4>3. QED BY <4>2 DEF Holds
    <3>3. Holds(w, c)
      <4>1. n + 1 \in 1 .. Len(w) BY <2>1
      <4>2. QED BY <2>1, <4>1 DEF Holds
    <3>4. QED BY <3>1, <3>2, <3>3
  <2>5. ASSUME Once(list) PROVE Once(w)
    <3> SUFFICES ASSUME NEW i \in 1 .. n + 1, NEW j \in 1 .. n + 1, w[i] = w[j] PROVE i = j
      BY <2>1 DEF Once
    <3>1. \A k \in 1 .. n : w[k] # c BY <1>2, <2>1 DEF Holds
    <3>2. CASE i = n + 1 \/ j = n + 1 BY <2>1, <2>3, <3>1, <3>2
    <3>3. CASE i \in 1 .. n /\ j \in 1 .. n BY <2>1, <2>5, <3>3 DEF Once
    <3>4. QED BY <2>3, <3>2, <3>3
  <2>6. QED BY <1>2, <2>1, <2>2, <2>4, <2>5 DEF w
<1>3. QED BY <1>1, <1>2

\* Every node but the root is in its parent's list.
LEMMA ParentLists ==
  ASSUME NEW t, Whole(t), NEW i \in Ids, t[i] # None, t[i].parent # None
  PROVE  /\ t[i].parent \in Ids /\ t[i].parent # i /\ t[t[i].parent] # None
         /\ Holds(ChildrenOf(t, t[i].parent), i)
<1>1. PICK r \in Ids : Attached(t, r) BY DEF Whole
<1>2. PICK rank \in [Ids -> Nat] : Descends(t, rank) BY DEF Whole
<1>3. i # r BY <1>1 DEF Attached
<1>4. t[i].parent \in Ids /\ Listed(t, t[i].parent, i) BY <1>1, <1>3 DEF Attached
<1>5. rank[t[i].parent] < rank[i] BY <1>2 DEF Descends
<1>6. t[i].parent # i BY <1>5
<1>7. QED BY <1>4, <1>6 DEF Listed, ChildrenOf

\* Lists of the nodes stay as they are.
SameChildren(t, u) == \A k \in Ids : ChildrenOf(u, k) = ChildrenOf(t, k)

\* A frame in which all nodes but i stay as they are, but for lists.
LEMMA TracedIs ==
  ASSUME GtkInv, NEW i \in Ids, Kept(tree, tree', i), Listing(tree', lost'),
         lost \subseteq lost',
         \A k \in Ids : /\ tree[k] # None /\ tree[k].component \in Composites
                        /\ k \notin lost' /\ ChildrenOf(tree, k) # <<>>
                        => ChildrenOf(tree', k) # <<>>,
         tree[i] # None =>
           /\ i \notin retyped' => tree'[i].component = tree[i].component
           /\ \/ tree'[i].parent = tree[i].parent
              \/ i \in lost'
              \/ /\ i \in moved' /\ tree[i].parent \notin retyped'
                 /\ tree'[tree[i].parent].component \notin Composites
  PROVE  Traced
<1> SUFFICES ASSUME NEW k \in Ids, tree[k] # None, tree'[k] # None
             PROVE  /\ k \notin retyped' \union lost' /\ IsComposite(tree[k]) => IsComposite(tree'[k])
                    /\ \/ tree'[k].parent = tree[k].parent
                       \/ k \in lost'
                       \/ /\ k \in moved' /\ tree[k].parent \notin retyped'
                          /\ tree'[tree[k].parent].component \notin Composites
  BY DEF Traced
<1>1. k # i => tree'[k].parent = tree[k].parent /\ tree'[k].component = tree[k].component
  BY DEF Kept, OthersAlike, Alike
<1>2. k \notin retyped' => tree'[k].component = tree[k].component BY <1>1
<1>3. ASSUME k \notin retyped' \union lost', IsComposite(tree[k]) PROVE IsComposite(tree'[k])
  <2>1. tree[k].children # <<>> /\ tree[k].component \in Composites BY <1>3 DEF IsComposite
  <2>2. ChildrenOf(tree, k) # <<>> BY <2>1 DEF ChildrenOf
  <2>3. tree'[k].children # <<>> BY <1>3, <2>1, <2>2 DEF ChildrenOf
  <2>4. QED BY <1>2, <1>3, <2>1, <2>3 DEF IsComposite
<1>4. QED BY <1>1, <1>3

\* Frames that change one node's type, text or property.
LEMMA ContentTraced ==
  ASSUME GtkInv, FollowInv, NEW i \in Ids, tree[i] # None, Kept(tree, tree', i),
         SameChildren(tree, tree'), lost' = lost, tree'[i].parent = tree[i].parent,
         i \notin retyped' => tree'[i].component = tree[i].component
  PROVE  Traced
<1>1. Listing(tree, lost) BY DEF FollowInv
<1>2. Listing(tree', lost')
  <2>1. \A k \in Ids : Once(ChildrenOf(tree', k)) BY <1>1 DEF Listing, SameChildren
  <2>2. ASSUME NEW k \in Ids, NEW j \in Ids, tree'[j] # None, Holds(ChildrenOf(tree', k), j),
               j \notin lost'
        PROVE  tree'[j].parent = k
    <3>1. Holds(ChildrenOf(tree, k), j) BY <2>2 DEF SameChildren
    <3>2. tree[j] # None /\ tree'[j].parent = tree[j].parent
      BY <2>2 DEF Kept, OthersAlike, Alike
    <3>3. QED BY <1>1, <2>2, <3>1, <3>2 DEF Listing
  <2>3. QED BY <2>1, <2>2 DEF Listing
<1>3. QED BY <1>2, TracedIs DEF SameChildren

LEMMA RetypeTraced ==
  ASSUME GtkInv, FollowInv, NEW i \in Ids, NEW c \in Components, Retype(i, c)
  PROVE  Traced
<1> DEFINE t == CreateNode(tree, i, c)
<1>1. tree[i] # None /\ tree' = t /\ retyped' = retyped \union {i} /\ lost' = lost
  BY DEF Retype, Live, Frame
<1>2. Whole(tree) /\ tree \in Tree BY DEF GtkInv, Whole
<1>3. Kept(tree, t, i) BY <1>1, <1>2, ContentWhole
<1>4. SameChildren(tree, t) BY <1>2, ContentChildren DEF SameChildren
<1>5. t[i].parent = tree[i].parent
  <2>1. t[i] = [tree[i] EXCEPT !.component = c] BY <1>1, <1>2, CreateTree
  <2>2. tree[i] \in HostNode BY <1>1, <1>2, NodeOf
  <2> HIDE DEF t
  <2>3. QED BY <2>1, <2>2 DEF HostNode
<1> HIDE DEF t
<1>6. QED BY <1>1, <1>3, <1>4, <1>5, ContentTraced

LEMMA RetextTraced ==
  ASSUME GtkInv, FollowInv, NEW i \in Ids, NEW text \in TextValues, Retext(i, text)
  PROVE  Traced
<1> DEFINE t == SetText(tree, i, text)
<1>1. tree[i] # None /\ tree' = t /\ lost' = lost BY DEF Retext, Live, Frame
<1>2. Whole(tree) /\ tree \in Tree /\ text \in Optional(TextValues) BY DEF GtkInv, Whole, Optional
<1>3. Kept(tree, t, i) BY <1>1, <1>2, ContentWhole
<1>4. SameChildren(tree, t) BY <1>2, ContentChildren DEF SameChildren
<1>5. t[i].parent = tree[i].parent /\ t[i].component = tree[i].component
  <2>1. t[i] = [tree[i] EXCEPT !.text = text] BY <1>1, <1>2, SetTree
  <2>2. tree[i] \in HostNode BY <1>1, <1>2, NodeOf
  <2> HIDE DEF t
  <2>3. QED BY <2>1, <2>2 DEF HostNode
<1> HIDE DEF t
<1>6. QED BY <1>1, <1>3, <1>4, <1>5, ContentTraced

LEMMA SetListenersTraced ==
  ASSUME GtkInv, FollowInv, NEW i \in Ids, NEW prop \in PropValues, SetListeners(i, prop)
  PROVE  Traced
<1> DEFINE t == SetProperty(tree, i, prop)
<1>1. tree[i] # None /\ tree' = t /\ lost' = lost BY DEF SetListeners, Live, Frame
<1>2. Whole(tree) /\ tree \in Tree /\ prop \in Optional(PropValues) BY DEF GtkInv, Whole, Optional
<1>3. Kept(tree, t, i) BY <1>1, <1>2, ContentWhole
<1>4. SameChildren(tree, t) BY <1>2, ContentChildren DEF SameChildren
<1>5. t[i].parent = tree[i].parent /\ t[i].component = tree[i].component
  <2>1. t[i] = [tree[i] EXCEPT !.prop = prop] BY <1>1, <1>2, SetTree
  <2>2. tree[i] \in HostNode BY <1>1, <1>2, NodeOf
  <2> HIDE DEF t
  <2>3. QED BY <2>1, <2>2 DEF HostNode
<1> HIDE DEF t
<1>6. QED BY <1>1, <1>3, <1>4, <1>5, ContentTraced

LEMMA MoveTraced ==
  ASSUME GtkInv, FollowInv, NEW i \in Ids, NEW k \in 0 .. 1, Move(i, k)
  PROVE  Traced
<1> DEFINE q == tree[i].parent
           old == ChildrenOf(tree, q)
           t == MoveChild(tree, q, i, k)
           without == Without(old, i)
           new == InsertedAt(without, k, i)
<1>1. tree[i] # None /\ q # None /\ tree' = t /\ lost' = lost
  BY DEF Move, Live, Frame
<1>2. Whole(tree) /\ tree \in Tree /\ k \in Nat BY DEF GtkInv, Whole
<1>3. Kept(tree, t, i) /\ Alike(tree[i], t[i]) BY <1>1, <1>2, MoveWhole
<1>4. q \in Ids /\ tree[q] # None /\ Holds(old, i) BY <1>1, <1>2, ParentLists
<1> HIDE DEF q
<1>5. \A j \in Ids : ChildrenOf(t, j) = IF j = q THEN new ELSE ChildrenOf(tree, j)
  BY <1>2, <1>4, MoveChildren
<1>6. Listing(tree, lost) /\ Once(old) BY <1>4 DEF FollowInv, Listing
<1>7. old \in Seq(Ids) BY <1>2, <1>4, ListOfChildren
<1>8. /\ without \in Seq(Ids) /\ \A x : Holds(without, x) => Holds(old, x)
      /\ Once(without) /\ ~Holds(without, i)
  BY <1>6, <1>7, WithoutOne
<1> HIDE DEF t, old, without
<1>9. /\ \A x : Holds(new, x) <=> Holds(without, x) \/ x = i
      /\ Once(new)
  BY <1>2, <1>8, InsertedOne
<1>10. new # <<>> BY <1>9 DEF Holds
<1> HIDE DEF new
<1>11. \A j \in Ids : t[j] = None <=> tree[j] = None
  BY <1>3 DEF Kept, OthersAlike, Alike
<1>12. \A j \in Ids : tree[j] # None => t[j].parent = tree[j].parent
  BY <1>3 DEF Kept, OthersAlike, Alike
<1>13. Listing(t, lost)
  <2>1. \A j \in Ids : Once(ChildrenOf(t, j)) BY <1>5, <1>6, <1>9 DEF Listing
  <2>2. ASSUME NEW a \in Ids, NEW j \in Ids, t[j] # None, Holds(ChildrenOf(t, a), j), j \notin lost
        PROVE  t[j].parent = a
    <3>1. Holds(ChildrenOf(tree, a), j)
      BY <1>4, <1>5, <1>8, <1>9, <2>2 DEF old
    <3>2. QED BY <1>6, <1>11, <1>12, <2>2, <3>1 DEF Listing
  <2>3. QED BY <2>1, <2>2 DEF Listing
<1>14. t[i].parent = tree[i].parent /\ t[i].component = tree[i].component
  BY <1>1, <1>3 DEF Alike
<1>15. QED BY <1>1, <1>3, <1>5, <1>10, <1>13, <1>14, TracedIs

LEMMA CreatedNode ==
  ASSUME NEW t \in Tree, NEW i \in Ids, NEW k \in Components
  PROVE  CreateNode(t, i, k) \in Tree /\ OthersAlike(t, CreateNode(t, i, k), i)
         /\ CreateNode(t, i, k)[i] # None
<1> DEFINE a == CreateNode(t, i, k)
<1>1. a \in Tree BY CreateTree
<1>2. OthersAlike(t, a, i) BY CreateTree
<1>3. IF t[i] = None THEN a[i] = NewNode(k) ELSE a[i] = [t[i] EXCEPT !.component = k]
  BY CreateTree
<1> HIDE DEF a
<1>4. a[i] \in HostNode
  <2>1. NewNode(k) \in HostNode BY DEF NewNode, HostNode, Optional
  <2>2. t[i] # None => t[i] \in HostNode BY NodeOf
  <2>3. QED BY <1>3, <2>1, <2>2 DEF HostNode
<1>5. QED BY <1>1, <1>2, <1>4, NodeAssumption DEF a

\* What a mounted node and its parent are.
LEMMA MountedIs ==
  ASSUME NEW t \in Tree, NEW i \in Ids, NEW p \in Ids \ {i}, t[p] # None, NEW n \in New
  PROVE  LET created == SetText(SetProperty(CreateNode(t, i, n.component), i, n.prop), i, n.text)
             u == InsertChild(created, p, i)
             list == ChildrenOf(t, p)
         IN  /\ u[i].parent = p
             /\ \A k \in Ids : ChildrenOf(u, k) =
                  IF k # p THEN ChildrenOf(t, k)
                  ELSE IF Holds(list, i) THEN list ELSE Append(list, i)
<1> DEFINE a == CreateNode(t, i, n.component)
           b == SetProperty(a, i, n.prop)
           c == SetText(b, i, n.text)
           u == InsertChild(c, p, i)
<1>1. n.component \in Components /\ n.text \in Optional(TextValues) /\ n.prop \in Optional(PropValues)
  BY GtkAssumption
<1>2. a \in Tree /\ OthersAlike(t, a, i) /\ a[i] # None BY <1>1, CreatedNode
<1>3. \A k \in Ids : ChildrenOf(a, k) = ChildrenOf(t, k) BY <1>1, ContentChildren
<1> HIDE DEF a
<1>4. b \in Tree /\ OthersAlike(a, b, i) /\ b[i] # None
  <2>1. b \in Tree /\ OthersAlike(a, b, i) /\ b[i] = [a[i] EXCEPT !.prop = n.prop]
    BY <1>1, <1>2, SetTree
  <2>2. a[i] \in HostNode BY <1>2, NodeOf
  <2>3. b[i] \in HostNode BY <1>1, <2>1, <2>2 DEF HostNode
  <2>4. QED BY <2>1, <2>3, NodeAssumption
<1>5. \A k \in Ids : ChildrenOf(b, k) = ChildrenOf(a, k) BY <1>1, <1>2, ContentChildren
<1> HIDE DEF b
<1>6. c \in Tree /\ OthersAlike(b, c, i) /\ c[i] # None
  <2>1. c \in Tree /\ OthersAlike(b, c, i) /\ c[i] = [b[i] EXCEPT !.text = n.text]
    BY <1>1, <1>4, SetTree
  <2>2. b[i] \in HostNode BY <1>4, NodeOf
  <2>3. c[i] \in HostNode BY <1>1, <2>1, <2>2 DEF HostNode
  <2>4. QED BY <2>1, <2>3, NodeAssumption
<1>7. \A k \in Ids : ChildrenOf(c, k) = ChildrenOf(b, k) BY <1>1, <1>4, ContentChildren
<1> HIDE DEF c
<1>8. c[p] # None BY <1>2, <1>4, <1>6 DEF OthersAlike, Alike
<1>9. \A k \in Ids : ChildrenOf(c, k) = ChildrenOf(t, k) BY <1>3, <1>5, <1>7
<1>10. ChildrenOf(u, p) = (IF Holds(ChildrenOf(c, p), i) THEN ChildrenOf(c, p)
                           ELSE Append(ChildrenOf(c, p), i))
       /\ \A k \in Ids \ {p} : ChildrenOf(u, k) = ChildrenOf(c, k)
  BY <1>6, <1>8, InsertChildren
<1>11. u[i] = [c[i] EXCEPT !.parent = p] BY <1>6, InsertedNode
<1> HIDE DEF u
<1>12. u[i].parent = p
  <2>1. c[i] \in HostNode BY <1>6, NodeOf
  <2>2. QED BY <1>11, <2>1 DEF HostNode
<1>13. QED BY <1>9, <1>10, <1>12 DEF u, c, b, a

LEMMA MountTraced ==
  ASSUME GtkInv, FollowInv, NEW i \in Ids, NEW p \in Ids, NEW n \in New, Mount(i, p, n)
  PROVE  Traced
<1> DEFINE created == SetText(SetProperty(CreateNode(tree, i, n.component), i, n.prop), i, n.text)
           t == InsertChild(created, p, i)
           list == ChildrenOf(tree, p)
           new == IF Holds(list, i) THEN list ELSE Append(list, i)
<1>1. /\ tree[i] = None /\ tree[p] # None /\ tree' = t
      /\ lost' = IF \E q \in Ids \ {p} : Live(q) /\ Holds(tree[q].children, i)
                 THEN lost \union {i} ELSE lost
  BY DEF Mount, Live, Frame
<1>2. Whole(tree) /\ tree \in Tree /\ p \in Ids \ {i} BY <1>1 DEF GtkInv, Whole
<1>4. Kept(tree, t, i) BY <1>1, <1>2, MountWhole
<1>15. /\ t[i].parent = p
       /\ \A k \in Ids : ChildrenOf(t, k) = IF k # p THEN ChildrenOf(tree, k) ELSE new
  BY <1>1, <1>2, MountedIs
<1>16. t[i].parent = p BY <1>15
<1> HIDE DEF t
<1>17. Listing(tree, lost) BY DEF FollowInv
<1>18. list \in Seq(Ids) /\ Once(list) BY <1>2, <1>17, ListOfChildren DEF Listing
<1> HIDE DEF list
<1>19. new # <<>> /\ Once(new) /\ \A x : Holds(new, x) <=> Holds(list, x) \/ x = i
  BY <1>18, GrownOne
<1> HIDE DEF new
<1>20. lost \subseteq lost' BY <1>1
<1>21. Listing(t, lost')
  <2>1. \A k \in Ids : Once(ChildrenOf(t, k)) BY <1>15, <1>17, <1>19 DEF Listing
  <2>2. ASSUME NEW k \in Ids, NEW j \in Ids, t[j] # None, Holds(ChildrenOf(t, k), j), j \notin lost'
        PROVE  t[j].parent = k
    <3>1. CASE j = i
      <4>1. CASE k = p BY <1>16, <3>1, <4>1
      <4>2. CASE k # p
        <5>1. Holds(ChildrenOf(tree, k), i) BY <1>15, <2>2, <3>1, <4>2
        <5>2. tree[k] # None /\ Holds(tree[k].children, i) BY <5>1 DEF ChildrenOf, Holds
        <5>3. i \in lost' BY <1>1, <4>2, <5>2 DEF Live
        <5>4. QED BY <2>2, <3>1, <5>3
      <4>3. QED BY <4>1, <4>2
    <3>2. CASE j # i
      <4>1. Holds(ChildrenOf(tree, k), j) BY <1>15, <1>19, <2>2, <3>2 DEF list
      <4>2. tree[j] # None /\ t[j].parent = tree[j].parent
        BY <1>4, <2>2, <3>2 DEF Kept, OthersAlike, Alike
      <4>3. QED BY <1>17, <1>20, <2>2, <4>1, <4>2 DEF Listing
    <3>3. QED BY <3>1, <3>2
  <2>3. QED BY <2>1, <2>2 DEF Listing
<1>22. QED BY <1>1, <1>4, <1>15, <1>19, <1>20, <1>21, TracedIs

LEMMA ReparentTraced ==
  ASSUME GtkInv, FollowInv, NEW i \in Ids, NEW p \in Ids, Reparent(i, p)
  PROVE  Traced
<1> DEFINE q == tree[i].parent
           a == RemoveChild(tree, q, i)
           t == InsertChild(a, p, i)
           old == ChildrenOf(tree, q)
           without == Without(old, i)
           list == ChildrenOf(tree, p)
           new == IF Holds(list, i) THEN list ELSE Append(list, i)
<1>1. /\ tree[i] # None /\ q # None /\ p # q /\ tree[p] # None /\ p \notin Below(tree, i)
      /\ tree' = t /\ retyped' = retyped /\ moved' = {i}
      /\ lost' = IF tree[q].component \in Composites \/ q \in retyped
                 THEN lost \union {i, q} ELSE lost
  BY DEF Reparent, Live, Subtree, Frame
<1>2. Whole(tree) /\ tree \in Tree BY DEF GtkInv, Whole
<1>3. Kept(tree, t, i) BY <1>1, <1>2, ReparentWhole
<1>4. q \in Ids /\ q # i /\ tree[q] # None BY <1>1, <1>2, ParentLists
<1>5. p # i BY <1>1, <1>2, BelowUp
<1>6. Listing(tree, lost) BY DEF FollowInv
<1>7. tree[i].parent = q OBVIOUS
<1> HIDE DEF q
<1>8. /\ old \in Seq(Ids) /\ Once(old) /\ list \in Seq(Ids) /\ Once(list)
  BY <1>2, <1>4, <1>6, ListOfChildren DEF Listing
<1>9. a \in Tree /\ OthersAlike(tree, a, i) /\ a[i] = [tree[i] EXCEPT !.parent = None]
  BY <1>1, <1>2, <1>4, RemoveTree
<1>10. \A k \in Ids : ChildrenOf(a, k) = IF k = q THEN without ELSE ChildrenOf(tree, k)
  BY <1>2, <1>4, RemoveChildren
<1> HIDE DEF a
<1>11. a[p] # None BY <1>1, <1>5, <1>9 DEF OthersAlike, Alike
<1>12. a[i] \in HostNode /\ a[i] # None
  <2>1. tree[i] \in HostNode BY <1>1, <1>2, NodeOf
  <2>2. a[i] \in HostNode BY <1>9, <2>1 DEF HostNode, Optional
  <2>3. QED BY <2>2, NodeAssumption
<1>13. ChildrenOf(a, p) = list BY <1>1, <1>10
<1>14. \A k \in Ids : ChildrenOf(t, k) = IF k = p THEN new ELSE ChildrenOf(a, k)
  BY <1>5, <1>9, <1>11, <1>13, InsertChildren
<1>15. t[i].parent = p /\ t[i].component = tree[i].component
  <2>1. t[i] = [a[i] EXCEPT !.parent = p] BY <1>9, <1>12, InsertedNode
  <2>2. tree[i] \in HostNode BY <1>1, <1>2, NodeOf
  <2> HIDE DEF t
  <2>3. a[i].component = tree[i].component BY <1>9, <2>2 DEF HostNode
  <2>4. QED BY <1>12, <2>1, <2>3 DEF HostNode
<1> HIDE DEF t, old, list
<1>16. new # <<>> /\ Once(new) /\ \A x : Holds(new, x) <=> Holds(list, x) \/ x = i
  BY <1>8, GrownOne
<1>17. Once(without) /\ ~Holds(without, i) /\ \A x : Holds(without, x) => Holds(old, x)
  BY <1>8, WithoutOne
<1> HIDE DEF new, without
<1>18. lost \subseteq lost' BY <1>1
<1>19. Listing(t, lost')
  <2>1. \A k \in Ids : Once(ChildrenOf(t, k)) BY <1>6, <1>10, <1>14, <1>16, <1>17 DEF Listing
  <2>2. ASSUME NEW k \in Ids, NEW j \in Ids, t[j] # None, Holds(ChildrenOf(t, k), j), j \notin lost'
        PROVE  t[j].parent = k
    <3>1. CASE j = i
      <4>1. CASE k = p BY <1>15, <3>1, <4>1
      <4>2. CASE k # p
        <5>1. k # q /\ Holds(ChildrenOf(tree, k), i)
          BY <1>1, <1>10, <1>14, <1>17, <2>2, <3>1, <4>2
        <5>2. tree[i].parent = k BY <1>1, <1>6, <1>18, <2>2, <3>1, <5>1 DEF Listing
        <5>3. QED BY <1>7, <5>1, <5>2
      <4>3. QED BY <4>1, <4>2
    <3>2. CASE j # i
      <4>1. Holds(ChildrenOf(tree, k), j)
        BY <1>1, <1>10, <1>14, <1>16, <1>17, <2>2, <3>2 DEF list, old
      <4>2. tree[j] # None /\ t[j].parent = tree[j].parent
        BY <1>3, <2>2, <3>2 DEF Kept, OthersAlike, Alike
      <4>3. QED BY <1>6, <1>18, <2>2, <4>1, <4>2 DEF Listing
    <3>3. QED BY <3>1, <3>2
  <2>3. QED BY <2>1, <2>2 DEF Listing
<1>20. ASSUME NEW k \in Ids, tree[k] # None, tree[k].component \in Composites, k \notin lost',
              ChildrenOf(tree, k) # <<>>
       PROVE  ChildrenOf(t, k) # <<>>
  <2>1. k # q BY <1>1, <1>20
  <2>2. QED BY <1>10, <1>14, <1>16, <1>20, <2>1
<1>21. \/ i \in lost'
       \/ i \in moved' /\ q \notin retyped' /\ t[q].component \notin Composites
  <2>1. CASE tree[q].component \in Composites \/ q \in retyped BY <1>1, <2>1
  <2>2. CASE ~(tree[q].component \in Composites \/ q \in retyped)
    <3>1. t[q].component = tree[q].component
      BY <1>3, <1>4 DEF Kept, OthersAlike, Alike
    <3>2. QED BY <1>1, <2>2, <3>1
  <2>3. QED BY <2>1, <2>2
<1>22. QED BY <1>1, <1>3, <1>7, <1>15, <1>18, <1>19, <1>20, <1>21, TracedIs

LEMMA DeleteTraced ==
  ASSUME GtkInv, FollowInv, NEW i \in Ids, Delete(i)
  PROVE  Traced
<1> DEFINE B == Below(tree, i)
           t == [j \in Ids |-> IF j \in B THEN None ELSE tree[j]]
<1>1. tree' = t /\ lost' = lost \ B BY DEF Delete, Subtree, Frame
<1> HIDE DEF B
<1>2. \A j \in Ids : t[j] # None => j \notin B /\ t[j] = tree[j] OBVIOUS
<1>3. \A j \in Ids : ChildrenOf(t, j) = IF t[j] = None THEN <<>> ELSE ChildrenOf(tree, j)
  BY DEF ChildrenOf
<1> HIDE DEF t
<1>4. Listing(tree, lost) BY DEF FollowInv
<1>5. Listing(t, lost \ B)
  <2>1. \A j \in Ids : Once(ChildrenOf(t, j))
    <3>1. Once(<<>>) BY DEF Once
    <3>2. QED BY <1>3, <1>4, <3>1 DEF Listing
  <2>2. ASSUME NEW k \in Ids, NEW j \in Ids, t[j] # None, Holds(ChildrenOf(t, k), j),
               j \notin lost \ B
        PROVE  t[j].parent = k
    <3>1. j \notin lost /\ t[j] = tree[j] BY <1>2, <2>2
    <3>2. Holds(ChildrenOf(tree, k), j) BY <1>3, <2>2 DEF Holds
    <3>3. QED BY <1>4, <2>2, <3>1, <3>2 DEF Listing
  <2>3. QED BY <2>1, <2>2 DEF Listing
<1>6. ASSUME NEW j \in Ids, tree'[j] # None
      PROVE  j \notin B /\ tree'[j] = tree[j]
  BY <1>1, <1>2, <1>6
<1>7. QED BY <1>1, <1>5, <1>6 DEF Traced

LEMMA MountStep ==
  ASSUME GtkInv, NEW i \in Ids, NEW p \in Ids, NEW n \in New, Mount(i, p, n)
  PROVE  Advances
<1> DEFINE created == SetText(SetProperty(CreateNode(tree, i, n.component), i, n.prop), i, n.text)
           t == InsertChild(created, p, i)
<1>1. /\ tree[i] = None /\ tree[p] # None /\ Frame(t)
      /\ retyped' = retyped /\ swapped' = swapped
  BY DEF Mount, Live
<1>2. Whole(tree) BY DEF GtkInv
<1>3. Kept(tree, t, i) BY <1>1, <1>2, MountWhole
<1> HIDE DEF t
<1>4. QED BY <1>1, <1>3, FrameOf

LEMMA DeleteStep ==
  ASSUME GtkInv, NEW i \in Ids, Delete(i)
  PROVE  Advances
<1> DEFINE B == Below(tree, i)
           t == [j \in Ids |-> IF j \in B THEN None ELSE tree[j]]
<1>1. /\ tree[i] # None /\ tree[i].parent # None /\ Frame(t)
      /\ retyped' = retyped \ B /\ swapped' = swapped \ B
  BY DEF Delete, Live, Subtree
<1>2. Whole(tree) BY DEF GtkInv
<1>3. Whole(t) BY <1>1, <1>2, DeleteWhole
<1> HIDE DEF B
<1>4. ASSUME NEW j \in Ids, tree[j] # None, t[j] # None PROVE AsksOn(tree[j], t[j], j)
  <2>1. j \notin B /\ t[j] = tree[j] BY <1>4
  <2> HIDE DEF t
  <2>2. QED BY <1>1, <2>1, AsksSame
<1> HIDE DEF t
<1>5. QED BY <1>1, <1>3, <1>4, FrameKeeps

LEMMA MoveStep ==
  ASSUME GtkInv, NEW i \in Ids, NEW k \in 0 .. 1, Move(i, k)
  PROVE  Advances
<1> DEFINE t == MoveChild(tree, tree[i].parent, i, k)
<1>1. /\ tree[i] # None /\ tree[i].parent # None /\ Frame(t)
      /\ retyped' = retyped /\ swapped' = swapped
  BY DEF Move, Live
<1>2. Whole(tree) /\ k \in Nat BY DEF GtkInv
<1>3. Kept(tree, t, i) /\ Alike(tree[i], t[i]) BY <1>1, <1>2, MoveWhole
<1> HIDE DEF t
<1>4. AsksOn(tree[i], t[i], i) BY <1>1, <1>3, AsksAlike
<1>5. QED BY <1>1, <1>3, <1>4, FrameOf

LEMMA ReparentStep ==
  ASSUME GtkInv, NEW i \in Ids, NEW p \in Ids, Reparent(i, p)
  PROVE  Advances
<1> DEFINE q == tree[i].parent
           a == RemoveChild(tree, q, i)
           t == InsertChild(a, p, i)
<1>1. /\ tree[i] # None /\ q # None /\ p # q /\ tree[p] # None /\ p \notin Below(tree, i)
      /\ Frame(t) /\ retyped' = retyped /\ swapped' = swapped
  BY DEF Reparent, Live, Subtree
<1>2. Whole(tree) /\ tree \in Tree BY DEF GtkInv, Whole
<1>3. Kept(tree, t, i) BY <1>1, <1>2, ReparentWhole
<1>4. tree[i].component = t[i].component /\ tree[i].prop = t[i].prop
  <2>1. q \in Ids /\ tree[i] \in HostNode BY <1>1, <1>2, NodeOf
  <2> HIDE DEF q
  <2>2. a \in Tree /\ a[i] = [tree[i] EXCEPT !.parent = None] BY <1>1, <1>2, <2>1, RemoveTree
  <2> HIDE DEF a
  <2>3. a[i] \in HostNode /\ a[i].component = tree[i].component /\ a[i].prop = tree[i].prop
    BY <2>1, <2>2 DEF HostNode, Optional
  <2>4. t[i] = [a[i] EXCEPT !.parent = p]
    <3>1. a[i] # None BY <2>3, NodeAssumption
    <3>2. a \in Tree BY <2>2
    <3>3. InsertChild(a, p, i)[i] = [a[i] EXCEPT !.parent = p]
      BY <3>1, <3>2, InsertedNode
    <3>4. QED BY <3>3
  <2> HIDE DEF t
  <2>5. t[i].component = a[i].component /\ t[i].prop = a[i].prop BY <2>3, <2>4 DEF HostNode
  <2>6. QED BY <2>3, <2>5
<1> HIDE DEF t
<1>5. AsksOn(tree[i], t[i], i) BY <1>1, <1>4, AsksSame
<1>6. QED BY <1>1, <1>3, <1>5, FrameOf

LEMMA RetypeStep ==
  ASSUME GtkInv, NEW i \in Ids, NEW c \in Components, Retype(i, c)
  PROVE  Advances
<1> DEFINE t == CreateNode(tree, i, c)
<1>1. /\ tree[i] # None /\ Frame(t) /\ retyped' = retyped \union {i} /\ swapped' = swapped
  BY DEF Retype, Live
<1>2. Whole(tree) /\ tree \in Tree BY DEF GtkInv, Whole
<1>3. Kept(tree, t, i) BY <1>1, <1>2, ContentWhole
<1>4. t[i].prop = tree[i].prop
  <2>1. t[i] = [tree[i] EXCEPT !.component = c] BY <1>1, <1>2, CreateTree
  <2>2. tree[i] \in HostNode BY <1>1, <1>2, NodeOf
  <2> HIDE DEF t
  <2>3. QED BY <2>1, <2>2 DEF HostNode
<1> HIDE DEF t
<1>5. AsksOn(tree[i], t[i], i) BY <1>1, <1>4 DEF AsksOn, HasBinding
<1>6. \A j \in Ids \ {i} : j \notin retyped' => j \notin retyped BY <1>1
<1>7. QED BY <1>1, <1>3, <1>5, <1>6, FrameOf

LEMMA RetextStep ==
  ASSUME GtkInv, NEW i \in Ids, NEW text \in TextValues, Retext(i, text)
  PROVE  Advances
<1> DEFINE t == SetText(tree, i, text)
<1>1. /\ tree[i] # None /\ Frame(t) /\ retyped' = retyped /\ swapped' = swapped
  BY DEF Retext, Live
<1>2. Whole(tree) /\ tree \in Tree /\ text \in Optional(TextValues) BY DEF GtkInv, Whole, Optional
<1>3. Kept(tree, t, i) BY <1>1, <1>2, ContentWhole
<1>4. t[i].component = tree[i].component /\ t[i].prop = tree[i].prop
  <2>1. t[i] = [tree[i] EXCEPT !.text = text] BY <1>1, <1>2, SetTree
  <2>2. tree[i] \in HostNode BY <1>1, <1>2, NodeOf
  <2> HIDE DEF t
  <2>3. QED BY <2>1, <2>2 DEF HostNode
<1> HIDE DEF t
<1>5. AsksOn(tree[i], t[i], i) BY <1>1, <1>4, AsksSame
<1>6. QED BY <1>1, <1>3, <1>5, FrameOf

LEMMA SetListenersStep ==
  ASSUME GtkInv, NEW i \in Ids, NEW prop \in PropValues, SetListeners(i, prop)
  PROVE  Advances
<1> DEFINE t == SetProperty(tree, i, prop)
<1>1. /\ tree[i] # None /\ Frame(t) /\ retyped' = retyped
      /\ HasBinding(tree[i]) => prop \in Binding
      /\ swapped' = IF DesiredListeners(tree[i]) \subseteq DesiredListeners(tree'[i])
                    THEN swapped ELSE swapped \union {i}
  BY DEF SetListeners, Live
<1>2. Whole(tree) /\ tree \in Tree /\ prop \in Optional(PropValues) BY DEF GtkInv, Whole, Optional
<1>3. Kept(tree, t, i) BY <1>1, <1>2, ContentWhole
<1>4. t[i].component = tree[i].component /\ t[i].prop = prop
  <2>1. t[i] = [tree[i] EXCEPT !.prop = prop] BY <1>1, <1>2, SetTree
  <2>2. tree[i] \in HostNode BY <1>1, <1>2, NodeOf
  <2> HIDE DEF t
  <2>3. QED BY <2>1, <2>2 DEF HostNode
<1>5. tree' = t BY <1>1 DEF Frame
<1> HIDE DEF t
<1>6. AsksOn(tree[i], t[i], i) BY <1>1, <1>4, <1>5 DEF AsksOn, HasBinding
<1>7. \A j \in Ids \ {i} : j \notin swapped' => j \notin swapped BY <1>1
<1>8. QED BY <1>1, <1>3, <1>6, <1>7, FrameOf

LEMMA EditStep ==
  ASSUME GtkInv, NEW i \in Ids, NEW value \in TextValues, Edit(i, value)
  PROVE  GtkInv' /\ (crashed' => Excused)
<1>1. /\ ~crashed /\ widgets[i] # None /\ widgets' = [widgets EXCEPT ![i].shown = value]
      /\ tree' = tree /\ attached' = attached /\ crashed' = crashed
      /\ retyped' = retyped /\ swapped' = swapped
  BY DEF Edit, misses
<1>2. /\ widgets \in [Ids -> Widget \union {None}] /\ attached \in [Ids -> SUBSET Bits]
      /\ \A j \in Ids :
           IF tree[j] = None THEN widgets[j] = None /\ attached[j] = {}
           ELSE /\ widgets[j] \in Widget
                /\ Wired(widgets[j], attached[j], tree[j], j, retyped, swapped)
                /\ Served(widgets[j], attached[j], tree[j], j, retyped)
  BY <1>1 DEF GtkInv
<1> DEFINE w == widgets[i]
           v == [w EXCEPT !.shown = value]
<1>3. w \in Widget BY <1>1, <1>2
<1>4. v \in Widget /\ v.kind = w.kind /\ v.gestures = w.gestures /\ v.handlers = w.handlers
  BY <1>3 DEF Widget
<1>5. widgets' = [widgets EXCEPT ![i] = v] BY <1>1
<1> HIDE DEF v
<1>6. widgets' \in [Ids -> Widget \union {None}] BY <1>2, <1>4, <1>5
<1>7. ASSUME NEW j \in Ids
      PROVE  IF tree[j] = None THEN widgets'[j] = None /\ attached[j] = {}
             ELSE /\ widgets'[j] \in Widget
                  /\ Wired(widgets'[j], attached[j], tree[j], j, retyped, swapped)
                  /\ Served(widgets'[j], attached[j], tree[j], j, retyped)
  <2>1. CASE j # i
    <3>1. widgets'[j] = widgets[j] BY <1>2, <1>5, <2>1
    <3>2. QED BY <1>2, <3>1
  <2>2. CASE j = i
    <3>1. widgets'[i] = v BY <1>2, <1>5
    <3>2. tree[i] # None BY <1>1, <1>2
    <3>3. /\ Wired(w, attached[i], tree[i], i, retyped, swapped)
          /\ Served(w, attached[i], tree[i], i, retyped)
      BY <1>2, <3>2
    <3> HIDE DEF w
    <3>4. Wired(v, attached[i], tree[i], i, retyped, swapped) BY <1>4, <3>3 DEF Wired
    <3>5. Served(v, attached[i], tree[i], i, retyped) BY <1>4, <3>3 DEF Served
    <3>6. QED BY <1>4, <2>2, <3>1, <3>2, <3>4, <3>5
  <2>3. QED BY <2>1, <2>2
<1>8. Whole(tree)' /\ crashed' \in BOOLEAN BY <1>1 DEF GtkInv
<1>9. GtkInv' BY <1>1, <1>2, <1>6, <1>7, <1>8 DEF GtkInv
<1>10. QED BY <1>1, <1>9


\* An edit changes what one widget shows, and that node is noted as edited.
LEMMA EditFollows ==
  ASSUME GtkInv, FollowInv, NEW i \in Ids, NEW value \in TextValues, Edit(i, value)
  PROVE  FollowInv'
<1>1. /\ ~crashed /\ widgets[i] # None /\ widgets' = [widgets EXCEPT ![i].shown = value]
      /\ tree' = tree /\ crashed' = crashed /\ edited' = edited \union {i}
      /\ retyped' = retyped /\ moved' = moved /\ lost' = lost
  BY DEF Edit, misses
<1>2. /\ widgets \in [Ids -> Widget \union {None}]
      /\ \A j \in Ids : tree[j] # None => widgets[j] \in Widget
  BY <1>1 DEF GtkInv
<1> DEFINE w == widgets[i]
           v == [w EXCEPT !.shown = value]
<1>3. w \in Widget BY <1>1, <1>2
<1>4. /\ v \in Widget /\ v.kind = w.kind /\ v.children = w.children
      /\ v.box = w.box /\ v.body = w.body
  BY <1>3 DEF Widget
<1>5. widgets' = [widgets EXCEPT ![i] = v] BY <1>1
<1> HIDE DEF v
<1>6. ASSUME NEW j \in Ids, tree[j] # None
      PROVE  /\ widgets'[j] # None /\ widgets'[j].kind = widgets[j].kind
             /\ widgets'[j].children = widgets[j].children
             /\ widgets'[j].box = widgets[j].box /\ widgets'[j].body = widgets[j].body
             /\ j # i => widgets'[j] = widgets[j]
  <2>1. CASE j # i
    <3>1. widgets'[j] = widgets[j] BY <1>2, <1>5, <2>1
    <3>2. widgets[j] # None BY <1>2, <1>6, WidgetAssumption
    <3>3. QED BY <2>1, <3>1, <3>2
  <2>2. CASE j = i
    <3>1. widgets'[i] = v BY <1>2, <1>5
    <3>2. v # None BY <1>4, WidgetAssumption
    <3>3. QED BY <1>4, <2>2, <3>1, <3>2
  <2>3. QED BY <2>1, <2>2
<1>7. Listing(tree, lost)' BY <1>1 DEF FollowInv
<1>8. ASSUME NEW j \in Ids, tree[j] # None
      PROVE  /\ Plausible(widgets'[j], tree[j], j, retyped, lost)
             /\ \A c \in Ids : Holds(widgets'[j].children, c) =>
                  tree[c] # None /\ (c \in lost \/ tree[c].parent = j)
  <2>1. /\ Plausible(widgets[j], tree[j], j, retyped, lost)
        /\ \A c \in Ids : Holds(widgets[j].children, c) =>
             tree[c] # None /\ (c \in lost \/ tree[c].parent = j)
    BY <1>1, <1>8 DEF FollowInv
  <2>2. IsButton(widgets'[j]) <=> IsButton(widgets[j]) BY <1>6, <1>8 DEF IsButton
  <2>3. QED BY <1>6, <1>8, <2>1, <2>2 DEF Plausible
<1>9. WidgetsFollowTree'
  <2> SUFFICES ASSUME NEW j \in Ids, tree[j] # None, j \notin retyped \union lost
               PROVE  Shows(j, moved \union lost)'
    BY <1>1 DEF WidgetsFollowTree, Live
  <2>1. Shows(j, moved \union lost)
    BY <1>1 DEF FollowInv, WidgetsFollowTree, Live
  <2>2. IsButton(widgets'[j]) <=> IsButton(widgets[j]) BY <1>6 DEF IsButton
  <2>3. i \in edited' /\ edited \subseteq edited' BY <1>1
  <2>4. QED BY <1>1, <1>6, <2>1, <2>2, <2>3 DEF Shows
<1>10. QED BY <1>1, <1>7, <1>8, <1>9 DEF FollowInv

LEMMA GtkStep ==
  ASSUME GtkInv, GtkNext
  PROVE  GtkInv' /\ (crashed' => Excused) /\ (FollowInv => FollowInv')
<1> DEFINE Onward == GtkInv' /\ (crashed' => Excused) /\ (FollowInv => FollowInv')
<1>1. ASSUME NEW i \in Ids, NEW p \in Ids, NEW n \in New, Mount(i, p, n) PROVE Onward
  BY <1>1, MountStep, MountTraced DEF Advances
<1>2. ASSUME NEW i \in Ids, Delete(i) PROVE Onward
  BY <1>2, DeleteStep, DeleteTraced DEF Advances
<1>3. ASSUME NEW i \in Ids, NEW k \in 0 .. 1, Move(i, k) PROVE Onward
  BY <1>3, MoveStep, MoveTraced DEF Advances
<1>4. ASSUME NEW i \in Ids, NEW p \in Ids, Reparent(i, p) PROVE Onward
  BY <1>4, ReparentStep, ReparentTraced DEF Advances
<1>5. ASSUME NEW i \in Ids, NEW c \in Components, Retype(i, c) PROVE Onward
  BY <1>5, RetypeStep, RetypeTraced DEF Advances
<1>6. ASSUME NEW i \in Ids, NEW text \in TextValues, Retext(i, text) PROVE Onward
  BY <1>6, RetextStep, RetextTraced DEF Advances
<1>7. ASSUME NEW i \in Ids, NEW prop \in PropValues, SetListeners(i, prop) PROVE Onward
  BY <1>7, SetListenersStep, SetListenersTraced DEF Advances
<1>8. ASSUME NEW i \in Ids, NEW value \in TextValues, Edit(i, value) PROVE Onward
  BY <1>8, EditStep, EditFollows
<1> HIDE DEF Onward
<1>9. Onward BY <1>1, <1>2, <1>3, <1>4, <1>5, <1>6, <1>7, <1>8 DEF GtkNext
<1>10. QED BY <1>9 DEF Onward

LEMMA StartNode ==
  ASSUME NEW r \in Ids, NEW c \in Components
  PROVE  /\ CreateNode(NoNodes, r, c)[r] = NewNode(c) /\ NewNode(c) \in HostNode
         /\ \A i \in Ids \ {r} : CreateNode(NoNodes, r, c)[i] = None
<1> DEFINE u == CreateNode(NoNodes, r, c)
<1>1. NoNodes \in Tree BY DEF NoNodes, Tree, Optional
<1>2. \A i \in Ids : NoNodes[i] = None BY DEF NoNodes
<1>3. NoNodes[r] = None BY <1>2
<1>4. OthersAlike(NoNodes, u, r) /\ u[r] = NewNode(c) BY <1>1, <1>3, CreateTree
<1>5. NewNode(c) \in HostNode BY DEF NewNode, HostNode, Optional
<1> HIDE DEF u
<1>6. \A i \in Ids \ {r} : u[i] = None BY <1>2, <1>4 DEF OthersAlike, Alike
<1>7. QED BY <1>4, <1>5, <1>6 DEF u

LEMMA GtkStart ==
  ASSUME GtkInit
  PROVE  GtkInv
<1>1. PICK r \in Ids, c \in Boxes \intersect Components :
        /\ tree = CreateNode(NoNodes, r, c)
        /\ widgets = [i \in Ids |-> IF i = r THEN BuildWidget(tree[r]) ELSE None]
        /\ attached = [i \in Ids |-> {}]
        /\ crashed = FALSE
  BY DEF GtkInit
<1>2. Whole(tree) BY <1>1, StartWhole
<1>3. /\ tree[r] = NewNode(c) /\ NewNode(c) \in HostNode
      /\ \A i \in Ids \ {r} : tree[i] = None
  <2>1. c \in Components OBVIOUS
  <2>2. QED BY <1>1, <2>1, StartNode
<1> DEFINE n == NewNode(c)
<1>4. DesiredListeners(n) = {} /\ ~HasBinding(n)
  <2>1. n.component = c /\ n.prop = None BY DEF NewNode
  <2>2. c # BUTTON BY ComponentAssumption DEF Boxes
  <2>3. None \notin Binding BY TreeAssumption, GtkAssumption
  <2>4. QED BY <2>1, <2>2, <2>3 DEF DesiredListeners, HasBinding
<1> HIDE DEF n
<1>5. BuildWidget(n) \in Widget /\ Wired(BuildWidget(n), {}, n, r, retyped, swapped)
  BY <1>3, BuiltIs DEF n
<1>6. Served(BuildWidget(n), {}, n, r, retyped) BY <1>4 DEF Served
<1>7. tree[r] = n /\ n # None BY <1>3, NodeAssumption DEF n
<1>8. /\ widgets \in [Ids -> Widget \union {None}] /\ attached \in [Ids -> SUBSET Bits]
      /\ crashed \in BOOLEAN
  BY <1>1, <1>5, <1>7
<1>9. ASSUME NEW i \in Ids
      PROVE  IF tree[i] = None THEN widgets[i] = None /\ attached[i] = {}
             ELSE /\ widgets[i] \in Widget
                  /\ Wired(widgets[i], attached[i], tree[i], i, retyped, swapped)
                  /\ Served(widgets[i], attached[i], tree[i], i, retyped)
  <2>1. CASE i # r
    <3>1. tree[i] = None /\ widgets[i] = None /\ attached[i] = {} BY <1>1, <1>3, <2>1
    <3>2. QED BY <3>1
  <2>2. CASE i = r
    <3>1. widgets[i] = BuildWidget(n) /\ attached[i] = {} /\ tree[i] = n BY <1>1, <1>7, <2>2
    <3>2. QED BY <1>5, <1>6, <1>7, <2>2, <3>1
  <2>3. QED BY <2>1, <2>2
<1>10. QED BY <1>2, <1>8, <1>9 DEF GtkInv

\* The root alone follows: an empty box.
LEMMA FollowStart ==
  ASSUME GtkInit
  PROVE  FollowInv
<1>1. PICK r \in Ids, c \in Boxes \intersect Components :
        /\ tree = CreateNode(NoNodes, r, c)
        /\ widgets = [i \in Ids |-> IF i = r THEN BuildWidget(tree[r]) ELSE None]
        /\ lost = {} /\ moved = {} /\ retyped = {}
  BY DEF GtkInit
<1> DEFINE n == NewNode(c)
           w == BuildWidget(n)
<1>2. /\ tree[r] = n /\ n \in HostNode /\ \A i \in Ids \ {r} : tree[i] = None
  <2>1. c \in Components OBVIOUS
  <2>2. QED BY <1>1, <2>1, StartNode
<1>3. n.children = <<>> /\ n.component = c BY DEF NewNode
<1> HIDE DEF n
<1>4. /\ widgets[r] = w /\ w.kind = WidgetKind(c) /\ w.children = <<>>
      /\ w.box = FALSE /\ w.body = FALSE
  BY <1>1, <1>2, <1>3 DEF BuildWidget
<1>5. w # None
  <2>1. w \in Widget BY <1>2, BuiltIs
  <2>2. QED BY <2>1, WidgetAssumption
<1> HIDE DEF w
<1>6. c \notin Lazy /\ IsContainer(c) BY ComponentAssumption DEF Boxes, Lazy, IsContainer
<1>7. \A k \in Ids : ChildrenOf(tree, k) = <<>> BY <1>2, <1>3 DEF ChildrenOf
<1>8. Once(<<>>) /\ \A x : ~Holds(<<>>, x) BY DEF Once, Holds
<1>9. Listing(tree, lost) BY <1>7, <1>8 DEF Listing
<1>10. Plausible(w, n, r, retyped, lost) BY <1>3, <1>4, <1>6 DEF Plausible
<1>11. LiveChildren(tree, r) = <<>>
  <2>1. <<>> \in Seq(Ids) /\ Len(<<>>) = 0 OBVIOUS
  <2>2. PICK f : OnlyInTable(f, <<>>, {x \in Ids : tree[x] # None})
                 /\ OnlyIn(<<>>, {x \in Ids : tree[x] # None}) = f[0]
    BY <2>1, OnlyInTableExists
  <2>3. QED BY <1>7, <2>2 DEF OnlyInTable, LiveChildren
<1>12. Shows(r, moved \union lost)
  BY <1>2, <1>3, <1>4, <1>5, <1>6, <1>11 DEF Shows
<1>13. ASSUME NEW i \in Ids, tree[i] # None
       PROVE  /\ Plausible(widgets[i], tree[i], i, retyped, lost)
              /\ \A x \in Ids : Holds(widgets[i].children, x) =>
                   tree[x] # None /\ (x \in lost \/ tree[x].parent = i)
              /\ Shows(i, moved \union lost)
  <2>1. i = r BY <1>2, <1>13
  <2>2. QED BY <1>2, <1>4, <1>8, <1>10, <1>12, <2>1
<1>14. WidgetsFollowTree BY <1>13 DEF WidgetsFollowTree, Live
<1>15. QED BY <1>9, <1>13, <1>14 DEF FollowInv

\* The invariant holds of every state of the renderer.
THEOREM GtkInductive ==
  GtkSpec => []GtkInv
<1>1. GtkInit => GtkInv BY GtkStart
<1>2. GtkInv /\ [GtkNext]_gtkVars => GtkInv'
  <2>1. ASSUME GtkInv, GtkNext PROVE GtkInv' BY <2>1, GtkStep
  <2>2. ASSUME GtkInv, UNCHANGED gtkVars PROVE GtkInv'
    <3>1. /\ tree' = tree /\ widgets' = widgets /\ attached' = attached
          /\ crashed' = crashed /\ retyped' = retyped /\ swapped' = swapped
      BY <2>2 DEF gtkVars, misses
    <3>2. Whole(tree)' BY <2>2, <3>1 DEF GtkInv
    <3>3. QED BY <2>2, <3>1, <3>2 DEF GtkInv
  <2>3. QED BY <2>1, <2>2
<1>3. QED BY <1>1, <1>2, PTL DEF GtkSpec

\* As long as nothing has crashed: a press makes an event for each bit a node listens
\* for, exactly one and none for other bits while its mask has lost none (swapped)
\* and its type is the first (retyped); an edit of a bound control makes at least
\* one, the type again the first (attach_listeners, attach_control_events).
THEOREM InputsCorrect ==
  GtkSpec => []InputsReported
<1>1. GtkInv => InputsReported
  <2> SUFFICES ASSUME GtkInv, ~crashed, NEW i \in Ids, tree[i] # None
               PROVE  LET steady == i \notin swapped \union retyped
                          control == tree[i].component \in Controls
                      IN  /\ \A b \in Bits :
                               IF b \in DesiredListeners(tree[i])
                               THEN Reports(i, b) >= 1 /\ (steady => Reports(i, b) = 1)
                               ELSE steady => Reports(i, b) = 0
                          /\ IF HasBinding(tree[i])
                             THEN control /\ i \notin retyped => EditReports(i) >= 1
                             ELSE EditReports(i) = 0
    BY DEF InputsReported, Live
  <2> DEFINE w == widgets[i]
             a == attached[i]
             n == tree[i]
             D == DesiredListeners(tree[i])
  <2>1. /\ w \in Widget /\ Wired(w, a, n, i, retyped, swapped) /\ Served(w, a, n, i, retyped)
        /\ a \in SUBSET Bits
    BY DEF GtkInv
  <2>2. w # None BY <2>1, WidgetAssumption
  <2>3. EditReports(i) = w.handlers /\ \A b \in Bits : Reports(i, b) = w.gestures[b]
    BY <2>2 DEF EditReports, Reports
  <2>4. w.handlers \in Nat /\ w.gestures \in [Bits -> Nat] BY <2>1 DEF Widget
  <2>5. IF HasBinding(n)
        THEN n.component \in Controls /\ i \notin retyped => w.handlers >= 1
        ELSE w.handlers = 0
    BY <2>1, <2>4 DEF Wired, Served
  <2>6. ASSUME NEW b \in Bits
        PROVE  IF b \in D
               THEN /\ w.gestures[b] >= 1
                    /\ i \notin swapped \union retyped => w.gestures[b] = 1
               ELSE i \notin swapped \union retyped => w.gestures[b] = 0
    <3>1. w.gestures[b] \in Nat BY <2>4
    <3>2. D \subseteq a /\ \A c \in a : w.gestures[c] >= 1 BY <2>1 DEF Wired, Served
    <3>3. i \notin swapped \union retyped =>
            (w.gestures[b] = IF b \in a THEN 1 ELSE 0) /\ a \subseteq D
      BY <2>1 DEF Wired
    <3> HIDE DEF D, w, a
    <3>4. QED BY <3>1, <3>2, <3>3
  <2> HIDE DEF w, a
  <2>7. QED BY <2>3, <2>5, <2>6 DEF n, D
<1>2. QED BY <1>1, GtkInductive, PTL

\* After every frame the widgets show what the nodes have (sync_node, update_widget,
\* reconcile_children), but for what the renderer misses: it comes round by way of
\* whom a widget may hold and what became of each node's parent.
THEOREM WidgetsCorrect ==
  GtkSpec => []WidgetsFollowTree
<1>1. GtkInit => FollowInv BY FollowStart
<1>2. GtkInv /\ FollowInv /\ [GtkNext]_gtkVars => FollowInv'
  <2>1. ASSUME GtkInv, FollowInv, GtkNext PROVE FollowInv' BY <2>1, GtkStep
  <2>2. ASSUME FollowInv, UNCHANGED gtkVars PROVE FollowInv'
    <3>1. /\ tree' = tree /\ widgets' = widgets /\ crashed' = crashed /\ edited' = edited
          /\ retyped' = retyped /\ moved' = moved /\ lost' = lost
      BY <2>2 DEF gtkVars, misses
    <3>2. Listing(tree, lost)' BY <2>2, <3>1 DEF FollowInv
    <3>3. WidgetsFollowTree'
      <4> SUFFICES ASSUME ~crashed, NEW i \in Ids, tree[i] # None, i \notin retyped \union lost
                   PROVE  Shows(i, moved \union lost)'
        BY <3>1 DEF WidgetsFollowTree, Live
      <4>1. Shows(i, moved \union lost) BY <2>2 DEF FollowInv, WidgetsFollowTree, Live
      <4>2. QED BY <3>1, <4>1 DEF Shows
    <3>4. QED BY <2>2, <3>1, <3>2, <3>3 DEF FollowInv
  <2>3. QED BY <2>1, <2>2
<1>3. FollowInv => WidgetsFollowTree BY DEF FollowInv
<1>4. QED BY <1>1, <1>2, <1>3, GtkInductive, PTL DEF GtkSpec

\* A frame breaks the main loop only for one of the reasons there are: never by
\* being applied once more (sync_node, update_widget).
THEOREM CrashesExcused ==
  GtkSpec => OnlyDiscrepanciesCrash
<1>1. GtkInv /\ [GtkNext]_gtkVars =>
        [crashed' => \/ crashed
                     \/ ListedInCircles(tree')
                     \/ \E i \in Ids : Discrepancy(i)
                     \/ \E i \in Ids : tree'[i] # None /\ tree'[i].component \in Lazy]_gtkVars
  <2>1. ASSUME GtkInv, GtkNext PROVE crashed' => Excused BY <2>1, GtkStep
  <2>2. QED BY <2>1 DEF Excused
<1>2. QED BY <1>1, GtkInductive, PTL DEF GtkSpec, OnlyDiscrepanciesCrash
=============================================================================
