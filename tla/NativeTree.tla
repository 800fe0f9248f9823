----------------------------- MODULE NativeTree -----------------------------
(***************************************************************************)
(* The tree a foreign application builds in the native host, node by node, *)
(* through the C ABI (pathland-view-native, lib.rs, NativeHost; capi.rs),  *)
(* and the tree that emit makes of it for the diff engine.                 *)
(*                                                                         *)
(* Nodes refer to each other by id, both ways, and each call does its half *)
(* whether or not the other half makes sense: a child may come to be       *)
(* listed by two nodes, or by one below it.  A caller that means a tree    *)
(* inserts a node that has no parent, and not under itself (Detached), or  *)
(* one that is there already (Attached), and removes a child from its own  *)
(* parent; the history variable strayed says that one did otherwise.       *)
(*                                                                         *)
(* What a node shows is what the engine's tree has: component, text, one   *)
(* property, their bindings.                                               *)
(***************************************************************************)
EXTENDS Lists, FiniteSets, SequencesExt

CONSTANTS Ids, Components, TextComponents, TextValues, PropValues, Signals,
          NoText,       \* the empty text of a new Text or Button
          None,
          MaxCalls,     \* bound: calls that change the tree
          MaxStrayed    \* bound: the same, of a caller that has strayed

ASSUME NativeAssumption ==
  /\ Ids \subseteq Nat /\ IsFiniteSet(Ids) /\ TextComponents \subseteq Components
  /\ None \notin Ids \union TextValues \union PropValues \union Signals \union {NoText}
  /\ MaxCalls \in Nat /\ MaxStrayed \in Nat

Optional(S) == S \union {None}

\* What a node shows, and the node with its links.
Contents == [component : Components, text : Optional(TextValues \union {NoText}),
             prop : Optional(PropValues), textBinding : Optional(Signals),
             propBinding : Optional(Signals)]
Node == [content : Contents, parent : Optional(Ids), children : Seq(Ids)]

ASSUME NodeAssumption == None \notin Node

VARIABLES nodes,        \* id to node or None
          emitted,      \* the tree handed to the engine last
          current,      \* history: nothing was called since that emit
          strayed,      \* history: a call has linked or unlinked nodes otherwise
          calls

nativeVars == <<nodes, emitted, current, strayed, calls>>

Exists(i) == nodes[i] # None

Content(c) == [component |-> c, text |-> IF c \in TextComponents THEN NoText ELSE None,
               prop |-> None, textBinding |-> None, propBinding |-> None]

NativeInit ==
  /\ nodes = [i \in Ids |-> None]
  /\ emitted = <<>> /\ current = FALSE /\ strayed = FALSE /\ calls = 0

\* A call that makes nodes what is changed, and is meant so or changes nothing.
Call(changed, meant) ==
  /\ calls < (IF strayed THEN MaxStrayed ELSE MaxCalls) /\ calls' = calls + 1
  /\ nodes' = changed /\ current' = FALSE
  /\ strayed' = (strayed \/ ~(meant \/ changed = nodes))
  /\ UNCHANGED emitted

-----------------------------------------------------------------------------
(* The calls.                                                              *)

\* create_node, "create (or reset)": a node that exists keeps its links.
CreateNode(i, c) ==
  Call([nodes EXCEPT ![i] =
          IF Exists(i) THEN [@ EXCEPT !.content = Content(c)]
          ELSE [content |-> Content(c), parent |-> None, children |-> <<>>]], TRUE)

\* p is c or below it: c is in every set that has p and each node's parent.
Under(p, c) ==
  \A S \in SUBSET Ids :
    p \in S /\ (\A i \in S : Exists(i) /\ nodes[i].parent # None => nodes[i].parent \in S)
      => c \in S

Attached(p, c) == Exists(p) /\ Exists(c) /\ nodes[c].parent = p
Detached(p, c) == Exists(p) /\ Exists(c) /\ nodes[c].parent = None /\ ~Under(p, c)

InsertAgain(list, c, k) ==                  \* seeded fault: listed or not
  InsertAt(list, (IF k < Len(list) THEN k ELSE Len(list)) + 1, c)

\* Vec::insert at min(index, len), counted from 0; a child that is listed stays
\* where it is.
Inserted(list, c, k) ==
  IF Holds(list, c) THEN list
  ELSE InsertAt(list, (IF k < Len(list) THEN k ELSE Len(list)) + 1, c)

\* The two halves of a call, each for a node that exists.
Listing(ns, p, list) == IF ns[p] = None THEN ns ELSE [ns EXCEPT ![p].children = list]
Naming(ns, c, parent) == IF ns[c] = None THEN ns ELSE [ns EXCEPT ![c].parent = parent]

InsertChild(p, c, k) ==
  Call(Naming(Listing(nodes, p, Inserted(nodes[p].children, c, k)), c, p),
       Detached(p, c) \/ Attached(p, c))

RemoveKeepingParent(p, c) ==                \* seeded fault: half of it
  Call(Listing(nodes, p, Without(nodes[p].children, c)), Attached(p, c))

RemoveChild(p, c) ==
  Call(Naming(Listing(nodes, p, Without(nodes[p].children, c)), c, None), Attached(p, c))

\* Only Text and Button have a text.
SetText(i, t) ==
  /\ Exists(i) /\ nodes[i].content.component \in TextComponents
  /\ Call([nodes EXCEPT ![i].content.text = t], TRUE)

SetProperty(i, v) ==
  Exists(i) /\ Call([nodes EXCEPT ![i].content.prop = v], TRUE)

BindText(i, s) ==
  Exists(i) /\ Call([nodes EXCEPT ![i].content.textBinding = s], TRUE)

BindProperty(i, s) ==
  Exists(i) /\ Call([nodes EXCEPT ![i].content.propBinding = s], TRUE)

-----------------------------------------------------------------------------
(* emit.                                                                   *)

Roots == {i \in Ids : Exists(i) /\ nodes[i].parent = None}

\* One child more of i, with what is below it; none for an id that is no node.
Placed(tree, below, i) ==
  IF below = <<>> THEN tree
  ELSE [walk |-> tree.walk
                   \o <<[below[1] EXCEPT !.parent = i, !.index = tree.children]>> \o Tail(below),
        children |-> tree.children + 1]

\* materialize: the node i, then each child's subtree; below is what materialize
\* makes of the children.
Subtree(i, below) ==
  IF ~Exists(i) THEN <<>>
  ELSE FoldLeft(LAMBDA tree, c : Placed(tree, below[c], i),
                [walk |-> <<[id |-> i, parent |-> None, index |-> 0,
                             content |-> nodes[i].content]>>,
                 children |-> 0],
                nodes[i].children).walk

\* The subtree of r in pre-order, each node with its parent and its place among
\* the children.  A tree is no deeper than there are ids.
Materialized(r) ==
  LET down[depth \in 0 .. Cardinality(Ids)] ==
        IF depth = 0 THEN [i \in Ids |-> <<>>]
        ELSE [i \in Ids |-> Subtree(i, down[depth - 1])]
  IN  down[Cardinality(Ids)][r]

\* No way down from r is longer than there are ids; else it goes round in a circle,
\* and the recursion ends with the program.
Returns(r) ==
  LET down[n \in 0 .. Cardinality(Ids)] ==
        IF n = 0 THEN {i \in Ids : Exists(i)}
        ELSE {i \in down[n - 1] : \E c \in down[n - 1] : Holds(nodes[i].children, c)}
  IN  r \notin down[Cardinality(Ids)]

\* root_id takes the first node without a parent of a hash map: any of them.
Emit ==
  /\ \E r \in Roots : Returns(r) /\ emitted' = Materialized(r)
  /\ current' = TRUE
  /\ UNCHANGED <<nodes, strayed, calls>>

NativeNext ==
  \/ \E i \in Ids, c \in Components : CreateNode(i, c)
  \/ \E p, c \in Ids, k \in 0 .. 1 : InsertChild(p, c, k)
  \/ \E p, c \in Ids : RemoveChild(p, c)
  \/ \E i \in Ids, t \in TextValues : SetText(i, t)
  \/ \E i \in Ids, v \in PropValues : SetProperty(i, v)
  \/ \E i \in Ids, s \in Signals : BindText(i, s) \/ BindProperty(i, s)
  \/ Emit

NativeSpec == NativeInit /\ [][NativeNext]_nativeVars

-----------------------------------------------------------------------------
\* What the engine takes for granted of a tree, in whatever order the calls of a
\* caller that did not stray have built it: no id occurs twice, a parent comes before
\* its children, and these are numbered from 0 in the order they come.  And emit comes
\* to an end.
EngineRely ==
  ~strayed =>
    /\ \A r \in Roots : Returns(r)
    /\ \A k \in 1 .. Len(emitted) :
         LET n == emitted[k]
             before == {j \in 1 .. k - 1 : emitted[j].parent = n.parent}
         IN  /\ \A j \in 1 .. k - 1 : emitted[j].id # n.id
             /\ (k = 1) <=> (n.parent = None)
             /\ k > 1 => /\ \E j \in 1 .. k - 1 : emitted[j].id = n.parent
                         /\ n.index = Cardinality(before)

\* While the caller has not strayed and there is one node without a parent, "the
\* single node without a parent (the root)", what emit hands over is every node, with
\* what the calls gave it.
WholeTreeEmitted ==
  ~strayed /\ current /\ Cardinality(Roots) = 1 =>
    \A i \in Ids : Exists(i) =>
      \E k \in 1 .. Len(emitted) : /\ emitted[k].id = i
                                   /\ emitted[k].parent = nodes[i].parent
                                   /\ emitted[k].content = nodes[i].content
=============================================================================
