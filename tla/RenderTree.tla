----------------------------- MODULE RenderTree -----------------------------
(***************************************************************************)
(* The retained tree of the GTK renderer (lib/rust/crates/                 *)
(* pathland-render-gtk/src/host.rs, RenderTree): what each opcode does to  *)
(* it, as operators on a tree, a function from node ids to nodes or None.  *)
(*                                                                         *)
(* One property stands for all of them: literal value and design-token     *)
(* reference are kept apart, as properties and token_refs are.             *)
(***************************************************************************)
EXTENDS Lists, FiniteSets

CONSTANTS Ids,          \* node ids
          Components,   \* component types
          TextValues,   \* what SET_TEXT carries
          PropValues,   \* literal property values
          Tokens,       \* design-token paths
          None

ASSUME TreeAssumption ==
  /\ Ids \subseteq Nat
  /\ None \notin Ids \union Components \union TextValues \union PropValues \union Tokens

Optional(S) == S \union {None}

HostNode == [component : Components, parent : Optional(Ids), children : Seq(Ids),
             text : Optional(TextValues), prop : Optional(PropValues),
             token : Optional(Tokens)]

\* None is no node.
ASSUME NodeAssumption == None \notin HostNode

NoNodes == [i \in Ids |-> None]

\* Vec::insert at min(k, len), k counted from 0.
InsertedAt(list, k, c) ==
  LET at == IF k < Len(list) THEN k ELSE Len(list)
  IN  SubSeq(list, 1, at) \o <<c>> \o SubSeq(list, at + 1, Len(list))

NewNode(c) == [component |-> c, parent |-> None, children |-> <<>>,
               text |-> None, prop |-> None, token |-> None]

\* A node that exists keeps everything but its component type.
CreateNode(tree, id, c) ==
  [tree EXCEPT ![id] = IF tree[id] = None THEN NewNode(c)
                       ELSE [tree[id] EXCEPT !.component = c]]

\* Only the node itself: its parent goes on listing it.
DeleteNode(tree, id) == [tree EXCEPT ![id] = None]

\* The list of p and the parent of c, each if the node exists.
Relinked(tree, p, list, c, parent) ==
  [i \in Ids |->
     IF tree[i] = None THEN None
     ELSE IF i = c THEN [tree[i] EXCEPT !.parent = parent]
     ELSE IF i = p THEN [tree[i] EXCEPT !.children = list]
     ELSE tree[i]]

ChildrenOf(tree, p) == IF tree[p] = None THEN <<>> ELSE tree[p].children

\* The opcode's index is not read: a child not yet listed goes last.
InsertChild(tree, p, c) ==
  LET list == ChildrenOf(tree, p)
  IN  Relinked(tree, p, IF Holds(list, c) THEN list ELSE Append(list, c), c, p)

RemoveChild(tree, p, c) ==
  Relinked(tree, p, Without(ChildrenOf(tree, p), c), c, None)

MoveChild(tree, p, c, k) ==
  IF tree[p] = None THEN tree
  ELSE [tree EXCEPT ![p].children = InsertedAt(Without(@, c), k, c)]

SetText(tree, id, t) ==
  IF tree[id] = None THEN tree ELSE [tree EXCEPT ![id].text = t]

\* SET_PROPERTY, by value type: a literal leaves a token reference in place,
\* and resolve_tokens writes the token's value over it again.
SetProperty(tree, id, v) ==
  IF tree[id] = None THEN tree ELSE [tree EXCEPT ![id].prop = v]

SetToken(tree, id, t) ==
  IF tree[id] = None THEN tree ELSE [tree EXCEPT ![id].token = t]

\* The children sync_node finds: ids that are still nodes.
LiveChildren(tree, p) == OnlyIn(ChildrenOf(tree, p), {c \in Ids : tree[c] # None})

\* A node and those under it, as their parents say: what an application takes away
\* with the node.
Below(tree, i) ==
  LET up[n \in 0 .. Cardinality(Ids)] ==
        [j \in Ids |->
           IF n = 0 \/ tree[j] = None THEN j
           ELSE IF tree[j].parent = None THEN None ELSE up[n - 1][tree[j].parent]]
  IN  {j \in Ids : tree[j] # None /\ \E n \in 0 .. Cardinality(Ids) : up[n][j] = i}
=============================================================================
