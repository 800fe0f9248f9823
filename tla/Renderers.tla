----------------------------- MODULE Renderers ------------------------------
(***************************************************************************)
(* One application, two renderers.  The GTK renderer keeps a tree and      *)
(* applies each frame's opcodes to it (host.rs, RenderTree::apply_frame,   *)
(* whose operations on the tree are those of the module RenderTree); the   *)
(* HTML renderer makes a page of a snapshot.  The application changes its  *)
(* tree one edit a frame, or its theme; the platform changes the scheme,   *)
(* and the GTK theme's colours are taken over (enrich_native_defaults)     *)
(* when the first widget is there and whenever the scheme is set.          *)
(*                                                                         *)
(* A node is mounted after its siblings, with an id that no list still     *)
(* has except at its place, and keeps a token once it has one: what goes   *)
(* wrong otherwise is in the README.                                       *)
(***************************************************************************)
EXTENDS HtmlPage

CONSTANTS Components, TextValues, PropValues,
          Themed,           \* tokens the application overrides
          Defaults,         \* the renderer's own tables
          Native,           \* what the GTK theme adds, by scheme
          New,              \* what a node is mounted with
          MaxFrames         \* bound: frames and changes of scheme

Tree == INSTANCE RenderTree

ASSUME RenderersAssumption ==
  /\ IsFiniteSet(Ids) /\ Ids \subseteq Nat
  /\ Themed \subseteq Tokens /\ MaxFrames \in Nat
  /\ DOMAIN Native = Schemes

VARIABLES app,          \* the application's tree
          theme,        \* its overrides, in the order they were set
          gtk,          \* the GTK renderer's tree
          tables, scheme,
          enriched,     \* a widget has been built
          frames

renderVars == <<app, theme, gtk, tables, scheme, enriched, frames>>

-----------------------------------------------------------------------------
(* The GTK renderer.                                                       *)

\* One opcode of apply_frame.
Applied(g, o) ==
  CASE o.op = "create" -> [g EXCEPT !.tree = Tree!CreateNode(@, o.id, o.component)]
    [] o.op = "delete" -> [g EXCEPT !.tree = Tree!DeleteNode(@, o.id)]
    [] o.op = "insert" -> [g EXCEPT !.tree = Tree!InsertChild(@, o.parent, o.id)]
    [] o.op = "remove" -> [g EXCEPT !.tree = Tree!RemoveChild(@, o.parent, o.id)]
    [] o.op = "move" -> [g EXCEPT !.tree = Tree!MoveChild(@, o.parent, o.id, o.index)]
    [] o.op = "text" -> [g EXCEPT !.tree = Tree!SetText(@, o.id, o.text)]
    [] o.op = "property" -> [g EXCEPT !.tree = Tree!SetProperty(@, o.id, o.value)]
    [] o.op = "token" -> [g EXCEPT !.tree = Tree!SetToken(@, o.id, o.path)]
    [] o.op = "override" ->
         [g EXCEPT !.tables = Overridden(@, o.path, o.dark, o.value)]

ResolveOnce(tree, s, ts) ==                 \* seeded fault: not what has a value
  [i \in Ids |->
     IF tree[i] = None \/ tree[i].token = None \/ tree[i].prop # None THEN tree[i]
     ELSE [tree[i] EXCEPT !.prop = Resolve(tree[i].token, s, ts)]]

\* The value of each reference is written over the property, if it has one.
ResolveTokens(tree, s, ts) ==
  [i \in Ids |->
     IF tree[i] = None \/ tree[i].token = None THEN tree[i]
     ELSE LET value == Resolve(tree[i].token, s, ts)
          IN  IF value = None THEN tree[i] ELSE [tree[i] EXCEPT !.prop = value]]

\* enrich_defaults: the renderer's tables, with the theme's colours in the one of
\* the scheme.
Enriched(ts, s) ==
  LET Over(table) == [path \in Tokens |-> IF Native[s][path] # None THEN Native[s][path]
                                          ELSE table[path]]
  IN  [ts EXCEPT !.defaults = IF s = "light" THEN Over(Defaults.defaults)
                              ELSE Defaults.defaults,
                 !.darkDefaults = IF s = "dark" THEN Over(Defaults.darkDefaults)
                                  ELSE Defaults.darkDefaults]

\* apply_frame, then sync, in which the first widget brings the native colours.
Frame(opcodes) ==
  /\ frames < MaxFrames /\ frames' = frames + 1
  /\ LET g == FoldLeft(Applied, [tree |-> gtk, tables |-> tables], opcodes)
         first == ~enriched /\ \E i \in Ids : g.tree[i] # None
     IN  /\ tables' = IF first THEN Enriched(g.tables, scheme) ELSE g.tables
         /\ enriched' = (enriched \/ first)
         /\ gtk' = ResolveTokens(ResolveTokens(g.tree, scheme, g.tables), scheme, tables')
  /\ UNCHANGED scheme

\* set_scheme: the native colours first, for the scheme there was.
SetScheme(s) ==
  /\ s # scheme /\ scheme' = s
  /\ frames < MaxFrames /\ frames' = frames + 1
  /\ tables' = IF enriched THEN Enriched(tables, scheme) ELSE tables
  /\ gtk' = ResolveTokens(ResolveTokens(gtk, scheme, tables'), s, tables')
  /\ UNCHANGED <<app, theme, enriched>>

-----------------------------------------------------------------------------
(* The application's edits, and the opcodes the engine makes of them.       *)

Live(i) == app[i] # None
Root == CHOOSE i \in Ids : \A j \in Ids : i <= j

Subtree(i) == Tree!Below(app, i)

\* A node's opcodes when it is mounted.
MountOpcodes(i, node) ==
  <<CreateOp(i, node.component)>>
    \o (IF node.parent = None THEN <<>> ELSE <<InsertOp(node.parent, i)>>)
    \o (IF node.token # None THEN <<TokenOp(i, node.token)>>
        ELSE IF node.prop # None THEN <<PropertyOp(i, node.prop)>> ELSE <<>>)
    \o (IF node.text # None THEN <<TextOp(i, node.text)>> ELSE <<>>)

Mount(i, p, n) ==
  /\ ~Live(i)
  /\ IF p = None THEN i = Root
     ELSE Live(p) /\ app[p].component \in Containers \union BodyComponents \union Pickers
  /\ \A q \in Ids : gtk[q] # None /\ Tree!Holds(gtk[q].children, i) =>
       q = p /\ Last(gtk[q].children) = i
  /\ LET node == [component |-> n.component, parent |-> p, children |-> <<>>,
                  text |-> n.text, prop |-> n.prop, token |-> n.token]
     IN  /\ app' = [j \in Ids |->
                      IF j = i THEN node
                      ELSE IF j = p THEN [app[p] EXCEPT !.children = Append(@, i)]
                      ELSE app[j]]
         /\ Frame(MountOpcodes(i, node))
  /\ UNCHANGED theme

\* DELETE_NODE of each, lowest id first.
Deletes(S) ==
  [k \in 1 .. Cardinality(S) |->
     DeleteOp(CHOOSE i \in S : Cardinality({j \in S : j < i}) = k - 1)]

Unmount(i) ==
  /\ Live(i) /\ i # Root
  /\ app' = [j \in Ids |->
               IF j \in Subtree(i) THEN None
               ELSE IF j = app[i].parent
               THEN [app[j] EXCEPT !.children = SelectSeq(@, LAMBDA c : c # i)]
               ELSE app[j]]
  /\ Frame(Deletes(Subtree(i)))
  /\ UNCHANGED theme

Reorder(i, k) ==
  /\ Live(i) /\ i # Root
  /\ LET p == app[i].parent
     IN  /\ k < Len(app[p].children)
         /\ app' = [app EXCEPT ![p].children =
                      InsertAt(SelectSeq(@, LAMBDA c : c # i), k + 1, i)]
         /\ Frame(<<MoveOp(p, i, k)>>)
  /\ UNCHANGED theme

Reparent(i, p) ==
  /\ Live(i) /\ i # Root /\ app[i].parent # p
  /\ Live(p) /\ p \notin Subtree(i) /\ app[p].component \in Containers \union BodyComponents \union Pickers
  /\ app' = [app EXCEPT ![app[i].parent].children = SelectSeq(@, LAMBDA c : c # i),
                        ![p].children = Append(@, i), ![i].parent = p]
  /\ Frame(<<RemoveOp(app[i].parent, i), InsertOp(p, i)>>)
  /\ UNCHANGED theme

Retype(i, c) ==
  /\ Live(i) /\ app[i].component # c
  /\ app' = [app EXCEPT ![i].component = c]
  /\ Frame(<<CreateOp(i, c)>>)
  /\ UNCHANGED theme

Retext(i, t) ==
  /\ Live(i) /\ app[i].text # t
  /\ app' = [app EXCEPT ![i].text = t]
  /\ Frame(<<TextOp(i, t)>>)
  /\ UNCHANGED theme

Restyle(i, v) ==
  /\ Live(i) /\ app[i].token = None /\ app[i].prop # v
  /\ app' = [app EXCEPT ![i].prop = v]
  /\ Frame(<<PropertyOp(i, v)>>)
  /\ UNCHANGED theme

Refer(i, path) ==
  /\ Live(i) /\ app[i].token # path
  /\ app' = [app EXCEPT ![i].token = path]
  /\ Frame(<<TokenOp(i, path)>>)
  /\ UNCHANGED theme

\* apply_theme: overrides of one scheme.
ApplyTheme(path, dark, v) ==
  /\ OverrideOp(path, dark, v) \notin {theme[k] : k \in DOMAIN theme}
  /\ theme' = Append(theme, OverrideOp(path, dark, v))
  /\ Frame(<<OverrideOp(path, dark, v)>>)
  /\ UNCHANGED app

RenderInit ==
  /\ app = [i \in Ids |-> None] /\ theme = <<>>
  /\ gtk = Tree!NoNodes
  /\ tables = [NoTables EXCEPT !.defaults = Defaults.defaults,
                               !.darkDefaults = Defaults.darkDefaults]
  /\ scheme = "light" /\ enriched = FALSE /\ frames = 0

RenderNext ==
  \/ \E i \in Ids, p \in Ids \union {None}, n \in New : Mount(i, p, n)
  \/ \E i \in Ids : Unmount(i)
  \/ \E i \in Ids, k \in 0 .. 1 : Reorder(i, k)
  \/ \E i, p \in Ids : Reparent(i, p)
  \/ \E i \in Ids, c \in Components : Retype(i, c)
  \/ \E i \in Ids, t \in TextValues : Retext(i, t)
  \/ \E i \in Ids, v \in PropValues : Restyle(i, v)
  \/ \E i \in Ids, path \in Tokens : Refer(i, path)
  \/ \E path \in Themed, dark \in BOOLEAN, v \in PropValues : ApplyTheme(path, dark, v)
  \/ \E s \in Schemes : SetScheme(s)

RenderSpec == RenderInit /\ [][RenderNext]_renderVars

-----------------------------------------------------------------------------
\* The walk of the application's tree, parents first.
Walk ==
  LET below[depth \in 0 .. Cardinality(Ids)] ==
        [i \in Ids |->
           IF depth = 0 \/ ~Live(i) THEN <<>>
           ELSE <<i>> \o FlattenSeq([k \in DOMAIN app[i].children |->
                                       below[depth - 1][app[i].children[k]]])]
  IN  below[Cardinality(Ids)][Root]

\* The self-contained batch of theme and tree, that a page is made of.
Snapshot == theme \o FlattenSeq([k \in DOMAIN Walk |-> MountOpcodes(Walk[k], app[Walk[k]])])

\* The options of a GTK picker: the texts of the children that have one.
HostOptions(i) ==
  LET labelled == SelectSeq(Tree!LiveChildren(gtk, i), LAMBDA c : gtk[c].text # None)
  IN  [k \in DOMAIN labelled |-> gtk[labelled[k]].text]

\* is_container, is_composite, and what update shows of a node.
HostBody(i) ==
  LET node == gtk[i]
      Composite == node.component \in BodyComponents /\ node.children # <<>>
      texted == node.component \in TextComponents \/ node.component \in BodyComponents
  IN  [kids |-> IF node.component \in Containers \/ Composite
                THEN Tree!LiveChildren(gtk, i) ELSE <<>>,
       text |-> IF texted /\ ~Composite THEN node.text ELSE None,
       options |-> IF node.component \in Pickers THEN HostOptions(i) ELSE <<>>]

\* What the GTK renderer shows of a node, in the page's terms.
HostElement(i) ==
  [component |-> gtk[i].component, style |-> gtk[i].prop, body |-> HostBody(i)]

\* The theme gives the path itself a value, and a dark override of a parent does
\* not come first: what a browser and Resolve must agree on.
Decided(path) ==
  LET own == IF Factor[path] > 0 THEN SpaceBase ELSE path
  IN  \/ scheme = "dark" /\ tables.darkOverrides[own] # None
      \/ /\ tables.overrides[own] # None
         /\ scheme = "dark" => Nearest(tables.darkOverrides, own) = None

\* A button whose children have all been deleted: its list still has their ids,
\* so it is composite, with an empty body.
Hollow(i) ==
  /\ gtk[i].component \in BodyComponents
  /\ gtk[i].children # <<>> /\ Tree!LiveChildren(gtk, i) = <<>>

\* A picker with a child that has no text: an option of the page alone.
Gapped(i) ==
  /\ gtk[i].component \in Pickers
  /\ \E c \in Range(Tree!LiveChildren(gtk, i)) : gtk[c].text = None

\* The page and GTK, which writes every resolved value into its node, show the same
\* of a property of this use: there is no reference, or the page heeds it and the
\* theme decides it.
Told(i, use) ==
  LET c == app[i].component
  IN  /\ use = "paint" \/ c \notin Bare
      /\ app[i].token # None => /\ Decided(app[i].token)
                                /\ use = "first" \/ (use = "paint" /\ c \notin Painted)

\* "The same opcode stream that drives a native backend drives this HTML
\* document" (render-html, lib.rs): a tree kept up by deltas shows the same
\* elements, with the same texts, as a page made from a snapshot, the same
\* literals of every property, and the same token values of those whose
\* references the page heeds, where the theme decides them.
PageAgreesWithTree ==
  Live(Root) =>
    LET page == RenderDocument(Snapshot, Root, scheme)
        KidsOf(i) == HostElement(i).body.kids
    IN  /\ DOMAIN page = Shown(KidsOf, Root)
        /\ \A i \in DOMAIN page :
             /\ page[i].component = HostElement(i).component
             /\ ~Hollow(i) /\ ~Gapped(i) => page[i].body = HostElement(i).body
             /\ \A use \in Uses :
                  Told(i, use) => page[i].style[use] = HostElement(i).style

\* A reference shows what its path resolves to now, with this scheme, theme and
\* defaults, in whatever order they came (spec/TOKENS.md, resolution contract).
TokensShown ==
  \A i \in Ids : gtk[i] # None /\ gtk[i].token # None =>
    Resolve(gtk[i].token, scheme, tables) \in {None, gtk[i].prop}
=============================================================================
