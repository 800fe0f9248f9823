------------------------------ MODULE HtmlPage ------------------------------
(***************************************************************************)
(* The HTML renderer (pathland-render-html, lib.rs): a page made from one  *)
(* self-contained batch, its opcodes decoded into nodes that live no       *)
(* longer than the call.  Opcodes are records.  A node has one property,    *)
(* its literal value and its token reference apart; what the page makes of *)
(* it depends on which property it is, so the style of an element is said  *)
(* for each use that style_css has for one.                                *)
(***************************************************************************)
EXTENDS DesignTokens, Sequences, SequencesExt

CONSTANTS Ids,
          Containers,       \* stacks, grids, scroll views
          TextComponents,   \* text, fields
          BodyComponents,   \* buttons
          Pickers,
          Painted,          \* colours, shapes, dividers: bodies that paint themselves
          Bare              \* of these, what shows no style but its paint: dividers, paths

\* An opcode and its operands, by what it does.
CreateOp(i, c) == [op |-> "create", id |-> i, component |-> c]
DeleteOp(i) == [op |-> "delete", id |-> i]
InsertOp(p, i) == [op |-> "insert", parent |-> p, id |-> i]
RemoveOp(p, i) == [op |-> "remove", parent |-> p, id |-> i]
MoveOp(p, i, k) == [op |-> "move", parent |-> p, id |-> i, index |-> k]
TextOp(i, t) == [op |-> "text", id |-> i, text |-> t]
PropertyOp(i, v) == [op |-> "property", id |-> i, value |-> v]
TokenOp(i, path) == [op |-> "token", id |-> i, path |-> path]
OverrideOp(path, dark, v) == [op |-> "override", path |-> path, dark |-> dark, value |-> v]

PageNode(c) == [component |-> c, children |-> <<>>, text |-> None, prop |-> None,
                token |-> None]

NoPage == [nodes |-> [i \in Ids |-> None], tables |-> NoTables]

\* apply_tree, apply_style and the overrides.  create makes a new node, whatever
\* there was; insert lists a child once more.
Decoded(page, o) ==
  LET Has(i) == page.nodes[i] # None
  IN  CASE o.op = "create" -> [page EXCEPT !.nodes[o.id] = PageNode(o.component)]
        [] o.op = "delete" -> [page EXCEPT !.nodes[o.id] = None]
        [] o.op = "insert" /\ Has(o.parent) ->
             [page EXCEPT !.nodes[o.parent].children = Append(@, o.id)]
        [] o.op = "remove" /\ Has(o.parent) ->
             [page EXCEPT !.nodes[o.parent].children = SelectSeq(@, LAMBDA c : c # o.id)]
        [] o.op = "move" /\ Has(o.parent) ->
             [page EXCEPT !.nodes[o.parent].children =
                LET rest == SelectSeq(@, LAMBDA c : c # o.id)
                    at == IF o.index < Len(rest) THEN o.index ELSE Len(rest)
                IN  InsertAt(rest, at + 1, o.id)]
        [] o.op = "text" /\ Has(o.id) -> [page EXCEPT !.nodes[o.id].text = o.text]
        [] o.op = "property" /\ Has(o.id) -> [page EXCEPT !.nodes[o.id].prop = o.value]
        [] o.op = "token" /\ Has(o.id) -> [page EXCEPT !.nodes[o.id].token = o.path]
        [] o.op = "override" ->
             [page EXCEPT !.tables = Overridden(@, o.path, o.dark, o.value)]
        [] OTHER -> page

Decode(batch) == FoldLeft(Decoded, NoPage, batch)

\* The bodies of COLOR, SHAPE and DIVIDER paint with the literal.
PaintHeeds(node) == node.component \notin Painted

\* What a property's reference counts for: before the literal (sizes, distances,
\* most colours, opacity); so, but not in a painted body (COLOR); only where there
\* is a literal too (SHADOW_COLOR); not at all (FONT_FAMILY, offsets, positions,
\* Z_INDEX, rotation, scale, filters, what is an enumeration or a switch).
Uses == {"first", "paint", "backed", "never"}

Counts(use, node) ==
  \/ use = "first"
  \/ use = "paint" /\ PaintHeeds(node)
  \/ use = "backed" /\ node.prop # None

\* style_css and border_style: the reference, where it counts, before the literal.
StyleCss(node, use, scheme, tables) ==
  IF node.component \in Bare /\ use # "paint" THEN None
  ELSE IF node.token # None /\ Counts(use, node)
  THEN BrowserValue(node.token, scheme, tables) ELSE node.prop

\* The options of a picker: the texts of the children, empty where there is none.
Options(page, node) ==
  [k \in DOMAIN node.children |->
     LET child == page.nodes[node.children[k]] IN IF child = None THEN None ELSE child.text]

BodyTextFirst(node, kids, options) ==       \* seeded fault: a text hides children
  LET whole == node.component \in TextComponents \union BodyComponents /\ node.text # None
  IN  [kids |-> IF whole \/ node.component \in TextComponents \union Pickers THEN <<>> ELSE kids,
       text |-> IF whole THEN node.text ELSE None,
       options |-> IF node.component \in Pickers THEN options ELSE <<>>]

\* What an element of a node shows: a container its children, and a button that
\* lists any; else a button its text, as other components that have one; a picker
\* its options.
Body(node, kids, options) ==
  LET composite == node.component \in BodyComponents /\ node.children # <<>>
      whole == node.component \in TextComponents \union BodyComponents /\ ~composite
  IN  [kids |-> IF node.component \in Containers \/ composite THEN kids ELSE <<>>,
       text |-> IF whole THEN node.text ELSE None,
       options |-> IF node.component \in Pickers THEN options ELSE <<>>]

\* render_node: elements of the children that are nodes, in order.
Element(page, i, scheme) ==
  LET node == page.nodes[i]
      kids == SelectSeq(node.children, LAMBDA c : page.nodes[c] # None)
  IN  [component |-> node.component,
       style |-> [use \in Uses |-> StyleCss(node, use, scheme, page.tables)],
       body |-> Body(node, kids, Options(page, node))]

\* The ids below the root, through what is shown.
Shown(KidsOf(_), root) ==
  LET below[k \in 0 .. Cardinality(Ids)] ==
        IF k = 0 THEN {root}
        ELSE below[k - 1] \union UNION {{KidsOf(i)[n] : n \in DOMAIN KidsOf(i)} : i \in below[k - 1]}
  IN  below[Cardinality(Ids)]

\* render_document, in a browser of that scheme.
RenderDocument(batch, root, scheme) ==
  LET page == Decode(batch)
      KidsOf(i) == Element(page, i, scheme).body.kids
  IN  [i \in Shown(KidsOf, root) |-> Element(page, i, scheme)]
=============================================================================
