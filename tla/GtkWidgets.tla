----------------------------- MODULE GtkWidgets -----------------------------
(***************************************************************************)
(* The GTK renderer (pathland-render-gtk, lib.rs): the widgets it keeps,   *)
(* one per node id, and brings in line with the retained tree (RenderTree) *)
(* after every frame.  A frame carries one edit of the tree, in the        *)
(* opcodes the engine makes of it; applying it, the walk that updates      *)
(* every widget, and the callbacks this fires are one step of the GTK main *)
(* loop.  Between frames the user presses and edits widgets.               *)
(*                                                                         *)
(* GTK itself is external, taken by what the renderer relies on: append    *)
(* does nothing for a widget that has a parent, set_label takes a button's *)
(* child out, setting a control to another value runs its handlers, as the *)
(* user's own edits do.                                                    *)
(*                                                                         *)
(* A component's name includes what decides the widget at build time: the  *)
(* TOGGLE_STYLE of a toggle.  text stands for what a node shows, a control's *)
(* value included; the one property of RenderTree for what it listens to.  *)
(***************************************************************************)
EXTENDS RenderTree, SequencesExt, FiniteSets

\* The component types; the lazy grids are grids.
CONSTANTS VSTACK, HSTACK, LAZY_VSTACK, LAZY_HSTACK, GRID, TEXT, BUTTON, TOGGLE,
          TOGGLE_CHECK, TOGGLE_BUTTON, SLIDER, TEXT_FIELD, PICKER, MENU

CONSTANTS Bits,         \* listener bits
          Mask,         \* EVENT_LISTENERS of a property value
          Binding,      \* property values that have a BINDING_ID
          NoText,       \* what an absent text or value shows as
          Parents,      \* components that take children
          New,          \* what a node is mounted with
          MaxFrames     \* bound: frames

ASSUME GtkAssumption ==
  /\ Mask \in [PropValues -> SUBSET Bits] /\ Binding \subseteq PropValues
  /\ New \subseteq [component : Components, text : Optional(TextValues),
                    prop : Optional(PropValues)]
  /\ MaxFrames \in Nat /\ IsFiniteSet(Ids)

\* The types are different from each other.
ASSUME ComponentAssumption ==
  /\ VSTACK \notin {HSTACK, LAZY_VSTACK, LAZY_HSTACK, GRID, TEXT, BUTTON, TOGGLE,
                    TOGGLE_CHECK, TOGGLE_BUTTON, SLIDER, TEXT_FIELD, PICKER, MENU}
  /\ HSTACK \notin {LAZY_VSTACK, LAZY_HSTACK, GRID, TEXT, BUTTON, TOGGLE,
                    TOGGLE_CHECK, TOGGLE_BUTTON, SLIDER, TEXT_FIELD, PICKER, MENU}
  /\ {LAZY_VSTACK, LAZY_HSTACK} \intersect
       {GRID, TEXT, BUTTON, TOGGLE, TOGGLE_CHECK, TOGGLE_BUTTON, SLIDER, TEXT_FIELD,
        PICKER, MENU} = {}
  /\ {GRID, TEXT, BUTTON, MENU} \intersect
       {TOGGLE, TOGGLE_CHECK, TOGGLE_BUTTON, SLIDER, TEXT_FIELD, PICKER} = {}
  /\ GRID \notin {TEXT, BUTTON, MENU} /\ TEXT \notin {BUTTON, MENU} /\ BUTTON # MENU
  /\ LAZY_VSTACK # LAZY_HSTACK /\ TOGGLE \notin {TOGGLE_CHECK, TOGGLE_BUTTON}
  /\ TOGGLE_CHECK # TOGGLE_BUTTON
  /\ {TOGGLE, TOGGLE_CHECK, TOGGLE_BUTTON} \intersect {SLIDER, TEXT_FIELD, PICKER} = {}
  /\ SLIDER \notin {TEXT_FIELD, PICKER} /\ TEXT_FIELD # PICKER

VARIABLES tree,         \* the retained tree
          widgets,      \* id to widget or None
          attached,     \* id to the listener bits noted as wired
          crashed,      \* a panic on the GTK thread
          edited,       \* ids the user edited since the last frame
          frames,
          moved, lost, retyped, swapped   \* history, see the properties

misses == <<moved, lost, retyped, swapped>>
gtkVars == <<tree, widgets, attached, crashed, edited, frames, misses>>

Lazy == {LAZY_VSTACK, LAZY_HSTACK}
Boxes == {VSTACK, HSTACK}
Composites == {BUTTON, TOGGLE, TOGGLE_CHECK, TOGGLE_BUTTON, MENU}
Controls == {TOGGLE, TOGGLE_BUTTON, SLIDER, TEXT_FIELD, PICKER}

\* The class of the widget built for a component.
WidgetKind(c) ==
  CASE c \in Boxes \union Lazy -> "GtkBox"
    [] c = GRID                -> "GtkGrid"
    [] c = TEXT              -> "GtkLabel"
    [] c = BUTTON            -> "GtkButton"
    [] c = TOGGLE            -> "GtkSwitch"
    [] c = TOGGLE_CHECK      -> "GtkCheckButton"
    [] c = TOGGLE_BUTTON     -> "GtkToggleButton"
    [] c = SLIDER            -> "GtkScale"
    [] c = TEXT_FIELD        -> "GtkEntry"
    [] c = PICKER            -> "GtkDropDown"
    [] c = MENU              -> "GtkMenuButton"
    [] OTHER                   -> "other"

\* downcast::<gtk::Button>: a toggle button is one too.
IsButton(w) == w.kind \in {"GtkButton", "GtkToggleButton"}

\* Scrolled windows and overlays are left out.
IsContainer(c) == c \in Boxes \union Lazy \union {GRID}

\* The raw list: a deleted child still counts.
IsComposite(node) == node.children # <<>> /\ node.component \in Composites

Content(node) == IF node.text = None THEN NoText ELSE node.text

Kinds == {"GtkBox", "GtkGrid", "GtkLabel", "GtkButton", "GtkSwitch", "GtkCheckButton",
          "GtkToggleButton", "GtkScale", "GtkEntry", "GtkDropDown", "GtkMenuButton",
          "other"}

Widget == [kind : Kinds, shown : TextValues \union {NoText}, children : Seq(Ids),
           box : BOOLEAN, body : BOOLEAN, gestures : [Bits -> Nat], handlers : Nat]

\* None is no widget.
ASSUME WidgetAssumption == None \notin Widget

BuildEmpty(node) ==                         \* seeded fault: toggles built unset
  [kind |-> WidgetKind(node.component), shown |-> NoText, children |-> <<>>,
   box |-> FALSE, body |-> FALSE, gestures |-> [b \in Bits |-> 0], handlers |-> 0]

\* Labels, buttons and toggles are built with their content.
BuildWidget(node) ==
  [kind |-> WidgetKind(node.component),
   shown |-> IF node.component \in Composites \union {TEXT} THEN Content(node)
             ELSE NoText,
   children |-> <<>>,               \* of the container, or of the composite box
   box |-> FALSE,                   \* there is a composite box
   body |-> FALSE,                  \* and it is the button's child
   gestures |-> [b \in Bits |-> 0], \* controllers wired, by bit
   handlers |-> 0]                  \* change handlers connected

HasBinding(node) == node.prop \in Binding

\* A button listens to everything.
DesiredListeners(node) ==
  (IF node.component = BUTTON THEN Bits ELSE {})
    \union (IF node.prop = None THEN {} ELSE Mask[node.prop])

-----------------------------------------------------------------------------
(* sync: a fold over the walk, with s = [widgets, attached, crashed].      *)

AttachUnguarded(s, i, node) ==              \* seeded fault: the guard is gone
  [s EXCEPT !.widgets[i].gestures =
              [b \in Bits |-> @[b] + IF b \in DesiredListeners(node) THEN 1 ELSE 0],
            !.attached[i] = DesiredListeners(node)]

\* Only bits not noted are wired; then the whole mask is noted, so that a bit
\* it no longer has is forgotten although it stays wired.
AttachListeners(s, i, node) ==
  LET new == DesiredListeners(node) \ s.attached[i]
  IN  IF new = {} THEN s
      ELSE [s EXCEPT !.widgets[i].gestures =
                       [b \in Bits |-> @[b] + IF b \in new THEN 1 ELSE 0],
                     !.attached[i] = DesiredListeners(node)]

\* A bound control is given one more handler each time.
AttachControlEvents(s, i, node) ==
  IF /\ HasBinding(node) /\ node.component \in Controls
     /\ s.widgets[i].kind = WidgetKind(node.component)
  THEN [s EXCEPT !.widgets[i].handlers = @ + 1] ELSE s

\* A control set to another value runs its handlers.  They borrow the pump,
\* which pump_once holds while it applies the frame: the second borrow panics.
Set(s, i, value) ==
  [s EXCEPT !.widgets[i].shown = value,
            !.crashed = @ \/ (s.widgets[i].shown # value /\ s.widgets[i].handlers > 0)]

\* By the node's component, if the widget is of the class it calls for.  A
\* check button is left as it was built.
ShowContent(s, i, node) ==
  LET w == s.widgets[i]
  IN  IF node.component = BUTTON
      THEN IF IsButton(w) /\ ~IsComposite(node)
           THEN [s EXCEPT !.widgets[i].shown = Content(node), !.widgets[i].body = FALSE]
           ELSE s
      ELSE IF node.component \in Controls \union {TEXT}
              /\ w.kind = WidgetKind(node.component)
           THEN Set(s, i, Content(node))
           ELSE s

Update(s, i, node) ==
  ShowContent(AttachControlEvents(AttachListeners(s, i, node), i, node), i, node)

\* A lazy stack has no layout, and stack_widget expects one.
GetOrCreate(s, i, node) ==
  IF s.widgets[i] # None THEN s
  ELSE [s EXCEPT !.widgets[i] = BuildWidget(node),
                 !.crashed = @ \/ node.component \in Lazy]

Enter(s, i) == Update(GetOrCreate(s, i, tree'[i]), i, tree'[i])

HeldElsewhere(s, i, c) ==
  \E j \in Ids \ {i} : s.widgets[j] # None /\ Holds(s.widgets[j].children, c)

ReconcileAppending(s, i, target) ==         \* seeded fault: what is new goes last
  [s EXCEPT !.widgets[i].children =
     @ \o OnlyIn(target, {c \in Ids : ~Holds(@, c) /\ ~HeldElsewhere(s, i, c)})]

\* All children out, then each appended: not one that another container holds.
Reconcile(s, i, target) ==
  IF s.widgets[i].children = target THEN s
  ELSE [s EXCEPT !.widgets[i].children =
          OnlyIn(target, {c \in Ids : ~HeldElsewhere(s, i, c)})]

\* Composite mode: the first time a box becomes the button's child; if a label
\* took its place since, the box is filled but not shown.
SyncComposite(s, i, target) ==
  IF ~IsButton(s.widgets[i]) THEN s
  ELSE LET boxed == IF s.widgets[i].box THEN s
                    ELSE [s EXCEPT !.widgets[i].box = TRUE, !.widgets[i].body = TRUE]
       IN  Reconcile(boxed, i, target)

Leave(s, i) ==
  LET node == tree'[i]
      kids == LiveChildren(tree', i)
      fits == s.widgets[i].kind = WidgetKind(node.component)
  IN  IF IsContainer(node.component)
      THEN IF ~fits \/ node.component \in Lazy THEN s ELSE Reconcile(s, i, kids)
      ELSE IF IsComposite(node) THEN SyncComposite(s, i, kids) ELSE s

\* The walk of sync_node from i, each node entered, then its children, then left.
\* A path of more nodes than there are goes on for ever: the listing of a node by
\* a former parent can make it a child of what is below it.
Walk(t, root) ==
  LET below[depth \in 0 .. Cardinality(Ids)] ==
        [i \in Ids |->
           IF depth = 0 THEN <<<<"endless", i>>>>
           ELSE LET kids == LiveChildren(t, i)
                IN  <<<<"enter", i>>>>
                      \o FlattenSeq([k \in 1 .. Len(kids) |-> below[depth - 1][kids[k]]])
                      \o <<<<"leave", i>>>>]
  IN  below[Cardinality(Ids)][root]

\* Widgets of ids that are nodes no more are dropped, and with them out of what
\* holds them.
Dropped ==
  [widgets |-> [i \in Ids |->
                  IF widgets[i] = None \/ tree'[i] = None THEN None
                  ELSE [widgets[i] EXCEPT !.children =
                          OnlyIn(@, {c \in Ids : tree'[c] # None})]],
   attached |-> [i \in Ids |-> IF tree'[i] = None THEN {} ELSE attached[i]],
   crashed |-> FALSE]

Root(t) == CHOOSE i \in Ids : t[i] # None /\ t[i].parent = None

\* One step of the walk, none after a panic.  Endless recursion fills the stack.
Step(s, step) ==
  IF s.crashed THEN s
  ELSE IF step[1] = "enter" THEN Enter(s, step[2])
  ELSE IF step[1] = "leave" THEN Leave(s, step[2])
  ELSE [s EXCEPT !.crashed = TRUE]

Synced == FoldLeft(Step, Dropped, Walk(tree', Root(tree')))

-----------------------------------------------------------------------------
(* Frames.                                                                 *)

\* The first frame has mounted the root, a box.
GtkInit ==
  \E r \in Ids, c \in Boxes \intersect Components :
    /\ tree = CreateNode(NoNodes, r, c)
    /\ \A i \in Ids : r <= i
    /\ widgets = [i \in Ids |-> IF i = r THEN BuildWidget(tree[r]) ELSE None]
    /\ attached = [i \in Ids |-> {}]
    /\ crashed = FALSE /\ edited = {} /\ frames = 0
    /\ moved = {} /\ lost = {} /\ retyped = {} /\ swapped = {}

Live(i) == tree[i] # None

\* apply_frame: the tree, then sync.
Frame(t) ==
  /\ ~crashed /\ frames < MaxFrames /\ frames' = frames + 1
  /\ tree' = t
  /\ LET s == Synced
     IN  widgets' = s.widgets /\ attached' = s.attached /\ crashed' = s.crashed
  /\ edited' = {}

\* The listing of a node by a parent it was deleted from comes back with it.
Mount(i, p, n) ==
  /\ ~Live(i)
  /\ Live(p) /\ tree[p].component \in Parents
  /\ LET created == SetText(SetProperty(CreateNode(tree, i, n.component), i, n.prop), i, n.text)
     IN  Frame(InsertChild(created, p, i))
  /\ lost' = IF \E q \in Ids \ {p} : Live(q) /\ Holds(tree[q].children, i)
             THEN lost \union {i} ELSE lost
  /\ moved' = {} /\ UNCHANGED <<retyped, swapped>>

Subtree(i) == Below(tree, i)

Delete(i) ==
  /\ Live(i) /\ tree[i].parent # None
  /\ Frame([j \in Ids |-> IF j \in Subtree(i) THEN None ELSE tree[j]])
  /\ moved' = {} /\ lost' = lost \ Subtree(i)
  /\ retyped' = retyped \ Subtree(i) /\ swapped' = swapped \ Subtree(i)

Move(i, k) ==
  /\ Live(i) /\ tree[i].parent # None
  /\ Frame(MoveChild(tree, tree[i].parent, i, k))
  /\ moved' = {} /\ UNCHANGED <<lost, retyped, swapped>>

Reparent(i, p) ==
  /\ Live(i) /\ tree[i].parent \notin {None, p}
  /\ Live(p) /\ p \notin Subtree(i) /\ tree[p].component \in Parents
  /\ LET q == tree[i].parent
     IN  /\ Frame(InsertChild(RemoveChild(tree, q, i), p, i))
         /\ lost' = IF tree[q].component \in Composites \/ q \in retyped
                    THEN lost \union {i, q} ELSE lost
  /\ moved' = {i}
  /\ UNCHANGED <<retyped, swapped>>

Retype(i, c) ==
  /\ Live(i) /\ tree[i].parent # None /\ tree[i].component # c
  /\ Frame(CreateNode(tree, i, c))
  /\ retyped' = retyped \union {i}
  /\ moved' = {} /\ UNCHANGED <<lost, swapped>>

Retext(i, text) ==
  /\ Live(i) /\ tree[i].text # text
  /\ Frame(SetText(tree, i, text))
  /\ moved' = {} /\ UNCHANGED <<lost, retyped, swapped>>

\* BINDING_ID is never taken back; a mask may lose bits.
SetListeners(i, prop) ==
  /\ Live(i) /\ tree[i].prop # prop /\ (HasBinding(tree[i]) => prop \in Binding)
  /\ Frame(SetProperty(tree, i, prop))
  /\ swapped' = IF DesiredListeners(tree[i]) \subseteq DesiredListeners(tree'[i])
                THEN swapped ELSE swapped \union {i}
  /\ moved' = {} /\ UNCHANGED <<lost, retyped>>

-----------------------------------------------------------------------------
(* The user.                                                               *)

\* The events a press of i makes for a bit, and an edit of it: one for every
\* controller or handler.
Reports(i, b) == IF widgets[i] = None THEN 0 ELSE widgets[i].gestures[b]
EditReports(i) == IF widgets[i] = None THEN 0 ELSE widgets[i].handlers

\* A control changes at once, and every handler reports: no frame is being
\* applied, so the pump is free.
Edit(i, value) ==
  /\ ~crashed /\ widgets[i] # None
  /\ widgets[i].kind \in {WidgetKind(c) : c \in Controls \union {TOGGLE_CHECK}}
  /\ widgets[i].shown # value
  /\ widgets' = [widgets EXCEPT ![i].shown = value]
  /\ edited' = edited \union {i}
  /\ UNCHANGED <<tree, attached, crashed, frames, misses>>

GtkNext ==
  \/ \E i, p \in Ids, n \in New : Mount(i, p, n)
  \/ \E i \in Ids : Delete(i)
  \/ \E i \in Ids, k \in 0 .. 1 : Move(i, k)
  \/ \E i, p \in Ids : Reparent(i, p)
  \/ \E i \in Ids, c \in Components : Retype(i, c)
  \/ \E i \in Ids, text \in TextValues : Retext(i, text)
  \/ \E i \in Ids, prop \in PropValues : SetListeners(i, prop)
  \/ \E i \in Ids, value \in TextValues : Edit(i, value)

GtkSpec == GtkInit /\ [][GtkNext]_gtkVars

-----------------------------------------------------------------------------
\* The widget of node i is of its kind and shows what the node has: its content,
\* or its children in order, those of a composite body in the button's place.
\* What is said of children leaves out those of without.
Shows(i, without) ==
  LET node == tree[i]
      w == widgets[i]
      Kept(list) == OnlyIn(list, Ids \ without)
      kidsShown == Kept(w.children) = Kept(LiveChildren(tree, i))
  IN  /\ w # None /\ w.kind = WidgetKind(node.component)
      /\ IF IsContainer(node.component) THEN kidsShown
         ELSE IF IsComposite(node) /\ IsButton(w) THEN w.body /\ kidsShown
         ELSE node.component \in Controls \union {TEXT, BUTTON} /\ i \notin edited =>
                w.shown = Content(node) /\ ~w.body

\* "kept in sync with the opcode stream" (lib.rs, GtkRenderer): after every frame
\* every node's widget is of its kind and shows what the node has.  The code does
\* not keep it (see retyped, moved and lost).
KeptInSync == ~crashed => \A i \in Ids : Live(i) => Shows(i, {})

\* The same but for what the renderer misses: a node whose component changed
\* keeps its old widget (retyped); a child moved to a parent the walk leaves
\* before its old one is shown from the next frame on (moved); one taken out of
\* a composite body, or still listed by a former parent, may never be (lost).
WidgetsFollowTree ==
  ~crashed =>
    \A i \in Ids : Live(i) /\ i \notin retyped \union lost => Shows(i, moved \union lost)

\* A press makes one event of each node that listens for it, and none of others,
\* whatever frames came before ("so delta frames don't double-attach"), unless
\* the node's mask lost a bit in between; an edit of a bound control makes at
\* least one, of an unbound one none.
InputsReported ==
  ~crashed =>
    \A i \in Ids : Live(i) =>
      LET steady == i \notin swapped \union retyped
          control == tree[i].component \in Controls
      IN  /\ \A b \in Bits :
               IF b \in DesiredListeners(tree[i])
               THEN Reports(i, b) >= 1 /\ (steady => Reports(i, b) = 1)
               ELSE steady => Reports(i, b) = 0
          /\ IF HasBinding(tree[i]) THEN control /\ i \notin retyped => EditReports(i) >= 1
             ELSE EditReports(i) = 0

\* The value a frame brings for a bound control is not what its widget shows: the
\* user's edit was not answered, or the application set it.
Discrepancy(i) ==
  /\ tree'[i] # None /\ HasBinding(tree'[i]) /\ tree'[i].component \in Controls
  /\ IF widgets[i] = None
     THEN tree'[i].component \notin Composites /\ Content(tree'[i]) # NoText
     ELSE widgets[i].shown # Content(tree'[i])

\* Nodes each of which lists another of them.
ListedInCircles(t) ==
  \E S \in SUBSET Ids \ {{}} : \A i \in S : \E c \in S : Holds(LiveChildren(t, i), c)

\* A frame breaks the main loop only by setting a bound control to a value it
\* does not show, by a lazy stack, or by a node that a former parent, now below
\* it, still lists: never by being applied once more.
OnlyDiscrepanciesCrash ==
  [][crashed' => \/ crashed
                 \/ ListedInCircles(tree')
                 \/ \E i \in Ids : Discrepancy(i)
                 \/ \E i \in Ids : tree'[i] # None /\ tree'[i].component \in Lazy]_gtkVars
=============================================================================
