------------------------------- MODULE Emitter -------------------------------
(***************************************************************************)
(* The Java emitter (pathland-view/emit/Emitter.java) and the page its     *)
(* frames are applied to (DomTree).                                        *)
(*                                                                         *)
(* A tree of views is a function from paths to nodes; the path of a node   *)
(* is the sequence of positions that leads to it.  Render gives the tree   *)
(* that a root renders to under each valuation of the signals.  A slot     *)
(* (Conditional, NavigationContainer) has at most one child, which a       *)
(* signal selects.                                                         *)
(*                                                                         *)
(* A write runs the effects that read the signal, and those they create,   *)
(* one at a time until none is due; SignalGraph models how, and here they  *)
(* run in any order in which a slot comes before what it holds.  A frame   *)
(* is applied as it is sent, or lost while the page has no connection.  A  *)
(* reconnect mounts a new emitter, with the state that was saved, and asks *)
(* it for a full frame.                                                    *)
(***************************************************************************)
EXTENDS DomTree, FiniteSets

CONSTANTS Signals, ValuesOf,
          Saved,          \* the signals whose values are saved (State)
          Components, TextValues, Actions,
          Roots, Render,  \* root views, and their trees by valuation
          None,           \* no signal, action or text
          MaxId,          \* bound: no write once nextId is greater, or when a
                          \* full frame has met a page of other ids
          MaxCuts         \* bound: how often the connection is cut

Valuations ==
  {v \in [Signals -> UNION {ValuesOf[s] : s \in Signals}] :
     \A s \in Signals : v[s] \in ValuesOf[s]}

Optional(S) == S \union {None}
Paths == Seq(Nat \ {0})

\* A view: the signal its text is bound to, the one that selects what it holds
\* if it is a slot, its action.
View == [component : Components, text : Optional(TextValues),
         bind : Optional({s \in Signals : ValuesOf[s] \subseteq TextValues}),
         slot : Optional(Signals), tap : Optional(Actions),
         router : BOOLEAN, link : BOOLEAN]

\* A tree begins at the root, every child has a parent and elder siblings, and a
\* slot holds one child or none.
IsTree(t) ==
  /\ DOMAIN t \subseteq Paths /\ IsFiniteSet(DOMAIN t) /\ t \in [DOMAIN t -> View]
  /\ <<>> \in DOMAIN t
  /\ \A q \in DOMAIN t \ {<<>>} :
       /\ Front(q) \in DOMAIN t
       /\ Last(q) > 1 => Append(Front(q), Last(q) - 1) \in DOMAIN t
       /\ t[Front(q)].slot # None => Last(q) = 1

\* A bound text is what its signal is.
ShowsBound(t, v) == \A q \in DOMAIN t : t[q].bind # None => t[q].text = v[t[q].bind]

\* Another valuation leaves what lies below slots whose signals it leaves as they
\* are, but for bound texts.
SameBelow(t, v, u, w) ==
  \A q \in DOMAIN t :
    (\A p \in DOMAIN t : IsStrictPrefix(p, q) /\ t[p].slot # None => v[t[p].slot] = w[t[p].slot])
    => /\ q \in DOMAIN u
       /\ u[q] = [t[q] EXCEPT !.text = u[q].text]
       /\ t[q].bind = None => u[q].text = t[q].text

\* What has a text (Text, TextField, TextEditor, Toggle) holds nothing.
TextsHoldNothing(t) ==
  \A q \in DOMAIN t : t[q].text # None \/ t[q].bind # None =>
    /\ t[q].slot = None
    /\ \A r \in DOMAIN t : ~IsStrictPrefix(q, r)

ASSUME TextAssumption == None \notin TextValues \union {Blank}

ASSUME RenderAssumption == \A r \in Roots : \A v, w \in Valuations :
  /\ IsTree(Render[r][v]) /\ ShowsBound(Render[r][v], v) /\ TextsHoldNothing(Render[r][v])
  /\ SameBelow(Render[r][v], v, Render[r][w], w)

VARIABLES
  root,       \* the root view
  values,     \* the signals' values
  tree,       \* the retained tree
  nextId,
  effects,    \* the effects registered for its nodes (bindings, nodeBindings)
  due,        \* those that are to run
  taps,       \* tapActions, by id
  links,      \* the ids navigateActions has
  broken,     \* an effect failed to make its frame
  doc,        \* the page
  linked,     \* the page has a connection
  asked,      \* a RESYNC is under way
  inStep,     \* history: the page has had every frame since it was whole
  frame,      \* history: the frame of the last step
  cuts        \* how often the connection was cut

treeVars == <<tree, nextId, effects, taps, links, broken>>
pageVars == <<doc, linked, asked, inStep, cuts>>
emitterVars == <<root, values, treeVars, due, pageVars, frame>>

-----------------------------------------------------------------------------
(* Paths.                                                                    *)

Arity(t, q) == Cardinality({r \in DOMAIN t : r # <<>> /\ Front(r) = q})
Nth(q, i) == Append(q, i)
Beneath(t, q) == {r \in DOMAIN t : IsStrictPrefix(q, r)}
Part(t, paths) == [r \in paths |-> t[r]]

\* The order of a walk that visits a node before its children.
Before(q, r) ==
  \/ IsStrictPrefix(q, r)
  \/ \E i \in DOMAIN q \intersect DOMAIN r :
       q[i] < r[i] /\ SubSeq(q, 1, i - 1) = SubSeq(r, 1, i - 1)

\* A node: a view with an id.
Given(view, i) ==
  [component |-> view.component, text |-> view.text, bind |-> view.bind,
   slot |-> view.slot, tap |-> view.tap, router |-> view.router, link |-> view.link,
   id |-> i]

\* A rendered tree given ids: old ones, by path, or the next in the walk's order.
Numbered(fresh, old, next) ==
  [q \in DOMAIN fresh |->
     Given(fresh[q],
           IF q \in DOMAIN old THEN old[q]
           ELSE next + Cardinality({r \in DOMAIN fresh \ DOMAIN old : Before(r, q)}))]

\* f, and g where f is undefined.
Over(f, g) == [x \in DOMAIN f \union DOMAIN g |-> IF x \in DOMAIN f THEN f[x] ELSE g[x]]

IdsOf(t) == {t[q].id : q \in DOMAIN t}

\* What a node shows.
TextOf(node) == IF node.text = None THEN Blank ELSE node.text

-----------------------------------------------------------------------------
(* Frames.                                                                   *)

Texts(node) == IF TextOf(node) = Blank THEN <<>> ELSE <<TextOp(node.id, node.text)>>

EachChild(n, ops(_)) == FlattenSeq([i \in 1 .. n |-> ops(i)])

\* emitNode, and CREATE_NODE with emitSubtreeInto: a node, then each child
\* with all it has before it is inserted, at the end.
EmitNode(t, p) ==
  LET emit[q \in DOMAIN t] ==
        <<CreateOp(t[q].id, t[q].component)>> \o Texts(t[q])
        \o EachChild(Arity(t, q), LAMBDA i :
             emit[Nth(q, i)] \o <<InsertOp(t[q].id, t[Nth(q, i)].id, -1)>>)
  IN  emit[p]

FullFrame(t) == EmitNode(t, <<>>)

\* The nodes that keep their id: of the same component at the same position of
\* a parent that keeps its own.
Kept(old, fresh, p) ==
  {q \in Beneath(old, p) \intersect Beneath(fresh, p) :
     \A k \in Len(p) + 1 .. Len(q) :
       old[SubSeq(q, 1, k)].component = fresh[SubSeq(q, 1, k)].component}

\* The tree with what is rendered below p instead of what was there.
Refitted(old, fresh, p, next) ==
  Over(Numbered(Part(fresh, Beneath(fresh, p)), [q \in Kept(old, fresh, p) |-> old[q].id], next),
       Part(old, DOMAIN old \ Beneath(old, p)))

NewTextAlways(old, fresh) ==                \* seeded fault: the old one not compared
  <<TextOp(fresh.id, fresh.text)>>

NewText(old, fresh) ==
  IF old.text = fresh.text THEN <<>> ELSE <<TextOp(fresh.id, fresh.text)>>

\* reconcileChildren and reconcileNode.
Reconciled(old, fresh, p) ==
  LET kept == Kept(old, fresh, p)
      diff[q \in {p} \union kept] ==
        EachChild(Max({Arity(old, q), Arity(fresh, q)}), LAMBDA i :
          LET r == Nth(q, i)
          IN  IF r \in kept THEN NewText(old[r], fresh[r]) \o diff[r]
              ELSE (IF r \in DOMAIN old
                    THEN <<RemoveOp(fresh[q].id, old[r].id), DeleteOp(old[r].id)>>
                    ELSE <<>>)
                   \o (IF r \in DOMAIN fresh
                       THEN Append(EmitNode(fresh, r), InsertOp(fresh[q].id, fresh[r].id, i - 1))
                       ELSE <<>>))
  IN  diff[p]

\* A frame reaches the page, or is lost.
Send(ops) ==
  /\ frame' = ops
  /\ doc' = IF linked THEN ApplyFrame(doc, ops) ELSE doc
  /\ inStep' = (inStep /\ (linked \/ ops = <<>>))

-----------------------------------------------------------------------------
(* Inputs and bindings.                                                      *)

Effect(kind, node, on) == [kind |-> kind, id |-> node.id, on |-> on]

\* registerBindings(node), for the node at p: what lies in a slot is left to the
\* slot's effect.
Registered(t, p) ==
  LET own == {q \in DOMAIN t :
                /\ IsPrefix(p, q)
                /\ \A r \in DOMAIN t : IsPrefix(p, r) /\ IsStrictPrefix(r, q)
                                       => t[r].slot = None}
  IN  {Effect("text", t[q], t[q].bind) : q \in {r \in own : t[r].bind # None}}
      \union {Effect("slot", t[q], t[q].slot) : q \in {r \in own : t[r].slot # None}}

Tappable(t) == {q \in DOMAIN t : t[q].tap # None}
Tapped(t) ==
  [i \in {t[q].id : q \in Tappable(t)} |-> t[CHOOSE q \in Tappable(t) : t[q].id = i].tap]

\* The links below p that have a router on the way down from p.
Linked(t, p) ==
  {t[q].id : q \in {r \in DOMAIN t :
     /\ t[r].link
     /\ \E s \in DOMAIN t : t[s].router /\ IsPrefix(p, s) /\ IsPrefix(s, r)}}

Without(f, ids) == [i \in DOMAIN f \ ids |-> f[i]]

-----------------------------------------------------------------------------
(* The emitter.                                                              *)

\* mount: the root is rendered, and every effect registered is due.
Mounted(v) == Numbered(Render[root][v], <<>>, 1)

Mount(t) ==
  /\ tree' = t /\ nextId' = Cardinality(DOMAIN t) + 1
  /\ effects' = Registered(t, <<>>) /\ due' = Registered(t, <<>>)
  /\ taps' = Tapped(t) /\ links' = Linked(t, <<>>)
  /\ broken' = FALSE

\* The effect of a bound text.
RunText(e) ==
  LET stale == {q \in DOMAIN tree : tree[q].id = e.id /\ tree[q].text # values[e.on]}
  IN  /\ tree' = [q \in DOMAIN tree |->
                    IF q \in stale THEN [tree[q] EXCEPT !.text = values[e.on]] ELSE tree[q]]
      /\ Send(IF stale = {} THEN <<>> ELSE <<TextOp(e.id, values[e.on])>>)
      /\ due' = due \ {e}
      /\ UNCHANGED <<nextId, effects, taps, links, broken>>

DestroyedShallow(old, p) ==                 \* seeded fault: the child's own only
  {e \in effects : e.id \in {old[q].id : q \in {r \in Beneath(old, p) : Len(r) = Len(p) + 1}}}

\* destroySubtreeBindings.
Destroyed(old, p) == {e \in effects : e.id \in {old[q].id : q \in Beneath(old, p)}}

ForgottenNever(ids) == {}                   \* seeded fault: input stays registered

\* forgetInputs.
Forgotten(ids) == ids

\* The slot's effect: the content is rendered, untracked, and the subtree made
\* to fit.  A text that is taken away fails: the frame is not sent, and nothing
\* of the new subtree registered.
RunSlot(e) ==
  \E p \in {q \in DOMAIN tree : tree[q].id = e.id} :
    LET rendered == Render[root][values]
        below == Beneath(rendered, p)
        ids == {tree[q].id : q \in Beneath(tree, p)}
        ops == Reconciled(tree, tree', p)
        fails == \E i \in DOMAIN ops : ops[i].cmd = "SET_TEXT" /\ ops[i].arg = None
        added == IF fails THEN {} ELSE Registered(tree', Nth(p, 1))
    IN  /\ tree' = Refitted(tree, rendered, p, nextId)
        /\ nextId' = nextId + Cardinality(below \ Kept(tree, rendered, p))
        /\ effects' = (effects \ Destroyed(tree, p)) \union added
        /\ due' = ((due \ {e}) \ Destroyed(tree, p)) \union added
        /\ taps' = IF fails THEN Without(taps, Forgotten(ids))
                   ELSE Over(Tapped(Part(tree', below)), Without(taps, Forgotten(ids)))
        /\ links' = (links \ Forgotten(ids))
                    \union (IF fails THEN {} ELSE Linked(tree', p))
        /\ broken' = (broken \/ fails)
        /\ Send(IF fails THEN <<>> ELSE ops)

\* The effect of a slot around the node of e is to run.
EnclosingDue(e) ==
  \E p, q \in DOMAIN tree :
    /\ IsStrictPrefix(p, q) /\ tree[q].id = e.id
    /\ Effect("slot", tree[p], tree[p].slot) \in due

\* An enclosing slot subscribed to their signal first, and runs first; one that
\* an exception kept from running may stay behind.
RunEffect(e) ==
  /\ e \in due
  /\ EnclosingDue(e) => broken
  /\ \/ e.kind = "text" /\ RunText(e)
     \/ e.kind = "slot" /\ RunSlot(e)
  /\ UNCHANGED <<root, values, linked, asked, cuts>>

\* A call returns when no effect is due, or with the exception of one: those
\* that are left run with a later write, or never.
Returned == due = {} \/ broken

\* A handler of the application writes a signal.
Write(s, x) ==
  /\ Returned /\ nextId <= MaxId /\ (linked /\ ~asked => inStep)
  /\ values[s] # x
  /\ values' = [values EXCEPT ![s] = x]
  /\ due' = due \union {e \in effects : e.on = s}
  /\ frame' = <<>>
  /\ UNCHANGED <<root, treeVars, pageVars>>

-----------------------------------------------------------------------------
(* The page.                                                                 *)

\* What the server renders from the mount frame: an element for each node.
PageOf(t) == ApplyFrame(<<>>, FullFrame(t))

\* The connection is cut: what is sent from now on is lost.
Cut ==
  /\ linked /\ cuts < MaxCuts
  /\ linked' = FALSE /\ asked' = FALSE
  /\ cuts' = cuts + 1 /\ frame' = <<>>
  /\ UNCHANGED <<root, values, treeVars, due, doc, inStep>>

\* The client is back: a new session mounts with what was saved, other signals at
\* what its views begin with; its mount frame is not sent, and the client asks for
\* a full frame.
Reconnect ==
  /\ ~linked /\ Returned
  /\ values' \in {v \in Valuations : \A s \in Saved : v[s] = values[s]}
  /\ Mount(Mounted(values'))
  /\ linked' = TRUE /\ asked' = TRUE /\ inStep' = FALSE
  /\ frame' = <<>>
  /\ UNCHANGED <<root, doc, cuts>>

\* The page and a new emitter number the nodes alike, byId has no other, and no
\* text is to be taken away.
Alike(t) ==
  /\ DOMAIN doc = IdsOf(t)
  /\ \A q \in DOMAIN t :
       /\ doc[t[q].id].shell = t[q].component
       /\ doc[t[q].id].inside = [i \in 1 .. Arity(t, q) |-> t[Nth(q, i)].id]
       /\ TextOf(t[q]) = Blank => doc[t[q].id].text = Blank

\* renderFull: no RESET goes before it.
RenderFull ==
  /\ asked /\ linked /\ Returned
  /\ asked' = FALSE
  /\ frame' = FullFrame(tree)
  /\ doc' = ApplyFrame(doc, FullFrame(tree))
  /\ inStep' = Alike(tree)
  /\ UNCHANGED <<root, values, treeVars, due, linked, cuts>>

-----------------------------------------------------------------------------
\* A page has been loaded, and its session mounted.
EmitterInit ==
  /\ root \in Roots
  /\ values \in Valuations
  /\ tree = Mounted(values)
  /\ nextId = Cardinality(DOMAIN tree) + 1
  /\ effects = Registered(tree, <<>>) /\ due = effects
  /\ taps = Tapped(tree) /\ links = Linked(tree, <<>>)
  /\ broken = FALSE
  /\ doc = PageOf(tree) /\ linked = TRUE /\ asked = FALSE /\ inStep = TRUE
  /\ frame = <<>> /\ cuts = 0

EmitterNext ==
  \/ \E e \in due : RunEffect(e)
  \/ \E s \in Signals : \E x \in ValuesOf[s] : Write(s, x)
  \/ Cut \/ Reconnect \/ RenderFull

EmitterSpec == EmitterInit /\ [][EmitterNext]_emitterVars

-----------------------------------------------------------------------------
\* What a tree shows.
Content(t) == [q \in DOMAIN t |-> <<t[q].component, t[q].text>>]

\* From the root down the page has the elements of the tree's nodes, of their
\* components, with their texts, in their order, and nothing else.
PageMatches ==
  \A q \in DOMAIN tree :
    /\ tree[q].id \in DOMAIN doc
    /\ doc[tree[q].id] =
         [shell |-> tree[q].component, text |-> TextOf(tree[q]),
          inside |-> [i \in 1 .. Arity(tree, q) |-> tree[Nth(q, i)].id]]

\* The page is the tree the emitter retains, unless the emitter broke, frames
\* were lost, or a new emitter's full frame met a page of other ids.
PageIsTree == inStep /\ ~broken => PageMatches

\* When a write has returned the retained tree is what the views render to:
\* nested slots, and texts whose bindings were destroyed and registered again,
\* included.
TreeIsView == due = {} /\ ~broken => Content(tree) = Content(Render[root][values])

\* A slot between a link and its router: reconcileSlot collects inputs from the
\* slot down and finds no router.
CutOff(t, q) ==
  \E p \in DOMAIN t :
    /\ t[p].slot # None /\ ~t[p].router /\ IsStrictPrefix(p, q)
    /\ ~ \E s \in DOMAIN t : t[s].router /\ IsStrictPrefix(p, s) /\ IsPrefix(s, q)

\* A tap on a node runs the action of the view that the node shows, at every
\* step, and a link goes by its router unless it is cut off.
InputsReachOwner ==
  ~broken =>
    /\ taps = Tapped(tree)
    /\ links \subseteq Linked(tree, <<>>)
    /\ \A q \in DOMAIN tree :
         tree[q].id \in Linked(tree, <<>>) /\ ~CutOff(tree, q) => tree[q].id \in links

\* "An identical recompute emits zero opcodes" (Emitter.java): a step that leaves
\* what the tree shows as it was gives no node another id and sends nothing; a
\* reconnect and a RESYNC apart.
QuietRecompute ==
  [][Content(tree') = Content(tree) /\ linked' = linked /\ asked' = asked
       => /\ frame' = <<>>
          /\ \A q \in DOMAIN tree : tree'[q].id = tree[q].id]_emitterVars

-----------------------------------------------------------------------------
\* What documents promise and the code does not keep.  A RESYNC is for "gap
\* recovery" (spec/OPCODE.md): after it the page is the tree.
Recovered == [][RenderFull => PageMatches']_emitterVars

\* An intent is resolved "to the nearest enclosing Router" (spec/DSL.md 4.5).
LinksResolved == ~broken => links = Linked(tree, <<>>)
=============================================================================
