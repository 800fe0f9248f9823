------------------------------- MODULE Engine -------------------------------
(***************************************************************************)
(* The diff-based emitter of pathland-engine (src/engine.rs, signal.rs):   *)
(* a snapshot of what was last emitted, a signal store with its reverse    *)
(* dependencies, and the calls emit and set_signal, each of which pushes   *)
(* the opcodes of a delta and may be stopped at any of them by a full ring *)
(* or arena.  screen is the renderer's tree once it has consumed every     *)
(* opcode pushed so far (the ring delivers them in order, see OpcodeRing). *)
(*                                                                         *)
(* A call runs alone, one opcode a step: call says which call is running.  *)
(* A tree handed to emit is its nodes in the order of the walk, pre-order, *)
(* each with its parent and its place among the parent's children.         *)
(*                                                                         *)
(* view, settled, refused and answer are history: the tree last handed to emit; *)
(* whether its emission ended well and nothing has changed since; whether  *)
(* a push was ever refused.  answer is the signal whose set_signal has just *)
(* returned Ok, or None.                                                   *)
(***************************************************************************)
EXTENDS RenderTree

CONSTANTS Signals, Views

SignalValues == TextValues \union PropValues

\* A node of a tree handed to emit.
ViewNode == [id : Ids, component : Components,
             parent : Optional(Ids), index : Nat,
             text : Optional(TextValues), textBinding : Optional(Signals),
             prop : Optional(PropValues), propBinding : Optional(Signals),
             token : Optional(Tokens)]

ASSUME EngineAssumption ==
  /\ None \notin Signals
  /\ TextValues \intersect PropValues = {}
  /\ Views \subseteq Seq(ViewNode)
  /\ \A v \in Views : \A i, j \in 1 .. Len(v) : v[i].id = v[j].id => i = j

\* The walk comes to a node before it comes to its children.
ASSUME WalkAssumption ==
  \A v \in Views : \A k \in 1 .. Len(v) :
    v[k].parent # None => \E j \in 1 .. k - 1 : v[j].id = v[k].parent

VARIABLES snapshot, cells, deps,        \* the engine
          call,                         \* the call that is running
          walk, visited,                \* emit: nodes to come, nodes seen
          visit, pending,               \* emit: the node at hand
          depsLeft, setting,            \* set_signal: dependencies to come
          screen,                       \* the renderer
          view, settled, refused, answer

engine == <<snapshot, cells, deps>>
progress == <<walk, visited, visit, pending>>
setProgress == <<depsLeft, setting>>
history == <<view, settled, refused, answer>>
engineVars == <<engine, call, progress, setProgress, screen, history>>

Snapshot == [component : Components, parent : Optional(Ids), index : Nat,
             text : Optional(TextValues), prop : Optional(PropValues),
             token : Optional(Tokens)]

\* The node at hand: its snapshot before the walk came to it, and after.
VisitState == [id : Ids, prev : Optional(Snapshot), target : Snapshot]

ASSUME SnapshotAssumption == None \notin Snapshot \union VisitState

Dep == [node : Ids, field : {"text", "prop"}]

Stages == {"create", "remove", "insert", "move", "text", "prop", "token"}

EngineInit ==
  /\ snapshot = [i \in Ids |-> None]
  /\ cells = [s \in Signals |-> None]
  /\ deps = [s \in Signals |-> <<>>]
  /\ call = "none"
  /\ walk = <<>> /\ visited = {} /\ visit = None /\ pending = {}
  /\ depsLeft = <<>> /\ setting = None
  /\ screen = NoNodes
  /\ view = <<>> /\ settled = FALSE /\ refused = FALSE /\ answer = None

-----------------------------------------------------------------------------
(* Resolving a node of the tree.                                           *)

\* to_text, to_property_u32: the value of a signal, if it is of that kind.
Value(s, kind) == IF s # None /\ cells[s] \in kind THEN cells[s] ELSE None

Resolved(s, kind, literal) ==
  IF Value(s, kind) # None THEN Value(s, kind) ELSE literal

Target(n) ==
  [component |-> n.component, parent |-> n.parent, index |-> n.index,
   text |-> Resolved(n.textBinding, TextValues, n.text),
   prop |-> Resolved(n.propBinding, PropValues, n.prop),
   token |-> n.token]

\* The opcodes of a node that has no snapshot, and of one that has.
MountStages(t) ==
  {"create"}
    \union (IF t.parent # None THEN {"insert"} ELSE {})
    \union (IF t.prop # None /\ t.token = None THEN {"prop"} ELSE {})
    \union (IF t.token # None THEN {"token"} ELSE {})
    \union (IF t.text # None THEN {"text"} ELSE {})

UpdateStagesEager(p, t) ==                  \* seeded fault: text not compared
  (IF p.parent # t.parent /\ p.parent # None THEN {"remove"} ELSE {})
    \union (IF p.parent # t.parent /\ t.parent # None THEN {"insert"} ELSE {})
    \union (IF p.component # t.component THEN {"create"} ELSE {})
    \union (IF t.text # None THEN {"text"} ELSE {})

UpdateStagesKept(p, t) ==                   \* seeded fault: tokens only on mount
  (IF p.parent # t.parent /\ p.parent # None THEN {"remove"} ELSE {})
    \union (IF p.parent # t.parent /\ t.parent # None THEN {"insert"} ELSE {})
    \union (IF p.component # t.component THEN {"create"} ELSE {})
    \union (IF p.text # t.text /\ t.text # None THEN {"text"} ELSE {})
    \union (IF t.prop # None /\ t.token = None /\ p.prop # t.prop THEN {"prop"} ELSE {})

UpdateStages(p, t) ==
  (IF p.parent # t.parent /\ p.parent # None THEN {"remove"} ELSE {})
    \union (IF p.parent # t.parent /\ t.parent # None THEN {"insert"} ELSE {})
    \union (IF p.parent = t.parent /\ p.index # t.index /\ t.parent # None
              THEN {"move"} ELSE {})
    \union (IF p.component # t.component THEN {"create"} ELSE {})
    \union (IF p.text # t.text /\ t.text # None THEN {"text"} ELSE {})
    \union (IF t.prop # None /\ t.token = None /\ p.prop # t.prop THEN {"prop"} ELSE {})
    \union (IF t.token # None /\ p.token # t.token THEN {"token"} ELSE {})

MountOrder == [create |-> 1, insert |-> 2, prop |-> 3, token |-> 4, text |-> 5,
               remove |-> 6, move |-> 7]
UpdateOrder == [remove |-> 1, insert |-> 2, move |-> 3, create |-> 4, text |-> 5,
                prop |-> 6, token |-> 7]

\* The opcode to push next for the node at hand.
Due(stage) ==
  LET order == IF visit.prev = None THEN MountOrder ELSE UpdateOrder
  IN  stage \in pending /\ \A q \in pending : order[stage] <= order[q]

\* What that opcode does to the renderer's tree.
Applied(stage) ==
  LET id == visit.id
      t == visit.target
  IN  CASE stage = "create" -> CreateNode(screen, id, t.component)
        [] stage = "remove" -> RemoveChild(screen, visit.prev.parent, id)
        [] stage = "insert" -> InsertChild(screen, t.parent, id)
        [] stage = "move" -> MoveChild(screen, t.parent, id, t.index)
        [] stage = "text" -> SetText(screen, id, t.text)
        [] stage = "prop" -> SetProperty(screen, id, t.prop)
        [] stage = "token" -> SetToken(screen, id, t.token)

-----------------------------------------------------------------------------
(* emit.                                                                   *)

Idle == call = "none"

\* A tree binds only signals that exist: ids come from create_signal.
Bindable(v) ==
  \A k \in 1 .. Len(v) :
    \A s \in {v[k].textBinding, v[k].propBinding} \ {None} : cells[s] # None

Emit(v) ==
  /\ Idle /\ Bindable(v)
  /\ call' = "emit"
  /\ deps' = [s \in Signals |-> <<>>]
  /\ walk' = v /\ visited' = {} /\ visit' = None /\ pending' = {}
  /\ view' = v /\ settled' = (settled /\ v = view) /\ answer' = None
  /\ UNCHANGED <<snapshot, cells, setProgress, screen, refused>>

VisitKeeping ==                             \* seeded fault: the snapshot stays
  /\ call = "emit" /\ visit = None /\ walk # <<>>
  /\ LET n == Head(walk)
         prev == snapshot[n.id]
     IN  /\ visit' = [id |-> n.id, prev |-> prev, target |-> Target(n)]
         /\ pending' = IF prev = None THEN MountStages(Target(n))
                       ELSE UpdateStages(prev, Target(n))
  /\ UNCHANGED <<engine, call, walk, visited, setProgress, screen, history>>

\* reconcile_node takes the node's snapshot out and compares.
Visit ==
  /\ call = "emit" /\ visit = None /\ walk # <<>>
  /\ LET n == Head(walk)
         prev == snapshot[n.id]
     IN  /\ visit' = [id |-> n.id, prev |-> prev, target |-> Target(n)]
         /\ pending' = IF prev = None THEN MountStages(Target(n))
                       ELSE UpdateStages(prev, Target(n))
         /\ snapshot' = [snapshot EXCEPT ![n.id] = None]
  /\ UNCHANGED <<cells, deps, call, walk, visited, setProgress, screen, history>>

PushOpcode(stage) ==
  /\ call = "emit" /\ visit # None
  /\ Due(stage)
  /\ screen' = Applied(stage)
  /\ pending' = pending \ {stage}
  /\ UNCHANGED <<engine, call, walk, visited, visit, setProgress, history>>

AddDepFirst(ds, s, d) ==                    \* seeded fault: one dependency each
  IF s = None \/ ds[s] # <<>> THEN ds ELSE [ds EXCEPT ![s] = Append(@, d)]

\* add_dep records a dependency once.
AddDep(ds, s, d) ==
  IF s = None \/ Holds(ds[s], d) THEN ds ELSE [ds EXCEPT ![s] = Append(@, d)]

\* The node's opcodes are all pushed: its snapshot and dependencies are stored.
StoreNode ==
  /\ call = "emit" /\ visit # None /\ pending = {}
  /\ LET n == Head(walk)
         withText == AddDep(deps, n.textBinding, [node |-> n.id, field |-> "text"])
     IN  deps' = AddDep(withText, n.propBinding, [node |-> n.id, field |-> "prop"])
  /\ snapshot' = [snapshot EXCEPT ![visit.id] = visit.target]
  /\ walk' = Tail(walk) /\ visited' = visited \union {visit.id} /\ visit' = None
  /\ UNCHANGED <<cells, call, pending, setProgress, screen, history>>

StaleAbove == {i \in Ids \ visited :         \* seeded fault: only the tail
                 snapshot[i] # None /\ \A j \in visited : j < i}

\* Snapshots of an older generation: nodes this walk has not met.
Stale == {i \in Ids : snapshot[i] # None} \ visited

\* The walk is over: stale nodes are deleted, lowest id first.
Sweep(i) ==
  /\ call = "emit" /\ visit = None /\ walk = <<>>
  /\ i \in Stale /\ \A j \in Stale : i <= j
  /\ screen' = DeleteNode(screen, i)
  /\ snapshot' = [snapshot EXCEPT ![i] = None]
  /\ UNCHANGED <<cells, deps, call, progress, setProgress, history>>

EmitReturns ==
  /\ call = "emit" /\ visit = None /\ walk = <<>> /\ Stale = {}
  /\ call' = "none" /\ settled' = TRUE
  /\ UNCHANGED <<engine, progress, setProgress, screen, view, refused, answer>>

-----------------------------------------------------------------------------
(* Signals.                                                                *)

CreateSignal(s, v) ==
  /\ Idle /\ cells[s] = None
  /\ cells' = [cells EXCEPT ![s] = v]
  /\ settled' = FALSE /\ answer' = None
  /\ UNCHANGED <<snapshot, deps, call, progress, setProgress, screen, view, refused>>

\* A value equal to the stored one ends the call at once, with Ok(0).
SetSame(s) ==
  /\ Idle /\ cells[s] # None
  /\ answer' = s
  /\ UNCHANGED <<engine, call, progress, setProgress, screen, view, settled, refused>>

\* The value is stored before anything is pushed.
SetSignal(s, v) ==
  /\ Idle /\ cells[s] \notin {None, v}
  /\ cells' = [cells EXCEPT ![s] = v]
  /\ call' = "set" /\ setting' = s /\ depsLeft' = deps[s]
  /\ settled' = FALSE /\ answer' = None
  /\ UNCHANGED <<snapshot, deps, progress, screen, view, refused>>

DepKind(d) == IF d.field = "text" THEN TextValues ELSE PropValues
DepNew(d) == Value(setting, DepKind(d))
DepOld(d) == IF snapshot[d.node] = None THEN None ELSE snapshot[d.node][d.field]
DepPush(d) == DepNew(d) # DepOld(d) /\ DepNew(d) # None

Noted(d) ==
  IF snapshot[d.node] = None THEN snapshot
  ELSE [snapshot EXCEPT ![d.node][d.field] = DepNew(d)]

\* A dependency whose value differs from the snapshot's is pushed, if the signal
\* has a value of its kind, and noted in the snapshot.
NextDep ==
  /\ call = "set" /\ depsLeft # <<>>
  /\ LET d == Head(depsLeft)
     IN  /\ snapshot' = Noted(d)
         /\ screen' = IF ~DepPush(d) THEN screen
                      ELSE IF d.field = "text" THEN SetText(screen, d.node, DepNew(d))
                      ELSE SetProperty(screen, d.node, DepNew(d))
  /\ depsLeft' = Tail(depsLeft)
  /\ UNCHANGED <<cells, deps, call, progress, setting, history>>

SetReturns ==
  /\ call = "set" /\ depsLeft = <<>>
  /\ call' = "none" /\ setting' = None /\ answer' = setting
  /\ UNCHANGED <<engine, progress, depsLeft, screen, view, settled, refused>>

-----------------------------------------------------------------------------
(* A push is refused, RingError::Full: the call returns where it stands, and *)
(* its caller ignores the error (NativeHost::emit, NativeHost::set_signal).  *)

Pushing ==
  \/ call = "emit" /\ visit # None /\ pending # {}
  \/ call = "emit" /\ visit = None /\ walk = <<>> /\ Stale # {}
  \/ call = "set" /\ depsLeft # <<>> /\ DepPush(Head(depsLeft))

Refuse ==
  /\ Pushing
  /\ call' = "none" /\ refused' = TRUE /\ settled' = FALSE
  /\ walk' = <<>> /\ visited' = {} /\ visit' = None /\ pending' = {}
  /\ depsLeft' = <<>> /\ setting' = None
  /\ UNCHANGED <<engine, screen, view, answer>>

-----------------------------------------------------------------------------
EngineNext ==
  \/ \E v \in Views : Emit(v)
  \/ Visit
  \/ \E stage \in Stages : PushOpcode(stage)
  \/ StoreNode
  \/ \E i \in Ids : Sweep(i)
  \/ EmitReturns
  \/ \E s \in Signals, v \in SignalValues : CreateSignal(s, v) \/ SetSignal(s, v)
  \/ \E s \in Signals : SetSame(s)
  \/ NextDep
  \/ SetReturns
  \/ Refuse

EngineSpec == EngineInit /\ [][EngineNext]_engineVars

-----------------------------------------------------------------------------
\* What each variable of the engine, the call and the screen ranges over.
EngineTypeOK ==
  /\ snapshot \in [Ids -> Optional(Snapshot)]
  /\ cells \in [Signals -> Optional(SignalValues)]
  /\ deps \in [Signals -> Seq(Dep)]
  /\ call \in {"none", "emit", "set"}
  /\ walk \in Seq(ViewNode) /\ visited \subseteq Ids
  /\ visit \in Optional(VisitState)
  /\ pending \subseteq Stages
  /\ depsLeft \in Seq(Dep) /\ setting \in Optional(Signals)
  /\ screen \in [Ids -> Optional(HostNode)]
  /\ view \in Seq(ViewNode) /\ settled \in BOOLEAN /\ refused \in BOOLEAN
  /\ answer \in Optional(Signals)

\* A node on the screen is what a snapshot, or a node of a tree, says.  Where it
\* says None the screen may keep what was there; and a token once set stays.
Agrees(node, s) ==
  /\ node # None
  /\ node.component = s.component
  /\ s.parent # None => node.parent = s.parent
  /\ s.text # None => node.text = s.text
  /\ s.token # None => node.token = s.token
  /\ s.prop # None /\ node.token = None => node.prop = s.prop

\* What the engine remembers is on the screen, at every step of every call and
\* wherever pushes were refused: a delta is always relative to the truth.
Truthful == \A i \in Ids : snapshot[i] # None => Agrees(screen[i], snapshot[i])

\* When emit has returned Ok every node of its tree is on the screen as the
\* tree has it, even if earlier calls were refused half-way.
ViewOnScreen ==
  settled /\ Idle =>
    \A k \in 1 .. Len(view) : Agrees(screen[view[k].id], Target(view[k]))

\* An unchanged tree emits no opcode (spec/OPCODE.md, reactive emission).
UnchangedEmitsNothing == settled => ~Pushing

\* If nothing was ever refused the screen holds the tree's nodes and no other,
\* each listed by its parent.
NothingLeftOver ==
  settled /\ Idle /\ ~refused =>
    /\ \A i \in Ids : screen[i] # None <=> \E k \in 1 .. Len(view) : view[k].id = i
    /\ \A k \in 1 .. Len(view) :
         view[k].parent # None => Holds(ChildrenOf(screen, view[k].parent), view[k].id)

\* The bound text or property of a node shows the value of the signal, if it has
\* one of its kind (a token takes precedence over a property's).
ShowsValue(s, d) ==
  LET node == screen[d.node]
  IN  s # None /\ Value(s, DepKind(d)) # None =>
        /\ node # None
        /\ \/ node[d.field] = Value(s, DepKind(d))
           \/ d.field = "prop" /\ node.token # None

\* Between calls every binding of the tree shows the value of its signal, if
\* nothing was ever refused.
BindingsShown ==
  Idle /\ ~refused =>
    \A k \in 1 .. Len(view) :
      /\ ShowsValue(view[k].textBinding, [node |-> view[k].id, field |-> "text"])
      /\ ShowsValue(view[k].propBinding, [node |-> view[k].id, field |-> "prop"])

-----------------------------------------------------------------------------
(* What the documents promise and the code does not keep.                  *)

\* "Insert childId into parentId at index" (spec/OPCODE.md, TREE): children are
\* shown in the order of the tree, if nothing was ever refused.
ChildrenInOrder ==
  settled /\ Idle /\ ~refused =>
    \A p \in 1 .. Len(view) :
      LET below == SelectSeq(view, LAMBDA n : n.parent = view[p].id)
      IN  LiveChildren(screen, view[p].id) = [k \in 1 .. Len(below) |-> below[k].id]

\* "Replace a signal's value and re-emit only the nodes that depend on it"
\* (engine.rs, set_signal): when it returns Ok they show the value.
SignalShown ==
  answer # None =>
    \A k \in 1 .. Len(deps[answer]) : ShowsValue(answer, deps[answer][k])
=============================================================================
