# Pathland: TLA+ specifications

Pathland renders user interfaces from a program that may run anywhere: in the
process of a native renderer, or on a server behind a WebSocket.  A *guest*
turns its tree of views into opcodes (CREATE_NODE, SET_TEXT, ...), a *host*
applies them to a retained tree of widgets or DOM elements and sends input
events back.  This directory specifies how these parts work together, from the
source in `src/`; `PROJECT.json` maps each definition to the lines it models.

    tlc -config OpcodeRing_safe.cfg MCOpcodeRing.tla      # check a run
    tlapm Host_proofs.tla                                 # check a module's proofs

## 1. The system

Rust crates are under `src/lib/rust/crates/`, Java modules under `src/lib/java/`,
the browser client under `src/lib/typescript/`, the documents under `src/spec/`.

| Part | State it keeps | Operations | Talks to |
|---|---|---|---|
| Opcode ring and guest arena (`pathland-core`) | opcode slots, writeCursor, readCursor, frameCount, arena bytes and cursor | `Guest::{begin_frame, push_*, set_text, alloc, end_frame, reset}`, `Host::frames` | producer and renderer share the memory; views borrow it exclusively |
| Event ring and event arena (`pathland-core`) | event slots and cursors, event arena bytes and cursor | `Host::send_event`, `Guest::{push_event_opcode, drain_events, drain_events_raw}`; rewound by the frame that carries RESET | the renderer writes, the guest drains |
| C ABI (`pathland-core-capi`, `pathland-view-native/capi.rs`) | handles | the same calls, a view opened per call; drains with a limit | Java over FFM, Swift |
| Diff engine (`pathland-engine`) | snapshot of every node last emitted, signal cells, reverse dependencies, a generation counter | `emit`, `create_signal`, `set_signal` | pushes into the opcode ring, any push may be refused |
| GTK renderer, tree (`pathland-render-gtk/host.rs`, `tokens.rs`) | retained node tree, token tables, colour scheme | `apply_frame`, `set_scheme` | drains the opcode ring |
| GTK renderer, widgets (`pathland-render-gtk/lib.rs`) | a widget per node, what is wired to it, navigation pages | `sync` after each frame; GTK's callbacks | reads the tree, sends events from callbacks |
| Native host (`pathland-view-native`) | a tree of flat nodes, an engine, the shared memory | create, insert, remove, bind, emit, set_signal, drain | engine, both rings |
| Java signal graph (`pathland-view/signal`) | values, versions, dirty flags, edges in both directions; a static queue | `set`, `get`, `computed`, `effect`, `destroy`, `untracked` | the emitter's bindings and persistent state are effects |
| Java emitter and sinks (`pathland-view/emit`, `ffm`) | emitted tree, ids, input handlers, binding effects | `mount`, `reconcileSlot`, `resync`, `dispatch` | frame sink (network) or ring sink (native) |
| Router, navigation | history stack, current route | `go`, `push`, `pop`, redirects | NAVIGATE events and opcodes |
| Server sessions (`pathland-server-core`, Spring and Quarkus sockets) | sessions, pending connections, one actor queue | `open`, `message`, `close`, `shutdown` | several sockets and request threads over one actor |
| Persistent state | saved fields per session, Redis with TTL | restore on creation, save on change | sessions, signal graph |
| Browser client (`transport.ts`, `apply.ts`, `events.ts`) | socket, reconnect timer, DOM nodes by id | connect, reconnect, resync, apply, send | sessions |
| Batching (`pathland-core-transport`) | buffered slots, arena watermark | `push`, `flush`, `take` | remote drivers |
| Tap recognizer (`pathland-view/recognizer.rs`) | the pointer that is down | pointer down, move, up, cancel | events |
| Codecs (`batch.rs`) | encoder: the length of arena sent; decoder: a mirror of the arena | `encode`, `decode` | remote drivers, the WebSocket |
| HTML renderer, design tokens | none between calls | a page from a batch; a value from a path | what GTK shows, a page should show |
| DSL builders, framework glue | none | pure functions, dependency injection | |

What is hard in each part, and what makes it correct:

* **Rings.**  Cursors are masked, one slot is kept free, the arena is
  allocated before the push that may be refused, the host may poll between any two
  calls, frameCount is a wrapping u32 and only `frames()` moves readCursor.
  Correct means: opcodes are delivered once, in order, each with the text it
  was pushed with; what has ended is delivered; an event's string is the
  one it was sent with.
* **Engine.**  An emission may be stopped at any opcode, after its node's
  snapshot has been taken out; nodes change parents, types, places; signals
  change between emissions.  Correct means: the snapshot is never ahead of the
  screen, since every delta is computed against it; a successful `emit` has put
  its tree on the screen, whatever was refused before; bindings show their
  signals.
* **Signal graph.**  Effects run inside `set`, may write signals, destroy each
  other and throw; dependencies change from run to run.  Correct means: when
  `set` returns every effect has seen the values it depends on; no effect sees
  a mixture of old and new; nothing runs without a change.
* **Widgets.**  Widgets outlive frames, are reused by id, and hold callbacks; GTK refuses a
  child another parent still holds; setting a control runs its callbacks inside
  the frame that sets it.  Correct means: widgets show the tree; an input is
  reported once.
* **Two renderers.**  GTK keeps a tree up by deltas, the page is made from a
  snapshot; tokens are resolved in Rust on one side and by a browser's CSS on the other.
  Correct means: both show the same.
* **Batches.**  Offsets into an append-only arena cross a network in parts, with
  resets between them, and batches are lost or cut.  Correct means: a text that is
  read is the one that was pushed; a batch arrives entire or not at all.
* **Sessions and client.**  Sockets are replaced while their messages are under
  way, a close may arrive after the session it names was joined again,
  request threads render beside the actor, both ends notice a cut at different times.
  Correct means: what a session shows is what its connection has been sent, a
  reconnect catches up, nothing is kept for a client that is gone.
* **Navigation.**  The application's stack and the platform's are changed by both
  sides at once.  Correct means: when all is handled, they agree.
* **Emitter and DOM.**  Ids are reused by position; handlers and bindings must be
  registered in step with them, nested slots included; a page outlives the emitter that
  made it.  Correct means: the DOM is the tree, the tree is what the views say, an
  input reaches the handler of the view it was made on.
* **Tap recognizer.**  A tap is a press and a release of one node, near and soon enough,
  that did not leave it in between.

`PROJECT.json` lists each component with its files and status, and each hazard at
its line.

## 2. Modules

| Module | Models | Extends or uses |
|---|---|---|
| `LinearMemory` | masked slots and arena entries, as operators | |
| `OpcodeRing` | opcode ring and guest arena, Guest and Host views | `LinearMemory` |
| `OpcodeChannel` | what the opcode ring promises: a bounded in-order channel | abstract; `OpcodeRing` implements it |
| `EventRing` | event ring and event arena | `LinearMemory` |
| `SharedMemory` | both rings, with the views' exclusion and RESET | `OpcodeRing`, `EventRing` |
| `Lists` | lists that hold an element at most once, as operators | |
| `RenderTree` | the GTK renderer's retained tree, as operators | `Lists` |
| `Engine` | the diff engine and signal store, driving a `RenderTree` | `RenderTree` |
| `SignalGraph` | the Java signal graph and its scheduler | `Lists` |
| `BatchLink` | five codecs between a producer's frames and a consumer's | |
| `NativeTree` | the native host's flat nodes, and the tree `emit` makes of them | `Lists` |
| `TapRecognizer` | pointer events to taps | |
| `GtkWidgets` | the GTK renderer's widgets, brought in line with the tree after each frame | `RenderTree` |
| `DesignTokens` | token resolution in Rust and in a browser, as operators | |
| `HtmlPage` | the page made from a snapshot, as operators | `DesignTokens` |
| `Renderers` | one application shown by the GTK tree and by the page | `HtmlPage`, `RenderTree` |
| `Sessions` | server sessions, their connections, browser tabs, the store | |
| `Navigation` | the application's router and slot with the GTK page stack | |
| `DomTree` | the browser's document under `apply.ts`, as operators | |
| `Emitter` | the Java emitter, with the page its frames are applied to | `DomTree` |
| `MC*` | values of the constants for TLC | one each; `MCNative` has `NativeTree` and `TapRecognizer` |
| `ListFacts` | lemmas on lists and on induction over them | |
| `Host_proofs` | proofs of `LinearMemory`, `OpcodeRing`, `EventRing`, `SharedMemory`, `NativeTree`, `TapRecognizer` | these, `ListFacts` |
| `Remote_proofs` | proofs of `BatchLink` and `Navigation` | these, `ListFacts` |
| `Engine_proofs` | proofs of `Engine` and `GtkWidgets` | these, `ListFacts` |
| `SignalGraph_proofs`, `Sessions_proofs`, `Renderers_proofs`, `Emitter_proofs` | proofs of the module in the name | that module |

How state and actions correspond to the code:

* `OpcodeRing`.  `readCursor`, `writeCursor`, `frameCount`, `arenaCursor` are the
  header words; `slots` and `arena` the regions.  A view borrows the memory
  mutably, so one method call is one step and `NextFrame` (a host poll) needs
  `~guestView`; `GuestNew` and `GuestDrop` may fall anywhere, as they do for the
  C ABI.  `PushText` and `PushPair` are whole calls with each of their
  failures: the text stays allocated when the push is refused.  An arena is a
  function from offsets to texts; storing an entry erases the entries it overlaps,
  so that a text read through an old offset is recognizably not the old one.
  `EntryBytes` are the bytes of an entry, length prefix included.
* `EventRing`.  `SendPlain`, `SendText`, `DrainEvents`, `NativeDrain` are the calls
  of the code; `Rewind` is what `frames()` does when it sees a RESET.  How each
  event left the ring (decoded, copied by the C ABI without its string, or handed to
  nobody because of the limit) is recorded in `eventsTaken`.
* `SharedMemory`.  `Frames` joins `NextFrame` and `Rewind` in one step, because
  `frames()` scans what it hands out before it returns.
* `Engine`.  A call is a sequence of steps, one opcode each, since each push may be
  refused on its own: `Visit` takes the snapshot out (`take_snapshot`), `PushOpcode`
  pushes the next opcode due in the code's order (mount and update have different
  orders), `StoreNode` stores the snapshot and the dependencies, `Sweep` deletes nodes
  of an older generation.  `Refuse` is `Err(Full)` at the push that is next: the
  call ends where it stands.  `visited` stands for the generation counter: a
  node is of the current generation if and only if this walk met it.  `screen` is the
  renderer's tree after all opcodes pushed so far; that the ring delivers them
  in order, once, is `OpcodeRing`'s business and proved there.

* `SignalGraph`.  Everything happens inside one call of the one thread, in nested
  loops and bodies, so `stack` is that thread's stack: a frame for each running
  `propagate` or `markDirtyAndPropagate` loop ("mark", with the consumers it has to
  visit yet), `flush`, `refreshProducers` loop ("refresh", with the producers it has visited), body, and
  `untracked`; under a body's propagation lies "propagate" or "failed", whose
  difference is which `catch` an exception meets.  A step is one turn of a loop or
  one instruction of the innermost body.  A body is a program: `Does` gives its
  next instruction from the results of the earlier ones, so that what a body reads may
  depend on what it has read.  Versions are only compared for equality with
  what an edge saw last; `unseen[n]` is the set of producers whose version moved since, which
  needs no counter.  An exception is an identity, since `evaluateIfDirty` compares the
  old and the new one; a fresh one is any that no computed holds.  An
  ArrayList's iterator fails when the list was changed under it: a "refresh" whose
  list is reset becomes "torn", and fails unless it has nothing left to visit.
  `MaxDepth` frames fit on the stack; one more raises, as StackOverflowError does.

* `BatchLink`.  `codec` chooses one of `BatchEncoder` with `BatchDecoder`, `NetBatchEncoder`, `Batcher`,
  `encode_frame`, and the event batches.  The guest's `PushOpcode`, `SetText`, `Reset` and `EndFrame` go on
  while complete frames wait in `ready`; `NextFrame` is the producer taking one, with the arena
  as it is *then*; `wire` holds batches under way, which may be lost or cut after any cell
  (`present`).  `parse` refuses a cut batch by its lengths; `Decode` resolves offsets in the
  mirror or in the batch's own section.
* `NativeTree`.  `nodes` is the host's hash map; each call of the C ABI is an action, changing
  the fields the call changes and no others (`remove_child` and `insert_child` each keep both
  directions).  `Emit` materializes from a root: `\E` over the nodes without a parent, since
  the hash map's order is not determined.  No call is refused, whatever it does to the tree; the history
  variable `strayed` says that one inserted a node that has another parent, or below itself, or removed one
  from a node that is not its parent (neither `Detached` nor `Attached`), and `Returns` whether `materialize`
  comes to an end: a finding each.
* `TapRecognizer`.  `down` is `DownState`; an action per event kind of `feed`, `Cancel` is
  `reset`, `Tick` the caller's clock.  `since` is the history `TapsExact` compares with.
* `GtkWidgets`.  A `Frame` action is one edit of the tree in the engine's opcodes, followed by the
  whole of `sync`: the walk (`Enter`, then the children, then `Leave`), each widget created
  or updated, children taken out and appended, unknown widgets dropped, all in one step, because
  the GTK main loop runs it without a break.  `Edit` is the user's change of a control.
  `crashed` is the end of the main loop: a panic, or the stack overflow of a walk that comes back to a node
  above it, which the model cuts off as many levels down as there are ids ("endless").
* `DesignTokens`, `HtmlPage`, `Renderers`.  The application has `app`, a tree it changes one edit
  per `Frame`; `gtk` applies the delta, `RenderDocument` makes a page from the snapshot.
  `SetScheme` and `ApplyTheme` change `tables` and re-resolve every reference.
* `Sessions`.  `queue` holds the actor's tasks; everything a socket or request asks of
  `PathlandRegistry` is put there, and `Actor` does the first one entire, sends included.
  `Load` (a page request) runs on the request's thread: it reads the store in one
  step and `Rendered` saves what it read in a later one.  `conns` has what is under way
  in both directions, whether the connection is cut, and whether the server has noticed.  A tab is
  `transport.ts`: `Connect`, `OnOpen`, `OnClose`, `OnMessage`, with its attempt counter.  A page is the
  counter and the route it shows; how a frame brings about what it shows is `Emitter`'s matter.
* `Navigation`.  `stack` and `current` are the router's; `Go` is the reconciliation of the slot
  that a change of `current` causes, which sends a frame; `Child` is the node the slot then has: none where a
  guard led to a guarded route, the old one where the destination begins with the same component.  `RenderFrame` is
  the slot's frame in GTK, `RenderOther` any other, both with `sync_navigation_children`; `NativeBack` and `EscapeKey` are the user's, each sending a request
  that `HandleRequest` answers later.  `pages` is the renderer's mirror, `native` what is on
  screen.
* `DomTree`, `Emitter`.  A tree of views is a function from paths to nodes, and `Render` gives, for each root
  and valuation of the signals, what it renders to: a DSL program is its rendering.
  `tree` is the retained tree with ids.  `Write` changes a signal and makes its effects due;
  `RunText` and `RunSlot` are the two effects of `Emitter.java`, each one step, as nothing
  else runs in that thread, in any order in which a slot comes before what it holds (`EnclosingDue`: the slot
  subscribed first; `SignalGraph` has the order).  So what `RunSlot` renders, the part of the present tree of views
  below the slot, is what the slot's own content supplier gives; only after a failed effect (`broken`) may a slot run
  whose supplier is of a branch that is about to go, and there the model renders the present one.  `RunSlot` is `reconcileSlot` in its order:
  render, destroy bindings and forget inputs, diff, send, collect inputs and register.
  `Send` applies a frame to `doc` at once, or loses it while `linked` is false; `Cut`,
  `Reconnect` (a new emitter mounts with the values of `Saved` as they were and others as it may be) and `RenderFull` (RESYNC) are the
  session's.

History variables (`sent`, `received`, `published`, `frameMark`; `eventsSent`,
`eventsTaken`, `exposed`; `view`, `settled`, `refused`, `answer`; `life`, `reads`, `broken`, `dropped`, `before`,
`ran`, `again`, `wrote`, `missed`; `epoch`, `seen`, `masked`, `got`, `taken`, `typed`; `current` and `strayed` of `NativeTree`; `since`; `unheard`;
`moved`, `lost`, `retyped`, `swapped`; `agreed`, and `orderly`, which is constant in a behaviour; `frame` of `Emitter`) are never
read by what the code computes, and by a guard only where the module names it a bound:
`life` lets an effect be created and destroyed once, `strayed` ends the calls sooner, `inStep` of `Emitter` ends the writes after a full
frame met a page of other ids, `orderly` chooses the behaviours of a single tab whose connections do not overlap.

Operators marked "seeded fault" are no part of a specification: each is a
plausible bug of the definition below it, with which TLC must find the property
named in `PROJECT.json` violated.

## 3. Runs

| Run | Module, configuration | Shows |
|---|---|---|
| `ring_safe` | `MCOpcodeRing`, `OpcodeRing_safe` | order, intact texts, implementation of the channel, that a wrapped ring is dead, and that a frame that has ended is delivered, with two escapes: the ring wrapped, or frameCount reads 0 |
| `shared_memory` | `MCSharedMemory`, `SharedMemory_safe` | each event leaves the ring once, in its place; strings are intact, and lost only after a RESET was consumed |
| `engine` | `MCEngine`, `Engine_safe` | the snapshot is on the screen, a successful emit has shown its tree and left nothing over, an unchanged tree emits nothing, bindings show their signals |
| `signal_graph` | `MCSignalGraph`, `SignalGraph_safe` | no dirty effect is lost, edges mirror each other, effects run in turn, a call returns with everything caught up |
| `batch` | `MCBatchLink`, `BatchLink_safe` | texts arrive as pushed through each codec, batches entire and in order, cut ones refused |
| `native` | `MCNative`, `Native_safe` | as long as no call has strayed, `emit` ends, and what it hands to the engine is what `Engine` relies on, and everything there is; a tap is reported exactly when there is one |
| `gtk` | `MCGtkWidgets`, `GtkWidgets_safe` | widgets follow the tree, presses and edits are reported, the main loop stops for the named causes only: another value than the bound control shows, a lazy stack, nodes listed in circles |
| `renderers` | `MCRenderers`, `Renderers_safe` | the page from a snapshot shows what the tree kept up by deltas shows; token values are current |
| `sessions` | `MCSessions`, `Sessions_safe` | deltas are complete, nothing is kept for who is gone, a client catches up |
| `sessions_lost_update` | `MCSessions`, `Sessions_lost` | *violated*: what a session shows is saved |
| `navigation` | `MCNavigation`, `Navigation_safe` | once frames and requests are handled the two stacks agree, where the router has said all and there is something to show |
| `emitter` | `MCEmitter`, `Emitter_safe` | the page is the retained tree, that is what the views render to, inputs reach the views they were written for, a recompute without change is silent |

**What documents promise and the code does not keep** is stated beside the properties of a
module, and quoted under "findings" in `PROJECT.json`.  To see one refuted, put it into the
module's configuration in place of its INVARIANTS (or PROPERTIES): `DeliveredAcrossWrap` (`OpcodeRing`, a
property), `TextsResolved` (`SharedMemory`), `ChildrenInOrder` and `SignalShown` (`Engine`; the first with
`Views <- OrderViews` and `Ids = {1, 2, 3, 4}`), `RecomputedOnce` and `WriteSeen` (`SignalGraph`),
`KeptInSync` (`GtkWidgets`), `Recovered` (a property) and `LinksResolved` (`Emitter`).

What properties leave out, each exception being a finding: `TextsArrive` texts of a batcher that took a
reset arena for a grown one (`masked`), texts read after the guest's next RESET, and mirrors that missed a
batch (`Expected`); `EngineRely` and `WholeTreeEmitted` trees of a caller that `strayed`; `WidgetsFollowTree` nodes whose component
changed (`retyped`), who moved in a way GTK refuses (`moved`, until their parent is walked
again) or who fell out of a composite body (`lost`); `InputsReported` nodes whose mask lost a bit
(`swapped`); `PageAgreesWithTree` buttons that
lost their children (`Hollow`), pickers with a textless option (`Gapped`), and tokens that an override of
a parent path decides (`Decided`), and references and styles the page does not heed (`Told`); `CatchesUp` connections that overlap, and clients out of attempts;
`PageIsTree` pages that missed frames or met the full frame of an emitter that numbers otherwise
(`inStep`, `Alike`), and it and the others of `Emitter` a failed effect (`broken`);
`InputsReachOwner` links that a slot cuts off from their router (`CutOff`); `NavSettles` a router that has changed
its stack without a word (`unheard`), an empty slot, and the widget of a page that one below of the same component holds.
`NothingLeftOver` and `BindingsShown` say nothing any more once a push was refused (`refused`): what is left
on the screen then, or not shown by a retry, is a hazard listed, and for `set_signal` a finding.

**Bounds.**  Every bound is a constant of a configuration.

* The opcode ring has 4 slots, so 3 opcodes fit: enough to fill, to drain in one or several
  runs, to wrap and to be stuck after wrapping.  The rings of `shared_memory`, taken together, have
  3.  The histories need no bound: a
  wrapped ring never delivers again and a full one accepts nothing, so at most
  2 * SlotCount opcodes are ever accepted.  `FrameWrap` is 2 for 2^32: it
  makes frameCount read 0 after a frame, which 2^32 does only after months.
* The guest arena has 3 bytes (texts of 1 and 2 bytes: both kinds of failure of
  a pair of allocations happen, and texts of different length shift offsets) or
  none where only cursors matter.  The event arena has 2 bytes: two short texts, or
  a long one that is stored over both after a rewind.
* The engine has node ids 1..3 and five trees:
  together they re-parent a node, swap two siblings, change a component, bind, unbind
  and re-bind a text and a property to one signal of either kind, replace a
  literal by a token and back, and drop a first, a last and a nested child.
  TLC takes them in every order, with a refusal at every opcode.
* The signal graph has two signals, two computeds and two effects over the values 0
  and 1, and fourteen programs for their bodies (`MCSignalGraph`): a diamond, dependencies
  that change with the values, an effect that writes what it reads, one that creates and
  destroys the other or itself, reads through `untracked`, bodies that throw, write
  where they may not, or depend on each other always or in turn.  TLC takes all
  calls on each in every order.  A body has at most 4 instructions.  20 frames are more than
  any call needs but those that go round in a circle.  Four exceptions are
  enough: two computeds hold one each, one is under way, one is new.

* `batch`: texts of 1 and 2 cells, 4 opcodes, 2 frames ready and 2 batches under way, 3 events in a batch:
  the guest is ahead of the batch by a RESET and by more than one frame, a lost batch has one before
  and one after it.
* `native`: 3 ids and 6 calls build every tree of three nodes and take one apart; a caller that has strayed makes no
  call after the fourth, enough for a node with two parents and for a circle; positions
  0, 1 and 3 with distance 2 are near and far, duration 0 of a clock 0..1 in time and late, 3 events the
  shortest gesture that leaves and comes back.  The two halves share no state and run one at a time.
* `gtk`: 3 ids, 4 frames, 5 components (a box, a button that takes a body, a field, a switch, a check
  box): a body that fills and empties, a node that moves between two parents, one that is
  deleted and mounted again with another component.  Nodes listed in a circle take five frames, and more states
  than the run has time for; the theorems of section 4 include them.  The other names of components stand for further
  widgets of the same kinds.
* `renderers`: 3 ids, 5 frames and changes of scheme; a token with a parent path, a derived one
  (`space.2`), overrides in both layers, native defaults; a divider and a shape, of the components whose bodies
  paint with literals.
* `sessions`: two tabs, two routes, one attempt to reconnect, and 2 pages loaded, 1 left, 1 connection cut, 1
  input; for the single tab of `CatchesUp` 2, 2, 2 and 3.  A late close needs a page, a cut and a second page;
  a lost update a tap between a page's load and its save.
* `navigation`: 5 routes, two of whose destinations begin with one component, one guarded by a route that is
  guarded itself, 6 operations by either side: a stack of four pages popped from both ends, a widget that two
  pages would have, an empty slot gone back to.  Unrelated frames need no bound.
* `emitter`: three signals, two of them selectors, and saved; seven roots; one cut.  No write
  once more than 7 ids have been given out: every root is swapped there and back at least once, and
  an inner slot within it.

**Deadlock** is checked in `ring_safe`, `shared_memory`, `engine` and `signal_graph`.  The others may stop: their
calls, frames, operations, ids or losses are bounded, GTK's main loop may have crashed, or everybody
has left.

**Fairness** (`FairSpec` of `OpcodeRing`).  Weak fairness of `GuestDrop`: a guest view
is a borrow that ends with a scope, or with the C call that opened it.  Strong fairness
of `NextFrame`: drivers poll `next_frame` in a loop or timer, and the view
may be reopened between polls, so the poll is not continuously enabled but is enabled
again and again.  Producers are under no fairness: nothing obliges a program to draw.
In `SignalGraph`, weak fairness of `Step`: a thread inside a call goes on.  That calls return
(`CallsReturn`) is then a property of the code for the bodies of the programs, which stop
writing once their writes change nothing; effects that feed each other new values for ever
do not return, and the code does not promise it.
In `Sessions` (`Fairness`), weak fairness of what machines do: the actor takes its next task, messages under way
arrive, both ends of a cut connection notice it, a page that is being made is made, the client's timer fires
and its callbacks run.  Users, and the network when it cuts, are under no fairness.

## 4. Proofs

All theorems hold for every value of the constants that satisfies the named
assumptions of the modules, which TLC evaluates in every run: `MemoryAssumption`, `ArenaAssumption`,
`EventAssumption` (a ring of at least two slots, entries of at least one byte),
`TreeAssumption`, `EngineAssumption`, `WalkAssumption` (ids unique in a tree, a parent before
its children), `GraphAssumption`, `BodyAssumption`, `ErrorAssumption` (bodies are finite programs),
`LinkAssumption`, `NativeAssumption`, `SessionsAssumption`, `NavigationAssumption`
and `RenderAssumption` (below), `RenderersAssumption` and `GtkAssumption` (finitely many ids, a mask for every property value);
`ComponentAssumption` says that the component types that a widget's kind depends on differ;
`SnapshotAssumption`, `NodeAssumption`, `DownAssumption`, `TextAssumption` and `WidgetAssumption` say that
model values are distinct.  What `EngineAssumption` and `WalkAssumption` ask of a tree is what
`NativeTree` is proved to hand over as long as its caller does not stray (`RelyCorrect`).

* **Shared memory** (`Host_proofs`).  Types, `DeliveredInOrder`, `UnreadIntact`, `PendingExact`,
  `LifetimeBound`, `WrapIsFinal` and the implementation of the channel for the opcode ring.  The
  properties are not inductive: one has to know where each accepted
  opcode lies.  The invariant ties cursors to histories, `Mask(Len(sent)) = writeCursor`
  and, as a ring delivers no wrapped run, `Len(received) = readCursor`, at most
  SlotCount - 1 apart; and says that every offset carried by an unread opcode lies
  below the arena cursor, so that no later allocation can touch its entry.  Lemmas on
  `Store` and `Lookup` turn this into intact texts.  The event ring has the same argument, with
  rewinds: the entry of an event is below the cursor unless the event is in `exposed`.
  `TextLostOnlyByReset`: a step of the composition is a step of each ring or leaves it alone, and
  `exposed` is empty until a RESET is in `received`.
* **Engine** (`Engine_proofs`).  Types, `Truthful`, `ViewOnScreen`, `UnchangedEmitsNothing`,
  `NothingLeftOver`, `BindingsShown`.  `EngineIInv` adds to the first four, for a node at hand,
  that what is *not* pending already agrees with the screen (`VisitInv`); that
  the calls' variables are empty when no call runs (`CallInv`); that nodes still
  to come and nodes visited make up the tree (`WalkInv`); that visited nodes
  have their target as snapshot (`ViewInv`); and that an emission of the settled tree has
  nothing pending and nothing stale (`SettledInv`).  The argument of `Truthful`
  is that a snapshot is absent exactly while its node's opcodes are going out.  For `NothingLeftOver`,
  as long as no push was refused, every node on the screen is one the engine knows, and the parent a
  snapshot names is on the screen and lists it (`PlacesInv`): then whatever the sweep deletes takes
  nothing with it that is to stay.  For `BindingsShown`, each binding of a snapshot is among the
  dependencies of its signal, and its node shows the signal's cell unless the dependency is still
  to come in the running `set_signal` (`BindInv`).
* **Signal graph** (`SignalGraph_proofs`): types, `EdgesMirror`, `FlushOwned`, `EffectsInTurn`,
  `NothingForgotten`, `CaughtUp`, `DestroyedSilent`, for all bodies.  Typing needs to know of what kind
  each frame is and
  that an `untracked` read lies on the body that asked for it (`StackOK`).  The next two follow from
  the shape of the stack (`FlushShape`): at most one flush, and the evaluation of an
  effect always directly above it.  Most steps only push, pop or change frames
  that are neither flush nor refresh: `Carries` says what such a step leaves true and is proved
  once per kind of change (`QuietStep`); eight actions are left to look at one by
  one.  `NothingForgotten` is inductive with these: the queue is a list without repetition
  that `scheduled` describes, and the frame that took an effect out of it stays on the stack
  until the effect is clean or `dropped`.
  `CaughtUp` needs four facts of every moment at which no exception has left its body (`WalkInv`):
  what a node has read is among its producers, and what changed since is unseen (`Heard`); who has a
  changed or dirty producer is dirty or has a mark on its way (`Told`); a refresh has found nothing
  changed in what it has walked (`Vetted`); and the queue is empty or being flushed (`Drained`).
  `Heard` is false of a node that a change overtook between its walk and its end of
  evaluation: the history `missed` names these nodes, each case being a finding, and `CaughtUp` is about the
  others.  `DestroyedSilent`: a destroyed effect, and one that has not run, has no producers, so that no
  mark and no refresh can make it run (`Gone`, `Fresh`, `Spared`).
* **Batches** (`Remote_proofs`): types, `OpcodesInOrder`, `EventsArrive`, `TextsArrive`.  Opcodes carry
  consecutive numbers, and each place they wait in begins after what the next one ends with (`OrderInv`,
  its parts per place).  Offsets are right in three ways: every outstanding text of the current epoch is found in the
  arena at its offset (`ArenaInv`), every frame and every batch that carries its own cells has it there
  (`FramesInv`, `WireInv`), and a batcher holds the beginning of the arena it saw last unless it took a reset
  arena for a grown one (`BatcherInv`).  For `BatchDecoder` there is, for every batch under way, the mirror a
  decoder that missed none would have before it, and the batch's texts are found in that one
  (`DeltaInv`, an existential over sequences of mirrors).  `EventsInv` is an induction over the fold that
  encodes events.
* **Native host** (`Host_proofs`): `EngineRely`, `WholeTreeEmitted`, `TapsExact`.  As long as no call has strayed,
  parents and children lists mirror each other and nobody is above their own parent (`Linked`): `insert_child` keeps that
  where a node without a parent is inserted below what it is not above.  A call may stray at any time, and
  `NativeInv` claims nothing any more from then on.  `materialize` is
  a recursion over that order, proved by induction on the set of nodes below: its walk has each node below
  once, parents first, siblings in the order of their places (`WholeWalk`).  `NativeInv` says so of
  the tree last handed over.  The recognizer holds the press as long as every event since was a
  near move over its target, without leaving (`RemembersPress`).
* **Sessions** (`Sessions_proofs`): `DeltasComplete`, `NothingKept`.  A connection that is not cut is its
  tab's, a cut one carries nothing down (`LinkedInv`); a connection is registered once, and not
  before that among those that agree (`OpenInv`); then a frame down the one connection of the session
  finds a page that the frames before it bring to what the session showed.  For the other, whoever has
  a session, a pending connection or a task has an end before it: a connection that the server
  has not noticed, or a close further back in the queue (`EndInv`).
* **Navigation** (`Remote_proofs`): `NavSettles`, for any components destinations begin with and any guards.  A node is
  numbered when it is given out, so frames, the slot in the renderer's tree and the pages carry their children in the
  order given out (`InTurn`), and from the bottom up each page has a later one than those below, or none
  (`Ascending`): a page goes without the slot's widget only where one below holds it, which then begins with the same
  component, as every node has one component for good (`Kept`).  The last frame under way is the slot's; without one
  the slot is applied, and the user is where the application is, or has gone back with a request on its way while
  the router has somewhere to go, or the router has said nothing (`Settling`).
* **Emitter** (`Emitter_proofs`): `TreeIsView`, `InputsReachOwner`, `QuietRecompute`, `PageIsTree`.  Between two effects
  the retained tree lags behind the views, and below a slot whose effect is due anything may be wrong: its
  nodes are `Stale`.  `EmitterInv` says that no two nodes have one id; that every effect
  registered belongs to a node, and those of a node that is not stale are all registered (`Wired`); and that
  what is not stale is what the views render to, but for texts whose effect is due (`Follows`).  A write
  makes due whatever reads the signal, hence everything it changes is stale or due; `RunSlot` renders
  again what lies below its slot and registers it up to the next slots, whose effects are then due.  Fresh ids
  follow the order of paths, which is total, so they are distinct (`BeforeOrder`, `NumberedIs`).
  `QuietRecompute` needs that a slot rendered as it was keeps every node (the reconciliation of two trees that
  show the same is empty, by induction from the deepest path up).  `RenderAssumption` is what rendering is: a tree; a bound text is its
  signal's value; a signal changes nothing but texts bound to it and what lies below slots that read it, since
  the builders of the DSL run once and only `reconcileSlot` calls one again; and what shows a text has no
  children (`TextsHoldNothing`, so for the views of the DSL).
  `PageIsTree` is about retained trees that are `Grown`: a tree of paths, siblings that differ, greater ids
  inside than outside, and nothing inside a text.  No effect undoes that, as new ids are the greatest, and on the
  page of such a tree an element is never put into itself.  `Emits` says what the opcodes of `emitNode` make of such a page below one element, `Diffs` what those of
  `reconcileChildren` make of a page that shows the old children; both are proved for all children lists by
  induction on their length, and for all trees from the deepest paths up (`FromBelow`).  `Mends` joins them:
  after the frame the page shows the new tree.  `PageInv` ties the page to the tree between frames, and is
  claimed while every frame has arrived; a RESYNC establishes it anew only if no text became empty
  meanwhile (`Alike`, a finding).
* **Renderers** (`Renderers_proofs`): `TokensShown`.  A frame is a fold of opcodes over the tree; whatever they
  are, the tree stays one of nodes (`GtkTyped`, by induction on the fold), and `resolve_tokens` comes last in every
  step that changes the tree, the scheme or the tables.  What it leaves has each reference show its path's value,
  which takes that it is idempotent in what it reads: it writes literals and reads references (`Resolved`).

* **GTK widgets** (`Engine_proofs`): `InputsReported`, `OnlyDiscrepanciesCrash`, `WidgetsFollowTree`.  The retained tree is `Whole`: one root,
  everyone else listed by their parent, and ranks by which nobody is above their own parent.  Nothing keeps a node
  out of a second list, so the walk may meet one twice, or go round in a circle.  The walk is a table (`Tour`): what
  it does from each node when it may go so many levels down.  By induction on the levels, each node met is there and
  left only after it was entered (`Proper`); from the root it enters every node, as many levels down as there are ids
  (`AllEntered`, for which ranks can be had that small, `SmallRanks`); and the set of nodes from which it gets so many
  levels down shrinks with every level, unless it has come to nodes that each list one of them
  (`ListedInCircles`), so that nothing else makes the walk endless.  Then an
  induction along the walk (`Course`): after each step every widget is as the frame `Found` it or as a new one, the
  entered ones are `Shaped` by their node, and a stop is `Excused` (`OnCourse`).  `GtkInv` says what that leaves: who has
  a node has a widget, wired for each bit noted in `attached` (once, and for no bit that is not asked for, unless the
  node is in `retyped` or `swapped`), with handlers only on a bound control, and nobody else has one.
  `WidgetsFollowTree` takes an induction of its own along the same walk.  `reconcile_children` takes all children out
  and appends those that no other widget holds, so what a widget ends up with depends on who holds whom at the moment
  the walk leaves it.  `Holding` bounds that: a widget holds only children of its node, strays (`lost`), and, until the
  walk leaves it, a child that this frame `moved` away.  So whoever is left finds its own children, but for `moved` and
  `lost`, held by nobody else (`Filled`), and what is left later cannot take them.  `Follows` adds what an entered
  widget shows, and that only containers and buttons have children and only a composite button a body (`Plausible`).
  Between frames `FollowInv` keeps this together with `Listing` (nobody listed twice by one node, and only strays by
  one that is not their parent); each action is shown to change the tree as `Traced` says: a node keeps its parent or
  is in `moved` or `lost`.  TLC checked `FollowInv` before it was proved.

Theorems stronger than what the runs check: `UnreadIntact`, `PendingExact`, `LifetimeBound`,
`UndrainedIntact`, `EventWrapIsFinal`, types of events, engine and graph, and the inductive
invariants `LinkIInv`, `DeltaInv`, `NativeInv`, `NavInv`, `EmitterInv`, `PageInv`, `GtkInv` and `FollowInv`.

`ListFacts` has what stands in for the library's induction theorems, which take an operator: a non-empty set
of numbers has a least element (`Smallest`), so that a set closed under successor is all of them
(`Inductive`); an iterated function, and a fold over a list, have a table of their intermediate results
(`IterationExists`, `FoldTableExists`), about which `Inductive` proves what is wanted.

**Model-checked only**, and why:

* `FramesDelivered`, `CallsReturn`, `CatchesUp`: liveness, out of the prover's reach.
* `SignalGraph.RerunSeesChange`: a computed that was overtaken (`missed`) before the call could
  change back and forth between two runs of an effect, in programs larger than those of the run; a proof
  needs that none is, and that no computed changes twice between two runs, which takes an order of
  the marks in the whole graph.
* `Renderers.PageAgreesWithTree`: one step makes a whole page by recursion over the snapshot, to be compared with a
  tree that took many deltas, each of them rendered otherwise.
* `Sessions_lost` refutes its property.

What the graph's properties leave out on purpose: `CaughtUp` and `RerunSeesChange` say
nothing after an exception has left the body that raised it (`broken`), since reads that fail are
not recorded; `CaughtUp` nothing of nodes in `missed`; `NothingForgotten` counts effects whose run was ended by an exception of a
producer (`dropped`) and `DestroyedSilent` effects that destroyed themselves ("cut") apart.
Each of these exceptions is a finding in `PROJECT.json`.

## 5. Not modelled

* Byte layouts (fields of opcodes and batches are cells or records), the Java and TypeScript
  copies of the codecs, escaping, CSS text, attributes, colours and layout, logging.
* One property id stands for all in the engine and the trees, where each id is kept and emitted by itself.
  On the page they differ: `StyleCss` says of each use of a value (first, paint, with a literal, ignored) whether a
  reference to a token counts.  Which ids are of which use, and what GTK's widgets make of a node's properties, are not
  modelled, nor is a COLOR with children, which a page shows and GTK does not.  `Emitter` and `DomTree` have no properties.
* `META::RESET` does not reach the screen of `Engine`: the engine never pushes one.
* GTK: scrolled windows, overlays, images, date pickers, style sheets, the application window.
  GTK and libadwaita are external, modelled by what the renderer relies on.
* The browser: shells of controls with inputs and labels, the back button, hydration of ids, MOVE_CHILD and RESET
  (the emitter sends neither), which events the page makes of the DOM's.
* The emitter: properties, dates, the theme, text, value and date inputs, which go the way of texts and taps;
  `destroy()`; `RingOpcodeSink`.  Signals that are not saved begin in a new emitter at any value, not at the
  one their view gives them.
* Sessions: `shutdown`, the length of the back-off, `stop()`, Blob messages, time to live in Redis.
  No adapter delivers a message after the close of its connection.  `Sessions` takes a RESYNC to make the page what the session shows;
  `Emitter` says when it does.
* The router: patterns and parameters, persisted routes, several routers, routes without a match.
* Of the signal graph: `manualCleanup`, writes and new effects inside `untracked`, and use
  from several threads, whose effects the Java memory model would decide.
* The view DSLs build immutable trees; `Engine`, `NativeTree`, `Renderers` and `Emitter` take any
  tree of their bounds.  Dependency injection and the annotation processor keep no state.
* The JVM, the socket libraries and Redis are outside of `src/`.

## 6. Plan

Left to do, in this order:

1. `PageAgreesWithTree`, by an invariant of the GTK and HTML trees between deltas that a snapshot's page can be
   compared with.
2. Controls' shells and properties in `DomTree`; `RingOpcodeSink` over the rings.
