----------------------------- MODULE Navigation -----------------------------
(***************************************************************************)
(* Navigation: the application's Router and its container's slot           *)
(* (pathland-view, router/ and Emitter.reconcileSlot), and the page stack  *)
(* the GTK renderer keeps for the slot (pathland-render-gtk, lib.rs,       *)
(* sync_navigation_children).  Each has a stack of its own, the            *)
(* application's being the one that counts; frames go one way, requests to *)
(* go back the other, and the user may pop a page before the application   *)
(* has heard of it.                                                        *)
(*                                                                         *)
(* A destination is the number of its node, and 0 where there is none.     *)
(* AdwNavigationView is external and has the pages it is given; a widget   *)
(* that a page holds is refused by another, as everywhere in GTK.          *)
(***************************************************************************)
EXTENDS Integers, SequencesExt

CONSTANTS Routes, None,
          Start,          \* the first route
          Redirect,       \* where a route's guard leads, or None
          Root,           \* the component a route's destination begins with
          MaxOps          \* bound: the application's operations and the user's

ASSUME NavigationAssumption ==
  /\ Start \in Routes /\ MaxOps \in Nat
  /\ Redirect \in [Routes -> Routes \union {None}]
  /\ DOMAIN Root = Routes

VARIABLES
  stack, current,   \* the Router's, and its route signal
  slot,             \* the slot's node as last emitted: route, depth, child
  nextId,
  unheard,          \* history: stack has changed since slot was emitted
  frames,           \* emitted, not yet applied
  requests,         \* NAVIGATE events without a URL, not yet handled
  applied,          \* the slot in the renderer's tree
  pages,            \* the renderer's mirror of the page stack
  native,           \* the pages the user has, the last one in front
  ops

application == <<stack, current, slot, nextId, unheard, frames>>
renderer == <<applied, pages, native>>
navVars == <<application, requests, renderer, ops>>

-----------------------------------------------------------------------------
(* The Router, and the effect that reconciles the slot.                      *)

Guarded(route) == IF Redirect[route] = None THEN route ELSE Redirect[route]

\* The slot's child once it has changed to target: none for a route whose guard
\* leads on, which is where another guard has led; the node that is there, if the
\* destination begins with the same component; else a new one.
Child(target) ==
  IF Redirect[target] # None THEN 0
  ELSE IF slot.child # 0 /\ Root[target] = Root[current] THEN slot.child
  ELSE nextId

\* go, with the stack as it is by then: the effect runs only if the route signal
\* changes; ROUTE and NAV_DEPTH are in the same frame.
Go(route, rest) ==
  LET target == Guarded(route)
      child == Child(target)
      swapped == [route |-> target, depth |-> Len(rest) + 1, child |-> child]
  IN  /\ stack' = rest /\ current' = target
      /\ IF target = current
         THEN unheard' = (unheard \/ rest # stack) /\ UNCHANGED <<slot, nextId, frames>>
         ELSE /\ slot' = swapped /\ frames' = Append(frames, swapped)
              /\ nextId' = IF child = nextId THEN nextId + 1 ELSE nextId
              /\ unheard' = FALSE

Operation == ops < MaxOps /\ ops' = ops + 1

\* navigate and replace; handlePlatformNavigation.
Navigate(route) == Operation /\ Go(route, stack) /\ UNCHANGED <<requests, renderer>>

Push(route) ==
  Operation /\ Go(route, <<current>> \o stack) /\ UNCHANGED <<requests, renderer>>

Back == IF stack = <<>> THEN UNCHANGED application ELSE Go(Head(stack), Tail(stack))

Pop == Operation /\ Back /\ UNCHANGED <<requests, renderer>>

\* handleEvent, of a request to go back.
HandleRequest ==
  /\ requests > 0 /\ requests' = requests - 1
  /\ Back
  /\ UNCHANGED <<renderer, ops>>

-----------------------------------------------------------------------------
(* The renderer.                                                             *)

Page(route, child) == [tag |-> route, child |-> child]

\* By another page than the top one.
Held(stacked, child, top) ==
  \E k \in DOMAIN stacked : k # top /\ stacked[k].child = child

\* Down to the application's depth.
PoppedTo(stacked, depth) ==
  IF Len(stacked) > depth THEN SubSeq(stacked, 1, depth) ELSE stacked

\* nav_page, pushed: a page without a widget, if that is held.
Pushed(stacked, f) ==
  Append(stacked, Page(f.route, IF Held(stacked, f.child, 0) THEN 0 ELSE f.child))

\* set_child and set_tag of the top page, which keeps what it has if the widget is
\* held.
TopSet(stacked, f) ==
  LET top == Len(stacked)
  IN  [stacked EXCEPT ![top] =
         Page(f.route, IF Held(stacked, f.child, top) THEN @.child ELSE f.child)]

ActionByDepth(length, f, tag) ==            \* seeded fault: not the page in front
  IF length <= f.depth THEN "push" ELSE "replace"

\* nav_action: the visible page's route counts before the depth.
NavAction(length, f, tag) ==
  IF tag = f.route THEN "refresh" ELSE IF length < f.depth THEN "push" ELSE "replace"

\* sync_navigation_children: nothing, if the slot has no child.  Refresh and Replace
\* both set the child, and the tag is the route's in the end.  The pops are not
\* reported: reconciling is set.
Synced(stacked, f) ==
  LET rest == PoppedTo(stacked, f.depth)
  IN  IF f.child = 0 THEN stacked
      ELSE IF rest = <<>> THEN Pushed(rest, f)
      ELSE IF NavAction(Len(rest), f, Last(rest).tag) = "push" THEN Pushed(rest, f)
      ELSE TopSet(rest, f)

\* The pages are synchronised at every frame: at the slot's, and at any other.
RenderSlot(f) ==
  /\ applied' = f /\ pages' = Synced(pages, f) /\ native' = Synced(native, f)
  /\ UNCHANGED <<stack, current, slot, nextId, unheard, requests, ops>>

RenderFrame == frames # <<>> /\ RenderSlot(Head(frames)) /\ frames' = Tail(frames)
RenderOther == RenderSlot(applied) /\ UNCHANGED frames

\* The header bar's back button or a gesture: the page goes at once; popped drops
\* it from the mirror and asks the application.
NativeBack ==
  /\ Len(native) > 1 /\ Operation
  /\ native' = Front(native)
  /\ pages' = RemoveAt(pages, Len(native))
  /\ requests' = requests + 1
  /\ UNCHANGED <<application, applied>>

\* Escape, or BackSpace outside a text: only asks.
EscapeKey ==
  /\ Operation /\ requests' = requests + 1
  /\ UNCHANGED <<application, renderer>>

-----------------------------------------------------------------------------
NavInit ==
  /\ stack = <<>> /\ current = Start
  /\ slot = [route |-> Start, depth |-> 1, child |-> IF Redirect[Start] = None THEN 1 ELSE 0]
  /\ nextId = 2 /\ unheard = FALSE
  /\ frames = <<slot>> /\ requests = 0
  /\ applied = [slot EXCEPT !.child = 0] /\ pages = <<>> /\ native = <<>> /\ ops = 0

NavNext ==
  \/ \E route \in Routes : Navigate(route) \/ Push(route)
  \/ Pop \/ HandleRequest
  \/ RenderFrame \/ RenderOther \/ NativeBack \/ EscapeKey

NavSpec == NavInit /\ [][NavNext]_navVars

-----------------------------------------------------------------------------
\* "The back-stack stays app-owned" (sync_navigation_children): once every frame
\* is applied and every request handled, the user is where the application is.  The
\* renderer's mirror is right, the front page is the route's, and the user cannot go
\* back further than NAV_DEPTH says; the page shows the slot's child, unless a page
\* below, of a destination that begins with the same component, still has it.
\* Not so where the router says nothing of its stack, going back to the route it is
\* at or pushing that; and where its slot is empty.
NavSettles ==
  frames = <<>> /\ requests = 0 /\ ~unheard /\ slot.child # 0 =>
    /\ native = pages /\ native # <<>>
    /\ Last(native).tag = current /\ Len(native) <= slot.depth
    /\ \/ Last(native).child = slot.child
       \/ \E k \in 1 .. Len(native) - 1 : /\ native[k].child = slot.child
                                         /\ Root[native[k].tag] = Root[current]
=============================================================================
