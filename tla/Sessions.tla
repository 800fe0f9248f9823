------------------------------ MODULE Sessions ------------------------------
(***************************************************************************)
(* Server sessions and their browser clients: PathlandRegistry and         *)
(* PathlandSession (pathland-server-core), the web socket adapters of the  *)
(* Spring and Quarkus starters, PersistentState over a StateStore, and the *)
(* client's transport.ts.                                                  *)
(*                                                                         *)
(* All tabs of a browser share one session id (a cookie).  The application *)
(* is one persisted State, a counter that a tap increments, and one route; *)
(* a page shows both.  Everything the registry is asked for is a task of a *)
(* single actor thread, except the rendering of a page, which a request    *)
(* thread does: it loads the counter, and saves it again, as every mount   *)
(* does.  A connection may be cut at any time; its two ends notice later,  *)
(* each for itself.                                                        *)
(***************************************************************************)
EXTENDS Integers, Sequences, SequencesExt

CONSTANTS Tabs, Routes, None,
          Home,                 \* "/", the route of a session made without one
          Landing,              \* the route a page is loaded at
          MaxAttempts,          \* MAX_ATTEMPTS of transport.ts
          Bounds, OrderlyBounds \* bounds: how many pages may be loaded (loads) and
                                \* left (leaves), connections cut (drops), inputs made

ASSUME SessionsAssumption ==
  /\ {Home, Landing} \subseteq Routes /\ MaxAttempts \in Nat \ {0}
  /\ None \notin Nat \union Routes \union [count : Nat, path : Routes]

VARIABLES
  tabs,       \* per tab: page, what it shows; route, its location; conn, its
              \* socket; open; attempt; loading, the counter its page is made with
  conns,      \* per connection: tab, what is under way up and down, cut, and
              \* closed, the server having noticed
  queue,      \* the actor's tasks
  session,    \* the session of the id, or None
  pending,    \* the connection registered for it, or None
  store,      \* the saved counter
  agreed,     \* connections, uncut, whose page was once what the session shows
  orderly,    \* there is one tab, which loads no page and does not connect before
              \* the server has done with the id: constant in a behaviour
  left        \* how many of what is bounded there may still be

sessionVars == <<tabs, conns, queue, session, pending, store, agreed, orderly, left>>

Spend(what) == left[what] > 0 /\ left' = [left EXCEPT ![what] = @ - 1]

\* A frame: the counter and the route it sets, or None.
Frame(count, path) == [count |-> count, path |-> path]
Shows(page, frame) ==
  Frame(IF frame.count = None THEN page.count ELSE frame.count,
        IF frame.path = None THEN page.path ELSE frame.path)

-----------------------------------------------------------------------------
(* A session and what it sends.                                              *)

\* A session at work: count, path and conn, with the frames that got through.
ViewOf(s) == Frame(s.count, s.path)

\* send: without a connection, or with one that is closed or throws, the frame
\* is lost, and the connection dropped for good; one cut unnoticed may take it.
Send(s, frame, throws) ==
  IF s.conn = None THEN s
  ELSE IF conns[s.conn].closed \/ (conns[s.conn].cut /\ throws) THEN [s EXCEPT !.conn = None]
  ELSE IF conns[s.conn].cut THEN s
  ELSE [s EXCEPT !.out = Append(@, frame)]

\* activePath.set: a frame if it changes.
SetPath(s, path, throws) ==
  IF s.path = path THEN s
  ELSE Send([s EXCEPT !.path = path], Frame(None, path), throws)

\* One event of a batch: a tap saves and shows the counter; after one whose
\* handler fails the rest of the batch is dropped.
Handle(s, event, throws) ==
  IF s.failed THEN s
  ELSE CASE event = "tap" ->
              Send([s EXCEPT !.count = @ + 1], Frame(s.count + 1, None), throws)
         [] event = "fail" -> [s EXCEPT !.failed = TRUE]
         [] OTHER -> SetPath(s, event, throws)

Dispatch(s, batch, throws) ==
  FoldLeft(LAMBDA r, event : Handle(r, event, throws), s, batch)

ResyncAsMounted(s, throws) ==               \* seeded fault: the mount frame again
  Send(s, Frame(store, Home), throws)

\* renderFull.
Resync(s, throws) == Send(s, ViewOf(s), throws)

\* session(id, env): the one there is, or a new one with the pending connection;
\* its mount frame is not sent.
SessionFor(route) ==
  IF session # None
  THEN [count |-> session.count, path |-> session.path, conn |-> session.conn,
        out |-> <<>>, failed |-> FALSE]
  ELSE [count |-> store, path |-> route, conn |-> pending, out |-> <<>>, failed |-> FALSE]

-----------------------------------------------------------------------------
(* The actor.                                                                *)

\* What a page will show when all that is under way to it has arrived.
Arriving(c) == FoldLeft(Shows, tabs[conns[c].tab].page, conns[c].down)

Agrees(c, view) == tabs[conns[c].tab].page # None /\ Arriving(c) = view

\* A task done with a session: before, as it was found or made, and after.  The
\* counter is saved when it changes; the save at the mount is of what was loaded.
Work(before, after, full) ==
  /\ session' = [count |-> after.count, path |-> after.path, conn |-> after.conn]
  /\ pending' = IF session = None THEN None ELSE pending
  /\ store' = IF after.count = before.count THEN store ELSE after.count
  /\ conns' = IF after.conn = None THEN conns
              ELSE [conns EXCEPT ![after.conn].down = @ \o after.out]
  /\ agreed' = IF after.conn # None /\ ~conns[after.conn].cut
                    /\ (full \/ Agrees(after.conn, ViewOf(before)))
               THEN agreed \union {after.conn} ELSE agreed

CloseAll ==
  /\ session' = None /\ UNCHANGED <<conns, store, agreed>>

CloseKeepsPending == pending' = pending     \* seeded fault: only the session

\* close(id): whichever connection it was for.
Close == pending' = None

OpenTask(task) ==
  /\ task.kind = "open"
  /\ CloseAll /\ pending' = task.conn

CloseTask(task) ==
  /\ task.kind = "close"
  /\ CloseAll /\ Close

EnvironmentTask(task) ==
  /\ task.kind = "environment"
  /\ \E throws \in BOOLEAN :
       LET s == SessionFor(task.data) IN Work(s, SetPath(s, task.data, throws), FALSE)

EventsTask(task) ==
  /\ task.kind = "events"
  /\ \E throws \in BOOLEAN :
       LET s == SessionFor(Home) IN Work(s, Dispatch(s, task.data, throws), FALSE)

ResyncTask(task) ==
  /\ task.kind = "resync"
  /\ \E throws \in BOOLEAN :
       LET s == SessionFor(Home) IN Work(s, Resync(s, throws), TRUE)

Actor ==
  /\ queue # <<>> /\ queue' = Tail(queue)
  /\ LET task == Head(queue)
     IN  \/ OpenTask(task) \/ CloseTask(task)
         \/ EnvironmentTask(task) \/ EventsTask(task) \/ ResyncTask(task)
  /\ UNCHANGED <<tabs, orderly, left>>

-----------------------------------------------------------------------------
(* The network, and the adapters' handlers, which queue tasks.               *)

Task(kind, c, data) == [kind |-> kind, conn |-> c, data |-> data]

\* A message arrives, of a connection perhaps already cut.
Receive(c) ==
  /\ ~conns[c].closed /\ conns[c].up # <<>>
  /\ queue' = Append(queue, Head(conns[c].up))
  /\ conns' = [conns EXCEPT ![c].up = Tail(@)]
  /\ UNCHANGED <<tabs, session, pending, store, agreed, orderly, left>>

Over == [tab |-> None, up |-> <<>>, down |-> <<>>, cut |-> TRUE, closed |-> TRUE]
Cut(conn) == [conn EXCEPT !.down = <<>>, !.cut = TRUE]

ServerNotices(c) ==
  /\ conns[c].cut /\ ~conns[c].closed
  /\ conns' = [conns EXCEPT ![c] = Over]
  /\ queue' = Append(queue, Task("close", None, None))
  /\ UNCHANGED <<tabs, session, pending, store, agreed, orderly, left>>

Drop(c) ==
  /\ ~conns[c].cut /\ Spend("drops")
  /\ conns' = [conns EXCEPT ![c] = Cut(@)] /\ agreed' = agreed \ {c}
  /\ UNCHANGED <<tabs, queue, session, pending, store, orderly>>

-----------------------------------------------------------------------------
(* A tab and its Transport.                                                  *)

\* The server has done with the id.
Done == queue = <<>> /\ \A c \in DOMAIN conns : conns[c].closed

OneTab == CHOOSE t \in Tabs : TRUE

Idle == [page |-> None, route |-> Landing, conn |-> None, open |-> FALSE,
         attempt |-> 0, loading |-> None]

\* renderHtml: the request's thread loads the counter;
Load(t) ==
  /\ tabs[t] = Idle
  /\ Spend("loads")
  /\ orderly => Done /\ t = OneTab
  /\ tabs' = [tabs EXCEPT ![t].loading = store]
  /\ UNCHANGED <<conns, queue, session, pending, store, agreed, orderly>>

\* the mount saves what it has loaded; the page arrives.
Rendered(t) ==
  /\ tabs[t].loading # None
  /\ store' = tabs[t].loading
  /\ tabs' = [tabs EXCEPT ![t].page = Frame(tabs[t].loading, Landing), ![t].loading = None]
  /\ UNCHANGED <<conns, queue, session, pending, agreed, orderly, left>>

\* The page is left, or about to be loaded again.
Leave(t) ==
  /\ tabs[t].page # None /\ Spend("leaves")
  /\ tabs' = [tabs EXCEPT ![t] = Idle]
  /\ conns' = IF tabs[t].conn = None \/ conns[tabs[t].conn].closed THEN conns
              ELSE [conns EXCEPT ![tabs[t].conn] = Cut(@)]
  /\ agreed' = agreed \ {tabs[t].conn}
  /\ UNCHANGED <<queue, session, pending, store, orderly>>

\* connect: the server's end is there first.
Connect(t) ==
  /\ tabs[t].page # None /\ tabs[t].conn = None
  /\ tabs[t].attempt <= MaxAttempts
  /\ orderly => Done
  /\ LET c == Len(conns) + 1
     IN  /\ conns' = Append(conns, [tab |-> t, up |-> <<>>, down |-> <<>>,
                                    cut |-> FALSE, closed |-> FALSE])
         /\ queue' = Append(queue, Task("open", c, None))
         /\ tabs' = [tabs EXCEPT ![t].conn = c]
  /\ UNCHANGED <<session, pending, store, agreed, orderly, left>>

\* onopen: the environment, and after a failed attempt or a cut a RESYNC.
OnOpen(t) ==
  /\ tabs[t].conn # None /\ ~tabs[t].open /\ ~conns[tabs[t].conn].cut
  /\ tabs' = [tabs EXCEPT ![t].open = TRUE, ![t].attempt = 0]
  /\ conns' = [conns EXCEPT ![tabs[t].conn].up =
                 <<Task("environment", None, tabs[t].route)>>
                 \o IF tabs[t].attempt > 0 THEN <<Task("resync", None, None)>> ELSE <<>>]
  /\ UNCHANGED <<queue, session, pending, store, agreed, orderly, left>>

NoRetry(t) == [tabs[t] EXCEPT !.conn = None, !.open = FALSE]  \* seeded fault: attempt kept

\* onclose: another attempt, unless there were too many (attempt > MaxAttempts).
Retried(t) == [tabs[t] EXCEPT !.conn = None, !.open = FALSE, !.attempt = @ + 1]

OnClose(t) ==
  /\ tabs[t].conn # None /\ conns[tabs[t].conn].cut
  /\ tabs' = [tabs EXCEPT ![t] = Retried(t)]
  /\ UNCHANGED <<conns, queue, session, pending, store, agreed, orderly, left>>

\* handleMessage: the frame is applied, and its route pushed to the history.
OnMessage(t) ==
  /\ tabs[t].open /\ conns[tabs[t].conn].down # <<>>
  /\ LET frame == Head(conns[tabs[t].conn].down)
     IN  tabs' = [tabs EXCEPT ![t].page = Shows(@, frame),
                              ![t].route = IF frame.path = None THEN @ ELSE frame.path]
  /\ conns' = [conns EXCEPT ![tabs[t].conn].down = Tail(@)]
  /\ UNCHANGED <<queue, session, pending, store, agreed, orderly, left>>

\* send: nothing without an open socket.
Sent(t, batch) ==
  conns' = IF ~tabs[t].open \/ conns[tabs[t].conn].closed THEN conns
           ELSE [conns EXCEPT ![tabs[t].conn].up = Append(@, Task("events", None, batch))]

Tap(t, batch) ==
  /\ tabs[t].page # None
  /\ Spend("inputs") /\ Sent(t, batch)
  /\ UNCHANGED <<tabs, queue, session, pending, store, agreed, orderly>>

\* popstate, once there is a history: of frames of an earlier connection.
Move(t, route) ==
  /\ tabs[t].open \/ tabs[t].attempt > 0
  /\ tabs[t].route # route
  /\ Spend("inputs") /\ Sent(t, <<route>>)
  /\ tabs' = [tabs EXCEPT ![t].route = route]
  /\ UNCHANGED <<queue, session, pending, store, agreed, orderly>>

-----------------------------------------------------------------------------
SessionInit ==
  /\ tabs = [t \in Tabs |-> Idle]
  /\ conns = <<>> /\ queue = <<>>
  /\ session = None /\ pending = None /\ store = 0
  /\ agreed = {} /\ orderly \in BOOLEAN
  /\ left = IF orderly THEN OrderlyBounds ELSE Bounds

SessionNext ==
  \/ Actor
  \/ \E c \in DOMAIN conns : Receive(c) \/ ServerNotices(c) \/ Drop(c)
  \/ \E t \in Tabs, route \in Routes : Move(t, route)
  \/ \E t \in Tabs : Load(t) \/ Rendered(t) \/ Leave(t)
  \/ \E t \in Tabs : Connect(t) \/ OnOpen(t) \/ OnClose(t) \/ OnMessage(t)
  \/ \E t \in Tabs, batch \in {<<"tap">>, <<"fail", "tap">>} : Tap(t, batch)

\* The threads run, what is under way arrives, timers fire and ends notice; no
\* one has to use the application.
MaxConns == OrderlyBounds.loads + OrderlyBounds.drops
Fairness ==
  /\ WF_sessionVars(Actor)
  /\ \A c \in 1 .. MaxConns :
       /\ WF_sessionVars(c \in DOMAIN conns /\ Receive(c))
       /\ WF_sessionVars(c \in DOMAIN conns /\ ServerNotices(c))
  /\ \A t \in Tabs :
       /\ WF_sessionVars(Rendered(t)) /\ WF_sessionVars(Connect(t))
       /\ WF_sessionVars(OnOpen(t)) /\ WF_sessionVars(OnClose(t))
       /\ WF_sessionVars(OnMessage(t))

SessionSpec == SessionInit /\ [][SessionNext]_sessionVars /\ Fairness

-----------------------------------------------------------------------------
\* Deltas are complete: a page that has had a snapshot, or was what the session
\* mounted, and whose connection is the session's, is what the session shows once
\* what is under way has arrived (PathlandSession: "only deltas + resync
\* snapshots go out").
DeltasComplete ==
  \A c \in agreed :
    session # None /\ session.conn = c =>
      Arriving(c) = Frame(session.count, session.path)

\* When the server has seen the end of every connection of the id and done its
\* work, it keeps nothing for the id (PathlandRegistry, close).
NothingKept == Done => session = None /\ pending = None

\* What a session shows is saved: "mutate (persisted automatically)" (State.java).
Persisted == session # None => store = session.count

\* A client that has connected shows in the end what the server has, the saved
\* counter and its own location's route, whatever was cut and retried, if each
\* connection is over before the next begins; or it has used up its attempts.
Served(t) ==
  tabs[t].page = Frame(store, tabs[t].route)
    /\ session # None /\ session.conn = tabs[t].conn /\ session.path = tabs[t].route

CatchesUp ==
  orderly => <>[](\A t \in Tabs : tabs[t].page # None =>
                    \/ Served(t)
                    \/ tabs[t].conn = None /\ tabs[t].attempt > MaxAttempts)
=============================================================================
