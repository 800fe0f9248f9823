--------------------------- MODULE Sessions_proofs --------------------------
(* Proofs about Sessions, for every set of tabs and routes and every bound.   *)
EXTENDS Sessions, ListFacts

-----------------------------------------------------------------------------
(* What the variables hold.                                                  *)

Frames == [count : Nat \union {None}, path : Routes \union {None}]
Views == [count : Nat, path : Routes]
Events == Routes \union {"tap", "fail"}

\* What a client sends, and what the actor is asked for.
Messages ==
  [kind : {"environment"}, conn : {None}, data : Routes]
    \union [kind : {"events"}, conn : {None}, data : Seq(Events)]
    \union [kind : {"resync"}, conn : {None}, data : {None}]

Ids == DOMAIN conns

Tasks ==
  Messages \union [kind : {"close"}, conn : {None}, data : {None}]
           \union [kind : {"open"}, conn : Ids, data : {None}]

Connections == [tab : Tabs \union {None}, up : Seq(Messages), down : Seq(Frames),
                cut : BOOLEAN, closed : BOOLEAN]

SessionTypeOK ==
  /\ tabs \in [Tabs -> [page : Views \union {None}, route : Routes,
                        conn : Ids \union {None}, open : BOOLEAN, attempt : Nat,
                        loading : Nat \union {None}]]
  /\ conns \in Seq(Connections)
  /\ queue \in Seq(Tasks)
  /\ session \in {None} \union [count : Nat, path : Routes, conn : Ids \union {None}]
  /\ pending \in Ids \union {None}
  /\ store \in Nat
  /\ agreed \in SUBSET Ids

-----------------------------------------------------------------------------
(* Nothing is kept: whoever still has a connection, or a task to do, has the  *)
(* end of a connection before it.                                             *)

\* A connection whose end the server has not noticed, or a task for its end
\* behind the i-th.
EndsAfter(i) ==
  \/ \E c \in DOMAIN conns : ~conns[c].closed
  \/ \E j \in DOMAIN queue : j > i /\ queue[j].kind = "close"

EndInv ==
  /\ session # None \/ pending # None => EndsAfter(0)
  /\ \A i \in DOMAIN queue : queue[i].kind # "close" => EndsAfter(i)

-----------------------------------------------------------------------------
(* Deltas are complete.                                                       *)

\* The tabs and their connections.
LinkedInv ==
  /\ \A t \in Tabs :
       /\ tabs[t].open => tabs[t].conn # None
       /\ tabs[t].loading # None => tabs[t].page = None
       /\ tabs[t].conn # None =>
            /\ tabs[t].page # None
            /\ conns[tabs[t].conn].closed \/ conns[tabs[t].conn].tab = t
  /\ \A c \in Ids :
       /\ conns[c].closed => conns[c].cut
       /\ conns[c].cut => conns[c].down = <<>>
       /\ ~conns[c].cut => conns[c].tab \in Tabs /\ tabs[conns[c].tab].conn = c

\* A connection is registered once, and nothing has been said of it before it is
\* the session's.
OpenInv ==
  /\ session # None => pending = None
  /\ \A c \in agreed : ~conns[c].cut
  /\ pending \notin agreed
  /\ \A i \in DOMAIN queue : queue[i].kind = "open" =>
       /\ queue[i].conn \notin agreed
       /\ queue[i].conn # pending
       /\ session # None => session.conn # queue[i].conn
       /\ \A j \in DOMAIN queue : queue[j].kind = "open" /\ queue[j].conn = queue[i].conn => j = i

DeltaInv == SessionTypeOK /\ LinkedInv /\ OpenInv /\ DeltasComplete

-----------------------------------------------------------------------------
(* Frames that arrive one after the other.                                    *)

\* rows[i] is the page after i frames.
ShownBy(page, frames, rows) ==
  /\ rows \in [0 .. Len(frames) -> Views] /\ rows[0] = page
  /\ \A i \in 1 .. Len(frames) : rows[i] = Shows(rows[i - 1], frames[i])

LEMMA ShowsType ==
  ASSUME NEW page \in Views, NEW f \in Frames
  PROVE  Shows(page, f) \in Views
BY DEF Shows, Frame, Views, Frames

LEMMA ShowsRows ==
  ASSUME NEW page \in Views, NEW frames \in Seq(Frames)
  PROVE  \E rows : ShownBy(page, frames, rows) /\ FoldLeft(Shows, page, frames) = rows[Len(frames)]
<1> DEFINE N == Len(frames)
           F == [k \in 1 .. N |-> [v \in Views |-> Shows(v, frames[k])]]
           Table(h) == h = [s \in SUBSET (1 .. N) |->
                              IF s = {} THEN page
                              ELSE Shows(h[s \ {Max(s)}], frames[Max(s)])]
           h == CHOOSE h : Table(h)
           S == {n \in Nat : n <= N => h[1 .. n] \in Views}
<1>0. N \in Nat OBVIOUS
<1>1. \E g : Table(g)
  <2>1. ASSUME NEW k \in 1 .. N, NEW v \in Views PROVE Shows(v, frames[k]) \in Views
    BY <2>1, ShowsType
  <2>2. F \in [1 .. N -> [Views -> Views]] BY <2>1
  <2>3. PICK g \in [SUBSET (1 .. N) -> Views] : FoldTable(g, page, F, N)
    <3> HIDE DEF F, N
    <3>1. QED BY <1>0, <2>2, FoldTableExists
  <2>4. ASSUME NEW s \in SUBSET (1 .. N)
        PROVE  g[s] = IF s = {} THEN page ELSE Shows(g[s \ {Max(s)}], frames[Max(s)])
    <3>1. g[s] = IF s = {} THEN page ELSE F[Max(s)][g[s \ {Max(s)}]]
      BY <2>3 DEF FoldTable
    <3>2. CASE s = {} BY <3>1, <3>2
    <3>3. CASE s # {}
      <4>1. Max(s) \in s BY <1>0, <3>3, MaxIs
      <4>2. Max(s) \in 1 .. N /\ g[s \ {Max(s)}] \in Views BY <4>1
      <4>3. QED BY <3>1, <3>3, <4>2
    <3>4. QED BY <3>2, <3>3
  <2>5. g = [s \in SUBSET (1 .. N) |-> g[s]] OBVIOUS
  <2>6. Table(g) BY <2>4, <2>5
  <2>7. QED BY <2>6
<1>2. Table(h) BY <1>1
<1>3. FoldLeft(Shows, page, frames) = h[1 .. N]
  <2>1. DOMAIN frames = 1 .. N OBVIOUS
  <2>2. QED BY <2>1 DEF FoldLeft, MapThenFoldSet
<1> HIDE DEF h, N
<1>4. h[1 .. 0] = page
  <2>1. 1 .. 0 = {} /\ {} \in SUBSET (1 .. N) OBVIOUS
  <2>2. QED BY <2>1, <1>2
<1>5. ASSUME NEW n \in 1 .. N PROVE h[1 .. n] = Shows(h[1 .. n - 1], frames[n])
  <2>1. (1 .. n) \in SUBSET (1 .. N) /\ n \in Nat \ {0} BY <1>0
  <2>2. 1 .. n # {} /\ Max(1 .. n) = n /\ (1 .. n) \ {n} = 1 .. n - 1
    BY <2>1, LastOfRange
  <2>3. QED BY <2>1, <2>2, <1>2
<1>6. Nat \subseteq S
  <2>1. 0 \in S BY <1>4
  <2>2. ASSUME NEW m \in Nat, m \in S PROVE m + 1 \in S
    <3> SUFFICES ASSUME m + 1 <= N PROVE h[1 .. m + 1] \in Views OBVIOUS
    <3>1. m + 1 \in 1 .. N /\ (m + 1) - 1 = m BY <1>0
    <3>2. h[1 .. m] \in Views BY <2>2, <1>0
    <3>3. frames[m + 1] \in Frames BY <3>1 DEF N
    <3>4. h[1 .. m + 1] = Shows(h[1 .. m], frames[m + 1]) BY <3>1, <1>5
    <3>5. QED BY <3>2, <3>3, <3>4, ShowsType
  <2> HIDE DEF S
  <2>3. QED BY <2>1, <2>2, Inductive
<1> DEFINE rows == [n \in 0 .. N |-> h[1 .. n]]
<1>7. ASSUME NEW n \in 0 .. N PROVE h[1 .. n] \in Views
  BY <1>0, <1>6
<1>8. rows \in [0 .. N -> Views] BY <1>7
<1>9. rows[0] = page BY <1>0, <1>4
<1>10. ASSUME NEW i \in 1 .. N PROVE rows[i] = Shows(rows[i - 1], frames[i])
  <2>1. i \in 0 .. N /\ i - 1 \in 0 .. N BY <1>0
  <2>2. QED BY <2>1, <1>5
<1>11. rows[N] = h[1 .. N] BY <1>0
<1> HIDE DEF rows
<1>12. QED BY <1>3, <1>8, <1>9, <1>10, <1>11 DEF N, ShownBy

\* There is one such sequence of pages.
LEMMA ShownIs ==
  ASSUME NEW page \in Views, NEW frames \in Seq(Frames), NEW rows, ShownBy(page, frames, rows)
  PROVE  FoldLeft(Shows, page, frames) = rows[Len(frames)] /\ rows[Len(frames)] \in Views
<1> DEFINE N == Len(frames)
<1>1. PICK others : ShownBy(page, frames, others) /\ FoldLeft(Shows, page, frames) = others[N]
  BY ShowsRows
<1> DEFINE S == {n \in Nat : n <= N => rows[n] = others[n]}
<1>2. 0 \in S BY <1>1 DEF ShownBy
<1>3. ASSUME NEW m \in Nat, m \in S PROVE m + 1 \in S
  <2> SUFFICES ASSUME m + 1 <= N PROVE rows[m + 1] = others[m + 1] OBVIOUS
  <2>1. N \in Nat /\ m <= N /\ m + 1 \in 1 .. N /\ (m + 1) - 1 = m OBVIOUS
  <2>2. rows[m] = others[m] BY <2>1, <1>3
  <2>3. rows[m + 1] = Shows(rows[m], frames[m + 1]) BY <2>1 DEF ShownBy
  <2>4. others[m + 1] = Shows(others[m], frames[m + 1]) BY <2>1, <1>1 DEF ShownBy
  <2>5. QED BY <2>2, <2>3, <2>4
<1>4. Nat \subseteq S
  <2> HIDE DEF S
  <2>1. QED BY <1>2, <1>3, Inductive
<1>5. N \in Nat /\ N \in 0 .. N OBVIOUS
<1>6. rows[N] = others[N] BY <1>4, <1>5
<1>7. rows[N] \in Views BY <1>5 DEF ShownBy
<1>8. QED BY <1>1, <1>6, <1>7

LEMMA ShownNothing ==
  ASSUME NEW page \in Views
  PROVE  FoldLeft(Shows, page, <<>>) = page
<1>1. <<>> \in Seq(Frames) /\ Len(<<>>) = 0 OBVIOUS
<1>2. PICK rows : ShownBy(page, <<>>, rows) /\ FoldLeft(Shows, page, <<>>) = rows[Len(<<>>)]
  BY <1>1, ShowsRows
<1>3. QED BY <1>1, <1>2 DEF ShownBy

\* One frame more, or fewer.
LEMMA ShownLast ==
  ASSUME NEW page \in Views, NEW frames \in Seq(Frames), NEW f \in Frames
  PROVE  FoldLeft(Shows, page, Append(frames, f)) = Shows(FoldLeft(Shows, page, frames), f)
<1> DEFINE N == Len(frames)
           longer == Append(frames, f)
<1>1. PICK rows : ShownBy(page, frames, rows) /\ FoldLeft(Shows, page, frames) = rows[N]
  BY ShowsRows
<1> DEFINE last == Shows(rows[N], f)
           more == [i \in 0 .. N + 1 |-> IF i <= N THEN rows[i] ELSE last]
<1>2. N \in Nat /\ longer \in Seq(Frames) /\ Len(longer) = N + 1 OBVIOUS
<1>3. /\ rows \in [0 .. N -> Views] /\ rows[0] = page
      /\ \A i \in 1 .. N : rows[i] = Shows(rows[i - 1], frames[i])
  BY <1>1 DEF ShownBy
<1>4. last \in Views
  <2>1. rows[N] \in Views BY <1>2, <1>3
  <2>2. QED BY <2>1, ShowsType
<1>5. /\ longer[N + 1] = f
      /\ \A i \in 1 .. N : longer[i] = frames[i]
  OBVIOUS
<1> HIDE DEF last, longer, N
<1>6. more \in [0 .. N + 1 -> Views] /\ more[0] = page /\ more[N + 1] = last
  BY <1>2, <1>3, <1>4
<1>7. ASSUME NEW i \in 1 .. N + 1 PROVE more[i] = Shows(more[i - 1], longer[i])
  <2>1. CASE i = N + 1
    <3>1. more[i] = last /\ more[i - 1] = rows[N] BY <1>2, <2>1
    <3>2. QED BY <2>1, <3>1, <1>5 DEF last
  <2>2. CASE i # N + 1
    <3>1. i \in 1 .. N /\ more[i] = rows[i] /\ more[i - 1] = rows[i - 1] BY <1>2, <2>2
    <3>2. QED BY <3>1, <1>3, <1>5
  <2>3. QED BY <2>1, <2>2
<1> HIDE DEF more
<1>8. ShownBy(page, longer, more) BY <1>2, <1>6, <1>7 DEF ShownBy
<1>9. FoldLeft(Shows, page, longer) = more[N + 1] BY <1>2, <1>8, ShownIs
<1>10. QED BY <1>1, <1>6, <1>9 DEF last, longer, N

LEMMA ShownFirst ==
  ASSUME NEW page \in Views, NEW frames \in Seq(Frames), frames # <<>>
  PROVE  FoldLeft(Shows, Shows(page, Head(frames)), Tail(frames)) = FoldLeft(Shows, page, frames)
<1> DEFINE N == Len(frames)
           rest == Tail(frames)
           next == Shows(page, Head(frames))
<1>1. PICK rows : ShownBy(page, frames, rows) /\ FoldLeft(Shows, page, frames) = rows[N]
  BY ShowsRows
<1> DEFINE fewer == [i \in 0 .. N - 1 |-> rows[i + 1]]
<1>2. N \in Nat \ {0} /\ rest \in Seq(Frames) /\ Len(rest) = N - 1 OBVIOUS
<1>3. /\ rows \in [0 .. N -> Views] /\ rows[0] = page
      /\ \A i \in 1 .. N : rows[i] = Shows(rows[i - 1], frames[i])
  BY <1>1 DEF ShownBy
<1>4. /\ frames[1] = Head(frames) /\ Head(frames) \in Frames
      /\ \A i \in 1 .. N - 1 : rest[i] = frames[i + 1]
  OBVIOUS
<1> HIDE DEF rest, N
<1>5. next \in Views BY <1>4, ShowsType
<1>6. rows[1] = next
  <2>1. 1 \in 1 .. N /\ 1 - 1 = 0 BY <1>2
  <2>2. QED BY <2>1, <1>3, <1>4
<1> HIDE DEF next
<1>7. fewer \in [0 .. N - 1 -> Views] /\ fewer[0] = next /\ fewer[N - 1] = rows[N]
  BY <1>2, <1>3, <1>6
<1>8. ASSUME NEW i \in 1 .. N - 1 PROVE fewer[i] = Shows(fewer[i - 1], rest[i])
  <2>1. fewer[i] = rows[i + 1] /\ fewer[i - 1] = rows[i] BY <1>2
  <2>2. i + 1 \in 1 .. N /\ (i + 1) - 1 = i BY <1>2
  <2>3. rows[i + 1] = Shows(rows[i], frames[i + 1]) BY <2>2, <1>3
  <2>4. QED BY <2>1, <2>3, <1>4
<1> HIDE DEF fewer
<1>9. ShownBy(next, rest, fewer) BY <1>2, <1>7, <1>8 DEF ShownBy
<1>10. FoldLeft(Shows, next, rest) = fewer[N - 1] BY <1>2, <1>5, <1>9, ShownIs
<1>11. QED BY <1>1, <1>7, <1>10 DEF next, rest, N

\* What is sent after what is under way.
LEMMA ShownThen ==
  ASSUME NEW page \in Views, NEW frames \in Seq(Frames), NEW out \in Seq(Frames)
  PROVE  /\ FoldLeft(Shows, page, frames) \in Views
         /\ FoldLeft(Shows, page, frames \o out)
              = FoldLeft(Shows, FoldLeft(Shows, page, frames), out)
<1> DEFINE N == Len(frames)
           M == Len(out)
           all == frames \o out
           mid == FoldLeft(Shows, page, frames)
<1>1. PICK rows : ShownBy(page, frames, rows) /\ mid = rows[N] BY ShowsRows
<1>2. /\ rows \in [0 .. N -> Views] /\ rows[0] = page
      /\ \A i \in 1 .. N : rows[i] = Shows(rows[i - 1], frames[i])
  BY <1>1 DEF ShownBy
<1>3. mid \in Views BY <1>1, ShownIs
<1>4. PICK then : ShownBy(mid, out, then) /\ FoldLeft(Shows, mid, out) = then[M]
  <2> HIDE DEF mid
  <2>1. QED BY <1>3, ShowsRows
<1>5. /\ then \in [0 .. M -> Views] /\ then[0] = mid
      /\ \A i \in 1 .. M : then[i] = Shows(then[i - 1], out[i])
  <2> HIDE DEF mid
  <2>1. QED BY <1>4 DEF ShownBy
<1>6. /\ N \in Nat /\ M \in Nat /\ all \in Seq(Frames) /\ Len(all) = N + M
      /\ \A i \in 1 .. N : all[i] = frames[i]
      /\ \A i \in N + 1 .. N + M : all[i] = out[i - N]
  <2> HIDE DEF mid
  <2>1. QED OBVIOUS
<1> DEFINE both == [i \in 0 .. N + M |-> IF i <= N THEN rows[i] ELSE then[i - N]]
<1> HIDE DEF N, M, all, mid
<1>7. both \in [0 .. N + M -> Views] /\ both[0] = page
  <2>1. ASSUME NEW i \in 0 .. N + M PROVE both[i] \in Views
    <3>1. CASE i <= N
      <4>1. i \in 0 .. N BY <3>1
      <4>2. QED BY <4>1, <3>1, <1>2
    <3>2. CASE i > N
      <4>1. i - N \in 0 .. M /\ ~ (i <= N) BY <3>2, <1>6
      <4>2. QED BY <4>1, <1>5
    <3>3. QED BY <3>1, <3>2, <1>6
  <2>2. both[0] = page BY <1>6, <1>2
  <2>3. QED BY <2>1, <2>2
<1>8. both[N + M] = then[M]
  <2>1. CASE M = 0 BY <2>1, <1>1, <1>5, <1>6
  <2>2. CASE M # 0 BY <2>2, <1>6
  <2>3. QED BY <2>1, <2>2
<1>9. ASSUME NEW i \in 1 .. N + M PROVE both[i] = Shows(both[i - 1], all[i])
  <2>1. CASE i <= N
    <3>1. i \in 1 .. N /\ both[i] = rows[i] /\ both[i - 1] = rows[i - 1] BY <2>1, <1>6
    <3>2. QED BY <3>1, <1>2, <1>6
  <2>2. CASE i > N
    <3>1. i - N \in 1 .. M /\ i \in N + 1 .. N + M BY <2>2, <1>6
    <3>2. both[i] = then[i - N] BY <2>2, <1>6
    <3>3. both[i - 1] = then[(i - N) - 1]
      <4>1. CASE i = N + 1
        <5>1. both[i - 1] = rows[N] /\ (i - N) - 1 = 0 BY <4>1, <1>6
        <5>2. QED BY <5>1, <1>1, <1>5
      <4>2. CASE i # N + 1
        <5>1. ~ (i - 1 <= N) /\ i - 1 \in 0 .. N + M /\ (i - 1) - N = (i - N) - 1
          BY <4>2, <2>2, <1>6
        <5>2. QED BY <5>1
      <4>3. QED BY <4>1, <4>2
    <3>4. then[i - N] = Shows(then[(i - N) - 1], out[i - N]) BY <3>1, <1>5
    <3>5. all[i] = out[i - N] BY <3>1, <1>6
    <3>6. QED BY <3>2, <3>3, <3>4, <3>5
  <2>3. QED BY <2>1, <2>2, <1>6
<1> HIDE DEF both
<1>10. ShownBy(page, all, both) BY <1>6, <1>7, <1>9 DEF ShownBy
<1>11. FoldLeft(Shows, page, all) = both[N + M] BY <1>6, <1>10, ShownIs
<1>12. QED BY <1>3, <1>4, <1>8, <1>11 DEF all, mid


-----------------------------------------------------------------------------
(* What a session sends while it is at work.                                  *)

AtWork == [count : Nat, path : Routes, conn : Ids \union {None}, out : Seq(Frames),
           failed : BOOLEAN]

\* What was sent takes a page that showed what s shows to what r shows.
Follows(s, r) ==
  \/ r.conn = None
  \/ /\ r.conn = s.conn
     /\ IF conns[s.conn].cut THEN r.out = <<>>
        ELSE ViewOf(r) = FoldLeft(Shows, ViewOf(s), r.out)

LEMMA ViewsOf ==
  ASSUME NEW s \in AtWork
  PROVE  ViewOf(s) \in Views /\ ViewOf(s) \in Frames
BY DEF AtWork, ViewOf, Frame, Views, Frames

\* A frame for a change, sent, dropped or lost.
LEMMA SendFollows ==
  ASSUME NEW s \in AtWork, NEW r \in AtWork, NEW q \in AtWork, NEW f \in Frames,
         NEW throws \in BOOLEAN, LinkedInv, Follows(s, r),
         q.conn = r.conn, q.out = r.out, ViewOf(q) = Shows(ViewOf(r), f)
  PROVE  /\ Send(q, f, throws) \in AtWork /\ ViewOf(Send(q, f, throws)) = ViewOf(q)
         /\ Follows(s, Send(q, f, throws))
<1> DEFINE n == Send(q, f, throws)
<1>1. q.conn = s.conn \/ q.conn = None BY DEF Follows
<1>2. CASE q.conn = None
  <2>1. n = q BY <1>2 DEF Send
  <2>2. QED BY <2>1, <1>2 DEF Follows
<1>3. CASE q.conn # None
  <2>1. q.conn = s.conn /\ q.conn \in Ids BY <1>1, <1>3 DEF AtWork
  <2>2. IF conns[s.conn].cut THEN r.out = <<>>
        ELSE ViewOf(r) = FoldLeft(Shows, ViewOf(s), r.out)
    BY <1>3 DEF Follows
  <2>3. CASE conns[q.conn].closed \/ (conns[q.conn].cut /\ throws)
    <3>1. n = [q EXCEPT !.conn = None] BY <2>3, <1>3 DEF Send
    <3>2. n \in AtWork /\ n.conn = None /\ ViewOf(n) = ViewOf(q)
      BY <3>1 DEF AtWork, ViewOf
    <3>3. QED BY <3>2 DEF Follows
  <2>4. CASE ~ (conns[q.conn].closed \/ (conns[q.conn].cut /\ throws)) /\ conns[q.conn].cut
    <3>1. n = q BY <2>4, <1>3 DEF Send
    <3>2. QED BY <3>1, <2>1, <2>2, <2>4 DEF Follows
  <2>5. CASE ~conns[q.conn].cut
    <3>1. ~conns[q.conn].closed BY <2>5, <2>1 DEF LinkedInv
    <3>2. n = [q EXCEPT !.out = Append(q.out, f)] BY <2>5, <3>1, <1>3 DEF Send
    <3>3. q.out \in Seq(Frames) BY DEF AtWork
    <3>4. Append(q.out, f) \in Seq(Frames) BY <3>3
    <3>5. /\ n \in AtWork /\ n.conn = s.conn /\ n.out = Append(r.out, f)
          /\ ViewOf(n) = ViewOf(q)
      BY <3>2, <3>4, <2>1 DEF AtWork, ViewOf
    <3>6. FoldLeft(Shows, ViewOf(s), Append(r.out, f))
            = Shows(FoldLeft(Shows, ViewOf(s), r.out), f)
      <4>1. ViewOf(s) \in Views BY ViewsOf
      <4>2. QED BY <3>3, <4>1, ShownLast
    <3>7. ViewOf(n) = FoldLeft(Shows, ViewOf(s), n.out)
      BY <3>5, <3>6, <2>1, <2>2, <2>5
    <3>8. QED BY <3>5, <3>7, <2>1, <2>5 DEF Follows
  <2>6. QED BY <2>3, <2>4, <2>5
<1>4. QED BY <1>2, <1>3

LEMMA SetPathFollows ==
  ASSUME NEW s \in AtWork, NEW r \in AtWork, NEW path \in Routes, NEW throws \in BOOLEAN,
         LinkedInv, Follows(s, r)
  PROVE  SetPath(r, path, throws) \in AtWork /\ Follows(s, SetPath(r, path, throws))
<1>1. CASE r.path = path BY <1>1 DEF SetPath
<1>2. CASE r.path # path
  <2> DEFINE q == [r EXCEPT !.path = path]
             f == Frame(None, path)
  <2>1. q \in AtWork /\ q.conn = r.conn /\ q.out = r.out BY DEF AtWork
  <2>2. f \in Frames BY DEF Frame, Frames
  <2>3. ViewOf(q) = Shows(ViewOf(r), f)
    BY SessionsAssumption DEF AtWork, ViewOf, Frame, Shows
  <2>4. SetPath(r, path, throws) = Send(q, f, throws) BY <1>2 DEF SetPath
  <2> HIDE DEF q, f
  <2>5. QED BY <2>1, <2>2, <2>3, <2>4, SendFollows
<1>3. QED BY <1>1, <1>2

LEMMA HandleFollows ==
  ASSUME NEW s \in AtWork, NEW r \in AtWork, NEW event \in Events, NEW throws \in BOOLEAN,
         LinkedInv, Follows(s, r)
  PROVE  Handle(r, event, throws) \in AtWork /\ Follows(s, Handle(r, event, throws))
<1>1. CASE r.failed BY <1>1 DEF Handle
<1>2. CASE ~r.failed /\ event = "tap"
  <2> DEFINE q == [r EXCEPT !.count = @ + 1]
             f == Frame(r.count + 1, None)
  <2>1. q \in AtWork /\ q.conn = r.conn /\ q.out = r.out BY DEF AtWork
  <2>2. f \in Frames BY DEF Frame, Frames, AtWork
  <2>3. ViewOf(q) = Shows(ViewOf(r), f)
    BY SessionsAssumption DEF AtWork, ViewOf, Frame, Shows
  <2>4. Handle(r, event, throws) = Send(q, f, throws) BY <1>2 DEF Handle
  <2> HIDE DEF q, f
  <2>5. QED BY <2>1, <2>2, <2>3, <2>4, SendFollows
<1>3. CASE ~r.failed /\ event = "fail"
  <2> DEFINE q == [r EXCEPT !.failed = TRUE]
  <2>1. Handle(r, event, throws) = q BY <1>3 DEF Handle
  <2>2. q \in AtWork /\ q.conn = r.conn /\ q.out = r.out /\ ViewOf(q) = ViewOf(r)
    BY DEF AtWork, ViewOf
  <2> HIDE DEF q
  <2>3. QED BY <2>1, <2>2 DEF Follows
<1>4. CASE ~r.failed /\ event # "tap" /\ event # "fail"
  <2>1. Handle(r, event, throws) = SetPath(r, event, throws) BY <1>4 DEF Handle
  <2>2. event \in Routes BY <1>4 DEF Events
  <2>3. QED BY <2>1, <2>2, SetPathFollows
<1>5. QED BY <1>1, <1>2, <1>3, <1>4

LEMMA HandleType ==
  ASSUME NEW r \in AtWork, NEW event \in Events, NEW throws \in BOOLEAN
  PROVE  Handle(r, event, throws) \in AtWork
<1>1. ASSUME NEW q \in AtWork, NEW f \in Frames PROVE Send(q, f, throws) \in AtWork
  <2>1. q.out \in Seq(Frames) BY DEF AtWork
  <2>2. Append(q.out, f) \in Seq(Frames) BY <2>1
  <2>3. [q EXCEPT !.out = Append(@, f)] \in AtWork BY <2>2 DEF AtWork
  <2>4. [q EXCEPT !.conn = None] \in AtWork BY DEF AtWork
  <2>5. QED BY <2>3, <2>4 DEF Send
<1>2. /\ Frame(r.count + 1, None) \in Frames
      /\ [r EXCEPT !.count = @ + 1] \in AtWork /\ [r EXCEPT !.failed = TRUE] \in AtWork
  <2>1. Frame(r.count + 1, None) \in Frames BY DEF Frame, Frames, AtWork
  <2>2. [r EXCEPT !.count = @ + 1] \in AtWork BY DEF AtWork
  <2>3. [r EXCEPT !.failed = TRUE] \in AtWork BY DEF AtWork
  <2>4. QED BY <2>1, <2>2, <2>3
<1>3. ASSUME NEW path \in Routes
      PROVE  Frame(None, path) \in Frames /\ [r EXCEPT !.path = path] \in AtWork
  BY DEF Frame, Frames, AtWork
<1>4. CASE event \in {"tap", "fail"} BY <1>1, <1>2, <1>4 DEF Handle
<1>5. CASE event \notin {"tap", "fail"}
  <2>1. event \in Routes BY <1>5 DEF Events
  <2>2. QED BY <1>1, <1>3, <1>5, <2>1 DEF Handle, SetPath
<1>6. QED BY <1>4, <1>5

\* A whole batch.
LEMMA DispatchFollows ==
  ASSUME NEW s \in AtWork, NEW batch \in Seq(Events), NEW throws \in BOOLEAN,
         LinkedInv, Follows(s, s)
  PROVE  Dispatch(s, batch, throws) \in AtWork /\ Follows(s, Dispatch(s, batch, throws))
<1> DEFINE N == Len(batch)
           F == [k \in 1 .. N |-> [r \in AtWork |-> Handle(r, batch[k], throws)]]
           Table(h) == h = [x \in SUBSET (1 .. N) |->
                              IF x = {} THEN s
                              ELSE Handle(h[x \ {Max(x)}], batch[Max(x)], throws)]
           h == CHOOSE h : Table(h)
           S == {n \in Nat : n <= N => h[1 .. n] \in AtWork /\ Follows(s, h[1 .. n])}
<1>0. N \in Nat OBVIOUS
<1>1. \E g : Table(g)
  <2>1. ASSUME NEW k \in 1 .. N, NEW r \in AtWork PROVE Handle(r, batch[k], throws) \in AtWork
    <3>1. batch[k] \in Events OBVIOUS
    <3>2. QED BY <3>1, HandleType
  <2>2. F \in [1 .. N -> [AtWork -> AtWork]] BY <2>1
  <2>3. PICK g \in [SUBSET (1 .. N) -> AtWork] : FoldTable(g, s, F, N)
    <3> HIDE DEF F, N
    <3>1. QED BY <1>0, <2>2, FoldTableExists
  <2>4. ASSUME NEW x \in SUBSET (1 .. N)
        PROVE  g[x] = IF x = {} THEN s ELSE Handle(g[x \ {Max(x)}], batch[Max(x)], throws)
    <3>1. g[x] = IF x = {} THEN s ELSE F[Max(x)][g[x \ {Max(x)}]]
      BY <2>3 DEF FoldTable
    <3>2. CASE x = {} BY <3>1, <3>2
    <3>3. CASE x # {}
      <4>1. Max(x) \in x BY <1>0, <3>3, MaxIs
      <4>2. Max(x) \in 1 .. N /\ g[x \ {Max(x)}] \in AtWork BY <4>1
      <4>3. QED BY <3>1, <3>3, <4>2
    <3>4. QED BY <3>2, <3>3
  <2>5. g = [x \in SUBSET (1 .. N) |-> g[x]] OBVIOUS
  <2>6. Table(g) BY <2>4, <2>5
  <2>7. QED BY <2>6
<1>2. Table(h) BY <1>1
<1>3. Dispatch(s, batch, throws) = h[1 .. N]
  <2>1. DOMAIN batch = 1 .. N OBVIOUS
  <2>2. QED BY <2>1 DEF Dispatch, FoldLeft, MapThenFoldSet
<1> HIDE DEF h, N
<1>4. h[1 .. 0] = s
  <2>1. 1 .. 0 = {} /\ {} \in SUBSET (1 .. N) OBVIOUS
  <2>2. QED BY <2>1, <1>2
<1>5. ASSUME NEW n \in 1 .. N PROVE h[1 .. n] = Handle(h[1 .. n - 1], batch[n], throws)
  <2>1. (1 .. n) \in SUBSET (1 .. N) /\ n \in Nat \ {0} BY <1>0
  <2>2. 1 .. n # {} /\ Max(1 .. n) = n /\ (1 .. n) \ {n} = 1 .. n - 1
    BY <2>1, LastOfRange
  <2>3. QED BY <2>1, <2>2, <1>2
<1>6. Nat \subseteq S
  <2>1. 0 \in S BY <1>4
  <2>2. ASSUME NEW m \in Nat, m \in S PROVE m + 1 \in S
    <3> SUFFICES ASSUME m + 1 <= N
                 PROVE  h[1 .. m + 1] \in AtWork /\ Follows(s, h[1 .. m + 1])
      OBVIOUS
    <3>1. m + 1 \in 1 .. N /\ (m + 1) - 1 = m BY <1>0
    <3>2. h[1 .. m] \in AtWork /\ Follows(s, h[1 .. m]) BY <2>2, <1>0
    <3>3. batch[m + 1] \in Events BY <3>1 DEF N
    <3>4. h[1 .. m + 1] = Handle(h[1 .. m], batch[m + 1], throws) BY <3>1, <1>5
    <3>5. QED BY <3>2, <3>3, <3>4, HandleFollows
  <2> HIDE DEF S
  <2>3. QED BY <2>1, <2>2, Inductive
<1>7. h[1 .. N] \in AtWork /\ Follows(s, h[1 .. N]) BY <1>0, <1>6
<1>8. QED BY <1>3, <1>7

-----------------------------------------------------------------------------
(* The actor keeps the invariant.                                             *)

LEMMA NoneApart ==
  /\ None \notin Nat /\ None \notin Routes /\ None \notin Views
  /\ SessionTypeOK => None \notin Ids
<1>1. None \notin Nat /\ None \notin Routes /\ None \notin Views
  BY SessionsAssumption DEF Views
<1>2. SessionTypeOK => Ids \subseteq Nat BY DEF SessionTypeOK, Ids
<1>3. QED BY <1>1, <1>2

LEMMA TaskTypes ==
  ASSUME SessionTypeOK, queue # <<>>
  PROVE  /\ Head(queue) = queue[1] /\ 1 \in DOMAIN queue /\ Head(queue) \in Tasks
         /\ Tail(queue) \in Seq(Tasks)
         /\ \A i \in DOMAIN Tail(queue) : i + 1 \in DOMAIN queue /\ Tail(queue)[i] = queue[i + 1]
         /\ Head(queue).kind = "environment" => Head(queue).data \in Routes
         /\ Head(queue).kind = "events" => Head(queue).data \in Seq(Events)
         /\ Head(queue).kind = "open" => Head(queue).conn \in Ids
<1>1. queue \in Seq(Tasks) BY DEF SessionTypeOK
<1>2. /\ Head(queue) = queue[1] /\ 1 \in DOMAIN queue /\ Head(queue) \in Tasks
      /\ Tail(queue) \in Seq(Tasks)
      /\ \A i \in DOMAIN Tail(queue) : i + 1 \in DOMAIN queue /\ Tail(queue)[i] = queue[i + 1]
  BY <1>1
<1>3. ASSUME NEW t \in Tasks
      PROVE  /\ t.kind = "environment" => t.data \in Routes
             /\ t.kind = "events" => t.data \in Seq(Events)
             /\ t.kind = "open" => t.conn \in Ids
  BY <1>3 DEF Tasks, Messages
<1>4. QED BY <1>2, <1>3

\* The page behind a connection that is not cut.
LEMMA PageBehind ==
  ASSUME SessionTypeOK, LinkedInv, NEW c \in Ids, ~conns[c].cut
  PROVE  /\ conns[c].tab \in Tabs /\ tabs[conns[c].tab].conn = c
         /\ tabs[conns[c].tab].page \in Views /\ conns[c].down \in Seq(Frames)
<1>1. conns[c].tab \in Tabs /\ tabs[conns[c].tab].conn = c BY DEF LinkedInv
<1>2. tabs[conns[c].tab].page # None BY <1>1, NoneApart DEF LinkedInv
<1>3. tabs[conns[c].tab].page \in Views BY <1>1, <1>2 DEF SessionTypeOK
<1>4. conns[c] \in Connections BY DEF SessionTypeOK, Ids
<1>5. QED BY <1>1, <1>3, <1>4 DEF Connections

\* A session found or made, before it is at work.
Found(s) ==
  /\ s \in AtWork /\ s.out = <<>>
  /\ s.conn = IF session # None THEN session.conn ELSE pending
  /\ session # None => ViewOf(s) = Frame(session.count, session.path)

LEMMA SessionFound ==
  ASSUME SessionTypeOK, NEW route \in Routes
  PROVE  Found(SessionFor(route)) /\ Follows(SessionFor(route), SessionFor(route))
<1> DEFINE s == SessionFor(route)
<1>1. Found(s)
  <2>1. <<>> \in Seq(Frames) OBVIOUS
  <2>2. CASE session # None
    <3>1. session \in [count : Nat, path : Routes, conn : Ids \union {None}]
      BY <2>2 DEF SessionTypeOK
    <3>2. s = [count |-> session.count, path |-> session.path, conn |-> session.conn,
               out |-> <<>>, failed |-> FALSE]
      BY <2>2 DEF SessionFor
    <3>3. QED BY <3>1, <3>2, <2>1, <2>2 DEF Found, AtWork, ViewOf
  <2>3. CASE session = None
    <3>1. s = [count |-> store, path |-> route, conn |-> pending, out |-> <<>>, failed |-> FALSE]
      BY <2>3 DEF SessionFor
    <3>2. store \in Nat /\ pending \in Ids \union {None} BY DEF SessionTypeOK
    <3>3. QED BY <3>1, <3>2, <2>1, <2>3 DEF Found, AtWork
  <2>4. QED BY <2>2, <2>3
<1> HIDE DEF s
<1>2. ViewOf(s) = FoldLeft(Shows, ViewOf(s), s.out)
  <2>1. ViewOf(s) \in Views /\ s.out = <<>> BY <1>1, ViewsOf DEF Found
  <2>2. QED BY <2>1, ShownNothing
<1>3. Follows(s, s) BY <1>1, <1>2 DEF Follows, Found
<1>4. QED BY <1>1, <1>3 DEF s

\* A snapshot.
LEMMA ResyncFollows ==
  ASSUME NEW s \in AtWork, s.out = <<>>, NEW throws \in BOOLEAN, LinkedInv, Follows(s, s)
  PROVE  /\ Resync(s, throws) \in AtWork /\ Follows(s, Resync(s, throws))
         /\ Resync(s, throws).conn # None /\ ~conns[s.conn].cut =>
              Resync(s, throws).out = <<ViewOf(Resync(s, throws))>>
<1> DEFINE r == Resync(s, throws)
<1>1. ViewOf(s) \in Views /\ ViewOf(s) \in Frames BY ViewsOf
<1>2. ViewOf(s) = Shows(ViewOf(s), ViewOf(s))
  BY <1>1, NoneApart DEF Views, Shows, Frame
<1>3. r = Send(s, ViewOf(s), throws) BY DEF Resync
<1>4. r \in AtWork /\ Follows(s, r) /\ ViewOf(r) = ViewOf(s)
  BY <1>1, <1>2, <1>3, SendFollows
<1>5. ASSUME r.conn # None, ~conns[s.conn].cut PROVE r.out = <<ViewOf(r)>>
  <2>1. r.conn = s.conn BY <1>4, <1>5 DEF Follows
  <2>2. s.conn \in Ids BY <2>1, <1>5 DEF AtWork
  <2>3. ~conns[s.conn].closed BY <2>2, <1>5 DEF LinkedInv
  <2>4. r = [s EXCEPT !.out = Append(s.out, ViewOf(s))]
    BY <2>1, <2>3, <1>3, <1>5 DEF Send
  <2>5. r.out = Append(<<>>, ViewOf(s)) BY <2>4 DEF AtWork
  <2>6. QED BY <2>5, <1>4
<1>6. QED BY <1>4, <1>5

\* A task done with a session keeps the invariant.
LEMMA WorkKeeps ==
  ASSUME DeltaInv, queue # <<>>, queue' = Tail(queue), UNCHANGED tabs,
         NEW s, Found(s), NEW r \in AtWork, Follows(s, r), NEW full \in BOOLEAN,
         full /\ r.conn # None /\ ~conns[s.conn].cut => r.out = <<ViewOf(r)>>,
         Work(s, r, full)
  PROVE  DeltaInv'
<1> DEFINE c == r.conn
<1>1. SessionTypeOK /\ LinkedInv /\ OpenInv /\ DeltasComplete BY DEF DeltaInv
<1>2. /\ s \in AtWork /\ s.out = <<>>
      /\ s.conn = IF session # None THEN session.conn ELSE pending
      /\ session # None => ViewOf(s) = Frame(session.count, session.path)
  BY DEF Found
<1>3. /\ session' = [count |-> r.count, path |-> r.path, conn |-> c]
      /\ conns' = IF c = None THEN conns
                  ELSE [conns EXCEPT ![c].down = @ \o r.out]
      /\ agreed' = IF c # None /\ ~conns[c].cut /\ (full \/ Agrees(c, ViewOf(s)))
                   THEN agreed \union {c} ELSE agreed
  BY DEF Work
<1>4. pending' = None BY <1>1 DEF Work, OpenInv
<1>5. c # None => /\ c = s.conn /\ c \in Ids
                  /\ IF conns[c].cut THEN r.out = <<>>
                     ELSE ViewOf(r) = FoldLeft(Shows, ViewOf(s), r.out)
  BY DEF Follows, AtWork
<1>6. r.out \in Seq(Frames) /\ r.count \in Nat /\ r.path \in Routes /\ c \in Ids \union {None}
  BY DEF AtWork
<1>7. conns \in Seq(Connections) BY <1>1 DEF SessionTypeOK
<1>8. c # None => conns[c] \in Connections /\ conns[c].down \o r.out \in Seq(Frames)
  <2> SUFFICES ASSUME c # None
               PROVE  conns[c] \in Connections /\ conns[c].down \o r.out \in Seq(Frames)
    OBVIOUS
  <2>1. conns[c] \in Connections BY <1>5, <1>7 DEF Ids
  <2>2. conns[c].down \in Seq(Frames) BY <2>1 DEF Connections
  <2>3. QED BY <2>1, <2>2, <1>6
<1> HIDE DEF c
<1>9. /\ conns' \in Seq(Connections) /\ Len(conns') = Len(conns) /\ Ids' = Ids
      /\ \A d \in Ids : /\ conns'[d].tab = conns[d].tab /\ conns'[d].cut = conns[d].cut
                        /\ conns'[d].closed = conns[d].closed
                        /\ conns'[d].down = IF d = c THEN conns[d].down \o r.out
                                                     ELSE conns[d].down
  <2>1. CASE c = None
    <3>1. c \notin Ids BY <2>1, <1>1, NoneApart
    <3>2. QED BY <3>1, <2>1, <1>3, <1>7 DEF Ids
  <2>2. CASE c # None
    <3> DEFINE new == [conns[c] EXCEPT !.down = conns[c].down \o r.out]
    <3>1. new \in Connections BY <2>2, <1>8 DEF Connections
    <3>2. /\ new.tab = conns[c].tab /\ new.cut = conns[c].cut /\ new.closed = conns[c].closed
          /\ new.down = conns[c].down \o r.out
      BY <2>2, <1>8 DEF Connections
    <3>3. conns' = [conns EXCEPT ![c] = new] BY <2>2, <1>3
    <3> HIDE DEF new
    <3>4. c \in DOMAIN conns BY <2>2, <1>5 DEF Ids
    <3>5. conns' \in Seq(Connections) /\ Len(conns') = Len(conns) /\ DOMAIN conns' = DOMAIN conns
      BY <3>1, <3>3, <3>4, <1>7
    <3>6. \A d \in DOMAIN conns : conns'[d] = IF d = c THEN new ELSE conns[d]
      BY <3>3, <3>4, <1>7
    <3>7. QED BY <3>2, <3>5, <3>6 DEF Ids
  <2>3. QED BY <2>1, <2>2
<1>10. /\ Tail(queue) \in Seq(Tasks)
       /\ \A i \in DOMAIN Tail(queue) : i + 1 \in DOMAIN queue /\ Tail(queue)[i] = queue[i + 1]
  BY <1>1, TaskTypes
<1>11. SessionTypeOK'
  <2>1. Tasks' = Tasks BY <1>9 DEF Tasks
  <2>2. queue' \in Seq(Tasks') BY <2>1, <1>10
  <2>3. session' \in [count : Nat, path : Routes, conn : Ids \union {None}] BY <1>3, <1>6
  <2>4. agreed' \in SUBSET Ids
    <3>1. agreed \in SUBSET Ids BY <1>1 DEF SessionTypeOK
    <3>2. QED BY <3>1, <1>3, <1>5
  <2>5. tabs' \in [Tabs -> [page : Views \union {None}, route : Routes,
                           conn : Ids \union {None}, open : BOOLEAN, attempt : Nat,
                           loading : Nat \union {None}]]
    BY <1>1 DEF SessionTypeOK
  <2>6. store' \in Nat
    <3>1. store \in Nat BY <1>1 DEF SessionTypeOK
    <3>2. store' = IF r.count = s.count THEN store ELSE r.count BY DEF Work
    <3>3. QED BY <3>1, <3>2, <1>6
  <2>7. QED BY <2>2, <2>3, <2>4, <2>5, <2>6, <1>3, <1>4, <1>6, <1>9 DEF SessionTypeOK
<1>12. LinkedInv'
  <2>1. ASSUME NEW t \in Tabs, tabs[t].conn # None
        PROVE  conns'[tabs[t].conn].closed \/ conns'[tabs[t].conn].tab = t
    <3>1. tabs[t].conn \in Ids BY <2>1, <1>1 DEF SessionTypeOK
    <3>2. QED BY <3>1, <2>1, <1>1, <1>9 DEF LinkedInv
  <2>2. ASSUME NEW d \in Ids, conns[d].cut PROVE conns'[d].down = <<>>
    <3>1. conns[d].down = <<>> BY <2>2, <1>1 DEF LinkedInv
    <3>2. CASE d # c BY <3>1, <3>2, <1>9
    <3>3. CASE d = c
      <4>1. r.out = <<>> BY <3>3, <2>2, <1>1, <1>5, NoneApart
      <4>2. <<>> \o <<>> = <<>> OBVIOUS
      <4>3. QED BY <3>1, <3>3, <4>1, <4>2, <1>9
    <3>4. QED BY <3>2, <3>3
  <2>3. QED BY <2>1, <2>2, <1>1, <1>9 DEF LinkedInv
<1>13. OpenInv'
  <2>1. ASSUME NEW d \in agreed' PROVE ~conns'[d].cut
    <3>1. d \in Ids /\ ~conns[d].cut
      <4>1. CASE d \in agreed BY <4>1, <1>1 DEF OpenInv, SessionTypeOK
      <4>2. CASE d \notin agreed BY <4>2, <2>1, <1>3, <1>5
      <4>3. QED BY <4>1, <4>2
    <3>2. QED BY <3>1, <1>9
  <2>2. None \notin agreed' BY <1>11, NoneApart, <1>1, <1>9 DEF SessionTypeOK
  <2>3. ASSUME NEW i \in DOMAIN queue', queue'[i].kind = "open"
        PROVE  /\ queue'[i].conn \notin agreed'
               /\ queue'[i].conn # None
               /\ session'.conn # queue'[i].conn
               /\ \A j \in DOMAIN queue' :
                    queue'[j].kind = "open" /\ queue'[j].conn = queue'[i].conn => j = i
    <3>1. i + 1 \in DOMAIN queue /\ queue'[i] = queue[i + 1] BY <1>10
    <3>2. queue[i + 1].conn \in Ids
      <4>1. queue[i + 1] \in Tasks BY <3>1, <1>1 DEF SessionTypeOK
      <4>2. \A t \in Tasks : t.kind = "open" => t.conn \in Ids BY DEF Tasks, Messages
      <4>3. QED BY <4>1, <4>2, <3>1, <2>3
    <3>3. queue'[i].conn # None BY <3>1, <3>2, <1>1, NoneApart
    <3>4. /\ queue[i + 1].conn \notin agreed /\ queue[i + 1].conn # pending
          /\ session # None => session.conn # queue[i + 1].conn
          /\ \A j \in DOMAIN queue :
               queue[j].kind = "open" /\ queue[j].conn = queue[i + 1].conn => j = i + 1
      BY <3>1, <2>3, <1>1 DEF OpenInv
    <3>5. queue[i + 1].conn # s.conn BY <3>4, <1>2
    <3>6. c # queue'[i].conn BY <3>1, <3>3, <3>5, <1>5
    <3>7. queue'[i].conn \notin agreed' BY <3>1, <3>4, <3>6, <1>3
    <3>8. session'.conn # queue'[i].conn BY <3>6, <1>3
    <3>9. ASSUME NEW j \in DOMAIN queue', queue'[j].kind = "open", queue'[j].conn = queue'[i].conn
          PROVE  j = i
      <4>1. j + 1 \in DOMAIN queue /\ queue'[j] = queue[j + 1] BY <1>10
      <4>2. j + 1 = i + 1 BY <4>1, <3>1, <3>4, <3>9
      <4>3. i \in Int /\ j \in Int BY <1>10
      <4>4. QED BY <4>2, <4>3
    <3>10. QED BY <3>3, <3>7, <3>8, <3>9
  <2>4. QED BY <2>1, <2>2, <2>3, <1>4 DEF OpenInv
<1>14. DeltasComplete'
  <2> SUFFICES ASSUME NEW d \in agreed', session'.conn = d
               PROVE  Arriving(d)' = Frame(session'.count, session'.path)
    BY DEF DeltasComplete
  <2>1. d = c /\ d \in Ids /\ c # None
    <3>1. d = c BY <1>3
    <3>2. d \in Ids BY <1>9, <1>11 DEF SessionTypeOK
    <3>3. QED BY <3>1, <3>2, <1>1, NoneApart
  <2>2. ~conns[d].cut
    <3>1. ~conns'[d].cut BY <1>13 DEF OpenInv
    <3>2. QED BY <3>1, <2>1, <1>9
  <2> DEFINE page == tabs[conns[d].tab].page
  <2>3. page \in Views /\ conns[d].down \in Seq(Frames) BY <2>1, <2>2, <1>1, PageBehind
  <2>4. /\ conns'[d].tab = conns[d].tab /\ conns'[d].down = conns[d].down \o r.out
    BY <2>1, <1>9
  <2>5. Arriving(d)' = FoldLeft(Shows, page, conns[d].down \o r.out) BY <2>4 DEF Arriving
  <2>6. Arriving(d) = FoldLeft(Shows, page, conns[d].down) BY DEF Arriving
  <2> HIDE DEF page
  <2>7. Arriving(d) \in Views /\ Arriving(d)' = FoldLeft(Shows, Arriving(d), r.out)
    BY <2>3, <2>5, <2>6, <1>6, ShownThen
  <2>8. ViewOf(r) = Frame(session'.count, session'.path) BY <1>3 DEF ViewOf
  <2>9. CASE full
    <3>1. r.out = <<ViewOf(r)>> BY <2>1, <2>2, <2>9, <1>5 DEF c
    <3>2. ViewOf(r) \in Views /\ ViewOf(r) \in Frames BY ViewsOf
    <3>3. <<>> \in Seq(Frames) /\ <<ViewOf(r)>> = Append(<<>>, ViewOf(r)) OBVIOUS
    <3>4. FoldLeft(Shows, Arriving(d), Append(<<>>, ViewOf(r)))
            = Shows(FoldLeft(Shows, Arriving(d), <<>>), ViewOf(r))
      BY <2>7, <3>2, <3>3, ShownLast
    <3>5. Shows(FoldLeft(Shows, Arriving(d), <<>>), ViewOf(r)) = ViewOf(r)
      BY <3>2, NoneApart DEF Shows, Frame, Views
    <3>6. QED BY <2>7, <2>8, <3>1, <3>3, <3>4, <3>5
  <2>10. CASE ~full
    <3>1. Arriving(d) = ViewOf(s)
      <4>1. CASE d \in agreed
        <5>1. session # None /\ session.conn = d
          BY <4>1, <2>1, <1>1, <1>2, <1>5 DEF OpenInv
        <5>2. QED BY <4>1, <5>1, <1>1, <1>2 DEF DeltasComplete
      <4>2. CASE d \notin agreed
        <5>1. Agrees(c, ViewOf(s)) BY <4>2, <2>10, <1>3
        <5>2. QED BY <5>1, <2>1 DEF Agrees
      <4>3. QED BY <4>1, <4>2
    <3>2. ViewOf(r) = FoldLeft(Shows, ViewOf(s), r.out) BY <2>1, <2>2, <1>5
    <3>3. QED BY <2>7, <2>8, <3>1, <3>2
  <2>11. QED BY <2>9, <2>10
<1>15. QED BY <1>11, <1>12, <1>13, <1>14 DEF DeltaInv

\* What a queue without its head still says of open tasks.
LEMMA FewerTasks ==
  ASSUME SessionTypeOK, queue # <<>>, queue' = Tail(queue), Ids' = Ids
  PROVE  /\ queue' \in Seq(Tasks')
         /\ \A i \in DOMAIN queue' : i + 1 \in DOMAIN queue /\ queue'[i] = queue[i + 1] /\ i \in Nat
<1>1. Tasks' = Tasks BY DEF Tasks
<1>2. QED BY <1>1, TaskTypes

\* A task that ends the session.
LEMMA EndKeeps ==
  ASSUME DeltaInv, queue # <<>>, queue' = Tail(queue), UNCHANGED tabs, CloseAll,
         \/ pending' = None
         \/ Head(queue).kind = "open" /\ pending' = Head(queue).conn
  PROVE  DeltaInv'
<1>1. SessionTypeOK /\ LinkedInv /\ OpenInv /\ DeltasComplete BY DEF DeltaInv
<1>2. session' = None /\ UNCHANGED <<conns, store, agreed>> BY DEF CloseAll
<1>3. Ids' = Ids BY <1>2 DEF Ids
<1>4. /\ queue' \in Seq(Tasks')
      /\ \A i \in DOMAIN queue' : i + 1 \in DOMAIN queue /\ queue'[i] = queue[i + 1] /\ i \in Nat
  BY <1>1, <1>3, FewerTasks
<1>5. /\ Head(queue) = queue[1] /\ 1 \in DOMAIN queue
      /\ Head(queue).kind = "open" => Head(queue).conn \in Ids
  BY <1>1, TaskTypes
<1>6. SessionTypeOK'
  BY <1>1, <1>2, <1>3, <1>4, <1>5 DEF SessionTypeOK
<1>7. LinkedInv' BY <1>1, <1>2, <1>3 DEF LinkedInv
<1>8. pending' \notin agreed'
  BY <1>1, <1>2, <1>5, NoneApart DEF OpenInv, SessionTypeOK
<1>9. ASSUME NEW i \in DOMAIN queue', queue'[i].kind = "open"
      PROVE  /\ queue'[i].conn \notin agreed' /\ queue'[i].conn # pending'
             /\ \A j \in DOMAIN queue' :
                  queue'[j].kind = "open" /\ queue'[j].conn = queue'[i].conn => j = i
  <2>1. i + 1 \in DOMAIN queue /\ queue'[i] = queue[i + 1] /\ i \in Nat BY <1>4
  <2>2. /\ queue[i + 1].conn \notin agreed
        /\ \A j \in DOMAIN queue :
             queue[j].kind = "open" /\ queue[j].conn = queue[i + 1].conn => j = i + 1
    BY <2>1, <1>1, <1>9 DEF OpenInv
  <2>3. queue'[i].conn # pending'
    <3>1. CASE pending' = None
      <4>1. queue[i + 1] \in Tasks BY <2>1, <1>1 DEF SessionTypeOK
      <4>2. \A t \in Tasks : t.kind = "open" => t.conn \in Ids BY DEF Tasks, Messages
      <4>3. QED BY <4>1, <4>2, <2>1, <1>1, <1>9, <3>1, NoneApart
    <3>2. CASE Head(queue).kind = "open" /\ pending' = Head(queue).conn
      <4>1. queue[1].conn = queue[i + 1].conn => 1 = i + 1 BY <2>2, <1>5, <3>2
      <4>2. QED BY <4>1, <2>1, <1>5, <3>2
    <3>3. QED BY <3>1, <3>2
  <2>4. ASSUME NEW j \in DOMAIN queue', queue'[j].kind = "open", queue'[j].conn = queue'[i].conn
        PROVE  j = i
    <3>1. j + 1 \in DOMAIN queue /\ queue'[j] = queue[j + 1] /\ j \in Nat BY <1>4
    <3>2. j + 1 = i + 1 BY <3>1, <2>1, <2>2, <2>4
    <3>3. QED BY <3>1, <3>2, <2>1
  <2>5. QED BY <2>1, <2>2, <2>3, <2>4, <1>2
<1>10. OpenInv' BY <1>1, <1>2, <1>8, <1>9 DEF OpenInv
<1>11. DeltasComplete' BY <1>2 DEF DeltasComplete
<1>12. QED BY <1>6, <1>7, <1>10, <1>11 DEF DeltaInv

LEMMA ActorKeeps ==
  ASSUME DeltaInv, Actor
  PROVE  DeltaInv'
<1>1. SessionTypeOK /\ LinkedInv BY DEF DeltaInv
<1> DEFINE task == Head(queue)
<1>2. queue # <<>> /\ queue' = Tail(queue) /\ UNCHANGED tabs BY DEF Actor
<1>3. /\ task.kind = "environment" => task.data \in Routes
      /\ task.kind = "events" => task.data \in Seq(Events)
  BY <1>1, <1>2, TaskTypes
<1>4. Home \in Routes BY SessionsAssumption
<1>5. OpenTask(task) \/ CloseTask(task) \/ EnvironmentTask(task) \/ EventsTask(task)
        \/ ResyncTask(task)
  BY DEF Actor
<1>6. CASE OpenTask(task) BY <1>2, <1>6, EndKeeps DEF OpenTask
<1>7. CASE CloseTask(task) BY <1>2, <1>7, EndKeeps DEF CloseTask, Close
<1>8. CASE EnvironmentTask(task)
  <2> DEFINE s == SessionFor(task.data)
  <2>1. PICK throws \in BOOLEAN : Work(s, SetPath(s, task.data, throws), FALSE)
    BY <1>8 DEF EnvironmentTask
  <2> DEFINE r == SetPath(s, task.data, throws)
  <2>2. task.data \in Routes BY <1>3, <1>8 DEF EnvironmentTask
  <2> HIDE DEF task
  <2>3. Found(s) /\ Follows(s, s) BY <1>1, <2>2, SessionFound
  <2>4. s \in AtWork BY <2>3 DEF Found
  <2> HIDE DEF s
  <2>5. r \in AtWork /\ Follows(s, r) BY <1>1, <2>2, <2>3, <2>4, SetPathFollows
  <2> HIDE DEF r
  <2>6. Work(s, r, FALSE) BY <2>1 DEF r
  <2>7. QED BY <1>2, <2>3, <2>5, <2>6, WorkKeeps
<1>9. CASE EventsTask(task)
  <2> DEFINE s == SessionFor(Home)
  <2>1. PICK throws \in BOOLEAN : Work(s, Dispatch(s, task.data, throws), FALSE)
    BY <1>9 DEF EventsTask
  <2> DEFINE r == Dispatch(s, task.data, throws)
  <2>2. task.data \in Seq(Events) BY <1>3, <1>9 DEF EventsTask
  <2> HIDE DEF task
  <2>3. Found(s) /\ Follows(s, s) BY <1>1, <1>4, SessionFound
  <2>4. s \in AtWork BY <2>3 DEF Found
  <2> HIDE DEF s
  <2>5. r \in AtWork /\ Follows(s, r) BY <1>1, <2>2, <2>3, <2>4, DispatchFollows
  <2> HIDE DEF r
  <2>6. Work(s, r, FALSE) BY <2>1 DEF r
  <2>7. QED BY <1>2, <2>3, <2>5, <2>6, WorkKeeps
<1>10. CASE ResyncTask(task)
  <2> DEFINE s == SessionFor(Home)
  <2>1. PICK throws \in BOOLEAN : Work(s, Resync(s, throws), TRUE)
    BY <1>10 DEF ResyncTask
  <2> DEFINE r == Resync(s, throws)
  <2> HIDE DEF task
  <2>3. Found(s) /\ Follows(s, s) BY <1>1, <1>4, SessionFound
  <2>4. s \in AtWork /\ s.out = <<>> BY <2>3 DEF Found
  <2> HIDE DEF s
  <2>5. /\ r \in AtWork /\ Follows(s, r)
        /\ r.conn # None /\ ~conns[s.conn].cut => r.out = <<ViewOf(r)>>
    BY <1>1, <2>3, <2>4, ResyncFollows
  <2> HIDE DEF r
  <2>6. Work(s, r, TRUE) BY <2>1 DEF r
  <2>7. QED BY <1>2, <2>3, <2>5, <2>6, WorkKeeps
<1>11. QED BY <1>5, <1>6, <1>7, <1>8, <1>9, <1>10

-----------------------------------------------------------------------------
(* So do the network, the adapters and the tabs.                              *)

\* A step that leaves the session alone, says nothing new of a connection and
\* queues no task to open a connection there already was.
LEMMA OthersKeep ==
  ASSUME DeltaInv, SessionTypeOK', LinkedInv', UNCHANGED <<session, pending>>,
         agreed' \in SUBSET agreed,
         \A c \in agreed' : ~conns'[c].cut /\ Arriving(c)' = Arriving(c),
         \/ queue' = queue
         \/ \E task \in Tasks' : /\ queue' = Append(queue, task)
                                 /\ task.kind = "open" => task.conn \notin Ids
  PROVE  DeltaInv'
<1>1. SessionTypeOK /\ LinkedInv /\ OpenInv /\ DeltasComplete BY DEF DeltaInv
<1>2. queue \in Seq(Tasks) BY <1>1 DEF SessionTypeOK
<1>3. agreed \in SUBSET Ids /\ pending \in Ids \union {None}
      /\ (session # None => session.conn \in Ids \union {None})
  BY <1>1 DEF SessionTypeOK
<1>4. pending' \notin agreed' BY <1>1 DEF OpenInv
<1>5. ASSUME NEW i \in DOMAIN queue', queue'[i].kind = "open"
      PROVE  /\ queue'[i].conn \notin agreed' /\ queue'[i].conn # pending'
             /\ session' # None => session'.conn # queue'[i].conn
             /\ \A j \in DOMAIN queue' :
                  queue'[j].kind = "open" /\ queue'[j].conn = queue'[i].conn => j = i
  <2>1. CASE queue' = queue BY <2>1, <1>1, <1>5 DEF OpenInv
  <2>2. CASE queue' # queue
    <3>1. PICK task \in Tasks' : /\ queue' = Append(queue, task)
                                 /\ task.kind = "open" => task.conn \notin Ids
      BY <2>2
    <3>2. /\ DOMAIN queue = 1 .. Len(queue) /\ Len(queue) \in Nat
          /\ DOMAIN queue' = 1 .. Len(queue) + 1 /\ queue'[Len(queue) + 1] = task
          /\ \A j \in DOMAIN queue : queue'[j] = queue[j]
      BY <3>1, <1>2
    <3>3. ASSUME NEW j \in DOMAIN queue, queue[j].kind = "open" PROVE queue[j].conn \in Ids
      <4>1. queue[j] \in Tasks BY <1>2
      <4>2. QED BY <4>1, <3>3 DEF Tasks, Messages
    <3>4. task.kind = "open" => task.conn \in Ids' BY <3>1 DEF Tasks, Messages
    <3>5. task.kind = "open" => task.conn # None
      <4>1. None \notin Ids' BY SessionsAssumption DEF SessionTypeOK, Ids
      <4>2. QED BY <4>1, <3>4
    <3>6. CASE i \in DOMAIN queue
      <4>1. /\ queue[i].conn \notin agreed /\ queue[i].conn # pending
            /\ session # None => session.conn # queue[i].conn
            /\ \A j \in DOMAIN queue :
                 queue[j].kind = "open" /\ queue[j].conn = queue[i].conn => j = i
        BY <3>2, <3>6, <1>1, <1>5 DEF OpenInv
      <4>2. queue[i].conn \in Ids BY <3>2, <3>3, <3>6, <1>5
      <4>3. queue'[i] = queue[i] BY <3>2, <3>6
      <4>4. ASSUME NEW j \in DOMAIN queue', queue'[j].kind = "open",
                   queue'[j].conn = queue'[i].conn
            PROVE  j = i
        <5>1. CASE j \in DOMAIN queue
          <6>1. queue'[j] = queue[j] BY <5>1, <3>2
          <6>2. QED BY <6>1, <5>1, <4>1, <4>3, <4>4
        <5>2. CASE j \notin DOMAIN queue
          <6>1. queue'[j] = task BY <5>2, <3>2
          <6>2. QED BY <6>1, <4>2, <4>3, <4>4, <3>1
        <5>3. QED BY <5>1, <5>2
      <4>5. QED BY <4>1, <4>3, <4>4
    <3>7. CASE i = Len(queue) + 1
      <4>1. task.conn \notin Ids /\ task.conn # None BY <3>1, <3>2, <3>5, <3>7, <1>5
      <4>2. QED BY <4>1, <3>2, <3>3, <3>7, <1>3
    <3>8. QED BY <3>2, <3>6, <3>7
  <2>3. QED BY <2>1, <2>2
<1>6. OpenInv' BY <1>1, <1>4, <1>5 DEF OpenInv
<1>7. DeltasComplete' BY <1>1 DEF DeltasComplete
<1>8. QED BY <1>6, <1>7 DEF DeltaInv

\* One connection changed.
LEMMA OneConnection ==
  ASSUME SessionTypeOK, NEW c \in Ids, NEW new \in Connections, conns' = [conns EXCEPT ![c] = new]
  PROVE  /\ conns' \in Seq(Connections) /\ Ids' = Ids /\ Tasks' = Tasks
         /\ \A d \in Ids : conns'[d] = IF d = c THEN new ELSE conns[d]
<1>1. conns \in Seq(Connections) /\ c \in DOMAIN conns BY DEF SessionTypeOK, Ids
<1>2. conns' \in Seq(Connections) /\ DOMAIN conns' = DOMAIN conns BY <1>1
<1>3. \A d \in Ids : conns'[d] = IF d = c THEN new ELSE conns[d] BY <1>1 DEF Ids
<1>4. QED BY <1>2, <1>3 DEF Ids, Tasks

LEMMA ReceiveKeeps ==
  ASSUME DeltaInv, NEW c \in Ids, Receive(c)
  PROVE  DeltaInv'
<1>1. SessionTypeOK /\ LinkedInv BY DEF DeltaInv
<1> DEFINE new == [conns[c] EXCEPT !.up = Tail(conns[c].up)]
<1>2. conns[c] \in Connections BY <1>1 DEF SessionTypeOK, Ids
<1>3. conns[c].up \in Seq(Messages) /\ conns[c].up # <<>> BY <1>2 DEF Connections, Receive
<1>4. Head(conns[c].up) \in Messages /\ Tail(conns[c].up) \in Seq(Messages) BY <1>3
<1>5. /\ new \in Connections /\ new.tab = conns[c].tab /\ new.down = conns[c].down
      /\ new.cut = conns[c].cut /\ new.closed = conns[c].closed
  BY <1>2, <1>4 DEF Connections
<1>6. conns' = [conns EXCEPT ![c] = new] BY DEF Receive
<1> HIDE DEF new
<1>7. /\ conns' \in Seq(Connections) /\ Ids' = Ids /\ Tasks' = Tasks
      /\ \A d \in Ids : conns'[d] = IF d = c THEN new ELSE conns[d]
  BY <1>1, <1>5, <1>6, OneConnection
<1>8. queue' = Append(queue, Head(conns[c].up)) /\ Head(conns[c].up) \in Tasks'
      /\ Head(conns[c].up).kind # "open"
  <2>1. \A m \in Messages : m \in Tasks /\ m.kind # "open" BY DEF Tasks, Messages
  <2>2. QED BY <2>1, <1>4, <1>7 DEF Receive
<1>9. SessionTypeOK'
  <2>1. queue' \in Seq(Tasks') BY <1>1, <1>7, <1>8 DEF SessionTypeOK
  <2>2. QED BY <2>1, <1>1, <1>7 DEF SessionTypeOK, Receive
<1>10. LinkedInv'
  <2>1. \A t \in Tabs : tabs[t].conn # None => tabs[t].conn \in Ids BY <1>1 DEF SessionTypeOK
  <2>2. QED BY <2>1, <1>1, <1>5, <1>7 DEF LinkedInv, Receive
<1>11. ASSUME NEW d \in agreed' PROVE ~conns'[d].cut /\ Arriving(d)' = Arriving(d)
  <2>1. d \in agreed /\ d \in Ids /\ UNCHANGED tabs
    BY <1>1, <1>11 DEF Receive, SessionTypeOK
  <2>2. ~conns[d].cut BY <2>1 DEF DeltaInv, OpenInv
  <2>3. conns'[d].tab = conns[d].tab /\ conns'[d].down = conns[d].down
        /\ conns'[d].cut = conns[d].cut
    BY <2>1, <1>5, <1>7
  <2>4. QED BY <2>1, <2>2, <2>3 DEF Arriving
<1>12. UNCHANGED <<session, pending, agreed>> BY DEF Receive
<1>13. QED BY <1>8, <1>9, <1>10, <1>11, <1>12, OthersKeep

LEMMA NoticesKeeps ==
  ASSUME DeltaInv, NEW c \in Ids, ServerNotices(c)
  PROVE  DeltaInv'
<1>1. SessionTypeOK /\ LinkedInv BY DEF DeltaInv
<1>2. /\ Over \in Connections /\ Over.cut /\ Over.closed /\ Over.down = <<>>
  BY DEF Over, Connections
<1>3. conns' = [conns EXCEPT ![c] = Over] /\ UNCHANGED <<tabs, session, pending, store, agreed>>
      /\ conns[c].cut
  BY DEF ServerNotices
<1>4. /\ conns' \in Seq(Connections) /\ Ids' = Ids /\ Tasks' = Tasks
      /\ \A d \in Ids : conns'[d] = IF d = c THEN Over ELSE conns[d]
  BY <1>1, <1>2, <1>3, OneConnection
<1>5. /\ queue' = Append(queue, Task("close", None, None))
      /\ Task("close", None, None) \in Tasks' /\ Task("close", None, None).kind # "open"
  BY <1>4 DEF ServerNotices, Task, Tasks
<1>6. SessionTypeOK'
  <2>1. queue' \in Seq(Tasks') BY <1>1, <1>4, <1>5 DEF SessionTypeOK
  <2>2. QED BY <2>1, <1>1, <1>3, <1>4 DEF SessionTypeOK
<1>7. LinkedInv'
  <2>1. \A t \in Tabs : tabs[t].conn # None => tabs[t].conn \in Ids BY <1>1 DEF SessionTypeOK
  <2>2. QED BY <2>1, <1>1, <1>2, <1>3, <1>4 DEF LinkedInv
<1>8. ASSUME NEW d \in agreed' PROVE ~conns'[d].cut /\ Arriving(d)' = Arriving(d)
  <2>1. d \in agreed /\ d \in Ids BY <1>1, <1>3, <1>8 DEF SessionTypeOK
  <2>2. ~conns[d].cut BY <2>1 DEF DeltaInv, OpenInv
  <2>3. conns'[d] = conns[d] BY <2>1, <2>2, <1>3, <1>4
  <2>4. QED BY <2>2, <2>3, <1>3 DEF Arriving
<1>9. \E task \in Tasks' : queue' = Append(queue, task) /\ (task.kind = "open" => task.conn \notin Ids)
  BY <1>5
<1>10. QED BY <1>3, <1>6, <1>7, <1>8, <1>9, OthersKeep

\* A connection cut.
LEMMA CutConnection ==
  ASSUME NEW conn \in Connections
  PROVE  /\ Cut(conn) \in Connections /\ Cut(conn).cut /\ Cut(conn).down = <<>>
         /\ Cut(conn).tab = conn.tab /\ Cut(conn).closed = conn.closed
<1>1. <<>> \in Seq(Frames) OBVIOUS
<1>2. Cut(conn) \in Connections BY <1>1 DEF Cut, Connections
<1>3. Cut(conn).cut BY DEF Cut, Connections
<1>4. Cut(conn).down = <<>> BY DEF Cut, Connections
<1>5. Cut(conn).tab = conn.tab /\ Cut(conn).closed = conn.closed BY DEF Cut, Connections
<1>6. QED BY <1>2, <1>3, <1>4, <1>5

LEMMA DropKeeps ==
  ASSUME DeltaInv, NEW c \in Ids, Drop(c)
  PROVE  DeltaInv'
<1>1. SessionTypeOK /\ LinkedInv BY DEF DeltaInv
<1> DEFINE new == Cut(conns[c])
<1>2. conns[c] \in Connections BY <1>1 DEF SessionTypeOK, Ids
<1>3. /\ new \in Connections /\ new.cut /\ new.down = <<>>
      /\ new.tab = conns[c].tab /\ new.closed = conns[c].closed
  BY <1>2, CutConnection
<1>4. conns' = [conns EXCEPT ![c] = new]
      /\ UNCHANGED <<tabs, queue, session, pending, store>> /\ agreed' = agreed \ {c}
  BY DEF Drop
<1> HIDE DEF new
<1>5. /\ conns' \in Seq(Connections) /\ Ids' = Ids /\ Tasks' = Tasks
      /\ \A d \in Ids : conns'[d] = IF d = c THEN new ELSE conns[d]
  BY <1>1, <1>3, <1>4, OneConnection
<1>6. SessionTypeOK' BY <1>1, <1>4, <1>5 DEF SessionTypeOK
<1>7. LinkedInv'
  <2>1. \A t \in Tabs : tabs[t].conn # None => tabs[t].conn \in Ids BY <1>1 DEF SessionTypeOK
  <2>2. QED BY <2>1, <1>1, <1>3, <1>4, <1>5 DEF LinkedInv
<1>8. ASSUME NEW d \in agreed' PROVE ~conns'[d].cut /\ Arriving(d)' = Arriving(d)
  <2>1. d \in agreed /\ d \in Ids /\ d # c BY <1>1, <1>4, <1>8 DEF SessionTypeOK
  <2>2. ~conns[d].cut BY <2>1 DEF DeltaInv, OpenInv
  <2>3. conns'[d] = conns[d] BY <2>1, <1>5
  <2>4. QED BY <2>2, <2>3, <1>4 DEF Arriving
<1>9. QED BY <1>4, <1>6, <1>7, <1>8, OthersKeep

Pages == [page : Views \union {None}, route : Routes, conn : Ids \union {None},
          open : BOOLEAN, attempt : Nat, loading : Nat \union {None}]

\* One tab changed, and no connection.
LEMMA OneTabChanged ==
  ASSUME SessionTypeOK, NEW t \in Tabs, NEW new \in Pages, tabs' = [tabs EXCEPT ![t] = new]
  PROVE  /\ tabs' \in [Tabs -> Pages]
         /\ \A u \in Tabs : tabs'[u] = IF u = t THEN new ELSE tabs[u]
         /\ tabs[t] \in Pages
BY DEF SessionTypeOK, Pages

LEMMA LoadKeeps ==
  ASSUME DeltaInv, NEW t \in Tabs, Load(t)
  PROVE  DeltaInv'
<1>1. SessionTypeOK /\ LinkedInv /\ OpenInv BY DEF DeltaInv
<1> DEFINE new == [tabs[t] EXCEPT !.loading = store]
<1>2. tabs[t] = Idle /\ tabs[t] \in Pages /\ store \in Nat
  BY <1>1 DEF Load, SessionTypeOK, Pages
<1>3. /\ new \in Pages /\ new.page = None /\ new.conn = None /\ ~new.open
  <2>1. new \in Pages BY <1>2 DEF Pages
  <2>2. new.page = None /\ new.conn = None BY <1>2 DEF Idle
  <2>3. ~new.open BY <1>2 DEF Idle
  <2>4. QED BY <2>1, <2>2, <2>3
<1>4. tabs' = [tabs EXCEPT ![t] = new]
      /\ UNCHANGED <<conns, queue, session, pending, store, agreed>>
  BY DEF Load
<1> HIDE DEF new
<1>5. /\ tabs' \in [Tabs -> Pages]
      /\ \A u \in Tabs : tabs'[u] = IF u = t THEN new ELSE tabs[u]
  BY <1>1, <1>3, <1>4, OneTabChanged
<1>6. Ids' = Ids /\ Tasks' = Tasks BY <1>4 DEF Ids, Tasks
<1>7. SessionTypeOK' BY <1>1, <1>4, <1>5, <1>6 DEF SessionTypeOK, Pages
<1>8. ASSUME NEW c \in Ids, ~conns[c].cut
      PROVE  conns[c].tab \in Tabs /\ conns[c].tab # t
  BY <1>1, <1>2, <1>8, NoneApart DEF LinkedInv, Idle
<1>9. LinkedInv' BY <1>1, <1>3, <1>4, <1>5, <1>6, <1>8 DEF LinkedInv
<1>10. ASSUME NEW d \in agreed' PROVE ~conns'[d].cut /\ Arriving(d)' = Arriving(d)
  <2>1. d \in Ids /\ ~conns[d].cut BY <1>1, <1>4, <1>10 DEF SessionTypeOK, OpenInv
  <2>2. tabs'[conns[d].tab] = tabs[conns[d].tab] BY <2>1, <1>5, <1>8
  <2>3. QED BY <2>1, <2>2, <1>4 DEF Arriving
<1>11. QED BY <1>4, <1>7, <1>9, <1>10, OthersKeep

LEMMA RenderedKeeps ==
  ASSUME DeltaInv, NEW t \in Tabs, Rendered(t)
  PROVE  DeltaInv'
<1>1. SessionTypeOK /\ LinkedInv /\ OpenInv BY DEF DeltaInv
<1> DEFINE new == [tabs[t] EXCEPT !.page = Frame(tabs[t].loading, Landing), !.loading = None]
<1>2. /\ tabs[t] \in Pages /\ tabs[t].loading \in Nat /\ tabs[t].conn = None /\ ~tabs[t].open
  <2>1. tabs[t] \in Pages BY <1>1 DEF SessionTypeOK, Pages
  <2>2. tabs[t].loading \in Nat BY <2>1 DEF Rendered, Pages
  <2>3. tabs[t].page = None BY <1>1 DEF Rendered, LinkedInv
  <2>4. QED BY <2>1, <2>2, <2>3, <1>1 DEF LinkedInv
<1>3. /\ new \in Pages /\ new.page # None /\ new.conn = None /\ ~new.open /\ new.loading = None
  <2>1. Frame(tabs[t].loading, Landing) \in Views
    BY <1>2, SessionsAssumption DEF Frame, Views
  <2>2. QED BY <2>1, <1>2, NoneApart DEF Pages
<1>4. tabs' = [tabs EXCEPT ![t] = new] /\ store' = tabs[t].loading
      /\ UNCHANGED <<conns, queue, session, pending, agreed>>
  BY DEF Rendered
<1> HIDE DEF new
<1>5. /\ tabs' \in [Tabs -> Pages]
      /\ \A u \in Tabs : tabs'[u] = IF u = t THEN new ELSE tabs[u]
  BY <1>1, <1>3, <1>4, OneTabChanged
<1>6. Ids' = Ids /\ Tasks' = Tasks BY <1>4 DEF Ids, Tasks
<1>7. SessionTypeOK' BY <1>1, <1>2, <1>4, <1>5, <1>6 DEF SessionTypeOK, Pages
<1>8. ASSUME NEW c \in Ids, ~conns[c].cut
      PROVE  conns[c].tab \in Tabs /\ conns[c].tab # t
  BY <1>1, <1>2, <1>8, NoneApart DEF LinkedInv
<1>9. LinkedInv' BY <1>1, <1>3, <1>4, <1>5, <1>6, <1>8 DEF LinkedInv
<1>10. ASSUME NEW d \in agreed' PROVE ~conns'[d].cut /\ Arriving(d)' = Arriving(d)
  <2>1. d \in Ids /\ ~conns[d].cut BY <1>1, <1>4, <1>10 DEF SessionTypeOK, OpenInv
  <2>2. tabs'[conns[d].tab] = tabs[conns[d].tab] BY <2>1, <1>5, <1>8
  <2>3. QED BY <2>1, <2>2, <1>4 DEF Arriving
<1>11. QED BY <1>4, <1>7, <1>9, <1>10, OthersKeep

LEMMA OnCloseKeeps ==
  ASSUME DeltaInv, NEW t \in Tabs, OnClose(t)
  PROVE  DeltaInv'
<1>1. SessionTypeOK /\ LinkedInv /\ OpenInv BY DEF DeltaInv
<1> DEFINE new == Retried(t)
<1>2. tabs[t] \in Pages /\ tabs[t].conn # None /\ conns[tabs[t].conn].cut
  BY <1>1 DEF OnClose, SessionTypeOK, Pages
<1>3. /\ new \in Pages /\ new.page = tabs[t].page /\ new.loading = tabs[t].loading
      /\ new.conn = None /\ ~new.open
  <2>1. tabs[t].attempt + 1 \in Nat BY <1>2 DEF Pages
  <2>2. new \in Pages BY <2>1, <1>2 DEF Retried, Pages
  <2>3. new.page = tabs[t].page /\ new.loading = tabs[t].loading BY <1>2 DEF Retried, Pages
  <2>4. new.conn = None BY <1>2 DEF Retried, Pages
  <2>5. ~new.open BY <1>2 DEF Retried, Pages
  <2>6. QED BY <2>2, <2>3, <2>4, <2>5
<1>4. tabs' = [tabs EXCEPT ![t] = new]
      /\ UNCHANGED <<conns, queue, session, pending, store, agreed>>
  BY DEF OnClose
<1> HIDE DEF new
<1>5. /\ tabs' \in [Tabs -> Pages]
      /\ \A u \in Tabs : tabs'[u] = IF u = t THEN new ELSE tabs[u]
  BY <1>1, <1>3, <1>4, OneTabChanged
<1>6. Ids' = Ids /\ Tasks' = Tasks BY <1>4 DEF Ids, Tasks
<1>7. SessionTypeOK' BY <1>1, <1>4, <1>5, <1>6 DEF SessionTypeOK, Pages
<1>8. ASSUME NEW c \in Ids, ~conns[c].cut
      PROVE  conns[c].tab \in Tabs /\ conns[c].tab # t
  BY <1>1, <1>2, <1>8, NoneApart DEF LinkedInv
<1>9. LinkedInv' BY <1>1, <1>3, <1>4, <1>5, <1>6, <1>8 DEF LinkedInv
<1>10. ASSUME NEW d \in agreed' PROVE ~conns'[d].cut /\ Arriving(d)' = Arriving(d)
  <2>1. d \in Ids /\ ~conns[d].cut BY <1>1, <1>4, <1>10 DEF SessionTypeOK, OpenInv
  <2>2. tabs'[conns[d].tab] = tabs[conns[d].tab] BY <2>1, <1>5, <1>8
  <2>3. QED BY <2>1, <2>2, <1>4 DEF Arriving
<1>11. QED BY <1>4, <1>7, <1>9, <1>10, OthersKeep

LEMMA LeaveKeeps ==
  ASSUME DeltaInv, NEW t \in Tabs, Leave(t)
  PROVE  DeltaInv'
<1>1. SessionTypeOK /\ LinkedInv /\ OpenInv BY DEF DeltaInv
<1> DEFINE c == tabs[t].conn
<1>2. tabs[t] \in Pages /\ tabs[t].page # None /\ c \in Ids \union {None}
  BY <1>1 DEF Leave, SessionTypeOK, Pages
<1>3. Idle \in Pages /\ Idle.page = None /\ Idle.conn = None /\ ~Idle.open
  BY SessionsAssumption DEF Idle, Pages
<1>4. /\ tabs' = [tabs EXCEPT ![t] = Idle]
      /\ conns' = IF c = None \/ conns[c].closed THEN conns
                  ELSE [conns EXCEPT ![c] = Cut(@)]
      /\ agreed' = agreed \ {c}
      /\ UNCHANGED <<queue, session, pending, store>>
  BY DEF Leave
<1> HIDE DEF c
<1>5. /\ tabs' \in [Tabs -> Pages]
      /\ \A u \in Tabs : tabs'[u] = IF u = t THEN Idle ELSE tabs[u]
  BY <1>1, <1>3, <1>4, OneTabChanged
<1>6. /\ conns' \in Seq(Connections) /\ Ids' = Ids /\ Tasks' = Tasks
      /\ \A d \in Ids : /\ conns'[d].tab = conns[d].tab /\ conns'[d].closed = conns[d].closed
                        /\ d # c => conns'[d] = conns[d]
                        /\ d = c => conns'[d].cut /\ conns'[d].down = <<>>
  <2>1. CASE c = None \/ conns[c].closed
    <3>1. conns' = conns BY <2>1, <1>4
    <3>2. \A d \in Ids : d = c => conns[d].cut /\ conns[d].down = <<>>
      BY <2>1, <1>1, NoneApart DEF LinkedInv
    <3>3. QED BY <3>1, <3>2, <1>1 DEF SessionTypeOK, Ids, Tasks
  <2>2. CASE ~ (c = None \/ conns[c].closed)
    <3> DEFINE new == Cut(conns[c])
    <3>1. c \in Ids BY <2>2, <1>2
    <3>2. conns[c] \in Connections BY <3>1, <1>1 DEF SessionTypeOK, Ids
    <3>3. /\ new \in Connections /\ new.cut /\ new.down = <<>>
          /\ new.tab = conns[c].tab /\ new.closed = conns[c].closed
      BY <3>2, CutConnection
    <3>4. conns' = [conns EXCEPT ![c] = new] BY <2>2, <1>4
    <3> HIDE DEF new
    <3>5. /\ conns' \in Seq(Connections) /\ Ids' = Ids /\ Tasks' = Tasks
          /\ \A d \in Ids : conns'[d] = IF d = c THEN new ELSE conns[d]
      BY <1>1, <3>1, <3>3, <3>4, OneConnection
    <3>6. QED BY <3>3, <3>5
  <2>3. QED BY <2>1, <2>2
<1>7. SessionTypeOK' BY <1>1, <1>4, <1>5, <1>6 DEF SessionTypeOK, Pages
<1>8. ASSUME NEW d \in Ids, ~conns'[d].cut
      PROVE  /\ conns'[d] = conns[d] /\ conns[d].tab \in Tabs /\ conns[d].tab # t
             /\ tabs[conns[d].tab].conn = d
  BY <1>1, <1>6, <1>8 DEF LinkedInv, c
<1>9. LinkedInv'
  <2>1. ASSUME NEW u \in Tabs, u # t
        PROVE  /\ tabs'[u] = tabs[u]
               /\ tabs[u].open => tabs[u].conn # None
               /\ tabs[u].loading # None => tabs[u].page = None
               /\ tabs[u].conn # None =>
                    /\ tabs[u].page # None
                    /\ conns'[tabs[u].conn].closed \/ conns'[tabs[u].conn].tab = u
    <3>1. tabs[u].conn # None => tabs[u].conn \in Ids BY <1>1 DEF SessionTypeOK
    <3>2. QED BY <3>1, <2>1, <1>1, <1>5, <1>6 DEF LinkedInv
  <2>2. ASSUME NEW d \in Ids
        PROVE  /\ conns'[d].closed => conns'[d].cut
               /\ conns'[d].cut => conns'[d].down = <<>>
               /\ ~conns'[d].cut => conns'[d].tab \in Tabs /\ tabs'[conns'[d].tab].conn = d
    <3>1. conns'[d].closed => conns'[d].cut BY <1>1, <1>6 DEF LinkedInv
    <3>2. conns'[d].cut => conns'[d].down = <<>> BY <1>1, <1>6 DEF LinkedInv
    <3>3. ~conns'[d].cut => conns'[d].tab \in Tabs /\ tabs'[conns'[d].tab].conn = d
      BY <1>5, <1>8
    <3>4. QED BY <3>1, <3>2, <3>3
  <2>3. tabs'[t] = Idle BY <1>5
  <2>4. ASSUME NEW u \in Tabs
        PROVE  /\ tabs'[u].open => tabs'[u].conn # None
               /\ tabs'[u].loading # None => tabs'[u].page = None
               /\ tabs'[u].conn # None =>
                    /\ tabs'[u].page # None
                    /\ conns'[tabs'[u].conn].closed \/ conns'[tabs'[u].conn].tab = u
    <3>1. CASE u = t BY <3>1, <2>3, <1>3
    <3>2. CASE u # t BY <3>2, <2>1
    <3>3. QED BY <3>1, <3>2
  <2>5. QED BY <2>2, <2>4, <1>6 DEF LinkedInv
<1>10. ASSUME NEW d \in agreed' PROVE ~conns'[d].cut /\ Arriving(d)' = Arriving(d)
  <2>1. d \in Ids /\ ~conns[d].cut /\ d # c BY <1>1, <1>4, <1>10 DEF SessionTypeOK, OpenInv
  <2>2. ~conns'[d].cut /\ conns'[d] = conns[d] BY <2>1, <1>6
  <2>3. tabs'[conns[d].tab] = tabs[conns[d].tab] BY <2>1, <2>2, <1>5, <1>8
  <2>4. QED BY <2>2, <2>3 DEF Arriving
<1>11. agreed' \in SUBSET agreed BY <1>4
<1>12. QED BY <1>4, <1>7, <1>9, <1>10, <1>11, OthersKeep

LEMMA OnMessageKeeps ==
  ASSUME DeltaInv, NEW t \in Tabs, OnMessage(t)
  PROVE  DeltaInv'
<1>1. SessionTypeOK /\ LinkedInv /\ OpenInv BY DEF DeltaInv
<1> DEFINE c == tabs[t].conn
           frame == Head(conns[c].down)
           fewer == Tail(conns[c].down)
           new == [conns[c] EXCEPT !.down = fewer]
           shown == [tabs[t] EXCEPT !.page = Shows(@, frame),
                                    !.route = IF frame.path = None THEN @ ELSE frame.path]
<1>2. tabs[t] \in Pages /\ tabs[t].open /\ c \in Ids
  <2>1. tabs[t] \in Pages /\ tabs[t].open BY <1>1 DEF OnMessage, SessionTypeOK, Pages
  <2>2. c # None BY <2>1, <1>1 DEF LinkedInv
  <2>3. QED BY <2>1, <2>2 DEF Pages
<1>3. conns[c].down # <<>> BY DEF OnMessage
<1>4. ~conns[c].cut /\ conns[c].tab = t
  BY <1>1, <1>2, <1>3, NoneApart DEF LinkedInv
<1>5. conns[c] \in Connections /\ conns[c].down \in Seq(Frames) /\ tabs[t].page \in Views
  <2>1. conns[c] \in Connections BY <1>1, <1>2 DEF SessionTypeOK, Ids
  <2>2. QED BY <2>1, <1>1, <1>2, <1>4, PageBehind
<1>6. frame \in Frames /\ fewer \in Seq(Frames) BY <1>3, <1>5
<1>7. /\ new \in Connections /\ new.tab = conns[c].tab /\ new.cut = conns[c].cut
      /\ new.closed = conns[c].closed /\ new.down = fewer
  <2> HIDE DEF fewer, c
  <2>1. new \in Connections BY <1>5, <1>6 DEF Connections
  <2>2. new.tab = conns[c].tab /\ new.cut = conns[c].cut BY <1>5 DEF Connections
  <2>3. new.closed = conns[c].closed /\ new.down = fewer BY <1>5 DEF Connections
  <2>4. QED BY <2>1, <2>2, <2>3
<1>8. /\ shown \in Pages /\ shown.page = Shows(tabs[t].page, frame) /\ shown.page # None
      /\ shown.conn = c /\ shown.loading = tabs[t].loading
  <2>1. Shows(tabs[t].page, frame) \in Views BY <1>5, <1>6, ShowsType
  <2>2. frame.path \in Routes \union {None} BY <1>6 DEF Frames
  <2> HIDE DEF frame
  <2>3. shown \in Pages BY <2>1, <2>2, <1>2 DEF Pages
  <2>4. shown.page = Shows(tabs[t].page, frame) BY <1>2 DEF Pages
  <2>5. shown.conn = c /\ shown.loading = tabs[t].loading BY <1>2 DEF Pages
  <2>6. QED BY <2>1, <2>3, <2>4, <2>5, NoneApart
<1>9. /\ tabs' = [tabs EXCEPT ![t] = shown]
      /\ conns' = [conns EXCEPT ![c] = new]
      /\ UNCHANGED <<queue, session, pending, store, agreed>>
  <2>1. tabs' = [tabs EXCEPT ![t].page = Shows(@, frame),
                             ![t].route = IF frame.path = None THEN @ ELSE frame.path]
    BY DEF OnMessage
  <2>2. tabs' = [tabs EXCEPT ![t] = shown] BY <2>1, <1>1, <1>2 DEF SessionTypeOK, Pages
  <2>3. QED BY <2>2 DEF OnMessage
<1> HIDE DEF new, shown
<1>10. /\ conns' \in Seq(Connections) /\ Ids' = Ids /\ Tasks' = Tasks
       /\ \A d \in Ids : conns'[d] = IF d = c THEN new ELSE conns[d]
  <2> HIDE DEF c
  <2>1. QED BY <1>1, <1>2, <1>7, <1>9, OneConnection
<1>11. /\ tabs' \in [Tabs -> Pages]
       /\ \A u \in Tabs : tabs'[u] = IF u = t THEN shown ELSE tabs[u]
  BY <1>1, <1>8, <1>9, OneTabChanged
<1>12. SessionTypeOK' BY <1>1, <1>9, <1>10, <1>11 DEF SessionTypeOK, Pages
<1>13. /\ \A u \in Tabs : /\ tabs'[u].conn = tabs[u].conn
                          /\ tabs'[u].loading = tabs[u].loading
                          /\ tabs[u].page # None => tabs'[u].page # None
                          /\ u # t => tabs'[u] = tabs[u]
       /\ tabs[t].loading = None
  <2>1. tabs[t].page # None BY <1>5, NoneApart
  <2>2. tabs[t].loading = None BY <2>1, <1>1 DEF LinkedInv
  <2>3. QED BY <2>2, <1>8, <1>11
<1> HIDE DEF c, fewer, frame
<1>14. LinkedInv'
  <2>1. ASSUME NEW u \in Tabs
        PROVE  /\ tabs'[u].open => tabs'[u].conn # None
               /\ tabs'[u].loading # None => tabs'[u].page = None
               /\ tabs'[u].conn # None =>
                    /\ tabs'[u].page # None
                    /\ conns'[tabs'[u].conn].closed \/ conns'[tabs'[u].conn].tab = u
    <3>1. CASE u = t
      <4>1. tabs'[t] = shown /\ c = tabs[t].conn /\ c # None
        BY <1>1, <1>2, <1>11, NoneApart DEF c
      <4>2. conns'[c].tab = t BY <1>2, <1>4, <1>7, <1>10
      <4>3. QED BY <3>1, <4>1, <4>2, <1>8, <1>13
    <3>2. CASE u # t
      <4>1. tabs'[u] = tabs[u] BY <3>2, <1>13
      <4>2. tabs[u].conn # None => tabs[u].conn \in Ids BY <1>1 DEF SessionTypeOK
      <4>3. QED BY <4>1, <4>2, <1>1, <1>7, <1>10 DEF LinkedInv
    <3>3. QED BY <3>1, <3>2
  <2>2. ASSUME NEW d \in Ids
        PROVE  /\ conns'[d].closed => conns'[d].cut
               /\ conns'[d].cut => conns'[d].down = <<>>
               /\ ~conns'[d].cut => conns'[d].tab \in Tabs /\ tabs'[conns'[d].tab].conn = d
    BY <1>1, <1>4, <1>7, <1>10, <1>13 DEF LinkedInv
  <2>3. QED BY <2>1, <2>2, <1>10 DEF LinkedInv
<1>15. ASSUME NEW d \in agreed' PROVE ~conns'[d].cut /\ Arriving(d)' = Arriving(d)
  <2>1. d \in Ids /\ ~conns[d].cut BY <1>1, <1>9, <1>15 DEF SessionTypeOK, OpenInv
  <2>2. CASE d = c
    <3>1. conns'[d].tab = t /\ conns'[d].down = fewer /\ ~conns'[d].cut
      BY <2>1, <2>2, <1>4, <1>7, <1>10
    <3>2. tabs'[t].page = Shows(tabs[t].page, frame) BY <1>8, <1>11
    <3>3. Arriving(d)' = FoldLeft(Shows, Shows(tabs[t].page, frame), fewer)
      BY <3>1, <3>2 DEF Arriving
    <3>4. Arriving(d) = FoldLeft(Shows, tabs[t].page, conns[c].down)
      BY <2>2, <1>4 DEF Arriving
    <3>5. FoldLeft(Shows, Shows(tabs[t].page, frame), fewer)
            = FoldLeft(Shows, tabs[t].page, conns[c].down)
      BY <1>3, <1>5, ShownFirst DEF frame, fewer
    <3>6. QED BY <3>1, <3>3, <3>4, <3>5
  <2>3. CASE d # c
    <3>1. conns'[d] = conns[d] BY <2>1, <2>3, <1>10
    <3>2. conns[d].tab \in Tabs /\ tabs[conns[d].tab].conn = d BY <2>1, <1>1 DEF LinkedInv
    <3>3. conns[d].tab # t BY <3>2, <2>3 DEF c
    <3>4. tabs'[conns[d].tab] = tabs[conns[d].tab] BY <3>2, <3>3, <1>13
    <3>5. QED BY <2>1, <3>1, <3>4 DEF Arriving
  <2>4. QED BY <2>2, <2>3
<1>16. QED BY <1>9, <1>12, <1>14, <1>15, OthersKeep

LEMMA ConnectKeeps ==
  ASSUME DeltaInv, NEW t \in Tabs, Connect(t)
  PROVE  DeltaInv'
<1>1. SessionTypeOK /\ LinkedInv /\ OpenInv BY DEF DeltaInv
<1> DEFINE c == Len(conns) + 1
           new == [tab |-> t, up |-> <<>>, down |-> <<>>, cut |-> FALSE, closed |-> FALSE]
           linked == [tabs[t] EXCEPT !.conn = c]
<1>2. tabs[t] \in Pages /\ tabs[t].page # None /\ tabs[t].conn = None
  BY <1>1 DEF Connect, SessionTypeOK, Pages
<1>3. conns \in Seq(Connections) BY <1>1 DEF SessionTypeOK
<1>4. /\ new \in Connections /\ new.tab = t /\ new.down = <<>> /\ ~new.cut /\ ~new.closed
  <2>1. <<>> \in Seq(Frames) /\ <<>> \in Seq(Messages) OBVIOUS
  <2>2. QED BY <2>1 DEF Connections
<1>5. /\ conns' = Append(conns, new) /\ tabs' = [tabs EXCEPT ![t] = linked]
      /\ queue' = Append(queue, Task("open", c, None))
      /\ UNCHANGED <<session, pending, store, agreed>>
  <2>1. tabs' = [tabs EXCEPT ![t].conn = c] BY DEF Connect
  <2>2. tabs' = [tabs EXCEPT ![t] = linked] BY <2>1
  <2>3. QED BY <2>2 DEF Connect
<1> HIDE DEF new
<1>6. /\ conns' \in Seq(Connections) /\ Ids' = Ids \union {c} /\ c \notin Ids
      /\ conns'[c] = new /\ c \in Nat
      /\ \A d \in Ids : conns'[d] = conns[d]
  BY <1>3, <1>4, <1>5 DEF Ids
<1>7. Tasks \subseteq Tasks' BY <1>6 DEF Tasks
<1>8. Task("open", c, None) \in Tasks' BY <1>6 DEF Task, Tasks
<1> HIDE DEF c
<1>9. /\ linked \in Pages' /\ linked.page = tabs[t].page /\ linked.conn = c
      /\ linked.loading = tabs[t].loading
  <2>1. linked \in Pages' BY <1>2, <1>6 DEF Pages
  <2>2. QED BY <2>1, <1>2 DEF Pages
<1> HIDE DEF linked
<1>10. /\ tabs' \in [Tabs -> Pages']
       /\ \A u \in Tabs : tabs'[u] = IF u = t THEN linked ELSE tabs[u]
  <2>1. tabs \in [Tabs -> Pages] BY <1>1 DEF SessionTypeOK, Pages
  <2>2. Pages \subseteq Pages' BY <1>6 DEF Pages
  <2>3. QED BY <2>1, <2>2, <1>5, <1>9
<1>11. SessionTypeOK'
  <2>1. queue' \in Seq(Tasks')
    <3>1. queue \in Seq(Tasks) BY <1>1 DEF SessionTypeOK
    <3>2. queue \in Seq(Tasks') BY <3>1, <1>7
    <3>3. QED BY <3>2, <1>5, <1>8
  <2>2. session' \in {None} \union [count : Nat, path : Routes, conn : Ids' \union {None}]
    <3>1. session \in {None} \union [count : Nat, path : Routes, conn : Ids \union {None}]
      BY <1>1 DEF SessionTypeOK
    <3>2. [count : Nat, path : Routes, conn : Ids \union {None}]
            \subseteq [count : Nat, path : Routes, conn : Ids' \union {None}]
      BY <1>6
    <3>3. QED BY <3>1, <3>2, <1>5
  <2>3. pending' \in Ids' \union {None} /\ agreed' \in SUBSET Ids' /\ store' \in Nat
    BY <1>1, <1>5, <1>6 DEF SessionTypeOK
  <2>4. QED BY <2>1, <2>2, <2>3, <1>6, <1>10 DEF SessionTypeOK, Pages
<1>12. c # None BY <1>6, NoneApart
<1>13. LinkedInv'
  <2>1. ASSUME NEW u \in Tabs
        PROVE  /\ tabs'[u].open => tabs'[u].conn # None
               /\ tabs'[u].loading # None => tabs'[u].page = None
               /\ tabs'[u].conn # None =>
                    /\ tabs'[u].page # None
                    /\ conns'[tabs'[u].conn].closed \/ conns'[tabs'[u].conn].tab = u
    <3>1. CASE u = t
      <4>1. tabs'[u] = linked BY <3>1, <1>10
      <4>2. linked.loading # None => linked.page = None BY <1>1, <1>9 DEF LinkedInv
      <4>3. QED BY <3>1, <4>1, <4>2, <1>2, <1>4, <1>6, <1>9, <1>12
    <3>2. CASE u # t
      <4>1. tabs'[u] = tabs[u] BY <3>2, <1>10
      <4>2. tabs[u].conn # None => tabs[u].conn \in Ids BY <1>1 DEF SessionTypeOK
      <4>3. QED BY <4>1, <4>2, <1>1, <1>6 DEF LinkedInv
    <3>3. QED BY <3>1, <3>2
  <2>2. ASSUME NEW d \in Ids'
        PROVE  /\ conns'[d].closed => conns'[d].cut
               /\ conns'[d].cut => conns'[d].down = <<>>
               /\ ~conns'[d].cut => conns'[d].tab \in Tabs /\ tabs'[conns'[d].tab].conn = d
    <3>1. CASE d = c BY <3>1, <1>4, <1>6, <1>9, <1>10
    <3>2. CASE d # c
      <4>1. d \in Ids /\ conns'[d] = conns[d] BY <3>2, <1>6
      <4>2. ~conns[d].cut => conns[d].tab \in Tabs /\ conns[d].tab # t
        BY <4>1, <1>1, <1>2, NoneApart DEF LinkedInv
      <4>3. QED BY <4>1, <4>2, <1>1, <1>10 DEF LinkedInv
    <3>3. QED BY <3>1, <3>2
  <2>3. QED BY <2>1, <2>2 DEF LinkedInv
<1>14. ASSUME NEW d \in agreed' PROVE ~conns'[d].cut /\ Arriving(d)' = Arriving(d)
  <2>1. d \in Ids /\ ~conns[d].cut BY <1>1, <1>5, <1>14 DEF SessionTypeOK, OpenInv
  <2>2. conns'[d] = conns[d] BY <2>1, <1>6
  <2>3. conns[d].tab \in Tabs /\ conns[d].tab # t
    BY <2>1, <1>1, <1>2, NoneApart DEF LinkedInv
  <2>4. tabs'[conns[d].tab].page = tabs[conns[d].tab].page BY <2>3, <1>10
  <2>5. QED BY <2>1, <2>2, <2>4 DEF Arriving
<1>15. \E task \in Tasks' : queue' = Append(queue, task) /\ (task.kind = "open" => task.conn \notin Ids)
  <2>1. Task("open", c, None).conn = c BY DEF Task
  <2>2. QED BY <2>1, <1>5, <1>6, <1>8
<1>16. QED BY <1>5, <1>11, <1>13, <1>14, <1>15, OthersKeep

LEMMA OnOpenKeeps ==
  ASSUME DeltaInv, NEW t \in Tabs, OnOpen(t)
  PROVE  DeltaInv'
<1>1. SessionTypeOK /\ LinkedInv /\ OpenInv BY DEF DeltaInv
<1> DEFINE c == tabs[t].conn
           up == <<Task("environment", None, tabs[t].route)>>
                   \o IF tabs[t].attempt > 0 THEN <<Task("resync", None, None)>> ELSE <<>>
           new == [conns[c] EXCEPT !.up = up]
           opened == [tabs[t] EXCEPT !.open = TRUE, !.attempt = 0]
<1>2. tabs[t] \in Pages /\ c # None /\ c \in Ids
  BY <1>1 DEF OnOpen, SessionTypeOK, Pages
<1>3. up \in Seq(Messages)
  <2>1. Task("environment", None, tabs[t].route) \in Messages
    BY <1>2 DEF Task, Messages, Pages
  <2>2. Task("resync", None, None) \in Messages BY DEF Task, Messages
  <2>3. QED BY <2>1, <2>2
<1>4. conns[c] \in Connections BY <1>1, <1>2 DEF SessionTypeOK, Ids
<1>5. /\ tabs' = [tabs EXCEPT ![t] = opened] /\ conns' = [conns EXCEPT ![c] = new]
      /\ UNCHANGED <<queue, session, pending, store, agreed>>
  <2>1. tabs' = [tabs EXCEPT ![t].open = TRUE, ![t].attempt = 0] BY DEF OnOpen
  <2>2. tabs' = [tabs EXCEPT ![t] = opened] BY <2>1, <1>1 DEF SessionTypeOK
  <2>3. QED BY <2>2 DEF OnOpen
<1> HIDE DEF up
<1>6. /\ new \in Connections /\ new.tab = conns[c].tab /\ new.down = conns[c].down
      /\ new.cut = conns[c].cut /\ new.closed = conns[c].closed
  BY <1>3, <1>4 DEF Connections
<1>7. /\ opened \in Pages /\ opened.page = tabs[t].page /\ opened.conn = c
      /\ opened.loading = tabs[t].loading
  BY <1>2 DEF Pages
<1> HIDE DEF new, opened
<1>8. /\ tabs' \in [Tabs -> Pages]
      /\ \A u \in Tabs : tabs'[u] = IF u = t THEN opened ELSE tabs[u]
  BY <1>1, <1>5, <1>7, OneTabChanged
<1> HIDE DEF c
<1>9. /\ conns' \in Seq(Connections) /\ Ids' = Ids /\ Tasks' = Tasks
      /\ \A d \in Ids : conns'[d] = IF d = c THEN new ELSE conns[d]
  BY <1>1, <1>2, <1>5, <1>6, OneConnection
<1>10. SessionTypeOK' BY <1>1, <1>5, <1>8, <1>9 DEF SessionTypeOK, Pages
<1>11. /\ \A d \in Ids : /\ conns'[d].tab = conns[d].tab /\ conns'[d].down = conns[d].down
                         /\ conns'[d].cut = conns[d].cut /\ conns'[d].closed = conns[d].closed
       /\ \A u \in Tabs : /\ tabs'[u].page = tabs[u].page /\ tabs'[u].conn = tabs[u].conn
                          /\ tabs'[u].loading = tabs[u].loading
                          /\ tabs'[u].open => tabs[u].conn # None
  BY <1>1, <1>2, <1>6, <1>7, <1>8, <1>9 DEF c, LinkedInv
<1>12. LinkedInv'
  <2>1. \A u \in Tabs : tabs[u].conn # None => tabs[u].conn \in Ids BY <1>1 DEF SessionTypeOK
  <2>2. QED BY <2>1, <1>1, <1>9, <1>11 DEF LinkedInv
<1>13. ASSUME NEW d \in agreed' PROVE ~conns'[d].cut /\ Arriving(d)' = Arriving(d)
  <2>1. d \in Ids /\ ~conns[d].cut BY <1>1, <1>5, <1>13 DEF SessionTypeOK, OpenInv
  <2>2. conns[d].tab \in Tabs BY <2>1, <1>1 DEF LinkedInv
  <2>3. QED BY <2>1, <2>2, <1>11 DEF Arriving
<1>14. QED BY <1>5, <1>10, <1>12, <1>13, OthersKeep

\* A batch sent, or not.
LEMMA SentKeeps ==
  ASSUME DeltaInv, NEW t \in Tabs, NEW batch \in Seq(Events), Sent(t, batch),
         NEW route \in Routes, tabs' = [tabs EXCEPT ![t].route = route],
         UNCHANGED <<queue, session, pending, store, agreed>>
  PROVE  DeltaInv'
<1>1. SessionTypeOK /\ LinkedInv /\ OpenInv BY DEF DeltaInv
<1> DEFINE c == tabs[t].conn
           up == Append(conns[c].up, Task("events", None, batch))
           new == [conns[c] EXCEPT !.up = up]
           moved == [tabs[t] EXCEPT !.route = route]
<1>2. tabs[t] \in Pages BY <1>1 DEF SessionTypeOK, Pages
<1>3. /\ conns' \in Seq(Connections) /\ Ids' = Ids /\ Tasks' = Tasks
      /\ \A d \in Ids : /\ conns'[d].tab = conns[d].tab /\ conns'[d].down = conns[d].down
                        /\ conns'[d].cut = conns[d].cut /\ conns'[d].closed = conns[d].closed
  <2>1. CASE ~tabs[t].open \/ conns[c].closed
    BY <2>1, <1>1 DEF Sent, SessionTypeOK, Ids, Tasks
  <2>2. CASE ~ (~tabs[t].open \/ conns[c].closed)
    <3>1. c \in Ids BY <2>2, <1>1, <1>2 DEF LinkedInv, Pages
    <3>2. conns[c] \in Connections BY <3>1, <1>1 DEF SessionTypeOK, Ids
    <3>3. up \in Seq(Messages)
      <4>1. Task("events", None, batch) \in Messages BY DEF Task, Messages
      <4>2. conns[c].up \in Seq(Messages) BY <3>2 DEF Connections
      <4>3. QED BY <4>1, <4>2
    <3>4. conns' = [conns EXCEPT ![c] = new] BY <2>2 DEF Sent
    <3> HIDE DEF up
    <3>5. /\ new \in Connections /\ new.tab = conns[c].tab /\ new.down = conns[c].down
          /\ new.cut = conns[c].cut /\ new.closed = conns[c].closed
      BY <3>2, <3>3 DEF Connections
    <3> HIDE DEF new, c
    <3>6. /\ conns' \in Seq(Connections) /\ Ids' = Ids /\ Tasks' = Tasks
          /\ \A d \in Ids : conns'[d] = IF d = c THEN new ELSE conns[d]
      BY <1>1, <3>1, <3>4, <3>5, OneConnection
    <3>7. QED BY <3>5, <3>6
  <2>3. QED BY <2>1, <2>2
<1>4. /\ moved \in Pages /\ moved.page = tabs[t].page /\ moved.conn = tabs[t].conn
      /\ moved.loading = tabs[t].loading /\ moved.open = tabs[t].open
  BY <1>2 DEF Pages
<1>5. tabs' = [tabs EXCEPT ![t] = moved] BY <1>1 DEF SessionTypeOK
<1> HIDE DEF moved
<1>6. /\ tabs' \in [Tabs -> Pages]
      /\ \A u \in Tabs : tabs'[u] = IF u = t THEN moved ELSE tabs[u]
  BY <1>1, <1>4, <1>5, OneTabChanged
<1>7. SessionTypeOK' BY <1>1, <1>3, <1>6 DEF SessionTypeOK, Pages
<1>8. \A u \in Tabs : /\ tabs'[u].page = tabs[u].page /\ tabs'[u].conn = tabs[u].conn
                      /\ tabs'[u].loading = tabs[u].loading /\ tabs'[u].open = tabs[u].open
  BY <1>4, <1>6
<1>9. LinkedInv'
  <2>1. \A u \in Tabs : tabs[u].conn # None => tabs[u].conn \in Ids BY <1>1 DEF SessionTypeOK
  <2>2. QED BY <2>1, <1>1, <1>3, <1>8 DEF LinkedInv
<1>10. ASSUME NEW d \in agreed' PROVE ~conns'[d].cut /\ Arriving(d)' = Arriving(d)
  <2>1. d \in Ids /\ ~conns[d].cut BY <1>1, <1>10 DEF SessionTypeOK, OpenInv
  <2>2. conns[d].tab \in Tabs BY <2>1, <1>1 DEF LinkedInv
  <2>3. QED BY <2>1, <2>2, <1>3, <1>8 DEF Arriving
<1>11. QED BY <1>7, <1>9, <1>10, OthersKeep

LEMMA TapKeeps ==
  ASSUME DeltaInv, NEW t \in Tabs, NEW batch \in {<<"tap">>, <<"fail", "tap">>}, Tap(t, batch)
  PROVE  DeltaInv'
<1>1. batch \in Seq(Events)
  <2>1. "tap" \in Events /\ "fail" \in Events BY DEF Events
  <2>2. <<"tap">> \in Seq(Events) /\ <<"fail", "tap">> \in Seq(Events) BY <2>1
  <2>3. CASE batch = <<"tap">> BY <2>2, <2>3
  <2>4. CASE batch = <<"fail", "tap">> BY <2>2, <2>4
  <2>5. QED BY <2>3, <2>4
<1>2. tabs \in [Tabs -> Pages] BY DEF DeltaInv, SessionTypeOK, Pages
<1>3. tabs[t].route \in Routes /\ tabs = [tabs EXCEPT ![t].route = tabs[t].route]
  <2>1. tabs[t] \in Pages BY <1>2
  <2>2. tabs[t] = [tabs[t] EXCEPT !.route = tabs[t].route] /\ tabs[t].route \in Routes
    BY <2>1 DEF Pages
  <2>3. QED BY <2>2, <1>2
<1>4. tabs' = [tabs EXCEPT ![t].route = tabs[t].route] BY <1>3 DEF Tap
<1>5. QED BY <1>1, <1>3, <1>4, SentKeeps DEF Tap

LEMMA MoveKeeps ==
  ASSUME DeltaInv, NEW t \in Tabs, NEW route \in Routes, Move(t, route)
  PROVE  DeltaInv'
<1>1. <<route>> \in Seq(Events)
  <2>1. route \in Events BY DEF Events
  <2>2. QED BY <2>1
<1>2. QED BY <1>1, SentKeeps DEF Move

\* Every step keeps the invariant.
LEMMA DeltaStep == DeltaInv /\ [SessionNext]_sessionVars => DeltaInv'
<1> SUFFICES ASSUME DeltaInv, [SessionNext]_sessionVars PROVE DeltaInv' OBVIOUS
<1>1. CASE Actor BY <1>1, ActorKeeps
<1>2. ASSUME NEW c \in DOMAIN conns, Receive(c) \/ ServerNotices(c) \/ Drop(c) PROVE DeltaInv'
  <2>1. c \in Ids BY DEF Ids
  <2>2. QED BY <2>1, <1>2, ReceiveKeeps, NoticesKeeps, DropKeeps
<1>3. ASSUME NEW t \in Tabs, NEW route \in Routes, Move(t, route) PROVE DeltaInv'
  BY <1>3, MoveKeeps
<1>4. ASSUME NEW t \in Tabs, Load(t) \/ Rendered(t) \/ Leave(t) PROVE DeltaInv'
  BY <1>4, LoadKeeps, RenderedKeeps, LeaveKeeps
<1>5. ASSUME NEW t \in Tabs, Connect(t) \/ OnOpen(t) \/ OnClose(t) \/ OnMessage(t) PROVE DeltaInv'
  BY <1>5, ConnectKeeps, OnOpenKeeps, OnCloseKeeps, OnMessageKeeps
<1>6. ASSUME NEW t \in Tabs, NEW batch \in {<<"tap">>, <<"fail", "tap">>}, Tap(t, batch)
      PROVE  DeltaInv'
  BY <1>6, TapKeeps
<1>7. CASE UNCHANGED sessionVars
  <2>1. Ids' = Ids /\ Tasks' = Tasks BY <1>7 DEF sessionVars, Ids, Tasks
  <2>2. \A c : Arriving(c)' = Arriving(c) BY <1>7 DEF sessionVars, Arriving
  <2>3. SessionTypeOK' /\ LinkedInv' /\ OpenInv' /\ DeltasComplete'
    BY <1>7, <2>1, <2>2
    DEF sessionVars, DeltaInv, SessionTypeOK, LinkedInv, OpenInv, DeltasComplete
  <2>4. QED BY <2>3 DEF DeltaInv
<1>8. QED BY <1>1, <1>2, <1>3, <1>4, <1>5, <1>6, <1>7 DEF SessionNext

LEMMA DeltaStart == SessionInit => DeltaInv
<1> SUFFICES ASSUME SessionInit PROVE DeltaInv OBVIOUS
<1>1. Ids = {} /\ DOMAIN queue = {} BY DEF SessionInit, Ids
<1>2. SessionTypeOK
  <2>1. Idle \in Pages BY SessionsAssumption DEF Idle, Pages
  <2>2. tabs \in [Tabs -> Pages] BY <2>1 DEF SessionInit
  <2>3. <<>> \in Seq(Connections) /\ <<>> \in Seq(Tasks) OBVIOUS
  <2>4. QED BY <2>2, <2>3 DEF SessionInit, SessionTypeOK, Pages
<1>3. LinkedInv BY <1>1 DEF SessionInit, LinkedInv, Idle
<1>4. OpenInv BY <1>1 DEF SessionInit, OpenInv
<1>5. DeltasComplete BY DEF SessionInit, DeltasComplete
<1>6. QED BY <1>2, <1>3, <1>4, <1>5 DEF DeltaInv

\* The invariant of sessions and connections: what is under way brings the page to what
\* the session showed (PathlandRegistry, transport.ts).
THEOREM DeltaInductive == SessionSpec => []DeltaInv
<1>1. QED BY DeltaStart, DeltaStep, PTL DEF SessionSpec

\* Whatever is cut, retried and reordered, and whichever tabs share the session, a
\* page that agrees with the session goes on agreeing with it.
THEOREM DeltasCorrect == SessionSpec => []DeltasComplete
<1>1. DeltaInv => DeltasComplete BY DEF DeltaInv
<1>2. QED BY <1>1, DeltaInductive, PTL

-----------------------------------------------------------------------------
(* Nothing is kept.                                                           *)

\* Ends that go on being there, or to come.
LEMMA EndsStay ==
  ASSUME SessionTypeOK, NEW i \in Nat, NEW k \in Nat, EndsAfter(i),
         \A c \in DOMAIN conns : ~conns[c].closed =>
           \/ c \in DOMAIN conns' /\ ~conns'[c].closed
           \/ \E j \in DOMAIN queue' : j > k /\ queue'[j].kind = "close",
         \A j \in DOMAIN queue : j > i /\ queue[j].kind = "close" =>
           \E m \in DOMAIN queue' : m > k /\ queue'[m].kind = "close"
  PROVE  EndsAfter(k)'
<1>1. CASE \E c \in DOMAIN conns : ~conns[c].closed BY <1>1 DEF EndsAfter
<1>2. CASE \E j \in DOMAIN queue : j > i /\ queue[j].kind = "close" BY <1>2 DEF EndsAfter
<1>3. QED BY <1>1, <1>2 DEF EndsAfter

\* A step that leaves the queue alone, or adds to its end, and closes a
\* connection only with a task for its end.
LEMMA EndsGrow ==
  ASSUME SessionTypeOK, EndInv, UNCHANGED <<session, pending>>,
         \A c \in DOMAIN conns : ~conns[c].closed =>
           \/ c \in DOMAIN conns' /\ ~conns'[c].closed
           \/ queue' = Append(queue, Task("close", None, None)),
         \/ queue' = queue
         \/ \E task : queue' = Append(queue, task)
                      /\ (\/ task.kind = "close"
                          \/ \E c \in DOMAIN conns' : ~conns'[c].closed)
  PROVE  EndInv'
<1>1. queue \in Seq(Tasks) BY DEF SessionTypeOK
<1> DEFINE N == Len(queue)
<1>2. N \in Nat /\ DOMAIN queue = 1 .. N /\ N # N + 1 BY <1>1
<1>3. /\ DOMAIN queue \subseteq DOMAIN queue' /\ \A j \in DOMAIN queue : queue'[j] = queue[j]
      /\ \A j \in DOMAIN queue' : j \in DOMAIN queue \/ j = N + 1
      /\ queue' = Append(queue, Task("close", None, None)) =>
           N + 1 \in DOMAIN queue' /\ queue'[N + 1].kind = "close"
  <2>1. CASE queue' = queue
    <3>1. ASSUME NEW x PROVE queue # Append(queue, x)
      <4>1. Len(Append(queue, x)) = N + 1 BY <1>1
      <4>2. Len(queue) = N OBVIOUS
      <4> HIDE DEF N
      <4>3. QED BY <4>1, <4>2, <1>2, Zenon
    <3>2. QED BY <2>1, <3>1, <1>2
  <2>2. CASE queue' # queue
    <3>1. PICK task : queue' = Append(queue, task) BY <2>2
    <3>2. ASSUME NEW x
          PROVE  /\ Append(queue, x)[N + 1] = x /\ DOMAIN Append(queue, x) = 1 .. N + 1
                 /\ \A j \in 1 .. N : Append(queue, x)[j] = queue[j]
      BY <1>1
    <3> HIDE DEF N
    <3>3. DOMAIN queue' = 1 .. N + 1 /\ \A j \in 1 .. N : queue'[j] = queue[j] BY <3>1, <3>2
    <3>4. queue' = Append(queue, Task("close", None, None)) => queue'[N + 1].kind = "close"
      <4>1. Task("close", None, None).kind = "close" BY DEF Task
      <4>2. Append(queue, Task("close", None, None))[N + 1] = Task("close", None, None)
        BY <3>2
      <4>3. QED BY <4>1, <4>2
    <3>5. QED BY <3>3, <3>4, <1>2
  <2>3. QED BY <2>1, <2>2
<1> HIDE DEF N
<1>4. ASSUME NEW i \in 0 .. N, EndsAfter(i) PROVE EndsAfter(i)'
  <2>1. ASSUME NEW c \in DOMAIN conns, ~conns[c].closed
        PROVE  \/ c \in DOMAIN conns' /\ ~conns'[c].closed
               \/ \E j \in DOMAIN queue' : j > i /\ queue'[j].kind = "close"
    <3>1. N + 1 > i BY <1>2
    <3>2. QED BY <2>1, <3>1, <1>3
  <2>2. ASSUME NEW j \in DOMAIN queue, j > i, queue[j].kind = "close"
        PROVE  \E m \in DOMAIN queue' : m > i /\ queue'[m].kind = "close"
    BY <2>2, <1>3
  <2>3. i \in Nat BY <1>2
  <2>4. QED BY <2>1, <2>2, <2>3, <1>4, EndsStay
<1>5. session' # None \/ pending' # None => EndsAfter(0)'
  <2>1. 0 \in 0 .. N BY <1>2
  <2>2. QED BY <2>1, <1>4 DEF EndInv
<1>6. ASSUME NEW i \in DOMAIN queue', queue'[i].kind # "close" PROVE EndsAfter(i)'
  <2>1. CASE i \in DOMAIN queue
    <3>1. i \in 0 .. N /\ EndsAfter(i) BY <2>1, <1>2, <1>3, <1>6 DEF EndInv
    <3>2. QED BY <3>1, <1>4
  <2>2. CASE i \notin DOMAIN queue
    <3>1. i = N + 1 /\ queue' # queue BY <2>2, <1>3, <1>6
    <3>2. PICK task : queue' = Append(queue, task)
                      /\ (\/ task.kind = "close"
                          \/ \E c \in DOMAIN conns' : ~conns'[c].closed)
      BY <3>1
    <3>3. queue'[i] = task BY <3>1, <3>2, <1>1 DEF N
    <3>4. QED BY <3>2, <3>3, <1>6 DEF EndsAfter
  <2>3. QED BY <2>1, <2>2
<1>7. QED BY <1>5, <1>6 DEF EndInv

LEMMA ActorEnds ==
  ASSUME SessionTypeOK, EndInv, Actor,
         \A c \in DOMAIN conns : c \in DOMAIN conns' /\ conns'[c].closed = conns[c].closed
  PROVE  EndInv'
<1> DEFINE task == Head(queue)
<1>1. queue # <<>> /\ queue' = Tail(queue) BY DEF Actor
<1>2. queue \in Seq(Tasks) BY DEF SessionTypeOK
<1>3. /\ task = queue[1] /\ 1 \in DOMAIN queue /\ DOMAIN queue = 1 .. Len(queue)
      /\ DOMAIN queue' = 1 .. Len(queue) - 1 /\ Len(queue) \in Nat
      /\ \A i \in DOMAIN queue' : queue'[i] = queue[i + 1]
  BY <1>1, <1>2
<1>4. ASSUME NEW i \in Nat, EndsAfter(i + 1) PROVE EndsAfter(i)'
  <2>1. ASSUME NEW j \in DOMAIN queue, j > i + 1, queue[j].kind = "close"
        PROVE  \E m \in DOMAIN queue' : m > i /\ queue'[m].kind = "close"
    <3>1. j - 1 \in DOMAIN queue' /\ j - 1 > i /\ (j - 1) + 1 = j BY <2>1, <1>3
    <3>2. QED BY <2>1, <3>1, <1>3
  <2>2. QED BY <2>1, <1>4, EndsStay
<1>5. session' # None \/ pending' # None => EndsAfter(0)'
  <2>1. CASE task.kind # "close"
    <3>1. EndsAfter(0 + 1) BY <2>1, <1>3 DEF EndInv
    <3>2. QED BY <3>1, <1>4
  <2>2. CASE task.kind = "close"
    <3>1. CloseTask(task)
      BY <2>2 DEF Actor, OpenTask, EnvironmentTask, EventsTask, ResyncTask
    <3>2. session' = None /\ pending' = None BY <3>1 DEF CloseTask, CloseAll, Close
    <3>3. QED BY <3>2
  <2>3. QED BY <2>1, <2>2
<1>6. ASSUME NEW i \in DOMAIN queue', queue'[i].kind # "close" PROVE EndsAfter(i)'
  <2>1. i \in Nat /\ i + 1 \in DOMAIN queue /\ queue'[i] = queue[i + 1] BY <1>3
  <2>2. EndsAfter(i + 1) BY <2>1, <1>6 DEF EndInv
  <2>3. QED BY <2>1, <2>2, <1>4
<1>7. QED BY <1>5, <1>6 DEF EndInv

\* Only an end the server has noticed closes a connection.
LEMMA EndStep == DeltaInv /\ EndInv /\ [SessionNext]_sessionVars => EndInv'
<1> SUFFICES ASSUME DeltaInv, EndInv, [SessionNext]_sessionVars PROVE EndInv' OBVIOUS
<1>1. SessionTypeOK /\ LinkedInv BY DEF DeltaInv
<1>2. conns \in Seq(Connections) BY <1>1 DEF SessionTypeOK
<1> DEFINE AsClosed == \A c \in DOMAIN conns : c \in DOMAIN conns' /\ conns'[c].closed = conns[c].closed
\* What changes one connection and closes none.
<1>3. ASSUME NEW c \in DOMAIN conns, NEW new, new.closed = conns[c].closed,
             conns' = [conns EXCEPT ![c] = new]
      PROVE  AsClosed
  <2>1. DOMAIN conns' = DOMAIN conns BY <1>3, <1>2
  <2>2. \A d \in DOMAIN conns : conns'[d] = IF d = c THEN new ELSE conns[d] BY <1>3, <1>2
  <2>3. QED BY <2>1, <2>2, <1>3
<1>4. ASSUME NEW c \in DOMAIN conns
      PROVE  /\ Cut(conns[c]).closed = conns[c].closed
             /\ \A x : [conns[c] EXCEPT !.up = x].closed = conns[c].closed
             /\ \A x : [conns[c] EXCEPT !.down = x].closed = conns[c].closed
  BY <1>2 DEF Connections, Cut
<1>5. CASE Actor
  <2>1. ASSUME NEW s, NEW r, NEW full, Work(s, r, full) PROVE AsClosed
    <3>1. CASE r.conn = None BY <2>1, <3>1 DEF Work
    <3>2. CASE r.conn # None
      <4>1. conns' = [conns EXCEPT ![r.conn].down = @ \o r.out] BY <2>1, <3>2 DEF Work
      <4>2. CASE r.conn \in DOMAIN conns
        <5> DEFINE new == [conns[r.conn] EXCEPT !.down = conns[r.conn].down \o r.out]
        <5>1. conns' = [conns EXCEPT ![r.conn] = new] BY <4>1
        <5>2. new.closed = conns[r.conn].closed BY <4>2, <1>4
        <5> HIDE DEF new, AsClosed
        <5>3. QED BY <4>2, <5>1, <5>2, <1>3
      <4>3. CASE r.conn \notin DOMAIN conns
        <5>1. conns' = conns BY <4>1, <4>3, <1>2
        <5>2. QED BY <5>1
      <4>4. QED BY <4>2, <4>3
    <3>3. QED BY <3>1, <3>2
  <2>2. CloseAll => AsClosed BY DEF CloseAll
  <2> HIDE DEF AsClosed
  <2>3. AsClosed
    <3> DEFINE task == Head(queue)
    <3>1. OpenTask(task) \/ CloseTask(task) => CloseAll BY DEF OpenTask, CloseTask
    <3>2. EnvironmentTask(task) \/ EventsTask(task) \/ ResyncTask(task) =>
            \E s, r, full : Work(s, r, full)
      BY DEF EnvironmentTask, EventsTask, ResyncTask
    <3>3. \/ OpenTask(task) \/ CloseTask(task)
          \/ EnvironmentTask(task) \/ EventsTask(task) \/ ResyncTask(task)
      BY <1>5 DEF Actor
    <3> HIDE DEF task
    <3>4. QED BY <2>1, <2>2, <3>1, <3>2, <3>3
  <2>4. QED BY <2>3, <1>1, <1>5, ActorEnds DEF AsClosed
<1>6. ASSUME NEW c \in DOMAIN conns, Receive(c) PROVE EndInv'
  <2> DEFINE new == [conns[c] EXCEPT !.up = Tail(conns[c].up)]
  <2>1. conns' = [conns EXCEPT ![c] = new] /\ new.closed = conns[c].closed
    BY <1>4, <1>6 DEF Receive
  <2> HIDE DEF new, AsClosed
  <2>2. AsClosed BY <2>1, <1>3
  <2>3. conns'[c].closed = conns[c].closed /\ c \in DOMAIN conns' BY <2>2 DEF AsClosed
  <2>4. ~conns[c].closed /\ queue' = Append(queue, Head(conns[c].up))
        /\ UNCHANGED <<session, pending>>
    BY <1>6 DEF Receive
  <2>5. QED BY <2>2, <2>3, <2>4, <1>1, EndsGrow DEF AsClosed
<1>7. ASSUME NEW c \in DOMAIN conns, ServerNotices(c) PROVE EndInv'
  <2>1. queue' = Append(queue, Task("close", None, None)) /\ UNCHANGED <<session, pending>>
    BY <1>7 DEF ServerNotices
  <2>2. Task("close", None, None).kind = "close" BY DEF Task
  <2>3. QED BY <2>1, <2>2, <1>1, EndsGrow
<1>8. ASSUME NEW c \in DOMAIN conns, Drop(c) PROVE EndInv'
  <2>1. conns' = [conns EXCEPT ![c] = Cut(conns[c])] /\ Cut(conns[c]).closed = conns[c].closed
        /\ UNCHANGED <<session, pending, queue>>
    BY <1>4, <1>8 DEF Drop
  <2> HIDE DEF AsClosed
  <2>2. AsClosed BY <2>1, <1>3
  <2>3. QED BY <2>1, <2>2, <1>1, EndsGrow DEF AsClosed
\* A tab's steps.
<1>9. ASSUME NEW t \in Tabs, NEW batch, Sent(t, batch), UNCHANGED <<session, pending, queue>>
      PROVE  EndInv'
  <2>1. tabs[t] \in Pages BY <1>1 DEF SessionTypeOK, Pages
  <2>2. AsClosed
    <3>1. CASE ~tabs[t].open \/ conns[tabs[t].conn].closed BY <3>1, <1>9 DEF Sent
    <3>2. CASE ~ (~tabs[t].open \/ conns[tabs[t].conn].closed)
      <4> DEFINE c == tabs[t].conn
                 new == [conns[c] EXCEPT !.up = Append(conns[c].up, Task("events", None, batch))]
      <4>1. c \in DOMAIN conns BY <3>2, <2>1, <1>1 DEF LinkedInv, Pages, Ids
      <4>2. conns' = [conns EXCEPT ![c] = new] BY <3>2, <1>9 DEF Sent
      <4>3. new.closed = conns[c].closed BY <4>1, <1>4
      <4> HIDE DEF c, new, AsClosed
      <4>4. QED BY <4>1, <4>2, <4>3, <1>3
    <3>3. QED BY <3>1, <3>2
  <2> HIDE DEF AsClosed
  <2>3. QED BY <2>2, <1>1, <1>9, EndsGrow DEF AsClosed
<1>10. ASSUME UNCHANGED <<conns, queue, session, pending>> PROVE EndInv'
  BY <1>1, <1>10, EndsGrow
<1>11. ASSUME NEW t \in Tabs, Leave(t) PROVE EndInv'
  <2> DEFINE c == tabs[t].conn
  <2>1. conns' = IF c = None \/ conns[c].closed THEN conns ELSE [conns EXCEPT ![c] = Cut(@)]
    BY <1>11 DEF Leave
  <2>2. c \in DOMAIN conns \union {None}
    <3>1. tabs[t] \in Pages BY <1>1 DEF SessionTypeOK, Pages
    <3>2. QED BY <3>1 DEF Pages, Ids
  <2> HIDE DEF c
  <2>3. AsClosed
    <3>1. CASE c = None \/ conns[c].closed BY <3>1, <2>1
    <3>2. CASE ~ (c = None \/ conns[c].closed)
      <4>1. c \in DOMAIN conns /\ conns' = [conns EXCEPT ![c] = Cut(conns[c])]
        BY <3>2, <2>1, <2>2
      <4> HIDE DEF AsClosed
      <4>2. QED BY <4>1, <1>3, <1>4
    <3>3. QED BY <3>1, <3>2
  <2>4. UNCHANGED <<session, pending, queue>> BY <1>11 DEF Leave
  <2> HIDE DEF AsClosed
  <2>5. QED BY <2>3, <2>4, <1>1, EndsGrow DEF AsClosed
<1>12. ASSUME NEW t \in Tabs, Connect(t) PROVE EndInv'
  <2> DEFINE new == [tab |-> t, up |-> <<>>, down |-> <<>>, cut |-> FALSE, closed |-> FALSE]
  <2>1. conns' = Append(conns, new) /\ ~new.closed
        /\ queue' = Append(queue, Task("open", Len(conns) + 1, None))
        /\ UNCHANGED <<session, pending>>
    BY <1>12 DEF Connect
  <2> HIDE DEF new
  <2>2. AsClosed /\ Len(conns) + 1 \in DOMAIN conns' /\ conns'[Len(conns) + 1] = new
    BY <2>1, <1>2
  <2> HIDE DEF AsClosed
  <2>3. \E d \in DOMAIN conns' : ~conns'[d].closed BY <2>1, <2>2
  <2>4. QED BY <2>1, <2>2, <2>3, <1>1, EndsGrow DEF AsClosed
<1>13. ASSUME NEW t \in Tabs, OnOpen(t) PROVE EndInv'
  <2> DEFINE c == tabs[t].conn
             up == <<Task("environment", None, tabs[t].route)>>
                     \o IF tabs[t].attempt > 0 THEN <<Task("resync", None, None)>> ELSE <<>>
             new == [conns[c] EXCEPT !.up = up]
  <2>1. conns' = [conns EXCEPT ![c] = new] /\ c # None /\ UNCHANGED <<session, pending, queue>>
    BY <1>13 DEF OnOpen
  <2>2. c \in DOMAIN conns
    <3>1. tabs[t] \in Pages BY <1>1 DEF SessionTypeOK, Pages
    <3>2. QED BY <2>1, <3>1 DEF Pages, Ids
  <2> HIDE DEF c, up
  <2>3. new.closed = conns[c].closed BY <2>2, <1>4
  <2> HIDE DEF new, AsClosed
  <2>4. AsClosed BY <2>1, <2>2, <2>3, <1>3
  <2>5. QED BY <2>1, <2>4, <1>1, EndsGrow DEF AsClosed
<1>14. ASSUME NEW t \in Tabs, OnMessage(t) PROVE EndInv'
  <2> DEFINE c == tabs[t].conn
             new == [conns[c] EXCEPT !.down = Tail(conns[c].down)]
  <2>1. conns' = [conns EXCEPT ![c] = new] /\ tabs[t].open /\ UNCHANGED <<session, pending, queue>>
    BY <1>14 DEF OnMessage
  <2>2. c \in DOMAIN conns
    <3>1. tabs[t] \in Pages BY <1>1 DEF SessionTypeOK, Pages
    <3>2. QED BY <2>1, <3>1, <1>1 DEF Pages, Ids, LinkedInv
  <2> HIDE DEF c
  <2>3. new.closed = conns[c].closed BY <2>2, <1>4
  <2> HIDE DEF new, AsClosed
  <2>4. AsClosed BY <2>1, <2>2, <2>3, <1>3
  <2>5. QED BY <2>1, <2>4, <1>1, EndsGrow DEF AsClosed
<1> HIDE DEF AsClosed
<1>15. ASSUME NEW t \in Tabs, Load(t) \/ Rendered(t) \/ OnClose(t) PROVE EndInv'
  BY <1>10, <1>15 DEF Load, Rendered, OnClose
<1>16. ASSUME NEW t \in Tabs, NEW route \in Routes, Move(t, route) PROVE EndInv'
  BY <1>9, <1>16 DEF Move
<1>17. ASSUME NEW t \in Tabs, NEW batch \in {<<"tap">>, <<"fail", "tap">>}, Tap(t, batch)
       PROVE  EndInv'
  BY <1>9, <1>17 DEF Tap
<1>18. CASE UNCHANGED sessionVars BY <1>10, <1>18 DEF sessionVars
<1>19. QED
  BY <1>5, <1>6, <1>7, <1>8, <1>11, <1>12, <1>13, <1>14, <1>15, <1>16, <1>17, <1>18
  DEF SessionNext

\* Whoever has gone leaves nothing behind: when every end has been noticed and its
\* task done, there is no session and no connection registered for the id.
THEOREM NothingKeptCorrect == SessionSpec => []NothingKept
<1>1. SessionInit => EndInv
  <2> SUFFICES ASSUME SessionInit PROVE EndInv OBVIOUS
  <2>1. DOMAIN queue = {} BY DEF SessionInit
  <2>2. QED BY <2>1 DEF SessionInit, EndInv
<1>2. DeltaInv /\ EndInv => NothingKept
  <2> SUFFICES ASSUME EndInv, Done PROVE session = None /\ pending = None
    BY DEF NothingKept
  <2>1. ~EndsAfter(0)
    <3>1. DOMAIN queue = {} BY DEF Done
    <3>2. QED BY <3>1 DEF Done, EndsAfter
  <2>2. QED BY <2>1 DEF EndInv
<1>3. QED BY <1>1, <1>2, DeltaInductive, EndStep, PTL DEF SessionSpec
=============================================================================
