----------------------------- MODULE SignalGraph -----------------------------
(***************************************************************************)
(* The reactive graph of the Java view layer (lib/java/pathland-view,      *)
(* package signal): writable signals, lazy computed signals and effects,   *)
(* with the static queue of Scheduler.                                     *)
(*                                                                         *)
(* Everything runs synchronously inside a call (set, get, effect,          *)
(* destroy), on the stack of the calling thread: stack holds its frames,   *)
(* the innermost first, and a step is one turn of a loop or one            *)
(* instruction of a body.  A body is a program: Does tells its next        *)
(* instruction from the results of those before.                           *)
(*                                                                         *)
(* Versions are compared for equality with what an edge saw last, so an    *)
(* edge only has to say whether its producer changed since: unseen.        *)
(* Exceptions are compared by identity: Errors are identities.             *)
(*                                                                         *)
(* life, reads, missed, broken, dropped, before, ran, again and wrote are  *)
(* history: which effects exist; what each node's last run read; the nodes *)
(* that a change overtook while they were evaluated; whether an exception  *)
(* has ever left the body that raised it; the effects whose run was given  *)
(* up before its body; and of the call under way: what the running effect  *)
(* read the time before, the computeds that ran, whether one ran twice,    *)
(* and whether a body wrote.                                               *)
(***************************************************************************)
EXTENDS Lists, FiniteSets

CONSTANTS Sources, Computeds, Effects, Values, Errors, Nothing,
          Writers,          \* the effects that may write signals
          Programs, Does(_, _, _),
          BodyLength,       \* no body executes more instructions
          MaxDepth          \* frames a thread's stack holds before it overflows

Nodes == Computeds \union Effects
Producers == Sources \union Computeds

Instruction ==
  [do : {"read", "peek"}, node : Producers]
    \union [do : {"write"}, node : Sources, value : Values]
    \union [do : {"create", "destroy"}, node : Effects]
    \union [do : {"return"}, value : Values]
    \union [do : {"throw"}]

Final(i) == i.do \in {"return", "throw"}

ASSUME GraphAssumption ==
  /\ Sources \intersect Computeds = {} /\ Producers \intersect Effects = {}
  /\ Nothing \notin Values \union Errors \union Nodes \union Producers
  /\ Values # {} /\ Writers \subseteq Effects /\ BodyLength \in Nat /\ MaxDepth \in Nat

ASSUME BodyAssumption ==
  \A p \in Programs, n \in Nodes, k \in 0 .. BodyLength :
    \A seen \in [1 .. k -> Values \union {Nothing}] :
      /\ Does(p, n, seen) \in Instruction
      /\ k = BodyLength => Final(Does(p, n, seen))

\* There is always an identity that no node holds.
ASSUME ErrorAssumption ==
  \A f \in [Computeds -> Errors \union {Nothing}], t \in Errors \union {Nothing} :
    \E x \in Errors : x # t /\ \A c \in Computeds : f[c] # x

VARIABLES program,
          value, cached, error,             \* of signals; of computeds
          dirty, firstRun,                  \* of computeds and effects
          producers, unseen, consumers,     \* edges, as each end lists them
          queue, scheduled, flushing,       \* Scheduler
          stack, thrown,
          life, reads, missed, broken, dropped, before, ran, again, wrote

nodeVars == <<value, cached, error>>
flags == <<dirty, firstRun>>
edges == <<producers, unseen, consumers>>
scheduler == <<queue, scheduled, flushing>>
past == <<reads, missed, broken, dropped, before, ran, again, wrote>>
graphVars == <<program, nodeVars, flags, edges, scheduler, stack, thrown,
               life, past>>

Ops == {"mark", "flush", "refresh", "torn", "body", "propagate", "failed",
        "untracked", "call"}

\* list: the nodes a "mark" has to visit yet, the producers a "refresh" has
\* visited already ("torn": the list it walks was changed since).
Frame == [op : Ops, node : Nodes \union Producers \union {Nothing},
          list : Seq(Nodes \union Producers), seen : Seq(Values \union {Nothing})]

Call(op, n, list) == [op |-> op, node |-> n, list |-> list, seen |-> <<>>]
Refresh(n) == Call("refresh", n, <<>>)

Init ==
  /\ program \in Programs
  /\ value \in [Sources -> Values]
  /\ cached = [c \in Computeds |-> Nothing] /\ error = [c \in Computeds |-> Nothing]
  /\ dirty = [n \in Nodes |-> TRUE] /\ firstRun = [n \in Nodes |-> TRUE]
  /\ producers = [n \in Nodes |-> <<>>] /\ unseen = [n \in Nodes |-> {}]
  /\ consumers = [p \in Producers |-> <<>>]
  /\ queue = <<>> /\ scheduled = [e \in Effects |-> FALSE] /\ flushing = FALSE
  /\ stack = <<>> /\ thrown = Nothing
  /\ life = [e \in Effects |-> "unborn"]
  /\ reads = [n \in Nodes |-> {}] /\ missed = {} /\ broken = FALSE /\ dropped = {}
  /\ before = {} /\ ran = {} /\ again = FALSE /\ wrote = FALSE

Idle == stack = <<>>

Top == Head(stack)
At(op) == thrown = Nothing /\ stack # <<>> /\ Top.op = op

Frames(n, ops) == {i \in 1 .. Len(stack) : stack[i].node = n /\ stack[i].op \in ops}
Refreshing(n) == Frames(n, {"refresh", "torn"})

\* The thread's ReactiveContext: nodes being evaluated, not hidden by untracked.
Context ==
  {n \in Nodes : \E i \in 1 .. Len(stack) :
     /\ stack[i].node = n /\ stack[i].op \in {"body", "propagate", "failed"}
     /\ \A j \in 1 .. i : stack[j].op # "untracked"}

-----------------------------------------------------------------------------
(* Edges, versions and the queue.                                          *)

\* version++: every edge to p is out of date.
Bump(p) == [n \in Nodes |-> IF Holds(producers[n], p) THEN unseen[n] \union {p}
                            ELSE unseen[n]]

\* recordDependency: n, the current consumer, has read p.
Record(n, p) ==
  /\ IF Holds(producers[n], p) THEN UNCHANGED <<producers, consumers>>
     ELSE /\ producers' = [producers EXCEPT ![n] = Append(@, p)]
          /\ consumers' = [consumers EXCEPT ![p] = Append(@, n)]
  /\ unseen' = [unseen EXCEPT ![n] = @ \ {p}]

ResetKeepingConsumers(n) ==           \* seeded fault: only one end is dropped
  /\ producers' = [producers EXCEPT ![n] = <<>>]
  /\ unseen' = [unseen EXCEPT ![n] = {}]
  /\ UNCHANGED consumers

ResetProducers(n) ==
  /\ producers' = [producers EXCEPT ![n] = <<>>]
  /\ unseen' = [unseen EXCEPT ![n] = {}]
  /\ consumers' = [p \in Producers |->
       IF Holds(producers[n], p) THEN Without(consumers[p], n) ELSE consumers[p]]

ScheduleIdle(e, frames) ==            \* seeded fault: not queued during a flush
  /\ queue' = IF flushing THEN queue ELSE Append(queue, e)
  /\ scheduled' = [scheduled EXCEPT ![e] = ~flushing]
  /\ flushing' = TRUE
  /\ stack' = IF flushing THEN frames ELSE <<Call("flush", Nothing, <<>>)>> \o frames

ScheduleNested(e, frames) ==          \* seeded fault: a flush inside a flush
  /\ queue' = IF scheduled[e] THEN queue ELSE Append(queue, e)
  /\ scheduled' = [scheduled EXCEPT ![e] = TRUE]
  /\ flushing' = TRUE
  /\ stack' = <<Call("flush", Nothing, <<>>)>> \o frames

\* Scheduler.schedule: flush() runs at once, before the caller goes on, unless
\* a flush is running already.
Schedule(e, frames) ==
  /\ queue' = IF scheduled[e] THEN queue ELSE Append(queue, e)
  /\ scheduled' = [scheduled EXCEPT ![e] = TRUE]
  /\ flushing' = TRUE
  /\ stack' = IF flushing THEN frames ELSE <<Call("flush", Nothing, <<>>)>> \o frames

Create(e, frames) ==
  /\ life[e] = "unborn"
  /\ life' = [life EXCEPT ![e] = "live"]
  /\ Schedule(e, frames)

\* A walk of n's producers goes on over a changed list.
Torn(n, frames) ==
  [i \in 1 .. Len(frames) |->
     IF frames[i].op = "refresh" /\ frames[i].node = n
       THEN [frames[i] EXCEPT !.op = "torn"] ELSE frames[i]]

OnStack(e) == \E i \in 1 .. Len(stack) : stack[i].op = "body" /\ stack[i].node = e

DestroyQueued(e) ==                   \* seeded fault: not taken out of the queue
  /\ life[e] = "live"
  /\ life' = [life EXCEPT ![e] = IF OnStack(e) THEN "cut" ELSE "destroyed"]
  /\ ResetProducers(e)
  /\ UNCHANGED <<dirty, queue, scheduled, flushing>>

\* "cut": destroyed by its own run, which goes on.
Destroy(e) ==
  /\ life[e] = "live"
  /\ life' = [life EXCEPT ![e] = IF OnStack(e) THEN "cut" ELSE "destroyed"]
  /\ queue' = Without(queue, e)
  /\ scheduled' = [scheduled EXCEPT ![e] = FALSE]
  /\ ResetProducers(e)
  /\ dirty' = [dirty EXCEPT ![e] = FALSE]
  /\ UNCHANGED flushing

\* The value is stored, then propagate() walks a copy of the consumers.
Write(s, v, frames) ==
  /\ value' = [value EXCEPT ![s] = v]
  /\ unseen' = Bump(s)
  /\ stack' = <<Call("mark", s, consumers[s])>> \o frames

-----------------------------------------------------------------------------
(* Calls from outside the graph.                                           *)

\* The call's frame holds what it was made on.
Caller(x) == <<Call("call", x, <<>>)>>

\* set: equal values are suppressed.
Set(s, v) ==
  /\ Idle /\ value[s] # v
  /\ Write(s, v, Caller(s))
  /\ UNCHANGED <<program, cached, error, flags, producers, consumers, scheduler,
                 thrown, life, past>>

\* get of a computed that must be evaluated; its error, if any, is the caller's.
Get(c) ==
  /\ Idle /\ dirty[c]
  /\ stack' = <<Refresh(c)>> \o Caller(c)
  /\ UNCHANGED <<program, nodeVars, flags, edges, scheduler, thrown, life, past>>

NewEffect(e) ==
  /\ Idle /\ Create(e, Caller(e))
  /\ UNCHANGED <<program, nodeVars, flags, edges, thrown, past>>

\* By whoever holds the effect; that a constructor that threw handed none out is
\* not told apart.
DestroyEffect(e) ==
  /\ Idle /\ Destroy(e)
  /\ UNCHANGED <<program, nodeVars, firstRun, stack, thrown, past>>

\* The call returns, or throws what was raised.
Return ==
  /\ ~Idle /\ Top.op = "call"
  /\ stack' = Tail(stack) /\ thrown' = Nothing
  /\ before' = {} /\ ran' = {} /\ again' = FALSE /\ wrote' = FALSE
  /\ UNCHANGED <<program, nodeVars, flags, edges, scheduler, life, reads, missed, broken,
                 dropped>>

-----------------------------------------------------------------------------
(* propagate, markDirtyAndPropagate.                                       *)

Advanced == [Top EXCEPT !.list = Tail(@)]
Rest == <<Advanced>> \o Tail(stack)

\* When n has walked its producers, evaluateIfDirty takes back any mark that came
\* during the walk.
Reach(n) ==
  /\ missed' = IF Refreshing(n) = {} THEN missed ELSE missed \union {n}
  /\ UNCHANGED <<reads, broken, dropped, before, ran, again, wrote>>

MarkSkip ==
  /\ At("mark") /\ Top.list # <<>> /\ dirty[Head(Top.list)]
  /\ stack' = Rest /\ Reach(Head(Top.list))
  /\ UNCHANGED <<program, nodeVars, flags, edges, scheduler, thrown, life>>

\* A computed is only flagged, and its own consumers are walked.
MarkComputed ==
  /\ At("mark") /\ Top.list # <<>>
  /\ LET c == Head(Top.list)
     IN  /\ c \in Computeds /\ ~dirty[c]
         /\ dirty' = [dirty EXCEPT ![c] = TRUE]
         /\ stack' = <<Call("mark", c, consumers[c])>> \o Rest
         /\ Reach(c)
  /\ UNCHANGED <<program, nodeVars, firstRun, edges, scheduler, thrown, life>>

MarkEffect ==
  /\ At("mark") /\ Top.list # <<>>
  /\ LET e == Head(Top.list)
     IN  /\ e \in Effects /\ ~dirty[e]
         /\ dirty' = [dirty EXCEPT ![e] = TRUE]
         /\ Schedule(e, Rest)
         /\ Reach(e)
  /\ UNCHANGED <<program, nodeVars, firstRun, edges, thrown, life>>

\* The frame has nothing left to do.
Leave ==
  /\ \/ At("mark") /\ Top.list = <<>>
     \/ At("propagate") \/ At("failed")
  /\ stack' = Tail(stack)
  /\ UNCHANGED <<program, nodeVars, flags, edges, scheduler, thrown, life, past>>

-----------------------------------------------------------------------------
(* Scheduler.flush.                                                        *)

FlushNext ==
  /\ At("flush") /\ queue # <<>>
  /\ LET e == Head(queue)
     IN  /\ scheduled' = [scheduled EXCEPT ![e] = FALSE]
         /\ stack' = IF ~dirty[e] THEN stack
                     ELSE <<Refresh(e)>> \o stack
  /\ queue' = Tail(queue)
  /\ UNCHANGED <<program, nodeVars, flags, edges, flushing, thrown, life, past>>

FlushEnds ==
  /\ At("flush") /\ queue = <<>>
  /\ flushing' = FALSE
  /\ stack' = Tail(stack)
  /\ UNCHANGED <<program, nodeVars, flags, edges, queue, scheduled, thrown, life, past>>

-----------------------------------------------------------------------------
(* runIfScheduled and evaluateIfDirty, up to the body.                     *)

AtRefresh == At("refresh") \/ At("torn")
Walked == Len(Top.list) = Len(producers[Top.node])
Ahead == Len(Top.list) < Len(producers[Top.node])

Producer == producers[Top.node][Len(Top.list) + 1]
Pull(p) == p \in Computeds /\ dirty[p]
Room == Len(stack) < MaxDepth

RefreshNext ==
  /\ At("refresh") /\ Ahead /\ (Pull(Producer) => Room)
  /\ LET frames == <<[Top EXCEPT !.list = Append(@, Producer)]>> \o Tail(stack)
     IN  stack' = IF Pull(Producer) THEN <<Refresh(Producer)>> \o frames ELSE frames
  /\ UNCHANGED <<program, nodeVars, flags, edges, scheduler, thrown, life, past>>

Changed(n) == firstRun[n] \/ unseen[n] # {}

\* No producer's version moved: the dirty mark was a false alarm.
SkipBody ==
  /\ AtRefresh /\ Walked /\ ~Changed(Top.node)
  /\ dirty' = [dirty EXCEPT ![Top.node] = FALSE]
  /\ stack' = Tail(stack)
  /\ UNCHANGED <<program, nodeVars, firstRun, edges, scheduler, thrown, life, past>>

Start(n) ==
  /\ dirty' = [dirty EXCEPT ![n] = FALSE]
  /\ firstRun' = [firstRun EXCEPT ![n] = FALSE]
  /\ ResetProducers(n)
  /\ stack' = <<Call("body", n, <<>>)>> \o Torn(n, Tail(stack))
  /\ reads' = [reads EXCEPT ![n] = {}] /\ missed' = missed \ {n}
  /\ before' = IF n \in Effects THEN reads[n] ELSE before
  /\ ran' = ran \union ({n} \intersect Computeds)
  /\ again' = (again \/ n \in ran)
  /\ UNCHANGED <<program, nodeVars, scheduler, thrown, life, wrote, broken, dropped>>

StartAlways ==                        \* seeded fault: depsChanged is not asked
  AtRefresh /\ Walked /\ Top.node \notin Context /\ Start(Top.node)

StartBody ==
  AtRefresh /\ Walked /\ Changed(Top.node) /\ Top.node \notin Context /\ Start(Top.node)

-----------------------------------------------------------------------------
(* A body, one instruction a step.                                         *)

Instr == Does(program, Top.node, Top.seen)
Doing(what) == At("body") /\ Instr.do = what

\* The innermost body goes on with the result v.
Answered(frames, v) == <<[Head(frames) EXCEPT !.seen = Append(@, v)]>> \o Tail(frames)

\* Instructions without a result answer with any value.
Done == Answered(stack, CHOOSE v \in Values : TRUE)

NewError == CHOOSE x \in Errors : x # thrown /\ \A c \in Computeds : error[c] # x

Raise(x) == thrown' = x /\ UNCHANGED stack

Unmoved == UNCHANGED <<program, flags, scheduler, life, missed, before, ran, again, dropped>>

\* untracked takes the context away until its read is done.
Peek ==
  /\ Doing("peek")
  /\ stack' = <<Call("untracked", Instr.node, <<>>)>> \o stack
  /\ UNCHANGED <<nodeVars, edges, thrown, reads, wrote, broken>> /\ Unmoved

Reading == At("untracked") \/ Doing("read")
Wanted == IF Top.op = "untracked" THEN Top.node ELSE Instr.node
Circular == Wanted \in Context

Result(p) == IF p \in Sources THEN value[p]
             ELSE IF error[p] # Nothing THEN error[p] ELSE cached[p]

Failed(p) == p \in Computeds /\ error[p] # Nothing

\* get: a dirty computed is evaluated before it is read.
Evaluate ==
  /\ Reading /\ ~Circular /\ Pull(Wanted) /\ Room
  /\ stack' = <<Refresh(Wanted)>> \o stack
  /\ UNCHANGED <<nodeVars, edges, thrown, reads, wrote, broken>> /\ Unmoved

Ready == Reading /\ ~Circular /\ ~Pull(Wanted)

\* This run of n has had another result of p before.
Mixes(n, p) == \E r \in reads[n] : r[1] = p /\ r[2] # Result(p)

Read ==
  /\ Ready /\ ~Failed(Wanted) /\ Top.op = "body"
  /\ Record(Top.node, Wanted)
  /\ reads' = [reads EXCEPT ![Top.node] = @ \union {<<Wanted, Result(Wanted)>>}]
  /\ missed' = IF Mixes(Top.node, Wanted) THEN missed \union {Top.node} ELSE missed
  /\ stack' = Answered(stack, Result(Wanted))
  /\ UNCHANGED <<program, nodeVars, flags, scheduler, thrown, life, broken, dropped, before, ran,
                 again, wrote>>

PeekDone ==
  /\ Ready /\ ~Failed(Wanted) /\ Top.op = "untracked"
  /\ stack' = Answered(Tail(stack), Result(Wanted))
  /\ UNCHANGED <<nodeVars, edges, thrown, reads, wrote, broken>> /\ Unmoved

\* A cached error is thrown again before the read is recorded.
ReadError ==
  /\ Ready /\ Failed(Wanted)
  /\ reads' = IF Top.op = "untracked" THEN reads
              ELSE [reads EXCEPT ![Top.node] = @ \union {<<Wanted, Result(Wanted)>>}]
  /\ Raise(error[Wanted]) /\ broken' = TRUE
  /\ UNCHANGED <<nodeVars, edges, wrote>> /\ Unmoved

\* ReactiveContext.push refuses a node whose body is running.
PushFails ==
  /\ AtRefresh /\ Walked /\ Changed(Top.node) /\ Top.node \in Context
  /\ dirty' = [dirty EXCEPT ![Top.node] = FALSE]
  /\ firstRun' = [firstRun EXCEPT ![Top.node] = FALSE]
  /\ Raise(NewError)
  /\ UNCHANGED <<program, nodeVars, edges, scheduler, life, past>>

\* What raises an exception of its own: an iterator over a list that was changed;
\* producers that lead around in a circle, until the stack overflows; a computed
\* read from inside itself; a write that is not allowed; a throw.
RaiseNew ==
  /\ \/ At("torn") /\ ~Walked
     \/ At("refresh") /\ Ahead /\ Pull(Producer) /\ ~Room
     \/ Reading /\ ~Circular /\ Pull(Wanted) /\ ~Room
     \/ Reading /\ Circular
     \/ Doing("write") /\ value[Instr.node] # Instr.value /\ Top.node \notin Writers
     \/ Doing("throw")
  /\ Raise(NewError)
  /\ UNCHANGED <<nodeVars, edges, reads, wrote, broken>> /\ Unmoved

WriteAlways ==                        \* seeded fault: equal writes propagate
  /\ Doing("write") /\ Top.node \in Writers
  /\ Write(Instr.node, Instr.value, Done)
  /\ wrote' = TRUE
  /\ UNCHANGED <<cached, error, producers, consumers, thrown, reads, broken>> /\ Unmoved

WriteInBody ==
  /\ Doing("write") /\ value[Instr.node] # Instr.value /\ Top.node \in Writers
  /\ Write(Instr.node, Instr.value, Done)
  /\ wrote' = TRUE
  /\ UNCHANGED <<cached, error, producers, consumers, thrown, reads, broken>> /\ Unmoved

CreateInBody ==
  /\ Doing("create")
  /\ Create(Instr.node, Done)
  /\ UNCHANGED <<program, nodeVars, flags, edges, thrown, past>>

DestroyInBody ==
  /\ Doing("destroy")
  /\ Destroy(Instr.node)
  /\ stack' = Torn(Instr.node, Done)
  /\ UNCHANGED <<program, nodeVars, firstRun, thrown, past>>

\* An equal write is suppressed; an effect of the model is created and
\* destroyed once.
NoEffect ==
  /\ \/ Doing("write") /\ value[Instr.node] = Instr.value
     \/ Doing("create") /\ life[Instr.node] # "unborn"
     \/ Doing("destroy") /\ life[Instr.node] # "live"
  /\ stack' = Done
  /\ UNCHANGED <<nodeVars, edges, thrown, reads, wrote, broken>> /\ Unmoved

\* An effect, or a computed whose value is what it was.
ReturnSame ==
  /\ Doing("return")
  /\ \/ Top.node \in Effects /\ UNCHANGED error
     \/ /\ Top.node \in Computeds /\ cached[Top.node] = Instr.value
        /\ error' = [error EXCEPT ![Top.node] = Nothing]
  /\ stack' = Tail(stack)
  /\ UNCHANGED <<value, cached, edges, thrown, reads, wrote, broken>> /\ Unmoved

ReturnUnnoticed ==                    \* seeded fault: no propagate()
  /\ Doing("return") /\ Top.node \in Computeds /\ cached[Top.node] # Instr.value
  /\ LET c == Top.node
     IN  /\ cached' = [cached EXCEPT ![c] = Instr.value]
         /\ error' = [error EXCEPT ![c] = Nothing]
         /\ stack' = Tail(stack)
  /\ UNCHANGED <<value, edges, thrown, reads, wrote, broken>> /\ Unmoved

\* The consumers are marked while the node is still in the context.
ReturnNew ==
  /\ Doing("return") /\ Top.node \in Computeds /\ cached[Top.node] # Instr.value
  /\ LET c == Top.node
     IN  /\ cached' = [cached EXCEPT ![c] = Instr.value]
         /\ error' = [error EXCEPT ![c] = Nothing]
         /\ unseen' = Bump(c)
         /\ stack' = <<Call("mark", c, consumers[c])>> \o
                     (<<Call("propagate", c, <<>>)>> \o Tail(stack))
  /\ UNCHANGED <<value, producers, consumers, thrown, reads, wrote, broken>> /\ Unmoved

-----------------------------------------------------------------------------
(* An exception leaves frame after frame.                                  *)

Raised == thrown # Nothing /\ ~Idle /\ Top.op # "call"
Catches == Top.op \in {"body", "propagate"} /\ Top.node \in Computeds

\* evaluateIfDirty caches it; the same exception again changes nothing.
Catch ==
  /\ Raised /\ Catches
  /\ LET c == Top.node
     IN  IF error[c] = thrown THEN stack' = Tail(stack) /\ UNCHANGED <<error, unseen>>
         ELSE /\ error' = [error EXCEPT ![c] = thrown]
              /\ unseen' = Bump(c)
              /\ stack' = <<Call("mark", c, consumers[c])>> \o
                          (<<Call("failed", c, <<>>)>> \o Tail(stack))
  /\ thrown' = Nothing
  /\ UNCHANGED <<value, cached, producers, consumers, reads, wrote, broken>> /\ Unmoved

UnwindFlushing ==                     \* seeded fault: flushing stays set
  /\ Raised /\ ~Catches
  /\ stack' = Tail(stack)
  /\ thrown' = IF Top.op = "body" THEN NewError ELSE thrown
  /\ broken' = TRUE
  /\ UNCHANGED <<nodeVars, edges, reads, wrote>> /\ Unmoved

GivenUp == IF Top.op \in {"refresh", "torn"} THEN {Top.node} \intersect Effects ELSE {}

\* An effect's body wraps it in a new one; flush() leaves the queue as it is.
Unwind ==
  /\ Raised /\ ~Catches
  /\ stack' = Tail(stack)
  /\ thrown' = IF Top.op = "body" THEN NewError ELSE thrown
  /\ flushing' = (flushing /\ Top.op # "flush")
  /\ broken' = TRUE /\ dropped' = dropped \union GivenUp
  /\ UNCHANGED <<program, nodeVars, flags, edges, queue, scheduled, life, reads, missed, before,
                 ran, again, wrote>>

-----------------------------------------------------------------------------
Calls ==
  \/ \E s \in Sources, v \in Values : Set(s, v)
  \/ \E c \in Computeds : Get(c)
  \/ \E e \in Effects : NewEffect(e) \/ DestroyEffect(e)

Step ==
  \/ MarkSkip \/ MarkComputed \/ MarkEffect \/ Leave
  \/ FlushNext \/ FlushEnds
  \/ RefreshNext \/ SkipBody \/ StartBody \/ PushFails
  \/ Peek \/ Evaluate \/ Read \/ PeekDone \/ ReadError \/ RaiseNew
  \/ WriteInBody \/ CreateInBody \/ DestroyInBody \/ NoEffect
  \/ ReturnSame \/ ReturnNew
  \/ Catch \/ Unwind
  \/ Return

Next == Calls \/ Step

Spec == Init /\ [][Next]_graphVars

\* The thread goes on with what it is doing.
FairSpec == Spec /\ WF_graphVars(Step)

-----------------------------------------------------------------------------
\* What the graph, the queue, the stack and the histories range over.
GraphTypeOK ==
  /\ program \in Programs
  /\ value \in [Sources -> Values]
  /\ cached \in [Computeds -> Values \union {Nothing}]
  /\ error \in [Computeds -> Errors \union {Nothing}]
  /\ dirty \in [Nodes -> BOOLEAN] /\ firstRun \in [Nodes -> BOOLEAN]
  /\ producers \in [Nodes -> Seq(Producers)]
  /\ unseen \in [Nodes -> SUBSET Producers]
  /\ consumers \in [Producers -> Seq(Nodes)]
  /\ queue \in Seq(Effects) /\ scheduled \in [Effects -> BOOLEAN]
  /\ flushing \in BOOLEAN
  /\ stack \in Seq(Frame) /\ thrown \in Errors \union {Nothing}
  /\ life \in [Effects -> {"unborn", "live", "destroyed", "cut"}]
  /\ ran \subseteq Computeds /\ again \in BOOLEAN /\ wrote \in BOOLEAN /\ broken \in BOOLEAN
  /\ dropped \subseteq Effects /\ missed \subseteq Nodes

Once(list) == \A i, j \in 1 .. Len(list) : list[i] = list[j] => i = j

\* A node is a consumer of exactly the nodes it lists as producers, once, at
\* every moment of every call and after every exception.
EdgesMirror ==
  /\ \A n \in Nodes, p \in Producers : Holds(consumers[p], n) <=> Holds(producers[n], p)
  /\ \A n \in Nodes : Once(producers[n])
  /\ \A p \in Producers : Once(consumers[p])

\* A dirty effect is in the queue, or its run is about to start, or an exception
\* of one of its producers made an end of that run: no mark, read or write makes
\* it dirty and leaves it nowhere.
NothingForgotten ==
  /\ Once(queue) /\ \A e \in Effects : scheduled[e] <=> Holds(queue, e)
  /\ \A e \in Effects : life[e] # "unborn" /\ dirty[e] =>
       Holds(queue, e) \/ Refreshing(e) # {} \/ e \in dropped

\* flushing says whether a flush is on the stack, and no flush runs inside
\* another, exceptions or not.
FlushOwned ==
  /\ flushing <=> \E i \in 1 .. Len(stack) : stack[i].op = "flush"
  /\ \A i, j \in 1 .. Len(stack) :
       stack[i].op = "flush" /\ stack[j].op = "flush" => i = j

\* What a node read in its last run is what a read would give now.
Consistent(n) ==
  \A r \in reads[n] :
    /\ r[2] = Result(r[1])
    /\ r[1] \in Computeds => ~dirty[r[1]]

\* When a call has returned, every live effect and every computed that is clean has
\* read the current values of what it depends on, unless a change overtook it while
\* it was evaluated or an exception has left the body that raised it.
CaughtUp ==
  Idle /\ ~broken =>
    /\ queue = <<>>
    /\ \A n \in Nodes :
         ~firstRun[n] /\ ~dirty[n] /\ n \notin missed /\ (n \in Effects => life[n] = "live") =>
           Consistent(n)

\* An effect is not run again to read what it read before, as long as no body
\* writes and no exception gets out.
RerunSeesChange ==
  (Doing("return") /\ Top.node \in Effects /\ ~wrote /\ ~broken) =>
    (reads[Top.node] # before \/ reads[Top.node] = {})

Evaluating(n) == Frames(n, {"refresh", "torn", "body"})

\* Effects run one after the other: none starts, or has its producers refreshed,
\* inside another, whatever bodies read, write, create or destroy.
EffectsInTurn ==
  \A e, f \in Effects : \A i \in Evaluating(e), j \in Evaluating(f) : i = j

\* A destroyed effect does not run again, unless it destroyed itself.
DestroyedSilent ==
  [][\A e \in Effects :
       life[e] = "destroyed" => ~(StartBody /\ Top.node = e)]_graphVars

\* set, get and effect return.
CallsReturn == ~Idle ~> Idle

-----------------------------------------------------------------------------
(* What the documents promise and the code does not keep.                  *)

\* "glitch-free propagation (each computed recomputes at most once per flush)"
\* (spec/DSL.md, signal surface): at most once in a call, if no body writes.
RecomputedOnce == again => wrote \/ broken

\* "by the time set returns, all effects that depend (transitively) on the
\* write have run" (Scheduler): none that depends on it directly is still dirty.
WriteSeen ==
  [][(Return /\ thrown = Nothing /\ Top.node \in Sources) =>
       \A e \in Effects : life[e] = "live" /\ Holds(producers[e], Top.node) => ~dirty[e]]_graphVars
=============================================================================
