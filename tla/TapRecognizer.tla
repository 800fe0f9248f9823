---------------------------- MODULE TapRecognizer ----------------------------
(***************************************************************************)
(* The tap recognizer an application feeds with raw pointer events and the *)
(* time (pathland-view/src/recognizer.rs).                                 *)
(*                                                                         *)
(* Positions are points of a line: the recognizer only compares distances. *)
(* tapped is what feed returned last; since is history: the events since   *)
(* the last POINTER_DOWN, with it, each with its time.                     *)
(***************************************************************************)
EXTENDS Integers, Sequences

CONSTANTS Targets, Positions, NoTarget,
          MaxDistance, MaxDuration,
          MaxTime,      \* bound: the clock
          MaxEvents     \* bound: events of one gesture

ASSUME TapAssumption ==
  /\ Positions \subseteq Int /\ NoTarget \notin Targets
  /\ MaxDistance \in Nat /\ MaxDuration \in Nat /\ MaxTime \in Nat /\ MaxEvents \in Nat

DownState == [target : Targets, x : Positions, time : Nat]

\* NoTarget stands for the absence of a press too.
ASSUME DownAssumption == NoTarget \notin DownState

VARIABLES down,         \* DownState or NoTarget
          now, tapped, since

tapVars == <<down, now, tapped, since>>

TapInit == down = NoTarget /\ now = 0 /\ tapped = NoTarget /\ since = <<>>

Far(x, y) == (x - y) * (x - y) > MaxDistance * MaxDistance

Seen(e) == since' = IF e.kind = "down" THEN <<e>>
                    ELSE IF Len(since) < MaxEvents THEN Append(since, e) ELSE <<>>

PointerDown(t, x) ==
  /\ down' = [target |-> t, x |-> x, time |-> now]
  /\ tapped' = NoTarget
  /\ Seen([kind |-> "down", target |-> t, x |-> x, time |-> now, leaving |-> FALSE])
  /\ UNCHANGED now

\* Whatever comes of it, the gesture is over.
PointerUp(t, x) ==
  /\ tapped' = IF /\ down # NoTarget /\ down.target = t
                  /\ now - down.time <= MaxDuration
                  /\ ~Far(down.x, x)
               THEN t ELSE NoTarget
  /\ down' = NoTarget
  /\ Seen([kind |-> "up", target |-> t, x |-> x, time |-> now, leaving |-> FALSE])
  /\ UNCHANGED now

MoveNear(t, x, leaving) ==                  \* seeded fault: leaving is ignored
  /\ down' = IF down # NoTarget /\ (t # down.target \/ Far(down.x, x)) THEN NoTarget ELSE down
  /\ tapped' = NoTarget
  /\ Seen([kind |-> "move", target |-> t, x |-> x, time |-> now, leaving |-> leaving])
  /\ UNCHANGED now

PointerMove(t, x, leaving) ==
  /\ down' = IF down # NoTarget /\ (leaving \/ t # down.target \/ Far(down.x, x))
             THEN NoTarget ELSE down
  /\ tapped' = NoTarget
  /\ Seen([kind |-> "move", target |-> t, x |-> x, time |-> now, leaving |-> leaving])
  /\ UNCHANGED now

\* reset: the gesture under way is cancelled.
Cancel ==
  /\ down' = NoTarget /\ tapped' = NoTarget /\ since' = <<>>
  /\ UNCHANGED now

Tick == now < MaxTime /\ now' = now + 1 /\ UNCHANGED <<down, tapped, since>>

TapNext ==
  \/ \E t \in Targets, x \in Positions :
       \/ PointerDown(t, x) \/ PointerUp(t, x)
       \/ \E leaving \in BOOLEAN : PointerMove(t, x, leaving)
  \/ Cancel
  \/ Tick

TapSpec == TapInit /\ [][TapNext]_tapVars

-----------------------------------------------------------------------------
\* A tap: the last event is an up, the first the down before it; in between are
\* only moves, which never left the target nor went far from where it was
\* pressed; and the press did not last too long.
IsTap(es) ==
  LET first == es[1]
      last == es[Len(es)]
  IN  /\ Len(es) >= 2 /\ first.kind = "down" /\ last.kind = "up"
      /\ last.time - first.time <= MaxDuration
      /\ \A k \in 2 .. Len(es) : /\ es[k].target = first.target /\ ~es[k].leaving
                                 /\ ~Far(first.x, es[k].x)
                                 /\ k < Len(es) => es[k].kind = "move"

\* feed answers a tap exactly when the events since the press are one, on the
\* node it answers.
TapsExact ==
  since # <<>> /\ since[1].kind = "down" =>
    /\ (tapped # NoTarget) <=> IsTap(since)
    /\ tapped # NoTarget => tapped = since[1].target
=============================================================================
