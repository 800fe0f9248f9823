--------------------------- MODULE OpcodeChannel ---------------------------
(***************************************************************************)
(* What the opcode stream promises whatever carries it: the consumer gets  *)
(* what the producer sent, in order, once, in runs of one or more; and at  *)
(* most Capacity messages are under way.                                   *)
(***************************************************************************)
EXTENDS Integers, Sequences

CONSTANTS Messages,
          Capacity      \* a natural number

VARIABLES sent, received

channelVars == <<sent, received>>

Init == sent = <<>> /\ received = <<>>

Send(m) ==
  /\ Len(sent) - Len(received) < Capacity
  /\ sent' = Append(sent, m)
  /\ UNCHANGED received

Deliver(n) ==
  /\ received' = SubSeq(sent, 1, n)
  /\ UNCHANGED sent

Next ==
  \/ \E m \in Messages : Send(m)
  \/ \E n \in Len(received) + 1 .. Len(sent) : Deliver(n)

Spec == Init /\ [][Next]_channelVars
=============================================================================
