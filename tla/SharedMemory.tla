---------------------------- MODULE SharedMemory ----------------------------
(***************************************************************************)
(* The shared linear memory of pathland-core as a whole: the opcode ring   *)
(* and the event ring, which meet in two places.  The views are exclusive: *)
(* the host sends an event through a Host view, so no Guest view is alive; *)
(* the guest drains, and the C ABI sends, through a Guest view.  And the   *)
(* frame that carries META::RESET rewinds the event arena.                 *)
(***************************************************************************)
EXTENDS OpcodeRing, EventRing

CONSTANT Reset      \* the META::RESET command

ASSUME SharedAssumption == Reset \in Commands

vars == <<ringVars, eventVars>>

SharedInit == Init /\ EventInit

FramesEager ==            \* seeded fault: a poll that finds no frame rewinds too
  \/ NextFrame /\ Rewind
  \/ ~guestView /\ ~FrameReady /\ Rewind /\ UNCHANGED ringVars

\* frames(), with the scan of what it hands out for a RESET.
Frames ==
  /\ NextFrame
  /\ IF \E i \in readCursor .. writeCursor - 1 : slots[i].cmd = Reset
       THEN Rewind
       ELSE UNCHANGED eventVars

\* Host::send_event; for an event without a string also
\* pathland_core_send_event.
HostEvent ==
  /\ \/ ~guestView /\ HostSends
     \/ guestView /\ \E k \in PlainKinds : SendPlain(k)
  /\ UNCHANGED ringVars

GuestDrain ==
  /\ guestView
  /\ GuestTakes
  /\ UNCHANGED ringVars

SharedNext ==
  \/ Produce /\ UNCHANGED eventVars
  \/ Frames
  \/ HostEvent
  \/ GuestDrain

SharedSpec == SharedInit /\ [][SharedNext]_vars

-----------------------------------------------------------------------------
ResetDelivered == \E j \in 1 .. Len(received) : received[j].cmd = Reset

\* As long as the host has consumed no RESET, every event the guest decodes has
\* the string it was sent with, however the two rings' calls interleave.
TextLostOnlyByReset == ResetDelivered \/ TextsResolved
=============================================================================
