----------------------------- MODULE PacketPipe -----------------------------
(***************************************************************************)
(* What the receiving half of a data channel promises to the script,       *)
(* without threads, locks or callbacks: the packets that reach the channel *)
(* stand in one line, the script takes them from its front, one at a time  *)
(* and each with its text/binary mark, and freeing the channel object ends *)
(* the line.  DataChannel is shown to implement this module.               *)
(***************************************************************************)
EXTENDS Sequences

CONSTANTS
  Packets,    \* every packet the peer may send
  NoPacket    \* the value of `last' before the first Take

VARIABLES
  transit,    \* packets the library has received and the script has not taken
  last,       \* the packet the script took last
  ended       \* the channel object has been freed

vars == <<transit, last, ended>>

Init ==
  /\ transit = <<>>
  /\ last = NoPacket
  /\ ended = FALSE

Arrive(p) ==
  /\ ~ended
  /\ transit' = Append(transit, p)
  /\ UNCHANGED <<last, ended>>

Take ==
  /\ ~ended
  /\ transit # <<>>
  /\ last' = Head(transit)
  /\ transit' = Tail(transit)
  /\ UNCHANGED ended

End ==
  /\ ended' = TRUE
  /\ transit' = <<>>
  /\ last' = NoPacket

Next ==
  \/ \E p \in Packets : Arrive(p)
  \/ Take
  \/ End

Spec == Init /\ [][Next]_vars
=============================================================================
