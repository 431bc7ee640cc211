-------------------------- MODULE DataChannelSend ---------------------------
(***************************************************************************)
(* The sending half of WebRTCLibDataChannel, beside the receiving half in  *)
(* DataChannel: _set_write_mode and _put_packet.  Main runs one method at  *)
(* a time, so the script calls nothing else while a _put_packet is between *)
(* its isClosed() and its send(); the library and its callbacks go on.     *)
(*                                                                         *)
(* Library: send() takes a message while the channel is open, and may      *)
(* throw at any time.                                                      *)
(***************************************************************************)
EXTENDS DataChannel

CONSTANTS
  Buffers,  \* buffers the script may send
  NoBuffer, \* no _put_packet is running
  MaxPuts   \* bound: packets the script puts

Bytes == 0 .. 255

ASSUME BuffersAssumption ==
  Buffers \subseteq Seq(Bytes) /\ NoBuffer \notin Buffers
ASSUME PutsAssumption == MaxPuts \in Nat

VARIABLES
  write_mode,
  putting,   \* the buffer of the running _put_packet
  puts,      \* number of _put_packet calls
  \* The library and the history.
  outbox,    \* messages that send() has taken
  accepted   \* what the script was told OK for: buffer and mode

sendVars == <<write_mode, putting, puts, outbox, accepted>>
allVars == <<vars, sendVars>>

WriteModes == {"TEXT", "BINARY"}
Modes == WriteModes \union {"OTHER"}

SendInit ==
  /\ Init
  /\ write_mode = "BINARY" /\ putting = NoBuffer /\ puts = 0
  /\ outbox = <<>> /\ accepted = <<>>

\* The bytes of a text packet: strncpy stops at a NUL, and the string was
\* filled with NULs.
CopyText(buffer) ==
  [i \in DOMAIN buffer |->
     IF \E j \in 1 .. i : buffer[j] = 0 THEN 0 ELSE buffer[i]]

Message(mode, buffer) ==
  IF mode = "TEXT" THEN [data |-> CopyText(buffer), text |-> TRUE]
                   ELSE [data |-> buffer, text |-> FALSE]

-----------------------------------------------------------------------------
(* Faulty variants, see DataChannel.                                       *)

\* The exception of send() is swallowed and OK returned.
PutThrows_Swallowed ==
  /\ putting # NoBuffer
  /\ accepted' = Append(accepted, [buffer |-> putting, mode |-> write_mode])
  /\ putting' = NoBuffer
  /\ UNCHANGED <<vars, write_mode, puts, outbox>>

-----------------------------------------------------------------------------
MayCall == main = "idle" /\ putting = NoBuffer

\* Any other mode is refused.
SetWriteMode(mode) ==
  /\ MayCall
  /\ mode \in WriteModes
  /\ write_mode' = mode
  /\ UNCHANGED <<vars, putting, puts, outbox, accepted>>

\* _put_packet up to isClosed(): FAILED if the channel is closed.
PutCheck(buffer) ==
  /\ MayCall
  /\ puts < MaxPuts
  /\ puts' = puts + 1
  /\ putting' = IF lib = "closed" THEN NoBuffer ELSE buffer
  /\ UNCHANGED <<vars, write_mode, outbox, accepted>>

\* send() takes the message, and _put_packet returns OK.
PutSend ==
  /\ putting # NoBuffer
  /\ lib = "open"
  /\ outbox' = Append(outbox, Message(write_mode, putting))
  /\ accepted' = Append(accepted, [buffer |-> putting, mode |-> write_mode])
  /\ putting' = NoBuffer
  /\ UNCHANGED <<vars, write_mode, puts>>

\* send() throws: the channel is not open or not any more, the message is too
\* large, ...  _put_packet returns FAILED.
PutThrows ==
  /\ putting # NoBuffer
  /\ putting' = NoBuffer
  /\ UNCHANGED <<vars, write_mode, puts, outbox, accepted>>

Put ==
  \/ \E buffer \in Buffers : PutCheck(buffer)
  \/ PutSend \/ PutThrows

SendNext ==
  \/ /\ Library \/ \E p \in Procs : CallbackStep(p)
     /\ UNCHANGED sendVars
  \/ Script /\ putting = NoBuffer /\ UNCHANGED sendVars
  \/ \E mode \in Modes : SetWriteMode(mode)
  \/ Put

SendSpec == SendInit /\ [][SendNext]_allVars

-----------------------------------------------------------------------------
(* Properties.                                                             *)

\* The values each variable can have; the write mode is one of the two, so
\* that _put_packet never gets to its ERR_INVALID_PARAMETER.
SendTypeOK ==
  /\ write_mode \in WriteModes
  /\ putting \in Buffers \union {NoBuffer} /\ puts \in 0 .. MaxPuts
  /\ outbox \in Seq([data : Seq(Bytes), text : BOOLEAN])
  /\ accepted \in Seq([buffer : Buffers, mode : WriteModes])

\* Once the script can see CLOSED, or its _close has returned, no packet is
\* accepted any more, though _get_ready_state answers from a cache that a
\* library thread writes and _put_packet asks the channel, twice.
NoneAcceptedAfterClosed ==
  [][accepted' # accepted =>
       channel_state # "CLOSED" /\ close_result # "returned"]_allVars

\* The message has the packet's mark and, but for what follows a NUL in a
\* text, its bytes.
Carries(message, packet) ==
  /\ message.text = (packet.mode = "TEXT")
  /\ Len(message.data) = Len(packet.buffer)
  /\ \A j \in 1 .. Len(packet.buffer) :
       message.data[j] # packet.buffer[j] =>
         packet.mode = "TEXT" /\ \E k \in 1 .. j : packet.buffer[k] = 0

\* Every packet _put_packet returned OK for was given to the library, in
\* order, in the mode set when it was put, and unchanged up to the first NUL
\* of a text.
AcceptedIsSent ==
  /\ Len(accepted) = Len(outbox)
  /\ \A i \in 1 .. Len(accepted) : Carries(outbox[i], accepted[i])
=============================================================================
