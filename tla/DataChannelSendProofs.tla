----------------------- MODULE DataChannelSendProofs ------------------------
(***************************************************************************)
(* Sending does not disturb receiving: what DataChannelProofs shows of the *)
(* receiving half holds of the whole object, and with it what the script   *)
(* may rely on when it sends.                                              *)
(***************************************************************************)
EXTENDS DataChannelSend, DataChannelProofs

USE DEF libVars, queueVars, callVars, endVars, objVars

\* Every step of the whole is a step of the receiving half, or leaves it
\* alone.
THEOREM SendingHarmless == SendSpec => Spec
<1>1. SendInit => Init
  BY DEF SendInit
<1>2. [SendNext]_allVars => [Next]_vars
  <2> SUFFICES ASSUME [SendNext]_allVars PROVE [Next]_vars
    OBVIOUS
  <2>1. CASE SendNext
    BY <2>1 DEF SendNext, Next, SetWriteMode, Put, PutCheck, PutSend, PutThrows
  <2>2. CASE UNCHANGED allVars
    BY <2>2 DEF allVars
  <2> QED
    BY <2>1, <2>2
<1> QED
  BY <1>1, <1>2, PTL DEF SendSpec, Spec

\* The text of a packet is a string of bytes as long as the buffer.
LEMMA MessageType ==
  ASSUME NEW mode \in WriteModes, NEW buffer \in Buffers
  PROVE  Message(mode, buffer) \in [data : Seq(Bytes), text : BOOLEAN]
<1>1. buffer \in Seq(Bytes)
  BY BuffersAssumption
<1>2. CopyText(buffer) \in Seq(Bytes)
  <2>1. DOMAIN buffer = 1 .. Len(buffer) /\ Len(buffer) \in Nat
    BY <1>1
  <2>2. \A i \in 1 .. Len(buffer) : buffer[i] \in Bytes
    BY <1>1
  <2> DEFINE Copied(i) == IF \E j \in 1 .. i : buffer[j] = 0
                            THEN 0 ELSE buffer[i]
  <2>3. \A i \in 1 .. Len(buffer) : Copied(i) \in Bytes
    BY <2>2 DEF Bytes
  <2>4. CopyText(buffer) = [i \in 1 .. Len(buffer) |-> Copied(i)]
    BY <2>1, Zenon DEF CopyText
  <2> HIDE DEF Copied
  <2>5. CopyText(buffer) \in [1 .. Len(buffer) -> Bytes]
    BY <2>3, <2>4
  <2> QED
    BY <2>1, <2>5
<1> QED
  BY <1>1, <1>2 DEF Message

\* Types, and with them that _put_packet never meets a third write mode.
THEOREM SendTypeCorrect == SendSpec => []SendTypeOK
<1>1. SendInit => SendTypeOK
  <2> SUFFICES ASSUME SendInit PROVE SendTypeOK
    OBVIOUS
  <2>1. /\ outbox \in Seq([data : Seq(Bytes), text : BOOLEAN])
        /\ accepted \in Seq([buffer : Buffers, mode : WriteModes])
    BY DEF SendInit
  <2> QED
    BY <2>1, PutsAssumption DEF SendInit, SendTypeOK, WriteModes
<1>2. SendTypeOK /\ [SendNext]_allVars => SendTypeOK'
  <2> SUFFICES ASSUME SendTypeOK, [SendNext]_allVars PROVE SendTypeOK'
    OBVIOUS
  <2>1. CASE UNCHANGED sendVars
    BY <2>1 DEF SendTypeOK, sendVars
  <2>2. ASSUME NEW mode \in Modes, SetWriteMode(mode) PROVE SendTypeOK'
    BY <2>2 DEF SendTypeOK, SetWriteMode
  <2>3. ASSUME NEW buffer \in Buffers, PutCheck(buffer) PROVE SendTypeOK'
    BY <2>3, PutsAssumption DEF SendTypeOK, PutCheck
  <2>4. CASE PutSend
    <3>1. putting \in Buffers
      BY <2>4 DEF SendTypeOK, PutSend
    <3>2. Message(write_mode, putting)
            \in [data : Seq(Bytes), text : BOOLEAN]
      BY <3>1, MessageType DEF SendTypeOK
    <3> QED
      BY <2>4, <3>1, <3>2 DEF SendTypeOK, PutSend
  <2>5. CASE PutThrows
    BY <2>5 DEF SendTypeOK, PutThrows
  <2> QED
    BY <2>1, <2>2, <2>3, <2>4, <2>5 DEF SendNext, Put, allVars
<1> QED
  BY <1>1, <1>2, PTL DEF SendSpec

\* A _close that returned has closed the channel, whatever it raced.
Closed == close_result = "returned" => lib = "closed"

LEMMA ReturnedClosed == Spec => []Closed
<1>1. Init => Closed
  BY DEF Init, Closed
<1>2. IndInv /\ Closed /\ [Next]_vars => Closed'
  <2> SUFFICES ASSUME IndInv, Closed, [Next]_vars PROVE Closed'
    OBVIOUS
  <2>1. CASE Library
    BY <2>1 DEF Closed, Library, LibOpen, LibClosed, LibMessage, CallOnMessage,
       CallNotification
  <2>2. ASSUME NEW p \in Procs, CallbackStep(p) PROVE Closed'
    BY <2>2 DEF Closed, CallbackStep, LockState, LockMutex, PushPacket,
       StoreCount, StoreState, ReleaseState
  <2>3. CASE Methods
    BY <2>3 DEF Closed, Methods, BindChannel, Bind, GetAvailablePacketCount,
       GetPacketLock, GetPacketStep, GetPacketEmpty, GetPacketCount,
       GetPacketPop
  <2>4. CASE Close
    BY <2>4 DEF IndInv, Closing, Closed, Close, CloseCall, CloseStep,
       CloseMark, CloseDone, Destroy, ClearCallback, CloseThrows, CloseReturn
  <2>5. CASE UNCHANGED vars
    BY <2>5 DEF vars, Closed
  <2> QED
    BY <2>1, <2>2, <2>3, <2>4, <2>5 DEF Next, Script
<1> QED
  BY Invariance, <1>1, <1>2, PTL DEF Spec

\* A script that can see CLOSED, or whose _close returned, has no further
\* packet accepted: the cached state runs behind the channel, never ahead.
THEOREM NoPacketAfterClosed == SendSpec => NoneAcceptedAfterClosed
<1> DEFINE Refused == accepted' # accepted =>
                        channel_state # "CLOSED" /\ close_result # "returned"
<1>1. ASSUME ReportedStateTrue, Closed, [SendNext]_allVars
      PROVE  [Refused]_allVars
  <2>1. ASSUME SendNext, accepted' # accepted PROVE PutSend
    BY <2>1 DEF SendNext, SetWriteMode, Put, PutCheck, PutThrows, sendVars
  <2>2. PutSend => Refused
    BY <1>1 DEF PutSend, ReportedStateTrue, Closed
  <2> QED
    BY <1>1, <2>1, <2>2
<1> QED
  BY <1>1, SendingHarmless, TrueState, ReturnedClosed, PTL
  DEF SendSpec, NoneAcceptedAfterClosed

\* What send() is given carries what _put_packet was given.
LEMMA MessageCarries ==
  ASSUME NEW mode \in WriteModes, NEW buffer \in Buffers
  PROVE  Carries(Message(mode, buffer), [buffer |-> buffer, mode |-> mode])
<1>1. buffer \in Seq(Bytes)
  BY BuffersAssumption
<1>2. CASE mode = "BINARY"
  BY <1>1, <1>2 DEF Message, Carries
<1>3. CASE mode = "TEXT"
  <2>1. DOMAIN buffer = 1 .. Len(buffer) /\ Len(buffer) \in Nat
    BY <1>1
  <2>2. Message(mode, buffer) = [data |-> CopyText(buffer), text |-> TRUE]
    BY <1>3 DEF Message
  <2>3. CopyText(buffer) \in Seq(Bytes)
    BY <1>3, <2>2, MessageType
  <2>4. DOMAIN CopyText(buffer) = 1 .. Len(buffer)
    BY <2>1 DEF CopyText
  <2>5. Len(CopyText(buffer)) = Len(buffer)
    BY <2>1, <2>3, <2>4
  <2>6. \A j \in 1 .. Len(buffer) :
          CopyText(buffer)[j] # buffer[j] => \E k \in 1 .. j : buffer[k] = 0
    BY <2>1 DEF CopyText
  <2>7. /\ Message(mode, buffer).text = TRUE
        /\ Message(mode, buffer).data = CopyText(buffer)
    BY <2>2
  <2> QED
    BY <1>3, <2>5, <2>6, <2>7, Zenon DEF Carries
<1> QED
  BY <1>2, <1>3 DEF WriteModes

\* No packet that was accepted is lost, and none reaches the library changed
\* but for what follows a NUL in a text.
THEOREM AcceptedSent == SendSpec => []AcceptedIsSent
<1>1. SendInit => AcceptedIsSent
  BY DEF SendInit, AcceptedIsSent
<1>2. SendTypeOK /\ AcceptedIsSent /\ [SendNext]_allVars => AcceptedIsSent'
  <2> SUFFICES ASSUME SendTypeOK, AcceptedIsSent, [SendNext]_allVars
               PROVE  AcceptedIsSent'
    OBVIOUS
  <2>1. CASE UNCHANGED <<outbox, accepted>>
    BY <2>1 DEF AcceptedIsSent
  <2>2. CASE PutSend
    <3> DEFINE packet == [buffer |-> putting, mode |-> write_mode]
               message == Message(write_mode, putting)
    <3>1. putting \in Buffers /\ write_mode \in WriteModes
      BY <2>2 DEF PutSend, SendTypeOK
    <3>2. Carries(message, packet)
      BY <3>1, MessageCarries
    <3>3. /\ outbox' = Append(outbox, message)
          /\ accepted' = Append(accepted, packet)
      BY <2>2 DEF PutSend
    <3> HIDE DEF packet, message
    <3>4. /\ Len(outbox') = Len(outbox) + 1
          /\ Len(accepted') = Len(accepted) + 1
          /\ \A i \in 1 .. Len(outbox) : outbox'[i] = outbox[i]
          /\ \A i \in 1 .. Len(accepted) : accepted'[i] = accepted[i]
          /\ outbox'[Len(outbox) + 1] = message
          /\ accepted'[Len(accepted) + 1] = packet
      BY <3>3 DEF SendTypeOK
    <3>5. Len(accepted) \in Nat /\ Len(accepted) = Len(outbox)
      BY DEF SendTypeOK, AcceptedIsSent
    <3>6. \A i \in 1 .. Len(accepted) + 1 : Carries(outbox'[i], accepted'[i])
      BY <3>2, <3>4, <3>5 DEF AcceptedIsSent
    <3> QED
      BY <3>4, <3>5, <3>6 DEF AcceptedIsSent, Carries
  <2> QED
    BY <2>1, <2>2
    DEF SendNext, SetWriteMode, Put, PutCheck, PutThrows, sendVars, allVars
<1> QED
  BY <1>1, <1>2, SendTypeCorrect, PTL DEF SendSpec
=============================================================================
