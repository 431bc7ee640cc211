-------------------------- MODULE ReceivedChannels ---------------------------
(***************************************************************************)
(* Channels that the other peer opens, on their way to the script.  On a   *)
(* thread of the library onDataChannel wraps the channel, before it knows  *)
(* whether the session still exists, and queues a task that holds the      *)
(* wrapper by a Ref.  When the last reference goes, wherever that is, the  *)
(* wrapper's destructor closes the channel.                                *)
(*                                                                         *)
(* Every step is one of PeerConnection.  A channel is the number it has in *)
(* `received'; wrappers are counted by what refers to them, see Referenced.*)
(***************************************************************************)
EXTENDS PeerConnection

VARIABLES
  received,  \* the session of each channel received
  wraps,     \* the channel of each thread's last callback, 0 for none
  carries,   \* the channel of each task, 0 for none; parallel to pushes
  given,     \* channels that were emitted
  held       \* channels to which the script keeps a reference

channelVars == <<received, wraps, carries, given, held>>
receivedVars == <<vars, channelVars>>

Channels == 1 .. Len(received)

ReceivedInit ==
  /\ Init
  /\ received = <<>> /\ carries = <<>>
  /\ wraps = [t \in Threads |-> 0]
  /\ given = {} /\ held = {}

-----------------------------------------------------------------------------
(* The wrappers' references.                                               *)

\* Tasks that exist: in the queue of a state, which is empty once the state
\* is freed, or in the local_queue of a running poll.
InMemory ==
  UNION ({ToSet(queue[s]) : s \in Sessions}
         \union {ToSet(frames[f]) : f \in DOMAIN frames})

\* Faulty variant: the callback keeps the wrapper by a plain pointer, and only
\* the script has a Ref to it.
Referenced_Pointer(c) == c \notin given \/ c \in held

\* Until it returns the callback has a reference, ch; its task another.
Referenced(c) ==
  \/ \E t \in Threads : at[t] # "idle" /\ wraps[t] = c
  \/ \E n \in InMemory : carries[n] = c
  \/ c \in held

\* The last reference is gone: the destructor has called close().
Closed(c) == c \in Channels /\ ~Referenced(c)

-----------------------------------------------------------------------------
(* What each step of the peer connection does to channels.                 *)

\* onDataChannel.
ReceiveChannel(t, s) ==
  /\ Event(t, s)
  /\ received' = Append(received, s)
  /\ wraps' = [wraps EXCEPT ![t] = Len(received')]
  /\ UNCHANGED <<carries, given, held>>

\* onLocalDescription and onLocalCandidate.
OtherEvent(t, s) ==
  /\ Event(t, s)
  /\ wraps' = [wraps EXCEPT ![t] = 0]
  /\ UNCHANGED <<received, carries, given, held>>

PushChannel(t) ==
  /\ PushTask(t)
  /\ carries' = Append(carries, wraps[t])
  /\ UNCHANGED <<received, wraps, given, held>>

\* The handler keeps the channel it is given, or not.
EmitChannel(keep) ==
  /\ EmitSignal
  /\ LET c == carries[Head(Top)] IN
       /\ given' = IF c = 0 THEN given ELSE given \union {c}
       /\ held' = IF c # 0 /\ keep THEN held \union {c} ELSE held
  /\ UNCHANGED <<received, wraps, carries>>

\* The script drops a channel, perhaps after the peer connection.
DropChannel(c) ==
  /\ main \in {"script", "destroyed"}
  /\ c \in held
  /\ held' = held \ {c}
  /\ UNCHANGED <<vars, received, wraps, carries, given>>

ChannelStep ==
  \/ \E t \in Threads :
       \/ \E s \in Sessions : ReceiveChannel(t, s) \/ OtherEvent(t, s)
       \/ PushChannel(t)
  \/ \E keep \in BOOLEAN : EmitChannel(keep)
  \/ \E c \in held : DropChannel(c)

\* The steps in which no channel changes hands; Closed says what they destroy.
OtherStep ==
  /\ \/ \E t \in Threads : LockState(t) \/ LockMutex(t) \/ ReleaseState(t)
     \/ PollCall \/ PollLock \/ PollSwap \/ HandlerReturn \/ PollReturn
     \/ Manage
  /\ UNCHANGED channelVars

ReceivedNext == ChannelStep \/ OtherStep

ReceivedSpec == ReceivedInit /\ [][ReceivedNext]_receivedVars

ReceivedFairSpec == ReceivedSpec /\ Fairness

-----------------------------------------------------------------------------
(* Properties.                                                             *)

\* The values each variable can have.
ReceivedTypeOK ==
  /\ received \in Seq(Sessions)
  /\ wraps \in [Threads -> 0 .. Len(received)]
  /\ carries \in [Tasks -> 0 .. Len(received)]
  /\ given \subseteq Channels /\ held \subseteq given

\* A channel that the script was never given is closed only if its session
\* has ended: the script cannot miss one of the connection it has.
DroppedOnlyIfEnded ==
  \A c \in Channels :
    Closed(c) /\ c \notin given => received[c] # state \/ main = "destroyed"

\* close() may wait for a callback of the channel.  Whichever thread destroys
\* a wrapper does not hold the mutex of a SharedState meanwhile.
Acts(p) == IF p = Main THEN at' = at ELSE at'[p] # at[p]

ClosedWithoutMutex ==
  [][(\E c \in Channels : ~Closed(c) /\ Closed(c)') =>
       \A p \in Procs : Acts(p) => \A s \in Sessions : mutex[s] # p]_receivedVars

\* No received channel stays open behind the script's back: it is given to
\* the script, or closed because its session has ended.
ChannelSettled ==
  \A c \in 1 .. MaxEvents :
    c \in Channels ~> c \in given \/ Closed(c)
=============================================================================
