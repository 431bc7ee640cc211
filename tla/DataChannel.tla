---------------------------- MODULE DataChannel -----------------------------
(***************************************************************************)
(* WebRTCLibDataChannel: the Godot object around one rtc::DataChannel.     *)
(*                                                                         *)
(* The object is used by one script thread, Main.  The library runs the    *)
(* callbacks that bind_channel registers on threads of its own.  The two   *)
(* sides meet in a SharedState: a packet queue under a mutex, and two      *)
(* atomics that Main reads without the mutex.  The callbacks hold only a   *)
(* weak_ptr to the SharedState; locking it keeps the state alive for the   *)
(* rest of the callback.  Each access to shared data that another thread   *)
(* can observe separately is a step of its own.                            *)
(*                                                                         *)
(* The library (libdatachannel, a submodule) is modelled from how this     *)
(* code uses it, with few assumptions on its scheduling:                   *)
(*  - a notification or message waits in the library until a callback for  *)
(*    it is registered, and is handed over once, on any library thread;    *)
(*  - calls of one and the same callback do not overlap, and clearing a    *)
(*    callback waits for its running call;                                 *)
(*  - close() runs the closed callback on the calling thread unless the    *)
(*    channel is closed already, then clears the callbacks one by one;     *)
(*  - close() may throw at any point, leaving the rest undone.             *)
(* With SerialNotify the library also hands over `open' and `closed' in    *)
(* that order, one after the other; without it they may overlap.           *)
(***************************************************************************)
EXTENDS Integers, Sequences

CONSTANTS
  Threads,      \* the library's threads
  Main,         \* the thread that runs the script
  Payloads,     \* contents of messages
  NoPacket,     \* current_packet before the first _get_packet
  MaxMessages,  \* bound: messages the peer sends
  SerialNotify  \* library assumption, see above

Procs == Threads \union {Main}
Packets == [data : Payloads, text : BOOLEAN]
Notifications == {"open", "closed"}
Callbacks == Notifications \union {"message"}

ASSUME ProcsAssumption == Main \notin Threads /\ "free" \notin Procs
ASSUME PacketAssumption == NoPacket \notin Packets
ASSUME BoundAssumption == MaxMessages \in Nat
ASSUME SerialAssumption == SerialNotify \in BOOLEAN

VARIABLES
  \* The rtc::DataChannel (external).
  lib,                \* "connecting", "open" or "closed"
  inbox,              \* messages received, not yet handed to onMessage
  arrived,            \* number of messages received so far
  raised,             \* notifications not yet handed over
  registered,         \* callbacks that are set
  \* SharedState.
  mutex,              \* the process holding it, or "free"
  packet_queue,
  available_packets,  \* atomic
  channel_state,      \* atomic
  freed,              \* the last shared_ptr to the state is gone
  \* The callback each process is running, if any.
  callback,           \* which one, or "none"
  at,                 \* where in it the process is
  msg,                \* the message it was called with
  \* The wrapper object, used by Main.
  main,               \* where Main is in the object's methods
  current_packet,
  dying,              \* the running _close is the destructor's
  \* History.
  close_result,       \* how the last _close ended
  raced,              \* it met a notification still on its way
  promised            \* packets announced to the script and not yet taken

libVars   == <<lib, inbox, arrived, raised, registered>>
queueVars == <<mutex, packet_queue, available_packets>>
callVars  == <<callback, at, msg>>
endVars   == <<dying, close_result, raced>>
objVars   == <<main, current_packet, promised, endVars>>
vars == <<libVars, queueVars, channel_state, freed, callVars, objVars>>

\* A process has a shared_ptr from LockState up to ReleaseState.
Holds(p) == at[p] \in {"strong", "mutex", "pushed", "done"}
\* The object itself has one until it is destroyed.
Owned == main # "destroyed"
Running(c) == \E p \in Procs : callback[p] = c

Init ==
  /\ lib = "connecting" /\ inbox = <<>> /\ arrived = 0
  /\ raised = {} /\ registered = {}
  /\ mutex = "free" /\ packet_queue = <<>> /\ available_packets = 0
  /\ channel_state = "CONNECTING" /\ freed = FALSE
  /\ callback = [p \in Procs |-> "none"]
  /\ at = [p \in Procs |-> "idle"]
  /\ msg = [p \in Procs |-> NoPacket]
  /\ main = "unbound" /\ current_packet = NoPacket /\ promised = 0
  /\ dying = FALSE /\ close_result = "none" /\ raced = FALSE

-----------------------------------------------------------------------------
(* Faulty variants: each is one operation below with one plausible bug.    *)
(* Nothing refers to them; put in the place of the operation, each breaks  *)
(* the property that guards against it.                                    *)

\* queue_packet pushes without taking the mutex.
LockMutex_NoMutex(p) ==
  /\ at[p] = "strong" /\ callback[p] = "message"
  /\ at' = [at EXCEPT ![p] = "mutex"]
  /\ UNCHANGED <<libVars, queueVars, channel_state, freed, callback, msg,
                 objVars>>

\* queue_packet publishes the new count before it pushes.
LockMutex_CountFirst(p) ==
  /\ at[p] = "strong" /\ callback[p] = "message"
  /\ mutex = "free"
  /\ mutex' = p
  /\ available_packets' = Len(packet_queue) + 1
  /\ at' = [at EXCEPT ![p] = "mutex"]
  /\ UNCHANGED <<libVars, packet_queue, channel_state, freed, callback, msg,
                 objVars>>

\* The callbacks hold a raw pointer to the state.
LockState_RawPointer(p) ==
  /\ at[p] = "entered"
  /\ at' = [at EXCEPT ![p] = "strong"]
  /\ UNCHANGED <<libVars, queueVars, channel_state, freed, callback, msg,
                 objVars>>

\* onOpen and onClosed are bound to each other's state.
StoreState_Swapped(p) ==
  /\ at[p] = "strong" /\ callback[p] \in Notifications
  /\ channel_state' = IF callback[p] = "open" THEN "CLOSED" ELSE "OPEN"
  /\ at' = [at EXCEPT ![p] = "done"]
  /\ UNCHANGED <<libVars, queueVars, freed, callback, msg, objVars>>

\* bind_channel forgets onClosed.
Bind_NoClosed(from, c, to) ==
  /\ main = from
  /\ registered' = registered \union ({c} \ {"closed"})
  /\ main' = to
  /\ UNCHANGED <<lib, inbox, arrived, raised, queueVars, channel_state, freed,
                 callVars, current_packet, promised, endVars>>

\* _get_packet does not look whether the queue is empty.
GetPacketCount_NoEmptyTest ==
  /\ main = "get"
  /\ available_packets' = Len(packet_queue) - 1
  /\ main' = "get_pop"
  /\ UNCHANGED <<libVars, mutex, packet_queue, channel_state, freed, callVars,
                 current_packet, promised, endVars>>

\* _get_packet returns ERR_UNAVAILABLE with the mutex still locked.
GetPacketEmpty_KeepsMutex ==
  /\ main = "get"
  /\ packet_queue = <<>>
  /\ main' = "idle"
  /\ UNCHANGED <<libVars, queueVars, channel_state, freed, callVars,
                 current_packet, promised, endVars>>

\* _get_packet reads the front of the queue and forgets to pop it.
GetPacketPop_NoPop ==
  /\ main = "get_pop"
  /\ current_packet' = Head(packet_queue)
  /\ promised' = IF promised = 0 THEN 0 ELSE promised - 1
  /\ mutex' = "free"
  /\ main' = "idle"
  /\ UNCHANGED <<libVars, packet_queue, available_packets, channel_state,
                 freed, callVars, endVars>>

\* _close forgets channel->close().
CloseCall_NoClose(destructor) ==
  /\ main = "idle"
  /\ main' = IF destructor THEN "releasing" ELSE "idle"
  /\ dying' = destructor
  /\ close_result' = "returned"
  /\ UNCHANGED <<libVars, queueVars, channel_state, freed, callVars,
                 current_packet, promised, raced>>

\* _close reports CLOSED before it closes the channel.
CloseCall_EagerState(destructor) ==
  /\ main = "idle"
  /\ main' = "closing"
  /\ dying' = destructor
  /\ channel_state' = "CLOSED"
  /\ UNCHANGED <<libVars, queueVars, freed, callVars, current_packet,
                 promised, close_result, raced>>

\* _close holds the mutex while it closes the channel.
CloseCall_UnderMutex(destructor) ==
  /\ main = "idle"
  /\ mutex = "free"
  /\ mutex' = Main
  /\ main' = "closing"
  /\ dying' = destructor
  /\ UNCHANGED <<libVars, packet_queue, available_packets, channel_state,
                 freed, callVars, current_packet, promised, close_result,
                 raced>>

-----------------------------------------------------------------------------
(* The library.                                                            *)

LibOpen ==
  /\ lib = "connecting"
  /\ lib' = "open"
  /\ raised' = raised \union {"open"}
  /\ UNCHANGED <<inbox, arrived, registered, queueVars, channel_state, freed,
                 callVars, objVars>>

\* The peer or the transport closes the channel.
LibClosed ==
  /\ lib # "closed"
  /\ lib' = "closed"
  /\ raised' = raised \union {"closed"}
  /\ UNCHANGED <<inbox, arrived, registered, queueVars, channel_state, freed,
                 callVars, objVars>>

LibMessage(m) ==
  /\ lib = "open"
  /\ arrived < MaxMessages
  /\ arrived' = arrived + 1
  /\ inbox' = Append(inbox, m)
  /\ UNCHANGED <<lib, raised, registered, queueVars, channel_state, freed,
                 callVars, objVars>>

\* A thread of the library enters callback c.
Enter(t, c, m) ==
  /\ at[t] = "idle"
  /\ c \in registered /\ ~Running(c)
  /\ callback' = [callback EXCEPT ![t] = c]
  /\ at' = [at EXCEPT ![t] = "entered"]
  /\ msg' = [msg EXCEPT ![t] = m]

CallOnMessage(t) ==
  /\ inbox # <<>>
  /\ Enter(t, "message", Head(inbox))
  /\ inbox' = Tail(inbox)
  /\ UNCHANGED <<lib, arrived, raised, registered, queueVars, channel_state,
                 freed, objVars>>

MayNotify(c) ==
  SerialNotify =>
    /\ \A t \in Threads : callback[t] \notin Notifications
    /\ c = "closed" => "open" \notin raised

CallNotification(t, c) ==
  /\ c \in raised
  /\ MayNotify(c)
  /\ Enter(t, c, NoPacket)
  /\ raised' = raised \ {c}
  /\ UNCHANGED <<lib, inbox, arrived, registered, queueVars, channel_state,
                 freed, objVars>>

-----------------------------------------------------------------------------
(* The callbacks: queue_packet for messages, set_state for notifications.  *)

\* The callback returns to the library.
Leave(p) ==
  /\ callback' = [callback EXCEPT ![p] = "none"]
  /\ at' = [at EXCEPT ![p] = "idle"]
  /\ msg' = [msg EXCEPT ![p] = NoPacket]

\* s.lock() gives a shared_ptr, or nullptr once the state is freed.
LockState(p) ==
  /\ at[p] = "entered"
  /\ IF freed
       THEN Leave(p)
       ELSE at' = [at EXCEPT ![p] = "strong"] /\ UNCHANGED <<callback, msg>>
  /\ UNCHANGED <<libVars, queueVars, channel_state, freed, objVars>>

LockMutex(p) ==
  /\ at[p] = "strong" /\ callback[p] = "message"
  /\ mutex = "free"
  /\ mutex' = p
  /\ at' = [at EXCEPT ![p] = "mutex"]
  /\ UNCHANGED <<libVars, packet_queue, available_packets, channel_state,
                 freed, callback, msg, objVars>>

QueuedPacket(data, is_string) == [data |-> data, text |-> is_string]

PushPacket(p) ==
  /\ at[p] = "mutex"
  /\ packet_queue' =
       Append(packet_queue, QueuedPacket(msg[p].data, msg[p].text))
  /\ at' = [at EXCEPT ![p] = "pushed"]
  /\ UNCHANGED <<libVars, mutex, available_packets, channel_state, freed,
                 callback, msg, objVars>>

\* Publishes the new count; leaving the scope unlocks the mutex.
StoreCount(p) ==
  /\ at[p] = "pushed"
  /\ available_packets' = Len(packet_queue)
  /\ mutex' = "free"
  /\ at' = [at EXCEPT ![p] = "done"]
  /\ UNCHANGED <<libVars, packet_queue, channel_state, freed, callback, msg,
                 objVars>>

StoreState(p) ==
  /\ at[p] = "strong" /\ callback[p] \in Notifications
  /\ channel_state' = IF callback[p] = "open" THEN "OPEN" ELSE "CLOSED"
  /\ at' = [at EXCEPT ![p] = "done"]
  /\ UNCHANGED <<libVars, queueVars, freed, callback, msg, objVars>>

\* p_state goes out of scope; the last shared_ptr frees the state.
ReleaseState(p) ==
  /\ at[p] = "done"
  /\ Leave(p)
  /\ freed' = (~Owned /\ \A q \in Procs \ {p} : ~Holds(q))
  /\ UNCHANGED <<libVars, queueVars, channel_state, objVars>>

CallbackStep(p) ==
  \/ LockState(p) \/ LockMutex(p) \/ PushPacket(p)
  \/ StoreCount(p) \/ StoreState(p) \/ ReleaseState(p)

-----------------------------------------------------------------------------
(* The object's methods, on Main.                                          *)

\* bind_channel registers one callback after the other.
Bind(from, c, to) ==
  /\ main = from
  /\ registered' = registered \union {c}
  /\ main' = to
  /\ UNCHANGED <<lib, inbox, arrived, raised, queueVars, channel_state, freed,
                 callVars, current_packet, promised, endVars>>

BindChannel ==
  \/ Bind("unbound", "message", "bind_open")
  \/ Bind("bind_open", "open", "bind_closed")
  \/ Bind("bind_closed", "closed", "idle")

\* _get_available_packet_count reads the atomic, without the mutex.
GetAvailablePacketCount ==
  /\ main = "idle"
  /\ promised' = available_packets
  /\ UNCHANGED <<libVars, queueVars, channel_state, freed, callVars, main,
                 current_packet, endVars>>

GetPacketLock ==
  /\ main = "idle"
  /\ mutex = "free"
  /\ mutex' = Main
  /\ main' = "get"
  /\ UNCHANGED <<libVars, packet_queue, available_packets, channel_state,
                 freed, callVars, current_packet, promised, endVars>>

\* ERR_UNAVAILABLE.
GetPacketEmpty ==
  /\ main = "get"
  /\ packet_queue = <<>>
  /\ mutex' = "free"
  /\ main' = "idle"
  /\ UNCHANGED <<libVars, packet_queue, available_packets, channel_state,
                 freed, callVars, current_packet, promised, endVars>>

GetPacketCount ==
  /\ main = "get"
  /\ packet_queue # <<>>
  /\ available_packets' = Len(packet_queue) - 1
  /\ main' = "get_pop"
  /\ UNCHANGED <<libVars, mutex, packet_queue, channel_state, freed, callVars,
                 current_packet, promised, endVars>>

GetPacketPop ==
  /\ main = "get_pop"
  /\ current_packet' = Head(packet_queue)
  /\ packet_queue' = Tail(packet_queue)
  /\ promised' = IF promised = 0 THEN 0 ELSE promised - 1
  /\ mutex' = "free"
  /\ main' = "idle"
  /\ UNCHANGED <<libVars, available_packets, channel_state, freed, callVars,
                 endVars>>

GetPacketStep == GetPacketEmpty \/ GetPacketCount \/ GetPacketPop

\* _close, called by the script or by the destructor.
CloseCall(destructor) ==
  /\ main = "idle"
  /\ main' = "closing"
  /\ dying' = destructor
  /\ UNCHANGED <<libVars, queueVars, channel_state, freed, callVars,
                 current_packet, promised, close_result, raced>>

\* Inside channel->close(): closing runs the closed callback on Main.
CloseMark ==
  /\ main = "closing"
  /\ lib' = "closed"
  /\ raced' = \/ "open" \in raised \/ Running("open")
              \/ lib = "closed" /\ channel_state # "CLOSED"
  /\ IF lib # "closed" /\ "closed" \in registered
       THEN /\ callback' = [callback EXCEPT ![Main] = "closed"]
            /\ at' = [at EXCEPT ![Main] = "entered"]
       ELSE UNCHANGED <<callback, at>>
  /\ main' = "clearing"
  /\ UNCHANGED <<inbox, arrived, raised, registered, msg, queueVars,
                 channel_state, freed, current_packet, promised, dying,
                 close_result>>

ClearCallback(c) ==
  /\ main = "clearing" /\ at[Main] = "idle"
  /\ c \in registered /\ ~Running(c)
  /\ registered' = registered \ {c}
  /\ UNCHANGED <<lib, inbox, arrived, raised, queueVars, channel_state, freed,
                 callVars, objVars>>

\* _close returns, to the script or to the rest of the destructor.
CloseReturn(result) ==
  /\ at[Main] = "idle"
  /\ main' = IF dying THEN "releasing" ELSE "idle"
  /\ close_result' = result
  /\ UNCHANGED <<libVars, queueVars, channel_state, freed, callVars,
                 current_packet, promised, dying, raced>>

CloseDone ==
  /\ main = "clearing" /\ registered = {}
  /\ CloseReturn("returned")

\* channel->close() throws; catch (...) swallows it.
CloseThrows ==
  /\ main \in {"closing", "clearing"}
  /\ CloseReturn("threw")

\* The destructor drops the members, shared_state among them.
Destroy ==
  /\ main = "releasing"
  /\ main' = "destroyed"
  /\ current_packet' = NoPacket
  /\ freed' = (\A p \in Procs : ~Holds(p))
  /\ UNCHANGED <<libVars, queueVars, channel_state, callVars, promised,
                 endVars>>

CloseStep ==
  \/ CloseMark \/ CloseDone \/ Destroy
  \/ \E c \in Callbacks : ClearCallback(c)

-----------------------------------------------------------------------------
Library ==
  \/ LibOpen \/ LibClosed
  \/ \E m \in Packets : LibMessage(m)
  \/ \E t \in Threads :
       CallOnMessage(t) \/ \E c \in Notifications : CallNotification(t, c)

Methods ==
  BindChannel \/ GetAvailablePacketCount \/ GetPacketLock \/ GetPacketStep

Close == (\E d \in BOOLEAN : CloseCall(d)) \/ CloseStep \/ CloseThrows

Script == Methods \/ Close

Next ==
  \/ Library
  \/ \E p \in Procs : CallbackStep(p)
  \/ Script

Spec == Init /\ [][Next]_vars

\* The script keeps fetching packets, the library keeps handing over what it
\* has, and no thread stops inside a method or a callback.  A thread waiting
\* for the mutex gets it if the mutex is free again and again.
Fairness ==
  /\ \A p \in Procs : WF_vars(CallbackStep(p)) /\ SF_vars(LockMutex(p))
  /\ WF_vars(\E t \in Threads : CallOnMessage(t))
  /\ \A c \in Notifications :
       WF_vars(\E t \in Threads : CallNotification(t, c))
  /\ WF_vars(BindChannel) /\ WF_vars(CloseStep)
  /\ SF_vars(GetPacketLock) /\ WF_vars(GetPacketStep)

FairSpec == Spec /\ Fairness

-----------------------------------------------------------------------------
(* Properties.                                                             *)

\* The values each variable can have.
TypeOK ==
  /\ lib \in {"connecting", "open", "closed"}
  /\ inbox \in Seq(Packets) /\ arrived \in Nat
  /\ raised \subseteq Notifications /\ registered \subseteq Callbacks
  /\ mutex \in Procs \union {"free"}
  /\ packet_queue \in Seq(Packets) /\ available_packets \in Nat
  /\ channel_state \in {"CONNECTING", "OPEN", "CLOSED"} /\ freed \in BOOLEAN
  /\ callback \in [Procs -> Callbacks \union {"none"}]
  /\ at \in [Procs ->
               {"idle", "entered", "strong", "mutex", "pushed", "done"}]
  /\ msg \in [Procs -> Packets \union {NoPacket}]
  /\ main \in {"unbound", "bind_open", "bind_closed", "idle", "get",
               "get_pop", "closing", "clearing", "releasing", "destroyed"}
  /\ current_packet \in Packets \union {NoPacket} /\ promised \in Nat
  /\ dying \in BOOLEAN /\ raced \in BOOLEAN
  /\ close_result \in {"none", "returned", "threw"}

\* The count that is read without the mutex never runs ahead of the queue,
\* at any point of a push or a pop, and is exact while nobody holds the
\* mutex.  (queue_packet stores it after the push, _get_packet before the
\* pop.)
CountHonest ==
  /\ available_packets <= Len(packet_queue)
  /\ mutex = "free" => available_packets = Len(packet_queue)

\* A script that read a count of n can call _get_packet n times without
\* meeting ERR_UNAVAILABLE, whatever the callbacks do in between.
PromiseKept == promised <= Len(packet_queue)

\* Nobody works on a SharedState that has been freed: a callback that starts
\* or goes on after the destructor either finds its weak_ptr expired or keeps
\* the state alive.  This must hold when close() threw and the callbacks are
\* still registered.
NoUseAfterFree == freed => ~Owned /\ \A p \in Procs : ~Holds(p)

\* The cached channel_state reports what has happened to the channel: OPEN
\* only once it has opened or closed, CLOSED only once it is closed.
ReportedStateTrue ==
  /\ channel_state = "OPEN" => lib # "connecting"
  /\ channel_state = "CLOSED" => lib = "closed"

\* A _close that returned normally leaves the state CLOSED, unless it raced a
\* notification: an open still on its way, or a remote close whose
\* notification had not been stored yet.
CloseReported == close_result = "returned" /\ ~raced => channel_state = "CLOSED"

\* After a _close that returned normally no callback changes the object any
\* more: "binding this should be fine as long as we call close".
SilentAfterClose ==
  [][close_result = "returned" =>
       /\ channel_state' = channel_state
       /\ Len(packet_queue') <= Len(packet_queue)]_vars

\* CLOSED is final: set_state stores whatever it is given, and yet the state
\* returns to OPEN only during _close, or after one that threw.
ClosedIsFinal ==
  [][channel_state = "CLOSED" /\ channel_state' # "CLOSED" =>
       main = "clearing" \/ close_result = "threw"]_vars

\* The message callback between being called and pushing its packet.
Carriers == { p \in Procs : /\ callback[p] = "message"
                            /\ at[p] \in {"entered", "strong", "mutex"} }
InFlight == IF Carriers = {} THEN <<>> ELSE <<msg[CHOOSE p \in Carriers : TRUE]>>

Pipe == INSTANCE PacketPipe WITH
  transit <- IF Owned THEN packet_queue \o InFlight \o inbox ELSE <<>>,
  last <- current_packet,
  ended <- ~Owned

\* From the library's queue through the callback and packet_queue to the
\* script, no packet is lost, doubled, overtaken or given the wrong
\* text/binary mark: queue, callback and library together are one pipe.
ImplementsPipe == Pipe!Spec

CloseCalled ==
  \/ close_result # "none"
  \/ main \in {"closing", "clearing", "releasing", "destroyed"}

\* _close comes back: it never waits for a callback that waits for it.
CloseReturns ==
  main \in {"closing", "clearing", "releasing"} ~>
    main \in {"idle", "destroyed"}

\* When the channel closes by itself, _get_ready_state comes to say so.
RemoteCloseReported ==
  lib = "closed" ~> channel_state = "CLOSED" \/ CloseCalled

\* A script that keeps calling _get_packet gets everything that arrives.
PacketsReachScript ==
  inbox # <<>> ~>
    \/ inbox = <<>> /\ packet_queue = <<>> /\ ~Running("message")
    \/ CloseCalled

-----------------------------------------------------------------------------
(* Why the safety properties hold: an inductive invariant that implies     *)
(* them, in parts.                                                         *)

\* Who holds the mutex can be read off where the processes are.
Locking ==
  /\ mutex = Main <=> main \in {"get", "get_pop"}
  /\ \A t \in Threads : mutex = t <=> at[t] \in {"mutex", "pushed"}

\* Each process runs one callback at a time, one that is still bound, and
\* Main only `closed', which runs inside _close; the calls of the message
\* callback do not overlap.
Calling ==
  /\ \A p \in Procs :
       /\ at[p] = "idle" <=> callback[p] = "none"
       /\ at[p] \in {"mutex", "pushed"} => callback[p] = "message"
       /\ callback[p] = "message" => msg[p] \in Packets
       /\ callback[p] # "none" => callback[p] \in registered
  /\ callback[Main] \in {"none", "closed"}
  /\ callback[Main] = "closed" => main = "clearing"
  /\ \A p, q \in Procs :
       callback[p] = "message" /\ callback[q] = "message" => p = q

\* One packet is being pushed or popped and not counted.
Uncounted ==
  \/ main = "get_pop"
  \/ \E t \in Threads : at[t] = "pushed"

Counting ==
  /\ Uncounted => packet_queue # <<>>
  /\ available_packets =
       IF Uncounted THEN Len(packet_queue) - 1 ELSE Len(packet_queue)

\* A notification on its way says what has happened to the channel.
Notifying ==
  /\ "open" \in raised \/ Running("open") => lib # "connecting"
  /\ "closed" \in raised \/ Running("closed") => lib = "closed"

\* Until close() has closed the channel its callbacks are all bound; from
\* then on, unless a notification raced it, CLOSED is stored or about to be,
\* and nothing is left that could store OPEN.
NoOpenLeft == "open" \notin raised /\ ~Running("open")
ClosedStored == lib = "closed" /\ NoOpenLeft /\ channel_state = "CLOSED"
Closing ==
  /\ main \in {"idle", "get", "get_pop", "closing"} /\ lib # "closed" =>
       "closed" \in registered
  /\ main = "clearing" =>
       /\ lib = "closed"
       /\ ~raced => /\ NoOpenLeft
                    /\ \/ channel_state = "CLOSED"
                       \/ at[Main] \in {"entered", "strong"}
  /\ close_result = "returned" =>
       /\ registered = {} /\ main \notin {"unbound", "bind_open", "bind_closed"}
       /\ ~raced => ClosedStored

\* The parts together: the mutex and the callbacks explain the count, the
\* weak pointers the lifetime, and the notifications the reported state.
IndInv ==
  /\ TypeOK /\ Locking /\ Calling /\ Counting /\ PromiseKept
  /\ NoUseAfterFree /\ Notifying /\ ReportedStateTrue /\ Closing

\* What the library's order of notifications adds (SerialNotify): one at a
\* time, and no `open' is left once a thread delivers `closed'.  CLOSED is
\* stored ahead of an `open' only by Main, inside a _close.
ClosedComesLast ==
  /\ \A t, u \in Threads :
       callback[t] \in Notifications /\ callback[u] \in Notifications => t = u
  /\ (\E t \in Threads : callback[t] = "closed") => NoOpenLeft
  /\ channel_state = "CLOSED" =>
       NoOpenLeft \/ main = "clearing" \/ close_result # "none"
=============================================================================
