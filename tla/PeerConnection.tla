--------------------------- MODULE PeerConnection ---------------------------
(***************************************************************************)
(* WebRTCLibPeerConnection: the Godot object around an rtc::PeerConnection *)
(* and the queue through which the library's callbacks reach the script.   *)
(*                                                                         *)
(* A callback does not emit its signal: on a thread of the library it puts *)
(* a task in the queue of a SharedState, and _poll, on the script's thread *)
(* Main, swaps the queue for an empty one under the mutex and runs the     *)
(* tasks without it.  A task emits a signal; the script's handler may call *)
(* any method of the object, _poll, _close and _initialize among them, so  *)
(* polls nest.  Each _close ends a session: it replaces the SharedState,   *)
(* and what callbacks of the old session queue later goes nowhere.         *)
(*                                                                         *)
(* States and connections are numbered by session: _close number s makes   *)
(* state s, and the connection created after it is connection s, whose     *)
(* callbacks hold a weak_ptr to state s.  A task is the number it has in   *)
(* `pushes', the history of all queue_task calls.                          *)
(*                                                                         *)
(* The library (libdatachannel, a submodule) is modelled from how this     *)
(* code uses it, with few assumptions: once negotiation has started its    *)
(* callbacks come at any time, on any thread, several at once, and also    *)
(* after close() has returned.                                             *)
(***************************************************************************)
EXTENDS Integers, Sequences, SequencesExt

CONSTANTS
  Threads,      \* the library's threads
  Main,         \* the thread that runs the script
  MaxSessions,  \* bound: calls of _close, the constructor's among them
  MaxEvents,    \* bound: events the library reports
  MaxDepth      \* bound: polls inside each other

Procs == Threads \union {Main}
Sessions == 1 .. MaxSessions

ASSUME ProcsAssumption == Main \notin Threads /\ "free" \notin Procs
ASSUME BoundsAssumption ==
  MaxSessions \in Nat \ {0} /\ MaxEvents \in Nat /\ MaxDepth \in Nat \ {0}

VARIABLES
  \* The object.
  main,       \* where Main is; "script" is in the script's own code
  after,      \* where the running _close goes on
  frames,     \* the running polls, the innermost one last
  state,      \* the session of shared_state, 0 for nullptr
  pc,         \* the session of peer_connection, 0 for nullptr
  \* The SharedStates.
  queue,      \* tasks_queue of each session's state
  mutex,      \* of each session's state: who holds it, or "free"
  \* The library (external) and its callbacks.
  started,    \* connections whose negotiation has started
  events,     \* number of events reported so far
  at,         \* where each thread is in a callback, or "idle"
  of,         \* the session of that callback's connection
  \* History.
  pushes,     \* the session of each task pushed so far
  emitted,    \* the tasks whose signal was emitted
  nested,     \* a handler has called _poll
  finished    \* the last session that was closed outside any handler

objVars   == <<main, after, frames, state, pc>>
stateVars == <<queue, mutex>>
libVars   == <<started, events, at, of>>
histVars  == <<pushes, emitted, nested, finished>>
vars == <<objVars, stateVars, libVars, histVars>>

Holds(t, s) == at[t] \in {"strong", "locked", "done"} /\ of[t] = s
Owned(s) == s = state /\ main # "destroyed"
Alive(s) == Owned(s) \/ \E t \in Threads : Holds(t, s)

Init ==
  /\ main = "new" /\ after = "parse" /\ frames = <<>>
  /\ state = 0 /\ pc = 0
  /\ queue = [s \in Sessions |-> <<>>]
  /\ mutex = [s \in Sessions |-> "free"]
  /\ started = {} /\ events = 0
  /\ at = [t \in Threads |-> "idle"] /\ of = [t \in Threads |-> 0]
  /\ pushes = <<>> /\ emitted = <<>> /\ nested = FALSE /\ finished = 0

-----------------------------------------------------------------------------
(* Faulty variants: each is one operation below with one plausible bug.    *)
(* Nothing refers to them; put in the place of the operation, each breaks  *)
(* the property that guards against it.                                    *)

\* The callbacks lock the object's present state, not their session's.
LockState_Present(t) ==
  /\ at[t] = "entered"
  /\ at' = [at EXCEPT ![t] = "strong"]
  /\ of' = [of EXCEPT ![t] = state]
  /\ UNCHANGED <<objVars, stateVars, started, events, histVars>>

\* Tasks are stacked, not queued.
PushTask_Stack(t) ==
  /\ at[t] = "locked"
  /\ pushes' = Append(pushes, of[t])
  /\ queue' = [queue EXCEPT ![of[t]] = <<Len(pushes')>> \o @]
  /\ mutex' = [mutex EXCEPT ![of[t]] = "free"]
  /\ at' = [at EXCEPT ![t] = "done"]
  /\ UNCHANGED <<objVars, started, events, of, emitted, nested, finished>>

\* _poll copies the queue and does not empty it.
PollSwap_Copy ==
  /\ main = "swap"
  /\ frames' = Append(frames, queue[state])
  /\ mutex' = [mutex EXCEPT ![state] = "free"]
  /\ main' = "loop"
  /\ UNCHANGED <<after, state, pc, queue, libVars, histVars>>

\* _poll holds the mutex while the handlers run.
PollSwap_KeepsMutex ==
  /\ main = "swap"
  /\ frames' = Append(frames, queue[state])
  /\ queue' = [queue EXCEPT ![state] = <<>>]
  /\ main' = "loop"
  /\ UNCHANGED <<after, state, pc, mutex, libVars, histVars>>

\* _poll runs the first of the tasks it has taken and forgets the others.
HandlerReturn_Once ==
  /\ main = "script" /\ frames # <<>>
  /\ frames' = Append(Front(frames), <<>>)
  /\ main' = "loop"
  /\ UNCHANGED <<after, state, pc, stateVars, libVars, histVars>>

\* _poll empties the queue after the handlers have run, not before.
PollReturn_Clear ==
  /\ main = "loop" /\ Last(frames) = <<>>
  /\ frames' = Front(frames)
  /\ queue' = [queue EXCEPT ![state] = <<>>]
  /\ main' = "script"
  /\ UNCHANGED <<after, state, pc, mutex, libVars, histVars>>

\* _close hands the queued tasks on to the new state.
CloseReset_CarryOver ==
  /\ main = "close"
  /\ state' = state + 1
  /\ queue' = [s \in Sessions |->
                 IF s = state + 1 /\ state # 0 THEN queue[state] ELSE queue[s]]
  /\ finished' = IF frames = <<>> THEN state ELSE finished
  /\ main' = after
  /\ UNCHANGED <<after, frames, pc, mutex, libVars, pushes, emitted, nested>>

-----------------------------------------------------------------------------
(* The callbacks of the library: onLocalDescription, onLocalCandidate and  *)
(* onDataChannel, each of which makes a task and hands it to queue_task.   *)

\* The library reports an event of connection s on thread t.
Event(t, s) ==
  /\ at[t] = "idle"
  /\ s \in started
  /\ events < MaxEvents
  /\ events' = events + 1
  /\ at' = [at EXCEPT ![t] = "entered"]
  /\ of' = [of EXCEPT ![t] = s]
  /\ UNCHANGED <<objVars, stateVars, started, histVars>>

\* s.lock(): nullptr, and the task is dropped, when the state is gone.
LockState(t) ==
  /\ at[t] = "entered"
  /\ at' = [at EXCEPT ![t] = IF Alive(of[t]) THEN "strong" ELSE "idle"]
  /\ UNCHANGED <<objVars, stateVars, started, events, of, histVars>>

LockMutex(t) ==
  /\ at[t] = "strong"
  /\ mutex[of[t]] = "free"
  /\ mutex' = [mutex EXCEPT ![of[t]] = t]
  /\ at' = [at EXCEPT ![t] = "locked"]
  /\ UNCHANGED <<objVars, queue, started, events, of, histVars>>

PushTask(t) ==
  /\ at[t] = "locked"
  /\ pushes' = Append(pushes, of[t])
  /\ queue' = [queue EXCEPT ![of[t]] = Append(@, Len(pushes'))]
  /\ mutex' = [mutex EXCEPT ![of[t]] = "free"]
  /\ at' = [at EXCEPT ![t] = "done"]
  /\ UNCHANGED <<objVars, started, events, of, emitted, nested, finished>>

\* The shared_ptr of the callback goes; the last one frees state and tasks.
ReleaseState(t) ==
  /\ at[t] = "done"
  /\ at' = [at EXCEPT ![t] = "idle"]
  /\ queue' = [s \in Sessions |->
                 IF \/ s # of[t] \/ Owned(s)
                    \/ \E u \in Threads \ {t} : Holds(u, s)
                   THEN queue[s] ELSE <<>>]
  /\ UNCHANGED <<objVars, mutex, started, events, of, histVars>>

CallbackStep(t) ==
  LockState(t) \/ LockMutex(t) \/ PushTask(t) \/ ReleaseState(t)

-----------------------------------------------------------------------------
(* _poll.                                                                  *)

InHandler == main = "script" /\ frames # <<>>
Top == Last(frames)

PollCall ==
  /\ main = "script" /\ pc # 0
  /\ Len(frames) < MaxDepth
  /\ main' = "poll"
  /\ nested' = (nested \/ InHandler)
  /\ UNCHANGED <<after, frames, state, pc, stateVars, libVars, pushes,
                 emitted, finished>>

PollLock ==
  /\ main = "poll"
  /\ mutex[state] = "free"
  /\ mutex' = [mutex EXCEPT ![state] = Main]
  /\ main' = "swap"
  /\ UNCHANGED <<after, frames, state, pc, queue, libVars, histVars>>

PollSwap ==
  /\ main = "swap"
  /\ frames' = Append(frames, queue[state])
  /\ queue' = [queue EXCEPT ![state] = <<>>]
  /\ mutex' = [mutex EXCEPT ![state] = "free"]
  /\ main' = "loop"
  /\ UNCHANGED <<after, state, pc, libVars, histVars>>

\* f(this): the handler of the front task runs, which stays in local_queue.
EmitSignal ==
  /\ main = "loop" /\ Top # <<>>
  /\ emitted' = Append(emitted, Head(Top))
  /\ main' = "script"
  /\ UNCHANGED <<after, frames, state, pc, stateVars, libVars, pushes, nested,
                 finished>>

HandlerReturn ==
  /\ InHandler
  /\ frames' = Append(Front(frames), Tail(Top))
  /\ main' = "loop"
  /\ UNCHANGED <<after, state, pc, stateVars, libVars, histVars>>

PollReturn ==
  /\ main = "loop" /\ Top = <<>>
  /\ frames' = Front(frames)
  /\ main' = "script"
  /\ UNCHANGED <<after, state, pc, stateVars, libVars, histVars>>

PollStep == PollLock \/ PollSwap \/ EmitSignal \/ PollReturn

-----------------------------------------------------------------------------
(* _close, _initialize, the constructor and the destructor.                *)

\* Each of them begins with a _close: the script calls _close itself, or
\* _initialize, or drops its last reference.
CloseCall(next) ==
  /\ main = "script"
  /\ state < MaxSessions
  /\ next = "destroyed" => frames = <<>>
  /\ after' = next
  /\ main' = "close"
  /\ UNCHANGED <<frames, state, pc, stateVars, libVars, histVars>>

\* The constructor: _init calls _initialize.
Construct ==
  /\ main = "new"
  /\ after' = "parse"
  /\ main' = "close"
  /\ UNCHANGED <<frames, state, pc, stateVars, libVars, histVars>>

\* _close, from where channel and callbacks of the library are closed (or
\* close() threw): a fresh state replaces the old one, which is freed unless
\* a callback still holds it.
CloseReset ==
  /\ main = "close"
  /\ state' = state + 1
  /\ queue' = [s \in Sessions |->
                 IF s = state /\ ~ \E t \in Threads : Holds(t, s)
                   THEN <<>> ELSE queue[s]]
  /\ finished' = IF frames = <<>> THEN state ELSE finished
  /\ main' = after
  /\ UNCHANGED <<after, frames, pc, mutex, libVars, pushes, emitted, nested>>

\* _initialize returns an error: a malformed configuration, or the library
\* could not create a connection.  The closed connection stays.
InitializeFails ==
  /\ main = "parse"
  /\ main' = "script"
  /\ UNCHANGED <<after, frames, state, pc, stateVars, libVars, histVars>>

\* _create_pc: the new connection's callbacks refer to the present state.
CreatePc ==
  /\ main = "parse"
  /\ pc' = state
  /\ main' = "script"
  /\ UNCHANGED <<after, frames, state, stateVars, libVars, histVars>>

\* _create_offer and _set_remote_description set the library to work; it
\* reports nothing by itself before (disableAutoNegotiation).
Negotiate ==
  /\ main = "script" /\ pc # 0
  /\ started' = started \union {pc}
  /\ UNCHANGED <<objVars, stateVars, events, at, of, histVars>>

CloseStep == Construct \/ CloseReset \/ InitializeFails \/ CreatePc

-----------------------------------------------------------------------------
Library ==
  \E t \in Threads : (\E s \in Sessions : Event(t, s)) \/ CallbackStep(t)

Poll == PollCall \/ PollStep \/ HandlerReturn

Manage ==
  \/ \E next \in {"script", "parse", "destroyed"} : CloseCall(next)
  \/ CloseStep \/ Negotiate

Next == Library \/ Poll \/ Manage

Spec == Init /\ [][Next]_vars

\* The engine polls again and again, handlers return, and no thread stops
\* inside a method or a callback.
Fairness ==
  /\ \A t \in Threads : WF_vars(CallbackStep(t)) /\ SF_vars(LockMutex(t))
  /\ SF_vars(PollCall /\ frames = <<>>) /\ WF_vars(PollStep)
  /\ SF_vars(PollLock)
  /\ SF_vars(HandlerReturn)
  /\ WF_vars(CloseStep)

FairSpec == Spec /\ Fairness

-----------------------------------------------------------------------------
(* Properties.                                                             *)

Tasks == 1 .. Len(pushes)

\* The values each variable can have; once constructed the object always has
\* a shared_state.
TypeOK ==
  /\ main \in {"new", "script", "poll", "swap", "loop", "close", "parse",
               "destroyed"}
  /\ after \in {"script", "parse", "destroyed"}
  /\ frames \in Seq(Seq(Tasks)) /\ Len(frames) <= MaxDepth
  /\ state \in 0 .. MaxSessions /\ pc \in 0 .. MaxSessions
  /\ main \in {"new", "close"} \/ state # 0
  /\ queue \in [Sessions -> Seq(Tasks)]
  /\ mutex \in [Sessions -> Procs \union {"free"}]
  /\ started \subseteq Sessions /\ events \in 0 .. MaxEvents
  /\ at \in [Threads -> {"idle", "entered", "strong", "locked", "done"}]
  /\ of \in [Threads -> 0 .. MaxSessions]
  /\ pushes \in Seq(Sessions) /\ emitted \in Seq(Tasks)
  /\ nested \in BOOLEAN /\ finished \in 0 .. MaxSessions

\* What the next _poll will report comes from the connection the object has
\* now; after a failed _initialize, which leaves the closed one, it reports
\* nothing at all.
SessionIsolation ==
  state # 0 =>
    \A n \in ToSet(queue[state]) : pushes[n] = state /\ pc = state

\* After a _close or _initialize made outside the handlers no signal of the
\* old connection is emitted any more, even if its callbacks are still
\* running.  (From inside a handler the rest of the running poll's batch is
\* still emitted.)
NoStaleSignal ==
  [][emitted' # emitted => pushes[Last(emitted')] > finished]_vars

\* Tasks that wait: queued, or in a running poll's local_queue behind the
\* one whose handler is running.
Behind(f) == IF f = Len(frames) /\ main = "loop" THEN frames[f]
                                               ELSE Tail(frames[f])
Waiting ==
  UNION ({ToSet(queue[s]) : s \in Sessions}
         \union {ToSet(Behind(f)) : f \in 1 .. Len(frames)})

\* A signal is emitted at most once, and not while its task still waits,
\* though handlers run with the task in local_queue and may poll again.
AtMostOnce == IsInjective(emitted) /\ ToSet(emitted) \intersect Waiting = {}

\* A task of the present session is never lost: it waits or was emitted.
SignalsKept ==
  \A n \in Tasks : pushes[n] = state => n \in Waiting \union ToSet(emitted)

\* Signals of a session are emitted in the order their tasks were queued (a
\* candidate after its description), unless a handler has polled: the inner
\* poll overtakes the rest of the outer one's batch.
SignalsInOrder ==
  \A i, j \in 1 .. Len(emitted) :
    i < j /\ pushes[emitted[i]] = pushes[emitted[j]] /\ ~nested =>
      emitted[i] < emitted[j]

Line == INSTANCE SignalLine WITH
  session <- state,
  given <- pushes,
  queued <- IF state = 0 THEN {} ELSE ToSet(queue[state]),
  taken <- UNION {ToSet(Behind(f)) : f \in 1 .. Len(frames)},
  reentrant <- nested

\* Locks, shared states and polls inside polls together are one line: a poll
\* takes every signal that the present connection has queued and no other,
\* emits each once and in order, and a close empties the line at one stroke.
ImplementsLine == Line!Spec

\* _poll comes back: the handlers run without the mutex, so a handler that
\* polls again does not wait for itself.
PollReturns == main = "poll" /\ frames = <<>> ~> frames = <<>> /\ main # "poll"

\* Each signal that a callback has queued is emitted, whatever polls, handlers
\* and other callbacks do between, unless its session is ended before.
Standing(n) == n \in Tasks /\ pushes[n] = state

SignalsReachScript ==
  \A n \in 1 .. MaxEvents :
    Standing(n) ~> n \in ToSet(emitted) \/ ~Standing(n)

-----------------------------------------------------------------------------
(* Why no stale signal is emitted: an inductive invariant in parts.        *)

\* Where Main is says how far the call it runs has come; a running handler's
\* task is still at the front of its poll's local_queue.
Control ==
  /\ main = "new" => state = 0 /\ frames = <<>>
  /\ main \in {"poll", "swap"} => pc # 0 /\ Len(frames) < MaxDepth
  /\ main = "loop" => frames # <<>>
  /\ main = "close" => state < MaxSessions
  /\ frames # <<>> => state # 0
  /\ \A f \in 1 .. Len(frames) :
       f < Len(frames) \/ main # "loop" => frames[f] # <<>>

\* Connections are numbered in the order they are made, and the callbacks of
\* each push into its own state.
Numbering ==
  /\ pc <= state
  /\ finished < state \/ finished = 0
  /\ \A s \in started : s <= pc /\ s # 0
  /\ \A t \in Threads : at[t] # "idle" => of[t] \in started
  /\ \A s \in Sessions : \A n \in ToSet(queue[s]) :
       pushes[n] = s /\ s \in started

\* What the running polls have taken is of sessions that were not closed
\* before those polls.
FreshFrames ==
  \A f \in DOMAIN frames : \A n \in ToSet(frames[f]) : pushes[n] > finished

\* The parts together.
IndInv == TypeOK /\ Control /\ Numbering /\ FreshFrames
=============================================================================
