------------------------ MODULE PeerConnectionProofs ------------------------
(***************************************************************************)
(* Sessions do not leak into each other, for any set of library threads    *)
(* and any bounds on sessions, events and nested polls.                    *)
(***************************************************************************)
EXTENDS PeerConnection, SequenceTheorems, TLAPS

USE DEF objVars, stateVars, libVars, histVars

-----------------------------------------------------------------------------
(* Sequences of tasks, as queues and local queues hold them.               *)

\* The elements of a sequence that is extended, and of the rest of one.
LEMMA AppendElements ==
  ASSUME NEW S, NEW q \in Seq(S), NEW e \in S
  PROVE  ToSet(Append(q, e)) \subseteq ToSet(q) \union {e}
<1> SUFFICES ASSUME NEW i \in 1 .. Len(q) + 1
             PROVE  Append(q, e)[i] \in ToSet(q) \union {e}
  BY AppendProperties DEF ToSet
<1>1. CASE i <= Len(q)
  BY <1>1, AppendProperties DEF ToSet
<1>2. CASE i = Len(q) + 1
  BY <1>2, AppendProperties
<1> QED
  BY <1>1, <1>2

LEMMA TailElements ==
  ASSUME NEW S, NEW q \in Seq(S), q # <<>>
  PROVE  ToSet(Tail(q)) \subseteq ToSet(q) /\ Head(q) \in ToSet(q)
BY DEF ToSet

LEMMA HeadTailElements ==
  ASSUME NEW S, NEW q \in Seq(S), q # <<>>
  PROVE  ToSet(q) \subseteq ToSet(Tail(q)) \union {Head(q)}
<1> SUFFICES ASSUME NEW i \in 1 .. Len(q)
             PROVE  q[i] \in ToSet(Tail(q)) \union {Head(q)}
  BY DEF ToSet
<1>1. CASE i = 1
  BY <1>1
<1>2. CASE i # 1
  <2>1. i - 1 \in DOMAIN Tail(q) /\ Tail(q)[i - 1] = q[i]
    BY <1>2, HeadTailProperties
  <2> QED
    BY <2>1 DEF ToSet
<1> QED
  BY <1>1, <1>2

\* A sequence that is not empty is its front and its last element.
LEMMA FrontLast ==
  ASSUME NEW S, NEW q \in Seq(S), q # <<>>
  PROVE  /\ Front(q) \in Seq(S) /\ Len(Front(q)) = Len(q) - 1
         /\ \A i \in 1 .. Len(q) - 1 : Front(q)[i] = q[i]
         /\ Last(q) = q[Len(q)] /\ Last(q) \in S
BY DEF Front, Last

\* As more tasks are pushed, what is queued remains well-typed.
LEMMA MoreTasks ==
  ASSUME NEW m \in Nat, NEW n \in Nat, m <= n
  PROVE  /\ Seq(1 .. m) \subseteq Seq(1 .. n)
         /\ Seq(Seq(1 .. m)) \subseteq Seq(Seq(1 .. n))
<1>1. 1 .. m \subseteq 1 .. n
  OBVIOUS
<1>2. Seq(1 .. m) \subseteq Seq(1 .. n)
  BY <1>1, SeqMonotonic
<1> QED
  BY <1>2, SeqMonotonic

-----------------------------------------------------------------------------
(* The initial states.                                                     *)

\* Nothing is queued, started or running yet.
LEMMA InvInit == Init => IndInv
<1> SUFFICES ASSUME Init PROVE IndInv
  OBVIOUS
<1>1. TypeOK
  <2>1. <<>> \in Seq(Tasks) /\ <<>> \in Seq(Sessions) /\ <<>> \in Seq(Seq(Tasks))
    OBVIOUS
  <2>2. 0 \in 0 .. MaxSessions /\ 0 \in 0 .. MaxEvents /\ 0 <= MaxDepth
    BY BoundsAssumption
  <2>3. frames \in Seq(Seq(Tasks)) /\ Len(frames) <= MaxDepth
    BY <2>2 DEF Init
  <2> QED
    BY <2>1, <2>2, <2>3 DEF Init, TypeOK
<1>2. Control /\ Numbering /\ FreshFrames
  BY BoundsAssumption DEF Init, Control, Numbering, FreshFrames, ToSet
<1> QED
  BY <1>1, <1>2 DEF IndInv

-----------------------------------------------------------------------------
(* The steps.                                                              *)

\* The innermost poll's local_queue, and the polls outside it.
LEMMA TopFrame ==
  ASSUME TypeOK, frames # <<>>
  PROVE  /\ Top \in Seq(Tasks) /\ Top = frames[Len(frames)]
         /\ Front(frames) \in Seq(Seq(Tasks))
         /\ Len(Front(frames)) = Len(frames) - 1
         /\ \A i \in 1 .. Len(frames) - 1 : Front(frames)[i] = frames[i]
<1>1. frames \in Seq(Seq(Tasks))
  BY DEF TypeOK
<1> QED
  BY <1>1, FrontLast DEF Top

\* Types: what is swapped, handed back or pushed are tasks.
LEMMA TypeStep == IndInv /\ Next => TypeOK'
<1> SUFFICES ASSUME IndInv, Next PROVE TypeOK'
  OBVIOUS
<1> USE DEF IndInv, TypeOK
<1>1. ASSUME NEW t \in Threads, NEW s \in Sessions, Event(t, s) PROVE TypeOK'
  BY <1>1, BoundsAssumption DEF Event, Sessions, Tasks
<1>2. ASSUME NEW t \in Threads, LockState(t) PROVE TypeOK'
  BY <1>2 DEF LockState, Tasks
<1>3. ASSUME NEW t \in Threads, LockMutex(t) PROVE TypeOK'
  BY <1>3 DEF LockMutex, Tasks, Procs
<1>4. ASSUME NEW t \in Threads, PushTask(t) PROVE TypeOK'
  <2>1. of[t] \in Sessions
    BY <1>4 DEF PushTask, Numbering
  <2>2. /\ pushes' \in Seq(Sessions) /\ Len(pushes') = Len(pushes) + 1
        /\ Len(pushes') \in Tasks'
    BY <1>4, <2>1 DEF PushTask, Tasks
  <2>3. Seq(Tasks) \subseteq Seq(Tasks') /\ Seq(Seq(Tasks)) \subseteq Seq(Seq(Tasks'))
    BY <2>2, MoreTasks DEF Tasks
  <2>4. queue' \in [Sessions -> Seq(Tasks')]
    <3>1. queue \in [Sessions -> Seq(Tasks')]
      BY <2>3
    <3>2. Append(queue[of[t]], Len(pushes')) \in Seq(Tasks')
      BY <2>1, <2>2, <3>1
    <3> QED
      BY <1>4, <2>1, <3>1, <3>2 DEF PushTask
  <2> QED
    BY <1>4, <2>2, <2>3, <2>4 DEF PushTask
<1>5. ASSUME NEW t \in Threads, ReleaseState(t) PROVE TypeOK'
  <2>1. queue' \in [Sessions -> Seq(Tasks)]
    <3>1. <<>> \in Seq(Tasks)
      OBVIOUS
    <3> QED
      BY <1>5, <3>1 DEF ReleaseState
  <2> QED
    BY <1>5, <2>1 DEF ReleaseState, Tasks
<1>6. CASE PollCall
  BY <1>6 DEF PollCall, Tasks
<1>7. CASE PollLock
  BY <1>7 DEF PollLock, Tasks, Procs
<1>8. CASE PollSwap
  <2>1. state \in Sessions
    BY <1>8 DEF PollSwap, Sessions
  <2>2. /\ Append(frames, queue[state]) \in Seq(Seq(Tasks))
        /\ Len(Append(frames, queue[state])) <= MaxDepth
    BY <1>8, <2>1, BoundsAssumption DEF PollSwap, Control
  <2> QED
    BY <1>8, <2>1, <2>2 DEF PollSwap, Tasks
<1>9. CASE EmitSignal
  <2>1. Head(Top) \in Tasks
    BY <1>9, TopFrame DEF EmitSignal, Control
  <2> QED
    BY <1>9, <2>1 DEF EmitSignal, Tasks
<1>10. CASE HandlerReturn
  <2>1. Tail(Top) \in Seq(Tasks)
    <3>1. Top \in Seq(Tasks) /\ Top # <<>>
      BY <1>10, TopFrame DEF HandlerReturn, InHandler, Control
    <3> QED
      BY <3>1, HeadTailProperties
  <2>2. /\ Append(Front(frames), Tail(Top)) \in Seq(Seq(Tasks))
        /\ Len(Append(Front(frames), Tail(Top))) = Len(frames)
    BY <1>10, <2>1, TopFrame DEF HandlerReturn, InHandler
  <2>3. frames' \in Seq(Seq(Tasks)) /\ Len(frames') <= MaxDepth
    BY <1>10, <2>2 DEF HandlerReturn
  <2>4. /\ main = "script" /\ main' = "loop"
        /\ UNCHANGED <<after, state, pc, stateVars, libVars, histVars>>
    BY <1>10 DEF HandlerReturn, InHandler
  <2> QED
    BY <2>3, <2>4 DEF Tasks
<1>11. CASE PollReturn
  <2>1. Front(frames) \in Seq(Seq(Tasks)) /\ Len(Front(frames)) <= MaxDepth
    BY <1>11, TopFrame, BoundsAssumption DEF PollReturn, Control
  <2> QED
    BY <1>11, <2>1 DEF PollReturn, Tasks
<1>12. CASE CloseReset
  <2>1. queue' \in [Sessions -> Seq(Tasks)]
    <3>1. <<>> \in Seq(Tasks)
      OBVIOUS
    <3> QED
      BY <1>12, <3>1 DEF CloseReset
  <2>2. state' \in 1 .. MaxSessions
    BY <1>12, BoundsAssumption DEF CloseReset, Control
  <2>3. /\ finished' \in 0 .. MaxSessions /\ main' = after
        /\ UNCHANGED <<after, frames, pc, mutex, libVars, pushes, emitted,
                       nested>>
    BY <1>12 DEF CloseReset
  <2> QED
    BY <2>1, <2>2, <2>3 DEF Tasks
<1>13. ASSUME NEW next \in {"script", "parse", "destroyed"}, CloseCall(next)
       PROVE  TypeOK'
  BY <1>13 DEF CloseCall, Tasks
<1>14. CASE Construct \/ InitializeFails \/ CreatePc
  BY <1>14 DEF Construct, InitializeFails, CreatePc, Tasks
<1>15. CASE Negotiate
  BY <1>15, BoundsAssumption DEF Negotiate, Tasks, Sessions
<1> QED
  BY <1>1, <1>2, <1>3, <1>4, <1>5, <1>6, <1>7, <1>8, <1>9, <1>10, <1>11, <1>12,
     <1>13, <1>14, <1>15
  DEF Next, Library, CallbackStep, Poll, PollStep, Manage, CloseStep

\* The steps that leave the running polls and the place of Main alone.
LEMMA ControlStep == IndInv /\ Next => Control'
<1> SUFFICES ASSUME IndInv, Next PROVE Control'
  OBVIOUS
<1> USE DEF IndInv, Control
<1>1. CASE Library
  BY <1>1 DEF Library, Event, CallbackStep, LockState, LockMutex, PushTask,
     ReleaseState
<1>2. CASE PollCall \/ PollLock
  BY <1>2 DEF PollCall, PollLock, TypeOK
<1>3. CASE PollSwap
  <2>1. /\ Len(frames') = Len(frames) + 1 /\ frames' # <<>>
        /\ \A f \in 1 .. Len(frames) : frames'[f] = frames[f]
    <3>1. state \in Sessions
      BY <1>3 DEF PollSwap, TypeOK, Sessions
    <3>2. queue[state] \in Seq(Tasks) /\ frames \in Seq(Seq(Tasks))
      BY <3>1 DEF TypeOK
    <3> QED
      BY <1>3, <3>2, AppendProperties DEF PollSwap
  <2>2. state # 0 /\ main = "swap" /\ main' = "loop" /\ state' = state
    BY <1>3 DEF PollSwap, TypeOK
  <2>3. Len(frames) \in Nat
    BY DEF TypeOK
  <2> QED
    BY <2>1, <2>2, <2>3
<1>4. CASE EmitSignal
  BY <1>4, TopFrame DEF EmitSignal
<1>5. CASE HandlerReturn
  <2>1. /\ frames' # <<>> /\ Len(frames') = Len(frames)
        /\ \A f \in 1 .. Len(frames) - 1 : frames'[f] = frames[f]
    <3>1. Tail(Top) \in Seq(Tasks)
      BY <1>5, TopFrame, HeadTailProperties DEF HandlerReturn, InHandler
    <3> QED
      BY <1>5, <3>1, TopFrame, AppendProperties DEF HandlerReturn, InHandler
  <2>2. /\ main = "script" /\ main' = "loop" /\ frames # <<>>
        /\ state' = state /\ Len(frames) \in Nat
    BY <1>5 DEF HandlerReturn, InHandler, TypeOK
  <2> QED
    BY <2>1, <2>2
<1>6. CASE PollReturn
  <2>1. /\ Len(frames') = Len(frames) - 1
        /\ \A f \in 1 .. Len(frames) - 1 : frames'[f] = frames[f]
    BY <1>6, TopFrame DEF PollReturn
  <2>2. /\ main = "loop" /\ main' = "script" /\ frames # <<>>
        /\ state' = state /\ Len(frames) \in Nat
    BY <1>6 DEF PollReturn, TypeOK
  <2> QED
    BY <2>1, <2>2
<1>7. CASE Manage
  BY <1>7, BoundsAssumption
  DEF Manage, CloseCall, CloseStep, Construct, CloseReset, InitializeFails,
      CreatePc, Negotiate, TypeOK
<1> QED
  BY <1>1, <1>2, <1>3, <1>4, <1>5, <1>6, <1>7 DEF Next, Poll, PollStep

\* What a step pushes goes to the state of the connection that reports it.
LEMMA NumberingStep == IndInv /\ Next => Numbering'
<1> SUFFICES ASSUME IndInv, Next PROVE Numbering'
  OBVIOUS
<1> USE DEF IndInv, Numbering
<1>1. ASSUME NEW t \in Threads, NEW s \in Sessions, Event(t, s)
      PROVE  Numbering'
  BY <1>1 DEF Event, TypeOK
<1>2. ASSUME NEW t \in Threads, LockState(t) \/ LockMutex(t)
      PROVE  Numbering'
  BY <1>2 DEF LockState, LockMutex, TypeOK
<1>3. ASSUME NEW t \in Threads, PushTask(t) PROVE Numbering'
  <2>1. of[t] \in Sessions /\ of[t] \in started
    BY <1>3 DEF PushTask, TypeOK
  <2>2. /\ Len(pushes') = Len(pushes) + 1 /\ pushes'[Len(pushes')] = of[t]
        /\ \A n \in Tasks : pushes'[n] = pushes[n]
    BY <1>3, <2>1 DEF PushTask, TypeOK, Tasks
  <2>3. ASSUME NEW s \in Sessions, NEW n \in ToSet(queue'[s])
        PROVE  pushes'[n] = s /\ s \in started
    <3>1. \A m \in ToSet(queue[s]) : m \in Tasks
      BY DEF TypeOK, ToSet
    <3>2. CASE s # of[t]
      <4>1. queue'[s] = queue[s]
        BY <1>3, <3>2 DEF PushTask, TypeOK
      <4> QED
        BY <4>1, <3>1, <2>2
    <3>3. CASE s = of[t]
      <4>1. queue'[s] = Append(queue[s], Len(pushes'))
        BY <1>3, <3>3 DEF PushTask, TypeOK
      <4>2. queue[s] \in Seq(Nat) /\ Len(pushes') \in Nat
        <5>1. queue[s] \in Seq(Tasks) /\ Tasks \subseteq Nat
          BY DEF TypeOK, Tasks
        <5>2. queue[s] \in Seq(Nat)
          BY <5>1, SeqMonotonic
        <5>3. Len(pushes) \in Nat
          BY DEF TypeOK
        <5> QED
          BY <5>2, <5>3, <2>2
      <4>3. n \in ToSet(queue[s]) \/ n = Len(pushes')
        BY <4>1, <4>2, AppendElements
      <4> QED
        BY <4>3, <3>1, <3>3, <2>1, <2>2
    <3> QED
      BY <3>2, <3>3
  <2>4. /\ UNCHANGED <<pc, state, finished, started, of>>
        /\ \A u \in Threads : at'[u] # "idle" => at[u] # "idle"
    BY <1>3 DEF PushTask, TypeOK
  <2> QED
    BY <2>3, <2>4
<1>4. ASSUME NEW t \in Threads, ReleaseState(t) PROVE Numbering'
  <2>1. \A s \in Sessions : ToSet(queue'[s]) \subseteq ToSet(queue[s])
    BY <1>4 DEF ReleaseState, ToSet
  <2>2. /\ UNCHANGED <<pc, state, finished, started, of, pushes>>
        /\ \A u \in Threads : at'[u] # "idle" => at[u] # "idle"
    BY <1>4 DEF ReleaseState, TypeOK
  <2> QED
    BY <2>1, <2>2
<1>5. CASE PollSwap
  <2>1. \A s \in Sessions : ToSet(queue'[s]) \subseteq ToSet(queue[s])
    BY <1>5 DEF PollSwap, TypeOK, ToSet
  <2> QED
    BY <1>5, <2>1 DEF PollSwap
<1>6. CASE PollCall \/ PollLock \/ EmitSignal \/ HandlerReturn \/ PollReturn
  BY <1>6 DEF PollCall, PollLock, EmitSignal, HandlerReturn, PollReturn
<1>7. CASE CloseReset
  <2>1. \A s \in Sessions : ToSet(queue'[s]) \subseteq ToSet(queue[s])
    BY <1>7 DEF CloseReset, ToSet
  <2>2. /\ state' = state + 1 /\ finished' \in {finished, state}
        /\ UNCHANGED <<pc, started, at, of, pushes>>
    BY <1>7 DEF CloseReset
  <2>3. pc <= state' /\ (finished' < state' \/ finished' = 0)
    BY <2>2 DEF TypeOK
  <2> QED
    BY <2>1, <2>2, <2>3
<1>8. ASSUME NEW next \in {"script", "parse", "destroyed"}, CloseCall(next)
      PROVE  Numbering'
  BY <1>8 DEF CloseCall
<1>9. CASE Construct \/ InitializeFails
  BY <1>9 DEF Construct, InitializeFails
<1>10. CASE CreatePc
  <2>1. \A s \in started : s <= state
    BY DEF TypeOK, Sessions
  <2> QED
    BY <1>10, <2>1 DEF CreatePc, TypeOK
<1>11. CASE Negotiate
  BY <1>11 DEF Negotiate, TypeOK
<1> QED
  BY <1>1, <1>2, <1>3, <1>4, <1>5, <1>6, <1>7, <1>8, <1>9, <1>10, <1>11
  DEF Next, Library, CallbackStep, Poll, PollStep, Manage, CloseStep

\* A poll takes only tasks of the present session, and no close outside the
\* handlers finishes a session while a poll runs.
LEMMA FreshFramesStep == IndInv /\ Next => FreshFrames'
<1> SUFFICES ASSUME IndInv, Next PROVE FreshFrames'
  OBVIOUS
<1> USE DEF IndInv, FreshFrames
<1>1. CASE UNCHANGED <<frames, pushes, finished>>
  BY <1>1
<1>2. ASSUME NEW t \in Threads, PushTask(t) PROVE FreshFrames'
  <2>1. \A n \in Tasks : pushes'[n] = pushes[n]
    BY <1>2 DEF PushTask, TypeOK, Tasks, Numbering
  <2>2. \A f \in DOMAIN frames : ToSet(frames[f]) \subseteq Tasks
    BY DEF TypeOK, ToSet
  <2> QED
    BY <1>2, <2>1, <2>2 DEF PushTask
<1>3. CASE PollSwap
  <2>1. state \in Sessions /\ state > finished
    BY <1>3 DEF PollSwap, Control, Numbering, TypeOK, Sessions
  <2>2. queue[state] \in Seq(Tasks) /\ frames \in Seq(Seq(Tasks))
    BY <2>1 DEF TypeOK
  <2>3. \A n \in ToSet(queue[state]) : pushes[n] > finished
    BY <2>1 DEF Numbering
  <2>4. /\ DOMAIN frames' = 1 .. Len(frames) + 1
        /\ \A f \in 1 .. Len(frames) : frames'[f] = frames[f]
        /\ frames'[Len(frames) + 1] = queue[state]
    BY <1>3, <2>2 DEF PollSwap
  <2>5. UNCHANGED <<pushes, finished>>
    BY <1>3 DEF PollSwap
  <2> QED
    BY <2>2, <2>3, <2>4, <2>5
<1>4. CASE HandlerReturn
  <2>1. /\ Top \in Seq(Tasks) /\ Top # <<>> /\ Top = frames[Len(frames)]
        /\ Len(frames) \in DOMAIN frames
    BY <1>4, TopFrame DEF HandlerReturn, InHandler, Control, TypeOK
  <2>2. ToSet(Tail(Top)) \subseteq ToSet(frames[Len(frames)])
    BY <2>1, TailElements
  <2>3. /\ DOMAIN frames' = DOMAIN frames
        /\ \A f \in 1 .. Len(frames) - 1 : frames'[f] = frames[f]
        /\ frames'[Len(frames)] = Tail(Top)
    <3>1. Tail(Top) \in Seq(Tasks)
      BY <2>1, HeadTailProperties
    <3> QED
      BY <1>4, <3>1, TopFrame, AppendProperties
      DEF HandlerReturn, InHandler, TypeOK
  <2>4. UNCHANGED <<pushes, finished>>
    BY <1>4 DEF HandlerReturn
  <2>5. ASSUME NEW f \in DOMAIN frames, NEW n \in ToSet(frames'[f])
        PROVE  n \in ToSet(frames[f])
    <3>1. f \in 1 .. Len(frames) - 1 \/ f = Len(frames)
      BY DEF TypeOK
    <3> QED
      BY <3>1, <2>2, <2>3
  <2> QED
    BY <2>3, <2>4, <2>5
<1>5. CASE PollReturn
  <2>1. /\ DOMAIN frames' = 1 .. Len(frames) - 1
        /\ \A f \in 1 .. Len(frames) - 1 : frames'[f] = frames[f]
    BY <1>5, TopFrame DEF PollReturn, Control, TypeOK
  <2>2. UNCHANGED <<pushes, finished>>
    BY <1>5 DEF PollReturn
  <2>3. 1 .. Len(frames) - 1 \subseteq DOMAIN frames
    BY DEF TypeOK
  <2> QED
    BY <2>1, <2>2, <2>3
<1>6. CASE CloseReset
  BY <1>6 DEF CloseReset
<1> QED
  BY <1>1, <1>2, <1>3, <1>4, <1>5, <1>6
  DEF Next, Library, Event, CallbackStep, LockState, LockMutex, ReleaseState,
      Poll, PollCall, PollStep, PollLock, EmitSignal, Manage, CloseCall,
      CloseStep, Construct, InitializeFails, CreatePc, Negotiate

-----------------------------------------------------------------------------
(* The theorems.                                                           *)

\* The invariant holds in every reachable state.
THEOREM Invariance == Spec => []IndInv
<1>1. IndInv /\ [Next]_vars => IndInv'
  <2> SUFFICES ASSUME IndInv, [Next]_vars PROVE IndInv'
    OBVIOUS
  <2>1. CASE Next
    BY <2>1, TypeStep, ControlStep, NumberingStep, FreshFramesStep DEF IndInv
  <2>2. CASE UNCHANGED vars
    BY <2>2 DEF vars, IndInv, TypeOK, Tasks, Control, Numbering, FreshFrames
  <2> QED
    BY <2>1, <2>2
<1> QED
  BY InvInit, <1>1, PTL DEF Spec

\* Every variable keeps its type, and once constructed the object always has
\* a shared_state.
THEOREM TypeCorrect == Spec => []TypeOK
BY Invariance, PTL DEF IndInv

\* The next _poll reports only events of the connection the object has now.
THEOREM Isolation == Spec => []SessionIsolation
<1>1. IndInv => SessionIsolation
  BY DEF IndInv, TypeOK, Numbering, SessionIsolation, Sessions
<1> QED
  BY Invariance, <1>1, PTL

\* After a close outside the handlers the old connection's signals are never
\* emitted, though its callbacks may still run.
THEOREM StaleSignalsDropped == Spec => NoStaleSignal
<1> DEFINE Fresh == emitted' # emitted => pushes[Last(emitted')] > finished
<1>1. ASSUME IndInv, [Next]_vars PROVE [Fresh]_vars
  <2> SUFFICES ASSUME EmitSignal PROVE Fresh
    BY <1>1 DEF Next, Library, Event, CallbackStep, LockState, LockMutex,
       PushTask, ReleaseState, Poll, PollCall, PollStep, PollLock, PollSwap,
       HandlerReturn, PollReturn, Manage, CloseCall, CloseStep, Construct,
       CloseReset, InitializeFails, CreatePc, Negotiate
  <2>1. /\ Top \in Seq(Tasks) /\ Top # <<>> /\ Top = frames[Len(frames)]
        /\ Len(frames) \in DOMAIN frames
    BY <1>1, TopFrame DEF EmitSignal, IndInv, Control, TypeOK
  <2>2. pushes[Head(Top)] > finished
    BY <1>1, <2>1, TailElements DEF IndInv, FreshFrames
  <2>3. Head(Top) \in Tasks /\ emitted \in Seq(Tasks)
    BY <1>1, <2>1, HeadTailProperties DEF IndInv, TypeOK
  <2>4. Last(emitted') = Head(Top)
    BY <2>3, AppendProperties DEF EmitSignal, Last
  <2> QED
    BY <2>2, <2>4
<1> QED
  BY Invariance, <1>1, PTL DEF Spec, NoStaleSignal

-----------------------------------------------------------------------------
(* Once and in order: tasks on their way from a queue to the script.       *)

\* What each running poll has still to do.
Rest == [f \in DOMAIN frames |-> Behind(f)]

\* What a step does to queues, running polls, pushes and emitted signals:
\* nothing,
Quiet == Rest' = Rest /\ UNCHANGED <<queue, pushes, emitted>>

\* a new task,
Pushes(s) ==
  /\ Rest' = Rest /\ UNCHANGED emitted
  /\ pushes' = Append(pushes, s)
  /\ queue' = [queue EXCEPT ![s] = Append(@, Len(pushes) + 1)]

\* states freed with their queues,
Frees(S) ==
  /\ Rest' = Rest /\ UNCHANGED <<pushes, emitted>>
  /\ queue' = [s \in Sessions |-> IF s \in S THEN <<>> ELSE queue[s]]
  /\ \A s \in S : ~Owned(s)'

\* a poll begun,
Swaps ==
  /\ UNCHANGED <<pushes, emitted>>
  /\ main = "swap" /\ state \in Sessions /\ queue' = [queue EXCEPT ![state] = <<>>]
  /\ DOMAIN Rest' = 1 .. Len(frames) + 1
  /\ \A f \in DOMAIN Rest : Rest'[f] = Rest[f]
  /\ Rest'[Len(frames) + 1] = queue[state]

\* a signal emitted,
Emits(f) ==
  /\ UNCHANGED <<queue, pushes>>
  /\ Rest[f] # <<>>
  /\ Rest' = [Rest EXCEPT ![f] = Tail(@)]
  /\ emitted' = Append(emitted, Head(Rest[f]))

\* a poll that has nothing left to do.
Returns ==
  /\ UNCHANGED <<queue, pushes, emitted>>
  /\ DOMAIN Rest' \subseteq DOMAIN Rest
  /\ \A f \in DOMAIN Rest' : Rest'[f] = Rest[f]
  /\ \A f \in DOMAIN Rest \ DOMAIN Rest' : Rest[f] = <<>>

LEMMA RestType ==
  ASSUME IndInv
  PROVE  /\ DOMAIN Rest = 1 .. Len(frames) /\ Len(frames) \in Nat
         /\ DOMAIN frames = 1 .. Len(frames)
         /\ \A f \in DOMAIN Rest : Rest[f] = Behind(f) /\ Rest[f] \in Seq(Tasks)
<1>1. frames \in Seq(Seq(Tasks))
  BY DEF IndInv, TypeOK
<1>2. ASSUME NEW f \in DOMAIN frames PROVE Behind(f) \in Seq(Tasks)
  <2>1. frames[f] \in Seq(Tasks) /\ f \in 1 .. Len(frames)
    BY <1>1
  <2>2. frames[f] # <<>> \/ (f = Len(frames) /\ main = "loop")
    BY <2>1 DEF IndInv, Control
  <2> QED
    BY <2>1, <2>2, HeadTailProperties DEF Behind
<1> QED
  BY <1>1, <1>2 DEF Rest

\* Steps that leave the running polls alone, whatever else they do.
LEMMA RestSame ==
  ASSUME frames' = frames, frames = <<>> \/ (main = "loop" <=> main' = "loop")
  PROVE  Rest' = Rest
BY DEF Rest, Behind

LEMMA Effect ==
  ASSUME IndInv, Next
  PROVE  \/ Quiet \/ (\E s \in Sessions : Pushes(s))
         \/ (\E S \in SUBSET Sessions : Frees(S))
         \/ Swaps \/ (\E f \in DOMAIN Rest : Emits(f)) \/ Returns
<1> USE DEF IndInv
<1>0. frames \in Seq(Seq(Tasks)) /\ queue \in [Sessions -> Seq(Tasks)]
  BY DEF TypeOK
<1>1. ASSUME NEW t \in Threads,
             (\E s \in Sessions : Event(t, s)) \/ LockState(t) \/ LockMutex(t)
      PROVE  Quiet
  BY <1>1, RestSame DEF Event, LockState, LockMutex, Quiet
<1>2. ASSUME NEW t \in Threads, PushTask(t)
      PROVE  of[t] \in Sessions /\ Pushes(of[t])
  <2>1. of[t] \in Sessions /\ Len(pushes) \in Nat /\ pushes \in Seq(Sessions)
    BY <1>2 DEF PushTask, Numbering, TypeOK
  <2>2. Len(pushes') = Len(pushes) + 1
    BY <1>2, <2>1 DEF PushTask
  <2> QED
    BY <1>2, <2>1, <2>2, RestSame DEF PushTask, Pushes
<1>3. ASSUME NEW t \in Threads, ReleaseState(t)
      PROVE  \E S \in SUBSET Sessions : Frees(S)
  <2> DEFINE S == {s \in Sessions : ~(\/ s # of[t] \/ Owned(s)
                                      \/ \E u \in Threads \ {t} : Holds(u, s))}
  <2>1. Frees(S)
    BY <1>3, RestSame DEF ReleaseState, Frees, Owned
  <2> QED
    BY <2>1
<1>4. CASE PollCall \/ PollLock
  BY <1>4, RestSame DEF PollCall, PollLock, Quiet
<1>5. CASE PollSwap
  <2>1. state \in Sessions
    BY <1>5 DEF PollSwap, TypeOK, Sessions
  <2>2. /\ frames' = Append(frames, queue[state]) /\ main = "swap"
        /\ main' = "loop" /\ queue[state] \in Seq(Tasks)
    BY <1>5, <1>0, <2>1 DEF PollSwap
  <2>3. /\ DOMAIN frames' = 1 .. Len(frames) + 1 /\ Len(frames') = Len(frames) + 1
        /\ frames'[Len(frames) + 1] = queue[state]
        /\ \A f \in DOMAIN frames : frames'[f] = frames[f] /\ f # Len(frames')
    BY <1>0, <2>2
  <2>4. \A f \in DOMAIN frames : Behind(f)' = Behind(f)
    BY <2>2, <2>3 DEF Behind
  <2>5. ASSUME NEW k \in Nat, k = Len(frames) + 1 PROVE Behind(k)' = queue[state]
    BY <2>2, <2>3, <2>5 DEF Behind
  <2>6. /\ DOMAIN Rest' = 1 .. Len(frames) + 1
        /\ \A f \in DOMAIN Rest : Rest'[f] = Rest[f]
        /\ Rest'[Len(frames) + 1] = queue[state]
    <3>1. /\ Len(frames) + 1 \in DOMAIN frames' /\ Len(frames) + 1 \in Nat
          /\ DOMAIN frames \subseteq DOMAIN frames'
      <4>1. Len(frames) \in Nat /\ DOMAIN frames = 1 .. Len(frames)
        BY <1>0
      <4> QED
        BY <4>1, <2>3
    <3> QED
      BY <2>3, <2>4, <2>5, <3>1 DEF Rest
  <2> QED
    BY <1>5, <2>1, <2>6 DEF PollSwap, Swaps
<1>6. CASE EmitSignal
  <2>1. /\ main = "loop" /\ main' = "script" /\ frames' = frames
        /\ Top = frames[Len(frames)] /\ Top # <<>>
        /\ Len(frames) \in DOMAIN frames
    BY <1>6, <1>0, TopFrame DEF EmitSignal, Control
  <2>2. Rest' = [Rest EXCEPT ![Len(frames)] = Tail(@)]
        /\ Rest[Len(frames)] = Top /\ Len(frames) \in DOMAIN Rest
    BY <2>1 DEF Rest, Behind
  <2> QED
    BY <1>6, <2>1, <2>2 DEF EmitSignal, Emits
<1>7. CASE HandlerReturn
  <2>1. /\ main = "script" /\ main' = "loop" /\ frames # <<>>
        /\ frames' = Append(Front(frames), Tail(Top))
        /\ UNCHANGED <<queue, pushes, emitted>>
    BY <1>7 DEF HandlerReturn, InHandler
  <2>2. Top # <<>> /\ Top \in Seq(Tasks) /\ Top = frames[Len(frames)]
    BY <2>1, <1>0, TopFrame DEF Control
  <2>3. Tail(Top) \in Seq(Tasks)
    BY <2>2, HeadTailProperties
  <2>4. /\ DOMAIN frames' = DOMAIN frames /\ Len(frames') = Len(frames)
        /\ frames'[Len(frames)] = Tail(Top)
        /\ \A f \in DOMAIN frames \ {Len(frames)} : frames'[f] = frames[f]
    <3>1. /\ Front(frames) \in Seq(Seq(Tasks)) /\ Len(frames) \in Nat \ {0}
          /\ Len(Front(frames)) = Len(frames) - 1
          /\ \A i \in 1 .. Len(frames) - 1 : Front(frames)[i] = frames[i]
          /\ DOMAIN frames = 1 .. Len(frames)
      BY <1>0, <2>1, TopFrame
    <3> DEFINE F == Front(frames)
    <3>2. /\ Len(Append(F, Tail(Top))) = Len(F) + 1
          /\ DOMAIN Append(F, Tail(Top)) = 1 .. Len(F) + 1
          /\ \A i \in 1 .. Len(F) : Append(F, Tail(Top))[i] = F[i]
          /\ Append(F, Tail(Top))[Len(F) + 1] = Tail(Top)
      <4> HIDE DEF F
      <4> QED
        BY <2>3, <3>1, AppendProperties DEF F
    <3>3. /\ Len(F) + 1 = Len(frames) /\ DOMAIN frames = 1 .. Len(frames)
          /\ \A i \in 1 .. Len(F) : F[i] = frames[i]
          /\ frames' = Append(F, Tail(Top)) /\ Len(F) \in Nat
      BY <2>1, <3>1
    <3> HIDE DEF F
    <3>4. \A f \in DOMAIN frames \ {Len(frames)} : f \in 1 .. Len(F)
      BY <3>3
    <3> QED
      BY <3>2, <3>3, <3>4
  <2>5. Rest' = Rest
    BY <2>1, <2>2, <2>4 DEF Rest, Behind
  <2> QED
    BY <2>1, <2>5 DEF Quiet
<1>8. CASE PollReturn
  <2>1. /\ main = "loop" /\ main' = "script" /\ frames # <<>> /\ Top = <<>>
        /\ frames' = Front(frames) /\ UNCHANGED <<queue, pushes, emitted>>
    BY <1>8 DEF PollReturn, Control
  <2>2. /\ DOMAIN frames' = 1 .. Len(frames) - 1 /\ DOMAIN frames = 1 .. Len(frames)
        /\ Len(frames) \in Nat
        /\ \A f \in DOMAIN frames' : frames'[f] = frames[f] /\ f # Len(frames)
        /\ frames[Len(frames)] = <<>>
    <3>1. /\ Front(frames) \in Seq(Seq(Tasks)) /\ Len(frames) \in Nat \ {0}
          /\ Len(Front(frames)) = Len(frames) - 1
          /\ \A i \in 1 .. Len(frames) - 1 : Front(frames)[i] = frames[i]
          /\ DOMAIN frames = 1 .. Len(frames) /\ Top = frames[Len(frames)]
      BY <1>0, <2>1, TopFrame
    <3>2. DOMAIN frames' = 1 .. Len(frames) - 1
      BY <2>1, <3>1
    <3> QED
      BY <2>1, <3>1, <3>2
  <2>3. \A f \in DOMAIN frames' : Rest'[f] = Rest[f]
    BY <2>1, <2>2 DEF Rest, Behind
  <2>4. Rest[Len(frames)] = <<>> /\ DOMAIN Rest' = DOMAIN frames'
        /\ DOMAIN Rest = DOMAIN frames
    BY <2>1, <2>2 DEF Rest, Behind
  <2>5. \A f \in DOMAIN frames \ DOMAIN frames' : f = Len(frames)
    BY <2>2
  <2>6. DOMAIN frames' \subseteq DOMAIN frames
    BY <2>2
  <2> QED
    BY <2>1, <2>3, <2>4, <2>5, <2>6 DEF Returns
<1>9. CASE CloseReset
  <2> DEFINE S == {s \in Sessions : s = state /\ ~ \E t \in Threads : Holds(t, s)}
  <2>1. main = "close" /\ main' # "loop" /\ frames' = frames
    BY <1>9 DEF CloseReset, TypeOK
  <2>2. Frees(S)
    BY <1>9, <2>1, RestSame DEF CloseReset, Frees, Owned, TypeOK
  <2> QED
    BY <2>2
<1>10. CASE Manage /\ ~CloseReset
  BY <1>10, RestSame DEF Manage, CloseCall, CloseStep, Construct,
     InitializeFails, CreatePc, Negotiate, Quiet
<1> QED
  BY <1>1, <1>2, <1>3, <1>4, <1>5, <1>6, <1>7, <1>8, <1>9, <1>10
  DEF Next, Library, CallbackStep, Poll, PollStep

-----------------------------------------------------------------------------
(* Once.                                                                   *)

\* A task is in one place, and there once.
Once ==
  /\ IsInjective(emitted)
  /\ \A s \in Sessions :
       /\ IsInjective(queue[s])
       /\ ToSet(queue[s]) \intersect ToSet(emitted) = {}
  /\ \A f \in DOMAIN Rest :
       /\ IsInjective(Rest[f])
       /\ ToSet(Rest[f]) \intersect ToSet(emitted) = {}
       /\ \A s \in Sessions : ToSet(Rest[f]) \intersect ToSet(queue[s]) = {}
       /\ \A g \in DOMAIN Rest \ {f} :
            ToSet(Rest[f]) \intersect ToSet(Rest[g]) = {}

\* An extended sequence has its elements and the new one.
LEMMA AppendElementsAre ==
  ASSUME NEW S, NEW q \in Seq(S), NEW e \in S, NEW r, r = Append(q, e)
  PROVE  ToSet(q) \subseteq ToSet(r) /\ e \in ToSet(r)
<1>1. /\ DOMAIN r = 1 .. Len(q) + 1 /\ r[Len(q) + 1] = e
      /\ \A i \in 1 .. Len(q) : r[i] = q[i]
      /\ Len(q) \in Nat /\ DOMAIN q = 1 .. Len(q)
  BY AppendProperties
<1>2. Len(q) + 1 \in DOMAIN r /\ DOMAIN q \subseteq DOMAIN r
  BY <1>1
<1> QED
  BY <1>1, <1>2 DEF ToSet

LEMMA InjectiveEmpty == IsInjective(<<>>) /\ ToSet(<<>>) = {}
BY DEF IsInjective, ToSet

LEMMA InjectiveAppend ==
  ASSUME NEW S, NEW q \in Seq(S), NEW e \in S, IsInjective(q), e \notin ToSet(q),
         NEW r, r = Append(q, e)
  PROVE  IsInjective(r)
<1>1. /\ DOMAIN r = 1 .. Len(q) + 1 /\ r[Len(q) + 1] = e
      /\ \A i \in 1 .. Len(q) : r[i] = q[i]
      /\ Len(q) \in Nat /\ DOMAIN q = 1 .. Len(q)
  BY AppendProperties
<1>2. \A i \in DOMAIN q : q[i] # e
  BY <1>1 DEF ToSet
<1>3. \A i \in DOMAIN r : i \in DOMAIN q \/ i = Len(q) + 1
  BY <1>1
<1>4. \A i, j \in DOMAIN r : r[i] = r[j] => i = j
  BY <1>1, <1>2, <1>3 DEF IsInjective
<1> QED
  BY <1>4 DEF IsInjective

LEMMA InjectiveTail ==
  ASSUME NEW S, NEW q \in Seq(S), q # <<>>, IsInjective(q)
  PROVE  IsInjective(Tail(q)) /\ Head(q) \notin ToSet(Tail(q))
<1>1. /\ Tail(q) \in Seq(S) /\ DOMAIN Tail(q) = 1 .. Len(q) - 1
      /\ DOMAIN q = 1 .. Len(q) /\ Len(q) \in Nat \ {0} /\ Head(q) = q[1]
      /\ \A i \in 1 .. Len(q) - 1 : Tail(q)[i] = q[i + 1]
  OBVIOUS
<1>2. \A i \in 1 .. Len(q) - 1 : i + 1 \in 1 .. Len(q) /\ i + 1 # 1
  BY <1>1
<1>3. IsInjective(Tail(q))
  BY <1>1, <1>2 DEF IsInjective
<1>4. \A i \in DOMAIN Tail(q) : Tail(q)[i] # Head(q)
  BY <1>1, <1>2 DEF IsInjective
<1> QED
  BY <1>3, <1>4 DEF ToSet

\* Everything on its way is a task, and a queue holds its session's.
LEMMA PlacesTyped ==
  ASSUME IndInv
  PROVE  /\ \A s \in Sessions : queue[s] \in Seq(Tasks) /\ ToSet(queue[s]) \subseteq Tasks
         /\ \A f \in DOMAIN Rest : ToSet(Rest[f]) \subseteq Tasks
         /\ emitted \in Seq(Tasks) /\ ToSet(emitted) \subseteq Tasks
         /\ Len(pushes) \in Nat /\ Tasks \subseteq Nat
         /\ Len(pushes) + 1 \notin Tasks
         /\ \A s, r \in Sessions :
              s # r => ToSet(queue[s]) \intersect ToSet(queue[r]) = {}
<1>1. ASSUME NEW q \in Seq(Tasks) PROVE ToSet(q) \subseteq Tasks
  BY DEF ToSet
<1>2. queue \in [Sessions -> Seq(Tasks)] /\ emitted \in Seq(Tasks)
  BY DEF IndInv, TypeOK
<1>3. \A s \in Sessions : \A n \in ToSet(queue[s]) : pushes[n] = s
  BY DEF IndInv, Numbering
<1>4. Len(pushes) \in Nat
  BY DEF IndInv, TypeOK
<1> QED
  BY <1>1, <1>2, <1>3, <1>4, RestType DEF Tasks

LEMMA OnceInit == Init => Once
<1> SUFFICES ASSUME Init PROVE Once
  OBVIOUS
<1>1. emitted = <<>> /\ DOMAIN Rest = {} /\ \A s \in Sessions : queue[s] = <<>>
  BY DEF Init, Rest
<1> QED
  BY <1>1, InjectiveEmpty DEF Once

LEMMA OnceStep == IndInv /\ Once /\ Next => Once'
<1> SUFFICES ASSUME IndInv, Once, Next PROVE Once'
  OBVIOUS
<1>1. CASE Quiet
  BY <1>1 DEF Quiet, Once
<1>2. ASSUME NEW s \in Sessions, Pushes(s) PROVE Once'
  <2> DEFINE n == Len(pushes) + 1
  <2>1. n \notin Tasks /\ n \in Nat /\ queue[s] \in Seq(Nat)
    <3>1. /\ Tasks \subseteq Nat /\ queue[s] \in Seq(Tasks)
          /\ Len(pushes) \in Nat /\ n \notin Tasks
      BY PlacesTyped
    <3>2. Seq(Tasks) \subseteq Seq(Nat)
      BY <3>1, SeqMonotonic
    <3> QED
      BY <3>1, <3>2
  <2>2. /\ queue'[s] = Append(queue[s], n)
        /\ \A r \in Sessions \ {s} : queue'[r] = queue[r]
    BY <1>2, PlacesTyped DEF Pushes, IndInv, TypeOK
  <2>3. ToSet(queue'[s]) \subseteq ToSet(queue[s]) \union {n}
    BY <2>1, <2>2, AppendElements
  <2>4. IsInjective(queue'[s])
    <3>1. n \notin ToSet(queue[s]) /\ IsInjective(queue[s])
      BY <2>1, PlacesTyped DEF Once
    <3> HIDE DEF n
    <3> QED
      BY <2>1, <2>2, <3>1, InjectiveAppend
  <2>5. n \notin ToSet(emitted) /\ \A f \in DOMAIN Rest : n \notin ToSet(Rest[f])
    BY <2>1, PlacesTyped
  <2>6. Rest' = Rest /\ emitted' = emitted
    BY <1>2 DEF Pushes
  <2>7. ASSUME NEW r \in Sessions
        PROVE  /\ IsInjective(queue'[r])
               /\ ToSet(queue'[r]) \subseteq ToSet(queue[r]) \union {n}
    BY <2>2, <2>3, <2>4 DEF Once
  <2> HIDE DEF n
  <2> QED
    BY <2>5, <2>6, <2>7 DEF Once
<1>3. ASSUME NEW S \in SUBSET Sessions, Frees(S) PROVE Once'
  <2>1. \A r \in Sessions : queue'[r] = queue[r] \/ queue'[r] = <<>>
    BY <1>3 DEF Frees
  <2> QED
    BY <1>3, <2>1, InjectiveEmpty DEF Frees, Once
<1>4. CASE Swaps
  <2>1. /\ state \in Sessions /\ queue'[state] = <<>> /\ emitted' = emitted
        /\ \A r \in Sessions \ {state} : queue'[r] = queue[r]
    BY <1>4 DEF Swaps, IndInv, TypeOK
  <2>2. /\ \A f \in DOMAIN Rest' : f \in DOMAIN Rest \/ f = Len(frames) + 1
        /\ Len(frames) + 1 \notin DOMAIN Rest
        /\ \A f \in DOMAIN Rest : Rest'[f] = Rest[f]
        /\ Rest'[Len(frames) + 1] = queue[state]
    BY <1>4, RestType DEF Swaps
  <2>3. \A r \in Sessions :
          /\ IsInjective(queue'[r]) /\ ToSet(queue'[r]) \subseteq ToSet(queue[r])
          /\ ToSet(queue'[r]) \intersect ToSet(queue[state]) = {}
    BY <2>1, InjectiveEmpty, PlacesTyped DEF Once
  <2>4. ASSUME NEW f \in DOMAIN Rest'
        PROVE  /\ IsInjective(Rest'[f])
               /\ ToSet(Rest'[f]) \intersect ToSet(emitted') = {}
               /\ \A s \in Sessions : ToSet(Rest'[f]) \intersect ToSet(queue'[s]) = {}
    BY <2>1, <2>2, <2>3 DEF Once
  <2>5. ASSUME NEW f \in DOMAIN Rest', NEW g \in DOMAIN Rest' \ {f}
        PROVE  ToSet(Rest'[f]) \intersect ToSet(Rest'[g]) = {}
    BY <2>1, <2>2 DEF Once
  <2> QED
    BY <2>1, <2>3, <2>4, <2>5 DEF Once
<1>5. ASSUME NEW f \in DOMAIN Rest, Emits(f) PROVE Once'
  <2> DEFINE n == Head(Rest[f])
  <2>1. /\ Rest[f] \in Seq(Tasks) /\ Rest[f] # <<>> /\ IsInjective(Rest[f])
        /\ DOMAIN Rest' = DOMAIN Rest /\ Rest'[f] = Tail(Rest[f])
        /\ \A g \in DOMAIN Rest \ {f} : Rest'[g] = Rest[g]
        /\ emitted' = Append(emitted, n) /\ queue' = queue
    BY <1>5, RestType DEF Emits, Once, Rest
  <2>2. /\ IsInjective(Tail(Rest[f])) /\ n \notin ToSet(Tail(Rest[f]))
        /\ ToSet(Tail(Rest[f])) \subseteq ToSet(Rest[f]) /\ n \in ToSet(Rest[f])
    BY <2>1, InjectiveTail, TailElements
  <2>3. /\ n \notin ToSet(emitted) /\ n \in Tasks
        /\ \A s \in Sessions : n \notin ToSet(queue[s])
        /\ \A g \in DOMAIN Rest \ {f} : n \notin ToSet(Rest[g])
    BY <2>2, PlacesTyped DEF Once
  <2>4. IsInjective(emitted') /\ ToSet(emitted') \subseteq ToSet(emitted) \union {n}
    <3>1. emitted \in Seq(Tasks) /\ IsInjective(emitted)
      BY PlacesTyped DEF Once
    <3> HIDE DEF n
    <3>2. IsInjective(emitted')
      BY <2>1, <2>3, <3>1, InjectiveAppend
    <3>3. ToSet(Append(emitted, n)) \subseteq ToSet(emitted) \union {n}
      BY <3>1, <2>3, AppendElements
    <3> QED
      BY <2>1, <3>2, <3>3
  <2> HIDE DEF n
  <2>5. \A g \in DOMAIN Rest :
          /\ IsInjective(Rest'[g]) /\ ToSet(Rest'[g]) \subseteq ToSet(Rest[g])
          /\ n \notin ToSet(Rest'[g])
    BY <2>1, <2>2, <2>3 DEF Once
  <2> QED
    BY <2>1, <2>3, <2>4, <2>5 DEF Once
<1>6. CASE Returns
  BY <1>6 DEF Returns, Once
<1> QED
  BY <1>1, <1>2, <1>3, <1>4, <1>5, <1>6, Effect

-----------------------------------------------------------------------------
(* Kept.                                                                   *)

\* Only a connection whose negotiation has started has tasks, and none of the
\* state that _initialize has just made.
Pushed ==
  /\ \A n \in Tasks : pushes[n] \in started
  /\ main \in {"parse", "destroyed"} => pc < state

LEMMA PushedInit == Init => Pushed
BY DEF Init, Pushed, Tasks

LEMMA PushedStep == IndInv /\ Pushed /\ Next => Pushed'
<1> SUFFICES ASSUME IndInv, Pushed, Next PROVE Pushed'
  OBVIOUS
<1> USE DEF Pushed
<1>1. ASSUME NEW t \in Threads, PushTask(t) PROVE Pushed'
  <2>1. /\ of[t] \in started /\ of[t] \in Sessions
        /\ pushes \in Seq(Sessions) /\ Len(pushes) \in Nat
    BY <1>1 DEF PushTask, IndInv, TypeOK, Numbering
  <2>2. /\ Len(pushes') = Len(pushes) + 1 /\ pushes'[Len(pushes) + 1] = of[t]
        /\ \A n \in Tasks : pushes'[n] = pushes[n]
    BY <1>1, <2>1 DEF PushTask, Tasks
  <2>3. \A n \in Tasks' : n \in Tasks \/ n = Len(pushes) + 1
    BY <2>1, <2>2 DEF Tasks
  <2> QED
    BY <1>1, <2>1, <2>2, <2>3 DEF PushTask
<1>2. CASE CloseReset
  BY <1>2 DEF CloseReset, IndInv, TypeOK, Numbering, Tasks
<1>3. CASE Negotiate
  BY <1>3 DEF Negotiate, Tasks
<1>4. CASE Construct \/ \E next \in {"script", "parse", "destroyed"} : CloseCall(next)
  BY <1>4 DEF Construct, CloseCall, Tasks
<1>5. CASE InitializeFails \/ CreatePc
  BY <1>5 DEF InitializeFails, CreatePc, Tasks
<1>6. CASE Poll
  BY <1>6 DEF Poll, PollCall, PollStep, PollLock, PollSwap, EmitSignal,
     HandlerReturn, PollReturn, Tasks
<1>7. ASSUME NEW t \in Threads,
             \/ \E s \in Sessions : Event(t, s)
             \/ LockState(t) \/ LockMutex(t) \/ ReleaseState(t)
      PROVE  Pushed'
  BY <1>7 DEF Event, LockState, LockMutex, ReleaseState, Tasks
<1> QED
  BY <1>1, <1>2, <1>3, <1>4, <1>5, <1>6, <1>7
  DEF Next, Library, CallbackStep, Manage, CloseStep

\* Where a task is; Waiting with the running polls seen as Rest.
Queued(n) == \E s \in Sessions : n \in ToSet(queue[s])
Taken(n) == \E f \in DOMAIN Rest : n \in ToSet(Rest[f])

LEMMA WaitingIs == IndInv => \A n : n \in Waiting <=> Queued(n) \/ Taken(n)
BY RestType DEF Waiting, Queued, Taken

Kept == \A n \in Tasks : pushes[n] = state => Queued(n) \/ Taken(n) \/ n \in ToSet(emitted)

LEMMA KeptStep == IndInv /\ Pushed /\ Kept /\ Next => Kept'
<1> SUFFICES ASSUME IndInv, Pushed, Kept, Next PROVE Kept'
  OBVIOUS
<1>0. pushes \in Seq(Sessions) /\ Len(pushes) \in Nat
  BY DEF IndInv, TypeOK
<1>1. CASE CloseReset
  <2>1. \A n \in Tasks : pushes[n] \in started /\ pushes[n] <= pc /\ pc <= state
    BY DEF Pushed, IndInv, Numbering
  <2>2. state' = state + 1 /\ pushes' = pushes /\ state \in Nat /\ pc \in Nat
    BY <1>1, BoundsAssumption DEF CloseReset, IndInv, TypeOK
  <2>3. \A n \in Tasks : pushes[n] \in Nat
    BY <1>0, BoundsAssumption DEF Tasks, Sessions
  <2> QED
    BY <2>1, <2>2, <2>3 DEF Kept, Tasks
<1> SUFFICES ASSUME ~CloseReset PROVE Kept'
  BY <1>1
<1>2. state' = state
  BY DEF Next, Library, Event, CallbackStep, LockState, LockMutex, PushTask,
     ReleaseState, Poll, PollCall, PollStep, PollLock, PollSwap, EmitSignal,
     HandlerReturn, PollReturn, Manage, CloseCall, CloseStep, Construct,
     InitializeFails, CreatePc, Negotiate
<1>3. CASE Quiet
  BY <1>2, <1>3 DEF Quiet, Kept, Queued, Taken, Tasks
<1>4. ASSUME NEW s \in Sessions, Pushes(s) PROVE Kept'
  <2> DEFINE m == Len(pushes) + 1
  <2>1. /\ queue'[s] = Append(queue[s], m) /\ Rest' = Rest /\ emitted' = emitted
        /\ \A r \in Sessions \ {s} : queue'[r] = queue[r]
    BY <1>4 DEF Pushes, IndInv, TypeOK
  <2>2. /\ \A n \in Tasks' : n \in Tasks \/ n = m
        /\ \A n \in Tasks : pushes'[n] = pushes[n]
    BY <1>0, <1>4 DEF Pushes, Tasks
  <2>3. ToSet(queue[s]) \subseteq ToSet(queue'[s]) /\ m \in ToSet(queue'[s])
    <3>1. queue[s] \in Seq(Tasks)
      BY PlacesTyped
    <3> QED
      BY <2>1, <3>1 DEF ToSet
  <2>4. \A r \in Sessions : ToSet(queue[r]) \subseteq ToSet(queue'[r])
    BY <2>1, <2>3
  <2> HIDE DEF m
  <2> QED
    BY <1>2, <2>1, <2>2, <2>3, <2>4 DEF Kept, Queued, Taken
<1>5. ASSUME NEW S \in SUBSET Sessions, Frees(S) PROVE Kept'
  <2>1. ASSUME NEW n \in Tasks, pushes[n] = state, Queued(n) PROVE Queued(n)'
    <3>1. PICK s \in Sessions : n \in ToSet(queue[s])
      BY <2>1 DEF Queued
    <3>2. s = state
      BY <2>1, <3>1 DEF IndInv, Numbering
    <3>3. main' # "destroyed"
      <4>1. pushes[n] \in started' /\ pc' \in Nat
        <5>1. pushes[n] \in started /\ started \subseteq started'
          BY DEF Pushed, Next, Library, Event, CallbackStep, LockState,
             LockMutex, PushTask, ReleaseState, Poll, PollCall, PollStep,
             PollLock, PollSwap, EmitSignal, HandlerReturn, PollReturn, Manage,
             CloseCall, CloseStep, Construct, InitializeFails, CreatePc,
             Negotiate
        <5> QED
          BY <5>1, TypeStep DEF TypeOK
      <4>2. pushes[n] <= pc'
        BY <4>1, NumberingStep DEF Numbering
      <4>3. main' = "destroyed" => pc' < state
        BY <1>2, PushedStep DEF Pushed
      <4>4. state \in Nat
        BY DEF IndInv, TypeOK
      <4> QED
        BY <2>1, <4>1, <4>2, <4>3, <4>4
    <3>4. queue'[s] = queue[s]
      BY <1>2, <1>5, <3>2, <3>3 DEF Frees, Owned
    <3> QED
      BY <3>1, <3>4 DEF Queued
  <2> QED
    BY <1>2, <1>5, <2>1 DEF Frees, Kept, Taken, Tasks
<1>6. CASE Swaps
  <2>1. ASSUME NEW n \in Tasks, Queued(n) PROVE (Queued(n) \/ Taken(n))'
    <3>1. PICK s \in Sessions : n \in ToSet(queue[s])
      BY <2>1 DEF Queued
    <3>2. CASE s = state
      BY <1>6, <3>1, <3>2, RestType DEF Swaps, Taken
    <3>3. CASE s # state
      BY <1>6, <3>1, <3>3 DEF Swaps, Queued, IndInv, TypeOK
    <3> QED
      BY <3>2, <3>3
  <2>2. ASSUME NEW n \in Tasks, Taken(n) PROVE Taken(n)'
    BY <1>6, <2>2, RestType DEF Swaps, Taken
  <2> QED
    BY <1>2, <1>6, <2>1, <2>2 DEF Swaps, Kept, Tasks
<1>7. ASSUME NEW f \in DOMAIN Rest, Emits(f) PROVE Kept'
  <2>1. /\ Rest[f] \in Seq(Tasks) /\ Rest[f] # <<>> /\ emitted \in Seq(Tasks)
        /\ DOMAIN Rest' = DOMAIN Rest /\ Rest'[f] = Tail(Rest[f])
        /\ \A g \in DOMAIN Rest \ {f} : Rest'[g] = Rest[g]
        /\ emitted' = Append(emitted, Head(Rest[f]))
        /\ queue' = queue /\ pushes' = pushes
    BY <1>7, RestType, PlacesTyped DEF Emits, Rest
  <2>2. ASSUME NEW n \in ToSet(Rest[f])
        PROVE  n = Head(Rest[f]) \/ n \in ToSet(Tail(Rest[f]))
    <3>1. PICK i \in 1 .. Len(Rest[f]) : n = Rest[f][i]
      BY <2>1 DEF ToSet
    <3>2. CASE i = 1
      BY <2>1, <3>1, <3>2
    <3>3. CASE i # 1
      <4>1. i - 1 \in 1 .. Len(Tail(Rest[f])) /\ Tail(Rest[f])[i - 1] = n
        BY <2>1, <3>1, <3>3, HeadTailProperties
      <4>2. DOMAIN Tail(Rest[f]) = 1 .. Len(Tail(Rest[f]))
        BY <2>1, HeadTailProperties
      <4> QED
        BY <4>1, <4>2 DEF ToSet
    <3> QED
      BY <3>2, <3>3
  <2>3. /\ ToSet(emitted) \subseteq ToSet(emitted')
        /\ Head(Rest[f]) \in ToSet(emitted')
    <3>1. Head(Rest[f]) \in Tasks
      BY <2>1, HeadTailProperties
    <3> DEFINE h == Head(Rest[f])
    <3> HIDE DEF h
    <3>2. /\ h \in Tasks /\ emitted \in Seq(Tasks)
          /\ emitted' = Append(emitted, h)
      BY <2>1, <3>1 DEF h
    <3>3. ToSet(emitted) \subseteq ToSet(emitted') /\ h \in ToSet(emitted')
      BY <3>2, AppendElementsAre
    <3> QED
      BY <3>3 DEF h
  <2> QED
    BY <1>2, <2>1, <2>2, <2>3 DEF Kept, Queued, Taken, Tasks
<1>8. CASE Returns
  <2>1. ToSet(<<>>) = {}
    BY InjectiveEmpty
  <2> QED
    BY <1>2, <1>8, <2>1 DEF Returns, Kept, Queued, Taken, Tasks
<1> QED
  BY <1>3, <1>4, <1>5, <1>6, <1>7, <1>8, Effect

-----------------------------------------------------------------------------
(* In order.                                                               *)

Increasing(q) == \A i, j \in DOMAIN q : i < j => q[i] < q[j]

Before(E, N) == \A e \in E, n \in N : pushes[e] = pushes[n] => e < n

\* While no handler has polled there is at most one poll at a time,
Single == Len(frames) <= 1 /\ (main \in {"poll", "swap"} => frames = <<>>)

\* and what was emitted comes before what the poll has, and that before what
\* is queued.
Sorted ==
  /\ \A s \in Sessions : Increasing(queue[s])
  /\ \A f \in DOMAIN Rest : Increasing(Rest[f])
  /\ \A s \in Sessions : Before(ToSet(emitted), ToSet(queue[s]))
  /\ \A f \in DOMAIN Rest :
       /\ Before(ToSet(emitted), ToSet(Rest[f]))
       /\ \A s \in Sessions : Before(ToSet(Rest[f]), ToSet(queue[s]))
  /\ \A i, j \in DOMAIN emitted :
       i < j /\ pushes[emitted[i]] = pushes[emitted[j]] =>
         emitted[i] < emitted[j]

Ordered == ~nested => Single /\ Sorted

LEMMA IncreasingAppend ==
  ASSUME NEW q \in Seq(Nat), NEW e \in Nat, Increasing(q),
         \A n \in ToSet(q) : n < e, NEW r, r = Append(q, e)
  PROVE  Increasing(r)
<1>1. /\ DOMAIN r = 1 .. Len(q) + 1 /\ r[Len(q) + 1] = e
      /\ \A i \in 1 .. Len(q) : r[i] = q[i]
      /\ Len(q) \in Nat /\ DOMAIN q = 1 .. Len(q)
  BY AppendProperties
<1>2. \A i \in DOMAIN q : q[i] < e
  BY <1>1 DEF ToSet
<1>3. \A i \in DOMAIN r : i \in DOMAIN q \/ i = Len(q) + 1
  BY <1>1
<1> QED
  BY <1>1, <1>2, <1>3 DEF Increasing

LEMMA IncreasingTail ==
  ASSUME NEW q \in Seq(Nat), q # <<>>, Increasing(q)
  PROVE  Increasing(Tail(q)) /\ \A n \in ToSet(Tail(q)) : Head(q) < n
<1>1. /\ Tail(q) \in Seq(Nat) /\ DOMAIN Tail(q) = 1 .. Len(q) - 1
      /\ DOMAIN q = 1 .. Len(q) /\ Len(q) \in Nat \ {0} /\ Head(q) = q[1]
      /\ \A i \in 1 .. Len(q) - 1 : Tail(q)[i] = q[i + 1]
  OBVIOUS
<1>2. \A i \in 1 .. Len(q) - 1 : i + 1 \in 1 .. Len(q) /\ 1 < i + 1
  BY <1>1
<1>3. Increasing(Tail(q))
  BY <1>1, <1>2 DEF Increasing
<1>4. \A i \in DOMAIN Tail(q) : Head(q) < Tail(q)[i]
  BY <1>1, <1>2 DEF Increasing
<1> QED
  BY <1>3, <1>4 DEF ToSet

LEMMA OrderedInit == Init => Ordered
<1> SUFFICES ASSUME Init PROVE Single /\ Sorted
  BY DEF Ordered
<1>1. emitted = <<>> /\ frames = <<>> /\ DOMAIN Rest = {}
      /\ \A s \in Sessions : queue[s] = <<>>
  BY DEF Init, Rest
<1>2. Increasing(<<>>)
  BY DEF Increasing
<1> QED
  BY <1>1, <1>2, InjectiveEmpty DEF Single, Sorted, Before

LEMMA SingleStep == IndInv /\ Ordered /\ Next /\ ~nested' => Single' /\ ~nested
<1> SUFFICES ASSUME IndInv, Ordered, Next, ~nested' PROVE Single' /\ ~nested
  OBVIOUS
<1>1. ~nested
  BY DEF IndInv, TypeOK, Next, Library, Event, CallbackStep, LockState,
     LockMutex, PushTask, ReleaseState, Poll, PollCall, PollStep, PollLock,
     PollSwap, EmitSignal, HandlerReturn, PollReturn, Manage, CloseCall,
     CloseStep, Construct, CloseReset, InitializeFails, CreatePc, Negotiate
<1> USE <1>1 DEF Single, Ordered, IndInv
<1>2. CASE PollCall
  BY <1>2 DEF PollCall, InHandler
<1>3. CASE PollSwap
  <2>1. state \in Sessions /\ frames = <<>>
    BY <1>3 DEF PollSwap, TypeOK, Sessions
  <2>2. Len(Append(frames, queue[state])) = 1
    BY <2>1
  <2> QED
    BY <1>3, <2>2 DEF PollSwap
<1>4. CASE HandlerReturn
  <2>1. /\ Tail(Top) \in Seq(Tasks) /\ Front(frames) \in Seq(Seq(Tasks))
        /\ Len(Front(frames)) = Len(frames) - 1 /\ Len(frames) \in Nat
    BY <1>4, TopFrame, HeadTailProperties
    DEF HandlerReturn, InHandler, Control, TypeOK
  <2>2. Len(Append(Front(frames), Tail(Top))) = Len(frames)
    BY <2>1, AppendProperties
  <2> QED
    BY <1>4, <2>2 DEF HandlerReturn
<1>5. CASE PollReturn
  <2>1. Len(Front(frames)) = Len(frames) - 1 /\ Len(frames) \in Nat
    BY <1>5, TopFrame DEF PollReturn, Control, TypeOK
  <2> QED
    BY <1>5, <2>1 DEF PollReturn
<1>6. CASE PollLock \/ EmitSignal
  BY <1>6 DEF PollLock, EmitSignal
<1>7. CASE Library
  BY <1>7 DEF Library, Event, CallbackStep, LockState, LockMutex, PushTask,
     ReleaseState
<1>8. CASE Manage
  BY <1>8 DEF Manage, CloseCall, CloseStep, Construct, CloseReset,
     InitializeFails, CreatePc, Negotiate, TypeOK
<1> QED
  BY <1>2, <1>3, <1>4, <1>5, <1>6, <1>7, <1>8 DEF Next, Poll, PollStep

LEMMA SortedStep == IndInv /\ Single /\ Sorted /\ Next => Sorted'
<1> SUFFICES ASSUME IndInv, Single, Sorted, Next PROVE Sorted'
  OBVIOUS
<1>0. /\ \A s \in Sessions : queue[s] \in Seq(Nat) /\ ToSet(queue[s]) \subseteq Tasks
      /\ \A f \in DOMAIN Rest : Rest[f] \in Seq(Nat) /\ ToSet(Rest[f]) \subseteq Tasks
      /\ emitted \in Seq(Nat) /\ ToSet(emitted) \subseteq Tasks
      /\ Tasks \subseteq Nat
  <2>1. Seq(Tasks) \subseteq Seq(Nat)
    BY PlacesTyped, SeqMonotonic
  <2> QED
    BY <2>1, PlacesTyped, RestType
<1>e. ToSet(<<>>) = {} /\ Increasing(<<>>)
  BY InjectiveEmpty DEF Increasing
<1>1. CASE Quiet
  BY <1>1 DEF Quiet, Sorted, Before
<1>2. ASSUME NEW s \in Sessions, Pushes(s) PROVE Sorted'
  <2> DEFINE m == Len(pushes) + 1
  <2>1. /\ queue'[s] = Append(queue[s], m) /\ Rest' = Rest /\ emitted' = emitted
        /\ \A r \in Sessions \ {s} : queue'[r] = queue[r]
    BY <1>2 DEF Pushes, IndInv, TypeOK
  <2>2. /\ m \in Nat /\ \A n \in Tasks : pushes'[n] = pushes[n] /\ n < m
    <3>1. pushes \in Seq(Sessions) /\ Len(pushes) \in Nat
      BY DEF IndInv, TypeOK
    <3> QED
      BY <3>1, <1>2 DEF Pushes, Tasks
  <2> HIDE DEF m
  <2>3. Increasing(queue'[s])
    <3>1. queue[s] \in Seq(Nat) /\ Increasing(queue[s])
          /\ \A n \in ToSet(queue[s]) : n < m
      BY <1>0, <2>2 DEF Sorted
    <3> QED
      BY <3>1, <2>1, <2>2, IncreasingAppend
  <2>4. ToSet(queue'[s]) \subseteq ToSet(queue[s]) \union {m}
    BY <1>0, <2>1, <2>2, AppendElements
  <2>5. \A r \in Sessions : ToSet(queue'[r]) \subseteq ToSet(queue[r]) \union {m}
    BY <2>1, <2>4
  <2>7. ASSUME NEW e \in Tasks, NEW r \in Sessions, NEW n \in ToSet(queue'[r]),
               \A k \in ToSet(queue[r]) : pushes[e] = pushes[k] => e < k,
               pushes'[e] = pushes'[n]
        PROVE  e < n
    BY <1>0, <2>2, <2>5, <2>7
  <2>8. \A r \in Sessions : Before(ToSet(emitted), ToSet(queue[r]))'
    BY <1>0, <2>1, <2>7 DEF Before, Sorted
  <2>9. ASSUME NEW f \in DOMAIN Rest
        PROVE  /\ Before(ToSet(emitted), ToSet(Rest[f]))'
               /\ \A r \in Sessions : Before(ToSet(Rest[f]), ToSet(queue[r]))'
    <3>1. \A e \in ToSet(emitted) \union ToSet(Rest[f]) : e \in Tasks
      BY <1>0
    <3>2. Before(ToSet(emitted), ToSet(Rest[f]))'
      BY <2>1, <2>2, <3>1 DEF Before, Sorted
    <3>3. ASSUME NEW r \in Sessions, NEW e \in ToSet(Rest[f]),
                 NEW n \in ToSet(queue'[r]), pushes'[e] = pushes'[n]
          PROVE  e < n
      <4>1. \A k \in ToSet(queue[r]) : pushes[e] = pushes[k] => e < k
        BY DEF Sorted, Before
      <4> QED
        BY <2>7, <3>1, <3>3, <4>1
    <3> QED
      BY <2>1, <3>2, <3>3 DEF Before
  <2>10. \A i, j \in DOMAIN emitted :
           i < j /\ pushes'[emitted[i]] = pushes'[emitted[j]] =>
             emitted[i] < emitted[j]
    <3>1. \A i \in DOMAIN emitted : emitted[i] \in Tasks
      BY <1>0 DEF ToSet
    <3> QED
      BY <2>2, <3>1 DEF Sorted
  <2> QED
    BY <2>1, <2>3, <2>8, <2>9, <2>10 DEF Sorted
<1>3. ASSUME NEW S \in SUBSET Sessions, Frees(S) PROVE Sorted'
  <2>1. \A r \in Sessions : queue'[r] = queue[r] \/ queue'[r] = <<>>
    BY <1>3 DEF Frees
  <2> QED
    BY <1>3, <1>e, <2>1 DEF Frees, Sorted, Before
<1>4. CASE Swaps
  <2>1. /\ state \in Sessions /\ queue'[state] = <<>>
        /\ emitted' = emitted /\ pushes' = pushes
        /\ \A r \in Sessions \ {state} : queue'[r] = queue[r]
        /\ DOMAIN Rest' = {1} /\ Rest'[1] = queue[state]
    <3>1. frames = <<>>
      BY <1>4 DEF Swaps, Single
    <3> QED
      BY <1>4, <3>1 DEF Swaps, IndInv, TypeOK
  <2>2. \A r \in Sessions : Before(ToSet(queue[state]), ToSet(queue'[r]))
    <3>1. \A r \in Sessions : \A n \in ToSet(queue[r]) : pushes[n] = r
      BY DEF IndInv, Numbering
    <3> QED
      BY <1>e, <2>1, <3>1 DEF Before
  <2> QED
    BY <1>e, <2>1, <2>2 DEF Sorted, Before
<1>5. ASSUME NEW f \in DOMAIN Rest, Emits(f) PROVE Sorted'
  <2> DEFINE h == Head(Rest[f])
  <2>1. /\ Rest[f] \in Seq(Nat) /\ Rest[f] # <<>> /\ Increasing(Rest[f])
        /\ DOMAIN Rest' = DOMAIN Rest /\ Rest'[f] = Tail(Rest[f])
        /\ \A g \in DOMAIN Rest \ {f} : Rest'[g] = Rest[g]
        /\ emitted' = Append(emitted, h) /\ queue' = queue /\ pushes' = pushes
    BY <1>0, <1>5 DEF Emits, Sorted, Rest
  <2>2. /\ Increasing(Tail(Rest[f])) /\ \A n \in ToSet(Tail(Rest[f])) : h < n
        /\ ToSet(Tail(Rest[f])) \subseteq ToSet(Rest[f]) /\ h \in ToSet(Rest[f])
    BY <2>1, IncreasingTail, TailElements
  <2> HIDE DEF h
  <2>3. DOMAIN Rest = {f}
    BY RestType DEF Single
  <2>4. h \in Nat /\ ToSet(emitted') \subseteq ToSet(emitted) \union {h}
    BY <1>0, <2>1, <2>2, AppendElements
  <2>5. \A s \in Sessions : Before(ToSet(emitted), ToSet(queue[s]))'
    BY <2>1, <2>2, <2>4 DEF Sorted, Before
  <2>6. \A g \in DOMAIN Rest' :
          /\ Increasing(Rest'[g])
          /\ Before(ToSet(emitted), ToSet(Rest[g]))'
          /\ \A s \in Sessions : Before(ToSet(Rest[g]), ToSet(queue[s]))'
    BY <2>1, <2>2, <2>3, <2>4 DEF Sorted, Before
  <2>7. ASSUME NEW i \in DOMAIN emitted', NEW j \in DOMAIN emitted', i < j,
               pushes'[emitted'[i]] = pushes'[emitted'[j]]
        PROVE  emitted'[i] < emitted'[j]
    <3>1. /\ DOMAIN emitted' = 1 .. Len(emitted) + 1 /\ Len(emitted) \in Nat
          /\ emitted'[Len(emitted) + 1] = h /\ DOMAIN emitted = 1 .. Len(emitted)
          /\ \A k \in 1 .. Len(emitted) : emitted'[k] = emitted[k]
      BY <1>0, <2>1, <2>4, AppendProperties
    <3>2. i \in DOMAIN emitted /\ emitted'[i] = emitted[i]
      BY <2>7, <3>1
    <3>3. CASE j \in DOMAIN emitted
      BY <2>1, <2>7, <3>1, <3>2, <3>3 DEF Sorted
    <3>4. CASE j = Len(emitted) + 1
      <4>1. emitted[i] \in ToSet(emitted)
        BY <3>2 DEF ToSet
      <4> QED
        BY <2>1, <2>2, <2>7, <3>1, <3>2, <3>4, <4>1 DEF Sorted, Before
    <3> QED
      BY <3>1, <3>3, <3>4
  <2> QED
    BY <2>1, <2>5, <2>6, <2>7 DEF Sorted
<1>6. CASE Returns
  BY <1>6 DEF Returns, Sorted, Before
<1> QED
  BY <1>1, <1>2, <1>3, <1>4, <1>5, <1>6, Effect

-----------------------------------------------------------------------------
(* The theorems about signals.                                             *)

\* The parts above hold in every reachable state.
THEOREM Delivery == Spec => [](IndInv /\ Once /\ Pushed /\ Kept /\ Ordered)
<1>1. Init => Once /\ Pushed /\ Kept /\ Ordered
  <2>1. Init => Kept
    BY DEF Init, Kept, Tasks
  <2> QED
    BY <2>1, OnceInit, PushedInit, OrderedInit
<1>2. IndInv /\ Once /\ Pushed /\ Kept /\ Ordered /\ [Next]_vars
        => (Once /\ Pushed /\ Kept /\ Ordered)'
  <2> SUFFICES ASSUME IndInv, Once, Pushed, Kept, Ordered, [Next]_vars
               PROVE  (Once /\ Pushed /\ Kept /\ Ordered)'
    OBVIOUS
  <2>1. CASE Next
    BY <2>1, OnceStep, PushedStep, KeptStep, SingleStep, SortedStep DEF Ordered
  <2>2. CASE UNCHANGED vars
    <3>1. Rest' = Rest
      BY <2>2, RestSame DEF vars
    <3> QED
      BY <2>2, <3>1 DEF vars, Once, Pushed, Kept, Ordered, Single, Sorted,
         Before, Queued, Taken, Tasks
  <2> QED
    BY <2>1, <2>2
<1> QED
  BY <1>1, <1>2, Invariance, PTL DEF Spec

\* A signal is emitted at most once, and not while its task still waits, however
\* deep polls nest.
THEOREM EmittedOnce == Spec => []AtMostOnce
<1>1. IndInv /\ Once => AtMostOnce
  <2> SUFFICES ASSUME IndInv, Once PROVE AtMostOnce
    OBVIOUS
  <2>1. ASSUME NEW n \in ToSet(emitted) PROVE n \notin Waiting
    BY <2>1, WaitingIs DEF Queued, Taken, Once
  <2> QED
    BY <2>1 DEF Once, AtMostOnce
<1> QED
  BY Delivery, <1>1, PTL

\* A task of the present session waits or was emitted.
THEOREM SignalsAreKept == Spec => []SignalsKept
<1>1. IndInv /\ Kept => SignalsKept
  BY WaitingIs DEF Kept, SignalsKept
<1> QED
  BY Delivery, <1>1, PTL

\* Unless a handler has polled, signals of a session come in their order.
THEOREM SignalsStayInOrder == Spec => []SignalsInOrder
<1>1. IndInv /\ Ordered => SignalsInOrder
  <2> SUFFICES ASSUME IndInv, Ordered PROVE SignalsInOrder
    OBVIOUS
  <2>1. DOMAIN emitted = 1 .. Len(emitted)
    BY DEF IndInv, TypeOK
  <2> QED
    BY <2>1 DEF Ordered, Sorted, SignalsInOrder
<1> QED
  BY Delivery, <1>1, PTL

-----------------------------------------------------------------------------
(* The refinement of SignalLine.                                           *)

Stands == IF state = 0 THEN {} ELSE ToSet(queue[state])
OnTheWay == UNION {ToSet(Rest[f]) : f \in DOMAIN Rest}

\* The line seen through Rest.
LEMMA LineIs ==
  IndInv => UNION {ToSet(Behind(f)) : f \in 1 .. Len(frames)} = OnTheWay
<1> SUFFICES ASSUME IndInv
             PROVE  UNION {ToSet(Behind(f)) : f \in 1 .. Len(frames)} = OnTheWay
  OBVIOUS
<1>1. /\ DOMAIN Rest = 1 .. Len(frames)
      /\ \A f \in 1 .. Len(frames) : Rest[f] = Behind(f)
  BY RestType
<1> QED
  BY <1>1 DEF OnTheWay

LEMMA LineIsNext ==
  IndInv' => (UNION {ToSet(Behind(f)) : f \in 1 .. Len(frames)})' = OnTheWay'
<1> SUFFICES ASSUME IndInv'
             PROVE  (UNION {ToSet(Behind(f)) : f \in 1 .. Len(frames)})' = OnTheWay'
  OBVIOUS
<1>1. DOMAIN frames' = 1 .. Len(frames')
  BY DEF IndInv, TypeOK
<1>2. /\ DOMAIN Rest' = 1 .. Len(frames')
      /\ \A f \in 1 .. Len(frames') : Rest'[f] = Behind(f)'
  BY <1>1 DEF Rest
<1> QED
  BY <1>2 DEF OnTheWay

\* Only _close makes a session, and only _poll can find a handler running.
LEMMA SessionSame == Next /\ ~CloseReset => state' = state
BY DEF Next, Library, Event, CallbackStep, LockState, LockMutex, PushTask,
   ReleaseState, Poll, PollCall, PollStep, PollLock, PollSwap, EmitSignal,
   HandlerReturn, PollReturn, Manage, CloseCall, CloseStep, Construct,
   InitializeFails, CreatePc, Negotiate

LEMMA NestedSame == Next /\ ~PollCall => nested' = nested
BY DEF Next, Library, Event, CallbackStep, LockState, LockMutex, PushTask,
   ReleaseState, Poll, PollStep, PollLock, PollSwap, EmitSignal,
   HandlerReturn, PollReturn, Manage, CloseCall, CloseStep, Construct,
   CloseReset, InitializeFails, CreatePc, Negotiate

\* The state of a session that has no connection yet is empty.
LEMMA QueueUnused ==
  ASSUME IndInv, NEW s \in Sessions, pc < s
  PROVE  ToSet(queue[s]) = {}
<1>1. \A n \in ToSet(queue[s]) : s <= pc
  BY DEF IndInv, Numbering
<1>2. pc \in Nat /\ s \in Nat
  BY BoundsAssumption DEF IndInv, TypeOK, Sessions
<1> QED
  BY <1>1, <1>2

\* A session's end: a fresh state, whose queue is empty, and the running polls
\* as they were.
LEMMA LineClose ==
  ASSUME IndInv, CloseReset
  PROVE  /\ state' = state + 1 /\ Stands' = {} /\ OnTheWay' = OnTheWay
         /\ UNCHANGED <<pushes, emitted, nested>>
<1>1. /\ state' = state + 1 /\ state' # 0 /\ state' \in Sessions /\ pc < state'
  BY BoundsAssumption
  DEF CloseReset, IndInv, Control, Numbering, TypeOK, Sessions
<1>2. ToSet(queue[state']) = {}
  BY <1>1, QueueUnused
<1>3. queue'[state'] = queue[state']
  <2>1. state' # state
    BY <1>1 DEF IndInv, TypeOK
  <2> QED
    BY <1>1, <2>1 DEF CloseReset
<1>4. Rest' = Rest
  <2>1. frames' = frames /\ main # "loop" /\ main' # "loop"
    BY DEF CloseReset, IndInv, TypeOK
  <2> QED
    BY <2>1, RestSame
<1>5. Stands' = {}
  BY <1>1, <1>2, <1>3 DEF Stands
<1>6. OnTheWay' = OnTheWay
  BY <1>4 DEF OnTheWay
<1> QED
  BY <1>1, <1>5, <1>6 DEF CloseReset

\* What is freed is not the line: the present state is owned, or the object is
\* destroyed and no connection was made after its last _close.
LEMMA LineFreed ==
  ASSUME IndInv, IndInv', Pushed', state' = state,
         NEW S \in SUBSET Sessions, Frees(S)
  PROVE  Stands' = Stands
<1>1. CASE state = 0
  BY <1>1 DEF Stands
<1>2. CASE state # 0 /\ main' # "destroyed"
  <2>1. state \in Sessions /\ state \notin S
    BY <1>2 DEF Frees, Owned, IndInv, TypeOK, Sessions
  <2> QED
    BY <1>2, <2>1 DEF Frees, Stands
<1>3. CASE state # 0 /\ main' = "destroyed"
  <2>1. state \in Sessions /\ (pc' < state)
    BY <1>3 DEF Pushed, IndInv, TypeOK, Sessions
  <2>2. ToSet(queue[state]) = {}
    <3>1. \A n \in ToSet(queue[state]) : n \in Tasks /\ pushes[n] = state
      BY <2>1, PlacesTyped DEF IndInv, Numbering
    <3>2. \A n \in Tasks : n \in Tasks' /\ pushes'[n] = pushes[n]
      BY DEF Frees, Tasks
    <3>3. \A n \in Tasks' : pushes'[n] <= pc'
      BY DEF Pushed, IndInv, Numbering
    <3>4. pc' \in Nat /\ state \in Nat
      BY BoundsAssumption DEF IndInv, TypeOK
    <3> QED
      BY <2>1, <3>1, <3>2, <3>3, <3>4
  <2>3. queue'[state] = queue[state] \/ queue'[state] = <<>>
    BY <2>1 DEF Frees
  <2> QED
    BY <1>3, <2>2, <2>3, InjectiveEmpty DEF Stands
<1> QED
  BY <1>1, <1>2, <1>3

\* A task joins the line if it is the present session's.
LEMMA LineGiven ==
  ASSUME IndInv, state' = state, NEW s \in Sessions, Pushes(s)
  PROVE  /\ pushes' = Append(pushes, s)
         /\ Stands' = IF s = state THEN Stands \union {Len(pushes')} ELSE Stands
         /\ OnTheWay' = OnTheWay
<1> DEFINE n == Len(pushes')
<1>1. n = Len(pushes) + 1 /\ n \in Nat /\ 0 \notin Sessions
  BY DEF Pushes, IndInv, TypeOK, Sessions
<1>2. /\ queue'[s] = Append(queue[s], n) /\ queue[s] \in Seq(Nat)
      /\ \A r \in Sessions \ {s} : queue'[r] = queue[r]
  <2>1. Seq(Tasks) \subseteq Seq(Nat)
    BY PlacesTyped, SeqMonotonic
  <2> QED
    BY <1>1, <2>1, PlacesTyped DEF Pushes, IndInv, TypeOK
<1>3. OnTheWay' = OnTheWay
  BY DEF Pushes, OnTheWay
<1>4. pushes' = Append(pushes, s)
  BY DEF Pushes
<1> HIDE DEF n
<1>5. ToSet(queue'[s]) = ToSet(queue[s]) \union {n}
  <2>1. ToSet(queue'[s]) \subseteq ToSet(queue[s]) \union {n}
    BY <1>1, <1>2, AppendElements
  <2>2. ToSet(queue[s]) \subseteq ToSet(queue'[s]) /\ n \in ToSet(queue'[s])
    BY <1>1, <1>2, AppendElementsAre
  <2> QED
    BY <2>1, <2>2
<1>6. CASE s = state
  BY <1>1, <1>3, <1>4, <1>5, <1>6 DEF Stands, n
<1>7. CASE s # state
  <2>1. state = 0 \/ state \in Sessions
    BY DEF IndInv, TypeOK, Sessions
  <2> QED
    BY <1>2, <1>3, <1>4, <1>7, <2>1 DEF Stands
<1> QED
  BY <1>6, <1>7

\* A poll takes the line.
LEMMA LineTaken ==
  ASSUME IndInv, Ordered, state' = state, Swaps
  PROVE  /\ nested \/ OnTheWay = {}
         /\ OnTheWay' = OnTheWay \union Stands /\ Stands' = {}
<1>1. nested \/ OnTheWay = {}
  <2>1. nested \/ frames = <<>>
    BY DEF Ordered, Single, Swaps
  <2>2. frames = <<>> => DOMAIN Rest = {}
    BY DEF Rest
  <2> QED
    BY <2>1, <2>2 DEF OnTheWay
<1>2. Stands' = {} /\ Stands = ToSet(queue[state])
  BY InjectiveEmpty DEF Swaps, Stands, IndInv, TypeOK, Sessions
<1>3. OnTheWay' = OnTheWay \union ToSet(queue[state])
  <2>1. /\ DOMAIN Rest' = DOMAIN Rest \union {Len(frames) + 1}
        /\ \A f \in DOMAIN Rest : Rest'[f] = Rest[f]
        /\ Rest'[Len(frames) + 1] = queue[state]
    <3>1. DOMAIN Rest = 1 .. Len(frames) /\ Len(frames) \in Nat
      BY RestType
    <3> QED
      BY <3>1 DEF Swaps
  <2> QED
    BY <2>1 DEF OnTheWay
<1> QED
  BY <1>1, <1>2, <1>3

\* The signal that is emitted was taken, is not taken any more, and, while no
\* handler has polled, was the first.
LEMMA LineEmitted ==
  ASSUME IndInv, Once, Ordered, state' = state, NEW f \in DOMAIN Rest, Emits(f)
  PROVE  \E n \in OnTheWay :
           /\ nested \/ \A m \in OnTheWay : n <= m
           /\ OnTheWay' = OnTheWay \ {n}
           /\ emitted' = Append(emitted, n)
           /\ Stands' = Stands /\ pushes' = pushes
<1> DEFINE n == Head(Rest[f])
<1>1. /\ Rest[f] \in Seq(Tasks) /\ Rest[f] # <<>> /\ IsInjective(Rest[f])
      /\ DOMAIN Rest' = DOMAIN Rest /\ Rest'[f] = Tail(Rest[f])
      /\ \A g \in DOMAIN Rest \ {f} : Rest'[g] = Rest[g]
      /\ emitted' = Append(emitted, n) /\ queue' = queue /\ pushes' = pushes
  BY RestType DEF Emits, Once, Rest
<1>2. ToSet(Rest[f]) = ToSet(Tail(Rest[f])) \union {n} /\ n \notin ToSet(Tail(Rest[f]))
  <2>1. /\ ToSet(Tail(Rest[f])) \subseteq ToSet(Rest[f]) /\ n \in ToSet(Rest[f])
        /\ n \notin ToSet(Tail(Rest[f]))
    BY <1>1, TailElements, InjectiveTail
  <2>2. ToSet(Rest[f]) \subseteq ToSet(Tail(Rest[f])) \union {n}
    BY <1>1, HeadTailElements
  <2> QED
    BY <2>1, <2>2
<1>3. nested \/ \A m \in OnTheWay : n <= m
  <2> SUFFICES ASSUME ~nested, NEW m \in OnTheWay PROVE n <= m
    OBVIOUS
  <2>1. DOMAIN Rest = {f} /\ Increasing(Rest[f])
    BY RestType DEF Ordered, Single, Sorted
  <2>2. Rest[f] \in Seq(Nat)
    <3>1. Seq(Tasks) \subseteq Seq(Nat)
      BY PlacesTyped, SeqMonotonic
    <3> QED
      BY <1>1, <3>1
  <2>3. \A k \in ToSet(Tail(Rest[f])) : n < k
    BY <1>1, <2>1, <2>2, IncreasingTail
  <2>4. m \in ToSet(Rest[f])
    BY <2>1 DEF OnTheWay
  <2>5. n \in Nat /\ m \in Nat
    <3>1. ToSet(Rest[f]) \subseteq Nat
      BY PlacesTyped
    <3> QED
      BY <1>2, <2>4, <3>1
  <2> HIDE DEF n
  <2> QED
    BY <1>2, <2>3, <2>4, <2>5
<1> HIDE DEF n
<1>4. OnTheWay' = OnTheWay \ {n}
  <2>1. \A g \in DOMAIN Rest \ {f} : n \notin ToSet(Rest[g])
    BY <1>2 DEF Once
  <2>2. ToSet(Rest'[f]) = ToSet(Rest[f]) \ {n}
    BY <1>1, <1>2
  <2>3. \A g \in DOMAIN Rest \ {f} : ToSet(Rest'[g]) = ToSet(Rest[g]) \ {n}
    BY <1>1, <2>1
  <2>4. \A g \in DOMAIN Rest : ToSet(Rest'[g]) = ToSet(Rest[g]) \ {n}
    BY <2>2, <2>3
  <2>5. \A m : m \in OnTheWay <=> \E g \in DOMAIN Rest : m \in ToSet(Rest[g])
    BY DEF OnTheWay
  <2>6. \A m : m \in OnTheWay' <=> \E g \in DOMAIN Rest : m \in ToSet(Rest'[g])
    BY <1>1 DEF OnTheWay
  <2> QED
    BY <2>4, <2>5, <2>6
<1>5. Stands' = Stands
  BY <1>1 DEF Stands
<1>6. n \in OnTheWay
  BY <1>2 DEF OnTheWay
<1> QED
  BY <1>1, <1>3, <1>4, <1>5, <1>6

\* A poll that is done had nothing left of the line.
LEMMA LineDone ==
  ASSUME state' = state, Returns
  PROVE  OnTheWay' = OnTheWay /\ Stands' = Stands /\ UNCHANGED <<pushes, emitted>>
<1>1. \A f \in DOMAIN Rest \ DOMAIN Rest' : ToSet(Rest[f]) = {}
  BY InjectiveEmpty DEF Returns
<1>2. OnTheWay' = OnTheWay
  BY <1>1 DEF Returns, OnTheWay
<1> QED
  BY <1>2 DEF Returns, Stands

\* Every step of the object is one of the line, or leaves the line alone.
LEMMA LineStep ==
  ASSUME IndInv, Once, Pushed, Ordered, Next, IndInv', Pushed'
  PROVE  [Line!Next]_(Line!vars)
<1> DEFINE Same == /\ state' = state /\ nested' = nested /\ pushes' = pushes
                   /\ emitted' = emitted
                   /\ Stands' = Stands /\ OnTheWay' = OnTheWay
<1>1. UNION {ToSet(Behind(f)) : f \in 1 .. Len(frames)} = OnTheWay
  BY LineIs
<1>2. (UNION {ToSet(Behind(f)) : f \in 1 .. Len(frames)})' = OnTheWay'
  BY LineIsNext
<1>3. Same => UNCHANGED Line!vars
  BY <1>1, <1>2 DEF Line!vars, Stands
<1>4. CASE CloseReset
  <2>1. Line!NewSession
    BY <1>1, <1>2, <1>4, LineClose DEF Line!NewSession, Stands
  <2> QED
    BY <2>1 DEF Line!Next
<1>5. CASE PollCall
  <2>1. /\ Rest' = Rest /\ UNCHANGED <<state, queue, pushes, emitted>>
        /\ nested' = nested \/ nested' = TRUE
    BY <1>5, RestSame DEF PollCall, IndInv, TypeOK
  <2>2. /\ UNCHANGED <<state, pushes, emitted>>
        /\ Stands' = Stands /\ OnTheWay' = OnTheWay
    BY <2>1 DEF Stands, OnTheWay
  <2>3. CASE nested' = nested
    BY <1>3, <2>2, <2>3
  <2>4. CASE nested' = TRUE
    <3>1. Line!Reenter
      BY <1>1, <1>2, <2>2, <2>4 DEF Line!Reenter, Stands
    <3> QED
      BY <3>1 DEF Line!Next
  <2> QED
    BY <2>1, <2>3, <2>4
<1> SUFFICES ASSUME ~CloseReset, ~PollCall PROVE [Line!Next]_(Line!vars)
  BY <1>4, <1>5
<1>6. state' = state /\ nested' = nested
  BY SessionSame, NestedSame
<1>7. CASE Quiet
  BY <1>3, <1>6, <1>7 DEF Quiet, Stands, OnTheWay
<1>8. ASSUME NEW s \in Sessions, Pushes(s) PROVE Line!Give(s)
  <2>1. emitted' = emitted
    BY <1>8 DEF Pushes
  <2> QED
    BY <1>1, <1>2, <1>6, <1>8, <2>1, LineGiven DEF Line!Give, Stands
<1>9. ASSUME NEW S \in SUBSET Sessions, Frees(S) PROVE Same
  <2>1. OnTheWay' = OnTheWay /\ UNCHANGED <<pushes, emitted>>
    BY <1>9 DEF Frees, OnTheWay
  <2> QED
    BY <1>6, <1>9, <2>1, LineFreed
<1>10. CASE Swaps
  <2>1. UNCHANGED <<pushes, emitted>>
    BY <1>10 DEF Swaps
  <2>2. Line!Take
    BY <1>1, <1>2, <1>6, <1>10, <2>1, LineTaken DEF Line!Take, Stands
  <2> QED
    BY <2>2 DEF Line!Next
<1>11. ASSUME NEW f \in DOMAIN Rest, Emits(f) PROVE Line!Next
  <2>1. PICK n \in OnTheWay :
          /\ nested \/ \A m \in OnTheWay : n <= m
          /\ OnTheWay' = OnTheWay \ {n}
          /\ emitted' = Append(emitted, n)
          /\ Stands' = Stands /\ pushes' = pushes
    BY <1>6, <1>11, LineEmitted
  <2>2. Line!Emit(n)
    BY <1>1, <1>2, <1>6, <2>1 DEF Line!Emit, Stands
  <2> QED
    BY <1>1, <2>1, <2>2 DEF Line!Next
<1>12. CASE Returns
  BY <1>3, <1>6, <1>12, LineDone
<1> HIDE DEF Same
<1> QED
  BY <1>3, <1>7, <1>8, <1>9, <1>10, <1>11, <1>12, Effect DEF Line!Next

\* The object implements one line of signals: whatever the threads, nested
\* polls and closes do, a poll takes every signal of the present connection,
\* and each is emitted once and in order.
THEOREM LineRefinement == Spec => ImplementsLine
<1>1. Init => Line!Init
  <2> SUFFICES ASSUME Init PROVE Line!Init
    OBVIOUS
  <2>1. UNION {ToSet(Behind(f)) : f \in 1 .. Len(frames)} = {}
    BY DEF Init
  <2> QED
    BY <2>1 DEF Init, Line!Init
<1>2. /\ IndInv /\ Once /\ Pushed /\ Kept /\ Ordered
      /\ (IndInv /\ Once /\ Pushed /\ Kept /\ Ordered)' /\ [Next]_vars
      => [Line!Next]_(Line!vars)
  <2>1. UNCHANGED vars => UNCHANGED Line!vars
    BY DEF vars, Line!vars, Behind
  <2> QED
    BY <2>1, LineStep
<1> QED
  BY Delivery, <1>1, <1>2, PTL DEF Spec, ImplementsLine, Line!Spec

=============================================================================
