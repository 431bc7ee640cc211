----------------------- MODULE ReceivedChannelsProofs ------------------------
(***************************************************************************)
(* Received channels: none is lost to the script while its session lasts,  *)
(* and none is closed under a mutex, for any threads and bounds.           *)
(***************************************************************************)
EXTENDS ReceivedChannels, PeerConnectionProofs

USE DEF objVars, stateVars, libVars, histVars, channelVars

-----------------------------------------------------------------------------
(* Every step is one of the peer connection.                               *)

LEMMA StepImplements == ReceivedNext => Next \/ UNCHANGED vars
BY DEF ReceivedNext, ChannelStep, OtherStep, ReceiveChannel, OtherEvent,
   PushChannel, EmitChannel, DropChannel, Next, Library, CallbackStep, Poll,
   PollStep

\* Wrappers and their references take nothing from the peer connection: all that
\* is proved of it holds here, too.
THEOREM ReceivingHarmless == ReceivedSpec => Spec
<1>1. ReceivedInit => Init
  BY DEF ReceivedInit
<1>2. [ReceivedNext]_receivedVars => [Next]_vars
  BY StepImplements DEF receivedVars, vars
<1> QED
  BY <1>1, <1>2, PTL DEF ReceivedSpec, Spec

-----------------------------------------------------------------------------
(* The mutexes.                                                            *)

\* A thread holds its state's mutex while it pushes, Main the present state's
\* while it swaps.
Held ==
  \A s \in Sessions :
    /\ \A t \in Threads : mutex[s] = t => at[t] = "locked" /\ of[t] = s
    /\ mutex[s] = Main => main = "swap" /\ s = state

LEMMA HeldInit == Init => Held
BY ProcsAssumption DEF Init, Held, Procs

LEMMA HeldStep == IndInv /\ Held /\ Next => Held'
<1> SUFFICES ASSUME IndInv, Held, Next PROVE Held'
  OBVIOUS
<1>0. /\ mutex \in [Sessions -> Procs \union {"free"}] /\ of \in [Threads -> Int]
      /\ at \in [Threads -> {"idle", "entered", "strong", "locked", "done"}]
      /\ Main \notin Threads /\ "free" # Main /\ "free" \notin Threads
  BY ProcsAssumption DEF IndInv, TypeOK, Procs
<1> USE <1>0 DEF Held
<1>1. ASSUME NEW t \in Threads,
             (\E s \in Sessions : Event(t, s)) \/ LockState(t) \/ ReleaseState(t)
      PROVE  Held'
  BY <1>1 DEF Event, LockState, ReleaseState
<1>2. ASSUME NEW t \in Threads, LockMutex(t) PROVE Held'
  BY <1>2 DEF LockMutex
<1>3. ASSUME NEW t \in Threads, PushTask(t) PROVE Held'
  BY <1>3 DEF PushTask
<1>4. CASE PollLock
  BY <1>4 DEF PollLock
<1>5. CASE PollSwap
  BY <1>5 DEF PollSwap
<1>6. CASE PollCall \/ EmitSignal \/ HandlerReturn \/ PollReturn
  BY <1>6 DEF PollCall, EmitSignal, HandlerReturn, InHandler, PollReturn
<1>7. CASE Manage
  BY <1>7 DEF Manage, CloseCall, CloseStep, Construct, CloseReset,
     InitializeFails, CreatePc, Negotiate, IndInv, TypeOK
<1> QED
  BY <1>1, <1>2, <1>3, <1>4, <1>5, <1>6, <1>7
  DEF Next, Library, CallbackStep, Poll, PollStep

-----------------------------------------------------------------------------
(* What becomes of a channel.                                              *)

\* Its callback has not queued it yet, or a task of its session has it, or the
\* script; or its session has ended.
Followed(c) ==
  \/ c \in given
  \/ \E t \in Threads :
       at[t] \in {"entered", "strong", "locked"} /\ wraps[t] = c
       /\ of[t] = received[c]
  \/ \E n \in Tasks : carries[n] = c /\ pushes[n] = received[c]
  \/ received[c] # state \/ main = "destroyed"

Following ==
  /\ \A c \in Channels : received[c] \in started /\ Followed(c)
  /\ \A n \in ToSet(emitted) : carries[n] = 0 \/ carries[n] \in given

\* A function on 1 .. n is a sequence.
LEMMA FunctionIsSeq ==
  ASSUME NEW S, NEW n \in Nat, NEW f \in [1 .. n -> S]
  PROVE  f \in Seq(S) /\ Len(f) = n
OBVIOUS

LEMMA ReceivedInitTypes == ReceivedInit => ReceivedTypeOK /\ Following
<1> SUFFICES ASSUME ReceivedInit PROVE ReceivedTypeOK /\ Following
  OBVIOUS
<1>1. Len(<<>>) = 0 /\ Tasks = {} /\ Channels = {} /\ emitted = <<>>
  BY DEF ReceivedInit, Init, Tasks, Channels
<1>2. carries \in [Tasks -> 0 .. Len(received)]
  BY <1>1 DEF ReceivedInit
<1> QED
  BY <1>1, <1>2, InjectiveEmpty DEF ReceivedInit, ReceivedTypeOK, Following

LEMMA ReceivedTypeStep ==
  IndInv /\ ReceivedTypeOK /\ ReceivedNext => ReceivedTypeOK'
<1> SUFFICES ASSUME IndInv, ReceivedTypeOK, ReceivedNext PROVE ReceivedTypeOK'
  OBVIOUS
<1> USE DEF ReceivedTypeOK
<1>0. Len(received) \in Nat /\ received \in Seq(Sessions) /\ Len(pushes) \in Nat
      /\ pushes \in Seq(Sessions)
  BY DEF IndInv, TypeOK
<1>1. ASSUME NEW t \in Threads, NEW s \in Sessions, ReceiveChannel(t, s)
      PROVE  ReceivedTypeOK'
  <2>1. received' \in Seq(Sessions) /\ Len(received') = Len(received) + 1
    BY <1>0, <1>1 DEF ReceiveChannel
  <2>2. 0 .. Len(received) \subseteq 0 .. Len(received')
        /\ Channels \subseteq Channels' /\ Len(received') \in 0 .. Len(received')
    BY <1>0, <2>1 DEF Channels
  <2>3. Tasks' = Tasks
    BY <1>1 DEF ReceiveChannel, Event, Tasks
  <2> QED
    BY <1>1, <2>1, <2>2, <2>3 DEF ReceiveChannel
<1>2. ASSUME NEW t \in Threads, NEW s \in Sessions, OtherEvent(t, s)
      PROVE  ReceivedTypeOK'
  BY <1>0, <1>2 DEF OtherEvent, Event, Tasks, Channels
<1>3. ASSUME NEW t \in Threads, PushChannel(t) PROVE ReceivedTypeOK'
  <2>1. of[t] \in Sessions /\ wraps[t] \in 0 .. Len(received)
    BY <1>3 DEF PushChannel, PushTask, IndInv, TypeOK, Numbering
  <2>2. Len(pushes') = Len(pushes) + 1
    BY <1>0, <1>3, <2>1 DEF PushChannel, PushTask
  <2>3. carries \in Seq(0 .. Len(received)) /\ Len(carries) = Len(pushes)
    BY <1>0, FunctionIsSeq DEF Tasks
  <2>4. carries' \in [Tasks' -> 0 .. Len(received)]
    <3>1. /\ Append(carries, wraps[t]) \in Seq(0 .. Len(received))
          /\ Len(Append(carries, wraps[t])) = Len(pushes')
      BY <2>1, <2>2, <2>3, AppendProperties
    <3>2. carries' \in Seq(0 .. Len(received)) /\ Len(carries') = Len(pushes')
      BY <1>3, <3>1 DEF PushChannel
    <3> QED
      BY <3>2 DEF Tasks
  <2> QED
    BY <1>3, <2>4 DEF PushChannel, Channels
<1>4. ASSUME NEW keep \in BOOLEAN, EmitChannel(keep) PROVE ReceivedTypeOK'
  <2>1. Head(Top) \in Tasks
    <3>1. Top \in Seq(Tasks) /\ Top # <<>>
      BY <1>4, TopFrame DEF EmitChannel, EmitSignal, IndInv, Control
    <3> QED
      BY <3>1, HeadTailProperties
  <2>2. carries[Head(Top)] # 0 => carries[Head(Top)] \in Channels
    BY <1>0, <2>1 DEF Channels
  <2>3. /\ Tasks' = Tasks /\ Channels' = Channels
        /\ UNCHANGED <<received, wraps, carries>>
    BY <1>4 DEF EmitChannel, EmitSignal, Tasks, Channels
  <2>4. given' \subseteq Channels /\ held' \subseteq given'
    BY <1>4, <2>2 DEF EmitChannel
  <2> QED
    BY <2>3, <2>4
<1>5. ASSUME NEW c \in held, DropChannel(c) PROVE ReceivedTypeOK'
  BY <1>5 DEF DropChannel, vars, Tasks, Channels
<1>6. CASE OtherStep
  <2>1. pushes' = pushes
    BY <1>6 DEF OtherStep, LockState, LockMutex, ReleaseState, PollCall,
       PollLock, PollSwap, HandlerReturn, PollReturn, Manage, CloseCall,
       CloseStep, Construct, CloseReset, InitializeFails, CreatePc, Negotiate
  <2> QED
    BY <1>6, <2>1 DEF OtherStep, Tasks, Channels
<1> QED
  BY <1>1, <1>2, <1>3, <1>4, <1>5, <1>6 DEF ReceivedNext, ChannelStep

\* The session of a channel that is known is not ahead of the object's.
LEMMA SessionPast ==
  ASSUME IndInv, Following, NEW c \in Channels
  PROVE  received[c] \in Nat /\ received[c] <= state /\ state \in Nat
<1>1. received[c] \in started
  BY DEF Following
<1>2. started \subseteq Sessions /\ state \in Nat /\ pc \in Nat
  BY BoundsAssumption DEF IndInv, TypeOK
<1>3. received[c] <= pc /\ pc <= state
  BY <1>1 DEF IndInv, Numbering
<1>4. received[c] \in Nat
  <2>1. Sessions \subseteq Nat
    BY BoundsAssumption DEF Sessions
  <2> QED
    BY <1>1, <1>2, <2>1
<1> DEFINE s == received[c]
<1> HIDE DEF s
<1>5. s \in Nat /\ s <= pc
  BY <1>3, <1>4 DEF s
<1>6. s <= state
  BY <1>2, <1>3, <1>5
<1> QED
  BY <1>2, <1>4, <1>6 DEF s

LEMMA FollowingStep ==
  IndInv /\ ReceivedTypeOK /\ Following /\ ReceivedNext => Following'
<1> SUFFICES ASSUME IndInv, ReceivedTypeOK, Following, ReceivedNext
             PROVE  Following'
  OBVIOUS
<1>0. /\ Len(received) \in Nat /\ received \in Seq(Sessions)
      /\ Len(pushes) \in Nat /\ pushes \in Seq(Sessions)
      /\ wraps \in [Threads -> 0 .. Len(received)]
      /\ at \in [Threads -> {"idle", "entered", "strong", "locked", "done"}]
      /\ of \in [Threads -> 0 .. MaxSessions] /\ emitted \in Seq(Tasks)
  BY DEF ReceivedTypeOK, IndInv, TypeOK
<1>1. ASSUME NEW t \in Threads, NEW s \in Sessions, ReceiveChannel(t, s)
      PROVE  Following'
  <2>1. /\ Len(received') = Len(received) + 1
        /\ received'[Len(received) + 1] = s /\ s \in started
        /\ \A c \in Channels : received'[c] = received[c]
        /\ \A c \in Channels' : c \in Channels \/ c = Len(received) + 1
        /\ wraps' = [wraps EXCEPT ![t] = Len(received) + 1]
        /\ at[t] = "idle" /\ at' = [at EXCEPT ![t] = "entered"]
        /\ of' = [of EXCEPT ![t] = s]
        /\ UNCHANGED <<given, carries, pushes, started, state, main, emitted>>
    BY <1>0, <1>1 DEF ReceiveChannel, Event, Channels
  <2>3. ASSUME NEW c \in Channels PROVE received'[c] \in started' /\ Followed(c)'
    <3>1. c # Len(received) + 1 /\ received'[c] = received[c] /\ Followed(c)
          /\ received[c] \in started
      BY <1>0, <2>1 DEF Following, Channels
    <3>2. ASSUME NEW u \in Threads, wraps[u] = c, of[u] = received[c],
                 at[u] \in {"entered", "strong", "locked"}
          PROVE  Followed(c)'
      <4>1. u # t
        BY <2>1, <3>2
      <4>2. wraps'[u] = c /\ of'[u] = received'[c] /\ at'[u] = at[u]
        BY <1>0, <2>1, <3>1, <3>2, <4>1
      <4> QED
        BY <3>2, <4>2 DEF Followed
    <3>3. CASE \E n \in Tasks : carries[n] = c /\ pushes[n] = received[c]
      BY <2>1, <3>1, <3>3 DEF Followed, Tasks
    <3>4. CASE c \in given \/ received[c] # state \/ main = "destroyed"
      BY <2>1, <3>1, <3>4 DEF Followed
    <3> QED
      BY <2>1, <3>1, <3>2, <3>3, <3>4 DEF Followed
  <2>4. ASSUME NEW c \in Channels', c = Len(received) + 1
        PROVE  received'[c] \in started' /\ Followed(c)'
    BY <1>0, <2>1, <2>4 DEF Followed
  <2> QED
    BY <2>1, <2>3, <2>4 DEF Following
<1>2. ASSUME NEW t \in Threads, NEW s \in Sessions, OtherEvent(t, s)
      PROVE  Following'
  BY <1>0, <1>2 DEF OtherEvent, Event, Following, Followed, Tasks, Channels
<1>3. ASSUME NEW t \in Threads, PushChannel(t) PROVE Following'
  <2>1. /\ Len(pushes') = Len(pushes) + 1 /\ pushes'[Len(pushes) + 1] = of[t]
        /\ Tasks \subseteq Tasks' /\ Len(pushes) + 1 \in Tasks'
        /\ \A n \in Tasks : pushes'[n] = pushes[n]
    <3>1. of[t] \in Sessions
      BY <1>3 DEF PushChannel, PushTask, IndInv, TypeOK, Numbering
    <3>2. pushes' = Append(pushes, of[t])
      BY <1>3 DEF PushChannel, PushTask
    <3> QED
      BY <1>0, <3>1, <3>2, AppendProperties DEF Tasks
  <2>2. /\ carries'[Len(pushes) + 1] = wraps[t]
        /\ \A n \in Tasks : carries'[n] = carries[n]
    <3>1. carries \in Seq(0 .. Len(received)) /\ Len(carries) = Len(pushes)
      <4>1. carries \in [1 .. Len(pushes) -> 0 .. Len(received)]
        BY DEF ReceivedTypeOK, Tasks
      <4> QED
        BY <1>0, <4>1, FunctionIsSeq
    <3>2. carries' = Append(carries, wraps[t]) /\ wraps[t] \in 0 .. Len(received)
      BY <1>0, <1>3 DEF PushChannel
    <3> QED
      BY <3>1, <3>2, AppendProperties DEF Tasks
  <2>3. /\ at[t] = "locked" /\ at' = [at EXCEPT ![t] = "done"]
        /\ UNCHANGED <<received, wraps, of, given, started, state, main, emitted>>
    BY <1>3 DEF PushChannel, PushTask
  <2>4. ASSUME NEW c \in Channels PROVE Followed(c)'
    <3>1. CASE \E u \in Threads \ {t} :
                 /\ at[u] \in {"entered", "strong", "locked"} /\ wraps[u] = c
                 /\ of[u] = received[c]
      BY <1>0, <2>3, <3>1 DEF Followed
    <3>2. CASE wraps[t] = c /\ of[t] = received[c]
      BY <2>1, <2>2, <2>3, <3>2 DEF Followed
    <3>3. CASE \E n \in Tasks : carries[n] = c /\ pushes[n] = received[c]
      BY <2>1, <2>2, <2>3, <3>3 DEF Followed
    <3>4. CASE c \in given \/ received[c] # state \/ main = "destroyed"
      BY <2>3, <3>4 DEF Followed
    <3> QED
      BY <3>1, <3>2, <3>3, <3>4 DEF Following, Followed
  <2>5. \A n \in ToSet(emitted) : n \in Tasks
    BY <1>0 DEF ToSet
  <2> QED
    BY <2>2, <2>3, <2>4, <2>5 DEF Following, Channels
<1>4. ASSUME NEW keep \in BOOLEAN, EmitChannel(keep) PROVE Following'
  <2>1. Head(Top) \in Tasks
    <3>1. Top \in Seq(Tasks) /\ Top # <<>>
      BY <1>4, TopFrame DEF EmitChannel, EmitSignal, IndInv, Control
    <3> QED
      BY <3>1, HeadTailProperties
  <2>2. \A n \in ToSet(emitted') : n \in ToSet(emitted) \/ n = Head(Top)
    <3> DEFINE h == Head(Top)
    <3>1. emitted' = Append(emitted, h) /\ h \in Tasks
      BY <1>4, <2>1 DEF EmitChannel, EmitSignal
    <3> HIDE DEF h
    <3>2. ToSet(emitted') \subseteq ToSet(emitted) \union {h}
      BY <1>0, <3>1, AppendElements
    <3> QED
      BY <3>2 DEF h
  <2>3. /\ given \subseteq given' /\ main = "loop"
        /\ carries[Head(Top)] = 0 \/ carries[Head(Top)] \in given'
        /\ UNCHANGED <<received, wraps, carries, at, of, pushes, started, state>>
    BY <1>4 DEF EmitChannel, EmitSignal
  <2>4. ASSUME NEW c \in Channels PROVE Followed(c)'
    BY <2>3 DEF Following, Followed, Tasks
  <2> QED
    BY <2>2, <2>3, <2>4 DEF Following, Channels
<1>5. ASSUME NEW c \in held, DropChannel(c) PROVE Following'
  BY <1>5 DEF DropChannel, vars, Following, Followed, Tasks, Channels
<1>6. ASSUME NEW t \in Threads, OtherStep,
             LockState(t) \/ LockMutex(t) \/ ReleaseState(t)
      PROVE  Following'
  <2>1. UNCHANGED <<received, wraps, carries, given, of, pushes, started, state,
                    main, emitted>>
    BY <1>6 DEF OtherStep, LockState, LockMutex, ReleaseState
  <2>2. ASSUME NEW c \in Channels PROVE Followed(c)'
    <3>1. CASE LockState(t) /\ ~Alive(of[t])
      <4>1. of[t] # state \/ main = "destroyed"
        BY <3>1 DEF Alive, Owned
      <4>2. at' = [at EXCEPT ![t] = "idle"]
        BY <3>1 DEF LockState
      <4>3. CASE \E u \in Threads \ {t} :
                   /\ at[u] \in {"entered", "strong", "locked"} /\ wraps[u] = c
                   /\ of[u] = received[c]
        BY <1>0, <2>1, <4>2, <4>3 DEF Followed
      <4>4. CASE of[t] = received[c]
        BY <2>1, <4>1, <4>4 DEF Followed
      <4>5. CASE c \in given \/ received[c] # state \/ main = "destroyed"
                 \/ \E n \in Tasks : carries[n] = c /\ pushes[n] = received[c]
        BY <2>1, <4>5 DEF Followed, Tasks
      <4> QED
        BY <4>3, <4>4, <4>5 DEF Following, Followed
    <3>2. CASE LockState(t) /\ Alive(of[t])
      <4>1. at' = [at EXCEPT ![t] = "strong"]
        BY <3>2 DEF LockState
      <4>2. \A u \in Threads : at[u] \in {"entered", "strong", "locked"}
              => at'[u] \in {"entered", "strong", "locked"}
        BY <1>0, <4>1
      <4> QED
        BY <2>1, <4>2 DEF Following, Followed, Tasks
    <3>3. CASE LockMutex(t)
      <4>1. at[t] = "strong" /\ at' = [at EXCEPT ![t] = "locked"]
        BY <3>3 DEF LockMutex
      <4>2. \A u \in Threads : at[u] \in {"entered", "strong", "locked"}
              => at'[u] \in {"entered", "strong", "locked"}
        BY <1>0, <4>1
      <4> QED
        BY <2>1, <4>2 DEF Following, Followed, Tasks
    <3>4. CASE ReleaseState(t)
      BY <1>0, <2>1, <3>4 DEF ReleaseState, Following, Followed, Tasks
    <3> QED
      BY <1>6, <3>1, <3>2, <3>3, <3>4
  <2> QED
    BY <2>1, <2>2 DEF Following, Channels
<1>7. CASE OtherStep /\ CloseReset
  <2>1. /\ state' = state + 1
        /\ UNCHANGED <<received, given, started, carries, emitted>>
    BY <1>7 DEF OtherStep, CloseReset
  <2>2. \A c \in Channels : received'[c] # state'
    BY <2>1, SessionPast
  <2> QED
    BY <2>1, <2>2 DEF Following, Followed, Channels
<1>8. CASE OtherStep /\ (PollCall \/ PollLock \/ PollSwap \/ HandlerReturn
                          \/ PollReturn \/ (Manage /\ ~CloseReset))
  <2>1. /\ UNCHANGED <<received, wraps, carries, given, at, of, pushes, state,
                       emitted>>
        /\ main # "destroyed" /\ started \subseteq started'
    BY <1>8 DEF OtherStep, PollCall, PollLock, PollSwap, HandlerReturn,
       InHandler, PollReturn, Manage, CloseCall, CloseStep, Construct,
       InitializeFails, CreatePc, Negotiate
  <2> QED
    BY <2>1 DEF Following, Followed, Tasks, Channels
<1> QED
  BY <1>1, <1>2, <1>3, <1>4, <1>5, <1>6, <1>7, <1>8
  DEF ReceivedNext, ChannelStep, OtherStep

-----------------------------------------------------------------------------
(* The theorems.                                                           *)

ReceivedInv == IndInv /\ Kept /\ Held /\ ReceivedTypeOK /\ Following

\* The parts above hold in every reachable state.
THEOREM ReceivedInvariance == ReceivedSpec => []ReceivedInv
<1>1. ReceivedInit => Held /\ ReceivedTypeOK /\ Following
  BY HeldInit, ReceivedInitTypes DEF ReceivedInit
<1>2. IndInv /\ Held /\ ReceivedTypeOK /\ Following /\ [ReceivedNext]_receivedVars
        => (Held /\ ReceivedTypeOK /\ Following)'
  <2> SUFFICES ASSUME IndInv, Held, ReceivedTypeOK, Following,
                      [ReceivedNext]_receivedVars
               PROVE  (Held /\ ReceivedTypeOK /\ Following)'
    OBVIOUS
  <2>1. ASSUME UNCHANGED vars PROVE Held'
    BY <2>1 DEF vars, Held
  <2>2. Held'
    BY <2>1, StepImplements, HeldStep DEF receivedVars
  <2>3. CASE UNCHANGED receivedVars
    BY <2>2, <2>3 DEF receivedVars, vars, ReceivedTypeOK, Following, Followed,
       Tasks, Channels
  <2> QED
    BY <2>2, <2>3, ReceivedTypeStep, FollowingStep
<1> QED
  BY <1>1, <1>2, ReceivingHarmless, Delivery, PTL DEF ReceivedSpec, ReceivedInv

\* Every variable of this module keeps its type.
THEOREM ReceivedTypeCorrect == ReceivedSpec => []ReceivedTypeOK
BY ReceivedInvariance, PTL DEF ReceivedInv

\* A channel that was never given is closed only if its session has ended.
THEOREM NoneDropped == ReceivedSpec => []DroppedOnlyIfEnded
<1>1. ASSUME ReceivedInv PROVE DroppedOnlyIfEnded
  <2> SUFFICES ASSUME NEW c \in Channels, ~Referenced(c), c \notin given,
                      received[c] = state, main # "destroyed"
               PROVE  FALSE
    BY DEF DroppedOnlyIfEnded, Closed
  <2>1. PICK n \in Tasks : carries[n] = c /\ pushes[n] = received[c]
    BY <1>1 DEF ReceivedInv, Following, Followed, Referenced
  <2>2. n \notin ToSet(emitted)
    <3>1. c # 0
      BY DEF Channels
    <3> QED
      BY <1>1, <2>1, <3>1 DEF ReceivedInv, Following
  <2>3. Queued(n) \/ Taken(n)
    BY <1>1, <2>1, <2>2 DEF ReceivedInv, Kept
  <2>4. CASE Queued(n)
    BY <2>1, <2>4 DEF Queued, InMemory, Referenced
  <2>5. CASE Taken(n)
    <3>1. PICK f \in DOMAIN Rest : n \in ToSet(Rest[f])
      BY <2>5 DEF Taken
    <3>2. f \in DOMAIN frames /\ Rest[f] = Behind(f) /\ frames[f] \in Seq(Tasks)
      BY <1>1, <3>1, RestType DEF ReceivedInv, IndInv, TypeOK
    <3>3. n \in ToSet(frames[f])
      <4>1. CASE Rest[f] = frames[f]
        BY <3>1, <4>1
      <4>2. CASE Rest[f] # frames[f]
        <5>1. Rest[f] = Tail(frames[f])
          BY <3>2, <4>2 DEF Behind
        <5>2. frames[f] # <<>>
          <6>1. f \in 1 .. Len(frames) /\ (f < Len(frames) \/ main # "loop")
            BY <1>1, <3>2, <4>2 DEF Behind, ReceivedInv, IndInv, TypeOK
          <6> QED
            BY <1>1, <6>1 DEF ReceivedInv, IndInv, Control
        <5> QED
          BY <3>1, <3>2, <5>1, <5>2, TailElements
      <4> QED
        BY <4>1, <4>2
    <3> QED
      BY <2>1, <3>2, <3>3 DEF InMemory, Referenced
  <2> QED
    BY <2>3, <2>4, <2>5
<1> QED
  BY <1>1, ReceivedInvariance, PTL

-----------------------------------------------------------------------------
(* Who destroys a wrapper holds no mutex.                                  *)

\* What queue_task does under the mutex takes no reference away.
LEMMA PushCloses ==
  ASSUME IndInv, ReceivedTypeOK, NEW t \in Threads, PushChannel(t),
         NEW c \in Channels, Referenced(c)
  PROVE  Referenced(c)'
<1>0. /\ at \in [Threads -> {"idle", "entered", "strong", "locked", "done"}]
      /\ queue \in [Sessions -> Seq(Tasks)] /\ frames \in Seq(Seq(Tasks))
      /\ of[t] \in Sessions /\ wraps[t] \in 0 .. Len(received)
      /\ carries \in [1 .. Len(pushes) -> 0 .. Len(received)]
      /\ Len(pushes) \in Nat
  BY DEF PushChannel, PushTask, IndInv, TypeOK, Numbering, ReceivedTypeOK, Tasks
<1>1. /\ at' = [at EXCEPT ![t] = "done"]
      /\ queue' = [queue EXCEPT ![of[t]] = Append(@, Len(pushes'))]
      /\ carries' = Append(carries, wraps[t])
      /\ UNCHANGED <<frames, wraps, held>>
  BY DEF PushChannel, PushTask
<1>2. CASE \E u \in Threads : at[u] # "idle" /\ wraps[u] = c
  BY <1>0, <1>1, <1>2 DEF Referenced
<1>3. CASE \E n \in InMemory : carries[n] = c
  <2>1. PICK n \in InMemory : carries[n] = c
    BY <1>3
  <2>2. \A s \in Sessions : ToSet(queue[s]) \subseteq ToSet(queue'[s])
    <3> SUFFICES ASSUME NEW s \in Sessions
                 PROVE  ToSet(queue[s]) \subseteq ToSet(queue'[s])
      OBVIOUS
    <3>1. CASE s # of[t]
      BY <1>0, <1>1, <3>1
    <3>2. CASE s = of[t]
      <4> DEFINE k == Len(pushes')
      <4>1. queue'[s] = Append(queue[s], k)
        BY <1>0, <1>1, <3>2
      <4> HIDE DEF k
      <4>2. \A m \in 1 .. Len(queue[s]) : m \in 1 .. Len(queue'[s])
                                          /\ queue'[s][m] = queue[s][m]
        BY <1>0, <4>1
      <4> QED
        BY <4>2 DEF ToSet
    <3> QED
      BY <3>1, <3>2
  <2>3. n \in InMemory'
    BY <1>1, <2>1, <2>2 DEF InMemory
  <2>4. n \in Tasks
    <3>1. \A s \in Sessions : ToSet(queue[s]) \subseteq Tasks
      BY <1>0 DEF ToSet
    <3>2. \A f \in DOMAIN frames : ToSet(frames[f]) \subseteq Tasks
      BY <1>0 DEF ToSet
    <3> QED
      BY <2>1, <3>1, <3>2 DEF InMemory
  <2>5. carries'[n] = carries[n]
    <3>1. carries \in Seq(0 .. Len(received)) /\ Len(carries) = Len(pushes)
      BY <1>0, FunctionIsSeq
    <3> QED
      BY <1>0, <1>1, <2>4, <3>1, AppendProperties DEF Tasks
  <2> QED
    BY <2>1, <2>3, <2>5 DEF Referenced
<1>4. CASE c \in held
  BY <1>1, <1>4 DEF Referenced
<1> QED
  BY <1>2, <1>3, <1>4 DEF Referenced

\* Nor does the swap in _poll.
LEMMA SwapCloses ==
  ASSUME IndInv, PollSwap, UNCHANGED channelVars,
         NEW c \in Channels, Referenced(c)
  PROVE  Referenced(c)'
<1>0. queue \in [Sessions -> Seq(Tasks)] /\ frames \in Seq(Seq(Tasks))
      /\ state \in Sessions
  BY BoundsAssumption DEF PollSwap, IndInv, TypeOK, Sessions
<1>1. /\ frames' = Append(frames, queue[state])
      /\ queue' = [queue EXCEPT ![state] = <<>>]
      /\ UNCHANGED <<at, wraps, carries, held>>
  BY DEF PollSwap
<1>2. /\ \A f \in DOMAIN frames : f \in DOMAIN frames' /\ frames'[f] = frames[f]
      /\ Len(frames) + 1 \in DOMAIN frames'
      /\ frames'[Len(frames) + 1] = queue[state]
  <2>1. queue[state] \in Seq(Tasks)
    BY <1>0
  <2> QED
    BY <1>0, <1>1, <2>1, AppendProperties
<1>3. InMemory \subseteq InMemory'
  <2>1. \A s \in Sessions \ {state} : queue'[s] = queue[s]
    BY <1>0, <1>1
  <2> QED
    BY <1>0, <1>2, <2>1 DEF InMemory
<1> QED
  BY <1>1, <1>3 DEF Referenced

LEMMA ClosedStep ==
  ReceivedInv /\ [ReceivedNext]_receivedVars =>
    [(\E c \in Channels : ~Closed(c) /\ Closed(c)') =>
       \A p \in Procs : Acts(p) => \A s \in Sessions : mutex[s] # p]_receivedVars
<1> SUFFICES ASSUME ReceivedInv, ReceivedNext, NEW c \in Channels,
                    Referenced(c), ~Referenced(c)',
                    NEW p \in Procs, Acts(p), NEW s \in Sessions, mutex[s] = p
             PROVE  FALSE
  BY DEF Closed
<1>0. /\ at \in [Threads -> {"idle", "entered", "strong", "locked", "done"}]
      /\ IndInv /\ Held /\ ReceivedTypeOK
  BY DEF ReceivedInv, IndInv, TypeOK
<1>1. CASE p # Main
  <2>1. p \in Threads /\ at[p] = "locked" /\ at'[p] # at[p]
    BY <1>0, <1>1 DEF Held, Procs, Acts
  <2>2. ASSUME NEW t \in Threads,
               \/ LockState(t) \/ LockMutex(t) \/ ReleaseState(t)
               \/ \E z \in Sessions : Event(t, z)
        PROVE  FALSE
    BY <1>0, <2>1, <2>2 DEF LockState, LockMutex, ReleaseState, Event
  <2>3. ASSUME NEW t \in Threads, PushChannel(t) PROVE FALSE
    BY <1>0, <2>3, PushCloses
  <2>4. at' # at
    BY <2>1
  <2>5. CASE PollCall \/ PollLock \/ PollSwap \/ HandlerReturn \/ PollReturn
             \/ Manage
    BY <2>4, <2>5 DEF PollCall, PollLock, PollSwap, HandlerReturn, PollReturn,
       Manage, CloseCall, CloseStep, Construct, CloseReset, InitializeFails,
       CreatePc, Negotiate
  <2>6. CASE (\E keep \in BOOLEAN : EmitChannel(keep))
             \/ \E d \in held : DropChannel(d)
    BY <2>4, <2>6 DEF EmitChannel, EmitSignal, DropChannel, vars
  <2> QED
    BY <2>2, <2>3, <2>5, <2>6
    DEF ReceivedNext, ChannelStep, OtherStep, ReceiveChannel, OtherEvent
<1>2. CASE p = Main
  <2>1. main = "swap" /\ at' = at
    BY <1>0, <1>2 DEF Held, Acts
  <2>2. ASSUME NEW t \in Threads,
               \/ LockState(t) \/ LockMutex(t) \/ ReleaseState(t)
               \/ PushTask(t) \/ \E z \in Sessions : Event(t, z)
        PROVE  FALSE
    BY <1>0, <2>1, <2>2 DEF LockState, LockMutex, ReleaseState, PushTask, Event
  <2>3. CASE PollSwap /\ UNCHANGED channelVars
    BY <1>0, <2>3, SwapCloses
  <2>4. CASE PollCall \/ PollLock \/ HandlerReturn \/ PollReturn \/ Manage
    BY <2>1, <2>4 DEF PollCall, PollLock, HandlerReturn, InHandler, PollReturn,
       Manage, CloseCall, CloseStep, Construct, CloseReset, InitializeFails,
       CreatePc, Negotiate
  <2>5. CASE (\E keep \in BOOLEAN : EmitChannel(keep))
             \/ \E d \in held : DropChannel(d)
    BY <2>1, <2>5 DEF EmitChannel, EmitSignal, DropChannel
  <2> QED
    BY <2>2, <2>3, <2>4, <2>5
    DEF ReceivedNext, ChannelStep, OtherStep, ReceiveChannel, OtherEvent,
        PushChannel
<1> QED
  BY <1>1, <1>2

\* The destructor's close(), which may wait for a callback, is never called by
\* a thread that holds the mutex of a SharedState.
THEOREM NoneClosedUnderMutex == ReceivedSpec => ClosedWithoutMutex
BY ReceivedInvariance, ClosedStep, PTL DEF ReceivedSpec, ClosedWithoutMutex

=============================================================================
