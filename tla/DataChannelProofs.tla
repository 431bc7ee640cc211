------------------------- MODULE DataChannelProofs -------------------------
(***************************************************************************)
(* The safety properties of DataChannel hold for any set of library        *)
(* threads, any packets and any number of messages.                        *)
(*                                                                         *)
(* None of them is inductive by itself.  IndInv is: each lemma XStep below *)
(* shows that a step from a state with IndInv re-establishes part X.  What *)
(* each part needs of the others is what its lemma expands.                *)
(***************************************************************************)
EXTENDS DataChannel, SequenceTheorems, TLAPS

USE DEF libVars, queueVars, callVars, endVars, objVars

-----------------------------------------------------------------------------
(* The initial states.                                                     *)

\* Types, and the empty queue that they are about at first.
LEMMA TypeInit == Init => TypeOK
<1> SUFFICES ASSUME Init PROVE TypeOK
  OBVIOUS
<1>1. inbox \in Seq(Packets) /\ packet_queue \in Seq(Packets)
  BY DEF Init
<1> QED
  BY <1>1 DEF Init, TypeOK, Procs, Notifications, Callbacks

\* Nothing is bound, running, held or counted yet.
LEMMA InvInit == Init => IndInv
<1> SUFFICES ASSUME Init PROVE IndInv
  OBVIOUS
<1>1. TypeOK
  BY TypeInit
<1>2. Locking /\ Calling
  BY ProcsAssumption DEF Init, Locking, Calling, Procs
<1>3. Counting /\ PromiseKept
  BY DEF Init, Counting, Uncounted, PromiseKept, Procs
<1>4. NoUseAfterFree /\ Notifying /\ ReportedStateTrue /\ Closing
  BY DEF Init, NoUseAfterFree, Notifying, Running, ReportedStateTrue, Closing
<1> QED
  BY <1>1, <1>2, <1>3, <1>4 DEF IndInv

-----------------------------------------------------------------------------
(* The steps.                                                              *)

\* Types; Counting keeps _get_packet from an empty queue.
LEMMA TypeOKStep == IndInv /\ Next => TypeOK'
<1> SUFFICES ASSUME IndInv, Next PROVE TypeOK'
  OBVIOUS
<1>1. CASE Library
  <2>1. CASE LibOpen
    BY <2>1, ProcsAssumption
    DEF IndInv, TypeOK, Counting, Uncounted, Calling, Procs, Callbacks,
        Notifications, Running, LibOpen
  <2>2. CASE LibClosed
    BY <2>2, ProcsAssumption
    DEF IndInv, TypeOK, Counting, Uncounted, Calling, Procs, Callbacks,
        Notifications, Running, LibClosed
  <2>3. ASSUME NEW m \in Packets, LibMessage(m)
       PROVE  TypeOK'
    BY <2>3, ProcsAssumption
    DEF IndInv, TypeOK, Counting, Uncounted, Calling, Procs, Callbacks,
        Notifications, Running, LibMessage
  <2>4. ASSUME NEW t \in Threads, CallOnMessage(t)
       PROVE  TypeOK'
    BY <2>4, ProcsAssumption
    DEF IndInv, TypeOK, Counting, Uncounted, Calling, Procs, Callbacks,
        Notifications, Running, CallOnMessage, Enter
  <2>5. ASSUME NEW t \in Threads, NEW c \in Notifications, CallNotification(t, c)
       PROVE  TypeOK'
    BY <2>5, ProcsAssumption
    DEF IndInv, TypeOK, Counting, Uncounted, Calling, Procs, Callbacks,
        Notifications, Running, CallNotification, Enter
  <2> QED
    BY <1>1, <2>1, <2>2, <2>3, <2>4, <2>5 DEF Library
<1>2. ASSUME NEW p \in Procs, CallbackStep(p) PROVE TypeOK'
  <2>1. CASE LockState(p)
    BY <2>1, ProcsAssumption
    DEF IndInv, TypeOK, Counting, Uncounted, Calling, Procs, Callbacks,
        Notifications, Running, LockState, Leave
  <2>2. CASE LockMutex(p)
    BY <2>2, ProcsAssumption
    DEF IndInv, TypeOK, Counting, Uncounted, Calling, Procs, Callbacks,
        Notifications, Running, LockMutex
  <2>3. CASE PushPacket(p)
    BY <2>3, ProcsAssumption
    DEF IndInv, TypeOK, Counting, Uncounted, Calling, Procs, Callbacks,
        Notifications, Running, PushPacket, QueuedPacket, Packets
  <2>4. CASE StoreCount(p)
    BY <2>4, ProcsAssumption
    DEF IndInv, TypeOK, Counting, Uncounted, Calling, Procs, Callbacks,
        Notifications, Running, StoreCount
  <2>5. CASE StoreState(p)
    BY <2>5, ProcsAssumption
    DEF IndInv, TypeOK, Counting, Uncounted, Calling, Procs, Callbacks,
        Notifications, Running, StoreState
  <2>6. CASE ReleaseState(p)
    BY <2>6, ProcsAssumption
    DEF IndInv, TypeOK, Counting, Uncounted, Calling, Procs, Callbacks,
        Notifications, Running, ReleaseState, Leave
  <2> QED
    BY <1>2, <2>1, <2>2, <2>3, <2>4, <2>5, <2>6 DEF CallbackStep
<1>3. CASE Methods
  <2>1. CASE BindChannel
    BY <2>1, ProcsAssumption
    DEF IndInv, TypeOK, Counting, Uncounted, Calling, Procs, Callbacks,
        Notifications, Running, BindChannel, Bind
  <2>2. CASE GetAvailablePacketCount
    BY <2>2, ProcsAssumption
    DEF IndInv, TypeOK, Counting, Uncounted, Calling, Procs, Callbacks,
        Notifications, Running, GetAvailablePacketCount
  <2>3. CASE GetPacketLock
    BY <2>3, ProcsAssumption
    DEF IndInv, TypeOK, Counting, Uncounted, Calling, Procs, Callbacks,
        Notifications, Running, GetPacketLock
  <2>4. CASE GetPacketEmpty
    BY <2>4, ProcsAssumption
    DEF IndInv, TypeOK, Counting, Uncounted, Calling, Procs, Callbacks,
        Notifications, Running, GetPacketEmpty
  <2>5. CASE GetPacketCount
    BY <2>5, ProcsAssumption
    DEF IndInv, TypeOK, Counting, Uncounted, Calling, Procs, Callbacks,
        Notifications, Running, GetPacketCount
  <2>6. CASE GetPacketPop
    BY <2>6, ProcsAssumption
    DEF IndInv, TypeOK, Counting, Uncounted, Calling, Procs, Callbacks,
        Notifications, Running, GetPacketPop
  <2> QED
    BY <1>3, <2>1, <2>2, <2>3, <2>4, <2>5, <2>6 DEF Methods, GetPacketStep
<1>4. CASE Close
  <2>1. ASSUME NEW d \in BOOLEAN, CloseCall(d)
       PROVE  TypeOK'
    BY <2>1, ProcsAssumption
    DEF IndInv, TypeOK, Counting, Uncounted, Calling, Procs, Callbacks,
        Notifications, Running, CloseCall
  <2>2. CASE CloseMark
    BY <2>2, ProcsAssumption
    DEF IndInv, TypeOK, Counting, Uncounted, Calling, Procs, Callbacks,
        Notifications, Running, CloseMark
  <2>3. ASSUME NEW c \in Callbacks, ClearCallback(c)
       PROVE  TypeOK'
    BY <2>3, ProcsAssumption
    DEF IndInv, TypeOK, Counting, Uncounted, Calling, Procs, Callbacks,
        Notifications, Running, ClearCallback
  <2>4. CASE CloseDone
    BY <2>4, ProcsAssumption
    DEF IndInv, TypeOK, Counting, Uncounted, Calling, Procs, Callbacks,
        Notifications, Running, CloseDone, CloseReturn
  <2>5. CASE CloseThrows
    BY <2>5, ProcsAssumption
    DEF IndInv, TypeOK, Counting, Uncounted, Calling, Procs, Callbacks,
        Notifications, Running, CloseThrows, CloseReturn
  <2>6. CASE Destroy
    BY <2>6, ProcsAssumption
    DEF IndInv, TypeOK, Counting, Uncounted, Calling, Procs, Callbacks,
        Notifications, Running, Destroy, Holds
  <2> QED
    BY <1>4, <2>1, <2>2, <2>3, <2>4, <2>5, <2>6 DEF Close, CloseStep
<1> QED
  BY <1>1, <1>2, <1>3, <1>4 DEF Next, Script

\* The mutex; Main runs no callback that takes it.
LEMMA LockingStep == IndInv /\ Next => Locking'
<1> SUFFICES ASSUME IndInv, Next PROVE Locking'
  OBVIOUS
<1>1. CASE Library
  BY <1>1, ProcsAssumption
  DEF IndInv, Locking, Calling, TypeOK, Procs, Library, LibOpen, LibClosed,
      LibMessage, CallOnMessage, CallNotification, Enter
<1>2. ASSUME NEW p \in Procs, CallbackStep(p) PROVE Locking'
  BY <1>2, ProcsAssumption
  DEF IndInv, Locking, Calling, TypeOK, Procs, CallbackStep, LockState, Leave,
      LockMutex, PushPacket, StoreCount, StoreState, ReleaseState
<1>3. CASE Methods
  BY <1>3, ProcsAssumption
  DEF IndInv, Locking, Calling, TypeOK, Procs, Methods, BindChannel, Bind,
      GetAvailablePacketCount, GetPacketLock, GetPacketStep, GetPacketEmpty,
      GetPacketCount, GetPacketPop
<1>4. CASE Close
  BY <1>4, ProcsAssumption
  DEF IndInv, Locking, Calling, TypeOK, Procs, Close, CloseCall, CloseStep,
      CloseMark, CloseDone, CloseReturn, Destroy, ClearCallback, CloseThrows
<1> QED
  BY <1>1, <1>2, <1>3, <1>4 DEF Next, Script

\* Callbacks are entered when bound and not running, and cleared when idle.
LEMMA CallingStep == IndInv /\ Next => Calling'
<1> SUFFICES ASSUME IndInv, Next PROVE Calling'
  OBVIOUS
<1>1. CASE Library
  <2>1. CASE LibOpen
    BY <2>1, ProcsAssumption
    DEF IndInv, Calling, TypeOK, Locking, Procs, Callbacks, Notifications,
        Running, LibOpen
  <2>2. CASE LibClosed
    BY <2>2, ProcsAssumption
    DEF IndInv, Calling, TypeOK, Locking, Procs, Callbacks, Notifications,
        Running, LibClosed
  <2>3. ASSUME NEW m \in Packets, LibMessage(m)
       PROVE  Calling'
    BY <2>3, ProcsAssumption
    DEF IndInv, Calling, TypeOK, Locking, Procs, Callbacks, Notifications,
        Running, LibMessage
  <2>4. ASSUME NEW t \in Threads, CallOnMessage(t)
       PROVE  Calling'
    BY <2>4, ProcsAssumption
    DEF IndInv, Calling, TypeOK, Locking, Procs, Callbacks, Notifications,
        Running, CallOnMessage, Enter
  <2>5. ASSUME NEW t \in Threads, NEW c \in Notifications, CallNotification(t, c)
       PROVE  Calling'
    BY <2>5, ProcsAssumption
    DEF IndInv, Calling, TypeOK, Locking, Procs, Callbacks, Notifications,
        Running, CallNotification, Enter
  <2> QED
    BY <1>1, <2>1, <2>2, <2>3, <2>4, <2>5 DEF Library
<1>2. ASSUME NEW p \in Procs, CallbackStep(p) PROVE Calling'
  BY <1>2, ProcsAssumption
  DEF IndInv, Calling, TypeOK, Locking, Procs, Callbacks, Notifications,
      Running, CallbackStep, LockState, Leave, LockMutex, PushPacket,
      StoreCount, StoreState, ReleaseState
<1>3. CASE Methods
  BY <1>3, ProcsAssumption
  DEF IndInv, Calling, TypeOK, Locking, Procs, Callbacks, Notifications,
      Running, Methods, BindChannel, Bind, GetAvailablePacketCount,
      GetPacketLock, GetPacketStep, GetPacketEmpty, GetPacketCount,
      GetPacketPop
<1>4. CASE Close
  <2>1. ASSUME NEW d \in BOOLEAN, CloseCall(d)
       PROVE  Calling'
    BY <2>1, ProcsAssumption
    DEF IndInv, Calling, TypeOK, Locking, Procs, Callbacks, Notifications,
        Running, CloseCall
  <2>2. CASE CloseMark
    BY <2>2, ProcsAssumption
    DEF IndInv, Calling, TypeOK, Locking, Procs, Callbacks, Notifications,
        Running, CloseMark
  <2>3. ASSUME NEW c \in Callbacks, ClearCallback(c)
       PROVE  Calling'
    BY <2>3, ProcsAssumption
    DEF IndInv, Calling, TypeOK, Locking, Procs, Callbacks, Notifications,
        Running, ClearCallback
  <2>4. CASE CloseDone
    BY <2>4, ProcsAssumption
    DEF IndInv, Calling, TypeOK, Locking, Procs, Callbacks, Notifications,
        Running, CloseDone, CloseReturn
  <2>5. CASE CloseThrows
    BY <2>5, ProcsAssumption
    DEF IndInv, Calling, TypeOK, Locking, Procs, Callbacks, Notifications,
        Running, CloseThrows, CloseReturn
  <2>6. CASE Destroy
    BY <2>6, ProcsAssumption
    DEF IndInv, Calling, TypeOK, Locking, Procs, Callbacks, Notifications,
        Running, Destroy, Holds
  <2> QED
    BY <1>4, <2>1, <2>2, <2>3, <2>4, <2>5, <2>6 DEF Close, CloseStep
<1> QED
  BY <1>1, <1>2, <1>3, <1>4 DEF Next, Script

\* Locking leaves the queue and the count to one process at a time.
LEMMA CountingStep == IndInv /\ Next => Counting'
<1> SUFFICES ASSUME IndInv, Next PROVE Counting'
  OBVIOUS
<1>1. CASE Library
  BY <1>1, ProcsAssumption
  DEF IndInv, Counting, Uncounted, Locking, Calling, TypeOK, Procs, Library,
      LibOpen, LibClosed, LibMessage, CallOnMessage, CallNotification, Enter
<1>2. ASSUME NEW p \in Procs, CallbackStep(p) PROVE Counting'
  <2>1. CASE LockState(p)
    BY <2>1, ProcsAssumption
    DEF IndInv, Counting, Uncounted, Locking, Calling, TypeOK, Procs, LockState,
        Leave
  <2>2. CASE LockMutex(p)
    BY <2>2, ProcsAssumption
    DEF IndInv, Counting, Uncounted, Locking, Calling, TypeOK, Procs, LockMutex
  <2>3. CASE PushPacket(p)
    BY <2>3, ProcsAssumption
    DEF IndInv, Counting, Uncounted, Locking, Calling, TypeOK, Procs, PushPacket,
        QueuedPacket, Packets
  <2>4. CASE StoreCount(p)
    BY <2>4, ProcsAssumption
    DEF IndInv, Counting, Uncounted, Locking, Calling, TypeOK, Procs, StoreCount
  <2>5. CASE StoreState(p)
    BY <2>5, ProcsAssumption
    DEF IndInv, Counting, Uncounted, Locking, Calling, TypeOK, Procs, StoreState
  <2>6. CASE ReleaseState(p)
    BY <2>6, ProcsAssumption
    DEF IndInv, Counting, Uncounted, Locking, Calling, TypeOK, Procs,
        ReleaseState, Leave
  <2> QED
    BY <1>2, <2>1, <2>2, <2>3, <2>4, <2>5, <2>6 DEF CallbackStep
<1>3. CASE Methods
  <2>1. CASE BindChannel
    BY <2>1, ProcsAssumption
    DEF IndInv, Counting, Uncounted, Locking, Calling, TypeOK, Procs,
        BindChannel, Bind
  <2>2. CASE GetAvailablePacketCount
    BY <2>2, ProcsAssumption
    DEF IndInv, Counting, Uncounted, Locking, Calling, TypeOK, Procs,
        GetAvailablePacketCount
  <2>3. CASE GetPacketLock
    BY <2>3, ProcsAssumption
    DEF IndInv, Counting, Uncounted, Locking, Calling, TypeOK, Procs,
        GetPacketLock
  <2>4. CASE GetPacketEmpty
    BY <2>4, ProcsAssumption
    DEF IndInv, Counting, Uncounted, Locking, Calling, TypeOK, Procs,
        GetPacketEmpty
  <2>5. CASE GetPacketCount
    BY <2>5, ProcsAssumption
    DEF IndInv, Counting, Uncounted, Locking, Calling, TypeOK, Procs,
        GetPacketCount
  <2>6. CASE GetPacketPop
    BY <2>6, ProcsAssumption
    DEF IndInv, Counting, Uncounted, Locking, Calling, TypeOK, Procs,
        GetPacketPop
  <2> QED
    BY <1>3, <2>1, <2>2, <2>3, <2>4, <2>5, <2>6 DEF Methods, GetPacketStep
<1>4. CASE Close
  BY <1>4, ProcsAssumption
  DEF IndInv, Counting, Uncounted, Locking, Calling, TypeOK, Procs, Close,
      CloseCall, CloseStep, CloseMark, CloseDone, CloseReturn, Destroy,
      ClearCallback, CloseThrows
<1> QED
  BY <1>1, <1>2, <1>3, <1>4 DEF Next, Script

\* A count that is read is no more than the queue holds, and only Main
\* takes packets away.
LEMMA PromiseKeptStep == IndInv /\ Next => PromiseKept'
<1> SUFFICES ASSUME IndInv, Next PROVE PromiseKept'
  OBVIOUS
<1>1. CASE Library
  BY <1>1, ProcsAssumption
  DEF IndInv, PromiseKept, Counting, Uncounted, Locking, TypeOK, Procs,
      Library, LibOpen, LibClosed, LibMessage, CallOnMessage, CallNotification,
      Enter
<1>2. ASSUME NEW p \in Procs, CallbackStep(p) PROVE PromiseKept'
  BY <1>2, ProcsAssumption
  DEF IndInv, PromiseKept, Counting, Uncounted, Locking, TypeOK, Procs,
      CallbackStep, LockState, Leave, LockMutex, PushPacket, StoreCount,
      StoreState, ReleaseState
<1>3. CASE Methods
  BY <1>3, ProcsAssumption
  DEF IndInv, PromiseKept, Counting, Uncounted, Locking, TypeOK, Procs,
      Methods, BindChannel, Bind, GetAvailablePacketCount, GetPacketLock,
      GetPacketStep, GetPacketEmpty, GetPacketCount, GetPacketPop
<1>4. CASE Close
  BY <1>4, ProcsAssumption
  DEF IndInv, PromiseKept, Counting, Uncounted, Locking, TypeOK, Procs, Close,
      CloseCall, CloseStep, CloseMark, CloseDone, CloseReturn, Destroy,
      ClearCallback, CloseThrows
<1> QED
  BY <1>1, <1>2, <1>3, <1>4 DEF Next, Script

\* A weak_ptr that is locked finds the state alive or expired.
LEMMA NoUseAfterFreeStep == IndInv /\ Next => NoUseAfterFree'
<1> SUFFICES ASSUME IndInv, Next PROVE NoUseAfterFree'
  OBVIOUS
<1>1. CASE Library
  BY <1>1, ProcsAssumption
  DEF IndInv, NoUseAfterFree, Holds, Owned, TypeOK, Calling, Procs, Library,
      LibOpen, LibClosed, LibMessage, CallOnMessage, CallNotification, Enter
<1>2. ASSUME NEW p \in Procs, CallbackStep(p) PROVE NoUseAfterFree'
  <2>1. CASE LockState(p)
    BY <2>1, ProcsAssumption
    DEF IndInv, NoUseAfterFree, Holds, Owned, TypeOK, Calling, Procs, LockState,
        Leave
  <2>2. CASE LockMutex(p)
    BY <2>2, ProcsAssumption
    DEF IndInv, NoUseAfterFree, Holds, Owned, TypeOK, Calling, Procs, LockMutex
  <2>3. CASE PushPacket(p)
    BY <2>3, ProcsAssumption
    DEF IndInv, NoUseAfterFree, Holds, Owned, TypeOK, Calling, Procs, PushPacket,
        QueuedPacket, Packets
  <2>4. CASE StoreCount(p)
    BY <2>4, ProcsAssumption
    DEF IndInv, NoUseAfterFree, Holds, Owned, TypeOK, Calling, Procs, StoreCount
  <2>5. CASE StoreState(p)
    BY <2>5, ProcsAssumption
    DEF IndInv, NoUseAfterFree, Holds, Owned, TypeOK, Calling, Procs, StoreState
  <2>6. CASE ReleaseState(p)
    BY <2>6, ProcsAssumption
    DEF IndInv, NoUseAfterFree, Holds, Owned, TypeOK, Calling, Procs,
        ReleaseState, Leave
  <2> QED
    BY <1>2, <2>1, <2>2, <2>3, <2>4, <2>5, <2>6 DEF CallbackStep
<1>3. CASE Methods
  BY <1>3, ProcsAssumption
  DEF IndInv, NoUseAfterFree, Holds, Owned, TypeOK, Calling, Procs, Methods,
      BindChannel, Bind, GetAvailablePacketCount, GetPacketLock, GetPacketStep,
      GetPacketEmpty, GetPacketCount, GetPacketPop
<1>4. CASE Close
  BY <1>4, ProcsAssumption
  DEF IndInv, NoUseAfterFree, Holds, Owned, TypeOK, Calling, Procs, Close,
      CloseCall, CloseStep, CloseMark, CloseDone, CloseReturn, Destroy,
      ClearCallback, CloseThrows
<1> QED
  BY <1>1, <1>2, <1>3, <1>4 DEF Next, Script

\* The channel never leaves `closed' and never becomes `connecting'.
LEMMA NotifyingStep == IndInv /\ Next => Notifying'
<1> SUFFICES ASSUME IndInv, Next PROVE Notifying'
  OBVIOUS
<1>1. CASE Library
  BY <1>1, ProcsAssumption
  DEF IndInv, Notifying, Running, TypeOK, Calling, Procs, Notifications,
      Callbacks, Library, LibOpen, LibClosed, LibMessage, CallOnMessage,
      CallNotification, Enter
<1>2. ASSUME NEW p \in Procs, CallbackStep(p) PROVE Notifying'
  BY <1>2, ProcsAssumption
  DEF IndInv, Notifying, Running, TypeOK, Calling, Procs, Notifications,
      Callbacks, CallbackStep, LockState, Leave, LockMutex, PushPacket,
      StoreCount, StoreState, ReleaseState
<1>3. CASE Methods
  BY <1>3, ProcsAssumption
  DEF IndInv, Notifying, Running, TypeOK, Calling, Procs, Notifications,
      Callbacks, Methods, BindChannel, Bind, GetAvailablePacketCount,
      GetPacketLock, GetPacketStep, GetPacketEmpty, GetPacketCount,
      GetPacketPop
<1>4. CASE Close
  BY <1>4, ProcsAssumption
  DEF IndInv, Notifying, Running, TypeOK, Calling, Procs, Notifications,
      Callbacks, Close, CloseCall, CloseStep, CloseMark, CloseDone,
      CloseReturn, Destroy, ClearCallback, CloseThrows
<1> QED
  BY <1>1, <1>2, <1>3, <1>4 DEF Next, Script

\* What is stored is what a running callback reports.
LEMMA ReportedStateTrueStep == IndInv /\ Next => ReportedStateTrue'
<1> SUFFICES ASSUME IndInv, Next PROVE ReportedStateTrue'
  OBVIOUS
<1>1. CASE Library
  BY <1>1, ProcsAssumption
  DEF IndInv, ReportedStateTrue, Notifying, Running, TypeOK, Calling, Procs,
      Notifications, Callbacks, Library, LibOpen, LibClosed, LibMessage,
      CallOnMessage, CallNotification, Enter
<1>2. ASSUME NEW p \in Procs, CallbackStep(p) PROVE ReportedStateTrue'
  BY <1>2, ProcsAssumption
  DEF IndInv, ReportedStateTrue, Notifying, Running, TypeOK, Calling, Procs,
      Notifications, Callbacks, CallbackStep, LockState, Leave, LockMutex,
      PushPacket, StoreCount, StoreState, ReleaseState
<1>3. CASE Methods
  BY <1>3, ProcsAssumption
  DEF IndInv, ReportedStateTrue, Notifying, Running, TypeOK, Calling, Procs,
      Notifications, Callbacks, Methods, BindChannel, Bind,
      GetAvailablePacketCount, GetPacketLock, GetPacketStep, GetPacketEmpty,
      GetPacketCount, GetPacketPop
<1>4. CASE Close
  BY <1>4, ProcsAssumption
  DEF IndInv, ReportedStateTrue, Notifying, Running, TypeOK, Calling, Procs,
      Notifications, Callbacks, Close, CloseCall, CloseStep, CloseMark,
      CloseDone, CloseReturn, Destroy, ClearCallback, CloseThrows
<1> QED
  BY <1>1, <1>2, <1>3, <1>4 DEF Next, Script

\* _close finds `closed' bound, so that Main stores CLOSED, or stored.
LEMMA ClosingStep == IndInv /\ Next => Closing'
<1> SUFFICES ASSUME IndInv, Next PROVE Closing'
  OBVIOUS
<1>1. CASE Library
  <2>1. CASE LibOpen
    BY <2>1, ProcsAssumption
    DEF IndInv, Closing, ClosedStored, NoOpenLeft, Running, NoUseAfterFree,
        Owned, Notifying, TypeOK, Calling, Procs, Notifications, Callbacks,
        LibOpen
  <2>2. CASE LibClosed
    BY <2>2, ProcsAssumption
    DEF IndInv, Closing, ClosedStored, NoOpenLeft, Running, NoUseAfterFree,
        Owned, Notifying, TypeOK, Calling, Procs, Notifications, Callbacks,
        LibClosed
  <2>3. ASSUME NEW m \in Packets, LibMessage(m)
       PROVE  Closing'
    BY <2>3, ProcsAssumption
    DEF IndInv, Closing, ClosedStored, NoOpenLeft, Running, NoUseAfterFree,
        Owned, Notifying, TypeOK, Calling, Procs, Notifications, Callbacks,
        LibMessage
  <2>4. ASSUME NEW t \in Threads, CallOnMessage(t)
       PROVE  Closing'
    BY <2>4, ProcsAssumption
    DEF IndInv, Closing, ClosedStored, NoOpenLeft, Running, NoUseAfterFree,
        Owned, Notifying, TypeOK, Calling, Procs, Notifications, Callbacks,
        CallOnMessage, Enter
  <2>5. ASSUME NEW t \in Threads, NEW c \in Notifications, CallNotification(t, c)
       PROVE  Closing'
    BY <2>5, ProcsAssumption
    DEF IndInv, Closing, ClosedStored, NoOpenLeft, Running, NoUseAfterFree,
        Owned, Notifying, TypeOK, Calling, Procs, Notifications, Callbacks,
        CallNotification, Enter
  <2> QED
    BY <1>1, <2>1, <2>2, <2>3, <2>4, <2>5 DEF Library
<1>2. ASSUME NEW p \in Procs, CallbackStep(p) PROVE Closing'
  <2>1. CASE LockState(p)
    BY <2>1, ProcsAssumption
    DEF IndInv, Closing, ClosedStored, NoOpenLeft, Running, NoUseAfterFree,
        Owned, Notifying, TypeOK, Calling, Procs, Notifications, Callbacks,
        LockState, Leave
  <2>2. CASE LockMutex(p)
    BY <2>2, ProcsAssumption
    DEF IndInv, Closing, ClosedStored, NoOpenLeft, Running, NoUseAfterFree,
        Owned, Notifying, TypeOK, Calling, Procs, Notifications, Callbacks,
        LockMutex
  <2>3. CASE PushPacket(p)
    BY <2>3, ProcsAssumption
    DEF IndInv, Closing, ClosedStored, NoOpenLeft, Running, NoUseAfterFree,
        Owned, Notifying, TypeOK, Calling, Procs, Notifications, Callbacks,
        PushPacket, QueuedPacket, Packets
  <2>4. CASE StoreCount(p)
    BY <2>4, ProcsAssumption
    DEF IndInv, Closing, ClosedStored, NoOpenLeft, Running, NoUseAfterFree,
        Owned, Notifying, TypeOK, Calling, Procs, Notifications, Callbacks,
        StoreCount
  <2>5. CASE StoreState(p)
    BY <2>5, ProcsAssumption
    DEF IndInv, Closing, ClosedStored, NoOpenLeft, Running, NoUseAfterFree,
        Owned, Notifying, TypeOK, Calling, Procs, Notifications, Callbacks,
        StoreState
  <2>6. CASE ReleaseState(p)
    BY <2>6, ProcsAssumption
    DEF IndInv, Closing, ClosedStored, NoOpenLeft, Running, NoUseAfterFree,
        Owned, Notifying, TypeOK, Calling, Procs, Notifications, Callbacks,
        ReleaseState, Leave
  <2> QED
    BY <1>2, <2>1, <2>2, <2>3, <2>4, <2>5, <2>6 DEF CallbackStep
<1>3. CASE Methods
  BY <1>3, ProcsAssumption
  DEF IndInv, Closing, ClosedStored, NoOpenLeft, Running, NoUseAfterFree,
      Owned, Notifying, TypeOK, Calling, Procs, Notifications, Callbacks,
      Methods, BindChannel, Bind, GetAvailablePacketCount, GetPacketLock,
      GetPacketStep, GetPacketEmpty, GetPacketCount, GetPacketPop
<1>4. CASE Close
  <2>1. ASSUME NEW d \in BOOLEAN, CloseCall(d)
       PROVE  Closing'
    BY <2>1, ProcsAssumption
    DEF IndInv, Closing, ClosedStored, NoOpenLeft, Running, NoUseAfterFree,
        Owned, Notifying, TypeOK, Calling, Procs, Notifications, Callbacks,
        CloseCall
  <2>2. CASE CloseMark
    BY <2>2, ProcsAssumption
    DEF IndInv, Closing, ClosedStored, NoOpenLeft, Running, NoUseAfterFree,
        Owned, Notifying, TypeOK, Calling, Procs, Notifications, Callbacks,
        CloseMark
  <2>3. ASSUME NEW c \in Callbacks, ClearCallback(c)
       PROVE  Closing'
    BY <2>3, ProcsAssumption
    DEF IndInv, Closing, ClosedStored, NoOpenLeft, Running, NoUseAfterFree,
        Owned, Notifying, TypeOK, Calling, Procs, Notifications, Callbacks,
        ClearCallback
  <2>4. CASE CloseDone
    BY <2>4, ProcsAssumption
    DEF IndInv, Closing, ClosedStored, NoOpenLeft, Running, NoUseAfterFree,
        Owned, Notifying, TypeOK, Calling, Procs, Notifications, Callbacks,
        CloseDone, CloseReturn
  <2>5. CASE CloseThrows
    BY <2>5, ProcsAssumption
    DEF IndInv, Closing, ClosedStored, NoOpenLeft, Running, NoUseAfterFree,
        Owned, Notifying, TypeOK, Calling, Procs, Notifications, Callbacks,
        CloseThrows, CloseReturn
  <2>6. CASE Destroy
    BY <2>6, ProcsAssumption
    DEF IndInv, Closing, ClosedStored, NoOpenLeft, Running, NoUseAfterFree,
        Owned, Notifying, TypeOK, Calling, Procs, Notifications, Callbacks,
        Destroy, Holds
  <2> QED
    BY <1>4, <2>1, <2>2, <2>3, <2>4, <2>5, <2>6 DEF Close, CloseStep
<1> QED
  BY <1>1, <1>2, <1>3, <1>4 DEF Next, Script

-----------------------------------------------------------------------------
(* The theorems.                                                           *)

\* The invariant holds in every reachable state.
THEOREM Invariance == Spec => []IndInv
<1>1. IndInv /\ [Next]_vars => IndInv'
  <2> SUFFICES ASSUME IndInv, [Next]_vars PROVE IndInv'
    OBVIOUS
  <2>1. CASE Next
    BY <2>1, TypeOKStep, LockingStep, CallingStep, CountingStep,
       PromiseKeptStep, NoUseAfterFreeStep, NotifyingStep,
       ReportedStateTrueStep, ClosingStep DEF IndInv
  <2>2. CASE UNCHANGED vars
    BY <2>2 DEF vars, IndInv, TypeOK, Locking, Calling, Counting, Uncounted,
       PromiseKept, NoUseAfterFree, Owned, Holds, Notifying, Running,
       ReportedStateTrue, Closing, ClosedStored, NoOpenLeft
  <2> QED
    BY <2>1, <2>2
<1> QED
  BY InvInit, <1>1, PTL DEF Spec

\* Every variable keeps its type: in particular available_packets, a size
\* minus one, never goes below zero.
THEOREM TypeCorrect == Spec => []TypeOK
BY Invariance, PTL DEF IndInv

\* The count that _get_available_packet_count reads without the mutex never
\* runs ahead of the queue.
THEOREM HonestCount == Spec => []CountHonest
<1>1. IndInv => CountHonest
  BY ProcsAssumption
  DEF IndInv, CountHonest, Counting, Uncounted, Locking, TypeOK, Procs
<1> QED
  BY Invariance, <1>1, PTL

\* A script that read a count of n can fetch n packets.
THEOREM KeptPromise == Spec => []PromiseKept
BY Invariance, PTL DEF IndInv

\* No callback works on a SharedState that has been freed.
THEOREM MemorySafety == Spec => []NoUseAfterFree
BY Invariance, PTL DEF IndInv

\* _get_ready_state reports only what has happened to the channel.
THEOREM TrueState == Spec => []ReportedStateTrue
BY Invariance, PTL DEF IndInv

\* A _close that returned normally and met no notification on its way leaves
\* CLOSED.
THEOREM CloseSeen == Spec => []CloseReported
<1>1. IndInv => CloseReported
  BY DEF IndInv, Closing, ClosedStored, CloseReported
<1> QED
  BY Invariance, <1>1, PTL

\* After a _close that returned normally no callback touches the object.
THEOREM SilenceAfterClose == Spec => SilentAfterClose
<1> DEFINE Silent ==
      close_result = "returned" =>
        /\ channel_state' = channel_state
        /\ Len(packet_queue') <= Len(packet_queue)
<1>1. ASSUME IndInv, [Next]_vars PROVE [Silent]_vars
  <2> SUFFICES ASSUME Next, close_result = "returned"
               PROVE  /\ channel_state' = channel_state
                      /\ Len(packet_queue') <= Len(packet_queue)
    BY <1>1
  <2>1. \A p \in Procs : at[p] = "idle"
    BY <1>1 DEF IndInv, Closing, Calling
  <2>2. CASE Library
    BY <2>2, <1>1 DEF IndInv, TypeOK, Library, LibOpen, LibClosed, LibMessage,
       CallOnMessage, CallNotification
  <2>3. ASSUME NEW p \in Procs, CallbackStep(p) PROVE FALSE
    BY <2>1, <2>3 DEF CallbackStep, LockState, LockMutex, PushPacket,
       StoreCount, StoreState, ReleaseState
  <2>4. CASE Methods
    BY <2>4, <1>1 DEF IndInv, TypeOK, Counting, Uncounted, Methods,
       BindChannel, Bind, GetAvailablePacketCount, GetPacketLock,
       GetPacketStep, GetPacketEmpty, GetPacketCount, GetPacketPop
  <2>5. CASE Close
    <3>1. UNCHANGED <<channel_state, packet_queue>>
      BY <2>5 DEF Close, CloseCall, CloseStep, CloseMark, CloseDone,
         CloseReturn, Destroy, ClearCallback, CloseThrows
    <3>2. Len(packet_queue) \in Nat
      BY <1>1 DEF IndInv, TypeOK
    <3> QED
      BY <3>1, <3>2
  <2> QED
    BY <2>2, <2>3, <2>4, <2>5 DEF Next, Script
<1> QED
  BY Invariance, <1>1, PTL DEF Spec, SilentAfterClose

-----------------------------------------------------------------------------
(* The order of the notifications, where the library keeps it.             *)

\* Once `closed' is delivered no `open' can follow: none is raised, none is
\* running, and the channel is no longer connecting.
LEMMA ClosedComesLastStep ==
  SerialNotify /\ IndInv /\ ClosedComesLast /\ Next => ClosedComesLast'
<1> SUFFICES ASSUME SerialNotify, IndInv, ClosedComesLast, Next
             PROVE  ClosedComesLast'
  OBVIOUS
<1>1. CASE Library
  <2>1. CASE LibOpen
    BY <2>1, ProcsAssumption
    DEF IndInv, ClosedComesLast, NoOpenLeft, Running, TypeOK, Calling,
        Procs, Notifications, Callbacks, Notifying, ReportedStateTrue,
        LibOpen
  <2>2. CASE LibClosed
    BY <2>2, ProcsAssumption
    DEF IndInv, ClosedComesLast, NoOpenLeft, Running, TypeOK, Calling,
        Procs, Notifications, Callbacks, LibClosed
  <2>3. ASSUME NEW m \in Packets, LibMessage(m)
        PROVE  ClosedComesLast'
    BY <2>3, ProcsAssumption
    DEF IndInv, ClosedComesLast, NoOpenLeft, Running, TypeOK, Calling,
        Procs, Notifications, Callbacks, LibMessage
  <2>4. ASSUME NEW t \in Threads, CallOnMessage(t)
        PROVE  ClosedComesLast'
    BY <2>4, ProcsAssumption
    DEF IndInv, ClosedComesLast, NoOpenLeft, Running, TypeOK, Calling,
        Procs, Notifications, Callbacks, CallOnMessage, Enter
  <2>5. ASSUME NEW t \in Threads, NEW c \in Notifications,
               CallNotification(t, c)
        PROVE  ClosedComesLast'
    BY <2>5, ProcsAssumption
    DEF IndInv, ClosedComesLast, NoOpenLeft, Running, TypeOK, Calling,
        Procs, Notifications, Callbacks, CallNotification, Enter,
        MayNotify
  <2> QED
    BY <1>1, <2>1, <2>2, <2>3, <2>4, <2>5 DEF Library
<1>2. ASSUME NEW p \in Procs, CallbackStep(p) PROVE ClosedComesLast'
  BY <1>2, ProcsAssumption
  DEF IndInv, ClosedComesLast, NoOpenLeft, Running, TypeOK, Calling,
      Procs, Notifications, Callbacks, CallbackStep, LockState, Leave,
      LockMutex, PushPacket, StoreCount, StoreState, ReleaseState
<1>3. CASE Methods
  BY <1>3, ProcsAssumption
  DEF IndInv, ClosedComesLast, NoOpenLeft, Running, TypeOK, Calling,
      Procs, Notifications, Callbacks, Methods, BindChannel, Bind,
      GetAvailablePacketCount, GetPacketLock, GetPacketStep,
      GetPacketEmpty, GetPacketCount, GetPacketPop
<1>4. CASE Close
  BY <1>4, ProcsAssumption
  DEF IndInv, ClosedComesLast, NoOpenLeft, Running, TypeOK, Calling,
      Procs, Notifications, Callbacks, Close, CloseCall, CloseStep,
      CloseMark, CloseDone, CloseReturn, Destroy, ClearCallback,
      CloseThrows
<1> QED
  BY <1>1, <1>2, <1>3, <1>4 DEF Next, Script

\* CLOSED is final, with a library that reports the opening of a channel
\* before its closing: outside of _close, unless one threw, no set_state
\* brings OPEN back.
THEOREM ClosedStays == SerialNotify => (Spec => ClosedIsFinal)
<1> SUFFICES ASSUME SerialNotify PROVE Spec => ClosedIsFinal
  OBVIOUS
<1> DEFINE Stays ==
      channel_state = "CLOSED" /\ channel_state' # "CLOSED" =>
        main = "clearing" \/ close_result = "threw"
<1>1. Init => ClosedComesLast
  BY DEF Init, ClosedComesLast, NoOpenLeft, Running, Notifications, Procs
<1>2. IndInv /\ ClosedComesLast /\ [Next]_vars => ClosedComesLast'
  <2>1. UNCHANGED vars /\ ClosedComesLast => ClosedComesLast'
    BY DEF vars, ClosedComesLast, NoOpenLeft, Running
  <2> QED
    BY <2>1, ClosedComesLastStep
<1>3. IndInv /\ ClosedComesLast /\ [Next]_vars => [Stays]_vars
  <2> SUFFICES ASSUME IndInv, ClosedComesLast, Next,
                      channel_state = "CLOSED", channel_state' # "CLOSED"
               PROVE  main = "clearing" \/ close_result = "threw"
    OBVIOUS
  <2>1. PICK p \in Procs : StoreState(p) /\ callback[p] = "open"
    <3>1. ~ Library /\ ~ Methods /\ ~ Close
      BY DEF Library, LibOpen, LibClosed, LibMessage, CallOnMessage,
         CallNotification, Methods, BindChannel, Bind,
         GetAvailablePacketCount, GetPacketLock, GetPacketStep,
         GetPacketEmpty, GetPacketCount, GetPacketPop, Close, CloseCall,
         CloseStep, CloseMark, CloseDone, CloseReturn, Destroy,
         ClearCallback, CloseThrows
    <3> QED
      BY <3>1 DEF Next, Script, CallbackStep, LockState, LockMutex,
         PushPacket, StoreCount, StoreState, ReleaseState, Notifications
  <2>2. ~ NoOpenLeft
    BY <2>1 DEF NoOpenLeft, Running
  <2>3. close_result # "returned"
    BY <2>1 DEF IndInv, Closing, Calling
  <2> QED
    BY <2>2, <2>3 DEF ClosedComesLast, IndInv, TypeOK
<1> QED
  BY Invariance, <1>1, <1>2, <1>3, PTL DEF Spec, ClosedIsFinal

-----------------------------------------------------------------------------
(* The refinement: the library's inbox, the message callback and           *)
(* packet_queue are together one PacketPipe.  Each step of the channel is  *)
(* a step of the pipe or leaves the pipe as it is.                         *)

(* The pipe as the concatenation of three sequences a \o b \o c: what is   *)
(* queued, what a callback carries and what the library still has.         *)

\* A message that arrives goes to the end.
LEMMA PipeArrive ==
  ASSUME NEW S, NEW a \in Seq(S), NEW b \in Seq(S), NEW c \in Seq(S),
         NEW e \in S
  PROVE  a \o b \o Append(c, e) = Append(a \o b \o c, e)
<1>1. Append(c, e) = c \o <<e>> /\ <<e>> \in Seq(S)
  BY AppendIsConcat
<1>2. a \o b \in Seq(S) /\ a \o b \o c \in Seq(S)
  BY ConcatProperties
<1>3. (a \o b) \o (c \o <<e>>) = ((a \o b) \o c) \o <<e>>
  BY <1>1, <1>2, ConcatAssociative
<1> QED
  BY <1>1, <1>2, <1>3, AppendIsConcat

\* A callback that takes the first message of the library carries it.
LEMMA PipeEnter ==
  ASSUME NEW S, NEW a \in Seq(S), NEW c \in Seq(S), c # <<>>
  PROVE  a \o <<Head(c)>> \o Tail(c) = a \o <<>> \o c
<1>1. Head(c) \in S /\ Tail(c) \in Seq(S) /\ <<Head(c)>> \in Seq(S)
  BY HeadTailProperties
<1>2. <<Head(c)>> \o Tail(c) = c
  <2>1. Len(<<Head(c)>> \o Tail(c)) = Len(c)
    BY <1>1, HeadTailProperties, ConcatProperties
  <2>2. ASSUME NEW i \in 1 .. Len(c)
        PROVE  (<<Head(c)>> \o Tail(c))[i] = c[i]
    BY <1>1, HeadTailProperties, ConcatProperties
  <2>3. <<Head(c)>> \o Tail(c) \in Seq(S)
    BY <1>1, ConcatProperties
  <2> QED
    BY <2>1, <2>2, <2>3, SeqEqual
<1> QED
  BY <1>1, <1>2, ConcatAssociative, ConcatEmptySeq

\* A packet that is pushed stays where it is in the line.
LEMMA PipePush ==
  ASSUME NEW S, NEW a \in Seq(S), NEW c \in Seq(S), NEW e \in S
  PROVE  Append(a, e) \o <<>> \o c = a \o <<e>> \o c
<1>1. Append(a, e) = a \o <<e>> /\ Append(a, e) \in Seq(S)
  BY AppendIsConcat, AppendProperties
<1> QED
  BY <1>1, ConcatEmptySeq

\* What is popped from the queue is the front of the line.
LEMMA PipePop ==
  ASSUME NEW S, NEW a \in Seq(S), NEW r \in Seq(S), a # <<>>
  PROVE  /\ a \o r # <<>>
         /\ Head(a \o r) = Head(a)
         /\ Tail(a \o r) = Tail(a) \o r
<1>1. a \o r \in Seq(S) /\ Len(a \o r) = Len(a) + Len(r) /\ Len(a) > 0
  BY ConcatProperties
<1>2. a \o r # <<>>
  BY <1>1
<1>3. Head(a \o r) = Head(a)
  BY <1>1, ConcatProperties
<1>4. Tail(a \o r) = Tail(a) \o r
  <2>1. Tail(a) \in Seq(S) /\ Len(Tail(a)) = Len(a) - 1
    BY HeadTailProperties
  <2>2. /\ Tail(a \o r) \in Seq(S) /\ Tail(a) \o r \in Seq(S)
        /\ Len(Tail(a \o r)) = Len(Tail(a) \o r)
    BY <1>1, <1>2, <2>1, HeadTailProperties, ConcatProperties
  <2>3. ASSUME NEW i \in 1 .. Len(Tail(a \o r))
        PROVE  Tail(a \o r)[i] = (Tail(a) \o r)[i]
    <3>1. Tail(a \o r)[i] = (a \o r)[i + 1]
      BY <1>1, <1>2, HeadTailProperties
    <3>2. (a \o r)[i + 1] = IF i + 1 <= Len(a) THEN a[i + 1]
                                               ELSE r[i + 1 - Len(a)]
      BY <1>1, <1>2, HeadTailProperties, ConcatProperties
    <3>3. (Tail(a) \o r)[i] = IF i <= Len(a) - 1 THEN Tail(a)[i]
                                               ELSE r[i - (Len(a) - 1)]
      BY <2>1, <2>2, ConcatProperties
    <3>4. i <= Len(a) - 1 => Tail(a)[i] = a[i + 1]
      BY <2>1, HeadTailProperties
    <3> QED
      BY <3>1, <3>2, <3>3, <3>4, <1>1, <2>2
  <2> QED
    BY <2>2, <2>3, SeqEqual
<1> QED
  BY <1>2, <1>3, <1>4

-----------------------------------------------------------------------------
(* What a callback carries.                                                *)

\* The message callback, when it runs, carries its message.
LEMMA OneCarrier ==
  ASSUME NEW p \in Procs, IndInv, p \in Carriers
  PROVE  InFlight = <<msg[p]>> /\ msg[p] \in Packets
<1>1. \A q \in Carriers : q = p
  BY DEF IndInv, Calling, Carriers
<1>2. (CHOOSE q \in Carriers : TRUE) = p
  BY <1>1
<1>3. msg[p] \in Packets
  BY DEF IndInv, Calling, Carriers
<1> QED
  BY <1>2, <1>3 DEF InFlight

\* The three parts of the pipe are sequences of packets.
LEMMA PipeTypes ==
  ASSUME IndInv
  PROVE  /\ packet_queue \in Seq(Packets)
         /\ InFlight \in Seq(Packets)
         /\ inbox \in Seq(Packets)
<1>1. InFlight \in Seq(Packets)
  <2>1. CASE Carriers = {}
    BY <2>1 DEF InFlight
  <2>2. ASSUME NEW p \in Carriers PROVE InFlight \in Seq(Packets)
    <3>1. p \in Procs
      BY DEF Carriers
    <3>2. InFlight = <<msg[p]>> /\ msg[p] \in Packets
      BY <2>2, <3>1, OneCarrier
    <3> QED
      BY <3>2
  <2> QED
    BY <2>1, <2>2
<1> QED
  BY <1>1 DEF IndInv, TypeOK

\* What is carried changes only with the carrier.
LEMMA SameCarrier ==
  ASSUME Carriers' = Carriers, \A p \in Carriers : msg'[p] = msg[p]
  PROVE  InFlight' = InFlight
<1>1. CASE Carriers = {}
  BY <1>1 DEF InFlight
<1>2. CASE Carriers # {}
  <2> DEFINE c == CHOOSE p \in Carriers : TRUE
  <2>1. c \in Carriers
    BY <1>2
  <2>2. InFlight = <<msg[c]>> /\ InFlight' = <<msg'[c]>>
    BY <1>2 DEF InFlight
  <2> QED
    BY <2>1, <2>2
<1> QED
  BY <1>1, <1>2

-----------------------------------------------------------------------------
(* The steps.                                                              *)

\* A step that moves nothing along the pipe leaves it as it is.
LEMMA PipeSame ==
  ASSUME UNCHANGED <<packet_queue, inbox, current_packet>>,
         InFlight' = InFlight, Owned' = Owned
  PROVE  UNCHANGED Pipe!vars
BY DEF Pipe!vars

\* Steps of the library: messages arrive and are handed over.
LEMMA PipeLibrary ==
  ASSUME IndInv, Library
  PROVE  [Pipe!Next]_(Pipe!vars)
<1> USE DEF Owned
<1>1. CASE LibOpen \/ LibClosed
  <2>1. Carriers' = Carriers /\ UNCHANGED msg
    BY <1>1 DEF LibOpen, LibClosed, Carriers
  <2> QED
    BY <1>1, <2>1, SameCarrier, PipeSame DEF LibOpen, LibClosed
<1>2. ASSUME NEW m \in Packets, LibMessage(m) PROVE [Pipe!Next]_(Pipe!vars)
  <2>1. InFlight' = InFlight
    BY <1>2, SameCarrier DEF LibMessage, Carriers
  <2>2. CASE Owned
    <3>1. packet_queue \o InFlight \o Append(inbox, m)
            = Append(packet_queue \o InFlight \o inbox, m)
      BY PipeTypes, PipeArrive
    <3> QED
      BY <1>2, <2>1, <2>2, <3>1 DEF LibMessage, Pipe!Next, Pipe!Arrive
  <2>3. CASE ~Owned
    BY <1>2, <2>3 DEF LibMessage, Pipe!vars
  <2> QED
    BY <2>2, <2>3
<1>3. ASSUME NEW t \in Threads, CallOnMessage(t) PROVE [Pipe!Next]_(Pipe!vars)
  <2>1. Carriers = {} /\ InFlight = <<>>
    BY <1>3 DEF CallOnMessage, Enter, Running, Carriers, InFlight
  <2>2. Carriers' = {t}
    BY <1>3, <2>1 DEF CallOnMessage, Enter, Running, Carriers, Procs, IndInv, TypeOK
  <2>3. InFlight' = <<Head(inbox)>>
    <3>1. (CHOOSE q \in Carriers' : TRUE) = t
      BY <2>2
    <3>2. msg'[t] = Head(inbox)
      BY <1>3 DEF CallOnMessage, Enter, IndInv, TypeOK, Procs
    <3> QED
      BY <2>2, <3>1, <3>2 DEF InFlight
  <2>4. packet_queue \o <<Head(inbox)>> \o Tail(inbox)
          = packet_queue \o <<>> \o inbox
    BY <1>3, PipeTypes, PipeEnter DEF CallOnMessage
  <2> QED
    BY <1>3, <2>1, <2>3, <2>4 DEF CallOnMessage, Pipe!vars
<1>4. ASSUME NEW t \in Threads, NEW c \in Notifications,
             CallNotification(t, c)
      PROVE  [Pipe!Next]_(Pipe!vars)
  <2>1. Carriers' = Carriers
    BY <1>4 DEF CallNotification, Enter, Carriers, IndInv, TypeOK, Calling,
       Procs, Notifications
  <2>2. \A p \in Carriers : msg'[p] = msg[p]
    BY <1>4 DEF CallNotification, Enter, Carriers, IndInv, TypeOK, Procs
  <2> QED
    BY <1>4, <2>1, <2>2, SameCarrier, PipeSame DEF CallNotification
<1> QED
  BY <1>1, <1>2, <1>3, <1>4 DEF Library

\* Steps of a callback: the packet it carries is pushed where it stands.
LEMMA PipeCallback ==
  ASSUME IndInv, NEW p \in Procs, CallbackStep(p)
  PROVE  [Pipe!Next]_(Pipe!vars)
<1> USE DEF Owned
<1>1. CASE LockState(p) /\ freed
  BY <1>1 DEF LockState, IndInv, NoUseAfterFree, Pipe!vars
<1>2. CASE LockState(p) /\ ~freed
  <2>1. Carriers' = Carriers /\ UNCHANGED msg
    BY <1>2 DEF LockState, Carriers, IndInv, TypeOK
  <2> QED
    BY <1>2, <2>1, SameCarrier, PipeSame DEF LockState
<1>3. CASE LockMutex(p)
  <2>1. Carriers' = Carriers /\ UNCHANGED msg
    BY <1>3 DEF LockMutex, Carriers, IndInv, TypeOK
  <2> QED
    BY <1>3, <2>1, SameCarrier, PipeSame DEF LockMutex
<1>4. CASE PushPacket(p)
  <2>1. p \in Carriers
    BY <1>4 DEF PushPacket, Carriers, IndInv, Calling
  <2>2. InFlight = <<msg[p]>> /\ msg[p] \in Packets
    BY <2>1, OneCarrier
  <2>3. packet_queue' = Append(packet_queue, msg[p])
    BY <1>4, <2>2 DEF PushPacket, QueuedPacket, Packets
  <2>4. \A q \in Carriers : q = p
    BY <2>1 DEF IndInv, Calling, Carriers
  <2>5. Carriers' = {}
    BY <1>4, <2>4 DEF PushPacket, Carriers, IndInv, TypeOK
  <2>6. InFlight' = <<>>
    BY <2>5 DEF InFlight
  <2>7. Append(packet_queue, msg[p]) \o <<>> \o inbox
          = packet_queue \o <<msg[p]>> \o inbox
    BY <2>2, PipeTypes, PipePush
  <2> QED
    BY <1>4, <2>2, <2>3, <2>6, <2>7 DEF PushPacket, Pipe!vars
<1>5. CASE StoreCount(p) \/ StoreState(p)
  <2>1. Carriers' = Carriers /\ UNCHANGED msg
    BY <1>5 DEF StoreCount, StoreState, Carriers, IndInv, TypeOK, Calling,
       Notifications
  <2> QED
    BY <1>5, <2>1, SameCarrier, PipeSame DEF StoreCount, StoreState
<1>6. CASE ReleaseState(p)
  <2>1. Carriers' = Carriers
    BY <1>6 DEF ReleaseState, Leave, Carriers, IndInv, TypeOK
  <2>2. \A q \in Carriers : msg'[q] = msg[q]
    BY <1>6 DEF ReleaseState, Leave, Carriers, IndInv, TypeOK
  <2> QED
    BY <1>6, <2>1, <2>2, SameCarrier, PipeSame DEF ReleaseState
<1> QED
  BY <1>1, <1>2, <1>3, <1>4, <1>5, <1>6 DEF CallbackStep

\* Steps of the methods: _get_packet takes from the front.
LEMMA PipeMethods ==
  ASSUME IndInv, Methods
  PROVE  [Pipe!Next]_(Pipe!vars)
<1>1. CASE GetPacketPop
  <2>1. Carriers' = Carriers /\ UNCHANGED msg
    BY <1>1 DEF GetPacketPop, Carriers
  <2>2. InFlight' = InFlight
    BY <2>1, SameCarrier
  <2>3. InFlight \in Seq(Packets) /\ inbox \in Seq(Packets)
        /\ packet_queue \in Seq(Packets) /\ packet_queue # <<>>
    BY <1>1, PipeTypes DEF GetPacketPop, IndInv, Counting, Uncounted
  <2> DEFINE rest == InFlight \o inbox
  <2>4. rest \in Seq(Packets)
    BY <2>3, ConcatProperties
  <2>5. packet_queue \o InFlight \o inbox = packet_queue \o rest
    BY <2>3, ConcatAssociative
  <2>6. Tail(packet_queue) \o InFlight \o inbox = Tail(packet_queue) \o rest
    BY <2>3, HeadTailProperties, ConcatAssociative
  <2>7. /\ packet_queue \o rest # <<>>
        /\ Head(packet_queue \o rest) = Head(packet_queue)
        /\ Tail(packet_queue \o rest) = Tail(packet_queue) \o rest
    BY <2>3, <2>4, PipePop
  <2> HIDE DEF rest
  <2> QED
    BY <1>1, <2>2, <2>5, <2>6, <2>7
    DEF GetPacketPop, Owned, Pipe!Next, Pipe!Take
<1>2. CASE ~GetPacketPop
  <2>1. UNCHANGED <<packet_queue, inbox, current_packet, callback, at, msg>>
        /\ Owned /\ Owned'
    BY <1>2 DEF Methods, BindChannel, Bind, GetAvailablePacketCount,
       GetPacketLock, GetPacketStep, GetPacketEmpty, GetPacketCount, Owned
  <2>2. Carriers' = Carriers /\ UNCHANGED msg
    BY <2>1 DEF Carriers
  <2> QED
    BY <2>1, <2>2, SameCarrier, PipeSame
<1> QED
  BY <1>1, <1>2

\* Steps of _close and the destructor: only freeing the object ends the pipe.
LEMMA PipeClose ==
  ASSUME IndInv, Close
  PROVE  [Pipe!Next]_(Pipe!vars)
<1>1. CASE Destroy
  BY <1>1 DEF Destroy, Owned, Pipe!Next, Pipe!End
<1>2. CASE CloseMark
  <2>1. Carriers' = Carriers /\ UNCHANGED msg
    BY <1>2 DEF CloseMark, Carriers, IndInv, TypeOK, Calling
  <2> QED
    BY <1>2, <2>1, SameCarrier, PipeSame DEF CloseMark, Owned
<1>3. CASE ~Destroy /\ ~CloseMark
  <2>1. UNCHANGED <<packet_queue, inbox, current_packet, callback, at, msg>>
        /\ Owned /\ Owned'
    BY <1>3 DEF Close, CloseCall, CloseStep, CloseDone, CloseReturn,
       ClearCallback, CloseThrows, Owned
  <2>2. Carriers' = Carriers /\ UNCHANGED msg
    BY <2>1 DEF Carriers
  <2> QED
    BY <2>1, <2>2, SameCarrier, PipeSame
<1> QED
  BY <1>1, <1>2, <1>3 DEF Close

\* No packet is lost, doubled, overtaken or given the wrong mark between the
\* library and the script, whatever the threads do.
THEOREM PipeRefinement == Spec => ImplementsPipe
<1>1. Init => Pipe!Init
  <2> SUFFICES ASSUME Init PROVE Pipe!Init
    OBVIOUS
  <2>1. Carriers = {}
    BY DEF Init, Carriers
  <2>2. packet_queue \o InFlight \o inbox = <<>>
    BY <2>1, ConcatEmptySeq DEF Init, InFlight
  <2> QED
    BY <2>2 DEF Init, Pipe!Init, Owned
<1>2. IndInv /\ [Next]_vars => [Pipe!Next]_(Pipe!vars)
  <2> SUFFICES ASSUME IndInv, [Next]_vars PROVE [Pipe!Next]_(Pipe!vars)
    OBVIOUS
  <2>1. CASE UNCHANGED vars
    BY <2>1 DEF vars, Pipe!vars, Owned, InFlight, Carriers
  <2>2. CASE Next
    BY <2>2, PipeLibrary, PipeCallback, PipeMethods, PipeClose
    DEF Next, Script
  <2> QED
    BY <2>1, <2>2
<1> QED
  BY Invariance, <1>1, <1>2, PTL DEF Spec, ImplementsPipe, Pipe!Spec

=============================================================================
