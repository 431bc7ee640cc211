# webrtc-native in TLA+

This directory holds TLA+ models of webrtc-native, the Godot extension that
implements `WebRTCPeerConnection` and `WebRTCDataChannel` on top of
libdatachannel; the configurations with which TLC checks them on small
instances; and proofs, checked by TLAPS, of the main safety properties for
every value of the constants.  `PROJECT.json` lists runs, mutants, hazards and
theorems, and maps each definition to the lines it models.

- [The system](#the-system)
- [The modules](#the-modules)
- [What is assumed of the library](#what-is-assumed-of-the-library)
- [Runs, bounds and fairness](#runs-bounds-and-fairness)
- [Proofs](#proofs)
- [Not modelled](#not-modelled)
- [Plan](#plan)

## The system

A script runs on the engine's main thread and owns objects of two classes.
Each wraps one object of libdatachannel, whose threads call back into the
wrapper.  No callback ever touches the wrapper itself: it is bound to a
`std::weak_ptr` to a *SharedState* that the wrapper owns, and the wrapper's
methods read that state.  Nearly everything that is hard here happens at that
meeting point.

    script (main thread)                      libdatachannel (its threads)
    WebRTCLibPeerConnection  --- owns --->  rtc::PeerConnection
       | _poll: swap, emit                      | onLocalDescription,
       v                                        v onLocalCandidate, onDataChannel
    SharedState {mutex, tasks_queue}  <--- weak_ptr, queue_task
    WebRTCLibDataChannel     --- owns --->  rtc::DataChannel
       | _get_packet, count, state              | onMessage, onOpen, onClosed
       v                                        v
    SharedState {mutex, packet_queue, available_packets, channel_state}

### Components

**Data channel: receiving, state and life time** (`WebRTCLibDataChannel`).
*State*: the packet queue and its mutex; `available_packets` and
`channel_state`, atomics read without the mutex; `current_packet`; the
channel.  *Operations*: `bind_channel`, the callbacks `queue_packet` and
`set_state`, `_get_packet`, `_get_available_packet_count`, `_get_ready_state`,
`_close`, the destructor.  *Hard*: the count is stored after a push and before
a pop, in two orders, and read in between; callbacks run while or after the
object is destroyed; `_close` waits for callbacks that may wait for the mutex;
`close()` may throw half-way; `set_state` stores whatever comes.  *Correct
when*: a count read is a promise of packets; packets arrive once, in order,
with their text/binary mark; no callback works on freed memory; the state
reported is true and ends in CLOSED; `_close` returns and silences the object.

**Data channel: sending and write mode** (`_put_packet`, `_set_write_mode`).
*State*: `write_mode`.  *Hard*: `isClosed()` is asked before `send()`; `strncpy`
stops at a NUL in a text packet.  *Correct when*: a packet that was accepted
was given to the library as it was, and a closed channel accepts none.

**Peer connection: sessions, task queue, polling**
(`WebRTCLibPeerConnection`).  *State*: `peer_connection`, `shared_state` with
its mutex and `tasks_queue`, and the `local_queue` of each running `_poll`.
*Operations*: `queue_task` in three callbacks, `_poll`, `_close`,
`_initialize`, constructor, destructor.  *Hard*: handlers run inside `_poll`
and may call any method, `_poll`, `_close` and `_initialize` included;
callbacks of a closed connection run on while the next one exists;
`_initialize` closes first and may fail afterwards; a channel the other peer
opens is wrapped on the library's thread and held by a reference in the task,
so that its destructor, which closes it, may run on any thread.  *Correct
when*: a signal is emitted once, in order, and of the present connection only;
none is lost; `_poll` returns; a received channel reaches the script or is
closed because its session has ended.

**Peer connection: negotiation** (`_create_offer`, `_set_remote_description`,
`_set_local_description`, `_add_ice_candidate`, the three state getters).
*State*: none of its own but the task queue; the library's signaling state and
descriptions, and whatever is on its way between two peers.  *Hard*: the answer
is created inside `_set_remote_description` and may fail after the description
is set, and there is no method to answer later; `_set_local_description` is a
no-op because the library has set the description by then; `_create_offer`
looks at the connection state only; both scripts may make offers.  *Correct
when*: two peers that relay the signals agree, or a script is told of a failure;
a candidate finds the description it belongs to; an offer is answered.

**Peer connection: channel creation and configuration**
(`_parse_channel_config`, `_parse_ice_server`, `_create_data_channel`).
*Hard*: script integers have 64 bits, of which limits keep 32 and ids 16;
`negotiated` of the wrapper is read from whether the channel has an id after it
was created, which on a connection that is up, or comes up meanwhile, the library
may have given it.  *Correct when*: a configuration that contradicts itself is
refused and the wrapper reports what was asked for, as far as it fits.

**Extension life cycle, Godot 4** (`register_types.cpp`) and **GDNative
singleton, Godot 3** (`init_gdnative.cpp`).  *State*: the library's logger and
threads, `_singleton`, the method binds.  *Hard*: the singleton can be taken
over by another library between registration and use; `Cleanup().wait()` at
shutdown waits for the library's threads.  *Correct when*: no peer connection
is created through a library that is not the active one, and termination
unregisters exactly when this library is registered.

**GDNative interfaces, Godot 3** (`src/net`).  C functions that forward to the
two classes, and the registration of the interface with the engine's object
(`register_interface`, `_init`, the destructors).

**Build and packaging** (`SConstruct`, `tools`, `misc`, CI).  No behaviour at
run time.

## The modules

| module | what it is |
|---|---|
| `PacketPipe` | abstract: what the receiving half of a channel promises, a FIFO pipe |
| `DataChannel` | the data channel's wrapper, SharedState and callbacks, and its properties |
| `MCDataChannel` | `DataChannel` with the symmetry TLC may use |
| `DataChannelProofs` | its inductive invariant, the safety theorems, and that it implements `PacketPipe` |
| `SignalLine` | abstract: what a peer connection promises of its signals, a line without threads, locks and nested polls |
| `PeerConnection` | sessions, task queue and polling, and their properties |
| `MCPeerConnection` | `PeerConnection` with its symmetry |
| `PeerConnectionProofs` | its inductive invariant, the safety theorems, and that it implements `SignalLine` |
| `ReceivedChannels` | `PeerConnection` with the wrappers of received channels |
| `ReceivedChannelsProofs` | that they disturb nothing, and the theorems on them |
| `Negotiation` | abstract: two peers with a line of signals in each direction |
| `Signaling` | the negotiation of two peers, with the scripts that relay it |
| `SignalingProofs` | its inductive invariant, the safety theorems, and that it implements `Negotiation` |
| `DataChannelSend` | `DataChannel` with the sending half beside it |
| `MCDataChannelSend` | `DataChannelSend` with three buffers to send |
| `DataChannelSendProofs` | that sending disturbs nothing, and the theorems on sending |
| `ChannelSetup` | how a data channel is configured, created and wrapped, and what its getters report |
| `MCChannelSetup` | `ChannelSetup` with ids and limits that fit and that do not |
| `ChannelSetupProofs` | its inductive invariant and theorems |
| `IceServers` | the loops of `_initialize` over the ICE servers |
| `MCIceServers` | `IceServers` with its symmetry |
| `IceServersProofs` | its inductive invariant and theorems |
| `Singleton` | the GDNative library: loading, registration, hand-over, unloading |
| `SingletonProofs` | its inductive invariant and theorems |

Each model has a section "Faulty variants".  These are operations with one
plausible bug (a missing lock, a copied queue, a raw pointer); nothing refers
to them.  Put in the place of the operation each makes TLC report the property
that guards against it, which shows that the property depends on the code.

### DataChannel and the code

| variable | code |
|---|---|
| `mutex`, `packet_queue`, `available_packets`, `channel_state` | the fields of `SharedState` |
| `freed` | the last `shared_ptr` to it is gone |
| `callback`, `at`, `msg` | for each thread: the callback it is in, how far, with what message |
| `main` | where the script's thread is in the object's methods |
| `current_packet` | the field of that name; binary/text is the pair's second part |
| `lib`, `inbox`, `raised`, `registered` | the library's channel: its state, what it has received, notifications not handed over, callbacks set |
| `promised`, `close_result`, `raced` | history: the last count read less the packets taken since; how `_close` ended; whether it met a notification on its way |

| action | code |
|---|---|
| `BindChannel` | `bind_channel`, one step per `onMessage`, `onOpen`, `onClosed` |
| `LockState`, `ReleaseState` | `s.lock()` and the end of the `shared_ptr`'s scope |
| `LockMutex`, `PushPacket`, `StoreCount` | `queue_packet` |
| `StoreState` | `set_state` |
| `GetAvailablePacketCount` | `_get_available_packet_count` |
| `GetPacketLock`, `GetPacketEmpty`, `GetPacketCount`, `GetPacketPop` | `_get_packet` |
| `CloseCall`, `CloseMark`, `ClearCallback`, `CloseDone`, `CloseThrows` | `_close`, with `close()` of the library in steps |
| `Destroy` | the end of the destructor: the members go |

Every access to shared data another thread can see by itself is a step, so TLC
interleaves push and store, store and pop, lock and free.  `onMessage` is two
lambdas in the code, for binary and for text; here it is one callback and the
message carries the mark that tells which lambda would have run.

### PeerConnection and the code

Each `_close` ends a *session*: it replaces the SharedState.  States and
connections are numbered by session, so "the callback's weak_ptr" is a number.
A task is its number in `pushes`, the history of all `queue_task` calls, so
that tasks can be told apart without modelling what their signals say.

| variable | code |
|---|---|
| `state`, `pc` | which session's object `shared_state` and `peer_connection` point to |
| `queue`, `mutex` | `tasks_queue` and `mutex` of every SharedState still reachable |
| `frames` | the `local_queue` of each running `_poll`, innermost last |
| `main`, `after` | where the script's thread is; where a running `_close` goes on |
| `started`, `events`, `at`, `of` | the library: connections that report events, how many, and where each thread is in a callback of which connection |
| `emitted`, `nested`, `finished` | history: signals emitted; whether a handler polled; the last session closed outside the handlers |

| action | code |
|---|---|
| `Event`, `LockState`, `LockMutex`, `PushTask`, `ReleaseState` | the callbacks of `_create_pc`, and `queue_task` |
| `PollCall`, `PollLock`, `PollSwap`, `EmitSignal`, `HandlerReturn`, `PollReturn` | `_poll`; between `EmitSignal` and `HandlerReturn` the handler runs and may call anything |
| `Construct`, `CloseCall`, `CloseReset` | constructor, and `_close` called by the script, by `_initialize` or by the destructor |
| `InitializeFails`, `CreatePc` | the rest of `_initialize` |
| `Negotiate` | `_create_offer`, `_set_remote_description`: the library may report events from here on |

### ReceivedChannels and the code

The module extends `PeerConnection`; a step is one of its steps and says in
addition what happens to a channel, or is the script dropping one.

| variable | code |
|---|---|
| `received`, `wraps` | every channel handed to `onDataChannel`, with its session; the local `ch` of the callback on each thread |
| `carries` | the `ch` captured by each task |
| `given`, `held` | history: channels emitted; those to which the script keeps a Ref |

A wrapper lives while something refers to it: `Referenced` counts the callback
that has not returned, the tasks that exist (`InMemory`) and the script.
Destruction is no action: it is whatever step takes the last reference away, be it
`ReleaseState` or `LockState` on a thread of the library, `CloseReset`, or the
end of a handler in `_poll`.  `ReceiveChannel` is the callback up to
`new_data_channel`, `PushChannel` `queue_task` with the capture, `EmitChannel`
the task, after which the handler keeps the channel or not.

### Signaling and the code

Two peers, each an object and its script.  A description is its number; an
answer, an offer and a candidate carry the number of theirs.

| variable | code |
|---|---|
| `signaling`, `local`, `remote`, `started` | the library: signaling state, descriptions, connection state left New |
| `events`, `tasks`, `batch` | signals not reported yet; `tasks_queue`; `local_queue` of the running `_poll` |
| `doing` | the method that is between two calls of the library |
| `wire` | what the other script has relayed and this one has not passed on |
| `closed`, `failed` | `_close` was called; history: a method returned FAILED |

| action | code |
|---|---|
| `CreateOffer`; `SetLocalOffer`, `OfferIgnored`, `OfferThrows` | `_create_offer` up to the check of the state; the outcomes of `setLocalDescription` |
| `SetRemoteOffer`, `SetRemoteAnswer`, `RemoteThrows` | `_set_remote_description` up to the call; its failure, or that of `_add_ice_candidate` |
| `SetLocalAnswer`, `AnswerThrows` | the automatic answer |
| `AddIceCandidate` | `_add_ice_candidate` |
| `QueueTask` | `onLocalDescription`, `onLocalCandidate` |
| `Poll`, `EmitSignal` | `_poll` up to its first task; its loop from one task to the next.  A task emits the signal, whose handler relays it (`Relay`) and may call other methods before it returns |
| `Close` | `_close`: `tasks` goes with the old SharedState, `batch` stays |

What threads do to the task queue is left to `PeerConnection`: here `QueueTask`
is one step, and the reports of one connection come one after the other, which
is assumed (see below) and not shown.  While `batch` is not empty the script is
in a handler, which may call every method, `_close` included, but not a `_poll`
that would overtake the rest of the batch; that one is in `PeerConnection`, too.
A closed object is not initialized again: the next session is another peer.

### DataChannelSend and the code

The module extends `DataChannel`; a step is one of its steps, or one of sending.

| variable | code |
|---|---|
| `write_mode` | the field |
| `putting`, `puts` | the buffer of the `_put_packet` that is between `isClosed()` and `send()`; how many there were |
| `outbox`, `accepted` | the messages the library took; history: what `_put_packet` returned OK for |

`PutCheck` is `_put_packet` up to `isClosed()`; `PutSend` and `PutThrows` are
the two ways `send()` ends.  In between the library's threads go on, and the
channel may close.  The result of `send()`, false when the library buffers the
message, is ignored by the code and not told apart here.  `CopyText` is
`strncpy` into a string of NULs, byte for byte.  `SetWriteMode` is
`_set_write_mode`, which takes two modes and refuses the rest.

### ChannelSetup and the code

| variable | code |
|---|---|
| `link` | the library's connection: not connected yet, or connected |
| `chans` | all channels: what the script asked, the `rtc::DataChannelInit`, the library's id, the wrapper's `negotiated` |
| `making` | `_create_data_channel` is between `createDataChannel()` and `ch->id()` |

`Accepts` and `ChannelInit` are `_parse_channel_config`: the two refusals, and
the result.  A script's integer has 64 bits and is a record of its lower 32 bits
and of what is above them; `Int32` is Godot's `operator int32_t()`, which keeps
the lower ones, and `Uint16` the further cut of the id.  `CreateDataChannel` and
`WrapChannel` are the two halves of `_create_data_channel`; `ReceiveChannel` is
the wrapping in `onDataChannel`; `Get` stands for the getters.  `late`, a
channel's history, says that the connection was up when its id was asked for
(239), which may be after it was made (236).  `ReportedId`
is `value_or(-1)` on an optional `uint16_t`, which gives 65535.

### IceServers and the code

`i` and `j` are the indices of the loop in `_initialize` and of the one in
`_parse_ice_server`, `config` is what has been added to `config.iceServers`,
`result` how `_initialize` ended.  `RefuseEntry` and `RefuseServer` are the
early returns, `UrlThrows` the constructor of `rtc::IceServer`, `AddServer` the
body of the inner loop, `CreatePc` the call after the outer one.  The `_close`
before the loop and the sessions are in `PeerConnection`
(`CloseReset`, `InitializeFails`, `CreatePc`).

### Singleton and the code

| variable | code |
|---|---|
| `stage` | what the engine has called: `godot_gdnative_init`, `_singleton`, `_terminate` |
| `active`, `connections` | the engine: whose library is registered, how many connections there are |
| `signaling` | between `initialize_signaling` and the end of `rtc::Cleanup()` |
| `net_api`, `pointers`, `singleton` | the static variables `_net_api`, the four looked-up pointers, `_singleton` |

`GdnativeInit` is `godot_gdnative_init`; `NoApi`, `LookUpFails` and `Register`
are the outcomes of `godot_gdnative_singleton`; `Replace` is the engine's
`godot_net_set_webrtc_library` with this library's `unregistered` inside;
`CreatePeerConnection` is `create_peer_connection_wp`; `Terminate` and
`CleanedUp` are `godot_gdnative_terminate` before and after its wait.  `Forget`
is the dynamic loader starting anew with the static variables; without it they
stay as they were.

## What is assumed of the library

libdatachannel is a submodule and not part of this repository.  It is modelled
from how the code uses it; its definitions are marked external in the map.
The models let it do as much as possible:

- a channel opens at most once and closes at any time; a message or a
  notification waits until its callback is set and is handed over once, on any
  of the library's threads;
- two calls of the same callback of a channel do not overlap, and clearing a
  callback waits for its running call (libdatachannel's callbacks are
  synchronized); calls of *different* callbacks may overlap;
- `DataChannel::close()` runs the closed callback on the caller's thread,
  unless the channel is closed already, and then clears the callbacks one by
  one.  It may throw at any point, and leave the rest undone;
- a peer connection's callbacks come at any time after negotiation started, on
  any thread, several at once, and also after `close()`.  Nothing is assumed
  about what `PeerConnection::close()` does, so it has no step: whether it
  throws makes no difference;
- with `SerialNotify` (one run only, see below) `open` and `closed` of one
  channel are handed over one after the other and in that order.

- `onDataChannel` is one of those callbacks; a thread runs one callback at a time;
- `setLocalDescription` and `setRemoteDescription` follow the usual signaling
  states; a call that throws changes nothing.  A remote offer that meets a
  local one is refused, or rolls the local one back; an offer the state does
  not allow throws or is ignored.  A description is reported after it is
  set, its candidates after it, in this order; a candidate without a remote
  description is refused.  After `close()` no call succeeds.  The callbacks
  of one connection for descriptions and candidates are called one after the
  other (`Signaling` only; in `PeerConnection` they overlap).  Where the library
  has a choice the model has both;
- `send()` takes a message only while the channel is open, and may throw at
  any time;
- a channel has the id it is created with.  If there is none the library gives
  it an unused one: at once on a connection that is up, and otherwise when the
  connection comes up, which may happen between any two steps;
- the wait for `rtc::Cleanup()` ends only when no connection is left.  The
  script's thread is in that wait, so that nothing frees one meanwhile: in
  `Singleton` an unloading that begins with connections left does not end.

The engine is assumed to call an object's methods from one thread, as its
scripting API does, and not to free a peer connection inside one of its own
signal handlers.  In `Signaling` the scripts relay every signal to the other
peer, in the order they get them, and handlers do not poll before the rest of
the batch is emitted.  The engine has one WebRTC library at a time, and calls
`unregistered` of the one it drops; it loads a GDNative library before it calls
it, and offers it to be the singleton at most once per loading.

## Runs, bounds and fairness

| run | instance | properties |
|---|---|---|
| `dc_safety` | 2 threads, 2 payloads x text/binary, 3 messages, overlapping notifications | `TypeOK`, `CountHonest`, `PromiseKept`, `NoUseAfterFree`, `ReportedStateTrue`, `CloseReported`, `SilentAfterClose`, `ImplementsPipe` |
| `dc_liveness` | 1 thread, 1 payload, 2 messages, `SerialNotify` | `ClosedIsFinal`, `CloseReturns`, `RemoteCloseReported`, `PacketsReachScript` |
| `pc_safety` | 2 threads, 3 sessions, 3 events, polls nested 2 deep | `SessionIsolation`, `AtMostOnce`, `SignalsKept`, `SignalsInOrder`, `NoStaleSignal`, `ImplementsLine` |
| `pc_liveness` | 2 threads, 2 sessions, 3 events, polls nested 2 deep | `PollReturns`, `SignalsReachScript` |
| `dc_send` | 1 thread, 1 message received, 2 packets sent out of 3 buffers | `AcceptedIsSent`, `NoneAcceptedAfterClosed` |
| `cs_setup` | 2 channels, ids 0, 65535, 65536, -1 and 2^32, limits 5, 2^32 + 5 and 2^31, all configurations | `TypeOK`, `ReportsWhatWasAsked`, `NegotiatedKnown`, `NotNegotiatedEarly` |
| `cs_negotiated` | the same | `NegotiatedOnlyIfAsked`, which is violated: see [Finding](#finding) |
| `is_parse` | lists of up to 2 entries with up to 2 URLs each, of 2 good ones and a bad one | `FirstWrongDecides`, `AllServersUsed` |
| `sg_safety` | offers while fewer than 3 descriptions were made, 2 candidates | `StuckIsTold`, `CandidatesInTime`, `NoSilentDisagreement`, `ImplementsNegotiation` |
| `sg_liveness` | offers while fewer than 2 descriptions were made, 1 candidate | `OfferAnswered` |
| `rc_channels` | 2 threads, 2 sessions, 2 events, polls nested 2 deep | `DroppedOnlyIfEnded`, `ClosedWithoutMutex`, `ChannelSettled` |
| `singleton` | 2 connections at a time; loadings without bound | `RegistrationKnown`, `NoDanglingLibrary`, `CreationPossible`, `OtherSpared` |

**Deadlock** is not checked: a destroyed object with a closed library below it
has nothing left to do, and the bounds stop the library; nor in the other
modules, which stop when the list is parsed, the channels are made or the
library is unloaded.  That nothing waits for ever is the subject of
`CloseReturns` and `PollReturns`.

The type invariants of `PeerConnection`, `DataChannelSend`, `Signaling`,
`ReceivedChannels`, `IceServers` and `Singleton` are proved and have no run.

**Bounds of the data channel.**  Only the message callback takes the mutex, and
its calls do not overlap, so at any time one thread of the library pushes and
one may notify: two threads show every pair of callbacks at work at once, with
the script as the third party.  Three messages let the queue hold a packet,
another be in the callback and a third wait in the library while the script is
half-way through a pop; two payloads with both marks make a swap visible.  The
queue's length matters to the code only through empty/not empty and `size()`.
The liveness run has one thread: with `SerialNotify` notifications do not
overlap, and the third actor of interest, the closed callback inside `close()`,
runs on the script's thread.

**Bounds of the peer connection.**  Three sessions are the fewest in which a
callback of the first connection is still alive when the session after the next
exists.  Three events fill one session's queue with two tasks and leave one
for another session, or for a nested poll.  Depth two is a poll inside a
handler; a third level would repeat what the second does to the first.

**Bounds of the negotiation.**  Two offers that cross, or an offer and a second
one after or before its answer, need two descriptions; a bound of three adds one more by either peer.
Answers are not bounded: they end because offers do.  Two candidates are one of each peer, or two of one with a
description in between.

**Bounds of received channels.**  Two events are two channels, or a channel and
another signal behind or before it in the same queue; two sessions let the
first one's callback outlive it.  A third session would repeat the step from
the first to the second.

**Bounds of the smaller modules.** `dc_send`: one thread suffices to close the
channel between the check and the send, and a second packet shows order and a
change of mode; the buffers are an empty one, one with a NUL inside and one
without.  `cs_setup`: two channels are one that is made before the connection is
up and one after it, or a second that takes an id first; the ids are both ends
of 16 bits, the next value, a negative one and one beyond 32 bits, the limits
one that fits and two that are cut, to 5 and to a negative number.  `is_parse`:
with two entries one precedes another, with two URLs one fails after another was
added.  `singleton`: its state is finite but for the number of connections, of
which only zero or more matters.

**Fairness.**  Safety is checked and proved of `Spec`, which has none.
`FairSpec` adds, and nothing else:

- weak fairness of every step of a callback or method that has begun: a thread
  that is in the middle of code without loops goes on;
- strong fairness of taking a mutex: a thread that waits is let in if the mutex
  is free again and again.  `std::mutex` does not promise it, but the systems
  the extension runs on do not starve a waiting thread for ever while the
  holders, who do constant work under the lock, come and go;
- weak fairness of the library handing over what it has received;
- the script keeps calling: `_get_packet` in `DataChannel`, `_poll` from
  outside any handler (the engine's documented use) in `PeerConnection`, and
  its handlers return.  The script is never obliged to close or to count;
- in `Signaling`, for both scripts: whatever else they call, they poll, their
  handlers return, and they pass on what they are sent, again and again.  This
  is strong fairness, as a script may be in another method whenever one looks;
  for what the methods and callbacks do by themselves weak fairness is enough.

### What the properties say

- `CountHonest`, `PromiseKept`: at every step the count is at most the queue's
  length, so a script that read n can fetch n packets, whatever happens between.
  It fails if `queue_packet` stores before it pushes, or `_get_packet` after it pops.
- `ImplementsPipe`: the library's inbox, the running callback and the packet
  queue together are one FIFO pipe; no packet is lost, doubled, overtaken or
  given the other mark.
- `NoUseAfterFree`: nobody works on a freed SharedState, also when `close()`
  threw and left callbacks bound to a destroyed object.
- `ReportedStateTrue`, `CloseReported`, `SilentAfterClose`: OPEN is never
  reported before the channel opens nor CLOSED before it closes; `_close` leaves
  CLOSED; afterwards nothing changes.  `CloseReported` has an exception that the
  code really needs: a `_close` that races a notification on its way, an open
  callback that is running or a remote close whose callback has not stored its
  state, can leave OPEN (or CONNECTING), because `set_state` stores
  unconditionally and `close()` clears the callbacks.
- `ClosedIsFinal`: without overlapping notifications CLOSED is final.  It does
  depend on `SerialNotify`: `set_state` has no guard of its own.
- `CloseReturns`: `_close` waits for running callbacks, and one of them may wait
  for the mutex; they do not wait for each other, because `_close` does not
  hold it.
- `RemoteCloseReported`, `PacketsReachScript`: what happens at the other end
  becomes visible.
- `SessionIsolation`: what the next `_poll` will report comes from the
  connection the object has now; after a failed `_initialize` it is empty.
- `NoStaleSignal`: a signal of an old connection is not emitted after a
  `_close` made outside the handlers.  Inside a handler it is: the rest of the
  running poll's batch, which `_poll` has moved to `local_queue`, still comes.
- `AtMostOnce`, `SignalsKept`: though a task stays in `local_queue` while its
  handler runs and may poll, no task is run twice and none is lost.
- `SignalsInOrder`: signals come in the order of their tasks, unless a handler
  polls; then the inner poll overtakes the rest of the outer one's batch.
- `ImplementsLine`: all of this at once and step by step: what a script sees of
  the object is the line of `SignalLine`, which a poll takes as a whole and a
  `_close` empties, though not of what a poll has taken.
- `PollReturns`, `SignalsReachScript`: polls end, also nested ones, and each
  signal whose task was queued for the present session is emitted, unless the
  session ends before: it is not enough that it leaves the queue.
- `DroppedOnlyIfEnded`: a channel the other peer opened is not closed behind the
  script's back while its session lasts, though only references in lambdas keep
  it: the callback's until the task has one, the task's until the handler has it.
- `ChannelSettled`: nor does it stay open unseen: it is given to the script, or
  its last reference goes with its session.
- `ClosedWithoutMutex`: the destructor's `close()` may wait for a callback.
  Tasks are destroyed in the library's threads, in `_close` and in `_poll`; none
  of these holds the mutex meanwhile, because `_poll` swaps the queue and runs
  and destroys the tasks after the lock.
- `StuckIsTold`: a peer whose answer failed stays in HAVE_REMOTE_OFFER for good;
  its script got FAILED.  An error does not undo what the call had done before.
- `CandidatesInTime`: through events, queue, poll and relay a candidate never
  overtakes its description, and no later description overtakes it.
- `NoSilentDisagreement`: with nothing on its way both peers say STABLE and each
  has the other's description, unless somebody was told of a failure, whoever
  made offers and however they crossed.  It depends on every exception becoming
  FAILED; which of two crossing offers wins it does not say.
- `ImplementsNegotiation`: methods in several steps, reports, queues, polls and
  relaying scripts act as one line in each direction.  Each description is on
  the line as soon as it is there; each signal taken is accepted, or its taker
  told; a candidate is accepted only for the description it belongs to, unless
  its taker was told before; `_close` cuts the end off a line and nothing follows.
  What a running poll has taken is not cut off: a handler that closes the object
  is followed by the handlers for the rest of the batch.
- `OfferAnswered`: an offer is answered, or somebody is told or closes.
- `NoneAcceptedAfterClosed`: `_get_ready_state` answers from a cache, `_put_packet`
  asks the channel; still, who has seen CLOSED will not be told OK.  (The
  reverse does not hold: while OPEN is reported a packet may be refused.)
- `AcceptedIsSent`: what the script was told OK for went out, in order, in its
  mode, and for binary packets byte for byte.  A text goes out unchanged up to
  its first NUL and with its length; of the bytes after it, which `strncpy`
  leaves NUL, the property says nothing.
- `ReportsWhatWasAsked`, `NegotiatedKnown`, `NotNegotiatedEarly`: a wrapper's
  getters against the script's configuration.  The first holds as far as the
  numbers fit: the code reports a limit of 2^32 + 5 as 5.  `NotNegotiatedEarly` is
  about channels wrapped before the connection is up; for the others, also those
  made before and wrapped after, see below.
- `FirstWrongDecides`, `AllServersUsed`: the loops over the ICE servers against
  definitions without loops: the entries by themselves (`Outcome`), and a cut of
  the result into what the entries list (`IsConcat`).  One of the outcomes is an exception: for a URL it
  does not take `rtc::IceServer` throws, and here, unlike at every other
  call, nothing catches it.
- `RegistrationKnown`, `NoDanglingLibrary`, `CreationPossible`, `OtherSpared`: the
  static variables survive being replaced and loaded again, and still the
  engine never gets a connection from a half-initialized library, keeps no
  pointer to an unloaded one, and loses no other library.

### Finding

`_create_data_channel` gives the wrapper `negotiated = ch->id().has_value()`
(`WebRTCLibPeerConnection.cpp:239`), after `createDataChannel()` (236) has made
the channel.  While the connection is not up this is right: only negotiated
channels have an id (`NotNegotiatedEarly`, proved).  `cs_negotiated` shows how it
goes wrong: the script creates a channel without an id on a connection that is
not up; the connection comes up on a thread of the library, which gives the
channel an id; then `ch->id()` is asked, and the wrapper of an ordinary channel
says that it is negotiated.  It says so, without any race, of every channel that
is created when the connection is up already.  The code's comment at line 116
has it otherwise: "If negotiated it must have an ID, and ID only makes sense
when negotiated."

## Proofs

TLAPS proves, for any number of threads, payloads, messages, sessions, events,
nested polls, buffers, channels, ids, connections, descriptions, candidates,
entries and URLs:

| theorem | says |
|---|---|
| `DataChannelProofs!Invariance` | `Spec => []IndInv` |
| `TypeCorrect`, `HonestCount`, `KeptPromise`, `MemorySafety`, `TrueState`, `CloseSeen` | the six invariants of `dc_safety` |
| `SilenceAfterClose` | `Spec => SilentAfterClose`, an action property |
| `ClosedStays` | `SerialNotify => (Spec => ClosedIsFinal)`, an action property |
| `PipeRefinement` | `Spec => ImplementsPipe` |
| `PeerConnectionProofs!Invariance` | `Spec => []IndInv` |
| `TypeCorrect`, `Isolation` | `TypeOK` and `SessionIsolation` |
| `StaleSignalsDropped` | `Spec => NoStaleSignal`, an action property |
| `EmittedOnce`, `SignalsAreKept`, `SignalsStayInOrder` | `AtMostOnce`, `SignalsKept`, `SignalsInOrder` |
| `LineRefinement` | `Spec => ImplementsLine` |
| `ReceivedChannelsProofs!ReceivingHarmless` | `ReceivedSpec => Spec`: all of the above holds with received channels, too |
| `ReceivedTypeCorrect`, `NoneDropped`, `NoneClosedUnderMutex` | types; `DroppedOnlyIfEnded` and `ClosedWithoutMutex` |
| `SignalingProofs!Invariance`, `TypeCorrect` | `Spec => []IndInv`, types |
| `StuckPeersAreTold`, `CandidatesAreInTime`, `PeersAgree` | the three invariants of `sg_safety` |
| `NegotiationRefinement` | `Spec => ImplementsNegotiation` |
| `DataChannelSendProofs!SendingHarmless` | `SendSpec => Spec`: all of the above holds of an object that sends, too |
| `SendTypeCorrect`, `AcceptedSent`, `NoPacketAfterClosed` | types, and the two properties of `dc_send` |
| `ChannelSetupProofs!TypeCorrect`, `AskedIsReported`, `NegotiationKnown`, `EarlyChannelsTold` | the four invariants of `cs_setup` |
| `IceServersProofs!Invariance`, `TypeCorrect`, `FirstDecides`, `ServersUsed` | `Spec => []IndInv`, types, and the two invariants of `is_parse` |
| `SingletonProofs!TypeCorrect`, `RegistrationIsKnown`, `NothingDangles`, `CreationIsPossible`, `OthersAreSpared` | types, and the four properties of `singleton` |

**Assumptions.**  Of the constants: the script's thread is not one of the
library's and neither is called "free", the two peers differ, `NoPacket` is not a packet, the bounds
are natural numbers (those on sessions and on nesting positive), buffers are
sequences of bytes, the ids and limits a script gives are integers in two parts
(`ScriptInts`) and the ids of the library fit 16 bits.  Finiteness of the
sets is not needed.  Only `ClosedStays` uses `SerialNotify`, and says so; none
uses fairness.

**Data channel.**  None of the six invariants is inductive.  That the count is
honest depends on who is in the critical section and how far: `Locking` ties
the mutex to the processes' positions, and `Counting` says that the count is
one short exactly while a packet is pushed and not yet counted, or counted and
not yet popped.  `Calling` says that the message callback runs at most once at
a time and that only bound callbacks run; the latter is what makes a completed
`_close`, whose callbacks are all unbound, silent.  `Notifying` carries the truth of a
notification from the library to where it is stored.  `Closing` says what is
left to happen at each stage of `_close`.  `IndInv` joins them with `TypeOK`,
`PromiseKept`, `NoUseAfterFree` and `ReportedStateTrue`, and the step from
`IndInv` to `IndInv'` has a lemma for each part, each with one case per action.

`ClosedStays` needs one part more, `ClosedComesLast`, which is inductive beside
`IndInv` under `SerialNotify`: at most one thread notifies, when it delivers
`closed` no `open` is left, and while CLOSED is stored none is left either, or
the script is inside or past a `_close`, which unbinds the callbacks.

**Refinement of the pipe.**  `PacketPipe`'s line is the packet queue, then the packet in
the running message callback, then the library's inbox.  Only `LibMessage`,
`GetPacketPop` and `Destroy` change that line (as `Arrive`, `Take` and `End`);
that handing a message to the callback and pushing it do not needs `Calling`,
by which the packet in the callback is unique.  A thread that runs late, after
the object is destroyed, changes nothing: the line has ended.

**Peer connection.**  `Control` ties the running polls to where the script's
thread is, `Numbering` says that sessions are numbered in the order they are made and that
a queue holds only its own session's tasks, `FreshFrames` that running polls
hold no task of a session closed outside the handlers.  From the last follows
`NoStaleSignal`, from `Numbering` `SessionIsolation`.

`AtMostOnce`, `SignalsKept` and `SignalsInOrder` speak of every place a task can
be in, and polls nest without bound.  `Rest` gives the part of each running
poll's local_queue that is still to be emitted, and a lemma (`Effect`) reduces
every step to one of six effects on queues, `Rest` and `emitted`: a task is
pushed, a queue becomes a new poll's rest, the front of the innermost rest is
emitted, an empty rest goes, a queue is lost with its session, or nothing.
`Once` (each task is in one place at most), `Kept` (and in one at least while
its session lasts) and `Ordered` (places are ascending, and what is emitted is
before what waits, until a handler polls) are then proved once per effect.

`LineRefinement` maps the line to the queue of the present SharedState, what a
poll has taken to the `Rest` of all running polls, a signal given to an entry of
`pushes`.  `PushTask` is `Give`, also for a session that has ended, whose
signal joins no line; `PollSwap` is `Take`, `EmitSignal` is `Emit`, `CloseReset`
is `NewSession`, a `PollCall` inside a handler is `Reenter`; every other step
changes nothing that is mapped.  Since the abstract `Emit` takes the least of
what was taken, and `Take` waits until all is emitted unless a handler polled,
`Once` and `Ordered` are needed at each of them.  The lemmas `LineClose`,
`LineFreed`, `LineGiven`, `LineTaken`, `LineEmitted` and `LineDone` follow the
six effects.

**Received channels.**  `Following` says where a channel's reference is: with
the thread whose callback has not pushed, with a task of the same session, or
with the script, unless the session has ended.  With `Kept` of the peer
connection, by which that task is still in memory or was emitted, `NoneDropped`
follows.  `Held` says who can hold a mutex: a thread about to push or the
script about to swap; neither step takes a reference away.

**Negotiation.**  `Line` puts what is on its way to a peer (wire, the other's
batch and queue, its events) in one sequence, which handing on does not change
(`Handing`: the signal a handler is given is the first that waits, be it a
poll's first or a later one), so that only four effects are left: a signal is
appended, the first one is taken, what follows the wire and the batch is lost in
a `_close`, or nothing.  `Following` says that on the line
each candidate follows its description, beginning with the remote description
the peer has, and that the other peer's local description is the last on it;
with an empty line the two are therefore the same.  `Fresh` covers the peer
that has no description yet; `Pending` that an open offer, or its answer, is
still on a line or in a method; `Answered` the remote offer left over; `Busy`
that a peer whose script is in a method is open and has the offer it is to answer.

`NegotiationRefinement` uses the same lines.  Beginnings and ends of methods,
reports, polls and relays change nothing that is mapped; the outcome of each
call of the library is one abstract step.  `Busy` is what lets an answer be
`Answer`, `Following` what a candidate needs to be the one of `TakeCandidate`.

**Sending.**  `SendingHarmless` maps every step of `SendSpec` to a step or a
stutter of `Spec`, so that the invariant of the receiving half can be used.
With it, a channel that reports CLOSED, or whose `_close` returned, is closed in the
library, and `PutSend` is disabled.

**Channel setup.**  `Faithful` says of one channel what is true at every stage:
asked for, created, given an id, wrapped.  Its key is that before the
connection is up only a negotiated channel has an id.  Two lemmas, one for
actions that add a channel and one for those that change channels in place,
leave each action with the proof that its channels are faithful.

**Singleton.**  The invariants are inductive together.  `OtherSpared` follows from
`RegistrationKnown`: while another library is active `_singleton` is not set.

**ICE servers.**  `PassedOK` says that no entry or URL the loops have passed
would have ended them, `EndsAtFirst` that what ended them is what they are at;
together they give `FirstWrongDecides`.  `Collected` has a function `start` as
its witness: where in the configuration the URLs of each entry up to the
present one begin.  `NextEntry` extends it by one value, and at the end it is
the cut that `IsConcat` asks for.  No fold and no recursion is involved.

**Only model-checked.**  The liveness properties (`CloseReturns`, `RemoteCloseReported`,
`PacketsReachScript`, `PollReturns`, `SignalsReachScript`, `ChannelSettled`,
`OfferAnswered`), which need reasoning about fairness and ENABLED that TLAPS
does not support.

## Not modelled

- The Godot 4 life cycle (`register_types.cpp`): the engine calls its two
  functions once each, at an initialization level it fixes; they keep no state.
  The wait for the library's threads, which they share with the GDNative
  library, is in `Singleton`.
- A handler that drops the last reference to the peer connection while `_poll`
  runs: whether the engine keeps the object alive meanwhile is not in this
  repository.
- `_get_gathering_state`: a pure getter that nothing in the code acts on.
- `onError`, logging and `_poll` of a channel: they change no state.
- `src/net`: functions that forward to the object, and a pointer to their table
  set in the constructor and cleared in the destructor.  They keep no state
  between calls.  Some return a pointer into a temporary; that is wrong on each call and involves
  no interleaving.
- Labels, protocols and the options under "libdatachannel": handed on as they are.
- Contents of received packets, descriptions and candidates: a packet is a
  payload and a mark, a signal is a number.
- The key lookups in a dictionary: a key is there with a usable value or it is
  not.
- Memory orders: the atomics are modelled as sequentially consistent.  The
  stores are release and the loads acquire, and each atomic is read for its own
  value only; the queue is always accessed under the mutex.

## Plan

The order was: what the threads share first (`DataChannel`, `PeerConnection`),
their proofs, what stands beside them (`DataChannelSend`, `ChannelSetup`,
`IceServers`, `Singleton`), then the compositions (`ReceivedChannels` on top of
`PeerConnection`, `Signaling` of two peers).  All of it is done, and so are
the abstract specifications of the three parts that queue (`PacketPipe`,
`SignalLine`, `Negotiation`), each with its refinement proved.  What could follow:
the received channel's own callbacks: `ReceivedChannels` joined with
`DataChannel`, so that messages which arrive before the script has the
channel are followed to it.
