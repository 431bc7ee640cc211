----------------------------- MODULE Signaling ------------------------------
(***************************************************************************)
(* The negotiation of two peers.  Each has a WebRTCLibPeerConnection; its  *)
(* script relays the object's signals to the other peer, in order, and     *)
(* calls _set_remote_description and _add_ice_candidate with what it gets. *)
(* Either script may call _create_offer, so that offers may cross.         *)
(*                                                                         *)
(* A description is its number: each one made gets the next.  A signal is  *)
(* an offer or an answer with its number, or a candidate with that of the  *)
(* description it belongs to.  What threads and nested polls do to the     *)
(* tasks is in PeerConnection; here a handler may call any method but a    *)
(* _poll that would overtake the rest of the running one's batch.          *)
(*                                                                         *)
(* Library: it accepts descriptions as its signaling state allows, and     *)
(* any call may throw, which changes nothing.  A remote offer that meets a *)
(* local one is refused, or rolls the local one back.  Candidates of a     *)
(* description are reported after it, and refused without one; reports of  *)
(* a connection come one after the other.                                  *)
(***************************************************************************)
EXTENDS Integers, Sequences

CONSTANTS
  A, B,          \* the two peers
  MaxOffers,     \* bound: no offers with that many descriptions made
  MaxCandidates  \* bound: candidates of both peers

ASSUME PeersAssumption == A # B
ASSUME BoundsAssumption == MaxOffers \in Nat /\ MaxCandidates \in Nat

Peers == {A, B}
Other(p) == IF p = A THEN B ELSE A

VARIABLES
  \* The rtc::PeerConnection of each peer.
  signaling,  \* its signaling state
  local,      \* its local and its remote description, 0 without one
  remote,
  started,    \* peers whose connection state is not New any more
  events,     \* signals not yet reported to the callbacks
  \* Its wrapper and its script.
  tasks,      \* signals in tasks_queue
  batch,      \* in the local_queue of the running _poll, not yet emitted
  doing,      \* the method the script is in, between two library calls
  closed,     \* peers that have called _close
  wire,       \* signals that the other peer has relayed
  \* History.
  made,       \* number of descriptions
  gathered,   \* number of candidates
  failed      \* peers whose script was told of a failure

libVars == <<signaling, local, remote, started, events>>
relayVars == <<tasks, batch, doing, closed, wire>>
vars == <<libVars, relayVars, made, gathered, failed>>

Signal(type, no) == [type |-> type, no |-> no]

Init ==
  /\ signaling = [p \in Peers |-> "Stable"]
  /\ local = [p \in Peers |-> 0] /\ remote = [p \in Peers |-> 0]
  /\ started = {} /\ closed = {} /\ failed = {}
  /\ events = [p \in Peers |-> <<>>]
  /\ tasks = [p \in Peers |-> <<>>] /\ batch = [p \in Peers |-> <<>>]
  /\ wire = [p \in Peers |-> <<>>]
  /\ doing = [p \in Peers |-> "idle"]
  /\ made = 0 /\ gathered = 0

-----------------------------------------------------------------------------
(* _get_connection_state and _get_signaling_state.                         *)

\* Once it has left New only whether it is closed matters here.
GetConnectionState(p) ==
  IF p \in closed THEN "CLOSED"
  ELSE IF p \in started THEN "CONNECTING" ELSE "NEW"

\* What the library says is what the script sees, after _close too.
GetSignalingState(p) ==
  [Stable |-> "STABLE",
   HaveLocalOffer |-> "HAVE_LOCAL_OFFER",
   HaveRemoteOffer |-> "HAVE_REMOTE_OFFER",
   HaveLocalPranswer |-> "HAVE_LOCAL_PRANSWER",
   HaveRemotePranswer |-> "HAVE_REMOTE_PRANSWER"][signaling[p]]

-----------------------------------------------------------------------------
(* What a method does when the library throws, and what setLocalDescription*)
(* does.                                                                   *)

Return(p) == doing' = [doing EXCEPT ![p] = "idle"]

\* Faulty variant: the exception is swallowed and OK returned.
Fail_Swallowed(p) ==
  /\ Return(p)
  /\ UNCHANGED <<libVars, tasks, batch, closed, made, gathered, failed>>

\* FAILED.
Fail(p) ==
  /\ Return(p)
  /\ failed' = failed \union {p}
  /\ UNCHANGED <<libVars, tasks, batch, closed, made, gathered>>

\* The library makes a description and reports it later.
SetLocalDescription(p, type, state) ==
  /\ signaling' = [signaling EXCEPT ![p] = state]
  /\ made' = made + 1
  /\ local' = [local EXCEPT ![p] = made']
  /\ events' = [events EXCEPT ![p] = Append(@, Signal(type, made'))]
  /\ Return(p)
  /\ UNCHANGED <<remote, started, tasks, batch, closed, wire, gathered,
                 failed>>

-----------------------------------------------------------------------------
(* _create_offer.                                                          *)

\* Only while the connection state is New; else FAILED, and nothing changes.
CreateOffer(p) ==
  /\ doing[p] = "idle"
  /\ GetConnectionState(p) = "NEW"
  /\ made < MaxOffers
  /\ doing' = [doing EXCEPT ![p] = "offering"]
  /\ UNCHANGED <<libVars, tasks, batch, closed, wire, made, gathered, failed>>

SetLocalOffer(p) ==
  /\ doing[p] = "offering"
  /\ signaling[p] = "Stable"
  /\ SetLocalDescription(p, "offer", "HaveLocalOffer")

\* The library may ignore an offer that its state does not allow.
OfferIgnored(p) ==
  /\ doing[p] = "offering"
  /\ signaling[p] # "Stable"
  /\ Return(p)
  /\ UNCHANGED <<libVars, tasks, batch, closed, wire, made, gathered, failed>>

OfferThrows(p) ==
  /\ doing[p] = "offering"
  /\ Fail(p) /\ UNCHANGED wire

-----------------------------------------------------------------------------
(* _set_remote_description and _add_ice_candidate.                         *)

\* The script is handed a signal of one of these types.
Received(p, types) ==
  /\ doing[p] = "idle"
  /\ wire[p] # <<>> /\ Head(wire[p]).type \in types
  /\ wire' = [wire EXCEPT ![p] = Tail(@)]

\* A local offer goes when a remote one comes; the answer is next.
SetRemoteOffer(p) ==
  /\ Received(p, {"offer"})
  /\ p \notin closed /\ signaling[p] \in {"Stable", "HaveLocalOffer"}
  /\ signaling' = [signaling EXCEPT ![p] = "HaveRemoteOffer"]
  /\ remote' = [remote EXCEPT ![p] = Head(wire[p]).no]
  /\ local' = [local EXCEPT
                 ![p] = IF signaling[p] = "Stable" THEN @ ELSE 0]
  /\ doing' = [doing EXCEPT ![p] = "answering"]
  /\ UNCHANGED <<started, events, tasks, batch, closed, made, gathered,
                 failed>>

SetRemoteAnswer(p) ==
  /\ Received(p, {"answer"})
  /\ p \notin closed /\ signaling[p] = "HaveLocalOffer"
  /\ signaling' = [signaling EXCEPT ![p] = "Stable"]
  /\ remote' = [remote EXCEPT ![p] = Head(wire[p]).no]
  /\ UNCHANGED <<local, started, events, tasks, batch, doing, closed, made,
                 gathered, failed>>

\* Of the description, or of a candidate.
RemoteThrows(p) ==
  /\ Received(p, {"offer", "answer", "candidate"})
  /\ Fail(p)

\* Faulty variant: nobody asks for the answer.
SetLocalAnswer_Missing(p) ==
  /\ doing[p] = "answering"
  /\ Return(p)
  /\ UNCHANGED <<libVars, tasks, batch, closed, wire, made, gathered, failed>>

\* The automatic answer.
SetLocalAnswer(p) ==
  /\ doing[p] = "answering"
  /\ SetLocalDescription(p, "answer", "Stable")

\* The remote description stays.
AnswerThrows(p) ==
  /\ doing[p] = "answering"
  /\ Fail(p) /\ UNCHANGED wire

AddIceCandidate(p) ==
  /\ Received(p, {"candidate"})
  /\ p \notin closed /\ remote[p] # 0
  /\ UNCHANGED <<libVars, tasks, batch, doing, closed, made, gathered, failed>>

-----------------------------------------------------------------------------
(* The callbacks, _poll and _close.                                        *)

\* Faulty variant: tasks are stacked, not queued.
QueueTask_Stack(p) ==
  /\ events[p] # <<>>
  /\ events' = [events EXCEPT ![p] = Tail(@)]
  /\ tasks' = IF p \in closed THEN tasks
              ELSE [tasks EXCEPT ![p] = <<Head(events[p])>> \o @]
  /\ UNCHANGED <<signaling, local, remote, started, batch, doing, closed, wire,
                 made, gathered, failed>>

\* Faulty variant: the callbacks of a closed connection still queue.
QueueTask_Late(p) ==
  /\ events[p] # <<>>
  /\ events' = [events EXCEPT ![p] = Tail(@)]
  /\ tasks' = [tasks EXCEPT ![p] = Append(@, Head(events[p]))]
  /\ UNCHANGED <<signaling, local, remote, started, batch, doing, closed, wire,
                 made, gathered, failed>>

\* onLocalDescription and onLocalCandidate; the weak_ptr of a closed
\* connection has expired.
QueueTask(p) ==
  /\ events[p] # <<>>
  /\ events' = [events EXCEPT ![p] = Tail(@)]
  /\ tasks' = IF p \in closed THEN tasks
              ELSE [tasks EXCEPT ![p] = Append(@, Head(events[p]))]
  /\ UNCHANGED <<signaling, local, remote, started, batch, doing, closed, wire,
                 made, gathered, failed>>

\* A task of _poll: the signal is emitted and the handler relays it;
\* _set_local_description, which it may call too, does nothing.
Relay(p, signal) == wire' = [wire EXCEPT ![Other(p)] = Append(@, signal)]

\* _poll takes all tasks at once, and runs the first of them.
Poll(p) ==
  /\ doing[p] = "idle" /\ batch[p] = <<>>
  /\ tasks[p] # <<>>
  /\ batch' = [batch EXCEPT ![p] = Tail(tasks[p])]
  /\ tasks' = [tasks EXCEPT ![p] = <<>>]
  /\ Relay(p, Head(tasks[p]))
  /\ UNCHANGED <<libVars, doing, closed, made, gathered, failed>>

\* The handler returns, whatever it has called, and the next task runs.
EmitSignal(p) ==
  /\ doing[p] = "idle"
  /\ batch[p] # <<>>
  /\ batch' = [batch EXCEPT ![p] = Tail(@)]
  /\ Relay(p, Head(batch[p]))
  /\ UNCHANGED <<libVars, tasks, doing, closed, made, gathered, failed>>

\* _close; no library call succeeds any more.  What a running _poll has
\* taken stays: the handler may be the one that closes.
Close(p) ==
  /\ doing[p] = "idle" /\ p \notin closed
  /\ closed' = closed \union {p}
  /\ tasks' = [tasks EXCEPT ![p] = <<>>]
  /\ UNCHANGED <<libVars, batch, doing, wire, made, gathered, failed>>

-----------------------------------------------------------------------------
(* The library by itself.                                                  *)

Gather(p) ==
  /\ p \notin closed /\ local[p] # 0
  /\ gathered < MaxCandidates
  /\ gathered' = gathered + 1
  /\ events' = [events EXCEPT ![p] = Append(@, Signal("candidate", local[p]))]
  /\ UNCHANGED <<signaling, local, remote, started, relayVars, made, failed>>

\* The connection state leaves New.
Start(p) ==
  /\ p \notin closed \union started
  /\ local[p] # 0 /\ remote[p] # 0
  /\ started' = started \union {p}
  /\ UNCHANGED <<signaling, local, remote, events, relayVars, made, gathered,
                 failed>>

-----------------------------------------------------------------------------
Finish(p) ==
  \/ SetLocalOffer(p) \/ OfferIgnored(p) \/ OfferThrows(p)
  \/ SetLocalAnswer(p) \/ AnswerThrows(p)

Receive(p) ==
  \/ SetRemoteOffer(p) \/ SetRemoteAnswer(p) \/ AddIceCandidate(p)
  \/ RemoteThrows(p)

Next ==
  \E p \in Peers :
    \/ CreateOffer(p) \/ Finish(p) \/ Receive(p)
    \/ QueueTask(p) \/ Poll(p) \/ EmitSignal(p) \/ Close(p)
    \/ Gather(p) \/ Start(p)

Spec == Init /\ [][Next]_vars

\* Methods end, callbacks run, and whatever else the scripts call, they
\* poll and relay again and again, and their handlers return.
Fairness ==
  \A p \in Peers :
    /\ WF_vars(Finish(p)) /\ WF_vars(QueueTask(p))
    /\ SF_vars(Poll(p)) /\ SF_vars(EmitSignal(p)) /\ SF_vars(Receive(p))

FairSpec == Spec /\ Fairness

-----------------------------------------------------------------------------
(* Properties.                                                             *)

Signals == [type : {"offer", "answer", "candidate"}, no : 1 .. made]

\* The values each variable can have.
TypeOK ==
  /\ signaling \in [Peers -> {"Stable", "HaveLocalOffer", "HaveRemoteOffer"}]
  /\ local \in [Peers -> 0 .. made] /\ remote \in [Peers -> 0 .. made]
  /\ started \subseteq Peers /\ closed \subseteq Peers
  /\ failed \subseteq Peers
  /\ events \in [Peers -> Seq(Signals)] /\ tasks \in [Peers -> Seq(Signals)]
  /\ batch \in [Peers -> Seq(Signals)] /\ wire \in [Peers -> Seq(Signals)]
  /\ doing \in [Peers -> {"idle", "offering", "answering"}]
  /\ made \in Nat /\ gathered \in 0 .. MaxCandidates

\* There is no method to answer an offer later: a peer that is left with a
\* remote offer is stuck, and its script was told so.
StuckIsTold ==
  \A p \in Peers :
    GetSignalingState(p) = "HAVE_REMOTE_OFFER" /\ doing[p] = "idle" =>
      p \in failed

\* Signals of a peer that no handler has been given yet.
Waiting(p) == batch[p] \o tasks[p]

\* A candidate finds the description it belongs to, unless something failed
\* before: it never overtakes it, and no later description is there yet.
CandidatesInTime ==
  \A p \in Peers \ (failed \union closed) :
    wire[p] # <<>> /\ Head(wire[p]).type = "candidate" =>
      remote[p] = Head(wire[p]).no

Quiet ==
  \A p \in Peers :
    /\ doing[p] = "idle"
    /\ events[p] = <<>> /\ Waiting(p) = <<>> /\ wire[p] = <<>>

\* With nothing on its way both peers say STABLE and have each other's
\* descriptions, unless one of the scripts was told of a failure: not even
\* offers that cross leave them silently waiting, or with different ones.
NoSilentDisagreement ==
  Quiet /\ failed \union closed = {} =>
    \A p \in Peers :
      GetSignalingState(p) = "STABLE" /\ local[p] = remote[Other(p)]

\* An offer is answered, unless a script is told of a failure or closes.
OfferAnswered ==
  \A p \in Peers :
    GetSignalingState(p) = "HAVE_LOCAL_OFFER" ~>
      GetSignalingState(p) # "HAVE_LOCAL_OFFER" \/ failed \union closed # {}

-----------------------------------------------------------------------------
(* Why they hold: an inductive invariant in parts.                         *)

\* The signals on their way to p, the next one first.
Line(p) ==
  LET o == Other(p) IN
    wire[p] \o (Waiting(o) \o (IF o \in closed THEN <<>> ELSE events[o]))

\* On a line that comes after description r each candidate follows its
\* description, or another candidate of it.
Chained(r, s) ==
  \A i \in 1 .. Len(s) :
    s[i].type = "candidate" => s[i].no = IF i = 1 THEN r ELSE s[i - 1].no

LastNo(r, s) == IF s = <<>> THEN r ELSE s[Len(s)].no

\* A candidate that is gathered now will follow its description, too.
Following(p) ==
  LET o == Other(p) IN
    p \notin failed \union closed =>
      /\ Chained(remote[p], Line(p))
      /\ o \notin closed /\ local[o] # 0 =>
           local[o] = LastNo(remote[p], Line(p))

\* A peer without a local description has not had one, unless it is just
\* answering in the place of its own offer.
Fresh(p) ==
  local[p] = 0 /\ doing[p] # "answering" /\ p \notin failed =>
    /\ remote[Other(p)] = 0 /\ wire[Other(p)] = <<>>
    /\ Waiting(p) = <<>> /\ events[p] = <<>>

\* The method that takes an offer answers it, or fails.
Answered(p) ==
  signaling[p] = "HaveRemoteOffer" =>
    doing[p] = "answering" \/ p \in failed

\* An open offer is on its way, being answered, or its answer on its way.
Sent(p, type) == \E i \in 1 .. Len(Line(p)) : Line(p)[i].type = type

Pending(p) ==
  LET o == Other(p) IN
    signaling[p] = "HaveLocalOffer" /\ failed \union closed = {} =>
      Sent(o, "offer") \/ doing[o] = "answering" \/ Sent(p, "answer")

\* A peer whose script is in a method is not closed, and the offer it is to
\* answer still stands.
Busy(p) ==
  /\ doing[p] # "idle" => p \notin closed
  /\ doing[p] = "answering" => signaling[p] = "HaveRemoteOffer"

\* The parts together.
IndInv ==
  /\ TypeOK
  /\ \A p \in Peers :
       Following(p) /\ Fresh(p) /\ Answered(p) /\ Pending(p) /\ Busy(p)

-----------------------------------------------------------------------------
(* What a user of both peers may think that they are.                      *)

Abstract == INSTANCE Negotiation WITH
  state <- signaling, line <- [p \in Peers |-> Line(p)],
  told <- failed, gone <- closed

\* The reports, queues, polls, handlers and steps of methods between two
\* peers are one line in each direction: whatever is interleaved, nothing is
\* added, doubled, overtaken or lost, except what _close cuts off (all that no
\* _poll has taken), and of a signal that a peer does not accept its script is
\* told.
ImplementsNegotiation == Abstract!Spec
=============================================================================
