---------------------------- MODULE Negotiation -----------------------------
(***************************************************************************)
(* What two peers promise of their negotiation, without methods that take  *)
(* several steps, queues, polls and scripts: each direction is a line of   *)
(* signals.  A description is with its peer and in the line at once, and   *)
(* the next signal is accepted, or refused and the taker told.  To close   *)
(* cuts the end off a line and adds nothing to it ever after.              *)
(* Signaling is shown to implement this module.                            *)
(***************************************************************************)
EXTENDS Integers, Sequences

CONSTANTS A, B   \* the two peers

Peers == {A, B}
Other(p) == IF p = A THEN B ELSE A

VARIABLES
  state,    \* the signaling state of each peer
  local,    \* its local and its remote description, 0 without one
  remote,
  line,     \* the signals on their way to it
  told,     \* peers that were told of a failure
  gone,     \* peers that have closed
  made      \* number of descriptions

vars == <<state, local, remote, line, told, gone, made>>

Init ==
  /\ state = [p \in Peers |-> "Stable"]
  /\ local = [p \in Peers |-> 0] /\ remote = [p \in Peers |-> 0]
  /\ line = [p \in Peers |-> <<>>]
  /\ told = {} /\ gone = {} /\ made = 0

\* A peer adds a signal to the other's line.
Send(p, type, no) ==
  /\ p \notin gone
  /\ line' = [line EXCEPT ![Other(p)] = Append(@, [type |-> type, no |-> no])]

Describe(p, type, after) ==
  /\ made' = made + 1
  /\ Send(p, type, made')
  /\ local' = [local EXCEPT ![p] = made']
  /\ state' = [state EXCEPT ![p] = after]
  /\ UNCHANGED <<remote, told, gone>>

Offer(p) == state[p] = "Stable" /\ Describe(p, "offer", "HaveLocalOffer")
Answer(p) == state[p] = "HaveRemoteOffer" /\ Describe(p, "answer", "Stable")

\* Of the description that stands.
Candidate(p) ==
  /\ local[p] # 0
  /\ Send(p, "candidate", local[p])
  /\ UNCHANGED <<state, local, remote, told, gone, made>>

\* The next signal, of one of these types.
Take(p, types) ==
  /\ line[p] # <<>> /\ Head(line[p]).type \in types
  /\ line' = [line EXCEPT ![p] = Tail(@)]
  /\ UNCHANGED <<gone, made>>

\* The peer's own offer gives way.
TakeOffer(p) ==
  /\ p \notin gone /\ state[p] \in {"Stable", "HaveLocalOffer"}
  /\ Take(p, {"offer"})
  /\ state' = [state EXCEPT ![p] = "HaveRemoteOffer"]
  /\ remote' = [remote EXCEPT ![p] = Head(line[p]).no]
  /\ local' = [local EXCEPT ![p] = IF state[p] = "Stable" THEN @ ELSE 0]
  /\ UNCHANGED told

TakeAnswer(p) ==
  /\ p \notin gone /\ state[p] = "HaveLocalOffer"
  /\ Take(p, {"answer"})
  /\ state' = [state EXCEPT ![p] = "Stable"]
  /\ remote' = [remote EXCEPT ![p] = Head(line[p]).no]
  /\ UNCHANGED <<local, told>>

\* It belongs to the description that is there, unless there was a failure.
TakeCandidate(p) ==
  /\ p \notin gone
  /\ Take(p, {"candidate"})
  /\ p \in told \/ Head(line[p]).no = remote[p]
  /\ UNCHANGED <<state, local, remote, told>>

Refuse(p) ==
  /\ Take(p, {"offer", "answer", "candidate"})
  /\ told' = told \union {p}
  /\ UNCHANGED <<state, local, remote>>

\* To make an offer or an answer.
Fail(p) ==
  /\ told' = told \union {p}
  /\ UNCHANGED <<state, local, remote, line, gone, made>>

Close(p) ==
  /\ p \notin gone
  /\ gone' = gone \union {p}
  /\ \E n \in 0 .. Len(line[Other(p)]) :
       line' = [line EXCEPT ![Other(p)] = SubSeq(@, 1, n)]
  /\ UNCHANGED <<state, local, remote, told, made>>

Next ==
  \E p \in Peers :
    \/ Offer(p) \/ Answer(p) \/ Candidate(p)
    \/ TakeOffer(p) \/ TakeAnswer(p) \/ TakeCandidate(p) \/ Refuse(p)
    \/ Fail(p) \/ Close(p)

Spec == Init /\ [][Next]_vars
=============================================================================
