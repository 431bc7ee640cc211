-------------------------- MODULE SignalingProofs ----------------------------
(***************************************************************************)
(* The negotiation: for any number of descriptions and candidates, no      *)
(* candidate comes before its description, and two peers never disagree    *)
(* unless one of the scripts was told of a failure.                        *)
(***************************************************************************)
EXTENDS Signaling, SequenceTheorems, TLAPS

\* All signals there can be.
Every == [type : {"offer", "answer", "candidate"}, no : Nat]

LEMMA Pairs ==
  \A p \in Peers :
    /\ Other(p) \in Peers /\ Other(p) # p /\ Other(Other(p)) = p
    /\ \A q \in Peers : q = p \/ q = Other(p)
BY PeersAssumption DEF Peers, Other

-----------------------------------------------------------------------------
(* Sequences of signals.                                                   *)

LEMMA Associative ==
  \A a, b, c \in Seq(Every) : (a \o b) \o c = a \o (b \o c)
BY ConcatAssociative

\* Handing a signal on from one queue to the next does not change the line.
LEMMA HandOver ==
  \A a, b, c \in Seq(Every) :
    b # <<>> => Append(a, Head(b)) \o (Tail(b) \o c) = a \o (b \o c)
<1> SUFFICES ASSUME NEW a \in Seq(Every), NEW b \in Seq(Every),
                    NEW c \in Seq(Every), b # <<>>
             PROVE  Append(a, Head(b)) \o (Tail(b) \o c) = a \o (b \o c)
  OBVIOUS
<1>1. Head(b) \in Every /\ Tail(b) \in Seq(Every) /\ <<Head(b)>> \in Seq(Every)
  BY HeadTailProperties
<1>2. Append(a, Head(b)) = a \o <<Head(b)>>
  BY <1>1, AppendIsConcat
<1>3. Tail(b) \o c \in Seq(Every) /\ <<Head(b)>> \o Tail(b) \in Seq(Every)
  BY <1>1, ConcatProperties
<1>4. (a \o <<Head(b)>>) \o (Tail(b) \o c) = a \o (<<Head(b)>> \o (Tail(b) \o c))
  BY <1>1, <1>3, ConcatAssociative
<1>5. <<Head(b)>> \o (Tail(b) \o c) = (<<Head(b)>> \o Tail(b)) \o c
  BY <1>1, ConcatAssociative
<1>6. <<Head(b)>> \o Tail(b) = b
  <2>1. Len(<<Head(b)>> \o Tail(b)) = Len(b)
    BY <1>1, HeadTailProperties, ConcatProperties
  <2>2. ASSUME NEW i \in 1 .. Len(b)
        PROVE  (<<Head(b)>> \o Tail(b))[i] = b[i]
    BY <1>1, HeadTailProperties, ConcatProperties
  <2> QED
    BY <1>3, <2>1, <2>2, SeqEqual
<1> QED
  BY <1>2, <1>4, <1>5, <1>6

\* What is put at the end of the last queue is at the end of the line.
LEMMA AtTheEnd ==
  \A a, b, c \in Seq(Every) : \A x \in Every :
    a \o (b \o Append(c, x)) = Append(a \o (b \o c), x)
<1> SUFFICES ASSUME NEW a \in Seq(Every), NEW b \in Seq(Every),
                    NEW c \in Seq(Every), NEW x \in Every
             PROVE  a \o (b \o Append(c, x)) = Append(a \o (b \o c), x)
  OBVIOUS
<1>1. Append(c, x) = c \o <<x>> /\ <<x>> \in Seq(Every)
  BY AppendIsConcat
<1>2. b \o c \in Seq(Every) /\ a \o (b \o c) \in Seq(Every)
  BY ConcatProperties
<1>3. b \o (c \o <<x>>) = (b \o c) \o <<x>>
  BY <1>1, ConcatAssociative
<1>4. a \o ((b \o c) \o <<x>>) = (a \o (b \o c)) \o <<x>>
  BY <1>1, <1>2, ConcatAssociative
<1> QED
  BY <1>1, <1>2, <1>3, <1>4, AppendIsConcat

\* What is taken from the first queue is taken from the line.
LEMMA AtTheFront ==
  \A a, r \in Seq(Every) :
    a # <<>> =>
      a \o r # <<>> /\ Head(a \o r) = Head(a) /\ Tail(a) \o r = Tail(a \o r)
<1> SUFFICES ASSUME NEW a \in Seq(Every), NEW r \in Seq(Every), a # <<>>
             PROVE  /\ a \o r # <<>> /\ Head(a \o r) = Head(a)
                    /\ Tail(a) \o r = Tail(a \o r)
  OBVIOUS
<1>1. a \o r \in Seq(Every) /\ Len(a \o r) = Len(a) + Len(r) /\ Len(a) > 0
  BY ConcatProperties
<1>2. a \o r # <<>>
  BY <1>1
<1>3. Head(a \o r) = Head(a)
  BY <1>1, ConcatProperties
<1>4. Tail(a) \in Seq(Every) /\ Len(Tail(a)) = Len(a) - 1
      /\ \A i \in 1 .. Len(a) - 1 : Tail(a)[i] = a[i + 1]
  BY HeadTailProperties
<1>5. Tail(a \o r) \in Seq(Every) /\ Len(Tail(a \o r)) = Len(a) + Len(r) - 1
      /\ \A i \in 1 .. Len(a) + Len(r) - 1 : Tail(a \o r)[i] = (a \o r)[i + 1]
  BY <1>1, <1>2, HeadTailProperties
<1>6. Tail(a) \o r \in Seq(Every) /\ Len(Tail(a) \o r) = Len(a) + Len(r) - 1
  BY <1>1, <1>4, ConcatProperties
<1>7. ASSUME NEW i \in 1 .. Len(a) + Len(r) - 1
      PROVE  (Tail(a) \o r)[i] = Tail(a \o r)[i]
  <2>1. Tail(a \o r)[i] = (a \o r)[i + 1]
    BY <1>5
  <2>2. (a \o r)[i + 1] = IF i + 1 <= Len(a) THEN a[i + 1] ELSE r[i + 1 - Len(a)]
    BY <1>1, ConcatProperties
  <2>3. (Tail(a) \o r)[i] = IF i <= Len(a) - 1 THEN Tail(a)[i]
                                              ELSE r[i - (Len(a) - 1)]
    BY <1>1, <1>4, ConcatProperties
  <2>4. CASE i <= Len(a) - 1
    BY <1>4, <2>1, <2>2, <2>3, <2>4, <1>1
  <2>5. CASE ~(i <= Len(a) - 1)
    <3>1. i + 1 - Len(a) = i - (Len(a) - 1) /\ ~(i + 1 <= Len(a))
      BY <1>1, <2>5
    <3> QED
      BY <2>1, <2>2, <2>3, <2>5, <3>1
  <2> QED
    BY <2>4, <2>5
<1>8. Tail(a) \o r = Tail(a \o r)
  BY <1>5, <1>6, <1>7, SeqEqual
<1> QED
  BY <1>2, <1>3, <1>8

-----------------------------------------------------------------------------
(* Chains.                                                                 *)

\* The first signal of a chain, of whatever type, is of the description that
\* the rest follows.
LEMMA ChainTail ==
  ASSUME NEW s \in Seq(Every), s # <<>>, NEW r, Chained(r, s)
  PROVE  /\ Chained(Head(s).no, Tail(s))
         /\ LastNo(Head(s).no, Tail(s)) = LastNo(r, s)
         /\ Head(s).type = "candidate" => Head(s).no = r
<1>1. Len(s) \in Nat /\ Len(s) > 0 /\ Head(s) = s[1]
  BY HeadTailProperties
<1>2. Tail(s) \in Seq(Every) /\ Len(Tail(s)) = Len(s) - 1
      /\ \A i \in 1 .. Len(s) - 1 : Tail(s)[i] = s[i + 1]
  BY HeadTailProperties
<1>3. Chained(Head(s).no, Tail(s))
  <2> SUFFICES ASSUME NEW i \in 1 .. Len(s) - 1, Tail(s)[i].type = "candidate"
               PROVE  Tail(s)[i].no = IF i = 1 THEN Head(s).no
                                               ELSE Tail(s)[i - 1].no
    BY <1>2 DEF Chained
  <2>1. i + 1 \in 1 .. Len(s) /\ i + 1 # 1 /\ (i + 1) - 1 = i
    BY <1>1
  <2>2. s[i + 1].no = s[i].no
    BY <1>2, <2>1 DEF Chained
  <2>3. CASE i = 1
    BY <1>1, <1>2, <2>2, <2>3
  <2>4. CASE i # 1
    <3>1. i - 1 \in 1 .. Len(s) - 1 /\ (i - 1) + 1 = i
      BY <1>1, <2>4
    <3> QED
      BY <1>2, <2>2, <2>4, <3>1
  <2> QED
    BY <2>3, <2>4
<1>4. LastNo(Head(s).no, Tail(s)) = LastNo(r, s)
  <2>1. CASE Len(s) = 1
    <3>1. Tail(s) = <<>>
      <4>1. Len(Tail(s)) = 0
        BY <1>2, <2>1
      <4> QED
        BY <1>2, <4>1, EmptySeq
    <3> QED
      BY <1>1, <2>1, <3>1 DEF LastNo
  <2>2. CASE Len(s) # 1
    <3>1. Tail(s) # <<>> /\ Len(s) - 1 \in 1 .. Len(s) - 1
          /\ (Len(s) - 1) + 1 = Len(s)
      <4>1. Len(Tail(s)) # 0
        BY <1>1, <1>2, <2>2
      <4>2. Len(<<>>) = 0
        OBVIOUS
      <4>3. Tail(s) # <<>>
        BY <4>1, <4>2
      <4> QED
        BY <1>1, <2>2, <4>3
    <3> QED
      BY <1>2, <3>1 DEF LastNo
  <2> QED
    BY <2>1, <2>2
<1>5. Head(s).type = "candidate" => Head(s).no = r
  BY <1>1 DEF Chained
<1> QED
  BY <1>3, <1>4, <1>5

LEMMA ChainAppend ==
  ASSUME NEW s \in Seq(Every), NEW x \in Every, NEW r, Chained(r, s),
         x.type = "candidate" => x.no = LastNo(r, s)
  PROVE  Chained(r, Append(s, x)) /\ LastNo(r, Append(s, x)) = x.no
<1>1. Len(s) \in Nat
  OBVIOUS
<1>2. Len(Append(s, x)) = Len(s) + 1 /\ Append(s, x) # <<>>
      /\ Append(s, x)[Len(s) + 1] = x
      /\ \A i \in 1 .. Len(s) : Append(s, x)[i] = s[i]
  BY <1>1, AppendProperties
<1>3. ASSUME NEW i \in 1 .. Len(s) + 1, Append(s, x)[i].type = "candidate"
      PROVE  Append(s, x)[i].no = IF i = 1 THEN r ELSE Append(s, x)[i - 1].no
  <2>1. CASE i \in 1 .. Len(s)
    <3>1. i # 1 => i - 1 \in 1 .. Len(s)
      BY <1>1, <2>1
    <3> QED
      BY <1>2, <1>3, <2>1, <3>1 DEF Chained
  <2>2. CASE i = Len(s) + 1
    <3>1. x.no = LastNo(r, s) /\ Append(s, x)[i] = x
      BY <1>2, <1>3, <2>2
    <3>2. CASE s = <<>>
      BY <2>2, <3>1, <3>2 DEF LastNo
    <3>3. CASE s # <<>>
      <4>1. Len(s) \in 1 .. Len(s) /\ i # 1 /\ i - 1 = Len(s)
        BY <1>1, <2>2, <3>3, EmptySeq
      <4> QED
        BY <1>2, <3>1, <3>3, <4>1 DEF LastNo
    <3> QED
      BY <3>2, <3>3
  <2> QED
    BY <1>1, <2>1, <2>2
<1> QED
  BY <1>2, <1>3 DEF Chained, LastNo

\* Also when the rest of the line is lost.
LEMMA ChainCut ==
  ASSUME NEW a \in Seq(Every), NEW b \in Seq(Every), NEW r, Chained(r, a \o b)
  PROVE  Chained(r, a)
<1>1. Len(a) \in Nat /\ Len(b) \in Nat /\ Len(a \o b) = Len(a) + Len(b)
      /\ \A i \in 1 .. Len(a) : (a \o b)[i] = a[i]
  BY ConcatProperties
<1>2. ASSUME NEW i \in 1 .. Len(a), a[i].type = "candidate"
      PROVE  a[i].no = IF i = 1 THEN r ELSE a[i - 1].no
  <2>1. i \in 1 .. Len(a \o b) /\ (i # 1 => i - 1 \in 1 .. Len(a))
    BY <1>1
  <2> QED
    BY <1>1, <1>2, <2>1 DEF Chained
<1> QED
  BY <1>2 DEF Chained

-----------------------------------------------------------------------------
(* Types.                                                                  *)

LEMMA TypeInit == Init => TypeOK
<1> SUFFICES ASSUME Init PROVE TypeOK
  OBVIOUS
<1>1. <<>> \in Seq(Signals) /\ 0 \in 0 .. made /\ 0 \in 0 .. MaxCandidates
  BY BoundsAssumption DEF Init
<1> QED
  BY <1>1 DEF Init, TypeOK

\* A description that is made leaves the earlier signals what they are.
LEMMA SetLocalType ==
  ASSUME TypeOK, NEW p \in Peers, NEW type \in {"offer", "answer"},
         NEW state \in {"Stable", "HaveLocalOffer"},
         SetLocalDescription(p, type, state)
  PROVE  TypeOK'
<1>1. made' = made + 1 /\ made \in Nat
  BY DEF SetLocalDescription, TypeOK
<1>2. Signals \subseteq Signals' /\ 0 .. made \subseteq 0 .. made'
      /\ made' \in 0 .. made' /\ Signal(type, made') \in Signals'
  BY <1>1 DEF Signals, Signal
<1>3. Seq(Signals) \subseteq Seq(Signals')
  BY <1>2
<1>4. /\ events \in [Peers -> Seq(Signals')] /\ tasks \in [Peers -> Seq(Signals')]
      /\ wire \in [Peers -> Seq(Signals')] /\ batch \in [Peers -> Seq(Signals')]
      /\ local \in [Peers -> 0 .. made'] /\ remote \in [Peers -> 0 .. made']
  BY <1>2, <1>3 DEF TypeOK
<1>5. events' \in [Peers -> Seq(Signals')]
  <2> DEFINE x == Signal(type, made')
  <2>1. events' = [events EXCEPT ![p] = Append(@, x)] /\ x \in Signals'
    BY <1>2 DEF SetLocalDescription
  <2> HIDE DEF x
  <2>2. Append(events[p], x) \in Seq(Signals')
    BY <1>4, <2>1
  <2> QED
    BY <1>4, <2>1, <2>2
<1>6. local' \in [Peers -> 0 .. made']
  BY <1>2, <1>4 DEF SetLocalDescription
<1>7. /\ signaling' \in [Peers -> {"Stable", "HaveLocalOffer", "HaveRemoteOffer"}]
      /\ doing' \in [Peers -> {"idle", "offering", "answering"}]
      /\ UNCHANGED <<remote, started, tasks, batch, closed, wire, gathered, failed>>
  BY DEF SetLocalDescription, Return, TypeOK
<1> QED
  BY <1>1, <1>4, <1>5, <1>6, <1>7 DEF TypeOK

LEMMA TypeStep == TypeOK /\ [Next]_vars => TypeOK'
<1> SUFFICES ASSUME TypeOK, [Next]_vars PROVE TypeOK'
  OBVIOUS
<1> USE DEF TypeOK
<1>0. ASSUME made' = made PROVE Signals' = Signals
  BY <1>0 DEF Signals
<1>a. ASSUME NEW p \in Peers, wire[p] # <<>>
      PROVE  Head(wire[p]) \in Signals /\ Tail(wire[p]) \in Seq(Signals)
             /\ Head(wire[p]).no \in 0 .. made
  <2>1. wire[p] \in Seq(Signals)
    OBVIOUS
  <2>2. Head(wire[p]) \in Signals /\ Tail(wire[p]) \in Seq(Signals)
    BY <1>a, <2>1, HeadTailProperties
  <2> QED
    BY <2>2 DEF Signals
<1>1. ASSUME NEW p \in Peers, CreateOffer(p) \/ OfferIgnored(p) PROVE TypeOK'
  BY <1>0, <1>1 DEF CreateOffer, OfferIgnored, Return, libVars
<1>2. ASSUME NEW p \in Peers, SetLocalOffer(p) PROVE TypeOK'
  BY <1>2, SetLocalType DEF SetLocalOffer
<1>3. ASSUME NEW p \in Peers, SetLocalAnswer(p) PROVE TypeOK'
  BY <1>3, SetLocalType DEF SetLocalAnswer
<1>4. ASSUME NEW p \in Peers, OfferThrows(p) \/ AnswerThrows(p) PROVE TypeOK'
  BY <1>0, <1>4 DEF OfferThrows, AnswerThrows, Fail, Return, libVars
<1>5. ASSUME NEW p \in Peers, RemoteThrows(p) PROVE TypeOK'
  BY <1>0, <1>5, <1>a DEF RemoteThrows, Received, Fail, Return, libVars
<1>6. ASSUME NEW p \in Peers, SetRemoteOffer(p) PROVE TypeOK'
  BY <1>0, <1>6, <1>a DEF SetRemoteOffer, Received
<1>7. ASSUME NEW p \in Peers, SetRemoteAnswer(p) PROVE TypeOK'
  BY <1>0, <1>7, <1>a DEF SetRemoteAnswer, Received
<1>8. ASSUME NEW p \in Peers, AddIceCandidate(p) PROVE TypeOK'
  BY <1>0, <1>8, <1>a DEF AddIceCandidate, Received, libVars
<1>9. ASSUME NEW p \in Peers, QueueTask(p) PROVE TypeOK'
  <2>1. events[p] \in Seq(Signals) /\ events[p] # <<>>
    BY <1>9 DEF QueueTask
  <2>2. Head(events[p]) \in Signals /\ Tail(events[p]) \in Seq(Signals)
    BY <2>1, HeadTailProperties
  <2>3. Append(tasks[p], Head(events[p])) \in Seq(Signals)
    BY <2>2
  <2>4. tasks' \in [Peers -> Seq(Signals)] /\ events' \in [Peers -> Seq(Signals)]
    BY <1>9, <2>2, <2>3 DEF QueueTask
  <2> QED
    BY <1>0, <1>9, <2>4 DEF QueueTask
<1>10. ASSUME NEW p \in Peers, Poll(p) \/ EmitSignal(p) PROVE TypeOK'
  <2>1. /\ tasks[p] \in Seq(Signals) /\ batch[p] \in Seq(Signals)
        /\ wire[Other(p)] \in Seq(Signals) /\ Other(p) \in Peers
        /\ <<>> \in Seq(Signals)
    BY Pairs
  <2>2. \A s \in Seq(Signals) :
          s # <<>> => /\ Tail(s) \in Seq(Signals)
                      /\ Append(wire[Other(p)], Head(s)) \in Seq(Signals)
    BY <2>1, HeadTailProperties
  <2>3. /\ tasks' \in [Peers -> Seq(Signals)]
        /\ batch' \in [Peers -> Seq(Signals)]
        /\ wire' \in [Peers -> Seq(Signals)]
    <3>1. CASE Poll(p)
      BY <2>1, <2>2, <3>1 DEF Poll, Relay
    <3>2. CASE EmitSignal(p)
      BY <2>1, <2>2, <3>2 DEF EmitSignal, Relay
    <3> QED
      BY <1>10, <3>1, <3>2
  <2>4. UNCHANGED <<libVars, doing, closed, made, gathered, failed>>
    BY <1>10 DEF Poll, EmitSignal
  <2> QED
    BY <1>0, <2>3, <2>4 DEF libVars
<1>11. ASSUME NEW p \in Peers, Close(p) PROVE TypeOK'
  <2>1. <<>> \in Seq(Signals)
    OBVIOUS
  <2> QED
    BY <1>0, <1>11, <2>1 DEF Close, libVars
<1>12. ASSUME NEW p \in Peers, Gather(p) PROVE TypeOK'
  <2> DEFINE x == Signal("candidate", local[p])
  <2>1. x \in Signals
    BY <1>12 DEF Gather, Signal, Signals
  <2>2. events' = [events EXCEPT ![p] = Append(@, x)]
    BY <1>12 DEF Gather
  <2> HIDE DEF x
  <2>3. Append(events[p], x) \in Seq(Signals)
    BY <2>1
  <2>4. events' \in [Peers -> Seq(Signals)]
    BY <2>2, <2>3
  <2>5. gathered' \in 0 .. MaxCandidates
    BY <1>12, BoundsAssumption DEF Gather
  <2> QED
    BY <1>0, <1>12, <2>4, <2>5 DEF Gather, relayVars
<1>13. ASSUME NEW p \in Peers, Start(p) PROVE TypeOK'
  BY <1>0, <1>13 DEF Start, relayVars
<1>14. CASE UNCHANGED vars
  BY <1>0, <1>14 DEF vars, libVars, relayVars
<1> QED
  BY <1>1, <1>2, <1>3, <1>4, <1>5, <1>6, <1>7, <1>8, <1>9, <1>10, <1>11, <1>12,
     <1>13, <1>14 DEF Next, Finish, Receive

-----------------------------------------------------------------------------
(* What the steps do to the lines.                                         *)

\* The events that will still reach the callbacks' state.
Coming(o) == IF o \in closed THEN <<>> ELSE events[o]

LEMMA LineType ==
  ASSUME TypeOK, NEW p \in Peers
  PROVE  /\ wire[p] \in Seq(Every) /\ Waiting(Other(p)) \in Seq(Every)
         /\ tasks[Other(p)] \in Seq(Every) /\ batch[Other(p)] \in Seq(Every)
         /\ events[Other(p)] \in Seq(Every) /\ Coming(Other(p)) \in Seq(Every)
         /\ Line(p) = wire[p] \o (Waiting(Other(p)) \o Coming(Other(p)))
         /\ Line(p) \in Seq(Every)
         /\ made \in Nat
<1>1. made \in Nat /\ Signals \subseteq Every
  BY DEF TypeOK, Signals, Every
<1>2. Seq(Signals) \subseteq Seq(Every)
  BY <1>1
<1>3. /\ wire[p] \in Seq(Every) /\ tasks[Other(p)] \in Seq(Every)
      /\ batch[Other(p)] \in Seq(Every) /\ events[Other(p)] \in Seq(Every)
  BY <1>2, Pairs DEF TypeOK
<1>4. Coming(Other(p)) \in Seq(Every)
  <2>1. <<>> \in Seq(Every)
    OBVIOUS
  <2> QED
    BY <1>3, <2>1 DEF Coming
<1>5. Waiting(Other(p)) \in Seq(Every)
  BY <1>3, ConcatProperties DEF Waiting
<1>6. Line(p) = wire[p] \o (Waiting(Other(p)) \o Coming(Other(p)))
  BY DEF Line, Coming
<1>7. Line(p) \in Seq(Every)
  BY <1>3, <1>4, <1>5, <1>6, ConcatProperties
<1> QED
  BY <1>1, <1>3, <1>4, <1>5, <1>6, <1>7

LEMMA LineSame ==
  ASSUME UNCHANGED <<wire, tasks, batch, events, closed>>, NEW q \in Peers
  PROVE  Line(q)' = Line(q)
BY DEF Line, Waiting

\* Nothing waits when nothing is in either place.
LEMMA NoneWaiting ==
  ASSUME TypeOK, NEW p \in Peers
  PROVE  Waiting(p) = <<>> <=> batch[p] = <<>> /\ tasks[p] = <<>>
<1>1. batch[p] \in Seq(Every) /\ tasks[p] \in Seq(Every)
  <2>1. Other(p) \in Peers /\ Other(Other(p)) = p
    BY Pairs
  <2> QED
    BY <2>1, LineType
<1>2. /\ Waiting(p) \in Seq(Every)
      /\ Len(Waiting(p)) = Len(batch[p]) + Len(tasks[p])
      /\ Len(batch[p]) \in Nat /\ Len(tasks[p]) \in Nat
  BY <1>1, ConcatProperties DEF Waiting
<1>3. \A s \in Seq(Every) : s = <<>> <=> Len(s) = 0
  BY EmptySeq
<1>4. /\ Waiting(p) = <<>> <=> Len(Waiting(p)) = 0
      /\ batch[p] = <<>> <=> Len(batch[p]) = 0
      /\ tasks[p] = <<>> <=> Len(tasks[p]) = 0
  BY <1>1, <1>2, <1>3
<1>5. Len(Waiting(p)) = 0 <=> Len(batch[p]) = 0 /\ Len(tasks[p]) = 0
  <2>1. \A m, n \in Nat : m + n = 0 <=> m = 0 /\ n = 0
    OBVIOUS
  <2> QED
    BY <1>2, <2>1
<1> QED
  BY <1>4, <1>5

\* Whether it is the first of what a poll takes or one of the others, the
\* signal that a handler is given is the first of those that wait.
LEMMA Handing ==
  ASSUME TypeOK, NEW p \in Peers, Poll(p) \/ EmitSignal(p)
  PROVE  /\ Waiting(p) # <<>> /\ Waiting(p)' = Tail(Waiting(p))
         /\ wire'[Other(p)] = Append(wire[Other(p)], Head(Waiting(p)))
         /\ wire'[p] = wire[p] /\ Waiting(Other(p))' = Waiting(Other(p))
         /\ UNCHANGED <<libVars, doing, closed, made, gathered, failed>>
<1>0. Other(p) \in Peers /\ Other(p) # p /\ Other(Other(p)) = p
  BY Pairs
<1>1. tasks[p] \in Seq(Every) /\ batch[p] \in Seq(Every)
  BY <1>0, LineType
<1>2. CASE Poll(p)
  <2>1. /\ batch[p] = <<>> /\ tasks[p] # <<>>
        /\ batch'[p] = Tail(tasks[p]) /\ tasks'[p] = <<>>
        /\ batch'[Other(p)] = batch[Other(p)]
        /\ tasks'[Other(p)] = tasks[Other(p)]
        /\ wire'[Other(p)] = Append(wire[Other(p)], Head(tasks[p]))
        /\ wire'[p] = wire[p]
    BY <1>0, <1>2 DEF Poll, Relay, TypeOK
  <2>2. Tail(tasks[p]) \in Seq(Every)
    BY <1>1, <2>1, HeadTailProperties
  <2>3. <<>> \o tasks[p] = tasks[p] /\ Tail(tasks[p]) \o <<>> = Tail(tasks[p])
    BY <1>1, <2>2, ConcatEmptySeq
  <2>4. Waiting(p) = tasks[p] /\ Waiting(p)' = Tail(tasks[p])
        /\ Waiting(Other(p))' = Waiting(Other(p))
    BY <2>1, <2>3 DEF Waiting
  <2> QED
    BY <1>2, <2>1, <2>4 DEF Poll
<1>3. CASE EmitSignal(p)
  <2>1. /\ batch[p] # <<>> /\ tasks' = tasks
        /\ batch'[p] = Tail(batch[p]) /\ batch'[Other(p)] = batch[Other(p)]
        /\ wire'[Other(p)] = Append(wire[Other(p)], Head(batch[p]))
        /\ wire'[p] = wire[p]
    BY <1>0, <1>3 DEF EmitSignal, Relay, TypeOK
  <2>2. /\ batch[p] \o tasks[p] # <<>>
        /\ Head(batch[p] \o tasks[p]) = Head(batch[p])
        /\ Tail(batch[p]) \o tasks[p] = Tail(batch[p] \o tasks[p])
    BY <1>1, <2>1, AtTheFront
  <2>3. /\ Waiting(p) # <<>> /\ Head(Waiting(p)) = Head(batch[p])
        /\ Waiting(p)' = Tail(Waiting(p))
        /\ Waiting(Other(p))' = Waiting(Other(p))
    BY <2>1, <2>2 DEF Waiting
  <2> QED
    BY <1>3, <2>1, <2>3 DEF EmitSignal
<1> QED
  BY <1>2, <1>3

\* Callbacks and handlers only hand signals on.
LEMMA LineKept ==
  ASSUME TypeOK, NEW p \in Peers, QueueTask(p) \/ Poll(p) \/ EmitSignal(p),
         NEW q \in Peers
  PROVE  Line(q)' = Line(q)
<1>1. CASE q = p /\ QueueTask(p)
  <2>1. /\ wire'[p] = wire[p] /\ tasks'[Other(p)] = tasks[Other(p)]
        /\ batch'[Other(p)] = batch[Other(p)]
        /\ events'[Other(p)] = events[Other(p)] /\ closed' = closed
    BY <1>1, Pairs DEF QueueTask, TypeOK
  <2> QED
    BY <1>1, <2>1 DEF Line, Waiting
<1>2. CASE q = Other(p) /\ QueueTask(p)
  <2>0. Other(q) = p /\ wire' = wire /\ closed' = closed /\ batch' = batch
    BY <1>2, Pairs DEF QueueTask
  <2>1. CASE p \in closed
    <3>1. tasks' = tasks
      BY <1>2, <2>1 DEF QueueTask
    <3> QED
      BY <2>0, <2>1, <3>1 DEF Line, Waiting
  <2>2. CASE p \notin closed
    <3>1. /\ tasks'[p] = Append(tasks[p], Head(events[p]))
          /\ events'[p] = Tail(events[p]) /\ events[p] # <<>>
      BY <1>2, <2>2 DEF QueueTask, TypeOK
    <3>2. /\ tasks[p] \in Seq(Every) /\ events[p] \in Seq(Every)
          /\ batch[p] \in Seq(Every) /\ <<>> \in Seq(Every)
      <4>1. <<>> \in Seq(Every)
        OBVIOUS
      <4>2. q \in Peers
        OBVIOUS
      <4> QED
        BY <2>0, <4>1, <4>2, LineType
    <3>3. Head(events[p]) \in Every /\ Tail(events[p]) \in Seq(Every)
      BY <3>1, <3>2, HeadTailProperties
    <3>4. Append(tasks[p], Head(events[p])) \o Tail(events[p])
            = tasks[p] \o events[p]
      <4>1. Append(tasks[p], Head(events[p])) \o (Tail(events[p]) \o <<>>)
              = tasks[p] \o (events[p] \o <<>>)
        BY <3>1, <3>2, <3>3, HandOver
      <4>2. Tail(events[p]) \o <<>> = Tail(events[p])
            /\ events[p] \o <<>> = events[p]
        BY <3>2, <3>3, ConcatEmptySeq
      <4> QED
        BY <4>1, <4>2
    <3>5. (batch[p] \o Append(tasks[p], Head(events[p]))) \o Tail(events[p])
            = (batch[p] \o tasks[p]) \o events[p]
      <4>1. Append(tasks[p], Head(events[p])) \in Seq(Every)
        BY <3>2, <3>3, AppendProperties
      <4>2. (batch[p] \o Append(tasks[p], Head(events[p]))) \o Tail(events[p])
              = batch[p] \o (Append(tasks[p], Head(events[p])) \o Tail(events[p]))
        BY <3>2, <3>3, <4>1, Associative
      <4>3. (batch[p] \o tasks[p]) \o events[p]
              = batch[p] \o (tasks[p] \o events[p])
        BY <3>2, Associative
      <4> QED
        BY <3>4, <4>2, <4>3
    <3> QED
      BY <2>0, <2>2, <3>1, <3>5 DEF Line, Waiting
  <2> QED
    BY <2>1, <2>2
<1>3. CASE q = p /\ (Poll(p) \/ EmitSignal(p))
  <2>1. /\ wire'[p] = wire[p] /\ Waiting(Other(p))' = Waiting(Other(p))
        /\ events' = events /\ closed' = closed
    BY <1>3, Handing DEF libVars
  <2> QED
    BY <1>3, <2>1 DEF Line
<1>4. CASE q = Other(p) /\ (Poll(p) \/ EmitSignal(p))
  <2>0. /\ Other(q) = p /\ UNCHANGED <<events, closed>>
        /\ wire'[q] = Append(wire[q], Head(Waiting(p)))
        /\ Waiting(p)' = Tail(Waiting(p)) /\ Waiting(p) # <<>>
    BY <1>4, Pairs, Handing DEF libVars
  <2>1. /\ wire[q] \in Seq(Every) /\ Waiting(p) \in Seq(Every)
        /\ Coming(p) \in Seq(Every) /\ Coming(p)' = Coming(p)
    BY <2>0, LineType DEF Coming
  <2>2. Append(wire[q], Head(Waiting(p))) \o (Tail(Waiting(p)) \o Coming(p))
          = wire[q] \o (Waiting(p) \o Coming(p))
    BY <2>0, <2>1, HandOver
  <2> QED
    BY <2>0, <2>1, <2>2 DEF Line, Coming
<1> QED
  BY <1>1, <1>2, <1>3, <1>4, Pairs

\* The script is handed the first signal of its line.
LEMMA LineTaken ==
  ASSUME TypeOK, NEW p \in Peers, wire[p] # <<>>,
         wire' = [wire EXCEPT ![p] = Tail(@)], UNCHANGED <<tasks, batch, events, closed>>
  PROVE  /\ Line(p) # <<>> /\ Head(Line(p)) = Head(wire[p])
         /\ Line(p)' = Tail(Line(p)) /\ Line(Other(p))' = Line(Other(p))
<1>1. wire'[p] = Tail(wire[p]) /\ wire'[Other(p)] = wire[Other(p)]
  BY Pairs DEF TypeOK
<1>2. Waiting(Other(p)) \o Coming(Other(p)) \in Seq(Every)
  BY LineType, ConcatProperties
<1>3. Line(p) # <<>> /\ Head(Line(p)) = Head(wire[p])
      /\ Tail(wire[p]) \o (Waiting(Other(p)) \o Coming(Other(p))) = Tail(Line(p))
  <2>1. wire[p] \in Seq(Every)
        /\ Line(p) = wire[p] \o (Waiting(Other(p)) \o Coming(Other(p)))
    BY LineType
  <2> QED
    BY <1>2, <2>1, AtTheFront
<1>4. Line(p)' = Tail(wire[p]) \o (Waiting(Other(p)) \o Coming(Other(p)))
  BY <1>1 DEF Line, Coming, Waiting
<1> QED
  BY <1>1, <1>3, <1>4 DEF Line, Waiting

\* The library reports something.
LEMMA LineGrown ==
  ASSUME TypeOK, NEW p \in Peers, NEW x \in Every,
         events' = [events EXCEPT ![p] = Append(@, x)],
         UNCHANGED <<tasks, batch, wire, closed>>
  PROVE  /\ Line(p)' = Line(p)
         /\ Line(Other(p))' = IF p \in closed THEN Line(Other(p))
                                             ELSE Append(Line(Other(p)), x)
<1>1. Other(p) \in Peers /\ Other(Other(p)) = p
      /\ events'[p] = Append(events[p], x) /\ events'[Other(p)] = events[Other(p)]
  BY Pairs DEF TypeOK
<1>2. Line(p)' = Line(p)
  BY <1>1 DEF Line, Waiting
<1>3. CASE p \in closed
  BY <1>1, <1>2, <1>3 DEF Line, Waiting
<1>4. CASE p \notin closed
  <2>1. /\ wire[Other(p)] \in Seq(Every) /\ Waiting(p) \in Seq(Every)
        /\ events[p] \in Seq(Every)
    BY <1>1, LineType
  <2>2. wire[Other(p)] \o (Waiting(p) \o Append(events[p], x))
          = Append(wire[Other(p)] \o (Waiting(p) \o events[p]), x)
    BY <2>1, AtTheEnd
  <2> QED
    BY <1>1, <1>2, <1>4, <2>2 DEF Line, Waiting
<1> QED
  BY <1>3, <1>4

\* _close drops what no poll has taken yet.
LEMMA LineCut ==
  ASSUME TypeOK, NEW p \in Peers, Close(p)
  PROVE  /\ Line(p)' = Line(p)
         /\ Line(Other(p))' = wire[Other(p)] \o batch[p]
         /\ wire[Other(p)] \o batch[p] \in Seq(Every)
         /\ \E b \in Seq(Every) :
              Line(Other(p)) = (wire[Other(p)] \o batch[p]) \o b
<1>1. /\ Other(p) \in Peers /\ Other(Other(p)) = p /\ Other(p) # p
      /\ UNCHANGED <<wire, batch, events>> /\ tasks'[p] = <<>>
      /\ tasks'[Other(p)] = tasks[Other(p)]
      /\ p \in closed' /\ (Other(p) \in closed' <=> Other(p) \in closed)
  BY Pairs DEF Close, libVars, TypeOK
<1>2. Line(p)' = Line(p)
  BY <1>1 DEF Line, Waiting
<1>3. /\ wire[Other(p)] \in Seq(Every) /\ batch[p] \in Seq(Every)
      /\ tasks[p] \in Seq(Every) /\ Coming(p) \in Seq(Every)
      /\ Line(Other(p)) = wire[Other(p)] \o (Waiting(p) \o Coming(p))
  BY <1>1, LineType
<1>4. tasks[p] \o Coming(p) \in Seq(Every)
      /\ wire[Other(p)] \o batch[p] \in Seq(Every)
  BY <1>3, ConcatProperties
<1>5. Line(Other(p)) = (wire[Other(p)] \o batch[p]) \o (tasks[p] \o Coming(p))
  <2>1. Waiting(p) \o Coming(p) = batch[p] \o (tasks[p] \o Coming(p))
    BY <1>3, Associative DEF Waiting
  <2>2. wire[Other(p)] \o (batch[p] \o (tasks[p] \o Coming(p)))
          = (wire[Other(p)] \o batch[p]) \o (tasks[p] \o Coming(p))
    BY <1>3, <1>4, Associative
  <2> QED
    BY <1>3, <2>1, <2>2
<1>6. Line(Other(p))' = wire[Other(p)] \o batch[p]
  <2>1. Line(Other(p))' = wire[Other(p)] \o ((batch[p] \o <<>>) \o <<>>)
    BY <1>1 DEF Line, Waiting
  <2>2. batch[p] \o <<>> = batch[p]
    BY <1>3, ConcatEmptySeq
  <2> QED
    BY <2>1, <2>2
<1> QED
  BY <1>2, <1>4, <1>5, <1>6

-----------------------------------------------------------------------------
(* The parts of the invariant, step by step.                               *)

Parts(p) == Following(p) /\ Fresh(p) /\ Answered(p) /\ Pending(p)

\* What makes each part of q's hold on.
LEMMA FollowingKept ==
  ASSUME NEW q \in Peers, Following(q), Line(q)' = Line(q),
         remote'[q] = remote[q],
         local'[Other(q)] = local[Other(q)] \/ local'[Other(q)] = 0,
         failed \subseteq failed', closed \subseteq closed'
  PROVE  Following(q)'
BY DEF Following

LEMMA PendingKept ==
  ASSUME NEW q \in Peers, Pending(q), Line(q)' = Line(q),
         Line(Other(q))' = Line(Other(q)),
         signaling'[q] = signaling[q],
         doing[Other(q)] = "answering" => doing'[Other(q)] = "answering"
                                          \/ failed' # {},
         failed \subseteq failed', closed \subseteq closed'
  PROVE  Pending(q)'
BY DEF Pending, Sent

\* Steps that only hand signals on, or end or begin a method.
LEMMA KeepingSteps ==
  ASSUME TypeOK, \A q \in Peers : Parts(q), NEW p \in Peers,
         \/ CreateOffer(p) \/ OfferIgnored(p) \/ OfferThrows(p)
         \/ AnswerThrows(p) \/ Start(p)
         \/ QueueTask(p) \/ Poll(p) \/ EmitSignal(p),
         NEW q \in Peers
  PROVE  Parts(q)'
<1>1. \A z \in Peers : Line(z)' = Line(z)
  BY LineKept, LineSame DEF CreateOffer, OfferIgnored, OfferThrows, AnswerThrows,
     Fail, Return, Start, libVars, relayVars
<1>2. /\ UNCHANGED <<signaling, local, remote, closed>>
      /\ failed \subseteq failed'
  BY DEF CreateOffer, OfferIgnored, OfferThrows, AnswerThrows, Fail, Return,
     Start, QueueTask, Poll, EmitSignal, libVars, relayVars
<1>3. \A z \in Peers :
        doing[z] = "answering" => doing'[z] = "answering" \/ z \in failed'
  BY DEF CreateOffer, OfferIgnored, OfferThrows, AnswerThrows, Fail, Return,
     Start, QueueTask, Poll, EmitSignal, libVars, relayVars, TypeOK
<1>4. Other(q) \in Peers /\ Other(q) # q /\ Other(Other(q)) = q
      /\ (q = p \/ q = Other(p))
  BY Pairs
<1>5. Following(q)'
  BY <1>1, <1>2, FollowingKept DEF Parts
<1>6. Fresh(q)'
  <2>1. CASE wire'[Other(q)] = wire[Other(q)] /\ Waiting(q)' = Waiting(q)
             /\ events'[q] = events[q]
    BY <1>2, <1>3, <2>1 DEF Parts, Fresh, Waiting
  <2>2. CASE Waiting(q) # <<>> \/ events[q] # <<>>
    BY <1>2, <1>3, <2>2 DEF Parts, Fresh, Waiting
  <2> QED
    <3>1. CASE QueueTask(p)
      <4>1. CASE q = p
        BY <2>2, <3>1, <4>1 DEF QueueTask
      <4>2. CASE q # p
        <5>1. /\ wire' = wire /\ tasks'[q] = tasks[q] /\ batch'[q] = batch[q]
              /\ events'[q] = events[q]
          BY <3>1, <4>2 DEF QueueTask, TypeOK
        <5> QED
          BY <2>1, <5>1 DEF Waiting
      <4> QED
        BY <4>1, <4>2
    <3>2. CASE Poll(p) \/ EmitSignal(p)
      <4>1. CASE q = p
        <5>1. Waiting(p) # <<>>
          BY <3>2, Handing
        <5> QED
          BY <2>2, <4>1, <5>1
      <4>2. CASE q # p
        <5>1. /\ wire'[p] = wire[p] /\ events' = events
              /\ Waiting(Other(p))' = Waiting(Other(p))
          BY <3>2, Handing DEF libVars
        <5>2. q = Other(p) /\ Other(q) = p
          BY <1>4, <4>2, Pairs
        <5> QED
          BY <2>1, <5>1, <5>2
      <4> QED
        BY <4>1, <4>2
    <3>3. ASSUME UNCHANGED <<wire, tasks, batch, events>> PROVE Fresh(q)'
      BY <2>1, <3>3 DEF Waiting
    <3> QED
      BY <3>1, <3>2, <3>3 DEF CreateOffer, OfferIgnored, OfferThrows,
         AnswerThrows, Fail, Return, Start, libVars, relayVars
<1>7. Answered(q)'
  BY <1>2, <1>3 DEF Parts, Answered
<1>8. Pending(q)'
  BY <1>1, <1>2, <1>3, <1>4, PendingKept DEF Parts
<1> QED
  BY <1>5, <1>6, <1>7, <1>8 DEF Parts

\* Steps in which the script takes a signal and passes it to the library.
LEMMA ReceivingSteps ==
  ASSUME TypeOK, \A q \in Peers : Parts(q), NEW p \in Peers,
         SetRemoteOffer(p) \/ SetRemoteAnswer(p) \/ AddIceCandidate(p)
  PROVE  \A q \in Peers : Parts(q)'
<1> DEFINE o == Other(p)
           x == Head(wire[p])
<1>0. /\ o \in Peers /\ o # p /\ Other(o) = p /\ \A q \in Peers : q = p \/ q = o
  BY Pairs
<1>1. /\ wire[p] # <<>> /\ wire' = [wire EXCEPT ![p] = Tail(@)]
      /\ UNCHANGED <<tasks, batch, events, closed, failed>> /\ p \notin closed
  BY DEF SetRemoteOffer, SetRemoteAnswer, AddIceCandidate, Received, libVars
<1>2. /\ Line(p) # <<>> /\ Head(Line(p)) = x /\ Line(p)' = Tail(Line(p))
      /\ Line(o)' = Line(o)
  BY <1>1, LineTaken
<1>3. Line(p) \in Seq(Every)
  BY LineType
<1>4. /\ x.type # "candidate" => remote'[p] = x.no
      /\ x.type = "candidate" => remote'[p] = remote[p]
      /\ remote'[o] = remote[o] /\ local'[o] = local[o]
      /\ local'[p] = local[p] \/ (local'[p] = 0 /\ doing'[p] = "answering")
      /\ doing'[o] = doing[o] /\ doing[p] = "idle"
      /\ signaling'[o] = signaling[o]
      /\ wire'[o] = wire[o]
  BY <1>0, <1>1 DEF SetRemoteOffer, SetRemoteAnswer, AddIceCandidate, Received,
     libVars, TypeOK
<1>5. ASSUME NEW type, Sent(p, type), x.type # type PROVE Sent(p, type)'
  <2>1. PICK i \in 1 .. Len(Line(p)) : Line(p)[i].type = type
    BY <1>5 DEF Sent
  <2>2. Len(Line(p)) \in Nat /\ Head(Line(p)) = Line(p)[1] /\ i # 1
    BY <1>2, <1>3, <1>5, <2>1
  <2>3. /\ Len(Tail(Line(p))) = Len(Line(p)) - 1
        /\ \A j \in 1 .. Len(Line(p)) - 1 : Tail(Line(p))[j] = Line(p)[j + 1]
    BY <1>2, <1>3, HeadTailProperties
  <2>4. i - 1 \in 1 .. Len(Line(p)) - 1 /\ (i - 1) + 1 = i
    BY <2>1, <2>2
  <2>5. i - 1 \in 1 .. Len(Tail(Line(p))) /\ Tail(Line(p))[i - 1].type = type
    BY <2>1, <2>3, <2>4
  <2> QED
    BY <1>2, <2>5 DEF Sent
<1> HIDE DEF o, x
<1>6. Following(p)'
  <2> SUFFICES ASSUME p \notin failed
               PROVE  /\ Chained(remote'[p], Tail(Line(p)))
                      /\ o \notin closed /\ local[o] # 0 =>
                           local[o] = LastNo(remote'[p], Tail(Line(p)))
    BY <1>1, <1>2, <1>4 DEF Following, o
  <2>1. /\ Chained(remote[p], Line(p))
        /\ o \notin closed /\ local[o] # 0 =>
             local[o] = LastNo(remote[p], Line(p))
    BY <1>1 DEF Parts, Following, o
  <2>2. /\ Chained(x.no, Tail(Line(p)))
        /\ LastNo(x.no, Tail(Line(p))) = LastNo(remote[p], Line(p))
        /\ x.type = "candidate" => x.no = remote[p]
    BY <1>2, <1>3, <2>1, ChainTail
  <2>3. remote'[p] = x.no
    BY <1>4, <2>2
  <2> QED
    BY <2>1, <2>2, <2>3
<1>7. Following(o)'
  BY <1>0, <1>1, <1>2, <1>4, FollowingKept DEF Parts
<1>8. Fresh(p)'
  <2>1. ASSUME local'[p] = 0, doing'[p] # "answering", p \notin failed
        PROVE  local[p] = 0 /\ doing[p] # "answering"
    BY <1>4, <2>1
  <2> QED
    BY <1>1, <1>4, <2>1 DEF Parts, Fresh, Waiting, o
<1>9. Fresh(o)'
  BY <1>0, <1>1, <1>4 DEF Parts, Fresh, Waiting
<1>10. Answered(p)' /\ Answered(o)'
  BY <1>0, <1>1, <1>4 DEF SetRemoteOffer, SetRemoteAnswer, AddIceCandidate,
     libVars, TypeOK, Parts, Answered
<1>11. Pending(p)'
  <2>1. CASE SetRemoteOffer(p) \/ SetRemoteAnswer(p)
    BY <2>1 DEF SetRemoteOffer, SetRemoteAnswer, TypeOK, Pending
  <2>2. CASE AddIceCandidate(p)
    <3>1. x.type = "candidate" /\ UNCHANGED <<signaling, doing>>
      BY <2>2 DEF AddIceCandidate, Received, libVars, x
    <3>2. Sent(p, "answer") => Sent(p, "answer")'
      BY <1>5, <3>1
    <3>3. Sent(o, "offer") => Sent(o, "offer")'
      BY <1>2 DEF Sent
    <3> QED
      BY <1>1, <3>1, <3>2, <3>3 DEF Parts, Pending, o
  <2> QED
    BY <2>1, <2>2
<1>12. Pending(o)'
  <2>1. Sent(o, "answer") => Sent(o, "answer")'
    BY <1>2 DEF Sent
  <2>2. Sent(p, "offer") => Sent(p, "offer")' \/ doing'[p] = "answering"
    <3>1. CASE x.type # "offer"
      BY <1>5, <3>1
    <3>2. CASE x.type = "offer"
      BY <3>2 DEF SetRemoteOffer, SetRemoteAnswer, AddIceCandidate, Received,
         TypeOK, x
    <3> QED
      BY <3>1, <3>2
  <2> QED
    BY <1>0, <1>1, <1>4, <2>1, <2>2 DEF Parts, Pending
<1> QED
  BY <1>0, <1>6, <1>7, <1>8, <1>9, <1>10, <1>11, <1>12 DEF Parts

\* A script that is told that the library refused a signal.
LEMMA RefusingStep ==
  ASSUME TypeOK, \A q \in Peers : Parts(q), NEW p \in Peers, RemoteThrows(p)
  PROVE  \A q \in Peers : Parts(q)'
<1> DEFINE o == Other(p)
<1>0. /\ o \in Peers /\ o # p /\ Other(o) = p /\ \A q \in Peers : q = p \/ q = o
  BY Pairs
<1>1. /\ wire[p] # <<>> /\ wire' = [wire EXCEPT ![p] = Tail(@)]
      /\ UNCHANGED <<signaling, local, remote, events, tasks, batch, closed>>
      /\ failed' = failed \union {p} /\ doing' = [doing EXCEPT ![p] = "idle"]
  BY DEF RemoteThrows, Received, Fail, Return, libVars
<1>2. Line(o)' = Line(o)
  BY <1>1, LineTaken
<1> HIDE DEF o
<1>3. Following(p)' /\ Fresh(p)' /\ Answered(p)'
  BY <1>1 DEF Following, Fresh, Answered, Waiting
<1>4. Following(o)'
  BY <1>0, <1>1, <1>2, FollowingKept DEF Parts
<1>5. Fresh(o)'
  BY <1>0, <1>1 DEF Parts, Fresh, Waiting, TypeOK
<1>6. Answered(o)'
  BY <1>0, <1>1 DEF Parts, Answered, TypeOK
<1>7. Pending(p)' /\ Pending(o)'
  BY <1>1 DEF Pending
<1> QED
  BY <1>0, <1>3, <1>4, <1>5, <1>6, <1>7 DEF Parts

\* A description that is made follows whatever is on its way.
LEMMA DescribingSteps ==
  ASSUME TypeOK, \A q \in Peers : Parts(q), NEW p \in Peers,
         SetLocalOffer(p) \/ SetLocalAnswer(p)
  PROVE  \A q \in Peers : Parts(q)'
<1> DEFINE o == Other(p)
<1>0. /\ o \in Peers /\ o # p /\ Other(o) = p /\ \A q \in Peers : q = p \/ q = o
  BY Pairs
<1>1. PICK x \in Every :
        /\ x.type \in {"offer", "answer"} /\ x.no = made + 1
        /\ events' = [events EXCEPT ![p] = Append(@, x)]
        /\ SetLocalOffer(p) => x.type = "offer"
        /\ SetLocalAnswer(p) => x.type = "answer"
  <2>1. made + 1 \in Nat /\ made' = made + 1
    BY DEF SetLocalOffer, SetLocalAnswer, SetLocalDescription, TypeOK
  <2>2. CASE SetLocalOffer(p)
    <3>1. /\ Signal("offer", made') \in Every
          /\ Signal("offer", made').type = "offer"
          /\ Signal("offer", made').no = made + 1
          /\ events' = [events EXCEPT ![p] = Append(@, Signal("offer", made'))]
      BY <2>1, <2>2 DEF SetLocalOffer, SetLocalDescription, Signal, Every
    <3>2. ~SetLocalAnswer(p)
      BY <2>2 DEF SetLocalOffer, SetLocalAnswer
    <3> QED
      BY <3>1, <3>2
  <2>3. CASE SetLocalAnswer(p)
    <3>1. /\ Signal("answer", made') \in Every
          /\ Signal("answer", made').type = "answer"
          /\ Signal("answer", made').no = made + 1
          /\ events' = [events EXCEPT ![p] = Append(@, Signal("answer", made'))]
      BY <2>1, <2>3 DEF SetLocalAnswer, SetLocalDescription, Signal, Every
    <3>2. ~SetLocalOffer(p)
      BY <2>3 DEF SetLocalOffer, SetLocalAnswer
    <3> QED
      BY <3>1, <3>2
  <2> QED
    BY <2>2, <2>3
<1>2. /\ UNCHANGED <<remote, tasks, batch, closed, wire, failed>>
      /\ local' = [local EXCEPT ![p] = made + 1]
      /\ doing' = [doing EXCEPT ![p] = "idle"]
      /\ made \in Nat /\ made + 1 # 0
      /\ SetLocalOffer(p) => signaling' = [signaling EXCEPT ![p] = "HaveLocalOffer"]
                             /\ doing[p] = "offering"
      /\ SetLocalAnswer(p) => signaling' = [signaling EXCEPT ![p] = "Stable"]
  BY DEF SetLocalOffer, SetLocalAnswer, SetLocalDescription, Return, TypeOK
<1>3. /\ Line(p)' = Line(p)
      /\ Line(o)' = IF p \in closed THEN Line(o) ELSE Append(Line(o), x)
  BY <1>1, <1>2, LineGrown
<1>4. Line(o) \in Seq(Every)
  BY <1>0, LineType
<1> HIDE DEF o
<1>5. Following(p)'
  <2>1. local'[Other(p)] = local[Other(p)]
    BY <1>0, <1>2 DEF TypeOK, o
  <2> QED
    BY <1>2, <1>3, <2>1, FollowingKept DEF Parts
<1>6. Following(o)'
  <2> SUFFICES ASSUME o \notin failed, o \notin closed
               PROVE  /\ Chained(remote[o], Line(o)')
                      /\ p \notin closed =>
                           local'[p] = LastNo(remote[o], Line(o)')
    BY <1>0, <1>2 DEF Following
  <2>1. Chained(remote[o], Line(o))
    BY <1>0 DEF Parts, Following
  <2>2. CASE p \in closed
    BY <1>3, <2>1, <2>2
  <2>3. CASE p \notin closed
    <3>1. /\ Chained(remote[o], Append(Line(o), x))
          /\ LastNo(remote[o], Append(Line(o), x)) = x.no
      BY <1>1, <1>4, <2>1, ChainAppend
    <3>2. local'[p] = x.no
      BY <1>1, <1>2 DEF TypeOK
    <3> QED
      BY <1>3, <2>3, <3>1, <3>2
  <2> QED
    BY <2>2, <2>3
<1>7. Fresh(p)'
  <2>1. local'[p] # 0
    BY <1>2 DEF TypeOK
  <2> QED
    BY <2>1 DEF Fresh
<1>8. Fresh(o)'
  <2>1. local'[o] = local[o] /\ doing'[o] = doing[o] /\ events'[o] = events[o]
    BY <1>0, <1>1, <1>2 DEF TypeOK
  <2> QED
    BY <1>0, <1>2, <2>1 DEF Parts, Fresh, Waiting
<1>9. Answered(p)' /\ Answered(o)'
  <2>1. signaling'[p] # "HaveRemoteOffer"
        /\ signaling'[o] = signaling[o] /\ doing'[o] = doing[o]
    BY <1>0, <1>2 DEF TypeOK
  <2> QED
    BY <1>0, <1>2, <2>1 DEF Parts, Answered
<1>10. ASSUME p \notin closed PROVE Sent(o, x.type)'
  <2>1. /\ Len(Append(Line(o), x)) = Len(Line(o)) + 1 /\ Len(Line(o)) \in Nat
        /\ Append(Line(o), x)[Len(Line(o)) + 1] = x
    BY <1>4, AppendProperties
  <2>2. Len(Line(o)) + 1 \in 1 .. Len(Append(Line(o), x))
    BY <2>1
  <2>3. Line(o)' = Append(Line(o), x)
    BY <1>3, <1>10
  <2> QED
    BY <2>1, <2>2, <2>3 DEF Sent
<1>11. ASSUME NEW type, Sent(o, type) PROVE Sent(o, type)'
  <2>1. PICK i \in 1 .. Len(Line(o)) : Line(o)[i].type = type
    BY <1>11 DEF Sent
  <2>2. i \in 1 .. Len(Append(Line(o), x)) /\ Append(Line(o), x)[i] = Line(o)[i]
    BY <1>4, <2>1, AppendProperties
  <2> QED
    BY <1>3, <2>1, <2>2 DEF Sent
<1>12. Pending(p)'
  <2>1. CASE SetLocalOffer(p)
    BY <1>1, <1>2, <1>10, <2>1 DEF Pending, o
  <2>2. CASE SetLocalAnswer(p)
    <3>1. signaling'[p] = "Stable"
      BY <1>2, <2>2 DEF TypeOK
    <3> QED
      BY <3>1 DEF Pending
  <2> QED
    BY <2>1, <2>2
<1>13. Pending(o)'
  <2> SUFFICES ASSUME signaling'[o] = "HaveLocalOffer",
                      (failed \union closed)' = {}
               PROVE  Sent(p, "offer")' \/ doing'[p] = "answering"
                      \/ Sent(o, "answer")'
    BY <1>0 DEF Pending
  <2>1. signaling[o] = "HaveLocalOffer" /\ failed \union closed = {}
    BY <1>0, <1>2 DEF TypeOK
  <2>2. Sent(p, "offer") \/ doing[p] = "answering" \/ Sent(o, "answer")
    BY <1>0, <2>1 DEF Parts, Pending
  <2>3. Sent(p, "offer") => Sent(p, "offer")'
    BY <1>3 DEF Sent
  <2>4. doing[p] = "answering" => Sent(o, "answer")'
    <3>1. doing[p] = "answering" => SetLocalAnswer(p)
      BY <1>2
    <3> QED
      BY <1>1, <1>10, <2>1, <3>1
  <2> QED
    BY <1>11, <2>2, <2>3, <2>4
<1> QED
  BY <1>0, <1>5, <1>6, <1>7, <1>8, <1>9, <1>12, <1>13 DEF Parts

\* A candidate is of the description that was made last.
LEMMA GatheringStep ==
  ASSUME TypeOK, \A q \in Peers : Parts(q), NEW p \in Peers, Gather(p)
  PROVE  \A q \in Peers : Parts(q)'
<1> DEFINE o == Other(p)
           x == Signal("candidate", local[p])
<1>0. /\ o \in Peers /\ o # p /\ Other(o) = p /\ \A q \in Peers : q = p \/ q = o
  BY Pairs
<1>1. /\ x \in Every /\ x.type = "candidate" /\ x.no = local[p] /\ local[p] # 0
      /\ events' = [events EXCEPT ![p] = Append(@, x)] /\ p \notin closed
  BY DEF Gather, Signal, Every, TypeOK
<1>2. UNCHANGED <<signaling, local, remote, tasks, batch, wire, doing, closed,
                  failed>>
  BY DEF Gather, relayVars
<1> HIDE DEF x
<1>3. Line(p)' = Line(p) /\ Line(o)' = Append(Line(o), x)
  BY <1>1, <1>2, LineGrown
<1>4. Line(o) \in Seq(Every)
  BY <1>0, LineType
<1> HIDE DEF o
<1>5. Following(p)'
  BY <1>2, <1>3, FollowingKept DEF Parts
<1>6. Following(o)'
  <2> SUFFICES ASSUME o \notin failed, o \notin closed
               PROVE  /\ Chained(remote[o], Append(Line(o), x))
                      /\ local[p] = LastNo(remote[o], Append(Line(o), x))
    BY <1>0, <1>2, <1>3 DEF Following
  <2>1. Chained(remote[o], Line(o)) /\ local[p] = LastNo(remote[o], Line(o))
    BY <1>0, <1>1 DEF Parts, Following
  <2> QED
    BY <1>1, <1>4, <2>1, ChainAppend
<1>7. Fresh(p)'
  BY <1>1, <1>2 DEF Fresh
<1>8. Fresh(o)'
  <2>1. events'[o] = events[o]
    BY <1>0, <1>1 DEF TypeOK
  <2> QED
    BY <1>0, <1>2, <2>1 DEF Parts, Fresh, Waiting
<1>9. Answered(p)' /\ Answered(o)'
  BY <1>0, <1>2 DEF Parts, Answered
<1>10. ASSUME NEW type, Sent(o, type) PROVE Sent(o, type)'
  <2>1. PICK i \in 1 .. Len(Line(o)) : Line(o)[i].type = type
    BY <1>10 DEF Sent
  <2>2. i \in 1 .. Len(Append(Line(o), x)) /\ Append(Line(o), x)[i] = Line(o)[i]
    BY <1>1, <1>4, <2>1, AppendProperties
  <2> QED
    BY <1>3, <2>1, <2>2 DEF Sent
<1>11. ASSUME NEW type, Sent(p, type) PROVE Sent(p, type)'
  BY <1>3, <1>11 DEF Sent
<1>12. Pending(p)' /\ Pending(o)'
  BY <1>0, <1>2, <1>10, <1>11 DEF Parts, Pending, o
<1> QED
  BY <1>0, <1>5, <1>6, <1>7, <1>8, <1>9, <1>12 DEF Parts

LEMMA ClosingStep ==
  ASSUME TypeOK, \A q \in Peers : Parts(q), NEW p \in Peers, Close(p)
  PROVE  \A q \in Peers : Parts(q)'
<1> DEFINE o == Other(p)
<1>0. /\ o \in Peers /\ o # p /\ Other(o) = p /\ \A q \in Peers : q = p \/ q = o
  BY Pairs
<1>1. /\ UNCHANGED <<signaling, local, remote, events, wire, doing, failed>>
      /\ closed' = closed \union {p} /\ tasks' = [tasks EXCEPT ![p] = <<>>]
      /\ batch' = batch
  BY DEF Close, libVars
<1> DEFINE cut == wire[o] \o batch[p]
<1>2. Line(o)' = cut /\ cut \in Seq(Every)
  BY <1>0, LineCut
<1>3. PICK b \in Seq(Every) : Line(o) = cut \o b
  BY LineCut
<1> HIDE DEF o, cut
<1>4. Following(p)'
  BY <1>1 DEF Following
<1>5. Following(o)'
  <2> SUFFICES ASSUME o \notin failed, o \notin closed
               PROVE  Chained(remote[o], cut)
    BY <1>0, <1>1, <1>2 DEF Following
  <2>1. Chained(remote[o], cut \o b)
    BY <1>0, <1>3 DEF Parts, Following
  <2> QED
    BY <1>2, <2>1, ChainCut
<1>6. Fresh(p)' /\ Fresh(o)'
  <2>1. Waiting(p) = <<>> => Waiting(p)' = <<>>
    <3>1. tasks'[p] = <<>>
      BY <1>1 DEF TypeOK
    <3>2. Waiting(p) = <<>> => batch[p] = <<>> /\ tasks[p] = <<>>
      BY NoneWaiting
    <3> QED
      BY <1>1, <3>1, <3>2 DEF Waiting
  <2>2. Waiting(o)' = Waiting(o)
    BY <1>0, <1>1 DEF Waiting, TypeOK
  <2> QED
    BY <1>0, <1>1, <2>1, <2>2 DEF Parts, Fresh, Waiting
<1>7. Answered(p)' /\ Answered(o)'
  BY <1>0, <1>1 DEF Parts, Answered
<1>8. Pending(p)' /\ Pending(o)'
  BY <1>1 DEF Pending
<1> QED
  BY <1>0, <1>4, <1>5, <1>6, <1>7, <1>8 DEF Parts

-----------------------------------------------------------------------------
(* Methods.                                                                *)

\* Nothing closes a peer or answers its offer while its script is in a method.
LEMMA BusyStep ==
  ASSUME TypeOK, \A q \in Peers : Busy(q), [Next]_vars, NEW q \in Peers
  PROVE  Busy(q)'
<1> USE DEF Busy, TypeOK
<1>1. ASSUME NEW p \in Peers, CreateOffer(p) PROVE Busy(q)'
  BY <1>1 DEF CreateOffer, GetConnectionState, libVars
<1>2. ASSUME NEW p \in Peers, OfferIgnored(p) PROVE Busy(q)'
  BY <1>2 DEF OfferIgnored, Return, libVars
<1>3. ASSUME NEW p \in Peers, SetLocalOffer(p) \/ SetLocalAnswer(p)
      PROVE  Busy(q)'
  BY <1>3 DEF SetLocalOffer, SetLocalAnswer, SetLocalDescription, Return
<1>4. ASSUME NEW p \in Peers, OfferThrows(p) \/ AnswerThrows(p) PROVE Busy(q)'
  BY <1>4 DEF OfferThrows, AnswerThrows, Fail, Return, libVars
<1>5. ASSUME NEW p \in Peers, RemoteThrows(p) PROVE Busy(q)'
  BY <1>5 DEF RemoteThrows, Fail, Return, libVars
<1>6. ASSUME NEW p \in Peers, SetRemoteOffer(p) PROVE Busy(q)'
  BY <1>6 DEF SetRemoteOffer
<1>7. ASSUME NEW p \in Peers, SetRemoteAnswer(p) PROVE Busy(q)'
  BY <1>7 DEF SetRemoteAnswer, Received
<1>8. ASSUME NEW p \in Peers, AddIceCandidate(p) PROVE Busy(q)'
  BY <1>8 DEF AddIceCandidate, libVars
<1>9. ASSUME NEW p \in Peers, QueueTask(p) \/ Poll(p) \/ EmitSignal(p)
      PROVE  Busy(q)'
  BY <1>9 DEF QueueTask, Poll, EmitSignal, libVars
<1>10. ASSUME NEW p \in Peers, Close(p) PROVE Busy(q)'
  BY <1>10 DEF Close, libVars
<1>11. ASSUME NEW p \in Peers, Gather(p) \/ Start(p) PROVE Busy(q)'
  BY <1>11 DEF Gather, Start, relayVars
<1>12. CASE UNCHANGED vars
  BY <1>12 DEF vars, libVars, relayVars
<1> QED
  BY <1>1, <1>2, <1>3, <1>4, <1>5, <1>6, <1>7, <1>8, <1>9, <1>10, <1>11, <1>12
     DEF Next, Finish, Receive

-----------------------------------------------------------------------------
(* The theorems.                                                           *)

\* The invariant holds in every reachable state.
THEOREM Invariance == Spec => []IndInv
<1>1. Init => IndInv
  <2> SUFFICES ASSUME Init, NEW p \in Peers
               PROVE  /\ Following(p) /\ Fresh(p) /\ Answered(p) /\ Pending(p)
                      /\ Busy(p)
    BY TypeInit DEF IndInv
  <2>0. Other(p) \in Peers
    BY Pairs
  <2>1. Line(p) = <<>>
    <3>1. <<>> \o ((<<>> \o <<>>) \o <<>>) = <<>>
      OBVIOUS
    <3> QED
      BY <2>0, <3>1 DEF Init, Line, Waiting
  <2>2. Following(p)
    <3>1. Chained(remote[p], <<>>) /\ local[Other(p)] = 0
      BY <2>0 DEF Chained, Init
    <3> QED
      BY <2>1, <3>1 DEF Following
  <2> QED
    <3>1. <<>> \o <<>> = <<>>
      OBVIOUS
    <3> QED
      BY <2>0, <2>2, <3>1 DEF Init, Fresh, Waiting, Answered, Pending, Busy
<1>2. IndInv /\ [Next]_vars => IndInv'
  <2> SUFFICES ASSUME IndInv, [Next]_vars PROVE IndInv'
    OBVIOUS
  <2>1. TypeOK /\ \A q \in Peers : Parts(q)
    BY DEF IndInv, Parts
  <2>2. TypeOK'
    BY <2>1, TypeStep
  <2>3. \A q \in Peers : Parts(q)'
    <3>1. CASE UNCHANGED vars
      BY <2>1, <3>1 DEF vars, libVars, relayVars, Parts, Following, Fresh,
         Answered, Pending, Sent, Line, Waiting
    <3>2. CASE Next
      BY <2>1, <3>2, KeepingSteps, ReceivingSteps, RefusingStep,
         DescribingSteps, GatheringStep, ClosingStep DEF Next, Finish, Receive
    <3> QED
      BY <3>1, <3>2
  <2>4. \A q \in Peers : Busy(q)'
    BY BusyStep DEF IndInv
  <2> QED
    BY <2>2, <2>3, <2>4 DEF IndInv, Parts
<1> QED
  BY <1>1, <1>2, PTL DEF Spec

\* Every variable keeps its type; no provisional description is ever made.
THEOREM TypeCorrect == Spec => []TypeOK
BY Invariance, PTL DEF IndInv

\* A peer that is left with a remote offer was told of a failure.
THEOREM StuckPeersAreTold == Spec => []StuckIsTold
<1>1. IndInv => StuckIsTold
  BY DEF IndInv, Answered, StuckIsTold, GetSignalingState, TypeOK
<1> QED
  BY <1>1, Invariance, PTL

\* A candidate finds its description at the other peer.
THEOREM CandidatesAreInTime == Spec => []CandidatesInTime
<1>1. ASSUME IndInv PROVE CandidatesInTime
  <2> SUFFICES ASSUME NEW p \in Peers, p \notin failed \union closed,
                      wire[p] # <<>>, Head(wire[p]).type = "candidate"
               PROVE  remote[p] = Head(wire[p]).no
    BY DEF CandidatesInTime
  <2>1. TypeOK /\ Chained(remote[p], Line(p))
    BY <1>1 DEF IndInv, Following
  <2>2. /\ wire[p] \in Seq(Every) /\ Line(p) \in Seq(Every)
        /\ Waiting(Other(p)) \o Coming(Other(p)) \in Seq(Every)
        /\ Line(p) = wire[p] \o (Waiting(Other(p)) \o Coming(Other(p)))
    BY <2>1, LineType, ConcatProperties
  <2>3. Line(p) # <<>> /\ Head(Line(p)) = Head(wire[p])
    BY <2>2, AtTheFront
  <2> QED
    BY <2>1, <2>2, <2>3, ChainTail
<1> QED
  BY <1>1, Invariance, PTL

\* Two peers with nothing on its way agree, or one of them was told.
THEOREM PeersAgree == Spec => []NoSilentDisagreement
<1>1. ASSUME IndInv PROVE NoSilentDisagreement
  <2> SUFFICES ASSUME Quiet, failed \union closed = {}, NEW p \in Peers
               PROVE  signaling[p] = "Stable" /\ local[p] = remote[Other(p)]
    BY DEF NoSilentDisagreement, GetSignalingState
  <2> DEFINE o == Other(p)
  <2>0. o \in Peers /\ Other(o) = p
    BY Pairs
  <2>1. Line(p) = <<>> /\ Line(o) = <<>>
    <3>1. <<>> \o (<<>> \o <<>>) = <<>>
      OBVIOUS
    <3> QED
      BY <2>0, <3>1 DEF Quiet, Line
  <2>2. ~Sent(p, "answer") /\ ~Sent(o, "offer")
    BY <2>1 DEF Sent
  <2>3. doing[p] = "idle" /\ doing[o] = "idle"
    BY <2>0 DEF Quiet
  <2>4. signaling[p] = "Stable"
    BY <1>1, <2>2, <2>3 DEF IndInv, Pending, Answered, TypeOK
  <2>5. local[p] = remote[o]
    <3>1. CASE local[p] = 0
      BY <1>1, <2>3, <3>1 DEF IndInv, Fresh
    <3>2. CASE local[p] # 0
      <4>1. local[p] = LastNo(remote[o], Line(o))
        BY <1>1, <2>0, <3>2 DEF IndInv, Following
      <4> QED
        BY <2>1, <4>1 DEF LastNo
    <3> QED
      BY <3>1, <3>2
  <2> QED
    BY <2>4, <2>5
<1> QED
  BY <1>1, Invariance, PTL

-----------------------------------------------------------------------------
(* The refinement: the lines between the peers behave as Negotiation says. *)

Lines == [p \in Peers |-> Line(p)]

LEMMA LinesKept ==
  ASSUME \A q \in Peers : Line(q)' = Line(q)
  PROVE  Lines' = Lines
BY DEF Lines

LEMMA LinesChanged ==
  ASSUME NEW q \in Peers, NEW s, Line(q)' = s,
         Line(Other(q))' = Line(Other(q))
  PROVE  Lines' = [Lines EXCEPT ![q] = s]
<1>1. \A z \in Peers : z # q => Line(z)' = Line(z)
  BY Pairs
<1> QED
  BY <1>1 DEF Lines

LEMMA SameNames ==
  /\ Abstract!Peers = Peers
  /\ \A p : Abstract!Other(p) = Other(p)
BY DEF Abstract!Peers, Abstract!Other, Peers, Other

\* Methods begin and end, connections start, and signals are handed on: the
\* user of both peers sees nothing.
LEMMA HiddenSteps ==
  ASSUME TypeOK, NEW p \in Peers,
         \/ CreateOffer(p) \/ OfferIgnored(p) \/ Start(p)
         \/ QueueTask(p) \/ Poll(p) \/ EmitSignal(p)
  PROVE  UNCHANGED Abstract!vars
<1>1. UNCHANGED <<signaling, local, remote, failed, closed, made>>
  BY DEF CreateOffer, OfferIgnored, Start, QueueTask, Poll, EmitSignal,
     libVars, relayVars
<1>2. \A q \in Peers : Line(q)' = Line(q)
  BY LineKept, LineSame DEF CreateOffer, OfferIgnored, Return, Start, libVars,
     relayVars
<1>3. Lines' = Lines
  BY <1>2, LinesKept
<1> QED
  BY <1>1, <1>3 DEF Abstract!vars, Lines

\* The library throws in the place of a description.
LEMMA FailsToDescribe ==
  ASSUME TypeOK, NEW p \in Peers, OfferThrows(p) \/ AnswerThrows(p)
  PROVE  Abstract!Fail(p)
<1>1. /\ UNCHANGED <<signaling, local, remote, closed, made>>
      /\ failed' = failed \union {p}
  BY DEF OfferThrows, AnswerThrows, Fail, libVars
<1>2. \A q \in Peers : Line(q)' = Line(q)
  BY LineSame DEF OfferThrows, AnswerThrows, Fail, libVars
<1>3. Lines' = Lines
  BY <1>2, LinesKept
<1> QED
  BY <1>1, <1>3 DEF Abstract!Fail, Lines

\* What the library makes is in the line as soon as it is there.
LEMMA Describes ==
  ASSUME TypeOK, NEW p \in Peers, Busy(p),
         SetLocalOffer(p) \/ SetLocalAnswer(p)
  PROVE  Abstract!Offer(p) \/ Abstract!Answer(p)
<1> DEFINE o == Other(p)
<1>0. o \in Peers /\ Other(o) = p
  BY Pairs
<1>1. p \notin closed
  BY DEF Busy, SetLocalOffer, SetLocalAnswer
<1>2. ASSUME NEW type \in {"offer", "answer"}, NEW after,
             SetLocalDescription(p, type, after)
      PROVE  Abstract!Describe(p, type, after)
  <2> DEFINE x == [type |-> type, no |-> made']
  <2>1. /\ made' = made + 1 /\ made \in Nat
        /\ local' = [local EXCEPT ![p] = made']
        /\ signaling' = [signaling EXCEPT ![p] = after]
        /\ events' = [events EXCEPT ![p] = Append(@, x)]
        /\ UNCHANGED <<remote, tasks, batch, wire, failed, closed>>
    BY <1>2 DEF SetLocalDescription, Signal, TypeOK
  <2>2. x \in Every
    BY <2>1 DEF Every
  <2>a. Lines[o] = Line(o)
    BY <1>0 DEF Lines
  <2> HIDE DEF x
  <2>3. Line(p)' = Line(p) /\ Line(o)' = Append(Line(o), x)
    BY <1>1, <2>1, <2>2, LineGrown
  <2>4. Lines' = [Lines EXCEPT ![o] = Append(Line(o), x)]
    BY <1>0, <2>3, LinesChanged
  <2>5. Abstract!Send(p, type, made')
    <3>1. Lines' = [Lines EXCEPT ![o] = Append(@, x)]
      BY <1>0, <2>4, <2>a
    <3> QED
      BY <1>1, <3>1, SameNames DEF Abstract!Send, Lines, x
  <2> QED
    BY <2>1, <2>5 DEF Abstract!Describe
<1>3. CASE SetLocalOffer(p)
  BY <1>2, <1>3 DEF SetLocalOffer, Abstract!Offer
<1>4. CASE SetLocalAnswer(p)
  BY <1>2, <1>4 DEF SetLocalAnswer, Busy, Abstract!Answer
<1> QED
  BY <1>3, <1>4

LEMMA Gathers ==
  ASSUME TypeOK, NEW p \in Peers, Gather(p)
  PROVE  Abstract!Candidate(p)
<1> DEFINE o == Other(p)
           x == [type |-> "candidate", no |-> local[p]]
<1>0. o \in Peers /\ Other(o) = p
  BY Pairs
<1>1. /\ p \notin closed /\ local[p] # 0
      /\ events' = [events EXCEPT ![p] = Append(@, x)]
      /\ UNCHANGED <<signaling, local, remote, tasks, batch, wire, closed,
                     failed, made>>
  BY DEF Gather, Signal, relayVars
<1>2. x \in Every
  BY DEF TypeOK, Every
<1>a. Lines[o] = Line(o)
  BY <1>0 DEF Lines
<1> HIDE DEF x
<1>3. Line(p)' = Line(p) /\ Line(o)' = Append(Line(o), x)
  BY <1>1, <1>2, LineGrown
<1>4. Lines' = [Lines EXCEPT ![o] = Append(@, x)]
  BY <1>0, <1>a, <1>3, LinesChanged
<1>5. Abstract!Send(p, "candidate", local[p])
  BY <1>1, <1>4, SameNames DEF Abstract!Send, Lines, x
<1> QED
  BY <1>1, <1>5 DEF Abstract!Candidate

\* The script is handed the next signal of the line.
LEMMA Takes ==
  ASSUME TypeOK, NEW p \in Peers, NEW types, Received(p, types),
         UNCHANGED <<tasks, batch, events, closed, made>>
  PROVE  /\ Abstract!Take(p, types)
         /\ Line(p) # <<>> /\ Head(Line(p)) = Head(wire[p])
<1>1. /\ Line(p) # <<>> /\ Head(Line(p)) = Head(wire[p])
      /\ Line(p)' = Tail(Line(p)) /\ Line(Other(p))' = Line(Other(p))
  BY LineTaken DEF Received
<1>2. Lines[p] = Line(p)
  BY DEF Lines
<1>3. Lines' = [Lines EXCEPT ![p] = Tail(@)]
  BY <1>1, <1>2, LinesChanged
<1>4. Abstract!Take(p, types)
  BY <1>1, <1>2, <1>3 DEF Abstract!Take, Received, Lines
<1> QED
  BY <1>1, <1>4

LEMMA Accepts ==
  ASSUME IndInv, NEW p \in Peers,
         SetRemoteOffer(p) \/ SetRemoteAnswer(p) \/ AddIceCandidate(p)
  PROVE  \/ Abstract!TakeOffer(p) \/ Abstract!TakeAnswer(p)
         \/ Abstract!TakeCandidate(p)
<1>0. TypeOK /\ Following(p) /\ [q \in Peers |-> Line(q)][p] = Line(p)
  BY DEF IndInv
<1>1. CASE SetRemoteOffer(p)
  <2>1. Abstract!Take(p, {"offer"}) /\ Head(Line(p)) = Head(wire[p])
    BY <1>0, <1>1, Takes DEF SetRemoteOffer
  <2> QED
    BY <1>0, <1>1, <2>1 DEF SetRemoteOffer, Abstract!TakeOffer
<1>2. CASE SetRemoteAnswer(p)
  <2>1. Abstract!Take(p, {"answer"}) /\ Head(Line(p)) = Head(wire[p])
    BY <1>0, <1>2, Takes DEF SetRemoteAnswer
  <2> QED
    BY <1>0, <1>2, <2>1 DEF SetRemoteAnswer, Abstract!TakeAnswer
<1>3. CASE AddIceCandidate(p)
  <2>1. /\ Abstract!Take(p, {"candidate"})
        /\ Line(p) # <<>> /\ Head(Line(p)) = Head(wire[p])
    BY <1>0, <1>3, Takes DEF AddIceCandidate, libVars
  <2>2. p \notin failed => Head(Line(p)).no = remote[p]
    <3> SUFFICES ASSUME p \notin failed PROVE Head(Line(p)).no = remote[p]
      OBVIOUS
    <3>1. Chained(remote[p], Line(p)) /\ Line(p) \in Seq(Every)
      BY <1>0, <1>3, LineType DEF Following, AddIceCandidate
    <3>2. Head(Line(p)).type = "candidate"
      BY <1>3, <2>1 DEF AddIceCandidate, Received
    <3> QED
      BY <2>1, <3>1, <3>2, ChainTail
  <2> QED
    BY <1>0, <1>3, <2>1, <2>2 DEF AddIceCandidate, libVars,
       Abstract!TakeCandidate
<1> QED
  BY <1>1, <1>2, <1>3

LEMMA Refuses ==
  ASSUME TypeOK, NEW p \in Peers, RemoteThrows(p)
  PROVE  Abstract!Refuse(p)
<1>1. Abstract!Take(p, {"offer", "answer", "candidate"})
  BY Takes DEF RemoteThrows, Fail, libVars
<1> QED
  BY <1>1 DEF RemoteThrows, Fail, libVars, Abstract!Refuse

\* What was relayed or is in a poll's batch is a beginning of the line.
LEMMA Closes ==
  ASSUME TypeOK, NEW p \in Peers, Close(p)
  PROVE  Abstract!Close(p)
<1> DEFINE o == Other(p)
           cut == wire[o] \o batch[p]
           n == Len(cut)
<1>0. o \in Peers /\ Other(o) = p
  BY Pairs
<1>1. PICK b \in Seq(Every) : Line(o) = cut \o b
  BY LineCut
<1>2. cut \in Seq(Every) /\ n \in 0 .. Len(Line(o))
      /\ cut = SubSeq(Line(o), 1, n)
  <2>1. cut \in Seq(Every)
    BY LineCut
  <2> HIDE DEF cut
  <2>2. /\ n \in Nat /\ Len(b) \in Nat /\ cut \o b \in Seq(Every)
        /\ Len(cut \o b) = n + Len(b)
        /\ \A i \in 1 .. n : (cut \o b)[i] = cut[i]
    BY <2>1, ConcatProperties
  <2>3. /\ SubSeq(cut \o b, 1, n) \in Seq(Every)
        /\ Len(SubSeq(cut \o b, 1, n)) = n
        /\ \A i \in 1 .. n : SubSeq(cut \o b, 1, n)[i] = (cut \o b)[i]
    BY <2>2
  <2>4. SubSeq(cut \o b, 1, n) = cut
    BY <2>1, <2>2, <2>3, SeqEqual
  <2> QED
    BY <1>1, <2>1, <2>2, <2>4
<1>3. Line(p)' = Line(p) /\ Line(o)' = cut
  BY LineCut
<1>4. Lines[o] = Line(o)
  BY <1>0 DEF Lines
<1>5. Lines' = [Lines EXCEPT ![o] = SubSeq(@, 1, n)]
  BY <1>0, <1>2, <1>3, <1>4, LinesChanged
<1>6. \E k \in 0 .. Len(Lines[Other(p)]) :
        Lines' = [Lines EXCEPT ![Other(p)] = SubSeq(@, 1, k)]
  BY <1>2, <1>4, <1>5
<1> QED
  BY <1>6, SameNames DEF Close, libVars, Abstract!Close, Lines

\* Every step of the two peers and their scripts is one of the negotiation, or
\* none.
LEMMA NegotiationStep ==
  ASSUME IndInv, [Next]_vars
  PROVE  [Abstract!Next]_(Abstract!vars)
<1>0. TypeOK /\ \A p \in Peers : Busy(p)
  BY DEF IndInv
<1>1. CASE UNCHANGED vars
  BY <1>1 DEF vars, libVars, relayVars, Abstract!vars, Line, Waiting
<1>2. ASSUME NEW p \in Peers,
             \/ CreateOffer(p) \/ Finish(p) \/ Receive(p)
             \/ QueueTask(p) \/ Poll(p) \/ EmitSignal(p) \/ Close(p)
             \/ Gather(p) \/ Start(p)
      PROVE  \/ UNCHANGED Abstract!vars
             \/ Abstract!Offer(p) \/ Abstract!Answer(p)
             \/ Abstract!Candidate(p) \/ Abstract!TakeOffer(p)
             \/ Abstract!TakeAnswer(p) \/ Abstract!TakeCandidate(p)
             \/ Abstract!Refuse(p) \/ Abstract!Fail(p) \/ Abstract!Close(p)
  BY <1>0, <1>2, HiddenSteps, FailsToDescribe, Describes, Gathers, Accepts,
     Refuses, Closes DEF Finish, Receive
<1> QED
  BY <1>1, <1>2, SameNames DEF Next, Abstract!Next

\* The two peers implement the negotiation that Negotiation describes.
THEOREM NegotiationRefinement == Spec => ImplementsNegotiation
<1>1. Init => Abstract!Init
  <2> SUFFICES ASSUME Init PROVE Abstract!Init
    OBVIOUS
  <2>1. ASSUME NEW p \in Peers PROVE Line(p) = <<>>
    <3>1. <<>> \o ((<<>> \o <<>>) \o <<>>) = <<>> /\ Other(p) \in Peers
      BY Pairs
    <3> QED
      BY <3>1 DEF Init, Line, Waiting
  <2> QED
    BY <2>1, SameNames DEF Init, Abstract!Init
<1>2. IndInv /\ [Next]_vars => [Abstract!Next]_(Abstract!vars)
  BY NegotiationStep
<1> QED
  BY <1>1, <1>2, Invariance, PTL DEF Spec, ImplementsNegotiation, Abstract!Spec

=============================================================================
