------------------------- MODULE ChannelSetupProofs -------------------------
(***************************************************************************)
(* What ChannelSetup promises of a channel's settings holds for any ids    *)
(* and limits and any number of channels.  Faithful says what is true of a *)
(* channel at every stage of its making; each action either adds a channel *)
(* of which it is true, or keeps it true of those there are.               *)
(***************************************************************************)
EXTENDS ChannelSetup, TLAPS

\* A number cut to 16 bits fits them.
LEMMA Uint16Type == \A n \in Int : Uint16(n) \in Uint16s
BY SMT DEF Uint16, Uint16s

\* And one that fits them already is not changed.
LEMMA Uint16Same == \A n \in Uint16s : n \in Int /\ Uint16(n) = n
<1>1. ASSUME NEW n \in Int, 0 <= n, n < 65536 PROVE n % 65536 = n
  BY <1>1, SMT
<1> QED
  BY <1>1, SMT DEF Uint16, Uint16s

\* A value that is there is a number, and what is left of it another.
LEMMA GivenType ==
  /\ \A n \in Ids \union Limits : n # None /\ Int32(n) \in Int32s
  /\ \A n \in Int32s : n \in Int /\ n # None
<1>1. \A n \in Int32s : n \in Int
  BY SMT DEF Int32s
<1> QED
  BY <1>1, IdsAssumption, LimitsAssumption, NoneAssumption
     DEF Int32, ScriptInts

\* The id of an rtc::DataChannelInit is there when the script gave one.
LEMMA IdType ==
  ASSUME NEW dict \in Dictionaries, dict.id # None
  PROVE  Uint16(Int32(dict.id)) \in Uint16s /\ Uint16(Int32(dict.id)) # None
<1>1. dict.id \in Ids
  BY DEF Dictionaries
<1>2. Int32(dict.id) \in Int
  BY <1>1, GivenType
<1>3. Uint16(Int32(dict.id)) \in Uint16s
  BY <1>2, Uint16Type, Zenon
<1>4. \A n \in Uint16s : n # None
  BY NoneAssumption, SMT DEF Uint16s
<1> QED
  BY <1>3, <1>4, Zenon

\* _parse_channel_config gives a well-formed rtc::DataChannelInit.
LEMMA ChannelInitType ==
  ASSUME NEW dict \in Dictionaries
  PROVE  ChannelInit(dict) \in Inits
<1>1. ChannelInit(dict).id =
        IF dict.id = None THEN None ELSE Uint16(Int32(dict.id))
  BY DEF ChannelInit
<1>2. ChannelInit(dict).id \in OptionalIds
  BY <1>1, IdType, Zenon DEF OptionalIds
<1>3. /\ dict.maxPacketLifeTime \in Limits \union {None}
      /\ dict.maxRetransmits \in Limits \union {None}
  BY DEF Dictionaries
<1>4. \A n \in Limits \union {None} : Limit(n) \in InitLimits
  BY DEF Limit, InitLimits
<1>5. None \in InitLimits
  BY DEF InitLimits
<1> QED
  BY <1>2, <1>3, <1>4, <1>5 DEF ChannelInit, Inits, Negotiated

\* And an accepted dictionary gives an id just when it is negotiated.
LEMMA ChannelInitId ==
  ASSUME NEW dict \in Dictionaries, Accepts(dict)
  PROVE  /\ ChannelInit(dict).negotiated <=> ChannelInit(dict).id # None
         /\ ChannelInit(dict).negotiated <=> dict.id # None
<1>1. /\ ChannelInit(dict).id =
           IF dict.id = None THEN None ELSE Uint16(Int32(dict.id))
      /\ ChannelInit(dict).negotiated = Negotiated(dict)
  BY DEF ChannelInit
<1> QED
  BY <1>1, IdType, Zenon DEF Accepts

\* A step that adds a channel c keeps the invariant if c is faithful and,
\* while it has no wrapper, the only such channel.
LEMMA AddChannel ==
  ASSUME IndInv, NEW c \in Channels, Faithful(c),
         chans' = Append(chans, c), link' = link, making' \in BOOLEAN,
         IF c.negotiated = None THEN ~making /\ making' ELSE making' = making
  PROVE  IndInv'
<1>1. /\ chans \in Seq(Channels) /\ Len(chans) \in Nat
      /\ DOMAIN chans = 1 .. Len(chans)
  BY DEF IndInv, TypeOK
<1>2. /\ chans' \in Seq(Channels)
      /\ DOMAIN chans' = 1 .. Len(chans) + 1
      /\ \A i \in DOMAIN chans : chans'[i] = chans[i]
      /\ chans'[Len(chans) + 1] = c
  BY <1>1
<1>3. Unwrapped' = IF c.negotiated = None THEN Unwrapped \union {Len(chans) + 1}
                                          ELSE Unwrapped
  BY <1>1, <1>2 DEF Unwrapped
<1>4. TypeOK'
  BY <1>2, <1>3 DEF IndInv, TypeOK
<1>5. \A i \in DOMAIN chans' : Faithful(chans[i])'
  BY <1>1, <1>2 DEF IndInv, Faithful
<1> QED
  BY <1>4, <1>5 DEF IndInv

\* createDataChannel() is asked for what the script asked for.
LEMMA CreateStep ==
  ASSUME IndInv, NEW dict \in Dictionaries, CreateDataChannel(dict)
  PROVE  IndInv'
<1>1. PICK id \in IF dict.id = None /\ link = "up"
                    THEN StreamIds \ Used ELSE {ChannelInit(dict).id} :
        chans' = Append(chans,
                   Channel(dict, ChannelInit(dict), id, None, FALSE))
  BY DEF CreateDataChannel
<1> DEFINE c == Channel(dict, ChannelInit(dict), id, None, FALSE)
<1>2. ChannelInit(dict) \in Inits /\ ChannelInit(dict).id \in OptionalIds
  BY ChannelInitType DEF Inits
<1>3. id \in OptionalIds
  BY <1>1, <1>2, StreamIdsAssumption DEF OptionalIds
<1>4. c \in Channels
  BY <1>2, <1>3 DEF Channel, Channels
<1>5. dict # None => Faithful(c)
  <2>1. Accepts(dict)
    BY DEF CreateDataChannel
  <2>2. /\ ChannelInit(dict).negotiated <=> ChannelInit(dict).id # None
        /\ ChannelInit(dict).negotiated <=> dict.id # None
    BY <2>1, ChannelInitId
  <2>3. /\ c.asked = dict /\ c.init = ChannelInit(dict) /\ c.id = id
        /\ c.negotiated = None /\ c.late = FALSE
    BY DEF Channel
  <2> HIDE DEF c
  <2> QED
    BY <1>1, <2>1, <2>2, <2>3, NoneAssumption DEF Faithful
<1>6. dict # None
  BY NoDictionaryAssumption
<1>7. c.negotiated = None
  BY DEF Channel
<1>8. /\ chans' = Append(chans, c) /\ link' = link
      /\ ~making /\ making' = TRUE
  BY <1>1 DEF CreateDataChannel
<1> HIDE DEF c
<1> QED
  BY <1>4, <1>5, <1>6, <1>7, <1>8, AddChannel

\* A channel from the peer comes with its wrapper, and is not negotiated.
LEMMA ReceiveStep ==
  ASSUME IndInv, NEW id \in StreamIds, NEW unordered \in BOOLEAN,
         ReceiveChannel(id, unordered)
  PROVE  IndInv'
<1> DEFINE init == [negotiated |-> FALSE, id |-> None,
                    maxPacketLifeTime |-> None, maxRetransmits |-> None,
                    unordered |-> unordered]
           c == Channel(None, init, id, FALSE, TRUE)
<1>1. init \in Inits
  BY DEF Inits, InitLimits, OptionalIds
<1>2. id \in OptionalIds
  BY StreamIdsAssumption DEF OptionalIds
<1>3. c \in Channels
  BY <1>1, <1>2 DEF Channel, Channels
<1>4. Faithful(c)
  BY DEF Channel, Faithful
<1>5. c.negotiated = FALSE /\ None # FALSE
  BY NoneAssumption DEF Channel
<1>6. chans' = Append(chans, c) /\ link' = link /\ making' = making
  BY DEF ReceiveChannel
<1>7. making' \in BOOLEAN
  BY <1>6 DEF IndInv, TypeOK
<1> HIDE DEF init, c
<1> QED
  BY <1>3, <1>4, <1>5, <1>6, <1>7, AddChannel

\* A step that changes channels in place keeps the invariant if each of them
\* stays well-formed and faithful and the wrappers are accounted for.
LEMMA ChangeChannels ==
  ASSUME IndInv, chans' = [i \in DOMAIN chans |-> chans'[i]],
         \A i \in DOMAIN chans : chans'[i] \in Channels,
         \A i \in DOMAIN chans : Faithful(chans[i])',
         link' \in {"new", "up"}, making' \in BOOLEAN,
         making' <=> Unwrapped' # {}, Unwrapped' \subseteq Unwrapped
  PROVE  IndInv'
<1>1. Len(chans) \in Nat /\ DOMAIN chans = 1 .. Len(chans)
  BY DEF IndInv, TypeOK
<1>2. chans' \in [1 .. Len(chans) -> Channels]
  BY <1>1
<1>3. chans' \in Seq(Channels)
  BY <1>1, <1>2
<1>4. TypeOK'
  BY <1>3 DEF IndInv, TypeOK
<1> QED
  BY <1>4 DEF IndInv

\* The wrapper of the channel that Main makes: by now the channel has an id
\* if it was given one, or if the connection is up.
LEMMA WrapStep ==
  ASSUME IndInv, WrapChannel
  PROVE  IndInv'
<1>1. /\ DOMAIN chans' = DOMAIN chans
      /\ \A i \in DOMAIN chans : chans'[i] =
           IF i \in Unwrapped
             THEN [chans[i] EXCEPT !.negotiated = chans[i].id # None,
                                   !.late = link = "up"]
             ELSE chans[i]
      /\ chans' = [i \in DOMAIN chans |-> chans'[i]]
      /\ link' = link /\ making' = FALSE
  BY DEF WrapChannel
<1>2. \A i \in DOMAIN chans : chans[i] \in Channels
  BY DEF IndInv, TypeOK
<1>3. ASSUME NEW i \in DOMAIN chans
      PROVE  /\ chans'[i] \in Channels /\ Faithful(chans[i])'
             /\ chans'[i].negotiated # None
  <2>1. chans[i] \in Channels /\ Faithful(chans[i])
    BY <1>2 DEF IndInv
  <2>2. CASE i \notin Unwrapped
    BY <1>1, <2>1, <2>2 DEF Unwrapped, Faithful
  <2>3. CASE i \in Unwrapped
    <3> DEFINE c == chans[i]
    <3>1. /\ chans'[i].asked = c.asked /\ chans'[i].init = c.init
          /\ chans'[i].id = c.id
          /\ chans'[i].negotiated = (c.id # None)
          /\ chans'[i].late = (link = "up")
          /\ chans'[i] \in Channels
      BY <1>1, <2>1, <2>3 DEF Channels
    <3>2. link \in {"new", "up"}
      BY DEF IndInv, TypeOK
    <3>3. Faithful(chans[i])'
      BY <1>1, <2>1, <3>1, <3>2 DEF Faithful
    <3> QED
      BY <3>1, <3>3, NoneAssumption
  <2> QED
    BY <2>2, <2>3
<1>4. Unwrapped' = {}
  BY <1>1, <1>3 DEF Unwrapped
<1>5. link' \in {"new", "up"}
  BY <1>1 DEF IndInv, TypeOK
<1> QED
  BY <1>1, <1>3, <1>4, <1>5, ChangeChannels

\* When the connection comes up, only channels without an id get one.
LEMMA ConnectStep ==
  ASSUME IndInv, Connect
  PROVE  IndInv'
<1>1. PICK ids \in [DOMAIN chans -> StreamIds \union Used] :
        /\ \A i \in DOMAIN chans :
             IF chans[i].id # None THEN ids[i] = chans[i].id
                                   ELSE ids[i] \in StreamIds
        /\ chans' = [i \in DOMAIN chans |-> [chans[i] EXCEPT !.id = ids[i]]]
  BY DEF Connect
<1>2. \A i \in DOMAIN chans : chans[i] \in Channels
  BY DEF IndInv, TypeOK
<1>3. /\ DOMAIN chans' = DOMAIN chans
      /\ chans' = [i \in DOMAIN chans |-> chans'[i]]
      /\ \A i \in DOMAIN chans : chans'[i] = [chans[i] EXCEPT !.id = ids[i]]
  BY <1>1
<1>4. link = "new" /\ link' = "up" /\ making' = making
  BY DEF Connect
<1>5. ASSUME NEW i \in DOMAIN chans
      PROVE  /\ chans'[i] \in Channels /\ Faithful(chans[i])'
             /\ chans'[i].negotiated = chans[i].negotiated
  <2>1. chans[i] \in Channels /\ Faithful(chans[i])
    BY <1>2 DEF IndInv
  <2>2. chans[i].id # None => ids[i] = chans[i].id
    BY <1>1
  <2>3. ids[i] \in OptionalIds
    BY <1>1, <2>1, StreamIdsAssumption DEF Channels, OptionalIds
  <2>4. /\ chans'[i].asked = chans[i].asked /\ chans'[i].init = chans[i].init
        /\ chans'[i].id = ids[i] /\ chans'[i].late = chans[i].late
        /\ chans'[i].negotiated = chans[i].negotiated
        /\ chans'[i] \in Channels
    BY <1>3, <2>1, <2>3 DEF Channels
  <2>5. Faithful(chans[i])'
    BY <1>4, <2>1, <2>2, <2>4 DEF Faithful
  <2> QED
    BY <2>4, <2>5
<1>6. Unwrapped' = Unwrapped
  BY <1>3, <1>5 DEF Unwrapped
<1>7. making' \in BOOLEAN /\ (making' <=> Unwrapped' # {})
  BY <1>4, <1>6 DEF IndInv, TypeOK
<1> QED
  BY <1>3, <1>4, <1>5, <1>6, <1>7, ChangeChannels

\* What is true of a channel at each stage of its making is so at every step.
THEOREM Invariance == Spec => []IndInv
<1>1. Init => IndInv
  <2> SUFFICES ASSUME Init PROVE IndInv
    OBVIOUS
  <2>1. chans \in Seq(Channels) /\ DOMAIN chans = {}
    BY DEF Init
  <2>2. Unwrapped = {}
    BY <2>1 DEF Unwrapped
  <2> QED
    BY <2>1, <2>2 DEF Init, IndInv, TypeOK
<1>2. IndInv /\ [Next]_vars => IndInv'
  <2> SUFFICES ASSUME IndInv, [Next]_vars PROVE IndInv'
    OBVIOUS
  <2>1. CASE Next
    BY <2>1, CreateStep, WrapStep, ReceiveStep, ConnectStep DEF Next
  <2>2. CASE UNCHANGED vars
    BY <2>2 DEF vars, IndInv, TypeOK, Unwrapped, Faithful
  <2> QED
    BY <2>1, <2>2
<1> QED
  BY <1>1, <1>2, PTL DEF Spec

\* Types; and while Main makes a channel, it is the only one not wrapped.
THEOREM TypeCorrect == Spec => []TypeOK
BY Invariance, PTL DEF IndInv

\* A limit that fits 32 bits comes back as it was given.
LEMMA LimitKept ==
  ASSUME NEW n \in Limits \union {None}
  PROVE  Keeps(n, OrMinusOne(Limit(n)))
<1>1. CASE n = None
  BY <1>1 DEF Keeps, OrMinusOne, Limit
<1>2. CASE n \in Limits
  <2>1. n # None /\ Int32(n) # None
    BY <1>2, GivenType
  <2> QED
    BY <2>1 DEF Keeps, OrMinusOne, Limit, Int32
<1> QED
  BY <1>1, <1>2

\* The getters report what the script asked for, as far as it fits.
THEOREM AskedIsReported == Spec => []ReportsWhatWasAsked
<1>1. IndInv => ReportsWhatWasAsked
  <2> SUFFICES ASSUME IndInv, NEW c \in Created
               PROVE  /\ Keeps(c.asked.maxPacketLifeTime,
                              OrMinusOne(c.init.maxPacketLifeTime))
                      /\ Keeps(c.asked.maxRetransmits,
                              OrMinusOne(c.init.maxRetransmits))
                      /\ ~c.init.unordered <=> c.asked.ordered # FALSE
                      /\ c.asked.id # None /\ c.asked.id.low \in Uint16s =>
                           Keeps(c.asked.id, ReportedId(c.id))
    BY DEF ReportsWhatWasAsked, Get
  <2>1. c \in Channels /\ Faithful(c) /\ c.asked # None
    BY DEF Created, Wrapped, IndInv, TypeOK
  <2>2. /\ Accepts(c.asked) /\ c.init = ChannelInit(c.asked)
        /\ c.asked \in Dictionaries
    BY <2>1 DEF Faithful, Channels
  <2>3. c.asked.maxPacketLifeTime = None \/ c.asked.maxRetransmits = None
    BY <2>2 DEF Accepts
  <2>4. /\ c.init.maxPacketLifeTime = Limit(c.asked.maxPacketLifeTime)
        /\ c.init.maxRetransmits = Limit(c.asked.maxRetransmits)
        /\ c.init.unordered = (c.asked.ordered = FALSE)
    BY <2>2, <2>3 DEF ChannelInit, Limit
  <2>5. /\ c.asked.maxPacketLifeTime \in Limits \union {None}
        /\ c.asked.maxRetransmits \in Limits \union {None}
    BY <2>2 DEF Dictionaries
  <2>6. ASSUME c.asked.id # None, c.asked.id.low \in Uint16s
        PROVE  Keeps(c.asked.id, ReportedId(c.id))
    <3>1. Uint16(Int32(c.asked.id)) = c.asked.id.low
      BY <2>6, Uint16Same, Zenon DEF Int32
    <3>2. c.asked.id.low # None
      BY <2>6, Uint16Same, NoneAssumption
    <3>3. c.init.id = c.asked.id.low
      BY <2>2, <2>6, <3>1 DEF ChannelInit
    <3> QED
      BY <2>1, <2>6, <3>2, <3>3 DEF Faithful, ReportedId, Keeps
  <2> QED
    BY <2>4, <2>5, <2>6, LimitKept
<1> QED
  BY Invariance, <1>1, PTL

\* A negotiated channel is known to be one.
THEOREM NegotiationKnown == Spec => []NegotiatedKnown
<1>1. IndInv => NegotiatedKnown
  <2> SUFFICES ASSUME IndInv, NEW c \in Wrapped, c.init.negotiated
               PROVE  Get(c).negotiated
    BY DEF NegotiatedKnown
  <2>1. c \in Channels /\ Faithful(c) /\ c.negotiated # None
    BY DEF Wrapped, Unwrapped, IndInv, TypeOK
  <2>2. c.negotiated \in BOOLEAN /\ c.negotiated # FALSE
    BY <2>1 DEF Channels, Faithful
  <2> QED
    BY <2>2 DEF Get
<1> QED
  BY Invariance, <1>1, PTL

\* A channel wrapped before the connection is up is not taken for negotiated.
THEOREM EarlyChannelsTold == Spec => []NotNegotiatedEarly
<1>1. IndInv => NotNegotiatedEarly
  <2> SUFFICES ASSUME IndInv, NEW c \in Created, ~c.late,
                      c.asked.negotiated # TRUE
               PROVE  ~Get(c).negotiated
    BY DEF NotNegotiatedEarly
  <2>1. /\ c \in Channels /\ Faithful(c)
        /\ c.negotiated # None /\ c.asked # None
    BY DEF Created, Wrapped, Unwrapped, IndInv, TypeOK
  <2>2. c.init.negotiated = Negotiated(c.asked)
    BY <2>1 DEF Faithful, ChannelInit
  <2>3. c.negotiated \in BOOLEAN /\ c.negotiated # TRUE
    BY <2>1, <2>2 DEF Channels, Faithful, Negotiated
  <2> QED
    BY <2>3 DEF Get
<1> QED
  BY Invariance, <1>1, PTL
=============================================================================
