---------------------------- MODULE ChannelSetup ----------------------------
(***************************************************************************)
(* How a data channel comes to be: _create_data_channel, from the          *)
(* dictionary the script gives to what the channel's getters report, and   *)
(* the channels that the peer opens.                                       *)
(*                                                                         *)
(* _create_data_channel asks the library for the channel and afterwards,   *)
(* with ch->id(), whether it has an id; in between, the connection may     *)
(* come up on a thread of the library.                                     *)
(*                                                                         *)
(* Library: a channel has the id it is given, or else gets an unused one   *)
(* once the connection is up: at its creation if it is up already, and     *)
(* when it comes up if not.                                                *)
(***************************************************************************)
EXTENDS Integers, Sequences

CONSTANTS
  Ids,         \* what the script may give as an id
  Limits,      \* and as a limit on a packet's life time or retransmits
  StreamIds,   \* ids the library gives by itself
  None,        \* a key or a value that is not there
  MaxChannels  \* bound: channels of the connection

Uint16s == 0 .. 65535
\* From -2^31 to 2^31 - 1; 2^31 itself is too large for TLC.
Int32s == -(2^30) - 2^30 .. 2^30 - 1 + 2^30

\* The script's integers have 64 bits: the number n is represented by
\* [high, low] with n = high * 2^32 + low and low \in Int32s.
ScriptInts == [high : Int, low : Int32s]

ASSUME IdsAssumption == Ids \subseteq ScriptInts
ASSUME LimitsAssumption == Limits \subseteq ScriptInts
ASSUME StreamIdsAssumption == StreamIds \subseteq Uint16s
ASSUME NoneAssumption ==
  None \notin Int /\ None \notin BOOLEAN /\ None \notin ScriptInts
ASSUME ChannelsAssumption == MaxChannels \in Nat

\* p_channel_config: for each key its value, or None without the key.
Dictionaries ==
  [negotiated : BOOLEAN \union {None}, id : Ids \union {None},
   maxPacketLifeTime : Limits \union {None},
   maxRetransmits : Limits \union {None}, ordered : BOOLEAN \union {None}]

ASSUME NoDictionaryAssumption == None \notin Dictionaries

VARIABLES
  link,   \* the library's connection: "new" or "up"
  chans,  \* the channels, in the order they were made
  making  \* Main is between createDataChannel() and ch->id() of the last one

vars == <<link, chans, making>>

Init == link = "new" /\ chans = <<>> /\ making = FALSE

-----------------------------------------------------------------------------
(* _parse_channel_config: what it refuses, and the rtc::DataChannelInit it *)
(* fills in.                                                               *)

\* Faulty variant: the id keeps the width of an int32_t.
Uint16_Wide(n) == n

\* uint16_t of an int32_t.
Uint16(n) == n % 65536

\* operator int32_t(): whatever is above the lower 32 bits is cut off.
Int32(n) == n.low

\* A limit, if its key is there.
Limit(value) == IF value = None THEN None ELSE Int32(value)

Negotiated(dict) == dict.negotiated = TRUE

\* Faulty variant: an id is taken without `negotiated'.
Accepts_AnyId(dict) ==
  /\ Negotiated(dict) => dict.id # None
  /\ dict.maxPacketLifeTime = None \/ dict.maxRetransmits = None

\* Faulty variant: one limit wins over the other.
Accepts_BothLimits(dict) == Negotiated(dict) <=> dict.id # None

\* Faulty variant: `negotiated' is taken without an id.
Accepts_NoId(dict) ==
  /\ dict.id # None => Negotiated(dict)
  /\ dict.maxPacketLifeTime = None \/ dict.maxRetransmits = None

Accepts(dict) ==
  /\ Negotiated(dict) <=> dict.id # None
  /\ dict.maxPacketLifeTime = None \/ dict.maxRetransmits = None

ChannelInit(dict) ==
  [negotiated |-> Negotiated(dict),
   id |-> IF dict.id = None THEN None ELSE Uint16(Int32(dict.id)),
   maxPacketLifeTime |-> Limit(dict.maxPacketLifeTime),
   maxRetransmits |->
     IF dict.maxPacketLifeTime = None THEN Limit(dict.maxRetransmits) ELSE None,
   unordered |-> dict.ordered = FALSE]

-----------------------------------------------------------------------------
Used == { chans[i].id : i \in DOMAIN chans }

\* A channel: what was asked, if by the script; what the library was told;
\* its id; and, once wrapped, the wrapper's `negotiated'.  `late' is history:
\* the connection was up when the channel was wrapped, which is when its id
\* is asked for; it may not have been when the channel was made.
Channel(asked, init, id, negotiated, late) ==
  [asked |-> asked, init |-> init, id |-> id, negotiated |-> negotiated,
   late |-> late]

\* _create_data_channel up to and with createDataChannel().  A dictionary
\* that is refused, or a library that throws, changes nothing.
CreateDataChannel(dict) ==
  /\ ~making /\ Len(chans) < MaxChannels
  /\ Accepts(dict)
  /\ making' = TRUE
  /\ \E id \in IF dict.id = None /\ link = "up" THEN StreamIds \ Used
                                                 ELSE {ChannelInit(dict).id} :
       chans' = Append(chans, Channel(dict, ChannelInit(dict), id, None, FALSE))
  /\ UNCHANGED link

\* Channels that are not wrapped yet are the script's; the last one is.
Unwrapped == { i \in DOMAIN chans : chans[i].negotiated = None }

\* new_data_channel(ch, ch->id().has_value()).
WrapChannel ==
  /\ making
  /\ making' = FALSE
  /\ chans' = [i \in DOMAIN chans |->
       IF i \in Unwrapped
         THEN [chans[i] EXCEPT !.negotiated = chans[i].id # None,
                               !.late = link = "up"]
         ELSE chans[i]]
  /\ UNCHANGED link

\* The peer opens a channel: onDataChannel wraps it, negotiated is false.
ReceiveChannel(id, unordered) ==
  /\ link = "up" /\ Len(chans) < MaxChannels
  /\ id \notin Used
  /\ chans' = Append(chans,
       Channel(None, [negotiated |-> FALSE, id |-> None,
                      maxPacketLifeTime |-> None, maxRetransmits |-> None,
                      unordered |-> unordered], id, FALSE, TRUE))
  /\ UNCHANGED <<link, making>>

\* The connection comes up, and channels without an id get one.
Connect ==
  /\ link = "new"
  /\ link' = "up"
  /\ \E ids \in [DOMAIN chans -> StreamIds \union Used] :
       /\ \A i \in DOMAIN chans :
            IF chans[i].id # None
              THEN ids[i] = chans[i].id
              ELSE /\ ids[i] \in StreamIds \ Used
                   /\ \A j \in DOMAIN chans : i # j => ids[i] # ids[j]
       /\ chans' = [i \in DOMAIN chans |-> [chans[i] EXCEPT !.id = ids[i]]]
  /\ UNCHANGED making

Next ==
  \/ \E dict \in Dictionaries : CreateDataChannel(dict)
  \/ WrapChannel
  \/ \E id \in StreamIds, unordered \in BOOLEAN : ReceiveChannel(id, unordered)
  \/ Connect

Spec == Init /\ [][Next]_vars

-----------------------------------------------------------------------------
(* The getters of a wrapped channel.                                       *)

OrMinusOne(value) == IF value = None THEN -1 ELSE value

\* value_or(-1) of an optional uint16_t.
ReportedId(id) == IF id = None THEN Uint16(-1) ELSE id

Get(c) ==
  [id |-> ReportedId(c.id), negotiated |-> c.negotiated,
   maxPacketLifeTime |-> OrMinusOne(c.init.maxPacketLifeTime),
   maxRetransmits |-> OrMinusOne(c.init.maxRetransmits),
   ordered |-> ~c.init.unordered]

-----------------------------------------------------------------------------
(* Properties.                                                             *)

Wrapped == { chans[i] : i \in DOMAIN chans \ Unwrapped }
Created == { c \in Wrapped : c.asked # None }

OptionalIds == Uint16s \union {None}
InitLimits == { Int32(n) : n \in Limits } \union {None}
Inits ==
  [negotiated : BOOLEAN, id : OptionalIds,
   maxPacketLifeTime : InitLimits, maxRetransmits : InitLimits,
   unordered : BOOLEAN]
Channels ==
  [asked : Dictionaries \union {None}, init : Inits, id : OptionalIds,
   negotiated : BOOLEAN \union {None}, late : BOOLEAN]

\* The values each variable can have; while Main makes a channel there is
\* just one without a wrapper, and otherwise none.
TypeOK ==
  /\ link \in {"new", "up"} /\ making \in BOOLEAN
  /\ chans \in Seq(Channels)
  /\ making <=> Unwrapped # {}
  /\ \A i, j \in Unwrapped : i = j

\* -1 stands for a key that was not given; of a number that needs more than
\* 32 bits a getter may report anything.
Keeps(asked, reported) ==
  IF asked = None THEN reported = -1
  ELSE asked.high = 0 => reported = asked.low

\* What the getters report of a channel is what the script asked for, as far
\* as the numbers fit the program's integers (32 bits for a limit, 16 for an
\* id): no setting is dropped, not even one of two that contradict each other.
ReportsWhatWasAsked ==
  \A c \in Created :
    /\ Keeps(c.asked.maxPacketLifeTime, Get(c).maxPacketLifeTime)
    /\ Keeps(c.asked.maxRetransmits, Get(c).maxRetransmits)
    /\ Get(c).ordered <=> c.asked.ordered # FALSE
    /\ c.asked.id # None /\ c.asked.id.low \in Uint16s =>
         Keeps(c.asked.id, Get(c).id)

\* A channel that is negotiated by the script on both ends says so, whenever
\* the connection comes up: the wrapper learns it from the id, and a script
\* that trusted a false answer would wait for data_channel_received.
NegotiatedKnown ==
  \A c \in Wrapped : c.init.negotiated => Get(c).negotiated

\* A channel whose wrapper is made before the connection is up is not taken
\* for negotiated if it is not.  (When the connection comes up between
\* createDataChannel() and ch->id() it is: the wrapper is late.)
NotNegotiatedEarly ==
  \A c \in Created : ~c.late /\ c.asked.negotiated # TRUE => ~Get(c).negotiated

\* "ID only makes sense when negotiated": a channel that the script did not
\* ask to be negotiated does not report that it is.
NegotiatedOnlyIfAsked ==
  \A c \in Created : Get(c).negotiated => c.asked.negotiated = TRUE

-----------------------------------------------------------------------------
(* Why they hold, but for the last: what is true of each channel at every  *)
(* stage of its making.                                                    *)

Faithful(c) ==
  /\ IF c.asked = None
       THEN ~c.init.negotiated
       ELSE /\ Accepts(c.asked) /\ c.init = ChannelInit(c.asked)
            /\ ~c.init.negotiated /\ link = "new" => c.id = None
            /\ c.negotiated = TRUE /\ ~c.late => c.init.negotiated
  /\ c.init.negotiated => c.init.id # None
  /\ c.init.id # None => c.id = c.init.id
  /\ c.negotiated = FALSE => ~c.init.negotiated

IndInv == TypeOK /\ \A i \in DOMAIN chans : Faithful(chans[i])
=============================================================================
