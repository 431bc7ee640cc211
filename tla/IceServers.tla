----------------------------- MODULE IceServers -----------------------------
(***************************************************************************)
(* _initialize, behind its _close: the loop over "iceServers" with         *)
(* _parse_ice_server inside, and _create_pc with what they collected.  Any *)
(* entry may end it: early with an error, or, a URL that the library does  *)
(* not take, with an exception that neither of the two catches.            *)
(***************************************************************************)
EXTENDS Integers, Sequences, SequencesExt

CONSTANTS
  Urls,        \* URLs of servers that the library takes
  BadUrl,      \* one that rtc::IceServer refuses
  Names,       \* user names, and credentials
  Absent,      \* a key that is missing, or whose value is of another type
  MaxServers,  \* bound: entries of "iceServers"
  MaxUrls      \* bound: URLs of an entry

ASSUME BoundsAssumption == MaxServers \in Nat /\ MaxUrls \in Nat

\* An entry of "iceServers": a dictionary (a single URL is an array of one),
\* or something else.
Entries ==
  [urls : SeqOf(Urls \union {BadUrl}, MaxUrls) \union {Absent},
   username : Names \union {Absent}, credential : Names \union {Absent}]
NoDictionary == Absent

VARIABLES
  servers,  \* p_config["iceServers"]
  i, j,     \* the entry and the URL the loops are at
  config,   \* config.iceServers
  result    \* how _initialize ended

vars == <<servers, i, j, config, result>>

Init ==
  /\ servers \in SeqOf(Entries \union {NoDictionary}, MaxServers)
  /\ i = 1 /\ j = 1 /\ config = <<>>
  /\ result = "running"

Running == result = "running"
AtEntry == Running /\ i <= Len(servers)
AtUrl ==
  /\ AtEntry
  /\ servers[i] # NoDictionary /\ servers[i].urls # Absent
  /\ j <= Len(servers[i].urls)

End(how) == result' = how /\ UNCHANGED <<servers, i, j, config>>

-----------------------------------------------------------------------------
\* Faulty variant: user name and credential are declared outside the loop.
IceServer_Leaking(entry, url) ==
  LET Given(key) == { k \in 1 .. i : servers[k][key] # Absent }
      Latest(key) == IF Given(key) = {} THEN Absent
                     ELSE servers[CHOOSE k \in Given(key) :
                                    \A l \in Given(key) : l <= k][key]
  IN  [url |-> url, username |-> Latest("username"),
       password |-> Latest("credential")]

\* rtc::IceServer, whose user name and password are "" by default.
IceServer(entry, url) ==
  [url |-> url, username |-> entry.username, password |-> entry.credential]

\* ERR_INVALID_PARAMETER of the loop itself.
RefuseEntry ==
  /\ AtEntry
  /\ servers[i] = NoDictionary
  /\ End("ERR_INVALID_PARAMETER")

\* Faulty variant: a server without usable URLs is skipped.
RefuseServer_Skipped ==
  /\ AtEntry
  /\ servers[i] # NoDictionary /\ servers[i].urls = Absent
  /\ i' = i + 1
  /\ UNCHANGED <<servers, j, config, result>>

\* _parse_ice_server returns an error, for which _initialize returns FAILED.
RefuseServer ==
  /\ AtEntry
  /\ servers[i] # NoDictionary /\ servers[i].urls = Absent
  /\ End("FAILED")

\* rtc::IceServer(url) throws.
UrlThrows ==
  /\ AtUrl
  /\ servers[i].urls[j] = BadUrl
  /\ End("exception")

AddServer ==
  /\ AtUrl
  /\ servers[i].urls[j] # BadUrl
  /\ config' = Append(config, IceServer(servers[i], servers[i].urls[j]))
  /\ j' = j + 1
  /\ UNCHANGED <<servers, i, result>>

NextEntry ==
  /\ AtEntry
  /\ servers[i] # NoDictionary /\ servers[i].urls # Absent
  /\ j > Len(servers[i].urls)
  /\ i' = i + 1 /\ j' = 1
  /\ UNCHANGED <<servers, config, result>>

\* _create_pc, which the library may make fail.
CreatePc ==
  /\ Running /\ i > Len(servers)
  /\ End("OK") \/ End("FAILED")

Next ==
  RefuseEntry \/ RefuseServer \/ UrlThrows \/ AddServer \/ NextEntry \/ CreatePc

Spec == Init /\ [][Next]_vars

-----------------------------------------------------------------------------
(* Properties, against a definition of the result without loops.           *)

\* The values each variable can have; no server has a URL that the library
\* does not take.
TypeOK ==
  /\ servers \in SeqOf(Entries \union {NoDictionary}, MaxServers)
  /\ i \in 1 .. Len(servers) + 1 /\ j \in 1 .. MaxUrls + 1
  /\ config \in Seq([url : Urls, username : Names \union {Absent},
                     password : Names \union {Absent}])
  /\ result \in {"running", "OK", "FAILED", "ERR_INVALID_PARAMETER",
                 "exception"}

Listed(entry) ==
  [k \in DOMAIN entry.urls |->
     [url |-> entry.urls[k], username |-> entry.username,
      password |-> entry.credential]]

Outcome(entry) ==
  IF entry = NoDictionary THEN "ERR_INVALID_PARAMETER"
  ELSE IF entry.urls = Absent THEN "FAILED"
  ELSE IF \E k \in DOMAIN entry.urls : entry.urls[k] = BadUrl THEN "exception"
  ELSE "OK"

Bad == { k \in DOMAIN servers : Outcome(servers[k]) # "OK" }

\* The first entry that is wrong decides how _initialize ends; only if there
\* is none is a connection made, unless the library fails.
FirstWrongDecides ==
  result # "running" =>
    IF Bad = {} THEN result \in {"OK", "FAILED"}
    ELSE \E k \in Bad : result = Outcome(servers[k]) /\ \A l \in Bad : k <= l

\* c is the concatenation of the sequences lists[1], lists[2], ...: cut at
\* the right places, it falls into them.
IsConcat(c, lists) ==
  \E start \in [1 .. Len(lists) + 1 -> 0 .. Len(c)] :
    /\ start[1] = 0 /\ start[Len(lists) + 1] = Len(c)
    /\ \A k \in DOMAIN lists :
         /\ start[k + 1] = start[k] + Len(lists[k])
         /\ \A l \in DOMAIN lists[k] : c[start[k] + l] = lists[k][l]

\* A connection is made with every URL of every entry, in their order, and
\* each with its own entry's user name and credential or none: an entry
\* without a password does not get the password of the one before.
AllServersUsed ==
  result = "OK" =>
    IsConcat(config, [k \in DOMAIN servers |-> Listed(servers[k])])

-----------------------------------------------------------------------------
(* Why: an inductive invariant in parts.                                   *)

\* The loops leave nothing behind that would have ended them.
PassedOK ==
  /\ \A k \in 1 .. i - 1 : Outcome(servers[k]) = "OK"
  /\ j > 1 =>
       /\ i <= Len(servers) /\ servers[i] # NoDictionary
       /\ servers[i].urls # Absent /\ j <= Len(servers[i].urls) + 1
       /\ \A l \in 1 .. j - 1 : servers[i].urls[l] # BadUrl

\* What ended them is what they were at.
EndsAtFirst ==
  \/ Running
  \/ i = Len(servers) + 1 /\ result \in {"OK", "FAILED"}
  \/ i <= Len(servers) /\ result = Outcome(servers[i]) /\ result # "OK"

\* config holds the entries before i, and of entry i the URLs before j.
Collected ==
  \E start \in [1 .. i -> 0 .. Len(config)] :
    /\ start[1] = 0 /\ start[i] + (j - 1) = Len(config)
    /\ \A k \in 1 .. i - 1 :
         /\ start[k + 1] = start[k] + Len(servers[k].urls)
         /\ \A l \in DOMAIN servers[k].urls :
              config[start[k] + l] = Listed(servers[k])[l]
    /\ \A l \in 1 .. j - 1 : config[start[i] + l] = Listed(servers[i])[l]

IndInv == TypeOK /\ PassedOK /\ EndsAtFirst /\ Collected
=============================================================================
