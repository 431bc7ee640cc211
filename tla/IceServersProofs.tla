-------------------------- MODULE IceServersProofs --------------------------
(***************************************************************************)
(* Whatever "iceServers" holds, however many entries and URLs: the first   *)
(* wrong entry decides how _initialize ends, and a connection is made only *)
(* with all of the servers.                                                *)
(***************************************************************************)
EXTENDS IceServers, TLAPS

-----------------------------------------------------------------------------
(* Sequences of bounded length.                                            *)

\* A function on 1 .. n is a sequence of length n.
LEMMA FunctionLen ==
  ASSUME NEW S, NEW n \in Nat, NEW s \in [1 .. n -> S]
  PROVE  s \in Seq(S) /\ Len(s) = n /\ DOMAIN s = 1 .. n
OBVIOUS

\* A member of SeqOf(S, n) is a sequence over S of at most n elements.
LEMMA SeqOfType ==
  ASSUME NEW S, NEW n \in Nat, NEW s \in SeqOf(S, n)
  PROVE  s \in Seq(S) /\ Len(s) \in 0 .. n /\ DOMAIN s = 1 .. Len(s)
<1>1. PICK m \in 0 .. n : s \in [1 .. m -> S]
  BY DEF SeqOf
<1> QED
  BY <1>1, FunctionLen

\* The configuration and its entries as the loops meet them.
LEMMA ServersType ==
  ASSUME TypeOK
  PROVE  /\ Len(servers) \in Nat /\ DOMAIN servers = 1 .. Len(servers)
         /\ \A k \in 1 .. Len(servers) :
              servers[k] # NoDictionary =>
                /\ servers[k].username \in Names \union {Absent}
                /\ servers[k].credential \in Names \union {Absent}
                /\ servers[k].urls # Absent =>
                     /\ servers[k].urls \in Seq(Urls \union {BadUrl})
                     /\ Len(servers[k].urls) \in 0 .. MaxUrls
                     /\ DOMAIN servers[k].urls = 1 .. Len(servers[k].urls)
<1>1. /\ servers \in Seq(Entries \union {NoDictionary})
      /\ Len(servers) \in Nat /\ DOMAIN servers = 1 .. Len(servers)
  BY SeqOfType, BoundsAssumption DEF TypeOK
<1>2. ASSUME NEW k \in 1 .. Len(servers), servers[k] # NoDictionary
      PROVE  servers[k] \in Entries
  BY <1>1, <1>2
<1>3. ASSUME NEW e \in Entries
      PROVE  /\ e.username \in Names \union {Absent}
             /\ e.credential \in Names \union {Absent}
             /\ e.urls # Absent =>
                  e.urls \in SeqOf(Urls \union {BadUrl}, MaxUrls)
  BY DEF Entries
<1>4. ASSUME NEW u \in SeqOf(Urls \union {BadUrl}, MaxUrls)
      PROVE  /\ u \in Seq(Urls \union {BadUrl})
             /\ Len(u) \in 0 .. MaxUrls /\ DOMAIN u = 1 .. Len(u)
  BY SeqOfType, BoundsAssumption
<1> QED
  BY <1>1, <1>2, <1>3, <1>4

-----------------------------------------------------------------------------
(* The invariant.                                                          *)

\* config, servers and the loops' places are all that Collected depends on.
LEMMA CollectedSame ==
  Collected /\ UNCHANGED <<servers, i, j, config>> => Collected'
<1> SUFFICES ASSUME Collected, UNCHANGED <<servers, i, j, config>>
             PROVE  Collected'
  OBVIOUS
<1> QED
  BY DEF Collected

LEMMA InvInit == Init => IndInv
<1> SUFFICES ASSUME Init PROVE IndInv
  OBVIOUS
<1>1. Len(servers) \in Nat
  BY SeqOfType, BoundsAssumption DEF Init
<1>2. config \in Seq([url : Urls, username : Names \union {Absent},
                     password : Names \union {Absent}])
  BY DEF Init
<1>3. TypeOK
  BY <1>1, <1>2, BoundsAssumption DEF Init, TypeOK
<1>4. PassedOK /\ EndsAtFirst
  BY DEF Init, PassedOK, EndsAtFirst, Running
<1>5. Collected
  <2>1. [k \in 1 .. i |-> 0] \in [1 .. i -> 0 .. Len(config)]
    BY DEF Init
  <2>2. i = 1 /\ j = 1 /\ Len(config) = 0
    BY DEF Init
  <2>3. 1 .. i - 1 = {} /\ 1 .. j - 1 = {}
    BY <2>2
  <2>4. [k \in 1 .. i |-> 0][1] = 0 /\ [k \in 1 .. i |-> 0][i] + (j - 1) = 0
    BY <2>2
  <2> QED
    BY <2>1, <2>2, <2>3, <2>4 DEF Collected
<1> QED
  BY <1>3, <1>4, <1>5 DEF IndInv

\* A step that ends _initialize leaves what was collected as it is.
LEMMA EndStep ==
  ASSUME IndInv, NEW how, End(how),
         how \in {"OK", "FAILED", "ERR_INVALID_PARAMETER", "exception"},
         \/ i = Len(servers) + 1 /\ how \in {"OK", "FAILED"}
         \/ i <= Len(servers) /\ how = Outcome(servers[i]) /\ how # "OK"
  PROVE  IndInv'
<1>1. TypeOK' /\ PassedOK'
  BY DEF IndInv, End, TypeOK, PassedOK, Outcome
<1>2. EndsAtFirst'
  BY DEF End, EndsAtFirst
<1>3. Collected'
  BY CollectedSame DEF IndInv, End
<1> QED
  BY <1>1, <1>2, <1>3 DEF IndInv

\* AddServer puts the URL the loop is at behind those before it.
LEMMA AddStep == IndInv /\ AddServer => IndInv'
<1> SUFFICES ASSUME IndInv, AddServer PROVE IndInv'
  OBVIOUS
<1> DEFINE Server == [url : Urls, username : Names \union {Absent},
                      password : Names \union {Absent}]
           new == IceServer(servers[i], servers[i].urls[j])
<1>1. /\ Running /\ i \in 1 .. Len(servers)
      /\ servers[i] # NoDictionary /\ servers[i].urls # Absent
      /\ j \in 1 .. Len(servers[i].urls) /\ servers[i].urls[j] # BadUrl
      /\ UNCHANGED <<servers, i, result>> /\ j' = j + 1
  BY DEF IndInv, TypeOK, AddServer, AtUrl, AtEntry
<1>2. /\ servers[i].urls \in Seq(Urls \union {BadUrl})
      /\ Len(servers[i].urls) \in 0 .. MaxUrls
      /\ DOMAIN servers[i].urls = 1 .. Len(servers[i].urls)
      /\ servers[i].username \in Names \union {Absent}
      /\ servers[i].credential \in Names \union {Absent}
  BY <1>1, ServersType DEF IndInv
<1>3. new \in Server
  <2>1. servers[i].urls[j] \in Urls
    BY <1>1, <1>2
  <2> QED
    BY <1>2, <2>1 DEF IceServer
<1>4. config \in Seq(Server) /\ config' = Append(config, new)
  BY DEF IndInv, TypeOK, AddServer
<1>5. /\ config' \in Seq(Server) /\ Len(config') = Len(config) + 1
      /\ \A k \in 1 .. Len(config) : config'[k] = config[k]
      /\ config'[Len(config) + 1] = new
      /\ Len(config) \in Nat
  BY <1>3, <1>4
<1>6. TypeOK'
  BY <1>1, <1>2, <1>5, BoundsAssumption DEF IndInv, TypeOK
<1>7. PassedOK'
  BY <1>1, <1>2 DEF IndInv, PassedOK, TypeOK, Outcome
<1>8. EndsAtFirst'
  BY <1>1 DEF EndsAtFirst, Running
<1>9. Collected'
  <2>1. PICK start \in [1 .. i -> 0 .. Len(config)] :
          /\ start[1] = 0 /\ start[i] + (j - 1) = Len(config)
          /\ \A k \in 1 .. i - 1 :
               /\ start[k + 1] = start[k] + Len(servers[k].urls)
               /\ \A l \in DOMAIN servers[k].urls :
                    config[start[k] + l] = Listed(servers[k])[l]
          /\ \A l \in 1 .. j - 1 : config[start[i] + l] = Listed(servers[i])[l]
    BY DEF IndInv, Collected
  <2>2. start \in [1 .. i' -> 0 .. Len(config')]
    BY <1>1, <1>5
  <2>3. start[i'] + (j' - 1) = Len(config')
    BY <1>1, <1>5, <2>1
  <2>4. ASSUME NEW k \in 1 .. i - 1, NEW l \in DOMAIN servers[k].urls
        PROVE  config'[start[k] + l] = Listed(servers[k])[l]
    <3>1. /\ DOMAIN servers[k].urls = 1 .. Len(servers[k].urls)
          /\ Len(servers[k].urls) \in Nat
      <4>1. k \in 1 .. Len(servers) /\ Outcome(servers[k]) = "OK"
        BY <1>1 DEF IndInv, PassedOK
      <4>2. servers[k] # NoDictionary /\ servers[k].urls # Absent
        BY <4>1 DEF Outcome
      <4> QED
        BY <4>1, <4>2, ServersType DEF IndInv
    <3>2. start[k] \in 0 .. Len(config) /\ start[k + 1] \in 0 .. Len(config)
      <4>1. k \in 1 .. i /\ k + 1 \in 1 .. i
        BY <1>1
      <4> QED
        BY <2>1, <4>1
    <3>3. start[k] + l \in 1 .. Len(config)
      <4>1. start[k + 1] = start[k] + Len(servers[k].urls)
        BY <2>1
      <4>2. l \in 1 .. Len(servers[k].urls)
        BY <3>1
      <4> QED
        BY <1>5, <3>1, <3>2, <4>1, <4>2
    <3> QED
      BY <1>5, <2>1, <3>3
  <2>5. ASSUME NEW l \in 1 .. j
        PROVE  config'[start[i] + l] = Listed(servers[i])[l]
    <3>1. start[i] \in Nat
      BY <1>1
    <3>2. CASE l < j
      BY <1>1, <1>5, <2>1, <3>1, <3>2
    <3>3. CASE l = j
      <4>1. start[i] + l = Len(config) + 1
        BY <1>1, <2>1, <3>1, <3>3
      <4>2. Listed(servers[i])[l] = new
        BY <1>1, <1>2, <3>3 DEF Listed, IceServer
      <4> QED
        BY <1>5, <4>1, <4>2
    <3> QED
      BY <1>1, <3>2, <3>3
  <2>6. i' = i /\ servers' = servers /\ 1 .. j' - 1 = 1 .. j
    BY <1>1
  <2>7. \A k \in 1 .. i - 1 :
          /\ start[k + 1] = start[k] + Len(servers[k].urls)
          /\ \A l \in DOMAIN servers[k].urls :
               config'[start[k] + l] = Listed(servers[k])[l]
    BY <2>1, <2>4
  <2> QED
    BY <2>1, <2>2, <2>3, <2>5, <2>6, <2>7 DEF Collected
<1> QED
  BY <1>6, <1>7, <1>8, <1>9 DEF IndInv

\* The next entry starts where config ends.
LEMMA NextEntryStep == IndInv /\ NextEntry => IndInv'
<1> SUFFICES ASSUME IndInv, NextEntry PROVE IndInv'
  OBVIOUS
<1>1. /\ Running /\ i \in 1 .. Len(servers) /\ j \in Nat \ {0}
      /\ servers[i] # NoDictionary /\ servers[i].urls # Absent
      /\ j > Len(servers[i].urls)
      /\ UNCHANGED <<servers, config, result>> /\ i' = i + 1 /\ j' = 1
  BY DEF IndInv, TypeOK, NextEntry, AtEntry
<1>2. /\ Len(servers[i].urls) \in 0 .. MaxUrls
      /\ DOMAIN servers[i].urls = 1 .. Len(servers[i].urls)
  BY <1>1, ServersType DEF IndInv
<1>3. j = Len(servers[i].urls) + 1
  BY <1>1, <1>2 DEF IndInv, PassedOK
<1>4. TypeOK'
  BY <1>1, BoundsAssumption DEF IndInv, TypeOK
<1>5. PassedOK'
  <2>1. Outcome(servers[i]) = "OK"
    BY <1>1, <1>2, <1>3 DEF IndInv, PassedOK, Outcome
  <2>2. ASSUME NEW k \in 1 .. i' - 1 PROVE Outcome(servers[k])' = "OK"
    <3>1. Outcome(servers[k]) = "OK"
      BY <1>1, <2>1 DEF IndInv, PassedOK
    <3> QED
      BY <1>1, <3>1 DEF Outcome
  <2> QED
    BY <1>1, <2>2 DEF PassedOK
<1>6. EndsAtFirst'
  BY <1>1 DEF EndsAtFirst, Running
<1>7. Collected'
  <2>1. PICK start \in [1 .. i -> 0 .. Len(config)] :
          /\ start[1] = 0 /\ start[i] + (j - 1) = Len(config)
          /\ \A k \in 1 .. i - 1 :
               /\ start[k + 1] = start[k] + Len(servers[k].urls)
               /\ \A l \in DOMAIN servers[k].urls :
                    config[start[k] + l] = Listed(servers[k])[l]
          /\ \A l \in 1 .. j - 1 : config[start[i] + l] = Listed(servers[i])[l]
    BY DEF IndInv, Collected
  <2> DEFINE next == [k \in 1 .. i + 1 |->
                        IF k = i + 1 THEN Len(config) ELSE start[k]]
  <2>2. Len(config) \in Nat
    BY DEF IndInv, TypeOK
  <2>3. next \in [1 .. i' -> 0 .. Len(config')]
    BY <1>1, <2>2
  <2>4. next[1] = 0 /\ next[i'] + (j' - 1) = Len(config')
    BY <1>1, <2>1, <2>2
  <2>5. \A k \in 1 .. i : next[k] = start[k]
    BY <1>1
  <2>6. next[i + 1] = Len(config)
    BY <1>1
  <2> HIDE DEF next
  <2>7. ASSUME NEW k \in 1 .. i
        PROVE  /\ next[k + 1] = next[k] + Len(servers[k].urls)
               /\ \A l \in DOMAIN servers[k].urls :
                    config[next[k] + l] = Listed(servers[k])[l]
    <3>1. next[k] = start[k]
      BY <2>5
    <3>2. CASE k < i
      <4>1. next[k + 1] = start[k + 1]
        BY <1>1, <2>5, <3>2
      <4>2. k \in 1 .. i - 1
        BY <1>1, <3>2
      <4> QED
        BY <2>1, <3>1, <4>1, <4>2
    <3>3. CASE k = i
      <4>1. next[k + 1] = Len(config)
        BY <2>6, <3>3
      <4>2. start[i] \in 0 .. Len(config) /\ Len(config) = start[i] + (j - 1)
        BY <1>1, <2>1
      <4>3. \A l \in DOMAIN servers[i].urls :
              config[start[i] + l] = Listed(servers[i])[l]
        BY <1>2, <1>3, <2>1
      <4>4. j - 1 = Len(servers[i].urls)
        BY <1>2, <1>3
      <4> QED
        BY <3>1, <3>3, <4>1, <4>2, <4>3, <4>4
    <3> QED
      BY <1>1, <3>2, <3>3
  <2>8. i' - 1 = i /\ 1 .. j' - 1 = {}
    BY <1>1
  <2>9. config' = config /\ servers' = servers
    BY <1>1
  <2> QED
    BY <2>3, <2>4, <2>7, <2>8, <2>9 DEF Collected
<1> QED
  BY <1>4, <1>5, <1>6, <1>7 DEF IndInv

-----------------------------------------------------------------------------
(* The theorems.                                                           *)

\* The invariant holds in every reachable state.
THEOREM Invariance == Spec => []IndInv
<1>1. IndInv /\ [Next]_vars => IndInv'
  <2> SUFFICES ASSUME IndInv, [Next]_vars PROVE IndInv'
    OBVIOUS
  <2>1. CASE RefuseEntry
    <3>1. i <= Len(servers) /\ Outcome(servers[i]) = "ERR_INVALID_PARAMETER"
      BY <2>1 DEF RefuseEntry, AtEntry, Outcome
    <3> QED
      BY <2>1, <3>1, EndStep DEF RefuseEntry
  <2>2. CASE RefuseServer
    <3>1. i <= Len(servers) /\ Outcome(servers[i]) = "FAILED"
      BY <2>2 DEF RefuseServer, AtEntry, Outcome
    <3> QED
      BY <2>2, <3>1, EndStep DEF RefuseServer
  <2>3. CASE UrlThrows
    <3>1. /\ i \in 1 .. Len(servers) /\ j \in 1 .. Len(servers[i].urls)
          /\ servers[i] # NoDictionary /\ servers[i].urls # Absent
      BY <2>3 DEF IndInv, TypeOK, UrlThrows, AtUrl, AtEntry
    <3>2. j \in DOMAIN servers[i].urls
      BY <3>1, ServersType DEF IndInv
    <3>3. Outcome(servers[i]) = "exception"
      BY <2>3, <3>1, <3>2 DEF UrlThrows, Outcome
    <3> QED
      BY <2>3, <3>1, <3>3, EndStep DEF UrlThrows
  <2>4. CASE CreatePc
    <3>1. i = Len(servers) + 1
      BY <2>4, ServersType DEF IndInv, TypeOK, CreatePc
    <3> QED
      BY <2>4, <3>1, EndStep DEF CreatePc
  <2>5. CASE UNCHANGED vars
    BY <2>5, CollectedSame DEF vars, IndInv, TypeOK, PassedOK, EndsAtFirst,
       Running, Outcome
  <2> QED
    BY <2>1, <2>2, <2>3, <2>4, <2>5, AddStep, NextEntryStep DEF Next
<1> QED
  BY InvInit, <1>1, PTL DEF Spec

\* No server that is configured has a URL the library does not take, and the
\* loops stay within their arrays.
THEOREM TypeCorrect == Spec => []TypeOK
BY Invariance, PTL DEF IndInv

\* The entries before the one that ended the loop are all right, so it is the
\* first wrong one.
THEOREM FirstDecides == Spec => []FirstWrongDecides
<1>1. IndInv => FirstWrongDecides
  <2> SUFFICES ASSUME IndInv, result # "running"
               PROVE  IF Bad = {} THEN result \in {"OK", "FAILED"}
                      ELSE \E k \in Bad : /\ result = Outcome(servers[k])
                                          /\ \A l \in Bad : k <= l
    BY DEF FirstWrongDecides
  <2>1. /\ Len(servers) \in Nat /\ DOMAIN servers = 1 .. Len(servers)
        /\ i \in 1 .. Len(servers) + 1
    BY ServersType DEF IndInv, TypeOK
  <2>2. \A k \in 1 .. i - 1 : k \notin Bad
    BY DEF IndInv, PassedOK, Bad
  <2>3. CASE i = Len(servers) + 1 /\ result \in {"OK", "FAILED"}
    <3>1. Bad = {}
      BY <2>1, <2>2, <2>3 DEF Bad
    <3> QED
      BY <2>3, <3>1
  <2>4. CASE i <= Len(servers) /\ result = Outcome(servers[i]) /\ result # "OK"
    <3>1. i \in Bad
      BY <2>1, <2>4 DEF Bad
    <3>2. \A l \in Bad : i <= l
      BY <2>1, <2>2 DEF Bad
    <3> QED
      BY <2>4, <3>1, <3>2
  <2> QED
    BY <2>3, <2>4 DEF IndInv, EndsAtFirst, Running
<1> QED
  BY Invariance, <1>1, PTL

\* A connection is made with exactly the servers that were asked for, in the
\* order they were given.
THEOREM ServersUsed == Spec => []AllServersUsed
<1>1. IndInv => AllServersUsed
  <2> SUFFICES ASSUME IndInv, result = "OK"
               PROVE  IsConcat(config,
                               [k \in DOMAIN servers |-> Listed(servers[k])])
    BY DEF AllServersUsed
  <2> DEFINE lists == [k \in DOMAIN servers |-> Listed(servers[k])]
  <2>1. /\ Len(servers) \in Nat /\ DOMAIN servers = 1 .. Len(servers)
        /\ i = Len(servers) + 1 /\ j = 1
    BY ServersType DEF IndInv, TypeOK, EndsAtFirst, Running, PassedOK
  <2>2. Len(lists) = Len(servers) /\ DOMAIN lists = 1 .. Len(servers)
    BY <2>1
  <2>3. \A k \in 1 .. Len(servers) :
          /\ Len(lists[k]) = Len(servers[k].urls)
          /\ DOMAIN lists[k] = DOMAIN servers[k].urls
    <3> TAKE k \in 1 .. Len(servers)
    <3>1. servers[k] # NoDictionary /\ servers[k].urls # Absent
      BY <2>1 DEF IndInv, PassedOK, Outcome
    <3>2. /\ DOMAIN servers[k].urls = 1 .. Len(servers[k].urls)
          /\ Len(servers[k].urls) \in Nat
      BY <3>1, ServersType DEF IndInv
    <3>3. lists[k] = Listed(servers[k])
      BY <2>1
    <3> QED
      BY <3>2, <3>3 DEF Listed
  <2>4. \A k \in 1 .. Len(servers) : lists[k] = Listed(servers[k])
    BY <2>1
  <2> HIDE DEF lists
  <2>5. PICK start \in [1 .. i -> 0 .. Len(config)] :
          /\ start[1] = 0 /\ start[i] + (j - 1) = Len(config)
          /\ \A k \in 1 .. i - 1 :
               /\ start[k + 1] = start[k] + Len(servers[k].urls)
               /\ \A l \in DOMAIN servers[k].urls :
                    config[start[k] + l] = Listed(servers[k])[l]
    BY DEF IndInv, Collected
  <2>6. /\ start \in [1 .. Len(lists) + 1 -> 0 .. Len(config)]
        /\ start[Len(lists) + 1] = Len(config)
    BY <2>1, <2>2, <2>5
  <2>7. \A k \in DOMAIN lists :
          /\ start[k + 1] = start[k] + Len(lists[k])
          /\ \A l \in DOMAIN lists[k] : config[start[k] + l] = lists[k][l]
    BY <2>1, <2>2, <2>3, <2>4, <2>5
  <2>8. IsConcat(config, lists)
    BY <2>5, <2>6, <2>7 DEF IsConcat
  <2> QED
    BY <2>8 DEF lists
<1> QED
  BY Invariance, <1>1, PTL
=============================================================================
