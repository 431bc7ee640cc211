----------------------------- MODULE Singleton ------------------------------
(***************************************************************************)
(* The life of the GDNative library (Godot 3): loading, registering as the *)
(* engine's one WebRTC library, making peer connections for it, being      *)
(* replaced by another library, and unloading.  All of it runs on the      *)
(* engine's main thread; the order is the engine's.  The static variables  *)
(* of init_gdnative.cpp may outlive an unloading: the next loading finds   *)
(* them as they were left.                                                 *)
(*                                                                         *)
(* Engine: it has at most one WebRTC library.  To take another, or none,   *)
(* it first drops the one it has and calls its `unregistered'.  It loads   *)
(* the library before it calls it, and godot_gdnative_singleton at most    *)
(* once per loading.                                                       *)
(*                                                                         *)
(* Library: rtc::Cleanup() is over when all connections are freed.         *)
(***************************************************************************)
EXTENDS Integers

CONSTANT MaxConnections  \* bound: connections at a time

ASSUME ConnectionsAssumption == MaxConnections \in Nat

\* The pointers godot_gdnative_singleton looks up, in this order (_singleton_api
\* and _singleton_lib come from the loading and are always there).
Pointers == 1 .. 4

VARIABLES
  stage,       \* of the library: "unloaded", "loaded", "offered" (once
               \* godot_gdnative_singleton was called) or "unloading"
  active,      \* the engine's WebRTC library: "ours", "other" or "none"
  connections, \* peer connections that exist
  signaling,   \* rtc::InitLogger was called, and rtc::Cleanup() not yet over
  \* Static variables.
  net_api,     \* _net_api is set
  pointers,    \* those of Pointers that are not NULL
  singleton    \* _singleton

engineVars == <<stage, active, connections>>
vars == <<engineVars, signaling, net_api, pointers, singleton>>

Init ==
  /\ stage = "unloaded" /\ active \in {"other", "none"} /\ connections = 0
  /\ signaling = FALSE
  /\ net_api = FALSE /\ pointers = {} /\ singleton = FALSE

-----------------------------------------------------------------------------
\* Faulty variant: `unregistered' does nothing.
Replace_Silently(library) == active' = library /\ UNCHANGED singleton

\* godot_net_set_webrtc_library, for either library; `unregistered'.
Replace(library) ==
  /\ active' = library
  /\ singleton' = (singleton /\ active # "ours")

\* godot_gdnative_init: looks for version 3.2 of the net API.
GdnativeInit(found) ==
  /\ stage = "unloaded"
  /\ stage' = "loaded"
  /\ net_api' = (net_api \/ found)
  /\ signaling' = TRUE
  /\ UNCHANGED <<active, connections, pointers, singleton>>

\* Faulty variant: _singleton is set whatever the lookups gave.
LookUpFails_Registers(n) ==
  /\ stage = "loaded" /\ net_api
  /\ stage' = "offered"
  /\ pointers' = (pointers \union 1 .. n - 1) \ {n}
  /\ active' = "ours" /\ singleton' = TRUE
  /\ UNCHANGED <<connections, signaling, net_api>>

\* godot_gdnative_singleton: without the API nothing; else it looks up one
\* pointer after the other and gives up at the first that is NULL.
NoApi ==
  /\ stage = "loaded" /\ ~net_api
  /\ stage' = "offered"
  /\ UNCHANGED <<active, connections, signaling, net_api, pointers, singleton>>

LookUpFails(n) ==
  /\ stage = "loaded" /\ net_api
  /\ stage' = "offered"
  /\ pointers' = (pointers \union 1 .. n - 1) \ {n}
  /\ UNCHANGED <<active, connections, signaling, net_api, singleton>>

\* With all pointers it registers, and learns whether the engine took it.
Register(ok) ==
  /\ stage = "loaded" /\ net_api
  /\ stage' = "offered"
  /\ pointers' = Pointers
  /\ active' = IF ok THEN "ours" ELSE "none"
  /\ singleton' = ok
  /\ UNCHANGED <<connections, signaling, net_api>>

OtherRegisters ==
  /\ stage # "unloading" /\ active # "other"
  /\ Replace("other")
  /\ UNCHANGED <<stage, connections, signaling, net_api, pointers>>

OtherUnregisters ==
  /\ stage # "unloading" /\ active = "other"
  /\ Replace("none")
  /\ UNCHANGED <<stage, connections, signaling, net_api, pointers>>

\* The engine makes a connection through its library;
\* create_peer_connection_wp refuses when it is not the singleton.
CreatePeerConnection ==
  /\ stage # "unloading" /\ active = "ours" /\ singleton
  /\ connections < MaxConnections
  /\ connections' = connections + 1
  /\ UNCHANGED <<stage, active, signaling, net_api, pointers, singleton>>

FreePeerConnection ==
  /\ stage # "unloading" /\ connections > 0
  /\ connections' = connections - 1
  /\ UNCHANGED <<stage, active, signaling, net_api, pointers, singleton>>

\* Faulty variant: it unregisters whatever library there is.
Terminate_Always ==
  /\ stage \in {"loaded", "offered"}
  /\ stage' = "unloading"
  /\ Replace("none")
  /\ UNCHANGED <<connections, signaling, net_api, pointers>>

\* Faulty variant: it leaves the engine with the library.
Terminate_Registered ==
  /\ stage \in {"loaded", "offered"}
  /\ stage' = "unloading"
  /\ UNCHANGED <<active, connections, signaling, net_api, pointers, singleton>>

\* godot_gdnative_terminate up to rtc::Cleanup().wait(): the active library
\* unregisters.
Terminate ==
  /\ stage \in {"loaded", "offered"}
  /\ stage' = "unloading"
  /\ IF singleton THEN Replace("none") ELSE UNCHANGED <<active, singleton>>
  /\ UNCHANGED <<connections, signaling, net_api, pointers>>

\* The wait is over.
CleanedUp ==
  /\ stage = "unloading" /\ connections = 0
  /\ stage' = "unloaded"
  /\ signaling' = FALSE
  /\ UNCHANGED <<active, connections, net_api, pointers, singleton>>

\* Unloaded for good: the next loading finds the static variables anew.
Forget ==
  /\ stage = "unloaded"
  /\ net_api' = FALSE /\ pointers' = {} /\ singleton' = FALSE
  /\ UNCHANGED <<engineVars, signaling>>

Next ==
  \/ \E found \in BOOLEAN : GdnativeInit(found)
  \/ NoApi \/ \E n \in Pointers : LookUpFails(n)
  \/ \E ok \in BOOLEAN : Register(ok)
  \/ OtherRegisters \/ OtherUnregisters
  \/ CreatePeerConnection \/ FreePeerConnection
  \/ Terminate \/ CleanedUp \/ Forget

Spec == Init /\ [][Next]_vars

-----------------------------------------------------------------------------
(* Properties.                                                             *)

\* The values each variable can have; libdatachannel is set up from loading
\* to unloading.
TypeOK ==
  /\ stage \in {"unloaded", "loaded", "offered", "unloading"}
  /\ active \in {"ours", "other", "none"}
  /\ connections \in 0 .. MaxConnections
  /\ pointers \subseteq Pointers
  /\ net_api \in BOOLEAN /\ singleton \in BOOLEAN /\ signaling \in BOOLEAN
  /\ signaling <=> stage # "unloaded"

\* _singleton tells whether the engine would call this library: it is set by
\* the library, cleared by the engine's call, and both survive being replaced,
\* unloaded and loaded again.
RegistrationKnown == singleton <=> active = "ours"

\* The engine keeps no pointer to a library that is not loaded, or on its way
\* out.
NoDanglingLibrary == active = "ours" => stage = "offered"

\* When the engine asks for a connection, every pointer the creation calls
\* through is there and libdatachannel is set up, also if a first loading
\* left the static variables set and the lookups of a second one failed.
CreationPossible ==
  active = "ours" => net_api /\ pointers = Pointers /\ signaling

\* Unloading does not unregister another library that has taken over.
OtherSpared ==
  [][stage' = "unloading" /\ active = "other" => active' = "other"]_vars
=============================================================================
