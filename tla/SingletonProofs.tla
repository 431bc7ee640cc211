-------------------------- MODULE SingletonProofs ---------------------------
(***************************************************************************)
(* The GDNative library's registration stays right through any number of   *)
(* loadings, replacements and connections.  The invariants of Singleton    *)
(* are inductive together.                                                 *)
(***************************************************************************)
EXTENDS Singleton, TLAPS

IndInv == TypeOK /\ RegistrationKnown /\ NoDanglingLibrary /\ CreationPossible

\* They hold at every step.
THEOREM Invariance == Spec => []IndInv
<1> USE DEF IndInv, TypeOK, RegistrationKnown, NoDanglingLibrary,
            CreationPossible, Pointers
<1>1. Init => IndInv
  <2> SUFFICES ASSUME Init PROVE IndInv
    OBVIOUS
  <2>1. 0 \in 0 .. MaxConnections
    BY ConnectionsAssumption
  <2>2. ~signaling /\ ~net_api /\ ~singleton
    BY DEF Init
  <2>3. RegistrationKnown /\ NoDanglingLibrary /\ CreationPossible
    BY <2>2 DEF Init
  <2>4. TypeOK
    BY <2>1 DEF Init
  <2> QED
    BY <2>3, <2>4
<1>2. IndInv /\ [Next]_vars => IndInv'
  <2> SUFFICES ASSUME IndInv, [Next]_vars PROVE IndInv'
    OBVIOUS
  <2>1. ASSUME NEW found \in BOOLEAN, GdnativeInit(found) PROVE IndInv'
    BY <2>1 DEF GdnativeInit
  <2>2. CASE NoApi
    BY <2>2 DEF NoApi
  <2>3. ASSUME NEW n \in Pointers, LookUpFails(n) PROVE IndInv'
    BY <2>3 DEF LookUpFails
  <2>4. ASSUME NEW ok \in BOOLEAN, Register(ok) PROVE IndInv'
    BY <2>4 DEF Register
  <2>5. CASE OtherRegisters
    BY <2>5 DEF OtherRegisters, Replace
  <2>6. CASE OtherUnregisters
    BY <2>6 DEF OtherUnregisters, Replace
  <2>7. CASE CreatePeerConnection
    BY <2>7, ConnectionsAssumption DEF CreatePeerConnection
  <2>8. CASE FreePeerConnection
    BY <2>8, ConnectionsAssumption DEF FreePeerConnection
  <2>9. CASE Terminate
    BY <2>9 DEF Terminate, Replace
  <2>10. CASE CleanedUp
    BY <2>10 DEF CleanedUp
  <2>11. CASE Forget
    BY <2>11 DEF Forget, engineVars
  <2>12. CASE UNCHANGED vars
    BY <2>12 DEF vars, engineVars
  <2> QED
    BY <2>1, <2>2, <2>3, <2>4, <2>5, <2>6, <2>7, <2>8, <2>9, <2>10, <2>11,
       <2>12 DEF Next
<1> QED
  BY <1>1, <1>2, PTL DEF Spec

\* Types; libdatachannel is set up while the library is loaded.
THEOREM TypeCorrect == Spec => []TypeOK
BY Invariance, PTL DEF IndInv

\* _singleton says whether this library is the engine's.
THEOREM RegistrationIsKnown == Spec => []RegistrationKnown
BY Invariance, PTL DEF IndInv

\* The engine never holds on to an unloaded library.
THEOREM NothingDangles == Spec => []NoDanglingLibrary
BY Invariance, PTL DEF IndInv

\* A connection that is asked for can be made.
THEOREM CreationIsPossible == Spec => []CreationPossible
BY Invariance, PTL DEF IndInv

\* Unloading leaves another library registered: _singleton is not set then.
THEOREM OthersAreSpared == Spec => OtherSpared
<1>1. IndInv /\ [Next]_vars =>
        [stage' = "unloading" /\ active = "other" => active' = "other"]_vars
  <2> SUFFICES ASSUME IndInv, Next, stage' = "unloading", active = "other"
               PROVE  active' = "other"
    BY DEF vars
  <2>1. ~singleton /\ stage \in {"unloaded", "loaded", "offered", "unloading"}
    BY DEF IndInv, TypeOK, RegistrationKnown
  <2> QED
    BY <2>1 DEF Next, GdnativeInit, NoApi, LookUpFails, Register,
      OtherRegisters, OtherUnregisters, CreatePeerConnection,
      FreePeerConnection, Terminate, CleanedUp, Forget, engineVars
<1> QED
  BY Invariance, <1>1, PTL DEF Spec, OtherSpared
=============================================================================
