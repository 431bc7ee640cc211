----------------------------- MODULE SignalLine -----------------------------
(***************************************************************************)
(* What a peer connection promises of its signals, without threads, locks, *)
(* states that are shared or polls inside polls: signals are numbered as   *)
(* the library gives them and stand in line for the script.  A poll takes  *)
(* all that stand in the line and emits them one after the other.  Ending  *)
(* a session empties the line, though not what a poll has taken.           *)
(* PeerConnection is shown to implement this module.                       *)
(***************************************************************************)
EXTENDS Integers, Sequences

CONSTANT Sessions

VARIABLES
  session,    \* the present session
  given,      \* the session of each signal given so far
  queued,     \* the signals that stand in the line
  taken,      \* the signals polls have taken and not yet emitted
  emitted,    \* the signals emitted, in their order
  reentrant   \* a handler has polled

vars == <<session, given, queued, taken, emitted, reentrant>>

Init ==
  /\ session = 0 /\ given = <<>>
  /\ queued = {} /\ taken = {} /\ emitted = <<>>
  /\ reentrant = FALSE

\* A connection gives a signal; only the present one's joins the line.
Give(s) ==
  /\ given' = Append(given, s)
  /\ queued' = IF s = session THEN queued \union {Len(given')} ELSE queued
  /\ UNCHANGED <<session, taken, emitted, reentrant>>

\* A poll takes the line as it is; the poll before it is done, unless a
\* handler of that one polls.
Take ==
  /\ reentrant \/ taken = {}
  /\ taken' = taken \union queued
  /\ queued' = {}
  /\ UNCHANGED <<session, given, emitted, reentrant>>

\* The first signal of what was taken, unless a handler has polled.
Emit(n) ==
  /\ n \in taken
  /\ reentrant \/ \A m \in taken : n <= m
  /\ taken' = taken \ {n}
  /\ emitted' = Append(emitted, n)
  /\ UNCHANGED <<session, given, queued, reentrant>>

Reenter ==
  /\ reentrant' = TRUE
  /\ UNCHANGED <<session, given, queued, taken, emitted>>

NewSession ==
  /\ session' = session + 1
  /\ queued' = {}
  /\ UNCHANGED <<given, taken, emitted, reentrant>>

Next ==
  \/ \E s \in Sessions : Give(s)
  \/ Take
  \/ \E n \in taken : Emit(n)
  \/ Reenter
  \/ NewSession

Spec == Init /\ [][Next]_vars
=============================================================================
