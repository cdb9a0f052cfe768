------------------------------- MODULE RetryLoop -------------------------------
(***************************************************************************)
(* What run_relay_connection (src/relay.rs) promises to whoever reads its   *)
(* status: a loop that tries, perhaps holds, waits a bounded and never      *)
(* zero delay, and tries again, forever.  The delay does not shrink while   *)
(* sessions keep failing.                                                   *)
(***************************************************************************)
EXTENDS Naturals

CONSTANTS
  Base,   \* the first delay
  Cap     \* the longest

VARIABLES
  phase,  \* "idle" until the task runs, then "trying", "held" or "waiting"
  delay   \* how long the loop waits after the session it last lost

vars == <<phase, delay>>

Phases == {"idle", "trying", "held", "waiting"}

TypeOK == phase \in Phases /\ delay \in Base..Cap

Init == phase = "idle" /\ delay = Base

\* The task starts, or the delay is over.
Try == phase \in {"idle", "waiting"} /\ phase' = "trying" /\ UNCHANGED delay

\* The relay took the registration.
Hold == phase = "trying" /\ phase' = "held" /\ UNCHANGED delay

\* A session was closed by the relay, whether it was held or not: start over.
Close == phase \in {"trying", "held"} /\ phase' = "waiting" /\ delay' = Base

\* A session failed: wait at least as long as the last time.
Fail ==
  /\ phase \in {"trying", "held"}
  /\ phase' = "waiting"
  /\ delay' \in delay..Cap

Next == Try \/ Hold \/ Close \/ Fail

Loop == Init /\ [][Next]_vars

\* A wait ends; nothing bounds how long an attempt or a session lasts.
Spec == Loop /\ WF_vars(phase = "waiting" /\ Try)
=============================================================================
