--------------------------- MODULE StreamRouting ---------------------------
(***************************************************************************)
(* The contract of a FastPeerConnection (src/fast_connect.rs, "Why the      *)
(* handoff is safe"): one current transport at a time; a stream is opened   *)
(* on the current transport and stays on it until it ends; a transport is   *)
(* let go of only when it is not current and carries no stream.  That a     *)
(* transport may end of itself at any time is not part of the contract.     *)
(***************************************************************************)
EXTENDS Naturals

CONSTANTS Transports, Streams, None

VARIABLES
  current,   \* the transport that new streams are opened on, or None
  carrier,   \* carrier[k]: the transport that stream k was opened on, or None
  ended,     \* streams that have ended
  released   \* transports that were let go of

vars == <<current, carrier, ended, released>>

Carried(t) == {k \in Streams : carrier[k] = t} \ ended

Init ==
  /\ current = None
  /\ carrier = [k \in Streams |-> None]
  /\ ended = {}
  /\ released = {}

Open(k) ==
  /\ current # None /\ carrier[k] = None
  /\ carrier' = [carrier EXCEPT ![k] = current]
  /\ UNCHANGED <<current, ended, released>>

End(k) ==
  /\ carrier[k] # None /\ k \notin ended
  /\ ended' = ended \cup {k}
  /\ UNCHANGED <<current, carrier, released>>

Switch(t) ==
  /\ t # current /\ t \notin released
  /\ current' = t
  /\ UNCHANGED <<carrier, ended, released>>

Leave ==
  /\ current # None
  /\ current' = None
  /\ UNCHANGED <<carrier, ended, released>>

Release(t) ==
  /\ t # current /\ Carried(t) = {}
  /\ released' = released \cup {t}
  /\ UNCHANGED <<current, carrier, ended>>

Next ==
  \/ Leave
  \/ \E k \in Streams : Open(k) \/ End(k)
  \/ \E t \in Transports : Switch(t) \/ Release(t)

Spec == Init /\ [][Next]_vars
=============================================================================
