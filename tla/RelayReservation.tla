--------------------------- MODULE RelayReservation ---------------------------
(***************************************************************************)
(* The reservation loop of dig-nat (run_relay_connection_with,              *)
(* connect_once, serve_session and handle_incoming of src/relay.rs): one    *)
(* task that holds a registered WebSocket to the relay, the status it       *)
(* publishes to every other thread, and the untrusted relay at the other    *)
(* end.  Circuits over the reservation are the subject of RelayCircuits;    *)
(* here a tunnel is a holder of the outbound sink that queues frames.       *)
(***************************************************************************)
EXTENDS Naturals, Sequences, SequencesExt

CONSTANTS
  Ids,           \* peer ids a relay may name
  MaxKnownPeers, \* MAX_KNOWN_PEERS
  MaxPage,       \* bound: entries of one Peers frame
  BaseSecs,      \* Backoff::base_secs
  CapSecs,       \* Backoff::cap_secs
  WordBits,      \* width of the seconds' word, 64 in the code
  Counters,      \* number of values of a u32 counter
  MaxFrames      \* bound: frames in the outbound channel

ASSUME ReservationAssumption ==
  /\ MaxKnownPeers \in Nat /\ MaxPage \in Nat /\ MaxFrames \in Nat
  /\ BaseSecs \in Nat /\ CapSecs \in Nat /\ 0 < BaseSecs /\ BaseSecs <= CapSecs
  /\ WordBits \in Nat /\ WordBits > 0 /\ Counters \in Nat /\ Counters > 1

VARIABLES
  pc,        \* where the loop is
  failures,  \* consecutive_failures
  outcome,   \* what connect_once returned: "ok" or "err"
  state,     \* RelayState
  attempts,  \* reconnect_attempts
  lastError, \* last_error is Some
  known,     \* known_peers
  outbound,  \* the published sink: none, one whose receiver is alive, or a dead one
  queued,    \* frames in the channel behind the session's sink
  tunnel,    \* some tunnel holds a clone of the session's sink
  provider   \* a DHT reader is registered

task == <<pc, failures, outcome>>
status == <<state, attempts, lastError>>
transport == <<outbound, queued, tunnel>>
vars == <<task, status, known, transport, provider>>

(***************************************************************************)
(* pc: "off" before the task is spawned; connect_once is at "dial",         *)
(* "register" or "list" (inside the send of Register and of GetPeers), in   *)
(* serve_session at "serve" (the select) or "send" (an arm that awaits the  *)
(* socket), and at "teardown" when serve_session has returned; "report" is  *)
(* back in the loop, "sleep" its backoff.                                   *)
(***************************************************************************)
Connecting == {"dial", "register", "list"}
Serving == {"serve", "send"}
Steps == {"off", "teardown", "report", "sleep"} \cup Connecting \cup Serving
States == {"disabled", "connecting", "connected", "disconnected"}

TypeOK ==
  /\ pc \in Steps
  /\ failures \in 0..(Counters - 1) /\ outcome \in {"ok", "err"}
  /\ state \in States
  /\ attempts \in 0..(Counters - 1) /\ lastError \in BOOLEAN
  /\ known \in [order : Seq(Ids), ids : SUBSET Ids]
  /\ outbound \in {"none", "live", "dead"} /\ queued \in Nat
  /\ tunnel \in BOOLEAN /\ provider \in BOOLEAN

NoPeers == [order |-> <<>>, ids |-> {}]

Init ==
  /\ pc = "off" /\ failures = 0 /\ outcome = "ok"
  /\ state = "disconnected" /\ attempts = 0 /\ lastError = FALSE
  /\ known = NoPeers
  /\ outbound = "none" /\ queued = 0 /\ tunnel = FALSE
  /\ provider = FALSE

-----------------------------------------------------------------------------
(* The delay: base.checked_shl(failures).unwrap_or(cap).clamp(base, cap).    *)
(* The shift drops the bits that leave the word; a shift by the whole width  *)
(* or more is refused.                                                       *)
Power[n \in 0..WordBits] == IF n = 0 THEN 1 ELSE 2 * Power[n - 1]

\* Variant: the shift amount wraps, as wrapping_shl does.
Shifted_Wraps(n) == (BaseSecs * Power[n % WordBits]) % Power[WordBits]

Shifted(n) ==
  IF n < WordBits THEN (BaseSecs * Power[n]) % Power[WordBits] ELSE CapSecs
Clamped(v) == IF v < BaseSecs THEN BaseSecs ELSE IF v > CapSecs THEN CapSecs ELSE v
Backoff(n) == Clamped(Shifted(n))

(* DiscoveredPeers: insertion order and an index of the ids in it.           *)
Insert(k, p) ==
  IF Len(k.order) >= MaxKnownPeers \/ p \in k.ids
  THEN k
  ELSE [order |-> Append(k.order, p), ids |-> k.ids \cup {p}]

\* Vec::retain: the order without p.  (This and Replace are functions on the
\* positions of a sequence, which can be reasoned about.)
Retained(order, p) ==
  LET Kept[n \in 0..Len(order)] ==
        IF n = 0 THEN <<>>
        ELSE IF order[n] = p THEN Kept[n - 1] ELSE Append(Kept[n - 1], order[n])
  IN Kept[Len(order)]

\* Variant: a peer that left stays in the order.
Forget_OrderKept(k, p) == [k EXCEPT !.ids = @ \ {p}]

Forget(k, p) ==
  IF p \in k.ids
  THEN [order |-> Retained(k.order, p), ids |-> k.ids \ {p}]
  ELSE k

Replace(page) ==
  LET After[n \in 0..Len(page)] ==
        IF n = 0 THEN NoPeers ELSE Insert(After[n - 1], page[n])
  IN After[Len(page)]

Pages == BoundedSeq(Ids, MaxPage)

Ready == state = "connected" /\ outbound # "none"

-----------------------------------------------------------------------------
(* The status handle.                                                        *)

\* The consumer turns the reservation off instead of spawning the task.
SetDisabled ==
  /\ pc = "off"
  /\ state' = "disabled"
  /\ UNCHANGED <<task, attempts, lastError, known, transport, provider>>

SetDhtRecordsProvider ==
  /\ ~provider
  /\ provider' = TRUE
  /\ UNCHANGED <<task, status, known, transport>>

\* A tunnel is opened over the reservation: it keeps a clone of the sink.
OpenTunnel ==
  /\ Ready /\ outbound = "live" /\ ~tunnel
  /\ tunnel' = TRUE
  /\ UNCHANGED <<task, status, known, outbound, queued, provider>>

\* RelayTunnel::send succeeds as long as connect_once holds the receiver.
QueueFrame ==
  /\ tunnel /\ queued < MaxFrames
  /\ queued' = queued + 1
  /\ UNCHANGED <<task, status, known, outbound, tunnel, provider>>

-----------------------------------------------------------------------------
(* The loop.                                                                 *)
\* Variant: the sink is not taken down.
Cleared_Kept == outbound' = outbound

\* clear_transport; the receiver stays with connect_once until that returns.
Cleared == outbound' = "none"

\* The top of an iteration up to open_relay_ws, which is awaited at "dial".
Connect ==
  /\ pc \in {"off", "sleep"} /\ state # "disabled"
  /\ pc' = "dial"
  /\ state' = "connecting"
  /\ known' = NoPeers
  /\ Cleared /\ UNCHANGED <<queued, tunnel>>
  /\ UNCHANGED <<failures, outcome, attempts, lastError, provider>>

\* connect_once returns and drops the channel's receiver.
Returned(r) ==
  /\ pc' = "report" /\ outcome' = r
  /\ queued' = 0 /\ tunnel' = FALSE

\* Resolving, the TCP race and the WebSocket handshake.
Dialed ==
  /\ pc = "dial"
  /\ \/ pc' = "register" /\ UNCHANGED <<outcome, queued, tunnel>>
     \/ Returned("err")
  /\ UNCHANGED <<failures, status, known, outbound, provider>>

\* Register was written: publish the sink before anything acknowledges it.
Registered ==
  /\ pc = "register"
  /\ \/ pc' = "list" /\ outbound' = "live" /\ UNCHANGED <<outcome, queued, tunnel>>
     \/ Returned("err") /\ UNCHANGED outbound
  /\ UNCHANGED <<failures, status, known, provider>>

\* The first GetPeers.  Its error returns past the final clear_transport.
Listed ==
  /\ pc = "list"
  /\ \/ pc' = "serve" /\ UNCHANGED <<outcome, outbound, queued, tunnel>>
     \/ Returned("err") /\ outbound' = "dead"
  /\ UNCHANGED <<failures, status, known, provider>>

Ends(r) == pc' = "teardown" /\ outcome' = r
Continues == pc' = "serve" /\ UNCHANGED outcome
Sends == pc' = "send" /\ UNCHANGED outcome

\* The keepalive and discovery arms of the select.
Tick ==
  /\ pc = "serve" /\ Sends
  /\ UNCHANGED <<failures, status, known, transport, provider>>
\* Variant: the frame that is sent stays at the head of the queue.
ForwardFrame_Peek ==
  /\ pc = "serve" /\ queued > 0 /\ Sends
  /\ UNCHANGED <<failures, status, known, transport, provider>>

ForwardFrame ==
  /\ pc = "serve" /\ queued > 0 /\ Sends
  /\ queued' = queued - 1
  /\ UNCHANGED <<failures, status, known, outbound, tunnel, provider>>

\* An arm's send is over.
Sent ==
  /\ pc = "send"
  /\ Continues \/ Ends("err")
  /\ UNCHANGED <<failures, status, known, transport, provider>>

\* The socket closed, or failed.
ReadEnd ==
  /\ pc = "serve"
  /\ Ends("ok") \/ Ends("err")
  /\ UNCHANGED <<failures, status, known, transport, provider>>

\* Frames that change nothing: a WebSocket pong, what does not parse, records
\* echoed at us, errors of one request, and RLY-002 payloads, whose routing is
\* RelayCircuits'.
Ignored ==
  /\ pc = "serve" /\ Continues
  /\ UNCHANGED <<failures, status, known, transport, provider>>

\* Frames that are answered: a WebSocket ping, a relay Ping, and GetDhtRecords
\* if a reader is registered.
Answered(frame) ==
  /\ pc = "serve"
  /\ IF frame = "get_dht_records" /\ ~provider THEN Continues ELSE Sends
  /\ UNCHANGED <<failures, status, known, transport, provider>>

RegisterAck ==
  /\ pc = "serve"
  /\ state' = "connected" /\ attempts' = 0 /\ lastError' = FALSE
  /\ Continues
  /\ UNCHANGED <<failures, known, transport, provider>>

\* A refused registration, or an error code that invalidates it.
Refused ==
  /\ pc = "serve" /\ Ends("err")
  /\ UNCHANGED <<failures, status, known, transport, provider>>

PeersNews ==
  /\ pc = "serve" /\ Continues
  /\ \/ \E page \in Pages : known' = Replace(page)
     \/ \E p \in Ids : known' \in {Insert(known, p), Forget(known, p)}
  /\ UNCHANGED <<failures, status, transport, provider>>

\* The session is over: clear_transport, then connect_once returns.
Teardown ==
  /\ pc = "teardown"
  /\ Cleared
  /\ Returned(outcome)
  /\ UNCHANGED <<failures, status, known, provider>>
\* Variant: an error ends the task.
Report_EndsOnError ==
  /\ pc = "report"
  /\ pc' = (IF outcome = "ok" THEN "sleep" ELSE "off")
  /\ attempts' = (attempts + 1) % Counters
  /\ lastError' = (lastError \/ outcome = "err")
  /\ state' = "disconnected"
  /\ UNCHANGED <<failures, outcome, known, transport, provider>>

\* The loop counts the failure, publishes the loss and starts its backoff.
Report ==
  /\ pc = "report"
  /\ pc' = "sleep" /\ UNCHANGED outcome
  /\ failures' = IF outcome = "ok" THEN 0
                 ELSE IF failures = Counters - 1 THEN failures ELSE failures + 1
  /\ attempts' = (attempts + 1) % Counters
  /\ lastError' = (lastError \/ outcome = "err")
  /\ state' = "disconnected"
  /\ UNCHANGED <<known, transport, provider>>

-----------------------------------------------------------------------------
Handle ==
  \/ \E f \in {"ping", "get_dht_records"} : Answered(f)
  \/ Ignored \/ RegisterAck \/ Refused \/ PeersNews
Session == Tick \/ ForwardFrame \/ Sent \/ ReadEnd \/ Handle
Loop == Connect \/ Dialed \/ Registered \/ Listed \/ Session \/ Teardown \/ Report
Handles == SetDisabled \/ SetDhtRecordsProvider \/ OpenTunnel \/ QueueFrame
Next == Loop \/ Handles

Spec == Init /\ [][Next]_vars

(***************************************************************************)
(* A task whose timer fired or whose await completed runs on.  Teardown and *)
(* Report await nothing.  The arms of the select are polled in random       *)
(* order, so an arm that is ready over and over is taken.  Sent assumes     *)
(* that the socket to the relay takes a write or fails in the end: the code *)
(* sets no deadline.                                                        *)
(***************************************************************************)
TaskFairness ==
  /\ WF_vars(pc = "sleep" /\ Connect) /\ WF_vars(Teardown) /\ WF_vars(Report)
  /\ WF_vars(Sent) /\ SF_vars(ForwardFrame)

FairSpec == Spec /\ TaskFairness

-----------------------------------------------------------------------------
\* The order and the index of the discovered peers hold the same ids, each
\* once, and no more than the cap, after any sequence of pages and notices
\* (DiscoveredPeers, src/relay.rs:284: "every mutation touches both").
PeersInLockstep ==
  /\ ToSet(known.order) = known.ids
  /\ IsInjective(known.order)
  /\ Len(known.order) <= MaxKnownPeers

\* No session starts with peers of another: until it serves, nothing is known
\* (connect_once, src/relay.rs:1293).
StartsEmpty == pc \in Connecting => known = NoPeers

\* While the published state is connected, nothing counts or explains a loss
\* (set_connected against set_disconnected, of two tasks' view).
StatusAgrees == state = "connected" => attempts = 0 /\ ~lastError

ReservationInv == TypeOK /\ PeersInLockstep /\ StartsEmpty /\ StatusAgrees

\* relay_transport_ready is true only while the session that published the
\* sink still has its receiver: a dial that starts then finds a channel, not
\* the sink of an earlier session (the failed GetPeers of src/relay.rs:1319
\* leaves one behind).
ReadyIsLive == Ready => outbound = "live" /\ pc \in Serving \cup {"teardown"}

\* One more failure never shortens the wait, however many there were before:
\* the shift's overflow does not bring the delay back (backoff_secs_with).
BackoffNeverShrinks ==
  [][failures' > failures => Backoff(failures') >= Backoff(failures)]_vars

\* A full queue shrinks or its session ends: pings, discovery and a chatty
\* relay do not starve the outbound arm (serve_session).
FramesLeave == queued = MaxFrames ~> (queued < MaxFrames \/ pc \notin Serving)

(***************************************************************************)
(* The loop implements RetryLoop: what the status shows of it tries, holds, *)
(* waits between the two bounds and tries again, whatever the relay does.   *)
(***************************************************************************)
Retry == INSTANCE RetryLoop WITH
  Base <- BaseSecs, Cap <- CapSecs, delay <- Backoff(failures),
  phase <- IF pc = "off" THEN "idle" ELSE IF pc = "sleep" THEN "waiting"
           ELSE IF state = "connected" THEN "held" ELSE "trying"
KeepsRetrying == Retry!Spec
=============================================================================
