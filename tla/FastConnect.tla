---------------------------- MODULE FastConnect ----------------------------
(***************************************************************************)
(* connect_fast of dig-nat (src/fast_connect.rs): race a relayed dial       *)
(* against the direct ladder, return on the first that lands, promote a     *)
(* relayed connection to a direct one that proves itself, drain the old     *)
(* transport, and re-dial a transport that dies.                            *)
(*                                                                          *)
(* One node's connection to one peer.  Its concurrent parts are the caller  *)
(* (the race, then open_stream and its streams), the background guard, one  *)
(* drain task per swapped-out slot, one driver task per session             *)
(* (src/mux.rs), and the registry key of the peer's relayed circuit         *)
(* (src/relay.rs), which a relayed dial needs for itself.                   *)
(***************************************************************************)
EXTENDS Naturals, FiniteSets

CONSTANTS
  BlsKeys,     \* the BLS keys a peer certificate may be bound to, or to none
  MaxConns,    \* bound: dials made over the whole behaviour
  MaxStreams,  \* bound: streams opened over the whole behaviour
  MaxRapid,    \* bound: where the count of rapid deaths saturates
  MaxOutages   \* bound: times the relay reservation is lost

ASSUME FastAssumption ==
  /\ BlsKeys # {}
  /\ MaxConns \in Nat /\ MaxConns >= 3
  /\ MaxStreams \in Nat /\ MaxRapid \in Nat \ {0} /\ MaxOutages \in Nat

VARIABLES
  wired,       \* runtime.relayed is Some: there is a relay data-plane to dial over
  caller,      \* where connect_fast_with is, or what became of its connection
  dial,        \* dial[t]: the dial of tier t that a future is running, or none
  conn,        \* conn[i]: the dial, connection or slot i
  nextConn,    \* the next dial
  active,      \* the active slot
  event,       \* the method last published
  guard,       \* the background guard
  rapid,       \* rapid_deaths
  stream,      \* stream[k]: the k-th stream opened
  outstanding, \* outstanding[i]: counted streams of slot i
  drain,       \* drain[i]: the drain task of slot i
  notified,    \* slots whose drain task was notified since it armed its wait
  entry,       \* the registry entry of the peer: the dial that holds it, or none,
               \* and whether a frame came within STALE_CIRCUIT_IDLE
  reserved,    \* the relay reservation is held
  outages      \* times it was lost

dials == <<dial, conn, nextConn>>
slots == <<active, event, guard, rapid>>
streams == <<stream, outstanding, drain, notified>>
relay == <<entry, reserved, outages>>
vars == <<wired, caller, dials, slots, streams, relay>>

None == 0
Conns == 1..MaxConns
Streams == 1..MaxStreams
Tiers == {"direct", "relayed"}

(***************************************************************************)
(* A dial is "opening" (a relayed one, before it has a circuit) and         *)
(* "dialing" until it "failed" or its session is "live".  The driver of a   *)
(* session publishes the end ("closed") and then drops the byte stream      *)
(* ("freed").  died: the transport ended of itself.  answers: application   *)
(* traffic passes, which TLS alone does not prove; it is asked of direct    *)
(* transports only.                                                         *)
(***************************************************************************)
ConnStates == {"unused", "opening", "dialing", "failed", "live", "closed", "freed"}
Landed == {"live", "closed", "freed"}
Connections == [tier : Tiers, bls : BlsKeys, answers : BOOLEAN, died : BOOLEAN,
                st : ConnStates]

Racing == {"select", "direct", "relayed"}
GuardSteps == {"none", "promote", "probe", "swap", "watch", "backoff", "redial", "end"}
Guard(pc, hand) == [pc |-> pc, hand |-> hand, stable |-> FALSE]
Draining == {"check", "arm", "recheck", "wait"}
OpenStates == {"opening", "open"}

DialsTyped ==
  /\ dial \in [Tiers -> Conns \cup {None}]
  /\ conn \in [Conns -> Connections]
  /\ nextConn \in Nat \ {0}
SlotsTyped ==
  /\ active \in Conns \cup {None}
  /\ event \in Tiers
  /\ guard \in [pc : GuardSteps, hand : Conns \cup {None}, stable : BOOLEAN]
  /\ rapid \in 0..MaxRapid
StreamsTyped ==
  /\ stream \in [Streams -> [slot : Conns \cup {None},
                             st : {"unused", "closed"} \cup OpenStates]]
  /\ outstanding \in [Conns -> Nat]
  /\ drain \in [Conns -> {"none", "done"} \cup Draining]
  /\ notified \in SUBSET Conns
RelayTyped ==
  /\ entry \in [holder : Conns \cup {None}, fresh : BOOLEAN]
  /\ reserved \in BOOLEAN
  /\ outages \in Nat
TypeOK ==
  /\ wired \in BOOLEAN
  /\ caller \in Racing \cup {"idle", "held", "failed", "dropped"}
  /\ DialsTyped /\ SlotsTyped /\ StreamsTyped /\ RelayTyped

Unused == [tier |-> "direct", bls |-> CHOOSE b \in BlsKeys : TRUE, answers |-> FALSE,
           died |-> FALSE, st |-> "unused"]

NoEntry == [holder |-> None, fresh |-> FALSE]

Init ==
  /\ wired \in BOOLEAN
  /\ caller = "idle"
  /\ dial = [t \in Tiers |-> None]
  /\ conn = [i \in Conns |-> Unused]
  /\ nextConn = 1
  /\ active = None
  /\ event = "direct"
  /\ guard = Guard("none", None)
  /\ rapid = 0
  /\ stream = [k \in Streams |-> [slot |-> None, st |-> "unused"]]
  /\ outstanding = [i \in Conns |-> 0]
  /\ drain = [i \in Conns |-> "none"]
  /\ notified = {}
  /\ entry = NoEntry
  /\ reserved \in BOOLEAN
  /\ outages = 0

-----------------------------------------------------------------------------
(* Dials.  Each future of an Establisher is a new dial of its tier.         *)

Started(c, i, t) ==
  [c EXCEPT ![i].tier = t, ![i].st = IF t = "relayed" THEN "opening" ELSE "dialing"]

(* Variant: the Drop of a tunnel leaves its entry behind. *)
EntryWithout_Kept(i) == entry

EntryWithout(i) == IF entry.holder = i THEN NoEntry ELSE entry

(* Dropping a dial's future: the handshake stops and its circuit is         *)
(* released; a connection it holds is only let go of.                       *)
Pending(i) == i # None /\ conn[i].st \in {"opening", "dialing"}
Landing(i) == i # None /\ conn[i].st \in Landed
Failed(i) == i # None /\ conn[i].st = "failed"
Abandoned(c, i) == IF Pending(i) THEN [c EXCEPT ![i].st = "failed"] ELSE c
EntryAbandoned(i) == IF Pending(i) THEN EntryWithout(i) ELSE entry

(* open_tunnel for a relayed dial: refused without a reservation, and by a  *)
(* live circuit under the peer's key.                                       *)
OpenRelayed(i) ==
  /\ conn[i].st = "opening"
  /\ \/ /\ reserved /\ ~entry.fresh
        /\ conn' = [conn EXCEPT ![i].st = "dialing"]
        /\ entry' = [holder |-> i, fresh |-> TRUE]
     \/ /\ ~reserved \/ entry.fresh
        /\ conn' = [conn EXCEPT ![i].st = "failed"]
        /\ UNCHANGED entry
  /\ UNCHANGED <<wired, caller, dial, nextConn, slots, streams, reserved, outages>>

DialLands(i, b, a) ==
  /\ conn[i].st = "dialing"
  /\ a => conn[i].tier = "direct"
  /\ conn' = [conn EXCEPT ![i].st = "live", ![i].bls = b, ![i].answers = a]
  /\ UNCHANGED <<wired, caller, dial, nextConn, slots, streams, relay>>

DialFails(i) ==
  /\ conn[i].st = "dialing"
  /\ conn' = [conn EXCEPT ![i].st = "failed"]
  /\ entry' = EntryWithout(i)
  /\ UNCHANGED <<wired, caller, dial, nextConn, slots, streams, reserved, outages>>

-----------------------------------------------------------------------------
(* The race, connect_fast_with.                                             *)

ConnectFast ==
  /\ caller = "idle"
  /\ IF wired
     THEN /\ caller' = "select"
          /\ dial' = [direct |-> 1, relayed |-> 2]
          /\ conn' = Started(Started(conn, 1, "direct"), 2, "relayed")
          /\ nextConn' = 3
     ELSE /\ caller' = "direct"
          /\ dial' = [direct |-> 1, relayed |-> None]
          /\ conn' = Started(conn, 1, "direct")
          /\ nextConn' = 2
  /\ UNCHANGED <<wired, slots, streams, relay>>

(* build: the connection becomes the active slot and the guard starts with  *)
(* a pending direct dial, with a fallback only, or with nothing to do.      *)
Build(i) ==
  /\ caller' = "held"
  /\ active' = i
  /\ event' = conn[i].tier
  /\ guard' = Guard(CASE conn[i].tier = "relayed" -> "promote"
                      [] conn[i].tier = "direct" /\ wired -> "watch"
                      [] OTHER -> "end", None)

(* Variant: the failure of the relayed dial is not taken for an answer. *)
SelectRelayed_NoError ==
  LET i == dial["relayed"] IN
  /\ caller = "select" /\ Landing(i) /\ Build(i)
  /\ dial' = [dial EXCEPT !["relayed"] = None]
  /\ UNCHANGED <<wired, conn, nextConn, rapid, streams, relay>>

(* select polls the relayed dial first, so that it wins a tie. *)
SelectRelayed ==
  LET i == dial["relayed"] IN
  /\ caller = "select"
  /\ dial' = [dial EXCEPT !["relayed"] = None]
  /\ \/ Landing(i) /\ Build(i)
     \/ /\ Failed(i)
        /\ caller' = "direct"
        /\ UNCHANGED <<active, event, guard>>
  /\ UNCHANGED <<wired, conn, nextConn, rapid, streams, relay>>

(* A direct dial that lands first cancels the relayed one. *)
SelectDirect ==
  LET i == dial["direct"]
      r == dial["relayed"]
  IN
  /\ caller = "select"
  /\ ~Landing(r) /\ ~Failed(r)
  /\ \/ /\ Landing(i)
        /\ Build(i)
        /\ dial' = [t \in Tiers |-> None]
        /\ conn' = Abandoned(conn, r)
        /\ entry' = EntryAbandoned(r)
     \/ /\ Failed(i)
        /\ caller' = "relayed"
        /\ dial' = [dial EXCEPT !["direct"] = None]
        /\ UNCHANGED <<active, event, guard, conn, entry>>
  /\ UNCHANGED <<wired, nextConn, rapid, streams, reserved, outages>>

(* The direct dial alone is left, because no relay is wired or because the  *)
(* relayed dial failed.                                                     *)
AwaitDirect ==
  LET i == dial["direct"] IN
  /\ caller = "direct"
  /\ dial' = [dial EXCEPT !["direct"] = None]
  /\ \/ Landing(i) /\ Build(i)
     \/ /\ Failed(i)
        /\ caller' = "failed"
        /\ UNCHANGED <<active, event, guard>>
  /\ UNCHANGED <<wired, conn, nextConn, rapid, streams, relay>>

(* The relayed dial alone is left; with it the direct ladder is tried once  *)
(* more, for a promotion.                                                   *)
AwaitRelayed ==
  LET i == dial["relayed"] IN
  /\ caller = "relayed"
  /\ \/ /\ Landing(i) /\ nextConn \in Conns
        /\ Build(i)
        /\ dial' = [direct |-> nextConn, relayed |-> None]
        /\ conn' = Started(conn, nextConn, "direct")
        /\ nextConn' = nextConn + 1
     \/ /\ Failed(i)
        /\ caller' = "failed"
        /\ dial' = [t \in Tiers |-> None]
        /\ UNCHANGED <<active, event, guard, conn, nextConn>>
  /\ UNCHANGED <<wired, rapid, streams, relay>>

-----------------------------------------------------------------------------
(* The guard, run_guard.                                                    *)

(* Variant: TLS to the same peer_id is enough. *)
SameIdentity_Tls(i) == TRUE

(* Gate 2: the direct path belongs to the identity of the active transport. *)
SameIdentity(i) == conn[i].bls = conn[active].bls

(* Phase 1: the pending direct dial ends; a path of the same identity goes  *)
(* to the probe.                                                            *)
GuardDirect ==
  LET i == dial["direct"] IN
  /\ guard.pc = "promote"
  /\ dial' = [dial EXCEPT !["direct"] = None]
  /\ \/ Landing(i) /\ SameIdentity(i) /\ guard' = Guard("probe", i)
     \/ Landing(i) /\ ~SameIdentity(i) /\ guard' = Guard("watch", None)
     \/ Failed(i) /\ guard' = Guard("watch", None)
  /\ UNCHANGED <<wired, caller, conn, nextConn, active, event, rapid, streams, relay>>

(* Gate 3: an availability round trip over the direct session.  It may      *)
(* always be too slow.                                                      *)
ProbeAnswers ==
  /\ guard.pc = "probe"
  /\ conn[guard.hand].st = "live" /\ ~conn[guard.hand].died /\ conn[guard.hand].answers
  /\ guard' = [guard EXCEPT !.pc = "swap"]
  /\ UNCHANGED <<wired, caller, dials, active, event, rapid, streams, relay>>

ProbeFails ==
  /\ guard.pc = "probe"
  /\ guard' = Guard("watch", None)
  /\ UNCHANGED <<wired, caller, dials, active, event, rapid, streams, relay>>

(* The swap: new streams go to the direct transport, the old slot drains.   *)
Promote ==
  /\ guard.pc = "swap"
  /\ active' = guard.hand
  /\ event' = conn[guard.hand].tier
  /\ drain' = [drain EXCEPT ![active] = "check"]
  /\ guard' = Guard("watch", None)
  /\ UNCHANGED <<wired, caller, dials, rapid, stream, outstanding, notified, relay>>

(* FALLBACK_STABILITY passes while the guard watches the active slot. *)
HeldStably ==
  /\ guard.pc = "watch" /\ ~guard.stable
  /\ guard' = [guard EXCEPT !.stable = TRUE]
  /\ UNCHANGED <<wired, caller, dials, active, event, rapid, streams, relay>>

(* Variant: the guard waits for the notification without reading the flag. *)
CloseNoticed_Edge ==
  /\ guard.pc = "watch" /\ conn[active].st = "closed"
  /\ rapid' = IF guard.stable THEN 0 ELSE IF rapid < MaxRapid THEN rapid + 1 ELSE rapid
  /\ guard' = Guard("backoff", None)
  /\ UNCHANGED <<wired, caller, dials, active, event, streams, relay>>

(* Phase 2: the active session has closed; only rapid deaths are counted.   *)
CloseNoticed ==
  /\ guard.pc = "watch"
  /\ conn[active].st \in {"closed", "freed"}
  /\ rapid' = CASE guard.stable -> 0
                [] ~guard.stable /\ rapid < MaxRapid -> rapid + 1
                [] OTHER -> rapid
  /\ guard' = Guard("backoff", None)
  /\ UNCHANGED <<wired, caller, dials, active, event, streams, relay>>

BackoffOver ==
  /\ guard.pc = "backoff" /\ nextConn \in Conns
  /\ dial' = [dial EXCEPT !["relayed"] = nextConn]
  /\ conn' = Started(conn, nextConn, "relayed")
  /\ nextConn' = nextConn + 1
  /\ guard' = Guard("redial", None)
  /\ UNCHANGED <<wired, caller, active, event, rapid, streams, relay>>

(* The re-dial ends; one that failed ends the guard. *)
Redialed ==
  LET i == dial["relayed"] IN
  /\ guard.pc = "redial"
  /\ dial' = [dial EXCEPT !["relayed"] = None]
  /\ \/ /\ Landing(i)
        /\ active' = i /\ event' = conn[i].tier
        /\ guard' = Guard("watch", None)
     \/ /\ Failed(i)
        /\ guard' = Guard("end", None)
        /\ UNCHANGED <<active, event>>
  /\ UNCHANGED <<wired, caller, conn, nextConn, rapid, streams, relay>>

-----------------------------------------------------------------------------
(* The caller's streams.                                                    *)

(* open_stream, first half: load the active slot and ask its driver. *)
OpenStream(k) ==
  /\ caller = "held"
  /\ stream[k].st = "unused" /\ \A m \in 1..k-1 : stream[m].st # "unused"
  /\ stream' = [stream EXCEPT ![k] = [slot |-> active, st |-> "opening"]]
  /\ UNCHANGED <<wired, caller, dials, slots, outstanding, drain, notified, relay>>

(* Second half: the driver answered and the stream is counted. *)
StreamOpened(k) ==
  LET i == stream[k].slot IN
  /\ stream[k].st = "opening" /\ conn[i].st = "live"
  /\ stream' = [stream EXCEPT ![k].st = "open"]
  /\ outstanding' = [outstanding EXCEPT ![i] = @ + 1]
  /\ UNCHANGED <<wired, caller, dials, slots, drain, notified, relay>>

(* The driver is gone or its transport broke, or the caller gave up waiting. *)
StreamRefused(k) ==
  /\ stream[k].st = "opening"
  /\ stream' = [stream EXCEPT ![k].st = "closed"]
  /\ UNCHANGED <<wired, caller, dials, slots, outstanding, drain, notified, relay>>

(* Variant: the drop of a stream is not counted. *)
StreamDropped_Uncounted(k) ==
  /\ stream[k].st = "open"
  /\ stream' = [stream EXCEPT ![k].st = "closed"]
  /\ UNCHANGED <<wired, caller, dials, slots, outstanding, drain, notified, relay>>

(* FastPeerStream is dropped: the last one of a slot wakes its drain. *)
StreamDropped(k) ==
  LET i == stream[k].slot IN
  /\ stream[k].st = "open"
  /\ stream' = [stream EXCEPT ![k].st = "closed"]
  /\ outstanding' = [outstanding EXCEPT ![i] = @ - 1]
  /\ notified' = IF outstanding[i] = 1 /\ drain[i] \in {"recheck", "wait"}
                 THEN notified \cup {i} ELSE notified
  /\ UNCHANGED <<wired, caller, dials, slots, drain, relay>>

(* The FastPeerConnection is dropped; no open_stream is running then. *)
DropConnection ==
  /\ caller = "held"
  /\ \A k \in Streams : stream[k].st # "opening"
  /\ caller' = "dropped"
  /\ UNCHANGED <<wired, dials, slots, streams, relay>>

(* The future of connect_fast is dropped before it returned. *)
CancelConnect ==
  /\ caller \in Racing
  /\ caller' = "dropped"
  /\ dial' = [t \in Tiers |-> None]
  /\ conn' = Abandoned(Abandoned(conn, dial["direct"]), dial["relayed"])
  /\ entry' = EntryAbandoned(dial["relayed"])
  /\ guard' = Guard("end", None)
  /\ UNCHANGED <<wired, nextConn, active, event, rapid, streams, reserved, outages>>

(* Variant: the guard's dial is detached and outlives it. *)
GuardAborted_Detached ==
  /\ caller = "dropped" /\ guard.pc \notin {"swap", "end"}
  /\ guard' = Guard("end", None)
  /\ UNCHANGED <<wired, caller, dials, active, event, rapid, streams, relay>>

(* PromotionGuard's Drop aborts the guard wherever it waits, which is not   *)
(* between the probe and the swap.                                          *)
GuardAborted ==
  /\ caller = "dropped" /\ guard.pc \notin {"swap", "end"}
  /\ guard' = Guard("end", None)
  /\ dial' = [t \in Tiers |-> None]
  /\ conn' = Abandoned(Abandoned(conn, dial["direct"]), dial["relayed"])
  /\ entry' = EntryAbandoned(dial["relayed"])
  /\ UNCHANGED <<wired, caller, nextConn, active, event, rapid, streams, reserved, outages>>

-----------------------------------------------------------------------------
(* Drain tasks, drain_then_drop: look, arm the wait, look again, wait.      *)

DrainUnchanged ==
  UNCHANGED <<wired, caller, dials, slots, stream, outstanding, relay>>

DrainCheck(i) ==
  /\ drain[i] \in {"check", "recheck"}
  /\ drain' = [drain EXCEPT ![i] =
       CASE outstanding[i] = 0 -> "done"
         [] outstanding[i] # 0 /\ @ = "check" -> "arm"
         [] OTHER -> "wait"]
  /\ UNCHANGED notified /\ DrainUnchanged

(* Variant: the count is not read again once the wait is armed. *)
DrainArm_NoRecheck(i) ==
  /\ drain[i] = "arm"
  /\ drain' = [drain EXCEPT ![i] = "wait"]
  /\ notified' = notified \ {i}
  /\ DrainUnchanged

DrainArm(i) ==
  /\ drain[i] = "arm"
  /\ drain' = [drain EXCEPT ![i] = "recheck"]
  /\ notified' = notified \ {i}
  /\ DrainUnchanged

DrainWoken(i) ==
  /\ drain[i] = "wait" /\ i \in notified
  /\ drain' = [drain EXCEPT ![i] = "check"]
  /\ UNCHANGED notified /\ DrainUnchanged

(* The grace cap elapses. *)
DrainDeadline(i) ==
  /\ drain[i] = "wait"
  /\ drain' = [drain EXCEPT ![i] = "done"]
  /\ UNCHANGED notified /\ DrainUnchanged

-----------------------------------------------------------------------------
(* Session drivers.                                                         *)

(* Variant: a stream does not hold the slot that it was opened on. *)
StreamOn_Unheld(i) == FALSE

(* Who holds a reference to the connection or slot i. *)
StreamOn(i) == \E k \in Streams : stream[k].slot = i /\ stream[k].st \in OpenStates
InUse == caller = "held" \/ guard.pc \notin {"none", "end"}
Held(i) ==
  \/ \E t \in Tiers : dial[t] = i
  \/ guard.hand = i
  \/ active = i /\ InUse
  \/ drain[i] \in Draining
  \/ StreamOn(i)

(* The driver ends, with its transport or after its session was dropped. *)
DriverEnds(i) ==
  /\ conn[i].st = "live"
  /\ conn[i].died \/ ~Held(i)
  /\ conn' = [conn EXCEPT ![i].st = "closed"]
  /\ UNCHANGED <<wired, caller, dial, nextConn, slots, streams, relay>>

(* It drops the byte stream, and with it a relayed circuit. *)
DriverFrees(i) ==
  /\ conn[i].st = "closed"
  /\ conn' = [conn EXCEPT ![i].st = "freed"]
  /\ entry' = EntryWithout(i)
  /\ UNCHANGED <<wired, caller, dial, nextConn, slots, streams, reserved, outages>>

-----------------------------------------------------------------------------
(* The network, the relay and time.  (A death leaves dials to be made.)     *)

CanFail == nextConn < MaxConns

TransportDies(i) ==
  /\ conn[i].st = "live" /\ ~conn[i].died /\ CanFail
  /\ conn' = [conn EXCEPT ![i].died = TRUE]
  /\ UNCHANGED <<wired, caller, dial, nextConn, slots, streams, relay>>

(* A circuit whose entry is gone from the registry reads end of stream. *)
CircuitEof(i) ==
  /\ conn[i].tier = "relayed" /\ entry.holder # i
  /\ \/ conn[i].st = "dialing" /\ conn' = [conn EXCEPT ![i].st = "failed"]
     \/ /\ conn[i].st = "live" /\ ~conn[i].died
        /\ conn' = [conn EXCEPT ![i].died = TRUE]
  /\ UNCHANGED <<wired, caller, dial, nextConn, slots, streams, relay>>

ReservationLost ==
  /\ reserved /\ outages < MaxOutages /\ CanFail
  /\ reserved' = FALSE
  /\ outages' = outages + 1
  /\ entry' = NoEntry
  /\ UNCHANGED <<wired, caller, dials, slots, streams>>

ReservationHeld ==
  /\ ~reserved
  /\ reserved' = TRUE
  /\ UNCHANGED <<wired, caller, dials, slots, streams, entry, outages>>

(* The idle window of the circuit passes, or a frame arrives for it. *)
CircuitIdle ==
  /\ entry.holder # None
  /\ entry' = [entry EXCEPT !.fresh = ~@]
  /\ UNCHANGED <<wired, caller, dials, slots, streams, reserved, outages>>

-----------------------------------------------------------------------------
Race == ConnectFast \/ SelectRelayed \/ SelectDirect \/ AwaitDirect \/ AwaitRelayed
GuardTask ==
  \/ GuardDirect \/ ProbeAnswers \/ ProbeFails \/ Promote
  \/ CloseNoticed \/ BackoffOver \/ Redialed \/ GuardAborted
DialEnds(i) == DialFails(i) \/ \E b \in BlsKeys, a \in BOOLEAN : DialLands(i, b, a)
DrainTask(i) == DrainCheck(i) \/ DrainArm(i) \/ DrainWoken(i)
Driver(i) == DriverEnds(i) \/ DriverFrees(i)
Application ==
  \/ DropConnection \/ CancelConnect
  \/ \E k \in Streams : OpenStream(k) \/ StreamOpened(k) \/ StreamRefused(k) \/ StreamDropped(k)
Environment ==
  \/ HeldStably \/ ReservationLost \/ ReservationHeld \/ CircuitIdle
  \/ \E i \in Conns : TransportDies(i) \/ DrainDeadline(i)

Next ==
  \/ Race \/ GuardTask \/ Application \/ Environment
  \/ \E i \in Conns :
       OpenRelayed(i) \/ DialEnds(i) \/ CircuitEof(i) \/ DrainTask(i) \/ Driver(i)

Spec == Init /\ [][Next]_vars

(* The runtime polls what is ready; a direct dial ends because the strategy *)
(* bounds each of its methods.  Nothing bounds a relayed dial, and nothing  *)
(* below needs the grace cap, a stable session or the relay to come back.   *)
TaskFairness ==
  /\ WF_vars(Race) /\ WF_vars(GuardTask)
  /\ \A i \in Conns :
       /\ WF_vars(OpenRelayed(i)) /\ WF_vars(conn[i].tier = "direct" /\ DialEnds(i))
       /\ WF_vars(CircuitEof(i)) /\ WF_vars(DrainTask(i)) /\ WF_vars(Driver(i))

FairSpec == Spec /\ TaskFairness

(* The peer answers or refuses every relayed dial. *)
AnsweredSpec ==
  FairSpec /\ \A i \in Conns : WF_vars(conn[i].tier = "relayed" /\ DialEnds(i))

(* The reservation is held throughout, no relayed handshake fails, and the  *)
(* caller keeps its connection.                                             *)
SteadyStep ==
  /\ reserved' /\ caller' # "dropped"
  /\ \A i \in Conns : conn[i].st = "dialing" /\ dial'["relayed"] = i => conn'[i].st # "failed"
SteadyInit == Init /\ wired /\ reserved
SteadySpec == SteadyInit /\ [][Next /\ SteadyStep]_vars

-----------------------------------------------------------------------------
(***************************************************************************)
(* Properties.                                                              *)
(***************************************************************************)

(* What a driver that has ended of itself, and not for want of a holder,    *)
(* leaves behind.                                                           *)
Released(i) == conn[i].st \in {"closed", "freed"} /\ ~conn[i].died
OpenOn(i) == {k \in Streams : stream[k].slot = i /\ stream[k].st = "open"}

(* The registry key of the peer is held by a relayed dial under way or by a *)
(* session whose driver has not let go of it: a dial that failed or was     *)
(* cancelled in the race or by the guard's abort never keeps the circuit    *)
(* that would refuse the next one.                                          *)
EntryHasHolder ==
  LET i == entry.holder IN
  i # None => /\ conn[i].tier = "relayed"
              /\ conn[i].st \in {"dialing", "live", "closed"}

(* Dials are made in order, each by the future of its tier.                 *)
DialsInOrder ==
  /\ \A i \in Conns : i >= nextConn => conn[i] = Unused
  /\ \A i \in Conns : conn[i].st = "opening" => conn[i].tier = "relayed"
  /\ \A t \in Tiers : dial[t] # None => dial[t] < nextConn /\ conn[dial[t]].tier = t

(* There is no slot before the race is over and one as long as the caller   *)
(* or the guard needs it; while a promotion is under way it is relayed, and *)
(* what the gates found out still holds of the very two sessions swapped.   *)
SlotsFollowGuard ==
  /\ caller \in Racing \cup {"idle"} => active = None /\ guard.pc = "none"
  /\ caller = "idle" => nextConn = 1
  /\ InUse => active # None
  /\ active # None => conn[active].st \in Landed
  /\ guard.pc \in {"promote", "probe", "swap"} => conn[active].tier = "relayed"
  /\ guard.pc \in {"probe", "swap"} =>
       /\ guard.hand # None /\ conn[guard.hand].st \in Landed
       /\ conn[guard.hand].bls = conn[active].bls
  /\ guard.pc = "swap" => conn[guard.hand].answers

(* Whatever the race, the guard, a drain or a stream holds has not been     *)
(* released, and a slot counts the streams that are open on it, so that a   *)
(* drain neither ends too soon nor waits for a stream that is gone.         *)
HeldAreKept == \A i \in Conns : Held(i) => ~Released(i)
StreamsCounted ==
  /\ \A k \in Streams : stream[k].st = "unused" <=> stream[k].slot = None
  /\ \A i \in Conns : outstanding[i] = Cardinality(OpenOn(i))

FastInv ==
  /\ TypeOK /\ EntryHasHolder /\ DialsInOrder /\ SlotsFollowGuard
  /\ HeldAreKept /\ StreamsCounted

(* A connection goes from a relayed to a direct transport only when that    *)
(* one has carried application traffic and has the identity of the          *)
(* transport that carried the connection until then (gates 2 and 3).        *)
PromotionGated ==
  [][(active # None /\ active' # active /\ conn[active'].tier = "direct")
      => /\ conn[active].tier = "relayed"
         /\ conn[active'].bls = conn[active].bls
         /\ conn[active'].answers]_vars

(* What the caller was promised (StreamRouting): streams stay where they    *)
(* were opened, and no transport with streams on it, nor the current one,   *)
(* is let go of.                                                            *)
Routing == INSTANCE StreamRouting WITH
  Transports <- Conns,
  current <- IF InUse THEN active ELSE None,
  carrier <- [k \in Streams |-> stream[k].slot],
  ended <- {k \in Streams : stream[k].st = "closed"},
  released <- {i \in Conns : Released(i)}
RoutesStreams == Routing!Spec

(* A swapped-out slot goes as soon as its last stream is dropped, without   *)
(* the help of the grace cap: drain_then_drop misses no notification.       *)
Gone(i) == conn[i].st \in {"unused", "failed", "freed"}
DrainEndsWithStreams ==
  \A i \in Conns : (drain[i] \in Draining /\ ~StreamOn(i)) ~> conn[i].st = "freed"

(* Once the connection and its streams are dropped, every dial and every    *)
(* transport it started ends and the peer's registry key is free: no work   *)
(* outlives the handle.                                                     *)
DropReleases ==
  (caller = "dropped" /\ \A k \in Streams : stream[k].st # "open")
    ~> (entry = NoEntry /\ \A i \in Conns : Gone(i))

(* The death of the active transport, in whatever phase of the guard, is    *)
(* followed by a live transport or by the end of the guard.                 *)
DeathIsHandled ==
  (wired /\ caller = "held" /\ conn[active].died)
    ~> (caller # "held" \/ guard.pc = "end" \/ ~conn[active].died)

(* connect_fast returns. *)
ConnectReturns == (caller \in Racing) ~> (caller \notin Racing)

(* A direct transport that dies falls back to a relayed session, as long as *)
(* the reservation is held.  It is asked only where the relayed transports  *)
(* that no stream is on are gone already.                                   *)
FallbackReestablishes ==
  (/\ guard.pc = "redial" /\ conn[active].tier = "direct"
   /\ \A i \in Conns :
        conn[i].tier = "relayed" /\ conn[i].st \in {"live", "closed"} => StreamOn(i))
    => conn[dial["relayed"]].st # "failed"

=============================================================================
