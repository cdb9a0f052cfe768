--------------------------- MODULE RelayCircuits ---------------------------
(***************************************************************************)
(* The relayed tier of dig-nat (src/relay.rs): peers that cannot reach one  *)
(* another directly exchange frames through an untrusted relay over their   *)
(* reservation sockets, and each peer keeps a registry `tunnels` of at most *)
(* one relayed circuit per remote peer.  A circuit carries a mutual-TLS     *)
(* handshake, so it needs one client end (a dial, OpenTunnel) and one       *)
(* server end (an introduced circuit, AcceptIntroduced); which end is which *)
(* is decided here, by the frame that arrives and by the order of the ids.  *)
(*                                                                          *)
(* Each peer runs concurrently: its reservation loop, which routes inbound  *)
(* frames in up to three separate lock regions (variable router); its dial  *)
(* tasks, which test readiness and register in two steps (variable          *)
(* dialing); and one task per held RelayTunnel (variable circ).             *)
(*                                                                          *)
(* TLS is abstracted to four flights and an alert.  A flight carries the    *)
(* name of the dial it belongs to, so that a frame of one session read by   *)
(* another is the decryption failure it is in the program.                  *)
(***************************************************************************)
EXTENDS Naturals, Sequences, FiniteSets

CONSTANTS
  Peers,          \* the peers, compared by peer_id: numbers stand for ids
  MaxDials,       \* bound: MaxDials[p], dials p starts in a behaviour
  MaxTunnelId,    \* bound: circuits one peer registers, dialed and introduced
  MaxSessions,    \* bound: MaxSessions[p], reservation sessions p opens in a behaviour
  MaxRelayTunnels,\* MAX_RELAY_TUNNELS
  InboundCap,     \* RELAY_TUNNEL_INBOUND_CAP
  AcceptCap,      \* INBOUND_ACCEPT_CAP
  MaxRecords      \* bound: frames in flight while application records are sent

ASSUME PeersAssumption == Peers \subseteq Nat
ASSUME BoundsAssumption ==
  /\ MaxDials \in [Peers -> Nat] /\ MaxSessions \in [Peers -> Nat]
  /\ MaxTunnelId \in Nat /\ MaxRecords \in Nat
ASSUME CapsAssumption ==
  /\ MaxRelayTunnels \in Nat /\ AcceptCap \in Nat
  /\ InboundCap \in Nat \ {0}

VARIABLES
  link,       \* link[p]: reservation of p: "down", "registering" or "up"
  sessions,   \* sessions[p]: reservation sessions p has opened
  accepting,  \* accepting[p]: enable_accept was called (inbound_accept is Some)
  tunnels,    \* tunnels[p][q]: the registry entry of p under the key q
  nextId,     \* nextId[p]: next_tunnel_id
  circ,       \* circ[p][i]: the RelayTunnel that p registered under the id i
  dials,      \* dials[p]: dials p has started
  dialing,    \* dialing[p]: targets whose dial passed the readiness test
  router,     \* router[p]: where the reservation loop is inside route_relayed
  acceptq,    \* acceptq[p]: introduced circuits in the accept channel
  wire        \* wire[p][q]: frames from p to q, in p's socket or at the relay

vars == <<link, sessions, accepting, tunnels, nextId, circ, dials, dialing,
          router, acceptq, wire>>

TunnelIds == 1..MaxTunnelId
Roles == {"client", "server"}

(***************************************************************************)
(* A session is named by the dial that started it.  NoTag is the tag of a   *)
(* server that has not read the ClientHello yet, and of an alert.           *)
(***************************************************************************)
Tags == Peers \X (TunnelIds \cup {0})
NoTag(p) == <<p, 0>>
Kinds == {"hello", "server_hello", "finished", "record", "alert"}
Frames == [kind : Kinds, tag : Tags]
Frame(k, t) == [kind |-> k, tag |-> t]

(* The byte test on the first record of a payload, is_tls_client_hello. *)
IsClientHello(f) == f.kind = "hello"

NoEntry == [role |-> "none", id |-> 0, fresh |-> FALSE]
Entries == [role : Roles, id : TunnelIds, fresh : BOOLEAN] \cup {NoEntry}

(***************************************************************************)
(* Life of a held RelayTunnel.  Client: "open" (registered, ClientHello not *)
(* written) -> "wait" -> "up".  Server: "handoff" (in route_relayed's hand) *)
(* -> "queued" (accept channel) -> "start" -> "sent" -> "up".  "gone" is    *)
(* dropped, "unused" an id not assigned yet.                                *)
(***************************************************************************)
ClientPhases == {"open", "wait"}
ServerPhases == {"handoff", "queued", "start", "sent"}
HeldPhases == ClientPhases \cup ServerPhases \cup {"up"}
Circuits == [peer : Peers, role : Roles, st : HeldPhases \cup {"unused", "gone"},
             tag : Tags, inbox : Seq(Frames)]
Blank(p, st) == [peer |-> p, role |-> "client", st |-> st, tag |-> NoTag(p),
                 inbox |-> <<>>]

Idle(p) == [pc |-> "idle", from |-> p, frame |-> Frame("alert", NoTag(p)), id |-> 0]
RouterStates ==
       [pc : {"idle", "accept"}, from : Peers, frame : Frames, id : {0}]
  \cup [pc : {"handoff"}, from : Peers, frame : Frames, id : TunnelIds]

TypeOK ==
  /\ link \in [Peers -> {"down", "registering", "up"}]
  /\ sessions \in [Peers -> Nat]
  /\ accepting \in [Peers -> BOOLEAN]
  /\ tunnels \in [Peers -> [Peers -> Entries]]
  /\ nextId \in [Peers -> Nat \ {0}]
  /\ circ \in [Peers -> [TunnelIds -> Circuits]]
  /\ dials \in [Peers -> Nat]
  /\ dialing \in [Peers -> SUBSET Peers]
  /\ router \in [Peers -> RouterStates]
  /\ acceptq \in [Peers -> Seq(TunnelIds)]
  /\ wire \in [Peers -> [Peers -> Seq(Frames)]]

-----------------------------------------------------------------------------
(* Initial states: nothing is registered.  A test bench that starts from a  *)
(* settled system passes other values of l and a than Init does.            *)
InitWith(l, a) ==
  /\ link = [p \in Peers |-> l]
  /\ sessions = [p \in Peers |-> 0]
  /\ accepting \in [Peers -> a]
  /\ tunnels = [p \in Peers |-> [q \in Peers |-> NoEntry]]
  /\ nextId = [p \in Peers |-> 1]
  /\ circ = [p \in Peers |-> [i \in TunnelIds |-> Blank(p, "unused")]]
  /\ dials = [p \in Peers |-> 0]
  /\ dialing = [p \in Peers |-> {}]
  /\ router = [p \in Peers |-> Idle(p)]
  /\ acceptq = [p \in Peers |-> <<>>]
  /\ wire = [p \in Peers |-> [q \in Peers |-> <<>>]]

Init == InitWith("down", BOOLEAN)

-----------------------------------------------------------------------------
(* Operations on one peer's state that several handlers share.              *)

(* The circuit i of p is the one its registry holds: its sink is alive. *)
Registered(p, i) == tunnels[p][circ[p][i].peer].id = i

(* Variant: every dial registers, live circuit or not. *)
Suppresses_Never(e) == FALSE

(* A fresh entry suppresses a dial: last_activity.elapsed() is below        *)
(* STALE_CIRCUIT_IDLE.                                                      *)
Suppresses(e) == e # NoEntry /\ e.fresh

(* Variant: the entry under the key goes, whichever circuit it is. *)
CloseTunnel_AnyId(t, q, i) == [t EXCEPT ![q] = NoEntry]

(* The registry t without the entry of the circuit i under the key q, if it *)
(* is still that one: the id match of close_tunnel.                         *)
CloseTunnel(t, q, i) == IF t[q].id = i THEN [t EXCEPT ![q] = NoEntry] ELSE t

(* Register a new circuit, overwriting the key; the caller holds the lock.  *)
InsertEntry(p, q, role, st, inbox) ==
  /\ nextId[p] \in TunnelIds
  /\ nextId' = [nextId EXCEPT ![p] = @ + 1]
  /\ tunnels' = [tunnels EXCEPT
       ![p][q] = [role |-> role, id |-> nextId[p], fresh |-> TRUE]]
  /\ circ' = [circ EXCEPT ![p][nextId[p]] =
       [peer |-> q, role |-> role, st |-> st, inbox |-> inbox,
        tag |-> IF role = "client" THEN <<p, nextId[p]>> ELSE NoTag(p)]]

(* Variant: the tunnel is dropped and its registration forgotten. *)
DropTunnel_Unclosed(p, i) ==
  /\ circ' = [circ EXCEPT ![p][i] = Blank(p, "gone")]
  /\ UNCHANGED <<tunnels, nextId>>

(* Drop of the RelayTunnel i of p, with its buffered frames. *)
DropTunnel(p, i) ==
  /\ circ' = [circ EXCEPT ![p][i] = Blank(p, "gone")]
  /\ tunnels' = [tunnels EXCEPT ![p] = CloseTunnel(@, circ[p][i].peer, i)]
  /\ UNCHANGED nextId

(* RelayTunnel::send: the frame goes to the outbound sink of the CURRENT    *)
(* session, whichever session the circuit was opened in.                    *)
CanSend(p) == link[p] # "down"
Send(p, q, f) == wire' = [wire EXCEPT ![p][q] = Append(@, f)]

-----------------------------------------------------------------------------
(* The dialer.                                                              *)

(* open_tunnel, first half: the reservation is up and the target is not us. *)
OpenTunnelCheck(p, q) ==
  /\ link[p] = "up"
  /\ p # q
  /\ q \notin dialing[p]
  /\ dials[p] < MaxDials[p]
  /\ dials' = [dials EXCEPT ![p] = @ + 1]
  /\ dialing' = [dialing EXCEPT ![p] = @ \cup {q}]
  /\ UNCHANGED <<link, sessions, accepting, tunnels, nextId, circ, router,
                 acceptq, wire>>

(* open_tunnel, second half, under the tunnels lock: refused by a live      *)
(* circuit to the same peer, else registered over a stale one or none.      *)
OpenTunnelRegister(p, q) ==
  /\ q \in dialing[p]
  /\ dialing' = [dialing EXCEPT ![p] = @ \ {q}]
  /\ \/ /\ Suppresses(tunnels[p][q])
        /\ UNCHANGED <<tunnels, nextId, circ>>
     \/ /\ ~Suppresses(tunnels[p][q])
        /\ InsertEntry(p, q, "client", "open", <<>>)
  /\ UNCHANGED <<link, sessions, accepting, dials, router, acceptq, wire>>

(* The client handshake over the fresh tunnel writes its ClientHello; with  *)
(* the reservation lost the write fails and the dial drops its tunnel.      *)
WriteClientHello(p, i) ==
  LET c == circ[p][i] IN
  /\ c.st = "open"
  /\ \/ /\ CanSend(p)
        /\ Send(p, c.peer, Frame("hello", c.tag))
        /\ circ' = [circ EXCEPT ![p][i].st = "wait"]
        /\ UNCHANGED <<tunnels, nextId>>
     \/ /\ ~CanSend(p)
        /\ DropTunnel(p, i)
        /\ UNCHANGED wire
  /\ UNCHANGED <<link, sessions, accepting, dials, dialing, router, acceptq>>

(* The dial runs under a timeout; when it fires the future is dropped, and  *)
(* with it the tunnel.                                                      *)
DialTimeout(p, i) ==
  /\ circ[p][i].st \in ClientPhases
  /\ DropTunnel(p, i)
  /\ UNCHANGED <<link, sessions, accepting, dials, dialing, router, acceptq, wire>>

-----------------------------------------------------------------------------
(* A held circuit reads its inbound frames: the TLS endpoint.               *)

(* Variant: a server takes the closing flight of any handshake for its own. *)
Awaited_AnyFinished(c, f) ==
  \/ c.st = "wait" /\ f = Frame("server_hello", c.tag)
  \/ c.st = "start" /\ f.kind = "hello"
  \/ c.st = "sent" /\ f.kind = "finished"
  \/ c.st = "up" /\ f = Frame("record", c.tag)

(* The frame the endpoint is waiting for: one of its own session. *)
Awaited(c, f) ==
  \/ c.st = "wait" /\ f = Frame("server_hello", c.tag)
  \/ c.st = "start" /\ f.kind = "hello"
  \/ c.st = "sent" /\ f = Frame("finished", c.tag)
  \/ c.st = "up" /\ f = Frame("record", c.tag)

Phase(c) == IF c.st = "start" THEN "sent" ELSE "up"

(* The endpoint reads the frame it waits for, and answers a handshake       *)
(* flight that has an answer.                                               *)
Read(p, i) ==
  LET c == circ[p][i]
      f == Head(c.inbox)
      Reply == IF c.st = "wait" THEN "finished" ELSE "server_hello"
  IN
  /\ c.st \in HeldPhases /\ c.inbox # <<>>
  /\ Awaited(c, f)
  /\ \/ /\ c.st \in {"wait", "start"}
        /\ CanSend(p)
        /\ Send(p, c.peer, Frame(Reply, f.tag))
     \/ /\ c.st \in {"sent", "up"}
        /\ UNCHANGED wire
  /\ circ' = [circ EXCEPT ![p][i] =
       [c EXCEPT !.st = Phase(c), !.tag = f.tag, !.inbox = Tail(@)]]
  /\ UNCHANGED <<link, sessions, accepting, tunnels, nextId, dials, dialing, router,
                 acceptq>>

(* Any other frame is fatal to the session: it ends, with a last alert      *)
(* unless it was itself ended by one.  So does an answer that cannot be     *)
(* written.                                                                 *)
ReadError(p, i) ==
  LET c == circ[p][i]
      f == Head(c.inbox)
  IN
  /\ c.st \in {"wait", "start", "sent", "up"} /\ c.inbox # <<>>
  /\ \/ /\ ~Awaited(c, f) /\ f.kind # "alert" /\ CanSend(p)
        /\ Send(p, c.peer, Frame("alert", NoTag(p)))
     \/ /\ ~Awaited(c, f) /\ (f.kind = "alert" \/ ~CanSend(p))
        /\ UNCHANGED wire
     \/ /\ Awaited(c, f) /\ c.st \in {"wait", "start"} /\ ~CanSend(p)
        /\ UNCHANGED wire
  /\ DropTunnel(p, i)
  /\ UNCHANGED <<link, sessions, accepting, dials, dialing, router, acceptq>>

(* recv returns None: the frames are drained and the sink was dropped, by a *)
(* yield, by a newer registration or by the end of the session.             *)
Eof(p, i) ==
  /\ circ[p][i].st \in {"wait", "start", "sent", "up"}
  /\ circ[p][i].inbox = <<>>
  /\ ~Registered(p, i)
  /\ DropTunnel(p, i)
  /\ UNCHANGED <<link, sessions, accepting, dials, dialing, router, acceptq, wire>>

(* The consumer of an established session sends on it. *)
WriteRecord(p, i) ==
  LET c == circ[p][i] IN
  /\ c.st = "up" /\ CanSend(p)
  /\ Len(wire[p][c.peer]) < MaxRecords
  /\ Send(p, c.peer, Frame("record", c.tag))
  /\ UNCHANGED <<link, sessions, accepting, tunnels, nextId, circ, dials, dialing,
                 router, acceptq>>

(* The consumer lets the established session go; the TLS close_notify is    *)
(* sent when the session is shut down in order and not when it is dropped.  *)
Hangup(p, i) ==
  LET c == circ[p][i] IN
  /\ c.st = "up"
  /\ \/ CanSend(p) /\ Send(p, c.peer, Frame("alert", NoTag(p)))
     \/ UNCHANGED wire
  /\ DropTunnel(p, i)
  /\ UNCHANGED <<link, sessions, accepting, dials, dialing, router, acceptq>>

-----------------------------------------------------------------------------
(* The reservation loop routes inbound frames.                              *)

(* The registry t with the entry under q stamped by an arriving frame. *)
Stamp(t, q) == IF t[q] = NoEntry THEN t ELSE [t EXCEPT ![q].fresh = TRUE]

(* The frame goes into the sink of the circuit i; a full channel drops it.  *)
Deliver(p, i, f) ==
  circ' = IF Len(circ[p][i].inbox) < InboundCap
          THEN [circ EXCEPT ![p][i].inbox = Append(@, f)]
          ELSE circ

(* What route_relayed does with the frame f from q, given the entry e that  *)
(* p holds for q.  The glare tie-break: of two clients, the lower id yields *)
(* to the server role, if it can serve at all.                              *)
Glare(e, f) == e.role = "client" /\ IsClientHello(f)
Delivers(e, f) == e # NoEntry /\ ~Glare(e, f)
Ignores(p, q, e, f) == Glare(e, f) /\ (p > q \/ ~accepting[p])
(* Variant: the higher id yields too. *)
Yields_Both(p, q, e, f) == Glare(e, f) /\ accepting[p]
Yields(p, q, e, f) == Glare(e, f) /\ ~(p > q) /\ accepting[p]

(* route_relayed, first lock region: stamp the entry, decide, and on a      *)
(* yield remove the client entry.  An accepted frame leaves the region with *)
(* the lock released.                                                       *)
RouteRelayed(p, q) ==
  LET f == Head(wire[q][p])
      e == tunnels[p][q]
  IN
  /\ link[p] = "up" /\ p # q
  /\ router[p].pc = "idle"
  /\ wire[q][p] # <<>>
  /\ wire' = [wire EXCEPT ![q][p] = Tail(@)]
  /\ \/ /\ Delivers(e, f)
        /\ Deliver(p, e.id, f)
        /\ tunnels' = [tunnels EXCEPT ![p] = Stamp(@, q)]
        /\ UNCHANGED router
     \/ /\ Ignores(p, q, e, f)
        /\ tunnels' = [tunnels EXCEPT ![p] = Stamp(@, q)]
        /\ UNCHANGED <<circ, router>>
     \/ /\ e = NoEntry \/ Yields(p, q, e, f)
        /\ tunnels' = [tunnels EXCEPT ![p][q] = NoEntry]
        /\ router' = [router EXCEPT ![p] =
             [pc |-> "accept", from |-> q, frame |-> f, id |-> 0]]
        /\ UNCHANGED circ
  /\ UNCHANGED <<link, sessions, accepting, nextId, dials, dialing, acceptq>>

Registrations(p) == {q \in Peers : tunnels[p][q] # NoEntry}

(* Variants: no opening-handshake test; one too many. *)
Admits_AnyFrame(p, q, f) ==
  accepting[p] /\ tunnels[p][q] = NoEntry /\ Cardinality(Registrations(p)) < MaxRelayTunnels
Admits_OneTooMany(p, q, f) ==
  /\ IsClientHello(f) /\ accepting[p] /\ tunnels[p][q] = NoEntry
  /\ Cardinality(Registrations(p)) <= MaxRelayTunnels

(* accept_introduced up to the registration: only a ClientHello opens a     *)
(* circuit, on a free key, below the cap; then, in its second lock region,  *)
(* register the server circuit with the opening frame in its channel.       *)
Admits(p, q, f) ==
  /\ IsClientHello(f)
  /\ accepting[p]
  /\ tunnels[p][q] = NoEntry
  /\ Cardinality(Registrations(p)) < MaxRelayTunnels

(* Variant: the tunnel is not kept for the hand-off. *)
AcceptIntroduced_Unkept(p) ==
  LET q == router[p].from
      f == router[p].frame
  IN
  /\ router[p].pc = "accept"
  /\ Admits(p, q, f) /\ InsertEntry(p, q, "server", "handoff", <<f>>)
  /\ router' = [router EXCEPT ![p].pc = "handoff"]
  /\ UNCHANGED <<link, sessions, accepting, dials, dialing, acceptq, wire>>

AcceptIntroduced(p) ==
  LET q == router[p].from
      f == router[p].frame
  IN
  /\ router[p].pc = "accept"
  /\ \/ /\ ~Admits(p, q, f)
        /\ router' = [router EXCEPT ![p] = Idle(p)]
        /\ UNCHANGED <<tunnels, nextId, circ>>
     \/ /\ Admits(p, q, f)
        /\ InsertEntry(p, q, "server", "handoff", <<f>>)
        /\ router' = [router EXCEPT ![p].pc = "handoff", ![p].id = nextId[p]]
  /\ UNCHANGED <<link, sessions, accepting, dials, dialing, acceptq, wire>>

(* accept_introduced, its end: the tunnel goes to the consumer through the  *)
(* accept channel; a full channel drops it.                                 *)
HandOff(p) ==
  LET i == router[p].id IN
  /\ router[p].pc = "handoff"
  /\ router' = [router EXCEPT ![p] = Idle(p)]
  /\ \/ /\ Len(acceptq[p]) < AcceptCap
        /\ acceptq' = [acceptq EXCEPT ![p] = Append(@, i)]
        /\ circ' = [circ EXCEPT ![p][i].st = "queued"]
        /\ UNCHANGED <<tunnels, nextId>>
     \/ /\ Len(acceptq[p]) >= AcceptCap
        /\ DropTunnel(p, i)
        /\ UNCHANGED acceptq
  /\ UNCHANGED <<link, sessions, accepting, dials, dialing, wire>>

(* The consumer takes an introduced circuit and runs RelayAcceptor::accept  *)
(* over it, a task per circuit.                                             *)
TakeCircuit(p) ==
  /\ acceptq[p] # <<>>
  /\ acceptq' = [acceptq EXCEPT ![p] = Tail(@)]
  /\ circ' = [circ EXCEPT ![p][Head(acceptq[p])].st = "start"]
  /\ UNCHANGED <<link, sessions, accepting, tunnels, nextId, dials, dialing,
                 router, wire>>

(* The consumer calls enable_accept. *)
EnableAccept(p) ==
  /\ ~accepting[p]
  /\ accepting' = [accepting EXCEPT ![p] = TRUE]
  /\ UNCHANGED <<link, sessions, tunnels, nextId, circ, dials, dialing, router,
                 acceptq, wire>>

-----------------------------------------------------------------------------
(* The reservation and the network.                                         *)

(* Variant: the registry survives the session. *)
ClearTransport_Sink(p) == UNCHANGED tunnels

(* clear_transport: every sink is dropped. *)
ClearTransport(p) ==
  tunnels' = [tunnels EXCEPT ![p] = [q \in Peers |-> NoEntry]]

(* connect_once: clear what a previous session left, connect, register, and *)
(* install the outbound sink.                                               *)
LinkRegister(p) ==
  /\ link[p] = "down"
  /\ sessions[p] < MaxSessions[p]
  /\ sessions' = [sessions EXCEPT ![p] = @ + 1]
  /\ link' = [link EXCEPT ![p] = "registering"]
  /\ ClearTransport(p)
  /\ UNCHANGED <<accepting, nextId, circ, dials, dialing, router, acceptq, wire>>

(* The relay acknowledges the registration: set_connected. *)
LinkUp(p) ==
  /\ link[p] = "registering"
  /\ link' = [link EXCEPT ![p] = "up"]
  /\ UNCHANGED <<sessions, accepting, tunnels, nextId, circ, dials, dialing,
                 router, acceptq, wire>>

(* serve_session returns: the transport is cleared.  (The last session the  *)
(* bound allows does not end.)                                              *)
LinkDown(p) ==
  /\ link[p] # "down"
  /\ router[p].pc = "idle"
  /\ sessions[p] < MaxSessions[p]
  /\ link' = [link EXCEPT ![p] = "down"]
  /\ ClearTransport(p)
  /\ UNCHANGED <<sessions, accepting, nextId, circ, dials, dialing, router,
                 acceptq, wire>>

(* Frames are lost at the two ends of the path: what p wrote last when its  *)
(* session ended, and what the relay has for a peer with no reservation.    *)
LoseFrame(p, q) ==
  /\ wire[p][q] # <<>>
  /\ \/ /\ link[p] = "down"
        /\ wire' = [wire EXCEPT ![p][q] = SubSeq(@, 1, Len(@) - 1)]
     \/ /\ link[q] # "up"
        /\ wire' = [wire EXCEPT ![p][q] = Tail(@)]
  /\ UNCHANGED <<link, sessions, accepting, tunnels, nextId, circ, dials,
                 dialing, router, acceptq>>

(* STALE_CIRCUIT_IDLE passes without a frame for an entry. *)
Age(p, q) ==
  /\ tunnels[p][q].fresh
  /\ tunnels' = [tunnels EXCEPT ![p][q].fresh = FALSE]
  /\ UNCHANGED <<link, sessions, accepting, nextId, circ, dials, dialing, router,
                 acceptq, wire>>

-----------------------------------------------------------------------------
(* What the peers do of themselves, what the environment may do to them,    *)
(* and what only the passing of time or a failure does.                     *)
Step(p) ==
  \/ LinkRegister(p) \/ LinkUp(p)
  \/ AcceptIntroduced(p) \/ HandOff(p) \/ TakeCircuit(p)
  \/ \E q \in Peers : OpenTunnelRegister(p, q) \/ RouteRelayed(p, q)
  \/ \E i \in TunnelIds :
       WriteClientHello(p, i) \/ Read(p, i) \/ ReadError(p, i) \/ Eof(p, i)

Consumer(p) ==
  \/ EnableAccept(p)
  \/ \E q \in Peers : OpenTunnelCheck(p, q)
  \/ \E i \in TunnelIds : WriteRecord(p, i)

Disturbance(p) ==
  \/ LinkDown(p)
  \/ \E q \in Peers : LoseFrame(p, q) \/ Age(p, q)
  \/ \E i \in TunnelIds : DialTimeout(p, i) \/ Hangup(p, i)

Next == \E p \in Peers : Step(p) \/ Consumer(p) \/ Disturbance(p)

Spec == Init /\ [][Next]_vars

(***************************************************************************)
(* Fairness: the runtime schedules every task that can run (each held       *)
(* circuit is read by a task of its own, the reservation loop by one), the  *)
(* run loop retries forever, and the timer of a dial fires.                 *)
(***************************************************************************)
TaskFairness(p) ==
  /\ WF_vars(LinkRegister(p)) /\ WF_vars(LinkUp(p))
  /\ WF_vars(AcceptIntroduced(p)) /\ WF_vars(HandOff(p))
  /\ WF_vars(TakeCircuit(p))
  /\ \A q \in Peers :
       WF_vars(OpenTunnelRegister(p, q)) /\ WF_vars(RouteRelayed(p, q))
  /\ \A i \in TunnelIds :
       /\ WF_vars(WriteClientHello(p, i)) /\ WF_vars(Read(p, i))
       /\ WF_vars(ReadError(p, i)) /\ WF_vars(Eof(p, i))

TimerFairness(p) == \A i \in TunnelIds : WF_vars(DialTimeout(p, i))

FairSpec == Spec /\ \A p \in Peers : TaskFairness(p) /\ TimerFairness(p)

(***************************************************************************)
(* A settled pair: both reservations stay up, both responders are enabled,  *)
(* no timer fires and no session is let go.  Dials still race one another   *)
(* and the routing loops in every order.                                    *)
(***************************************************************************)
Settled == InitWith("up", {TRUE})
RaceNext == \E p \in Peers : Step(p) \/ \E q \in Peers : OpenTunnelCheck(p, q)
RaceSpec == Settled /\ [][RaceNext]_vars /\ \A p \in Peers : TaskFairness(p)

(* The same without one race: no dial of p registers under a key while the  *)
(* reservation loop of p is between the two lock regions of a route to it.  *)
InGap(p, q) == router[p].pc = "accept" /\ router[p].from = q
NoDialInGap ==
  \A p, q \in Peers : InGap(p, q) => tunnels'[p][q].role # "client"
NoGapSpec ==
  /\ Settled /\ [][RaceNext /\ NoDialInGap]_vars
  /\ \A p \in Peers : TaskFairness(p)

-----------------------------------------------------------------------------
(* Properties.                                                              *)

Entry(p, q) == tunnels[p][q]
Current(p, q) == circ[p][tunnels[p][q].id]

(* Every registry entry belongs to a RelayTunnel that a task still holds,   *)
(* under that peer and in that role: no registration outlives its handle,   *)
(* so what suppresses a dial can always be released (the phantom circuit    *)
(* that STALE_CIRCUIT_IDLE works around, relay.rs #1871).                   *)
EntryIsHeld ==
  \A p, q \in Peers : Entry(p, q) # NoEntry =>
    /\ Current(p, q).st \in HeldPhases
    /\ Current(p, q).peer = q
    /\ Current(p, q).role = Entry(p, q).role

(* A server end is only ever stood up in front of a ClientHello: whatever   *)
(* happened to the key since, the first frame its handshake reads is the    *)
(* opening frame of a dialer (accept_introduced, relay.rs #1761).           *)
ServerHearsHello ==
  \A p \in Peers, i \in TunnelIds :
    circ[p][i].st \in {"handoff", "queued", "start"} =>
      circ[p][i].inbox # <<>> /\ IsClientHello(Head(circ[p][i].inbox))

(* What the two properties above rest on: ids are handed out in order, and  *)
(* a server circuit is in exactly one hand on its way to the consumer, the  *)
(* reservation loop's or the accept channel's.                              *)
UnusedAbove ==
  \A p \in Peers, i \in TunnelIds : i >= nextId[p] => circ[p][i].st = "unused"

InOneHand ==
  \A p \in Peers :
    /\ router[p].pc = "handoff" => circ[p][router[p].id].st = "handoff"
    /\ \A k \in 1..Len(acceptq[p]) : circ[p][acceptq[p][k]].st = "queued"
    /\ \A k, m \in 1..Len(acceptq[p]) :
         k # m => acceptq[p][k] # acceptq[p][m]

RegistryInv ==
  TypeOK /\ UnusedAbove /\ InOneHand /\ EntryIsHeld /\ ServerHearsHello

(* Introduced circuits never take more registry slots than                  *)
(* MAX_RELAY_TUNNELS, although dials are not counted against the cap when   *)
(* they register.                                                           *)
ServersBounded ==
  \A p \in Peers :
    Cardinality({q \in Peers : Entry(p, q).role = "server"}) <= MaxRelayTunnels

(* When both ends of a pair hold an established circuit under each other's  *)
(* key, they are the two ends of ONE session, one client and one server:    *)
(* no frame order, timeout, redial or lost frame leaves two conflicting     *)
(* sessions behind (the double-session harm of #1536).                      *)
OneSessionPerPair ==
  \A p, q \in Peers :
    /\ Entry(p, q) # NoEntry /\ Current(p, q).st = "up"
    /\ Entry(q, p) # NoEntry /\ Current(q, p).st = "up"
    => /\ Current(p, q).tag = Current(q, p).tag
       /\ Current(p, q).role # Current(q, p).role

(* The ways an entry of p may leave its key q. *)
KeepsEntry(p, q) ==
  LET e == Entry(p, q)
      n == tunnels'[p][q]
  IN (e # NoEntry /\ n.id # e.id) =>
       \/ /\ n = NoEntry
          /\ \/ circ'[p][e.id].st = "gone"
             \/ link'[p] # link[p]
             \/ e.role = "client" /\ p < q /\ router'[p].pc = "accept"
       \/ n.role = "client" /\ ~e.fresh

(* A live entry is never overwritten: it leaves its key only when the task  *)
(* holding that very circuit drops it, when the session ends, or when the   *)
(* lower id of a glare yields a client end; another registration takes the  *)
(* key directly only from an idle entry, and only as a dial (non-clobber,   *)
(* open_tunnel and accept_introduced; id match, close_tunnel).              *)
KeepsLiveEntry == [][\A p, q \in Peers : KeepsEntry(p, q)]_vars

(* When a reservation session ends, every circuit that was running in it    *)
(* ends too: its blocked reads wake with None and its holder lets it go     *)
(* (clear_transport drops every sink).                                      *)
SessionEndReleases ==
  \A p \in Peers, i \in TunnelIds :
    (link[p] = "down" /\ circ[p][i].st \in {"wait", "start", "sent", "up"})
      ~> (circ[p][i].st = "gone")

SameRole(p, q) ==
  /\ Entry(p, q) # NoEntry /\ Entry(q, p) # NoEntry
  /\ Entry(p, q).role = Entry(q, p).role

(* A pair whose two ends took the same role (possible when a dial was given *)
(* up with its ClientHello in flight) does not stay that way: two clients   *)
(* time out, two servers refuse one another's flights.                      *)
MisroledPairUnwinds ==
  \A p, q \in Peers : SameRole(p, q) ~> ~SameRole(p, q)

Connected(p, q) ==
  /\ Entry(p, q) # NoEntry /\ Entry(q, p) # NoEntry
  /\ Current(p, q).st = "up" /\ Current(q, p).st = "up"
  /\ Current(p, q).tag = Current(q, p).tag

(* However two dials cross, the pair converges to one client and one server *)
(* sharing a session, for good, with no timer and no retry (route_relayed,  *)
(* GLARE).                                                                  *)
CrossedPairConverges ==
  \A p, q \in Peers :
    (\E i \in TunnelIds : circ[p][i].st = "open" /\ circ[p][i].peer = q)
      ~> []Connected(p, q)
=============================================================================
