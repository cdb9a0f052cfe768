--------------------------- MODULE CircuitSessions ---------------------------
(***************************************************************************)
(* What the frames under way between two peers of RelayCircuits say of the  *)
(* circuits that sent them, and the invariant that keeps two peers from     *)
(* ending up with two conflicting sessions (OneSessionPerPair).             *)
(*                                                                         *)
(* A dial of p to q is followed from its registration to the end of its     *)
(* handshake: it is Pending until q takes its ClientHello off the path,     *)
(* Heard once a server circuit of q was opened by it, and Answered once the *)
(* answer of that server reached the dial itself, which only a circuit that *)
(* is in the registry can be given.                                         *)
(***************************************************************************)
EXTENDS RelayCircuits

Holds(s, f) == \E n \in 1..Len(s) : s[n] = f

Once(s, f) == \A m, n \in 1..Len(s) : s[m] = f /\ s[n] = f => m = n

Hello(p, i) == Frame("hello", <<p, i>>)
ServerHello(p, i) == Frame("server_hello", <<p, i>>)
Finished(p, i) == Frame("finished", <<p, i>>)

(* The circuit c is a server's end, opened by the ClientHello of the dial i *)
(* of p: it waits to be read, or names the session of c.                    *)
OpenedBy(c, p, i) ==
  /\ c.role = "server" /\ c.peer = p
  /\ \/ c.st \in {"handoff", "queued", "start"} /\ Head(c.inbox) = Hello(p, i)
     \/ c.st \in {"sent", "up"} /\ c.tag = <<p, i>>

(* The client's end c, the dial i of p to q, was given the answer. *)
GivenAnswer(c, p, q, i) ==
  /\ c.role = "client" /\ c.peer = q
  /\ c.st = "up" \/ Holds(c.inbox, ServerHello(p, i))

(* The circuit c of the other peer was given the closing flight. *)
GivenFinish(c, p, i) ==
  /\ c.peer = p
  /\ \/ Holds(c.inbox, Finished(p, i))
     \/ c.role = "server" /\ c.st = "up" /\ c.tag = <<p, i>>

Pending(p, q, i) ==
  \/ circ[p][i].st = "open" /\ circ[p][i].peer = q
  \/ Holds(wire[p][q], Hello(p, i))
  \/ InGap(q, p) /\ router[q].frame = Hello(p, i)

Answered(p, q, i) ==
  \/ GivenAnswer(circ[p][i], p, q, i)
  \/ Holds(wire[p][q], Finished(p, i))
  \/ \E j \in TunnelIds : GivenFinish(circ[q][j], p, i)

Heard(p, q, i) ==
  \/ \E j \in TunnelIds : OpenedBy(circ[q][j], p, i)
  \/ Holds(wire[q][p], ServerHello(p, i))
  \/ Answered(p, q, i)

(* The entry of q for p is the server's end of the dial i of p. *)
Serves(q, p, i) ==
  Entry(q, p).role = "server" /\ OpenedBy(Current(q, p), p, i)

-----------------------------------------------------------------------------
(* No circuit leads from a peer to itself. *)
NoSelf ==
  \A p \in Peers : /\ tunnels[p][p] = NoEntry
                   /\ p \notin dialing[p]
                   /\ ~InGap(p, p)

(* A client names its own dial, a server a dial of its peer, and a          *)
(* ClientHello a dial of its sender.                                        *)
OwnTag(c, p, i) ==
  c.st \in HeldPhases =>
    \/ c.role = "client" /\ c.st \in ClientPhases \cup {"up"} /\ c.tag = <<p, i>>
    \/ c.role = "server" /\ \E k \in TunnelIds : OpenedBy(c, c.peer, k)

OwnHello(f, p) == IsClientHello(f) => \E i \in TunnelIds : f = Hello(p, i)

OwnTags ==
  /\ \A p \in Peers, i \in TunnelIds : OwnTag(circ[p][i], p, i)
  /\ \A p, q \in Peers : \A n \in 1..Len(wire[p][q]) : OwnHello(wire[p][q][n], p)
  /\ \A p, q \in Peers : InGap(q, p) => OwnHello(router[q].frame, p)

(* A ClientHello is in one place. *)
HelloOnce ==
  \A p, q \in Peers, i \in TunnelIds :
    /\ Once(wire[p][q], Hello(p, i))
    /\ circ[p][i].st = "open" /\ circ[p][i].peer = q =>
         ~Holds(wire[p][q], Hello(p, i))
    /\ InGap(q, p) /\ router[q].frame = Hello(p, i) =>
         /\ ~Holds(wire[p][q], Hello(p, i))
         /\ ~(circ[p][i].st = "open" /\ circ[p][i].peer = q)

(* The entry for a peer is the latest of the circuits to it. *)
LatestEntry ==
  \A p, q \in Peers, i \in TunnelIds :
    Pending(p, q, i) \/ Heard(p, q, i) =>
      /\ i < nextId[p]
      /\ Entry(p, q) # NoEntry => i <= Entry(p, q).id

(* A ClientHello is heard once. *)
PendingUnheard ==
  \A p, q \in Peers, i \in TunnelIds : ~(Pending(p, q, i) /\ Heard(p, q, i))

(* Two registered dials are not both heard. *)
OneDialHeard ==
  \A p, q \in Peers :
    ~ /\ Entry(p, q).role = "client" /\ Heard(p, q, Entry(p, q).id)
      /\ Entry(q, p).role = "client" /\ Heard(q, p, Entry(q, p).id)

(* Two registered servers do not both have a dial that got its answer. *)
OneDialAnswered ==
  \A p, q \in Peers, i \in TunnelIds :
    Serves(q, p, i) /\ Answered(p, q, i) =>
      \A j \in TunnelIds : ~(Serves(p, q, j) /\ Answered(q, p, j))

(* A registered server whose dial got its answer serves the last dial heard. *)
LastDialServed ==
  \A p, q \in Peers, k \in TunnelIds :
    Serves(q, p, k) /\ Answered(p, q, k) =>
      \A i \in TunnelIds : Heard(p, q, i) => i <= k

PairInv ==
  LatestEntry /\ PendingUnheard /\ OneDialHeard /\ OneDialAnswered /\ LastDialServed

SessionsInv == NoSelf /\ OwnTags /\ HelloOnce /\ PairInv
=============================================================================
