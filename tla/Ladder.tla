-------------------------------- MODULE Ladder --------------------------------
(***************************************************************************)
(* connect of dig-nat (src/lib.rs, src/strategy.rs, src/method/,            *)
(* src/dialer.rs): compose the traversal methods that are enabled and have  *)
(* what they need, try them in rank order, each in two stages under a       *)
(* timeout -- find an address, dial and verify it -- and return the first   *)
(* verified connection or every failure.                                    *)
(*                                                                          *)
(* The world answers as it likes: gateways, strangers that send datagrams,  *)
(* candidate addresses that belong to somebody else, a relay reservation    *)
(* that comes and goes.                                                     *)
(***************************************************************************)
EXTENDS Naturals, Sequences

CONSTANTS
  Configs,  \* sets of kinds a NatConfig enables
  Runtimes, \* sets of handles a NatRuntime carries
  MailCap   \* bound: datagrams waiting at a socket

ASSUME LadderAssumption ==
  /\ \A c \in Configs : c \subseteq {"Direct", "Upnp", "NatPmp", "Pcp", "HolePunch", "Relayed"}
  /\ MailCap \in Nat

VARIABLES
  call,     \* the arguments of connect
  pc,       \* where connect is
  todo,     \* methods not tried to the end, in order
  failures, \* the failures collected: of which method, and why
  mail,     \* datagrams at the socket of the running transaction
  answerer, \* who answers at the transport that was opened
  result,   \* what connect returned
  ready     \* relay_transport_ready()

attempt == <<mail, answerer>>
vars == <<call, pc, todo, failures, attempt, result, ready>>

Kinds == {"Direct", "Upnp", "NatPmp", "Pcp", "HolePunch", "Relayed"}

\* The runtime handles a method is composed from.
Needs(kind) ==
  CASE kind = "Direct" -> {}
    [] kind = "Upnp" -> {"local_port"}
    [] kind = "NatPmp" -> {"local_port", "gateway_v4"}
    [] kind = "Pcp" -> {"local_port", "gateway_v4", "client_ip"}
    [] kind = "HolePunch" -> {"hole_punch", "my_external_addr"}
    [] kind = "Relayed" -> {"relayed"}
Handles == UNION {Needs(kind) : kind \in Kinds}

(***************************************************************************)
(* A party that may sit behind an address: the peer, this node itself, or   *)
(* somebody else.  A call has a target (the peer or, by mistake, ourselves) *)
(* and the candidate addresses of it.  steady: the relay holds and forwards *)
(* and the peer answers over it in time, for the whole call.                *)
(***************************************************************************)
Parties == {"peer", "us", "other"}
Calls == [enabled : Configs, runtime : Runtimes, target : {"peer", "us"},
          addrs : SUBSET Parties, steady : BOOLEAN]
Datagrams == [from : {"gateway", "stranger"}, good : BOOLEAN]

\* A timer ran out, a socket failed, or the answer was no.
Causes == {"timer", "io", "answer"}

Transactions == {"external", "map"}
Stages == {"attempt", "external", "map", "dial", "handshake"}

TypeOK ==
  /\ call \in Calls
  /\ pc \in Stages \cup {"idle", "returned"}
  /\ todo \in Seq(Kinds)
  /\ failures \in Seq([kind : Kinds, cause : Causes])
  /\ mail \in Seq(Datagrams) /\ Len(mail) <= MailCap
  /\ answerer \in Parties \cup {"none"}
  /\ result \in {"none", "no_methods", "all_failed"} \cup Kinds
  /\ ready \in BOOLEAN

Init ==
  /\ call \in Calls
  /\ ready = call.steady
  /\ pc = "idle" /\ todo = <<>> /\ failures = <<>>
  /\ mail = <<>> /\ answerer = "none" /\ result = "none"

\* compose_ladder, in the order of rank connect_with_strategy sorts it into.
Composed(kind) == kind \in call.enabled /\ Needs(kind) \subseteq call.runtime
Offered(kind) == IF Composed(kind) THEN <<kind>> ELSE <<>>
ComposeLadder ==
  Offered("Direct") \o Offered("Upnp") \o Offered("NatPmp") \o Offered("Pcp")
    \o Offered("HolePunch") \o Offered("Relayed")

current == Head(todo)

-----------------------------------------------------------------------------
Connect ==
  /\ pc = "idle"
  /\ todo' = ComposeLadder
  /\ IF todo' = <<>>
     THEN pc' = "returned" /\ result' = "no_methods"
     ELSE pc' = "attempt" /\ UNCHANGED result
  /\ UNCHANGED <<call, failures, attempt, ready>>
\* Variant: the first failure ends the ladder.
FailWith_First(cause) ==
  /\ failures' = Append(failures, [kind |-> current, cause |-> cause])
  /\ todo' = <<>>
  /\ pc' = "returned" /\ result' = "all_failed"
  /\ mail' = <<>> /\ answerer' = "none"
  /\ UNCHANGED <<call, ready>>

\* The method's failure is pushed; the next one is tried, or all failed.
FailWith(cause) ==
  /\ failures' = Append(failures, [kind |-> current, cause |-> cause])
  /\ todo' = Tail(todo)
  /\ IF todo' = <<>>
     THEN pc' = "returned" /\ result' = "all_failed"
     ELSE pc' = "attempt" /\ UNCHANGED result
  /\ mail' = <<>> /\ answerer' = "none"
  /\ UNCHANGED <<call, ready>>

Fail == FailWith("answer")

\* A stage goes on to another, whose socket is new.
To(stage) ==
  /\ pc' = stage /\ mail' = <<>>
  /\ UNCHANGED <<call, todo, failures, result, ready>>

Outcome == To("dial") /\ UNCHANGED answerer

\* run_bounded: the timer of the stage cancels it wherever it waits.
Patient == pc \in Stages /\ call.steady /\ current = "Relayed"
\* Variant: only the first stage is bounded.
Timeout_AttemptOnly ==
  pc \in Stages \ {"dial", "handshake"} /\ ~Patient /\ FailWith("timer")

Timeout == pc \in Stages /\ ~Patient /\ FailWith("timer")

(* Stage 1: TraversalMethod::attempt.  Direct and the mapping methods need   *)
(* an address of the peer to dial afterwards.                                *)
NoAddress ==
  /\ pc = "attempt" /\ current \in {"Direct", "Upnp", "NatPmp", "Pcp"}
  /\ call.addrs = {}
  /\ Fail

AttemptDirect ==
  /\ pc = "attempt" /\ current = "Direct" /\ call.addrs # {}
  /\ Outcome

\* The gateway library, or the coordinator at the relay, answers or refuses.
AttemptAsked ==
  /\ pc = "attempt"
  /\ current = "HolePunch" \/ (current = "Upnp" /\ call.addrs # {})
  /\ Outcome \/ Fail

\* NAT-PMP and PCP: bind, send, or fail to.
AttemptMapping ==
  /\ pc = "attempt" /\ call.addrs # {}
  /\ \/ current = "NatPmp" /\ To("external") /\ UNCHANGED answerer
     \/ current = "Pcp" /\ To("map") /\ UNCHANGED answerer
     \/ current \in {"NatPmp", "Pcp"} /\ FailWith("io")

SocketFails == pc \in Transactions /\ FailWith("io")

\* A datagram arrives at the socket of the transaction.
Arrives(d) ==
  /\ pc \in Transactions /\ Len(mail) < MailCap
  /\ mail' = Append(mail, d)
  /\ UNCHANGED <<call, pc, todo, failures, answerer, result, ready>>

\* NAT-PMP takes the first datagram, from anyone.
NatPmpReads ==
  /\ pc \in Transactions /\ current = "NatPmp" /\ mail # <<>>
  /\ IF ~Head(mail).good THEN Fail
     ELSE \/ pc = "external" /\ To("map") /\ UNCHANGED answerer
          \/ pc = "map" /\ Outcome
\* Variant: the source of a datagram is not compared.
FromGateway_Anyone(d) == TRUE

\* PCP passes over what is not from the gateway.  good: the version, opcode,
\* result and nonce are those of this request's success.
FromGateway(d) == d.from = "gateway"
PcpReads ==
  /\ pc = "map" /\ current = "Pcp" /\ mail # <<>>
  /\ IF ~FromGateway(Head(mail))
     THEN /\ mail' = Tail(mail)
          /\ UNCHANGED <<call, pc, todo, failures, answerer, result, ready>>
     ELSE IF Head(mail).good THEN Outcome ELSE Fail

AttemptRelayed ==
  /\ pc = "attempt" /\ current = "Relayed"
  /\ IF ready THEN Outcome ELSE Fail

(* Stage 2: MtlsDialer::dial.                                                *)
SelfDial == call.target = "us"

RefuseSelf == pc = "dial" /\ SelfDial /\ Fail

\* The race over the candidates ends with whoever took the TCP connection
\* first; a hole punch has the one address its coordinator gave.
DialAddress ==
  /\ pc = "dial" /\ ~SelfDial /\ current # "Relayed"
  /\ \/ \E p \in IF current = "HolePunch" THEN Parties ELSE call.addrs :
          To("handshake") /\ answerer' = p
     \/ Fail

DialRelayed ==
  /\ pc = "dial" /\ ~SelfDial /\ current = "Relayed"
  /\ IF ready
     THEN \/ To("handshake") /\ answerer' \in IF call.steady THEN {"peer"} ELSE Parties
          \/ ~call.steady /\ Fail
     ELSE Fail
\* Variant: any DIG certificate will do.
Verifies_Unpinned(p) == p # "none"

\* The pinning verifier takes the target's certificate and no other, and
\* handshake_over returns the connection.
Verifies(p) == p = call.target
Handshake ==
  /\ pc = "handshake"
  /\ IF Verifies(answerer)
     THEN /\ pc' = "returned" /\ result' = current
          /\ UNCHANGED <<call, todo, failures, attempt, ready>>
     ELSE Fail
HandshakeFails == pc = "handshake" /\ ~Patient /\ Fail

\* The reservation comes and goes.
RelayChanges ==
  /\ ~call.steady /\ pc # "returned"
  /\ ready' = ~ready
  /\ UNCHANGED <<call, pc, todo, failures, attempt, result>>

-----------------------------------------------------------------------------
Attempt ==
  \/ NoAddress \/ AttemptDirect \/ AttemptAsked \/ AttemptMapping
  \/ SocketFails \/ NatPmpReads \/ PcpReads \/ AttemptRelayed
Dial == RefuseSelf \/ DialAddress \/ DialRelayed \/ Handshake \/ HandshakeFails
World == RelayChanges \/ \E d \in Datagrams : Arrives(d)
Next == Connect \/ Attempt \/ Dial \/ Timeout \/ World

Spec == Init /\ [][Next]_vars

(***************************************************************************)
(* The timers of run_bounded fire; in the steady relayed tier, where they   *)
(* are not to, the handshake is over before them.  Nothing else is fair: a  *)
(* gateway, a coordinator or a peer may be silent for ever.                 *)
(***************************************************************************)
TimerFairness ==
  /\ WF_vars(Connect) /\ WF_vars(Timeout)
  /\ WF_vars(Patient /\ (AttemptRelayed \/ RefuseSelf \/ DialRelayed \/ Handshake))

FairSpec == Spec /\ TimerFairness

-----------------------------------------------------------------------------
\* Every composed method is accounted for once, in rank order: the failures
\* so far and the methods left are the ladder, so a success comes after the
\* failure of everything before it and all_failed names every method
\* (connect_with_strategy, src/strategy.rs:78).
Accounted ==
  /\ pc = "idle" => failures = <<>> /\ result = "none"
  /\ pc # "idle" => [i \in DOMAIN failures |-> failures[i].kind] \o todo = ComposeLadder
  /\ pc \in Stages => todo # <<>>
  /\ result \in Kinds => todo # <<>> /\ result = current
  /\ result = "all_failed" => todo = <<>> /\ failures # <<>>

\* A connection is always to the peer that was asked for and never to this
\* node itself, whatever answered on whatever address and tier
\* (MtlsDialer::dial, src/dialer.rs:281).
Authenticated == result \in Kinds => answerer = call.target /\ answerer # "us"

LadderInv == TypeOK /\ Accounted /\ Authenticated

\* Only the gateway decides a PCP transaction: it succeeds on a datagram of
\* the gateway, and is refused by none but such a one, although
\* strangers' datagrams arrive before and between (PcpMethod::transact,
\* src/method/pcp.rs:171).
GatewayDecides ==
  [][(pc = "map" /\ current = "Pcp" /\ pc' # "map" /\
      (failures' # failures => failures'[Len(failures')].cause = "answer"))
     => mail # <<>> /\ Head(mail).from = "gateway"]_vars

\* connect returns, whoever stays silent (src/README.md:37).
Returns == pc # "idle" ~> pc = "returned"

\* A relay that holds is the last resort that works: whatever happened to the
\* tiers before it, connect ends with a connection.
RelayCatches ==
  (call.steady /\ call.target = "peer" /\ Composed("Relayed")) ~> result \in Kinds
=============================================================================
