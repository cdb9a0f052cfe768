------------------------ MODULE RelayCircuitsProofs ------------------------
(***************************************************************************)
(* Proofs about RelayCircuits, for every set of peers and every bound.      *)
(***************************************************************************)
EXTENDS RelayCircuits, SequenceTheorems, FiniteSetTheorems, TLAPS

-----------------------------------------------------------------------------
(* Types of the helpers.                                                    *)

LEMMA FrameType ==
  ASSUME NEW k \in Kinds, NEW t \in Tags
  PROVE  Frame(k, t) \in Frames
BY DEF Frame, Frames

LEMMA BlankType ==
  ASSUME NEW p \in Peers, NEW st \in HeldPhases \cup {"unused", "gone"}
  PROVE  Blank(p, st) \in Circuits
BY DEF Blank, Circuits, Roles, NoTag, Tags

LEMMA IdleType == ASSUME NEW p \in Peers PROVE Idle(p) \in RouterStates
BY DEF Idle, RouterStates, Frame, Frames, Kinds, NoTag, Tags

LEMMA CloseTunnelType ==
  ASSUME NEW t \in [Peers -> Entries], NEW q \in Peers, NEW i \in TunnelIds
  PROVE  CloseTunnel(t, q, i) \in [Peers -> Entries]
BY DEF CloseTunnel, Entries

LEMMA StampType ==
  ASSUME NEW t \in [Peers -> Entries], NEW q \in Peers
  PROVE  Stamp(t, q) \in [Peers -> Entries]
BY DEF Stamp, Entries, NoEntry, Roles, TunnelIds

(* The three variables a registration or a drop changes keep their types. *)
RegistryTypeOK ==
  /\ tunnels \in [Peers -> [Peers -> Entries]]
  /\ nextId \in [Peers -> Nat \ {0}]
  /\ circ \in [Peers -> [TunnelIds -> Circuits]]

LEMMA InsertEntryType ==
  ASSUME RegistryTypeOK, NEW p \in Peers, NEW q \in Peers, NEW role \in Roles,
         NEW st \in HeldPhases, NEW inbox \in Seq(Frames),
         InsertEntry(p, q, role, st, inbox)
  PROVE  RegistryTypeOK'
<1>1. nextId[p] \in TunnelIds /\ nextId[p] \in Nat
  BY DEF InsertEntry, RegistryTypeOK
<1> DEFINE c == [peer |-> q, role |-> role, st |-> st, inbox |-> inbox,
                 tag |-> IF role = "client" THEN <<p, nextId[p]>> ELSE NoTag(p)]
           e == [role |-> role, id |-> nextId[p], fresh |-> TRUE]
<1>2. c \in Circuits
  BY <1>1 DEF Circuits, NoTag, Tags
<1>3. e \in Entries
  BY <1>1 DEF Entries
<1>4. /\ tunnels' = [tunnels EXCEPT ![p][q] = e]
      /\ circ' = [circ EXCEPT ![p][nextId[p]] = c]
      /\ nextId' = [nextId EXCEPT ![p] = @ + 1]
  BY DEF InsertEntry
<1> QED
  BY <1>1, <1>2, <1>3, <1>4 DEF RegistryTypeOK

LEMMA DropTunnelType ==
  ASSUME RegistryTypeOK, NEW p \in Peers, NEW i \in TunnelIds, DropTunnel(p, i)
  PROVE  RegistryTypeOK'
<1>1. circ[p][i].peer \in Peers
  BY DEF RegistryTypeOK, Circuits
<1>2. CloseTunnel(tunnels[p], circ[p][i].peer, i) \in [Peers -> Entries]
  BY <1>1, CloseTunnelType DEF RegistryTypeOK
<1>3. Blank(p, "gone") \in Circuits
  BY BlankType
<1>4. /\ tunnels' = [tunnels EXCEPT ![p] = CloseTunnel(tunnels[p], circ[p][i].peer, i)]
      /\ circ' = [circ EXCEPT ![p][i] = Blank(p, "gone")]
      /\ nextId' = nextId
  BY DEF DropTunnel
<1> QED
  BY <1>2, <1>3, <1>4 DEF RegistryTypeOK

(* A frame sent keeps the type of the wire. *)
LEMMA SendType ==
  ASSUME wire \in [Peers -> [Peers -> Seq(Frames)]],
         NEW p \in Peers, NEW q \in Peers, NEW f \in Frames, Send(p, q, f)
  PROVE  wire' \in [Peers -> [Peers -> Seq(Frames)]]
<1>1. Append(wire[p][q], f) \in Seq(Frames)
  OBVIOUS
<1>2. wire' = [wire EXCEPT ![p][q] = Append(wire[p][q], f)]
  BY DEF Send
<1> QED
  BY <1>1, <1>2

(* The fields of a circuit, typed. *)
LEMMA CircuitFields ==
  ASSUME RegistryTypeOK, NEW p \in Peers, NEW i \in TunnelIds
  PROVE  /\ circ[p][i] \in Circuits
         /\ circ[p][i].peer \in Peers /\ circ[p][i].role \in Roles
         /\ circ[p][i].st \in HeldPhases \cup {"unused", "gone"}
         /\ circ[p][i].tag \in Tags /\ circ[p][i].inbox \in Seq(Frames)
BY DEF RegistryTypeOK, Circuits

(* A circuit stays one when a field takes a value of its type. *)
LEMMA CircuitWith ==
  ASSUME NEW c \in Circuits
  PROVE  /\ \A x \in HeldPhases \cup {"unused", "gone"} : [c EXCEPT !.st = x] \in Circuits
         /\ \A x \in Tags : [c EXCEPT !.tag = x] \in Circuits
         /\ \A x \in Seq(Frames) : [c EXCEPT !.inbox = x] \in Circuits
BY DEF Circuits

-----------------------------------------------------------------------------
(* Type correctness, action by action.                                      *)

LEMMA TypeOKParts ==
  TypeOK <=> /\ RegistryTypeOK
             /\ link \in [Peers -> {"down", "registering", "up"}]
             /\ sessions \in [Peers -> Nat]
             /\ accepting \in [Peers -> BOOLEAN]
             /\ dials \in [Peers -> Nat]
             /\ dialing \in [Peers -> SUBSET Peers]
             /\ router \in [Peers -> RouterStates]
             /\ acceptq \in [Peers -> Seq(TunnelIds)]
             /\ wire \in [Peers -> [Peers -> Seq(Frames)]]
BY DEF TypeOK, RegistryTypeOK

LEMMA InitTypeOK == Init => TypeOK
<1> SUFFICES ASSUME Init PROVE TypeOK
  OBVIOUS
<1>1. \A p \in Peers : Blank(p, "unused") \in Circuits /\ Idle(p) \in RouterStates
  BY BlankType, IdleType
<1> QED
  BY <1>1 DEF Init, InitWith, TypeOK, Entries, NoEntry

LEMMA DialerTypeOK ==
  ASSUME TypeOK, NEW p \in Peers, NEW q \in Peers,
         OpenTunnelCheck(p, q) \/ OpenTunnelRegister(p, q)
  PROVE  TypeOK'
<1>1. CASE OpenTunnelCheck(p, q)
  <2>1. dials' \in [Peers -> Nat]
    BY <1>1 DEF OpenTunnelCheck, TypeOK
  <2>2. dialing' \in [Peers -> SUBSET Peers]
    BY <1>1 DEF OpenTunnelCheck, TypeOK
  <2> QED
    BY <1>1, <2>1, <2>2 DEF OpenTunnelCheck, TypeOK
<1>2. CASE OpenTunnelRegister(p, q)
  <2>1. RegistryTypeOK'
    <3>1. CASE UNCHANGED <<tunnels, nextId, circ>>
      BY <3>1, TypeOKParts DEF RegistryTypeOK
    <3>2. CASE InsertEntry(p, q, "client", "open", <<>>)
      <4>1. /\ "client" \in Roles /\ "open" \in HeldPhases /\ <<>> \in Seq(Frames)
            /\ RegistryTypeOK
        BY TypeOKParts DEF Roles, HeldPhases, ClientPhases
      <4> QED
        BY <3>2, <4>1, InsertEntryType
    <3> QED
      BY <1>2, <3>1, <3>2 DEF OpenTunnelRegister
  <2> QED
    BY <1>2, <2>1 DEF OpenTunnelRegister, TypeOK, RegistryTypeOK
<1> QED
  BY <1>1, <1>2

LEMMA EndpointTypeOK ==
  ASSUME TypeOK, NEW p \in Peers, NEW i \in TunnelIds,
         \/ WriteClientHello(p, i) \/ DialTimeout(p, i) \/ Read(p, i)
         \/ ReadError(p, i) \/ Eof(p, i) \/ WriteRecord(p, i) \/ Hangup(p, i)
  PROVE  TypeOK'
<1> DEFINE c == circ[p][i]
<1>0. /\ RegistryTypeOK /\ c \in Circuits /\ c.peer \in Peers /\ c.tag \in Tags
      /\ c.inbox \in Seq(Frames)
      /\ wire \in [Peers -> [Peers -> Seq(Frames)]]
  BY CircuitFields, TypeOKParts
<1>a. NoTag(p) \in Tags
  BY DEF NoTag, Tags
<1>1. ASSUME DropTunnel(p, i), wire' \in [Peers -> [Peers -> Seq(Frames)]],
             UNCHANGED <<link, sessions, accepting, dials, dialing, router, acceptq>>
      PROVE  TypeOK'
  BY <1>0, <1>1, DropTunnelType DEF TypeOK, RegistryTypeOK
<1>2. CASE WriteClientHello(p, i)
  <2>1. CASE CanSend(p)
    <3>1. /\ Send(p, c.peer, Frame("hello", c.tag))
          /\ circ' = [circ EXCEPT ![p][i].st = "wait"]
      BY <1>2, <2>1 DEF WriteClientHello
    <3>2. [c EXCEPT !.st = "wait"] \in Circuits
      BY <1>0, CircuitWith DEF HeldPhases, ClientPhases
    <3>3. wire' \in [Peers -> [Peers -> Seq(Frames)]]
      BY <1>0, <3>1, SendType, FrameType DEF Kinds
    <3>4. circ' \in [Peers -> [TunnelIds -> Circuits]]
      BY <1>0, <3>1, <3>2 DEF RegistryTypeOK
    <3> QED
      BY <1>2, <2>1, <3>3, <3>4 DEF WriteClientHello, TypeOK
  <2>2. CASE ~CanSend(p)
    BY <1>0, <1>1, <1>2, <2>2 DEF WriteClientHello
  <2> QED
    BY <2>1, <2>2
<1>3. CASE DialTimeout(p, i)
  BY <1>0, <1>1, <1>3 DEF DialTimeout
<1>4. CASE Read(p, i)
  <2> DEFINE f == Head(c.inbox)
             Reply == IF c.st = "wait" THEN "finished" ELSE "server_hello"
             d == [c EXCEPT !.st = Phase(c), !.tag = f.tag, !.inbox = Tail(c.inbox)]
  <2>1. f \in Frames /\ f.tag \in Tags /\ Tail(c.inbox) \in Seq(Frames)
    <3>1. c.inbox # <<>>
      BY <1>4 DEF Read
    <3>2. f \in Frames /\ Tail(c.inbox) \in Seq(Frames)
      BY <1>0, <3>1
    <3> QED
      BY <3>2 DEF Frames
  <2>2. Phase(c) \in HeldPhases
    BY DEF Phase, HeldPhases, ServerPhases
  <2>3. d \in Circuits
    <3>1. [c EXCEPT !.st = Phase(c)] \in Circuits
      BY <1>0, <2>2, CircuitWith
    <3>2. [c EXCEPT !.st = Phase(c), !.tag = f.tag] \in Circuits
      BY <2>1, <3>1, CircuitWith
    <3> QED
      BY <2>1, <3>2, CircuitWith
  <2>4. circ' = [circ EXCEPT ![p][i] = d]
    BY <1>4 DEF Read
  <2>5. circ' \in [Peers -> [TunnelIds -> Circuits]]
    BY <1>0, <2>3, <2>4 DEF RegistryTypeOK
  <2>6. wire' \in [Peers -> [Peers -> Seq(Frames)]]
    <3>1. CASE Send(p, c.peer, Frame(Reply, f.tag))
      BY <1>0, <2>1, <3>1, SendType, FrameType DEF Kinds
    <3> QED
      BY <1>0, <1>4, <3>1 DEF Read
  <2> QED
    BY <1>4, <2>5, <2>6 DEF Read, TypeOK
<1>5. CASE ReadError(p, i)
  <2>1. wire' \in [Peers -> [Peers -> Seq(Frames)]]
    <3>1. CASE Send(p, c.peer, Frame("alert", NoTag(p)))
      BY <1>0, <1>a, <3>1, SendType, FrameType DEF Kinds
    <3> QED
      BY <1>0, <1>5, <3>1 DEF ReadError
  <2> QED
    BY <1>1, <1>5, <2>1 DEF ReadError
<1>6. CASE Eof(p, i)
  BY <1>0, <1>1, <1>6 DEF Eof
<1>7. CASE WriteRecord(p, i)
  <2>1. wire' \in [Peers -> [Peers -> Seq(Frames)]]
    BY <1>0, <1>7, SendType, FrameType DEF WriteRecord, Kinds
  <2> QED
    BY <1>7, <2>1 DEF WriteRecord, TypeOK
<1>8. CASE Hangup(p, i)
  <2>1. wire' \in [Peers -> [Peers -> Seq(Frames)]]
    <3>1. CASE Send(p, c.peer, Frame("alert", NoTag(p)))
      BY <1>0, <1>a, <3>1, SendType, FrameType DEF Kinds
    <3> QED
      BY <1>0, <1>8, <3>1 DEF Hangup
  <2> QED
    BY <1>1, <1>8, <2>1 DEF Hangup
<1> QED
  BY <1>2, <1>3, <1>4, <1>5, <1>6, <1>7, <1>8

LEMMA DeliverType ==
  ASSUME RegistryTypeOK, NEW p \in Peers, NEW i \in TunnelIds, NEW f \in Frames,
         Deliver(p, i, f)
  PROVE  circ' \in [Peers -> [TunnelIds -> Circuits]]
<1>1. circ[p][i] \in Circuits /\ Append(circ[p][i].inbox, f) \in Seq(Frames)
  BY CircuitFields
<1>2. [circ[p][i] EXCEPT !.inbox = Append(circ[p][i].inbox, f)] \in Circuits
  BY <1>1, CircuitWith
<1>3. CASE circ' = [circ EXCEPT ![p][i].inbox = Append(circ[p][i].inbox, f)]
  BY <1>2, <1>3 DEF RegistryTypeOK
<1>4. CASE circ' = circ
  BY <1>4 DEF RegistryTypeOK
<1> QED
  BY <1>3, <1>4 DEF Deliver

LEMMA RouterTypeOK ==
  ASSUME TypeOK, NEW p \in Peers,
         \/ \E q \in Peers : RouteRelayed(p, q)
         \/ AcceptIntroduced(p) \/ HandOff(p) \/ TakeCircuit(p)
  PROVE  TypeOK'
<1>0. RegistryTypeOK /\ router[p] \in RouterStates /\ Idle(p) \in RouterStates
  BY TypeOKParts, IdleType
<1>1. ASSUME NEW q \in Peers, RouteRelayed(p, q) PROVE TypeOK'
  <2> DEFINE f == Head(wire[q][p])
             e == tunnels[p][q]
             r == [pc |-> "accept", from |-> q, frame |-> f, id |-> 0]
  <2>1. wire[q][p] \in Seq(Frames) /\ wire[q][p] # <<>>
    BY <1>1 DEF RouteRelayed, TypeOK
  <2>2. f \in Frames /\ Tail(wire[q][p]) \in Seq(Frames)
    BY <2>1
  <2>3. wire' \in [Peers -> [Peers -> Seq(Frames)]]
    BY <1>1, <2>2 DEF RouteRelayed, TypeOK
  <2>4. Stamp(tunnels[p], q) \in [Peers -> Entries]
    BY <1>0, StampType DEF RegistryTypeOK
  <2>5. r \in RouterStates
    BY <2>2 DEF RouterStates
  <2>6. CASE Delivers(e, f) /\ Deliver(p, e.id, f)
             /\ tunnels' = [tunnels EXCEPT ![p] = Stamp(tunnels[p], q)]
             /\ UNCHANGED router
    <3>1. e.id \in TunnelIds
      BY <1>0, <2>6 DEF Delivers, RegistryTypeOK, Entries
    <3>2. circ' \in [Peers -> [TunnelIds -> Circuits]]
      BY <1>0, <2>2, <2>6, <3>1, DeliverType
    <3> QED
      BY <1>1, <2>3, <2>4, <2>6, <3>2 DEF RouteRelayed, TypeOK
  <2>7. CASE tunnels' = [tunnels EXCEPT ![p] = Stamp(tunnels[p], q)]
             /\ UNCHANGED <<circ, router>>
    BY <1>1, <2>3, <2>4, <2>7 DEF RouteRelayed, TypeOK
  <2>8. CASE tunnels' = [tunnels EXCEPT ![p][q] = NoEntry]
             /\ router' = [router EXCEPT ![p] = r]
             /\ UNCHANGED circ
    <3>1. tunnels' \in [Peers -> [Peers -> Entries]]
      BY <1>0, <2>8 DEF RegistryTypeOK, Entries
    <3> QED
      BY <1>1, <2>3, <2>5, <2>8, <3>1 DEF RouteRelayed, TypeOK
  <2> QED
    BY <1>1, <2>6, <2>7, <2>8 DEF RouteRelayed
<1>2. CASE AcceptIntroduced(p)
  <2> DEFINE q == router[p].from
             f == router[p].frame
  <2>1. q \in Peers /\ f \in Frames
    BY <1>0 DEF RouterStates
  <2>2. CASE router' = [router EXCEPT ![p] = Idle(p)] /\ UNCHANGED <<tunnels, nextId, circ>>
    BY <1>0, <1>2, <2>2 DEF AcceptIntroduced, TypeOK
  <2>3. CASE InsertEntry(p, q, "server", "handoff", <<f>>)
             /\ router' = [router EXCEPT ![p].pc = "handoff", ![p].id = nextId[p]]
    <3>1. /\ "server" \in Roles /\ "handoff" \in HeldPhases
          /\ <<f>> \in Seq(Frames) /\ nextId[p] \in TunnelIds
      BY <2>1, <2>3 DEF Roles, HeldPhases, ServerPhases, InsertEntry
    <3>2. RegistryTypeOK'
      BY <1>0, <2>1, <2>3, <3>1, InsertEntryType
    <3>3. router' \in [Peers -> RouterStates]
      BY <1>0, <2>3, <3>1 DEF RouterStates, TypeOK
    <3> QED
      BY <1>2, <3>2, <3>3 DEF AcceptIntroduced, TypeOK, RegistryTypeOK
  <2> QED
    BY <1>2, <2>2, <2>3 DEF AcceptIntroduced
<1>3. CASE HandOff(p)
  <2> DEFINE i == router[p].id
  <2>0. router' \in [Peers -> RouterStates]
    BY <1>0, <1>3 DEF HandOff, TypeOK
  <2>1. i \in TunnelIds
    BY <1>0, <1>3 DEF HandOff, RouterStates
  <2>2. CASE acceptq' = [acceptq EXCEPT ![p] = Append(acceptq[p], i)]
             /\ circ' = [circ EXCEPT ![p][i].st = "queued"]
             /\ UNCHANGED <<tunnels, nextId>>
    <3>1. [circ[p][i] EXCEPT !.st = "queued"] \in Circuits
      BY <1>0, <2>1, CircuitFields, CircuitWith DEF HeldPhases, ServerPhases
    <3> QED
      BY <1>3, <2>0, <2>1, <2>2, <3>1 DEF HandOff, TypeOK
  <2>3. CASE DropTunnel(p, i) /\ UNCHANGED acceptq
    <3>1. RegistryTypeOK'
      BY <1>0, <2>1, <2>3, DropTunnelType
    <3> QED
      BY <1>3, <2>0, <2>3, <3>1 DEF HandOff, TypeOK, RegistryTypeOK
  <2> QED
    BY <1>3, <2>2, <2>3 DEF HandOff
<1>4. CASE TakeCircuit(p)
  <2> DEFINE i == Head(acceptq[p])
  <2>1. acceptq[p] \in Seq(TunnelIds) /\ acceptq[p] # <<>>
    BY <1>4 DEF TakeCircuit, TypeOK
  <2>2. i \in TunnelIds /\ Tail(acceptq[p]) \in Seq(TunnelIds)
    BY <2>1
  <2>3. [circ[p][i] EXCEPT !.st = "start"] \in Circuits
    BY <1>0, <2>2, CircuitFields, CircuitWith DEF HeldPhases, ServerPhases
  <2> QED
    BY <1>4, <2>2, <2>3 DEF TakeCircuit, TypeOK
<1> QED
  BY <1>1, <1>2, <1>3, <1>4

LEMMA ReservationTypeOK ==
  ASSUME TypeOK, NEW p \in Peers,
         \/ EnableAccept(p) \/ LinkRegister(p) \/ LinkUp(p) \/ LinkDown(p)
         \/ \E q \in Peers : LoseFrame(p, q) \/ Age(p, q)
  PROVE  TypeOK'
<1>1. NoEntry \in Entries
  BY DEF Entries
<1>2. CASE EnableAccept(p)
  BY <1>2 DEF EnableAccept, TypeOK
<1>3. CASE LinkRegister(p)
  BY <1>1, <1>3 DEF LinkRegister, ClearTransport, TypeOK
<1>4. CASE LinkUp(p)
  BY <1>4 DEF LinkUp, TypeOK
<1>5. CASE LinkDown(p)
  BY <1>1, <1>5 DEF LinkDown, ClearTransport, TypeOK
<1>6. ASSUME NEW q \in Peers, LoseFrame(p, q) PROVE TypeOK'
  <2> DEFINE w == wire[p][q]
  <2>1. w \in Seq(Frames) /\ w # <<>>
    BY <1>6 DEF LoseFrame, TypeOK
  <2>2. Len(w) - 1 \in 0..Len(w)
    BY <2>1
  <2>3. SubSeq(w, 1, Len(w) - 1) \in Seq(Frames) /\ Tail(w) \in Seq(Frames)
    BY <2>1, <2>2
  <2>4. ASSUME NEW v \in Seq(Frames), wire' = [wire EXCEPT ![p][q] = v]
        PROVE  wire' \in [Peers -> [Peers -> Seq(Frames)]]
    BY <2>4 DEF TypeOK
  <2>5. wire' \in [Peers -> [Peers -> Seq(Frames)]]
    BY <1>6, <2>3, <2>4 DEF LoseFrame
  <2> QED
    BY <1>6, <2>5 DEF LoseFrame, TypeOK
<1>7. ASSUME NEW q \in Peers, Age(p, q) PROVE TypeOK'
  <2>1. [tunnels[p][q] EXCEPT !.fresh = FALSE] \in Entries
    <3>1. tunnels[p][q] \in Entries /\ tunnels[p][q].fresh
      BY <1>7 DEF Age, TypeOK
    <3>2. tunnels[p][q] \in [role : Roles, id : TunnelIds, fresh : BOOLEAN]
      BY <3>1 DEF Entries, NoEntry
    <3> QED
      BY <3>2 DEF Entries
  <2>2. tunnels' = [tunnels EXCEPT ![p][q] = [tunnels[p][q] EXCEPT !.fresh = FALSE]]
    BY <1>7 DEF Age
  <2> QED
    BY <1>7, <2>1, <2>2 DEF Age, TypeOK
<1> QED
  BY <1>2, <1>3, <1>4, <1>5, <1>6, <1>7

LEMMA NextTypeOK == TypeOK /\ [Next]_vars => TypeOK'
<1> SUFFICES ASSUME TypeOK, [Next]_vars PROVE TypeOK'
  OBVIOUS
<1>1. CASE UNCHANGED vars
  BY <1>1 DEF vars, TypeOK
<1>2. ASSUME NEW p \in Peers, Step(p) \/ Consumer(p) \/ Disturbance(p)
      PROVE  TypeOK'
  BY <1>2, DialerTypeOK, EndpointTypeOK, RouterTypeOK, ReservationTypeOK
     DEF Step, Consumer, Disturbance
<1> QED
  BY <1>1, <1>2 DEF Next

(* Every state of every behaviour is well typed, whatever the peers, the    *)
(* caps and the bounds (RelayStatus, TunnelEntry, RelayTunnel).             *)
THEOREM TypeCorrect == Spec => []TypeOK
BY InitTypeOK, NextTypeOK, PTL DEF Spec

-----------------------------------------------------------------------------
(* The registry invariant.  Three ways of changing circuits and entries     *)
(* cover every action; each is a lemma.                                     *)

LEMMA InitRegistryInv == Init => RegistryInv
<1> SUFFICES ASSUME Init PROVE RegistryInv
  OBVIOUS
<1>1. TypeOK
  BY InitTypeOK
<1>2. \A p \in Peers : /\ router[p].pc = "idle" /\ acceptq[p] = <<>>
                       /\ \A q \in Peers : tunnels[p][q] = NoEntry
                       /\ \A i \in TunnelIds : circ[p][i].st = "unused"
  BY DEF Init, InitWith, Idle, Blank
<1> QED
  BY <1>1, <1>2
     DEF RegistryInv, UnusedAbove, InOneHand, EntryIsHeld, ServerHearsHello,
         Entry

LEMMA QueuedIds ==
  ASSUME RegistryInv, NEW r \in Peers
  PROVE  /\ acceptq[r] \in Seq(TunnelIds)
         /\ \A k \in 1..Len(acceptq[r]) : acceptq[r][k] \in TunnelIds
<1>1. acceptq[r] \in Seq(TunnelIds)
  BY DEF RegistryInv, TypeOK
<1> QED
  BY <1>1

(* The reservation loop takes no circuit into its hand. *)
HandsKept ==
  \A r \in Peers : router'[r] = router[r] \/ router'[r].pc # "handoff"

(* No entry appears, and those that stay keep their circuit. *)
EntriesKept ==
  \A r, x \in Peers :
    \/ tunnels'[r][x] = NoEntry
    \/ /\ tunnels[r][x] # NoEntry
       /\ tunnels'[r][x].id = tunnels[r][x].id
       /\ tunnels'[r][x].role = tunnels[r][x].role

(* The circuit c moves to d along its life, and is not dropped. *)
MovesOn(c, d) ==
  /\ d.peer = c.peer /\ d.role = c.role
  /\ c.st \in HeldPhases => d.st \in HeldPhases
  /\ c.st = "unused" => d.st = "unused"

(* A circuit in use is dropped: close_tunnel removes its entry if it has    *)
(* one, and no other entry can name it.                                     *)
LEMMA DropKeepsRegistry ==
  ASSUME RegistryInv, TypeOK', NEW p \in Peers, NEW i \in TunnelIds,
         DropTunnel(p, i), circ[p][i].st # "unused", circ[p][i].st # "queued",
         acceptq' = acceptq, HandsKept,
         circ[p][i].st = "handoff" => router'[p].pc # "handoff"
  PROVE  RegistryInv'
<1> USE DEF RegistryInv
<1>1. /\ circ' = [circ EXCEPT ![p][i] = Blank(p, "gone")]
      /\ tunnels' = [tunnels EXCEPT ![p] = CloseTunnel(tunnels[p], circ[p][i].peer, i)]
      /\ nextId' = nextId /\ acceptq' = acceptq
  BY DEF DropTunnel
<1>2. /\ circ'[p][i].st = "gone"
      /\ \A r \in Peers, j \in TunnelIds : ~(r = p /\ j = i) => circ'[r][j] = circ[r][j]
  BY <1>1 DEF Blank, TypeOK
<1>3. UnusedAbove'
  BY <1>1, <1>2 DEF UnusedAbove
<1>4. InOneHand'
  <2> SUFFICES ASSUME NEW r \in Peers
               PROVE  /\ router'[r].pc = "handoff" => circ'[r][router'[r].id].st = "handoff"
                      /\ \A k \in 1..Len(acceptq[r]) : circ'[r][acceptq[r][k]].st = "queued"
    BY <1>1 DEF InOneHand
  <2>1. router[r].pc = "handoff" => router[r].id \in TunnelIds
    BY DEF TypeOK, RouterStates
  <2>2. \A k \in 1..Len(acceptq[r]) : acceptq[r][k] \in TunnelIds
    BY QueuedIds
  <2>3. \A k \in 1..Len(acceptq[r]) : circ'[r][acceptq[r][k]].st = "queued"
    BY <1>2, <2>2 DEF InOneHand
  <2>4. ASSUME router'[r].pc = "handoff"
        PROVE  circ'[r][router'[r].id].st = "handoff"
    <3>1. router'[r] = router[r]
      BY <2>4 DEF HandsKept
    <3>2. circ[r][router[r].id].st = "handoff"
      BY <2>4, <3>1 DEF InOneHand
    <3>3. ~(r = p /\ router[r].id = i)
      BY <2>4, <3>1, <3>2
    <3> QED
      BY <1>2, <2>1, <2>4, <3>1, <3>2, <3>3
  <2> QED
    BY <2>3, <2>4
<1>5. EntryIsHeld'
  <2> SUFFICES ASSUME NEW r \in Peers, NEW q \in Peers, tunnels'[r][q] # NoEntry
               PROVE  /\ circ'[r][tunnels'[r][q].id].st \in HeldPhases
                      /\ circ'[r][tunnels'[r][q].id].peer = q
                      /\ circ'[r][tunnels'[r][q].id].role = tunnels'[r][q].role
    BY DEF EntryIsHeld, Entry, Current
  <2>1. tunnels'[r][q] = tunnels[r][q]
    <3>1. CASE r = p
      <4>1. tunnels'[r] = CloseTunnel(tunnels[p], circ[p][i].peer, i)
        BY <1>1, <3>1 DEF TypeOK
      <4>2. tunnels[p] \in [Peers -> Entries]
        BY DEF TypeOK
      <4> QED
        BY <3>1, <4>1, <4>2 DEF CloseTunnel
    <3>2. CASE r # p
      BY <1>1, <3>2 DEF TypeOK
    <3> QED
      BY <3>1, <3>2
  <2>2. tunnels[r][q].id \in TunnelIds
    BY <2>1 DEF TypeOK, Entries
  <2>3. ~(r = p /\ tunnels[r][q].id = i)
    <3> SUFFICES ASSUME r = p, tunnels[p][q].id = i PROVE FALSE
      OBVIOUS
    <3>1. circ[p][i].peer = q
      BY <2>1 DEF EntryIsHeld, Entry, Current
    <3>2. tunnels'[p][q] = NoEntry
      BY <1>1, <3>1 DEF CloseTunnel, TypeOK
    <3> QED
      BY <3>2
  <2> QED
    BY <1>2, <2>1, <2>2, <2>3 DEF EntryIsHeld, Entry, Current
<1>6. ServerHearsHello'
  BY <1>2 DEF ServerHearsHello
<1> QED
  BY <1>3, <1>4, <1>5, <1>6

(* A new circuit takes an id that nothing names yet.  A server circuit is   *)
(* registered with its opening frame already in its channel, and is in the  *)
(* reservation loop's hand.                                                 *)
LEMMA InsertKeepsRegistry ==
  ASSUME RegistryInv, TypeOK', NEW p \in Peers, NEW q \in Peers,
         NEW role \in Roles, NEW st, NEW inbox,
         InsertEntry(p, q, role, st, inbox),
         UNCHANGED acceptq,
         \/ st = "open" /\ UNCHANGED router
         \/ /\ st = "handoff" /\ inbox # <<>> /\ IsClientHello(Head(inbox))
            /\ router' = [router EXCEPT ![p].pc = "handoff", ![p].id = nextId[p]]
  PROVE  RegistryInv'
<1> USE DEF RegistryInv
<1> DEFINE n == nextId[p]
<1>1. /\ n \in TunnelIds /\ n \in Nat
      /\ nextId' = [nextId EXCEPT ![p] = n + 1]
      /\ tunnels' = [tunnels EXCEPT ![p][q] = [role |-> role, id |-> n, fresh |-> TRUE]]
      /\ acceptq' = acceptq
  BY DEF InsertEntry, TypeOK
<1>2. /\ circ'[p][n].peer = q /\ circ'[p][n].role = role
      /\ circ'[p][n].st = st /\ circ'[p][n].inbox = inbox
      /\ \A r \in Peers, j \in TunnelIds : ~(r = p /\ j = n) => circ'[r][j] = circ[r][j]
  BY <1>1 DEF InsertEntry, TypeOK
<1>3. circ[p][n].st = "unused"
  BY <1>1 DEF UnusedAbove, TunnelIds
<1>4. UnusedAbove'
  <2> SUFFICES ASSUME NEW r \in Peers, NEW j \in TunnelIds, j >= nextId'[r]
               PROVE  circ'[r][j].st = "unused"
    BY DEF UnusedAbove
  <2>1. j \in Nat /\ nextId[r] \in Nat
    BY DEF TunnelIds, TypeOK
  <2>2. CASE r = p
    <3>1. nextId'[r] = n + 1
      BY <1>1, <2>2 DEF TypeOK
    <3>2. j >= nextId[r] /\ j # n
      BY <1>1, <2>1, <2>2, <3>1
    <3> QED
      BY <1>2, <2>2, <3>2 DEF UnusedAbove
  <2>3. CASE r # p
    <3>1. nextId'[r] = nextId[r]
      BY <1>1, <2>3 DEF TypeOK
    <3> QED
      BY <1>2, <2>3, <3>1 DEF UnusedAbove
  <2> QED
    BY <2>2, <2>3
<1>5. InOneHand'
  <2> SUFFICES ASSUME NEW r \in Peers
               PROVE  /\ router'[r].pc = "handoff" => circ'[r][router'[r].id].st = "handoff"
                      /\ \A k \in 1..Len(acceptq[r]) : circ'[r][acceptq[r][k]].st = "queued"
    BY <1>1 DEF InOneHand
  <2>1. \A k \in 1..Len(acceptq[r]) : circ'[r][acceptq[r][k]].st = "queued"
    BY <1>2, <1>3, QueuedIds DEF InOneHand
  <2>2. CASE router'[r] = router[r]
    <3>1. router[r].pc = "handoff" => router[r].id \in TunnelIds
      BY DEF TypeOK, RouterStates
    <3> QED
      BY <1>2, <1>3, <2>1, <2>2, <3>1 DEF InOneHand
  <2>3. CASE router'[r] # router[r]
    <3>1. st = "handoff" /\ router' = [router EXCEPT ![p].pc = "handoff", ![p].id = n]
      BY <2>3
    <3>2. router' = [router EXCEPT ![p] = [[router[p] EXCEPT !.pc = "handoff"] EXCEPT !.id = n]]
      BY <3>1 DEF TypeOK
    <3>3. r = p
      BY <2>3, <3>2 DEF TypeOK
    <3>4. router'[p].id = n
      BY <3>2 DEF TypeOK, RouterStates
    <3> QED
      BY <1>1, <1>2, <2>1, <3>1, <3>3, <3>4
  <2> QED
    BY <2>2, <2>3
<1>6. EntryIsHeld'
  <2> SUFFICES ASSUME NEW r \in Peers, NEW x \in Peers, tunnels'[r][x] # NoEntry
               PROVE  /\ circ'[r][tunnels'[r][x].id].st \in HeldPhases
                      /\ circ'[r][tunnels'[r][x].id].peer = x
                      /\ circ'[r][tunnels'[r][x].id].role = tunnels'[r][x].role
    BY DEF EntryIsHeld, Entry, Current
  <2>1. CASE r = p /\ x = q
    <3>1. tunnels'[r][x].id = n /\ tunnels'[r][x].role = role
      BY <1>1, <2>1 DEF TypeOK
    <3> QED
      BY <1>2, <2>1, <3>1 DEF HeldPhases, ClientPhases, ServerPhases
  <2>2. CASE ~(r = p /\ x = q)
    <3>1. tunnels'[r][x] = tunnels[r][x]
      BY <1>1, <2>2 DEF TypeOK
    <3>a. tunnels[r][x] # NoEntry /\ tunnels[r][x] \in Entries
      BY <3>1 DEF TypeOK
    <3>2. tunnels[r][x].id \in TunnelIds /\ circ[r][tunnels[r][x].id].st \in HeldPhases
      BY <3>a DEF EntryIsHeld, Entry, Current, Entries
    <3>3. ~(r = p /\ tunnels[r][x].id = n)
      BY <1>3, <3>2 DEF HeldPhases, ClientPhases, ServerPhases
    <3> QED
      BY <1>2, <3>1, <3>2, <3>3 DEF EntryIsHeld, Entry, Current
  <2> QED
    BY <2>1, <2>2
<1>7. ServerHearsHello'
  <2> SUFFICES ASSUME NEW r \in Peers, NEW j \in TunnelIds,
                      circ'[r][j].st \in {"handoff", "queued", "start"}
               PROVE  circ'[r][j].inbox # <<>> /\ IsClientHello(Head(circ'[r][j].inbox))
    BY DEF ServerHearsHello
  <2>1. CASE r = p /\ j = n
    BY <1>2, <2>1
  <2>2. CASE ~(r = p /\ j = n)
    BY <1>2, <2>2 DEF ServerHearsHello
  <2> QED
    BY <2>1, <2>2
<1> QED
  BY <1>4, <1>5, <1>6, <1>7

(* A step that registers and drops nothing. *)
LEMMA MoveKeepsRegistry ==
  ASSUME RegistryInv, nextId' = nextId, EntriesKept,
         \A r \in Peers, j \in TunnelIds : MovesOn(circ[r][j], circ'[r][j])
  PROVE  UnusedAbove' /\ EntryIsHeld'
<1> USE DEF RegistryInv
<1>1. UnusedAbove'
  BY DEF UnusedAbove, MovesOn
<1>2. EntryIsHeld'
  <2> SUFFICES ASSUME NEW r \in Peers, NEW x \in Peers, tunnels'[r][x] # NoEntry
               PROVE  /\ circ'[r][tunnels'[r][x].id].st \in HeldPhases
                      /\ circ'[r][tunnels'[r][x].id].peer = x
                      /\ circ'[r][tunnels'[r][x].id].role = tunnels'[r][x].role
    BY DEF EntryIsHeld, Entry, Current
  <2> DEFINE j == tunnels[r][x].id
  <2>1. /\ tunnels'[r][x].id = j /\ tunnels'[r][x].role = tunnels[r][x].role
        /\ tunnels[r][x] # NoEntry
    BY DEF EntriesKept
  <2>2. j \in TunnelIds
    BY <2>1 DEF TypeOK, Entries
  <2>3. /\ circ[r][j].st \in HeldPhases /\ circ[r][j].peer = x
        /\ circ[r][j].role = tunnels[r][x].role
    BY <2>1 DEF EntryIsHeld, Entry, Current
  <2> QED
    BY <2>1, <2>2, <2>3 DEF MovesOn
<1> QED
  BY <1>1, <1>2

(* The same, when no circuit changes hands either. *)
LEMMA MoveInPlaceKeepsRegistry ==
  ASSUME RegistryInv, TypeOK', nextId' = nextId, EntriesKept, acceptq' = acceptq, HandsKept,
         \A r \in Peers, j \in TunnelIds :
           LET c == circ[r][j]
               d == circ'[r][j]
           IN /\ MovesOn(c, d)
              /\ c.st \in {"handoff", "queued"} => d.st = c.st
              /\ d.st \in {"handoff", "queued", "start"} =>
                   d.inbox # <<>> /\ IsClientHello(Head(d.inbox))
  PROVE  RegistryInv'
<1> USE DEF RegistryInv
<1>1. UnusedAbove' /\ EntryIsHeld'
  BY MoveKeepsRegistry
<1>2. ServerHearsHello'
  BY DEF ServerHearsHello
<1>3. InOneHand'
  <2> SUFFICES ASSUME NEW r \in Peers
               PROVE  /\ router'[r].pc = "handoff" => circ'[r][router'[r].id].st = "handoff"
                      /\ \A k \in 1..Len(acceptq[r]) : circ'[r][acceptq[r][k]].st = "queued"
    BY DEF InOneHand
  <2>1. \A k \in 1..Len(acceptq[r]) : circ'[r][acceptq[r][k]].st = "queued"
    BY QueuedIds DEF InOneHand
  <2>2. router[r].pc = "handoff" => router[r].id \in TunnelIds
    BY DEF TypeOK, RouterStates
  <2> QED
    BY <2>1, <2>2 DEF InOneHand, HandsKept
<1> QED
  BY <1>1, <1>2, <1>3

(* A step that moves no circuit at all. *)
LEMMA NoMoveKeepsRegistry ==
  ASSUME RegistryInv, TypeOK', UNCHANGED <<nextId, circ, router, acceptq>>, EntriesKept
  PROVE  RegistryInv'
<1>1. \A r \in Peers, j \in TunnelIds :
        circ[r][j].st \in {"handoff", "queued", "start"} =>
          circ[r][j].inbox # <<>> /\ IsClientHello(Head(circ[r][j].inbox))
  BY DEF RegistryInv, ServerHearsHello
<1> QED
  BY <1>1, MoveInPlaceKeepsRegistry DEF MovesOn, HandsKept

-----------------------------------------------------------------------------
(* The registry invariant, action by action.                                *)

LEMMA DialerRegistryInv ==
  ASSUME RegistryInv, TypeOK', NEW p \in Peers, NEW q \in Peers,
         OpenTunnelCheck(p, q) \/ OpenTunnelRegister(p, q)
  PROVE  RegistryInv'
<1>1. CASE tunnels' = tunnels /\ nextId' = nextId /\ circ' = circ
  <2>1. EntriesKept
    BY <1>1 DEF EntriesKept
  <2> QED
    BY <1>1, <2>1, NoMoveKeepsRegistry DEF OpenTunnelCheck, OpenTunnelRegister
<1>2. CASE OpenTunnelRegister(p, q) /\ InsertEntry(p, q, "client", "open", <<>>)
  <2>1. UNCHANGED router /\ UNCHANGED acceptq /\ "client" \in Roles
    BY <1>2 DEF OpenTunnelRegister, Roles
  <2> QED
    BY <1>2, <2>1, InsertKeepsRegistry
<1> QED
  BY <1>1, <1>2 DEF OpenTunnelCheck, OpenTunnelRegister

LEMMA EndpointRegistryInv ==
  ASSUME RegistryInv, TypeOK', NEW p \in Peers, NEW i \in TunnelIds,
         \/ WriteClientHello(p, i) \/ DialTimeout(p, i) \/ Read(p, i)
         \/ ReadError(p, i) \/ Eof(p, i) \/ WriteRecord(p, i) \/ Hangup(p, i)
  PROVE  RegistryInv'
<1> USE DEF RegistryInv
<1> DEFINE c == circ[p][i]
<1>1. CASE /\ DropTunnel(p, i) /\ UNCHANGED <<router, acceptq>>
           /\ c.st \in {"open", "wait", "start", "sent", "up"}
  <2>1. HandsKept
    BY <1>1 DEF HandsKept
  <2> QED
    BY <1>1, <2>1, DropKeepsRegistry
<1>2. CASE WriteRecord(p, i)
  <2>1. EntriesKept
    BY <1>2 DEF EntriesKept, WriteRecord
  <2> QED
    BY <1>2, <2>1, NoMoveKeepsRegistry DEF WriteRecord
<1>3. ASSUME NEW d, circ' = [circ EXCEPT ![p][i] = d], MovesOn(c, d),
             c.st \notin {"handoff", "queued"},
             d.st \notin {"handoff", "queued", "start"},
             UNCHANGED <<nextId, tunnels, router, acceptq>>
      PROVE  RegistryInv'
  <2>1. EntriesKept /\ HandsKept
    BY <1>3 DEF EntriesKept, HandsKept
  <2>2. /\ circ'[p][i] = d
        /\ \A r \in Peers, j \in TunnelIds : ~(r = p /\ j = i) => circ'[r][j] = circ[r][j]
    BY <1>3 DEF TypeOK
  <2>3. ASSUME NEW r \in Peers, NEW j \in TunnelIds
        PROVE  /\ MovesOn(circ[r][j], circ'[r][j])
               /\ circ[r][j].st \in {"handoff", "queued"} => circ'[r][j].st = circ[r][j].st
               /\ circ'[r][j].st \in {"handoff", "queued", "start"} =>
                    circ'[r][j].inbox # <<>> /\ IsClientHello(Head(circ'[r][j].inbox))
    <3>1. CASE r = p /\ j = i
      BY <1>3, <2>2, <3>1
    <3>2. CASE ~(r = p /\ j = i)
      <4>1. circ'[r][j] = circ[r][j]
        BY <2>2, <3>2
      <4> QED
        BY <4>1 DEF MovesOn, ServerHearsHello
    <3> QED
      BY <3>1, <3>2
  <2> QED
    BY <1>3, <2>1, <2>3, MoveInPlaceKeepsRegistry
<1>0. c \in Circuits
  BY DEF TypeOK
<1>4. CASE WriteClientHello(p, i) /\ CanSend(p)
  <2> DEFINE d == [c EXCEPT !.st = "wait"]
  <2>1. circ' = [circ EXCEPT ![p][i] = d]
    BY <1>4 DEF WriteClientHello
  <2>2. c.st = "open" /\ UNCHANGED <<nextId, tunnels, router, acceptq>>
    BY <1>4 DEF WriteClientHello
  <2>3. d.st = "wait" /\ d.peer = c.peer /\ d.role = c.role
    BY <1>0 DEF Circuits
  <2>4. MovesOn(c, d)
    BY <2>2, <2>3 DEF MovesOn, HeldPhases, ClientPhases
  <2> HIDE DEF c, d
  <2> QED
    BY <1>3, <2>1, <2>2, <2>3, <2>4 DEF c
<1>5. CASE Read(p, i)
  <2> DEFINE f == Head(c.inbox)
             d == [c EXCEPT !.st = Phase(c), !.tag = f.tag, !.inbox = Tail(c.inbox)]
  <2>1. circ' = [circ EXCEPT ![p][i] = d]
    BY <1>5 DEF Read
  <2>2. /\ c.st \in {"wait", "start", "sent", "up"}
        /\ UNCHANGED <<nextId, tunnels, router, acceptq>>
    BY <1>5 DEF Read, Awaited
  <2>3. d.st = Phase(c) /\ d.peer = c.peer /\ d.role = c.role
    BY <1>0 DEF Circuits
  <2>4. Phase(c) \in {"sent", "up"}
    BY DEF Phase
  <2>5. MovesOn(c, d)
    BY <2>2, <2>3, <2>4 DEF MovesOn, HeldPhases, ServerPhases
  <2> HIDE DEF c, d
  <2> QED
    BY <1>3, <2>1, <2>2, <2>3, <2>4, <2>5 DEF c
<1>6. CASE WriteClientHello(p, i) /\ ~CanSend(p)
  BY <1>1, <1>6 DEF WriteClientHello
<1>7. CASE DialTimeout(p, i)
  BY <1>1, <1>7 DEF DialTimeout, ClientPhases
<1>8. CASE ReadError(p, i)
  BY <1>1, <1>8 DEF ReadError
<1>9. CASE Eof(p, i)
  BY <1>1, <1>9 DEF Eof
<1>10. CASE Hangup(p, i)
  BY <1>1, <1>10 DEF Hangup
<1> QED
  BY <1>2, <1>4, <1>5, <1>6, <1>7, <1>8, <1>9, <1>10

(* Only the row of p changes. *)
LEMMA RowKeepsEntries ==
  ASSUME TypeOK, NEW p \in Peers, NEW u \in [Peers -> Entries],
         tunnels' = [tunnels EXCEPT ![p] = u],
         \A x \in Peers : \/ u[x] = NoEntry
                          \/ /\ tunnels[p][x] # NoEntry
                             /\ u[x].id = tunnels[p][x].id
                             /\ u[x].role = tunnels[p][x].role
  PROVE  EntriesKept
<1> SUFFICES ASSUME NEW r \in Peers, NEW x \in Peers, tunnels'[r][x] # NoEntry
             PROVE  /\ tunnels[r][x] # NoEntry
                    /\ tunnels'[r][x].id = tunnels[r][x].id
                    /\ tunnels'[r][x].role = tunnels[r][x].role
  BY DEF EntriesKept
<1>1. CASE r = p
  <2>1. tunnels'[r] = u
    BY <1>1 DEF TypeOK
  <2> QED
    BY <1>1, <2>1
<1>2. CASE r # p
  <2>1. tunnels'[r] = tunnels[r]
    BY <1>2 DEF TypeOK
  <2> QED
    BY <2>1
<1> QED
  BY <1>1, <1>2

LEMMA StampKeepsEntries ==
  ASSUME TypeOK, NEW p \in Peers, NEW q \in Peers,
         tunnels' = [tunnels EXCEPT ![p] = Stamp(tunnels[p], q)]
  PROVE  EntriesKept
<1> DEFINE t == tunnels[p]
           u == Stamp(t, q)
<1>1. t \in [Peers -> Entries]
  BY DEF TypeOK
<1>2. u \in [Peers -> Entries]
  BY <1>1, StampType
<1>3. ASSUME NEW x \in Peers, t[x] # NoEntry
      PROVE  u[x].id = t[x].id /\ u[x].role = t[x].role
  <2>1. t[x] \in [role : Roles, id : TunnelIds, fresh : BOOLEAN]
    BY <1>1, <1>3 DEF Entries
  <2>2. CASE u = t
    BY <2>2
  <2>3. CASE u = [t EXCEPT ![q] = [t[q] EXCEPT !.fresh = TRUE]]
    BY <1>1, <2>1, <2>3
  <2> QED
    BY <2>2, <2>3 DEF Stamp
<1>4. ASSUME NEW x \in Peers, t[x] = NoEntry PROVE u[x] = NoEntry
  BY <1>1, <1>4 DEF Stamp
<1>5. tunnels' = [tunnels EXCEPT ![p] = u]
  OBVIOUS
<1> HIDE DEF u
<1>6. \A x \in Peers : \/ u[x] = NoEntry
                      \/ /\ tunnels[p][x] # NoEntry
                         /\ u[x].id = tunnels[p][x].id
                         /\ u[x].role = tunnels[p][x].role
  BY <1>3, <1>4
<1> HIDE DEF t
<1> QED
  BY <1>2, <1>5, <1>6, RowKeepsEntries

LEMMA RemoveKeepsEntries ==
  ASSUME TypeOK, NEW p \in Peers, NEW q \in Peers,
         tunnels' = [tunnels EXCEPT ![p][q] = NoEntry]
  PROVE  EntriesKept
<1> DEFINE u == [tunnels[p] EXCEPT ![q] = NoEntry]
<1>1. tunnels[p] \in [Peers -> Entries] /\ NoEntry \in Entries
  BY DEF TypeOK, Entries
<1>2. u \in [Peers -> Entries] /\ tunnels' = [tunnels EXCEPT ![p] = u]
  BY <1>1
<1>3. \A x \in Peers : u[x] = NoEntry \/ (tunnels[p][x] # NoEntry /\ u[x] = tunnels[p][x])
  BY <1>1
<1>4. \A x \in Peers : \/ u[x] = NoEntry
                       \/ /\ tunnels[p][x] # NoEntry
                          /\ u[x].id = tunnels[p][x].id
                          /\ u[x].role = tunnels[p][x].role
  BY <1>3
<1> HIDE DEF u
<1> QED
  BY <1>2, <1>4, RowKeepsEntries

LEMMA DropKeepsEntries ==
  ASSUME TypeOK, NEW p \in Peers, NEW i \in TunnelIds, DropTunnel(p, i)
  PROVE  EntriesKept
<1> DEFINE u == CloseTunnel(tunnels[p], circ[p][i].peer, i)
<1>1. tunnels[p] \in [Peers -> Entries] /\ circ[p][i].peer \in Peers
  BY TypeOKParts, CircuitFields DEF RegistryTypeOK
<1>2. u \in [Peers -> Entries] /\ tunnels' = [tunnels EXCEPT ![p] = u]
  BY <1>1, CloseTunnelType DEF DropTunnel
<1>3. \A x \in Peers : u[x] = NoEntry \/ u[x] = tunnels[p][x]
  BY <1>1 DEF CloseTunnel
<1> HIDE DEF u
<1> QED
  BY <1>2, <1>3, RowKeepsEntries

(* The reservation clears the registry or leaves it; time only ages it. *)
LEMMA ReservationKeepsEntries ==
  ASSUME TypeOK, NEW p \in Peers,
         \/ EnableAccept(p) \/ LinkRegister(p) \/ LinkUp(p) \/ LinkDown(p)
         \/ \E q \in Peers : LoseFrame(p, q) \/ Age(p, q)
  PROVE  EntriesKept
<1>1. CASE tunnels' = tunnels
  BY <1>1 DEF EntriesKept
<1>2. CASE ClearTransport(p)
  <2> DEFINE u == [q \in Peers |-> NoEntry]
  <2>1. u \in [Peers -> Entries] /\ \A q \in Peers : u[q] = NoEntry
    BY DEF Entries
  <2> QED
    BY <1>2, <2>1, RowKeepsEntries DEF ClearTransport
<1>3. ASSUME NEW q \in Peers, Age(p, q) PROVE EntriesKept
  <2> DEFINE e == [tunnels[p][q] EXCEPT !.fresh = FALSE]
             u == [tunnels[p] EXCEPT ![q] = e]
  <2>1. tunnels[p] \in [Peers -> Entries] /\ tunnels[p][q].fresh
    BY <1>3 DEF Age, TypeOK
  <2>2. tunnels[p][q] # NoEntry
    BY <2>1 DEF NoEntry
  <2>3. tunnels[p][q] \in [role : Roles, id : TunnelIds, fresh : BOOLEAN]
    BY <2>1, <2>2 DEF Entries
  <2>4. e \in Entries /\ e.id = tunnels[p][q].id /\ e.role = tunnels[p][q].role
    BY <2>3 DEF Entries
  <2>5. tunnels' = [tunnels EXCEPT ![p] = u]
    BY <1>3, <2>1 DEF Age, TypeOK
  <2> HIDE DEF e
  <2>6. /\ u \in [Peers -> Entries]
        /\ u[q] = e /\ \A x \in Peers : x # q => u[x] = tunnels[p][x]
    BY <2>1, <2>4
  <2> HIDE DEF u
  <2>7. \A x \in Peers : \/ u[x] = NoEntry
                         \/ /\ tunnels[p][x] # NoEntry
                            /\ u[x].id = tunnels[p][x].id
                            /\ u[x].role = tunnels[p][x].role
    BY <2>2, <2>4, <2>6
  <2> QED
    BY <2>5, <2>6, <2>7, RowKeepsEntries
<1> QED
  BY <1>1, <1>2, <1>3 DEF EnableAccept, LinkRegister, LinkUp, LinkDown, LoseFrame

LEMMA RouteRegistryInv ==
  ASSUME RegistryInv, TypeOK', NEW p \in Peers, NEW q \in Peers, RouteRelayed(p, q)
  PROVE  RegistryInv'
<1> USE DEF RegistryInv
<1> DEFINE f == Head(wire[q][p])
           e == tunnels[p][q]
<1>1. UNCHANGED <<nextId, acceptq>>
  BY DEF RouteRelayed
<1>2. CASE Delivers(e, f) /\ Deliver(p, e.id, f)
           /\ tunnels' = [tunnels EXCEPT ![p] = Stamp(tunnels[p], q)]
           /\ UNCHANGED router
  <2> DEFINE i == e.id
             c == circ[p][i]
             d == [c EXCEPT !.inbox = Append(c.inbox, f)]
  <2>1. EntriesKept
    BY <1>2, StampKeepsEntries
  <2>2. i \in TunnelIds
    BY <1>2 DEF Delivers, TypeOK, Entries
  <2>3. c \in Circuits /\ c.inbox \in Seq(Frames)
    <3>1. RegistryTypeOK
      BY TypeOKParts
    <3> HIDE DEF i
    <3> QED
      BY <2>2, <3>1, CircuitFields
  <2>4. circ' = circ \/ circ' = [circ EXCEPT ![p][i] = d]
    BY <1>2 DEF Deliver
  <2>5. /\ d.st = c.st /\ d.peer = c.peer /\ d.role = c.role
        /\ d.inbox = Append(c.inbox, f)
    BY <2>3 DEF Circuits
  <2>6. c.inbox # <<>> => d.inbox # <<>> /\ Head(d.inbox) = Head(c.inbox)
    <3>1. f \in Frames
      <4>1. wire[q][p] \in Seq(Frames) /\ wire[q][p] # <<>>
        BY DEF RouteRelayed, TypeOK
      <4> QED
        BY <4>1
    <3> HIDE DEF f, d, c
    <3> QED
      BY <2>3, <2>5, <3>1
  <2>7. ASSUME NEW r \in Peers, NEW j \in TunnelIds
        PROVE  circ'[r][j] = circ[r][j] \/ (r = p /\ j = i /\ circ'[r][j] = d)
    <3>1. circ \in [Peers -> [TunnelIds -> Circuits]]
      BY DEF TypeOK
    <3> HIDE DEF d, i
    <3> QED
      BY <2>2, <2>4, <3>1
  <2>8. ASSUME NEW r \in Peers, NEW j \in TunnelIds
        PROVE  /\ MovesOn(circ[r][j], circ'[r][j])
               /\ circ[r][j].st \in {"handoff", "queued"} => circ'[r][j].st = circ[r][j].st
               /\ circ'[r][j].st \in {"handoff", "queued", "start"} =>
                    circ'[r][j].inbox # <<>> /\ IsClientHello(Head(circ'[r][j].inbox))
    <3>1. CASE circ'[r][j] = circ[r][j]
      BY <3>1 DEF MovesOn, ServerHearsHello
    <3>2. CASE r = p /\ j = i /\ circ'[r][j] = d
      <4> HIDE DEF d, f
      <4> QED
        BY <2>5, <2>6, <3>2 DEF MovesOn, ServerHearsHello
    <3> QED
      BY <2>7, <3>1, <3>2
  <2>9. HandsKept
    BY <1>2 DEF HandsKept
  <2> QED
    BY <1>1, <2>1, <2>8, <2>9, MoveInPlaceKeepsRegistry
<1>3. CASE Ignores(p, q, e, f)
           /\ tunnels' = [tunnels EXCEPT ![p] = Stamp(tunnels[p], q)]
           /\ UNCHANGED <<circ, router>>
  <2>1. EntriesKept
    BY <1>3, StampKeepsEntries
  <2> QED
    BY <1>1, <1>3, <2>1, NoMoveKeepsRegistry
<1>4. CASE tunnels' = [tunnels EXCEPT ![p][q] = NoEntry]
           /\ router' = [router EXCEPT ![p] =
                [pc |-> "accept", from |-> q, frame |-> f, id |-> 0]]
           /\ UNCHANGED circ
  <2>1. EntriesKept
    BY <1>4, RemoveKeepsEntries
  <2>2. HandsKept
    BY <1>4 DEF HandsKept, TypeOK
  <2>3. \A r \in Peers, j \in TunnelIds :
          circ[r][j].st \in {"handoff", "queued", "start"} =>
            circ[r][j].inbox # <<>> /\ IsClientHello(Head(circ[r][j].inbox))
    BY DEF ServerHearsHello
  <2> QED
    BY <1>1, <1>4, <2>1, <2>2, <2>3, MoveInPlaceKeepsRegistry DEF MovesOn
<1> QED
  BY <1>2, <1>3, <1>4 DEF RouteRelayed

LEMMA AcceptRegistryInv ==
  ASSUME RegistryInv, TypeOK', NEW p \in Peers, AcceptIntroduced(p)
  PROVE  RegistryInv'
<1> USE DEF RegistryInv
<1> DEFINE q == router[p].from
           f == router[p].frame
<1>1. q \in Peers /\ f \in Frames
  BY DEF TypeOK, RouterStates
<1>2. CASE router' = [router EXCEPT ![p] = Idle(p)] /\ UNCHANGED <<tunnels, nextId, circ>>
  <2>1. EntriesKept
    BY <1>2 DEF EntriesKept
  <2>2. HandsKept
    BY <1>2 DEF HandsKept, TypeOK, Idle
  <2>3. \A r \in Peers, j \in TunnelIds :
          circ[r][j].st \in {"handoff", "queued", "start"} =>
            circ[r][j].inbox # <<>> /\ IsClientHello(Head(circ[r][j].inbox))
    BY DEF ServerHearsHello
  <2>4. acceptq' = acceptq
    BY DEF AcceptIntroduced
  <2> QED
    BY <1>2, <2>1, <2>2, <2>3, <2>4, MoveInPlaceKeepsRegistry DEF MovesOn
<1>3. CASE /\ Admits(p, q, f) /\ InsertEntry(p, q, "server", "handoff", <<f>>)
           /\ router' = [router EXCEPT ![p].pc = "handoff", ![p].id = nextId[p]]
  <2>1. UNCHANGED acceptq /\ "server" \in Roles
    BY DEF AcceptIntroduced, Roles
  <2>2. <<f>> # <<>> /\ Head(<<f>>) = f /\ IsClientHello(f)
    BY <1>3 DEF Admits
  <2>3. IsClientHello(Head(<<f>>))
    BY <2>2
  <2> HIDE DEF f, q
  <2> QED
    BY <1>1, <1>3, <2>1, <2>2, <2>3, InsertKeepsRegistry
<1> QED
  BY <1>2, <1>3 DEF AcceptIntroduced

LEMMA HandOffRegistryInv ==
  ASSUME RegistryInv, TypeOK', NEW p \in Peers, HandOff(p)
  PROVE  RegistryInv'
<1> USE DEF RegistryInv
<1> DEFINE i == router[p].id
<1>1. /\ router' = [router EXCEPT ![p] = Idle(p)] /\ router[p].pc = "handoff"
      /\ i \in TunnelIds /\ circ[p][i].st = "handoff"
  BY DEF HandOff, TypeOK, RouterStates, InOneHand
<1>2. HandsKept /\ router'[p].pc # "handoff"
  BY <1>1 DEF HandsKept, TypeOK, Idle
<1>3. CASE DropTunnel(p, i) /\ UNCHANGED acceptq
  <2> HIDE DEF i
  <2> QED
    BY <1>1, <1>2, <1>3, DropKeepsRegistry
<1>4. CASE /\ acceptq' = [acceptq EXCEPT ![p] = Append(acceptq[p], i)]
           /\ circ' = [circ EXCEPT ![p][i].st = "queued"]
           /\ UNCHANGED <<tunnels, nextId>>
  <2> DEFINE c == circ[p][i]
             d == [c EXCEPT !.st = "queued"]
  <2> HIDE DEF i
  <2>1. c \in Circuits
    BY <1>1 DEF TypeOK
  <2>2. d.st = "queued" /\ d.peer = c.peer /\ d.role = c.role /\ d.inbox = c.inbox
    BY <2>1 DEF Circuits
  <2>3. \A r \in Peers, j \in TunnelIds :
          circ'[r][j] = IF r = p /\ j = i THEN d ELSE circ[r][j]
    <3>1. circ \in [Peers -> [TunnelIds -> Circuits]] /\ circ' = [circ EXCEPT ![p][i] = d]
      BY <1>4 DEF TypeOK
    <3> HIDE DEF d
    <3> QED
      BY <1>1, <3>1
  <2> HIDE DEF d
  <2>4. EntriesKept
    BY <1>4 DEF EntriesKept
  <2>5. UnusedAbove' /\ EntryIsHeld'
    BY <1>1, <1>4, <2>2, <2>3, <2>4, MoveKeepsRegistry
       DEF MovesOn, HeldPhases, ServerPhases
  <2>6. ServerHearsHello'
    BY <1>1, <2>2, <2>3 DEF ServerHearsHello
  <2>7. InOneHand'
    <3> SUFFICES ASSUME NEW r \in Peers
                 PROVE  /\ router'[r].pc = "handoff" => circ'[r][router'[r].id].st = "handoff"
                        /\ \A k \in 1..Len(acceptq'[r]) : circ'[r][acceptq'[r][k]].st = "queued"
                        /\ \A k, m \in 1..Len(acceptq'[r]) :
                             k # m => acceptq'[r][k] # acceptq'[r][m]
      BY DEF InOneHand
    <3>1. /\ acceptq[r] \in Seq(TunnelIds)
          /\ \A k \in 1..Len(acceptq[r]) : /\ acceptq[r][k] \in TunnelIds
                                           /\ circ[r][acceptq[r][k]].st = "queued"
          /\ \A k, m \in 1..Len(acceptq[r]) : k # m => acceptq[r][k] # acceptq[r][m]
      BY QueuedIds DEF InOneHand
    <3>2. CASE r = p
      <4>1. acceptq'[r] = Append(acceptq[r], i)
        BY <1>4, <3>2 DEF TypeOK
      <4>2. \A k \in 1..Len(acceptq[r]) : acceptq[r][k] # i
        BY <1>1, <3>1, <3>2
      <4>3. /\ Len(acceptq'[r]) = Len(acceptq[r]) + 1
            /\ \A k \in 1..Len(acceptq'[r]) :
                 acceptq'[r][k] = IF k <= Len(acceptq[r]) THEN acceptq[r][k] ELSE i
        BY <1>1, <3>1, <4>1
      <4>4. Len(acceptq[r]) \in Nat
        BY <3>1
      <4>5. \A k, m \in 1..Len(acceptq'[r]) : k # m => acceptq'[r][k] # acceptq'[r][m]
        BY <3>1, <4>2, <4>3, <4>4
      <4>6. \A k \in 1..Len(acceptq'[r]) : circ'[r][acceptq'[r][k]].st = "queued"
        BY <1>1, <2>2, <2>3, <3>1, <3>2, <4>2, <4>3, <4>4
      <4> QED
        BY <1>2, <3>2, <4>5, <4>6
    <3>3. CASE r # p
      <4>1. acceptq'[r] = acceptq[r] /\ router'[r] = router[r]
        BY <1>1, <1>4, <3>3 DEF TypeOK
      <4>2. router[r].pc = "handoff" => router[r].id \in TunnelIds
        BY DEF TypeOK, RouterStates
      <4> QED
        BY <2>3, <3>1, <3>3, <4>1, <4>2 DEF InOneHand
    <3> QED
      BY <3>2, <3>3
  <2> QED
    BY <2>5, <2>6, <2>7
<1> QED
  BY <1>3, <1>4 DEF HandOff

LEMMA TakeRegistryInv ==
  ASSUME RegistryInv, TypeOK', NEW p \in Peers, TakeCircuit(p)
  PROVE  RegistryInv'
<1> USE DEF RegistryInv
<1> DEFINE i == Head(acceptq[p])
           c == circ[p][i]
           d == [c EXCEPT !.st = "start"]
<1>1. /\ acceptq[p] \in Seq(TunnelIds) /\ acceptq[p] # <<>>
      /\ UNCHANGED <<tunnels, nextId, router>>
      /\ acceptq' = [acceptq EXCEPT ![p] = Tail(acceptq[p])]
  BY DEF TakeCircuit, TypeOK
<1>2. i = acceptq[p][1] /\ 1 \in 1..Len(acceptq[p]) /\ i \in TunnelIds
  BY <1>1
<1>3. c.st = "queued"
  BY <1>2 DEF InOneHand
<1>4. circ' = [circ EXCEPT ![p][i] = d]
  BY DEF TakeCircuit
<1>5. c \in Circuits
  <2> HIDE DEF i
  <2> QED
    BY <1>2 DEF TypeOK
<1>6. d.st = "start" /\ d.peer = c.peer /\ d.role = c.role /\ d.inbox = c.inbox
  <2> HIDE DEF c
  <2> QED
    BY <1>5 DEF Circuits
<1>7. \A r \in Peers, j \in TunnelIds :
        circ'[r][j] = IF r = p /\ j = i THEN d ELSE circ[r][j]
  <2>1. circ \in [Peers -> [TunnelIds -> Circuits]]
    BY DEF TypeOK
  <2> HIDE DEF d, i
  <2> QED
    BY <1>2, <1>4, <2>1
<1> HIDE DEF d
<1>8. UnusedAbove' /\ EntryIsHeld'
  <2>1. EntriesKept
    BY <1>1 DEF EntriesKept
  <2>2. \A r \in Peers, j \in TunnelIds : MovesOn(circ[r][j], circ'[r][j])
    <3> HIDE DEF i
    <3> QED
      BY <1>3, <1>6, <1>7 DEF MovesOn, HeldPhases, ServerPhases
  <2> QED
    BY <1>1, <2>1, <2>2, MoveKeepsRegistry
<1>9. ServerHearsHello'
  <2> HIDE DEF i
  <2> QED
    BY <1>2, <1>3, <1>6, <1>7 DEF ServerHearsHello
<1>10. InOneHand'
  <2> SUFFICES ASSUME NEW r \in Peers
               PROVE  /\ router[r].pc = "handoff" => circ'[r][router[r].id].st = "handoff"
                      /\ \A k \in 1..Len(acceptq'[r]) : circ'[r][acceptq'[r][k]].st = "queued"
                      /\ \A k, m \in 1..Len(acceptq'[r]) :
                           k # m => acceptq'[r][k] # acceptq'[r][m]
    BY <1>1 DEF InOneHand
  <2>1. /\ acceptq[r] \in Seq(TunnelIds)
        /\ \A k \in 1..Len(acceptq[r]) : /\ acceptq[r][k] \in TunnelIds
                                         /\ circ[r][acceptq[r][k]].st = "queued"
        /\ \A k, m \in 1..Len(acceptq[r]) : k # m => acceptq[r][k] # acceptq[r][m]
    BY QueuedIds DEF InOneHand
  <2>2. router[r].pc = "handoff" => /\ router[r].id \in TunnelIds
                                    /\ circ[r][router[r].id].st = "handoff"
    BY DEF TypeOK, RouterStates, InOneHand
  <2>3. router[r].pc = "handoff" => circ'[r][router[r].id].st = "handoff"
    <3> HIDE DEF i
    <3> QED
      BY <1>3, <1>7, <2>2
  <2>4. CASE r = p
    <3>1. acceptq'[r] = Tail(acceptq[r]) /\ acceptq[r] # <<>>
      BY <1>1, <2>4 DEF TypeOK
    <3>2. /\ Len(acceptq[r]) \in Nat /\ Len(acceptq'[r]) = Len(acceptq[r]) - 1
          /\ \A k \in 1..Len(acceptq'[r]) : acceptq'[r][k] = acceptq[r][k + 1]
      BY <2>1, <3>1
    <3>3. \A k \in 1..Len(acceptq'[r]) : k + 1 \in 1..Len(acceptq[r]) /\ k + 1 # 1
      BY <3>2
    <3>4. \A k \in 1..Len(acceptq'[r]) : acceptq'[r][k] \in TunnelIds /\ acceptq'[r][k] # i
      <4> SUFFICES ASSUME NEW k \in 1..Len(acceptq'[r])
                   PROVE  acceptq'[r][k] \in TunnelIds /\ acceptq'[r][k] # i
        OBVIOUS
      <4>1. acceptq'[r][k] = acceptq[r][k + 1] /\ k + 1 \in 1..Len(acceptq[r]) /\ k + 1 # 1
        BY <3>2, <3>3
      <4>2. i = acceptq[r][1] /\ 1 \in 1..Len(acceptq[r])
        BY <2>1, <2>4, <3>1, <3>2
      <4> HIDE DEF i
      <4> QED
        BY <2>1, <4>1, <4>2
    <3>5. \A k \in 1..Len(acceptq'[r]) : circ'[r][acceptq'[r][k]].st = "queued"
      <4> HIDE DEF i
      <4> SUFFICES ASSUME NEW k \in 1..Len(acceptq'[r])
                   PROVE  circ'[r][acceptq'[r][k]].st = "queued"
        OBVIOUS
      <4>1. circ[r][acceptq[r][k + 1]].st = "queued" /\ acceptq'[r][k] = acceptq[r][k + 1]
        BY <2>1, <3>2, <3>3
      <4> QED
        BY <1>7, <3>4, <4>1
    <3>6. \A k, m \in 1..Len(acceptq'[r]) : k # m => acceptq'[r][k] # acceptq'[r][m]
      BY <2>1, <3>2, <3>3
    <3> QED
      BY <2>3, <3>5, <3>6
  <2>5. CASE r # p
    <3>1. acceptq'[r] = acceptq[r]
      BY <1>1, <2>5 DEF TypeOK
    <3> QED
      BY <1>7, <2>1, <2>3, <2>5, <3>1
  <2> QED
    BY <2>4, <2>5
<1> QED
  BY <1>8, <1>9, <1>10

LEMMA ReservationRegistryInv ==
  ASSUME RegistryInv, TypeOK', NEW p \in Peers,
         \/ EnableAccept(p) \/ LinkRegister(p) \/ LinkUp(p) \/ LinkDown(p)
         \/ \E q \in Peers : LoseFrame(p, q) \/ Age(p, q)
  PROVE  RegistryInv'
<1>1. UNCHANGED <<nextId, circ, router, acceptq>>
  BY DEF EnableAccept, LinkRegister, LinkUp, LinkDown, LoseFrame, Age
<1>2. EntriesKept
  BY ReservationKeepsEntries DEF RegistryInv
<1> QED
  BY <1>1, <1>2, NoMoveKeepsRegistry

LEMMA NextRegistryInv == RegistryInv /\ [Next]_vars => RegistryInv'
<1> SUFFICES ASSUME RegistryInv, [Next]_vars PROVE RegistryInv'
  OBVIOUS
<1>1. TypeOK'
  BY NextTypeOK DEF RegistryInv
<1>2. CASE UNCHANGED vars
  BY <1>2 DEF vars, RegistryInv, TypeOK, UnusedAbove, InOneHand, EntryIsHeld,
              Entry, Current, ServerHearsHello
<1>3. ASSUME NEW p \in Peers, Step(p) \/ Consumer(p) \/ Disturbance(p)
      PROVE  RegistryInv'
  BY <1>1, <1>3, DialerRegistryInv, EndpointRegistryInv, RouteRegistryInv,
     AcceptRegistryInv, HandOffRegistryInv, TakeRegistryInv, ReservationRegistryInv
     DEF Step, Consumer, Disturbance
<1> QED
  BY <1>2, <1>3 DEF Next

(* The registry, the held tunnels, the reservation loop and the accept      *)
(* channel agree in every reachable state.                                  *)
THEOREM RegistryCorrect == Spec => []RegistryInv
BY InitRegistryInv, NextRegistryInv, PTL DEF Spec

(* No registry entry outlives the RelayTunnel it stands for: whatever       *)
(* refuses a dial is held by a task that will release it (open_tunnel,      *)
(* close_tunnel, clear_transport).                                          *)
THEOREM EntriesAreHeld == Spec => []EntryIsHeld
<1>1. RegistryInv => EntryIsHeld
  BY DEF RegistryInv
<1> QED
  BY <1>1, RegistryCorrect, PTL

(* A server handshake starts on a ClientHello, in every state               *)
(* (accept_introduced).                                                     *)
THEOREM ServersHearHello == Spec => []ServerHearsHello
<1>1. RegistryInv => ServerHearsHello
  BY DEF RegistryInv
<1> QED
  BY <1>1, RegistryCorrect, PTL

-----------------------------------------------------------------------------
(* How an entry leaves its key.                                             *)

(* A step that leaves p's registry ids alone. *)
LEMMA SameIdKeepsEntry ==
  ASSUME NEW p \in Peers, NEW q \in Peers, tunnels'[p][q].id = tunnels[p][q].id
  PROVE  KeepsEntry(p, q)
BY DEF KeepsEntry, Entry

LEMMA DropKeepsEntry ==
  ASSUME TypeOK, NEW p \in Peers, NEW i \in TunnelIds, DropTunnel(p, i),
         NEW a \in Peers, NEW b \in Peers
  PROVE  KeepsEntry(a, b)
<1> DEFINE q == circ[p][i].peer
<1>1. tunnels' = [tunnels EXCEPT ![p] = CloseTunnel(tunnels[p], q, i)]
  BY DEF DropTunnel
<1>2. circ'[p][i].st = "gone"
  BY DEF DropTunnel, TypeOK, Blank
<1>3. CASE a = p /\ b = q /\ tunnels[p][q].id = i
  <2>1. tunnels'[a][b] = NoEntry
    BY <1>1, <1>3 DEF CloseTunnel, TypeOK
  <2> QED
    BY <1>2, <1>3, <2>1 DEF KeepsEntry, Entry
<1>4. CASE ~(a = p /\ b = q /\ tunnels[p][q].id = i)
  <2>1. tunnels'[a][b] = tunnels[a][b]
    BY <1>1, <1>4 DEF CloseTunnel, TypeOK
  <2> QED
    BY <2>1, SameIdKeepsEntry
<1> QED
  BY <1>3, <1>4

LEMMA EntryKeptByRow ==
  ASSUME TypeOK, NEW p \in Peers, NEW q \in Peers, NEW e,
         tunnels' = [tunnels EXCEPT ![p][q] = e], KeepsEntry(p, q),
         NEW a \in Peers, NEW b \in Peers
  PROVE  KeepsEntry(a, b)
<1>1. CASE a = p /\ b = q
  BY <1>1
<1>2. CASE ~(a = p /\ b = q)
  <2>1. tunnels'[a][b] = tunnels[a][b]
    BY <1>2 DEF TypeOK
  <2> QED
    BY <2>1, SameIdKeepsEntry
<1> QED
  BY <1>1, <1>2

LEMMA StepKeepsEntry ==
  ASSUME TypeOK, Next, NEW a \in Peers, NEW b \in Peers
  PROVE  KeepsEntry(a, b)
<1>1. CASE tunnels' = tunnels
  BY <1>1, SameIdKeepsEntry
<1>2. CASE \E p \in Peers, i \in TunnelIds : DropTunnel(p, i)
  BY <1>2, DropKeepsEntry
<1>3. ASSUME NEW p \in Peers, ClearTransport(p), link'[p] # link[p]
      PROVE  KeepsEntry(a, b)
  <2>1. CASE a = p
    <3>1. tunnels'[a][b] = NoEntry
      BY <1>3, <2>1 DEF ClearTransport, TypeOK
    <3> QED
      BY <1>3, <2>1, <3>1 DEF KeepsEntry, Entry
  <2>2. CASE a # p
    <3>1. tunnels'[a][b] = tunnels[a][b]
      BY <1>3, <2>2 DEF ClearTransport, TypeOK
    <3> QED
      BY <3>1, SameIdKeepsEntry
  <2> QED
    BY <2>1, <2>2
<1>4. ASSUME NEW p \in Peers, NEW q \in Peers, Age(p, q)
      PROVE  KeepsEntry(a, b)
  <2> DEFINE e == [tunnels[p][q] EXCEPT !.fresh = FALSE]
  <2>1. tunnels' = [tunnels EXCEPT ![p][q] = e] /\ tunnels[p][q] \in Entries
    BY <1>4 DEF Age, TypeOK
  <2>2. e.id = tunnels[p][q].id
    BY <2>1 DEF Entries, NoEntry
  <2> HIDE DEF e
  <2>3. tunnels'[p][q] = e
    BY <2>1 DEF TypeOK
  <2> QED
    BY <2>1, <2>2, <2>3, SameIdKeepsEntry, EntryKeptByRow
<1>5. ASSUME NEW p \in Peers, NEW q \in Peers,
             ~Suppresses(tunnels[p][q]), InsertEntry(p, q, "client", "open", <<>>)
      PROVE  KeepsEntry(a, b)
  <2> DEFINE e == [role |-> "client", id |-> nextId[p], fresh |-> TRUE]
  <2>1. tunnels' = [tunnels EXCEPT ![p][q] = e]
    BY <1>5 DEF InsertEntry
  <2>2. tunnels'[p][q] = e
    BY <2>1 DEF TypeOK
  <2>3. KeepsEntry(p, q)
    BY <1>5, <2>2 DEF KeepsEntry, Entry, Suppresses
  <2> HIDE DEF e
  <2> QED
    BY <2>1, <2>3, EntryKeptByRow
<1>6. ASSUME NEW p \in Peers, AcceptIntroduced(p)
      PROVE  KeepsEntry(a, b)
  <2> DEFINE q == router[p].from
             f == router[p].frame
             e == [role |-> "server", id |-> nextId[p], fresh |-> TRUE]
  <2>1. q \in Peers
    BY DEF TypeOK, RouterStates
  <2>2. CASE Admits(p, q, f) /\ InsertEntry(p, q, "server", "handoff", <<f>>)
    <3>1. tunnels' = [tunnels EXCEPT ![p][q] = e]
      BY <2>2 DEF InsertEntry
    <3>2. KeepsEntry(p, q)
      BY <2>2 DEF Admits, KeepsEntry, Entry
    <3> HIDE DEF e, q
    <3> QED
      BY <2>1, <3>1, <3>2, EntryKeptByRow
  <2> QED
    BY <1>1, <1>6, <2>2 DEF AcceptIntroduced
<1>7. ASSUME NEW p \in Peers, NEW q \in Peers, RouteRelayed(p, q)
      PROVE  KeepsEntry(a, b)
  <2> DEFINE f == Head(wire[q][p])
             e == tunnels[p][q]
  <2>1. CASE tunnels' = [tunnels EXCEPT ![p] = Stamp(tunnels[p], q)]
    <3>1. CASE Stamp(tunnels[p], q) = tunnels[p]
      <4>1. tunnels'[a][b] = tunnels[a][b]
        BY <2>1, <3>1 DEF TypeOK
      <4> QED
        BY <4>1, SameIdKeepsEntry
    <3>2. CASE Stamp(tunnels[p], q) = [tunnels[p] EXCEPT ![q] = [e EXCEPT !.fresh = TRUE]]
      <4> DEFINE n == [e EXCEPT !.fresh = TRUE]
      <4>1. tunnels' = [tunnels EXCEPT ![p][q] = n] /\ e \in Entries
        BY <2>1, <3>2 DEF TypeOK
      <4>2. n.id = e.id
        BY <4>1 DEF Entries, NoEntry
      <4> HIDE DEF n
      <4>3. tunnels'[p][q] = n
        BY <4>1 DEF TypeOK
      <4> QED
        BY <4>1, <4>2, <4>3, SameIdKeepsEntry, EntryKeptByRow
    <3> QED
      BY <3>1, <3>2 DEF Stamp
  <2>2. CASE /\ e = NoEntry \/ Yields(p, q, e, f)
             /\ tunnels' = [tunnels EXCEPT ![p][q] = NoEntry]
             /\ router' = [router EXCEPT ![p] =
                  [pc |-> "accept", from |-> q, frame |-> f, id |-> 0]]
    <3>1. tunnels'[p][q] = NoEntry /\ router'[p].pc = "accept"
      BY <2>2 DEF TypeOK
    <3>2. e # NoEntry => e.role = "client" /\ p < q
      <4>1. p # q /\ p \in Nat /\ q \in Nat
        BY <1>7, PeersAssumption DEF RouteRelayed
      <4> QED
        BY <2>2, <4>1 DEF Yields, Glare
    <3>3. KeepsEntry(p, q)
      BY <3>1, <3>2 DEF KeepsEntry, Entry
    <3> QED
      BY <2>2, <3>3, EntryKeptByRow
  <2> QED
    BY <1>7, <2>1, <2>2 DEF RouteRelayed
<1>8. ASSUME NEW p \in Peers, HandOff(p) PROVE KeepsEntry(a, b)
  <2>1. router[p].id \in TunnelIds
    BY <1>8 DEF HandOff, TypeOK, RouterStates
  <2> QED
    BY <1>1, <1>2, <1>8, <2>1 DEF HandOff
<1>9. ASSUME NEW p \in Peers, NEW q \in Peers, OpenTunnelRegister(p, q)
      PROVE  KeepsEntry(a, b)
  BY <1>1, <1>5, <1>9 DEF OpenTunnelRegister
<1>10. ASSUME NEW p \in Peers, LinkRegister(p) \/ LinkDown(p) PROVE KeepsEntry(a, b)
  <2>1. ClearTransport(p) /\ link'[p] # link[p]
    BY <1>10 DEF LinkRegister, LinkDown, TypeOK
  <2> QED
    BY <1>3, <2>1
<1>11. ASSUME NEW p \in Peers, NEW i \in TunnelIds,
              \/ WriteClientHello(p, i) \/ DialTimeout(p, i) \/ Read(p, i)
              \/ ReadError(p, i) \/ Eof(p, i) \/ WriteRecord(p, i) \/ Hangup(p, i)
       PROVE  KeepsEntry(a, b)
  BY <1>1, <1>2, <1>11
     DEF WriteClientHello, DialTimeout, Read, ReadError, Eof, WriteRecord, Hangup
<1>12. ASSUME NEW p \in Peers,
              \/ EnableAccept(p) \/ LinkUp(p) \/ TakeCircuit(p)
              \/ \E q \in Peers : OpenTunnelCheck(p, q) \/ LoseFrame(p, q)
       PROVE  KeepsEntry(a, b)
  BY <1>1, <1>12 DEF EnableAccept, LinkUp, TakeCircuit, OpenTunnelCheck, LoseFrame
<1> QED
  BY <1>4, <1>6, <1>7, <1>8, <1>9, <1>10, <1>11, <1>12
     DEF Next, Step, Consumer, Disturbance

(* A live registration keeps its key until its own holder drops it, the     *)
(* session ends, or a glare yields it (open_tunnel, accept_introduced,      *)
(* close_tunnel).                                                           *)
THEOREM LiveEntriesKept == Spec => KeepsLiveEntry
<1>1. TypeOK /\ [Next]_vars => [\A p, q \in Peers : KeepsEntry(p, q)]_vars
  BY StepKeepsEntry
<1> QED
  BY <1>1, TypeCorrect, PTL DEF Spec, KeepsLiveEntry

-----------------------------------------------------------------------------
(* How many slots the introduced circuits take.                             *)

Servers(p) == {q \in Peers : Entry(p, q).role = "server"}

(* Registrations are counted, dials with the rest, so the count has to be   *)
(* one that exists, however many peers there are.                           *)
SlotsInv ==
  \A p \in Peers : /\ IsFiniteSet(Registrations(p))
                   /\ Cardinality(Servers(p)) <= MaxRelayTunnels

LEMMA ServersRegistered ==
  ASSUME NEW p \in Peers PROVE Servers(p) \subseteq Registrations(p)
BY DEF Servers, Registrations, Entry, NoEntry

LEMMA EntriesKeptShrink ==
  ASSUME EntriesKept, NEW p \in Peers
  PROVE  Registrations(p)' \subseteq Registrations(p) /\ Servers(p)' \subseteq Servers(p)
<1>1. \A q \in Peers : tunnels'[p][q] # NoEntry => /\ tunnels[p][q] # NoEntry
                                                  /\ tunnels'[p][q].role = tunnels[p][q].role
  BY DEF EntriesKept
<1> QED
  BY <1>1 DEF Registrations, Servers, Entry, NoEntry

(* A registration takes one key. *)
LEMMA InsertTakesOne ==
  ASSUME TypeOK, NEW p \in Peers, NEW q \in Peers, NEW role, NEW st, NEW inbox,
         InsertEntry(p, q, role, st, inbox)
  PROVE  /\ \A r \in Peers : r # p => /\ Registrations(r)' = Registrations(r)
                                      /\ Servers(r)' = Servers(r)
         /\ Registrations(p)' = Registrations(p) \cup {q}
         /\ role = "client" => Servers(p)' \subseteq Servers(p)
         /\ Servers(p)' \subseteq Servers(p) \cup {q}
<1> DEFINE e == [role |-> role, id |-> nextId[p], fresh |-> TRUE]
<1>1. tunnels \in [Peers -> [Peers -> Entries]]
  BY DEF TypeOK
<1>2. tunnels' = [tunnels EXCEPT ![p][q] = e]
  BY DEF InsertEntry
<1>3. e # NoEntry /\ e.role = role
  <2>1. nextId[p] # 0
    BY DEF TypeOK
  <2> QED
    BY <2>1 DEF NoEntry
<1> HIDE DEF e
<1>4. /\ tunnels'[p][q] = e
      /\ \A r, x \in Peers : ~(r = p /\ x = q) => tunnels'[r][x] = tunnels[r][x]
  BY <1>1, <1>2
<1>5. \A r \in Peers : r # p => Registrations(r)' = Registrations(r) /\ Servers(r)' = Servers(r)
  BY <1>4 DEF Registrations, Servers, Entry
<1>6. Registrations(p)' = Registrations(p) \cup {q}
  BY <1>3, <1>4 DEF Registrations
<1>7. role = "client" => Servers(p)' \subseteq Servers(p)
  BY <1>3, <1>4 DEF Servers, Entry
<1>8. Servers(p)' \subseteq Servers(p) \cup {q}
  BY <1>4 DEF Servers, Entry
<1> QED
  BY <1>5, <1>6, <1>7, <1>8

(* Every step but a registration leaves each key with its entry or none. *)
LEMMA StepKeepsEntries ==
  ASSUME TypeOK, [Next]_vars
  PROVE  \/ EntriesKept
         \/ \E p, q \in Peers :
              \/ InsertEntry(p, q, "client", "open", <<>>)
              \/ \E f : Admits(p, q, f) /\ InsertEntry(p, q, "server", "handoff", <<f>>)
<1>1. tunnels' = tunnels => EntriesKept
  BY DEF EntriesKept
<1>2. CASE UNCHANGED vars
  BY <1>1, <1>2 DEF vars
<1>3. ASSUME NEW p \in Peers, NEW i \in TunnelIds,
             \/ WriteClientHello(p, i) \/ DialTimeout(p, i) \/ Read(p, i)
             \/ ReadError(p, i) \/ Eof(p, i) \/ WriteRecord(p, i) \/ Hangup(p, i)
      PROVE  EntriesKept
  BY <1>1, <1>3, DropKeepsEntries
     DEF WriteClientHello, DialTimeout, Read, ReadError, Eof, WriteRecord, Hangup
<1>4. ASSUME NEW p \in Peers, NEW q \in Peers, RouteRelayed(p, q) PROVE EntriesKept
  BY <1>4, StampKeepsEntries, RemoveKeepsEntries DEF RouteRelayed
<1>5. ASSUME NEW p \in Peers, HandOff(p) PROVE EntriesKept
  <2>1. router[p].id \in TunnelIds
    <3>1. router[p] \in RouterStates /\ router[p].pc = "handoff"
      BY <1>5 DEF HandOff, TypeOK
    <3> QED
      BY <3>1 DEF RouterStates
  <2> QED
    BY <1>1, <1>5, <2>1, DropKeepsEntries DEF HandOff
<1>6. ASSUME NEW p \in Peers, AcceptIntroduced(p)
      PROVE  \/ EntriesKept
             \/ \E q \in Peers : \E f :
                  Admits(p, q, f) /\ InsertEntry(p, q, "server", "handoff", <<f>>)
  <2>1. router[p].from \in Peers
    BY DEF TypeOK, RouterStates
  <2> QED
    BY <1>1, <1>6, <2>1 DEF AcceptIntroduced
<1>7. ASSUME NEW p \in Peers, NEW q \in Peers,
             OpenTunnelCheck(p, q) \/ OpenTunnelRegister(p, q)
      PROVE  EntriesKept \/ InsertEntry(p, q, "client", "open", <<>>)
  BY <1>1, <1>7 DEF OpenTunnelCheck, OpenTunnelRegister
<1>8. ASSUME NEW p \in Peers, TakeCircuit(p) PROVE EntriesKept
  BY <1>1, <1>8 DEF TakeCircuit
<1>9. CASE Next
  <2>1. PICK p \in Peers : Step(p) \/ Consumer(p) \/ Disturbance(p)
    BY <1>9 DEF Next
  <2>2. CASE Step(p)
    BY <1>3, <1>4, <1>5, <1>6, <1>7, <1>8, <2>2, ReservationKeepsEntries DEF Step
  <2>3. CASE Consumer(p)
    BY <1>3, <1>7, <2>3, ReservationKeepsEntries DEF Consumer
  <2>4. CASE Disturbance(p)
    BY <1>3, <2>4, ReservationKeepsEntries DEF Disturbance
  <2> QED
    BY <2>1, <2>2, <2>3, <2>4
<1> QED
  BY <1>2, <1>9

LEMMA NextSlotsInv ==
  ASSUME TypeOK, SlotsInv, [Next]_vars PROVE SlotsInv'
<1>1. ASSUME NEW p \in Peers
      PROVE  /\ IsFiniteSet(Registrations(p)) /\ IsFiniteSet(Servers(p))
             /\ Cardinality(Servers(p)) <= MaxRelayTunnels
             /\ Cardinality(Servers(p)) \in Nat /\ Cardinality(Registrations(p)) \in Nat
             /\ Cardinality(Servers(p)) <= Cardinality(Registrations(p))
  <2>1. IsFiniteSet(Registrations(p)) /\ Cardinality(Servers(p)) <= MaxRelayTunnels
    BY DEF SlotsInv
  <2>2. IsFiniteSet(Servers(p)) /\ Cardinality(Servers(p)) <= Cardinality(Registrations(p))
    BY <2>1, ServersRegistered, FS_Subset
  <2> QED
    BY <2>1, <2>2, FS_CardinalityType
<1>2. ASSUME NEW p \in Peers, NEW R, NEW S, R \subseteq Registrations(p), S \subseteq Servers(p)
      PROVE  IsFiniteSet(R) /\ Cardinality(S) <= MaxRelayTunnels
  <2>1. IsFiniteSet(R) /\ IsFiniteSet(S) /\ Cardinality(S) <= Cardinality(Servers(p))
    BY <1>1, <1>2, FS_Subset
  <2>2. Cardinality(S) \in Nat
    BY <2>1, FS_CardinalityType
  <2> QED
    BY <1>1, <2>1, <2>2, CapsAssumption
<1>3. CASE EntriesKept
  BY <1>2, <1>3, EntriesKeptShrink DEF SlotsInv
<1>4. ASSUME NEW p \in Peers, NEW q \in Peers, InsertEntry(p, q, "client", "open", <<>>)
      PROVE  SlotsInv'
  <2>1. IsFiniteSet(Registrations(p) \cup {q})
    BY <1>1, FS_AddElement
  <2>2. IsFiniteSet(Registrations(p)') /\ Cardinality(Servers(p)') <= MaxRelayTunnels
    BY <1>2, <1>4, <2>1, InsertTakesOne
  <2>3. \A r \in Peers : r # p => Registrations(r)' = Registrations(r) /\ Servers(r)' = Servers(r)
    BY <1>4, InsertTakesOne
  <2> QED
    BY <1>1, <2>2, <2>3 DEF SlotsInv
<1>5. ASSUME NEW p \in Peers, NEW q \in Peers, NEW f,
             Admits(p, q, f), InsertEntry(p, q, "server", "handoff", <<f>>)
      PROVE  SlotsInv'
  <2>1. /\ IsFiniteSet(Registrations(p) \cup {q})
        /\ IsFiniteSet(Servers(p) \cup {q})
        /\ Cardinality(Servers(p) \cup {q}) <= Cardinality(Servers(p)) + 1
    <3>1. IsFiniteSet(Registrations(p)) /\ IsFiniteSet(Servers(p))
      BY <1>1
    <3>2. IsFiniteSet(Registrations(p) \cup {q}) /\ IsFiniteSet(Servers(p) \cup {q})
      BY <3>1, FS_AddElement
    <3>3. Cardinality(Servers(p) \cup {q}) =
            IF q \in Servers(p) THEN Cardinality(Servers(p)) ELSE Cardinality(Servers(p)) + 1
      BY <3>1, FS_AddElement
    <3>4. Cardinality(Servers(p)) \in Nat
      BY <1>1
    <3> QED
      BY <3>2, <3>3, <3>4
  <2>2. Cardinality(Servers(p)) + 1 <= MaxRelayTunnels
    BY <1>1, <1>5, CapsAssumption DEF Admits
  <2>3. /\ Registrations(p)' = Registrations(p) \cup {q}
        /\ Servers(p)' \subseteq Servers(p) \cup {q}
    BY <1>5, InsertTakesOne
  <2>4. Cardinality(Servers(p)') <= Cardinality(Servers(p) \cup {q})
    BY <2>1, <2>3, FS_Subset
  <2>5. Cardinality(Servers(p)') \in Nat /\ Cardinality(Servers(p) \cup {q}) \in Nat
    BY <2>1, <2>3, FS_Subset, FS_CardinalityType
  <2>6. IsFiniteSet(Registrations(p)') /\ Cardinality(Servers(p)') <= MaxRelayTunnels
    BY <1>1, <2>1, <2>2, <2>3, <2>4, <2>5, CapsAssumption
  <2>7. \A r \in Peers : r # p => Registrations(r)' = Registrations(r) /\ Servers(r)' = Servers(r)
    BY <1>5, InsertTakesOne
  <2> QED
    BY <1>1, <2>6, <2>7 DEF SlotsInv
<1> QED
  BY <1>3, <1>4, <1>5, StepKeepsEntries

LEMMA InitSlotsInv == Init => SlotsInv
<1> SUFFICES ASSUME Init, NEW p \in Peers
             PROVE  IsFiniteSet(Registrations(p)) /\ Cardinality(Servers(p)) <= MaxRelayTunnels
  BY DEF SlotsInv
<1>1. \A q \in Peers : tunnels[p][q] = NoEntry
  BY DEF Init, InitWith
<1>2. Registrations(p) = {} /\ Servers(p) = {}
  BY <1>1 DEF Registrations, Servers, Entry, NoEntry
<1> QED
  BY <1>2, FS_EmptySet, CapsAssumption

(* Introduced circuits never take more registry slots than                  *)
(* MAX_RELAY_TUNNELS, for any number of peers and however many dials        *)
(* register beside them in the gap between the admission test and the       *)
(* registration (accept_introduced, open_tunnel).                           *)
THEOREM ServersAreBounded == Spec => []ServersBounded
<1>1. SlotsInv => ServersBounded
  BY DEF SlotsInv, ServersBounded, Servers
<1>2. TypeOK /\ SlotsInv /\ [Next]_vars => SlotsInv'
  BY NextSlotsInv
<1> QED
  BY <1>1, <1>2, InitSlotsInv, TypeCorrect, PTL DEF Spec
=============================================================================
