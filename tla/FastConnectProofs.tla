------------------------- MODULE FastConnectProofs -------------------------
(***************************************************************************)
(* Proofs about FastConnect, for any bounds and any set of BLS keys.        *)
(***************************************************************************)
EXTENDS FastConnect, FiniteSetTheorems, TLAPS

(* The actions that change each group of variables. *)
DialAct ==
  \/ Race \/ GuardDirect \/ BackoffOver \/ Redialed \/ GuardAborted \/ CancelConnect
  \/ \E i \in Conns :
       OpenRelayed(i) \/ DialEnds(i) \/ CircuitEof(i) \/ Driver(i) \/ TransportDies(i)
SlotAct == Race \/ GuardTask \/ CancelConnect \/ HeldStably
StreamAct ==
  \/ Promote
  \/ \E k \in Streams :
       OpenStream(k) \/ StreamOpened(k) \/ StreamRefused(k) \/ StreamDropped(k)
  \/ \E i \in Conns : DrainTask(i) \/ DrainDeadline(i)
RelayAct ==
  \/ SelectDirect \/ CancelConnect \/ GuardAborted
  \/ ReservationLost \/ ReservationHeld \/ CircuitIdle
  \/ \E i \in Conns : OpenRelayed(i) \/ DialFails(i) \/ DriverFrees(i)

LEMMA DialFrame == ASSUME Next PROVE DialAct \/ UNCHANGED dials
BY DEF Next, DialAct, dials, Race, GuardTask, Application, Environment, DrainTask,
  ProbeAnswers, ProbeFails, Promote, HeldStably, CloseNoticed, OpenStream, StreamOpened,
  StreamRefused, StreamDropped, DropConnection, DrainCheck, DrainArm, DrainWoken,
  DrainDeadline, DrainUnchanged, ReservationLost, ReservationHeld, CircuitIdle

LEMMA SlotFrame == ASSUME Next PROVE SlotAct \/ UNCHANGED slots
BY DEF Next, SlotAct, slots, Application, Environment, DrainTask, DialEnds, Driver,
  OpenRelayed, DialLands, DialFails, OpenStream, StreamOpened,
  StreamRefused, StreamDropped, DropConnection, DrainCheck, DrainArm, DrainWoken,
  DrainDeadline, DrainUnchanged, ReservationLost, ReservationHeld, CircuitIdle,
  DriverEnds, DriverFrees, TransportDies, CircuitEof

LEMMA StreamFrame == ASSUME Next PROVE StreamAct \/ UNCHANGED streams
BY DEF Next, StreamAct, streams, Race, GuardTask, Application, Environment, DialEnds,
  Driver, ConnectFast, SelectRelayed, SelectDirect, AwaitDirect, AwaitRelayed,
  GuardDirect, ProbeAnswers, ProbeFails, HeldStably, CloseNoticed, BackoffOver, Redialed,
  GuardAborted, CancelConnect, DropConnection,
  OpenRelayed, DialLands, DialFails, ReservationLost, ReservationHeld, CircuitIdle,
  DriverEnds, DriverFrees, TransportDies, CircuitEof

LEMMA RelayFrame == ASSUME Next PROVE RelayAct \/ UNCHANGED relay
BY DEF Next, RelayAct, relay, Race, GuardTask, Application, Environment, DialEnds,
  Driver, ConnectFast, SelectRelayed, AwaitDirect, AwaitRelayed,
  GuardDirect, ProbeAnswers, ProbeFails, Promote, HeldStably, CloseNoticed, BackoffOver,
  Redialed, DropConnection, OpenStream, StreamOpened, StreamRefused, StreamDropped,
  DrainTask, DrainCheck, DrainArm, DrainWoken, DrainDeadline, DrainUnchanged,
  DialLands, DriverEnds, TransportDies, CircuitEof

(* Updates of a dial or connection keep its type. *)
LEMMA StTyped ==
  ASSUME NEW c \in [Conns -> Connections], NEW i \in Conns, NEW s \in ConnStates
  PROVE  [c EXCEPT ![i].st = s] \in [Conns -> Connections]
BY DEF Connections

LEMMA DiedTyped ==
  ASSUME NEW c \in [Conns -> Connections], NEW i \in Conns
  PROVE  [c EXCEPT ![i].died = TRUE] \in [Conns -> Connections]
BY DEF Connections

LEMMA LandedTyped ==
  ASSUME NEW c \in [Conns -> Connections], NEW i \in Conns,
         NEW b \in BlsKeys, NEW a \in BOOLEAN
  PROVE  [c EXCEPT ![i].st = "live", ![i].bls = b, ![i].answers = a]
           \in [Conns -> Connections]
BY DEF Connections, ConnStates

LEMMA StartedTyped ==
  ASSUME NEW c \in [Conns -> Connections], NEW i \in Conns, NEW t \in Tiers
  PROVE  Started(c, i, t) \in [Conns -> Connections]
BY DEF Started, Connections, ConnStates

LEMMA AbandonedTyped ==
  ASSUME NEW c \in [Conns -> Connections], NEW i \in Conns \cup {None}
  PROVE  Abandoned(c, i) \in [Conns -> Connections]
<1>1. CASE Pending(i)
  BY <1>1, StTyped DEF Abandoned, Pending, ConnStates
<1>2. CASE ~Pending(i)
  BY <1>2 DEF Abandoned
<1>. QED BY <1>1, <1>2

LEMMA DialsTypedStep ==
  ASSUME TypeOK, Next PROVE DialsTyped'
<1>. USE DEF TypeOK, DialsTyped
<1>t. "direct" \in Tiers /\ "relayed" \in Tiers /\ None \in Conns \cup {None}
  BY DEF Tiers
<1>n. 1 \in Conns /\ 2 \in Conns
  BY FastAssumption DEF Conns
<1>s. {"opening", "dialing", "failed", "live", "closed", "freed"} \subseteq ConnStates
  BY DEF ConnStates
<1>1. CASE UNCHANGED dials
  BY <1>1 DEF dials
<1>2. CASE ConnectFast
  BY <1>2, <1>t, <1>n, StartedTyped DEF ConnectFast, Tiers
<1>3. CASE SelectRelayed \/ AwaitDirect \/ GuardDirect \/ Redialed
  BY <1>3, <1>t DEF SelectRelayed, AwaitDirect, GuardDirect, Redialed
<1>4. CASE SelectDirect
  <2>1. [t \in Tiers |-> None] \in [Tiers -> Conns \cup {None}]
        /\ [dial EXCEPT !["direct"] = None] \in [Tiers -> Conns \cup {None}]
        /\ dial["relayed"] \in Conns \cup {None}
    BY <1>t
  <2>2. Abandoned(conn, dial["relayed"]) \in [Conns -> Connections]
    BY <2>1, AbandonedTyped
  <2>. QED BY <1>4, <2>1, <2>2 DEF SelectDirect
<1>5. CASE AwaitRelayed
  <2>1. CASE dial' = [t \in Tiers |-> None] /\ UNCHANGED <<conn, nextConn>>
    BY <2>1
  <2>2. CASE /\ nextConn \in Conns
             /\ dial' = [direct |-> nextConn, relayed |-> None]
             /\ conn' = Started(conn, nextConn, "direct")
             /\ nextConn' = nextConn + 1
    BY <2>2, <1>t, StartedTyped DEF Tiers
  <2>. QED BY <1>5, <2>1, <2>2 DEF AwaitRelayed
<1>6. CASE BackoffOver
  BY <1>6, <1>t, StartedTyped DEF BackoffOver
<1>7. CASE CancelConnect \/ GuardAborted
  <2>1. dial["direct"] \in Conns \cup {None} /\ dial["relayed"] \in Conns \cup {None}
    BY <1>t
  <2>2. Abandoned(Abandoned(conn, dial["direct"]), dial["relayed"]) \in [Conns -> Connections]
    BY <2>1, AbandonedTyped
  <2>. QED BY <1>7, <1>t, <2>2 DEF CancelConnect, GuardAborted
<1>8. ASSUME NEW i \in Conns,
             OpenRelayed(i) \/ DialEnds(i) \/ CircuitEof(i) \/ Driver(i) \/ TransportDies(i)
      PROVE  DialsTyped'
  <2>1. \A st \in {"dialing", "failed", "closed", "freed"} :
          [conn EXCEPT ![i].st = st] \in [Conns -> Connections]
    BY <1>s, StTyped
  <2>2. [conn EXCEPT ![i].died = TRUE] \in [Conns -> Connections]
    BY DiedTyped
  <2>3. \A b \in BlsKeys, a \in BOOLEAN :
          [conn EXCEPT ![i].st = "live", ![i].bls = b, ![i].answers = a]
            \in [Conns -> Connections]
    BY LandedTyped
  <2>4. conn' \in [Conns -> Connections]
    <3>1. CASE OpenRelayed(i)
      BY <3>1, <2>1 DEF OpenRelayed
    <3>2. CASE DialFails(i)
      BY <3>2, <2>1 DEF DialFails
    <3>3. ASSUME NEW b \in BlsKeys, NEW a \in BOOLEAN, DialLands(i, b, a)
          PROVE  conn' \in [Conns -> Connections]
      BY <3>3, <2>3 DEF DialLands
    <3>4. CASE CircuitEof(i)
      BY <3>4, <2>1, <2>2 DEF CircuitEof
    <3>5. CASE Driver(i)
      BY <3>5, <2>1 DEF Driver, DriverEnds, DriverFrees
    <3>6. CASE TransportDies(i)
      BY <3>6, <2>2 DEF TransportDies
    <3>. QED BY <1>8, <3>1, <3>2, <3>3, <3>4, <3>5, <3>6 DEF DialEnds
  <2>. QED
    BY <1>8, <2>4
    DEF OpenRelayed, DialEnds, DialLands, DialFails, CircuitEof, Driver, DriverEnds,
        DriverFrees, TransportDies
<1>. QED
  BY <1>1, <1>2, <1>3, <1>4, <1>5, <1>6, <1>7, <1>8, DialFrame DEF DialAct, Race

LEMMA SlotsTypedStep ==
  ASSUME TypeOK, SlotsFollowGuard, Next PROVE SlotsTyped'
<1>. USE DEF TypeOK, SlotsTyped, DialsTyped
<1>g. /\ \A pc \in GuardSteps, h \in Conns \cup {None} :
           Guard(pc, h) \in [pc : GuardSteps, hand : Conns \cup {None}, stable : BOOLEAN]
      /\ {"none", "promote", "probe", "swap", "watch", "backoff", "redial", "end"} = GuardSteps
      /\ None \in Conns \cup {None}
  BY DEF Guard, GuardSteps
<1>t. "direct" \in Tiers /\ "relayed" \in Tiers /\ \A i \in Conns : conn[i].tier \in Tiers
  BY DEF Tiers, Connections
<1>b. ASSUME NEW i \in Conns, Build(i)
      PROVE  active' \in Conns /\ event' \in Tiers
             /\ guard' \in [pc : GuardSteps, hand : Conns \cup {None}, stable : BOOLEAN]
  BY <1>b, <1>g, <1>t DEF Build
<1>d. dial["direct"] \in Conns \cup {None} /\ dial["relayed"] \in Conns \cup {None}
  BY <1>t
<1>1. CASE UNCHANGED slots
  BY <1>1 DEF slots
<1>2. CASE ConnectFast
  BY <1>2 DEF ConnectFast, slots
<1>3. CASE SelectRelayed \/ SelectDirect \/ AwaitDirect \/ AwaitRelayed
  BY <1>3, <1>b, <1>d
  DEF SelectRelayed, SelectDirect, AwaitDirect, AwaitRelayed, Landing
<1>4. CASE GuardDirect \/ ProbeFails \/ BackoffOver
  BY <1>4, <1>g, <1>d DEF GuardDirect, ProbeFails, BackoffOver, Landing
<1>9. CASE ProbeAnswers \/ HeldStably
  BY <1>9, <1>g DEF ProbeAnswers, HeldStably
<1>5. CASE GuardAborted \/ CancelConnect
  BY <1>5, <1>g DEF GuardAborted, CancelConnect
<1>6. CASE Promote
  <2>1. guard.hand \in Conns
    BY <1>6 DEF Promote, SlotsFollowGuard
  <2>. QED BY <1>6, <2>1, <1>g, <1>t DEF Promote
<1>7. CASE CloseNoticed
  BY <1>7, <1>g, FastAssumption DEF CloseNoticed
<1>8. CASE Redialed
  BY <1>8, <1>g, <1>t, <1>d DEF Redialed, Landing
<1>. QED
  BY <1>1, <1>2, <1>3, <1>4, <1>5, <1>6, <1>7, <1>8, <1>9, SlotFrame DEF SlotAct, Race, GuardTask


LEMMA StreamsTypedStep ==
  ASSUME TypeOK, SlotsFollowGuard, StreamsCounted, Next PROVE StreamsTyped'
<1>. USE DEF TypeOK, StreamsTyped, SlotsTyped, OpenStates, Draining
<1>1. CASE UNCHANGED streams
  BY <1>1 DEF streams
<1>2. CASE Promote
  BY <1>2 DEF Promote
<1>3. ASSUME NEW k \in Streams, OpenStream(k) PROVE StreamsTyped'
  BY <1>3 DEF OpenStream
<1>4. ASSUME NEW k \in Streams, StreamOpened(k) PROVE StreamsTyped'
  <2>1. stream[k].slot \in Conns
    BY <1>4 DEF StreamOpened, StreamsCounted
  <2>. QED BY <1>4, <2>1 DEF StreamOpened
<1>5. ASSUME NEW k \in Streams, StreamRefused(k) PROVE StreamsTyped'
  BY <1>5 DEF StreamRefused
<1>6. ASSUME NEW k \in Streams, StreamDropped(k) PROVE StreamsTyped'
  <2>. DEFINE i == stream[k].slot
  <2>1. i \in Conns
    BY <1>6 DEF StreamDropped, StreamsCounted
  <2>2. outstanding[i] \in Nat /\ outstanding[i] # 0
    <3>1. IsFiniteSet(OpenOn(i))
      <4>1. IsFiniteSet(Streams)
        BY FS_Interval, FastAssumption DEF Streams
      <4>. QED BY <4>1, FS_Subset DEF OpenOn
    <3>2. k \in OpenOn(i)
      BY <1>6 DEF OpenOn, StreamDropped
    <3>3. Cardinality(OpenOn(i)) # 0
      BY <3>1, <3>2, FS_EmptySet
    <3>. QED BY <2>1, <3>3 DEF StreamsCounted
  <2>. QED BY <1>6, <2>1, <2>2 DEF StreamDropped
<1>7. ASSUME NEW i \in Conns, DrainTask(i) \/ DrainDeadline(i) PROVE StreamsTyped'
  BY <1>7 DEF DrainTask, DrainCheck, DrainArm, DrainWoken, DrainDeadline, DrainUnchanged
<1>. QED
  BY <1>1, <1>2, <1>3, <1>4, <1>5, <1>6, <1>7, StreamFrame DEF StreamAct

LEMMA RelayTypedStep ==
  ASSUME TypeOK, Next PROVE RelayTyped'
<1>. USE DEF TypeOK, RelayTyped
<1> DEFINE Entries == [holder : Conns \cup {None}, fresh : BOOLEAN]
<1>e. entry \in Entries /\ NoEntry \in Entries
  BY DEF NoEntry
<1>w. \A i : EntryWithout(i) \in Entries /\ EntryAbandoned(i) \in Entries
  BY <1>e DEF EntryWithout, EntryAbandoned
<1>1. CASE UNCHANGED relay
  BY <1>1 DEF relay
<1>2. CASE SelectDirect \/ CancelConnect \/ GuardAborted
  <2>1. entry' \in Entries
    BY <1>2, <1>e, <1>w DEF SelectDirect, CancelConnect, GuardAborted
  <2>. QED BY <1>2, <2>1 DEF SelectDirect, CancelConnect, GuardAborted
<1>3. CASE ReservationLost \/ ReservationHeld
  <2>1. entry' \in Entries
    BY <1>3, <1>e DEF ReservationLost, ReservationHeld
  <2>2. reserved' = TRUE \/ reserved' = FALSE
    BY <1>3 DEF ReservationLost, ReservationHeld
  <2>3. outages' \in Nat
    BY <1>3 DEF ReservationLost, ReservationHeld
  <2>. QED BY <2>1, <2>2, <2>3
<1>4. CASE CircuitIdle
  BY <1>4 DEF CircuitIdle
<1>5. ASSUME NEW i \in Conns, OpenRelayed(i) \/ DialFails(i) \/ DriverFrees(i)
      PROVE  RelayTyped'
  <2>1. [holder |-> i, fresh |-> TRUE] \in Entries
    OBVIOUS
  <2>2. entry' \in Entries
    <3>1. CASE OpenRelayed(i)
      <4>1. entry' = entry \/ entry' = [holder |-> i, fresh |-> TRUE]
        BY <3>1, Zenon DEF OpenRelayed
      <4>. QED BY <4>1, <2>1, <1>e
    <3>2. CASE DialFails(i) \/ DriverFrees(i)
      BY <3>2, <1>w DEF DialFails, DriverFrees
    <3>. QED BY <1>5, <3>1, <3>2
  <2>. QED BY <1>5, <2>2 DEF OpenRelayed, DialFails, DriverFrees
<1>. QED BY <1>1, <1>2, <1>3, <1>4, <1>5, RelayFrame DEF RelayAct

LEMMA CallerFrame == ASSUME TypeOK, Next
  PROVE /\ wired' = wired
        /\ caller' \in Racing \cup {"idle", "held", "failed", "dropped"}
        /\ caller' = caller \/ Race \/ CancelConnect \/ DropConnection
BY DEF TypeOK, Next, Race, GuardTask, Application, Environment, DialEnds, Racing,
  Driver, ConnectFast, SelectRelayed, SelectDirect, AwaitDirect, AwaitRelayed, Build,
  GuardDirect, ProbeAnswers, ProbeFails, Promote, HeldStably, CloseNoticed, BackoffOver,
  Redialed, GuardAborted, CancelConnect, DropConnection,
  OpenStream, StreamOpened, StreamRefused, StreamDropped,
  DrainTask, DrainCheck, DrainArm, DrainWoken, DrainDeadline, DrainUnchanged,
  OpenRelayed, DialLands, DialFails, ReservationLost, ReservationHeld, CircuitIdle,
  DriverEnds, DriverFrees, TransportDies, CircuitEof

LEMMA TypeStep ==
  ASSUME TypeOK, SlotsFollowGuard, StreamsCounted, Next PROVE TypeOK'
<1>1. wired' \in BOOLEAN /\ caller' \in Racing \cup {"idle", "held", "failed", "dropped"}
  BY CallerFrame DEF TypeOK
<1>. QED
  BY <1>1, DialsTypedStep, SlotsTypedStep, StreamsTypedStep, RelayTypedStep DEF TypeOK

(* What the updates do at each dial. *)
LEMMA StartedAt ==
  ASSUME NEW c \in [Conns -> Connections], NEW j \in Conns, NEW t \in Tiers
  PROVE  /\ \A i \in Conns \ {j} : Started(c, j, t)[i] = c[i]
         /\ Started(c, j, t)[j].tier = t
         /\ Started(c, j, t)[j].st = IF t = "relayed" THEN "opening" ELSE "dialing"
BY DEF Started, Connections

LEMMA AbandonedAt ==
  ASSUME NEW c \in [Conns -> Connections], NEW j \in Conns \cup {None}, NEW i \in Conns
  PROVE  \/ Abandoned(c, j)[i] = c[i]
         \/ /\ i = j /\ Pending(j)
            /\ Abandoned(c, j)[i] = [c[i] EXCEPT !.st = "failed"]
<1>1. CASE Pending(j)
  <2>1. j \in Conns
    BY <1>1 DEF Pending
  <2>2. Abandoned(c, j) = [c EXCEPT ![j].st = "failed"]
    BY <1>1 DEF Abandoned
  <2>. QED BY <1>1, <2>1, <2>2
<1>2. CASE ~Pending(j)
  BY <1>2 DEF Abandoned
<1>. QED BY <1>1, <1>2

LEMMA AbandonedKeeps ==
  ASSUME NEW c \in [Conns -> Connections], NEW j \in Conns \cup {None}, NEW i \in Conns,
         i # j \/ ~Pending(j)
  PROVE  Abandoned(c, j)[i] = c[i]
BY AbandonedAt

(* How a dial or connection may move in one step. *)
Begun(i) ==
  /\ conn[i].st = "unused" /\ i >= nextConn /\ i < nextConn'
  /\ conn'[i].st \in {"opening", "dialing"}
  /\ conn'[i].st = "opening" => conn'[i].tier = "relayed"
Dialed(i) ==
  /\ conn[i].st \in {"opening", "dialing"}
  /\ conn'[i].tier = conn[i].tier
  /\ conn'[i].st \in {"dialing", "failed", "live"}
Lived(i) ==
  /\ conn[i].st \in {"live", "closed"} /\ conn'[i].st \in Landed
  /\ conn'[i].tier = conn[i].tier /\ conn'[i].bls = conn[i].bls
  /\ conn'[i].answers = conn[i].answers
  /\ conn[i].died => conn'[i].died
  /\ conn[i].st = "closed" => conn'[i].st # "live" /\ conn'[i].died = conn[i].died
  /\ conn[i].st = "live" => conn'[i].st = "live" \/ DriverEnds(i)
Moves(i) == conn'[i] = conn[i] \/ Begun(i) \/ Dialed(i) \/ Lived(i)

LEMMA ConnMoves ==
  ASSUME TypeOK, DialsInOrder, SlotsFollowGuard, Next
  PROVE  /\ nextConn' >= nextConn
         /\ \A i \in Conns : Moves(i)
<1>. USE DEF TypeOK, DialsTyped
<1>n. 1 \in Conns /\ 2 \in Conns /\ \A i \in Conns : i \in Nat /\ i >= 1
  BY FastAssumption DEF Conns
<1>t. "direct" \in Tiers /\ "relayed" \in Tiers
  BY DEF Tiers
<1>u. Unused.st = "unused"
  BY DEF Unused
<1>c. \A i \in Conns : conn[i] \in Connections
  OBVIOUS
<1>1. CASE UNCHANGED <<conn, nextConn>>
  BY <1>1 DEF Moves
<1>2. CASE ConnectFast
  <2>1. nextConn = 1 /\ \A i \in Conns : conn[i] = Unused
    BY <1>2, <1>n DEF ConnectFast, SlotsFollowGuard, DialsInOrder
  <2>2. CASE wired
    <3>1. Started(conn, 1, "direct") \in [Conns -> Connections]
      BY <1>n, <1>t, StartedTyped
    <3>2. /\ nextConn' = 3
          /\ \A i \in Conns \ {1, 2} : conn'[i] = conn[i]
          /\ conn'[1].st = "dialing"
          /\ conn'[2].st = "opening" /\ conn'[2].tier = "relayed"
      BY <1>2, <2>2, <3>1, <1>n, <1>t, StartedAt DEF ConnectFast
    <3>3. Begun(1) /\ Begun(2)
      BY <2>1, <3>2, <1>u, <1>n DEF Begun
    <3>. QED BY <2>1, <3>2, <3>3 DEF Moves
  <2>3. CASE ~wired
    <3>1. /\ nextConn' = 2
          /\ \A i \in Conns \ {1} : conn'[i] = conn[i]
          /\ conn'[1].st = "dialing"
      BY <1>2, <2>3, <1>n, <1>t, StartedAt DEF ConnectFast
    <3>2. Begun(1)
      BY <2>1, <3>1, <1>u, <1>n DEF Begun
    <3>. QED BY <2>1, <3>1, <3>2 DEF Moves
  <2>. QED BY <2>2, <2>3
<1>3. ASSUME nextConn \in Conns, nextConn' = nextConn + 1,
             NEW t \in Tiers, conn' = Started(conn, nextConn, t)
      PROVE  nextConn' >= nextConn /\ \A i \in Conns : Moves(i)
  <2>1. conn[nextConn].st = "unused"
    BY <1>3, <1>u, <1>n DEF DialsInOrder
  <2>2. /\ \A i \in Conns \ {nextConn} : conn'[i] = conn[i]
        /\ conn'[nextConn].st \in {"opening", "dialing"}
        /\ conn'[nextConn].st = "opening" => conn'[nextConn].tier = "relayed"
    BY <1>3, StartedAt
  <2>3. Begun(nextConn)
    BY <1>3, <2>1, <2>2, <1>n DEF Begun
  <2>. QED BY <1>3, <2>2, <2>3, <1>n DEF Moves
<1>4. CASE SelectDirect \/ CancelConnect \/ GuardAborted
  <2> DEFINE d == dial["direct"]
             r == dial["relayed"]
  <2>1. d \in Conns \cup {None} /\ r \in Conns \cup {None}
    BY <1>t
  <2>2. Abandoned(conn, d) \in [Conns -> Connections]
    BY <2>1, AbandonedTyped
  <2>3. /\ nextConn' = nextConn
        /\ \/ conn' = conn \/ conn' = Abandoned(conn, r)
           \/ conn' = Abandoned(Abandoned(conn, d), r)
    BY <1>4 DEF SelectDirect, CancelConnect, GuardAborted
  <2>4. ASSUME NEW i \in Conns PROVE Moves(i)
    <3>1. \/ conn'[i] = conn[i]
          \/ /\ conn[i].st \in {"opening", "dialing"}
             /\ conn'[i].tier = conn[i].tier /\ conn'[i].st = "failed"
      <4>1. \/ Abandoned(conn, d)[i] = conn[i]
            \/ /\ conn[i].st \in {"opening", "dialing"}
               /\ Abandoned(conn, d)[i] = [conn[i] EXCEPT !.st = "failed"]
        BY <2>1, AbandonedAt DEF Pending
      <4>2. \/ Abandoned(conn, r)[i] = conn[i]
            \/ /\ conn[i].st \in {"opening", "dialing"}
               /\ Abandoned(conn, r)[i] = [conn[i] EXCEPT !.st = "failed"]
        BY <2>1, AbandonedAt DEF Pending
      <4>3. \/ Abandoned(Abandoned(conn, d), r)[i] = Abandoned(conn, d)[i]
            \/ /\ conn[i].st \in {"opening", "dialing"}
               /\ Abandoned(Abandoned(conn, d), r)[i]
                    = [Abandoned(conn, d)[i] EXCEPT !.st = "failed"]
        BY <2>1, <2>2, AbandonedAt DEF Pending
      <4>. QED BY <2>3, <4>1, <4>2, <4>3, <1>c DEF Connections
    <3>. QED BY <3>1 DEF Moves, Dialed
  <2>. QED BY <2>3, <2>4
<1>5. ASSUME NEW j \in Conns,
             OpenRelayed(j) \/ DialEnds(j) \/ CircuitEof(j) \/ Driver(j) \/ TransportDies(j)
      PROVE  nextConn' >= nextConn /\ \A i \in Conns : Moves(i)
  <2>1. CASE OpenRelayed(j)
    BY <2>1, <1>c DEF OpenRelayed, Moves, Dialed, Connections
  <2>2. CASE DialFails(j)
    BY <2>2, <1>c DEF DialFails, Moves, Dialed, Connections
  <2>3. ASSUME NEW b \in BlsKeys, NEW a \in BOOLEAN, DialLands(j, b, a)
        PROVE  nextConn' >= nextConn /\ \A i \in Conns : Moves(i)
    BY <2>3, <1>c DEF DialLands, Moves, Dialed, Connections
  <2>4. CASE CircuitEof(j)
    BY <2>4, <1>c DEF CircuitEof, Moves, Dialed, Lived, Landed, Connections
  <2>5. CASE Driver(j)
    <3>1. nextConn' = nextConn /\ \A i \in Conns \ {j} : conn'[i] = conn[i]
      BY <2>5 DEF Driver, DriverEnds, DriverFrees
    <3>2. CASE DriverEnds(j)
      <4>1. conn[j].st = "live" /\ conn'[j] = [conn[j] EXCEPT !.st = "closed"]
        BY <3>2 DEF DriverEnds
      <4>2. Lived(j)
        BY <3>2, <4>1, <1>c DEF Lived, Landed, Connections
      <4>. QED BY <3>1, <4>2 DEF Moves
    <3>3. CASE DriverFrees(j)
      <4>1. conn[j].st = "closed" /\ conn'[j] = [conn[j] EXCEPT !.st = "freed"]
        BY <3>3 DEF DriverFrees
      <4>2. Lived(j)
        BY <4>1, <1>c DEF Lived, Landed, Connections
      <4>. QED BY <3>1, <4>2 DEF Moves
    <3>. QED BY <2>5, <3>2, <3>3 DEF Driver
  <2>6. CASE TransportDies(j)
    <3>1. conn[j].st = "live" /\ conn'[j] = [conn[j] EXCEPT !.died = TRUE]
      BY <2>6 DEF TransportDies
    <3>2. Lived(j)
      BY <3>1, <1>c DEF Lived, Landed, Connections
    <3>. QED BY <2>6, <3>2 DEF TransportDies, Moves
  <2>. QED BY <1>5, <2>1, <2>2, <2>3, <2>4, <2>5, <2>6 DEF DialEnds
<1>6. CASE AwaitRelayed
  BY <1>1, <1>3, <1>6, <1>t DEF AwaitRelayed
<1>7. CASE BackoffOver
  BY <1>3, <1>7, <1>t DEF BackoffOver
<1>8. CASE SelectRelayed \/ AwaitDirect \/ GuardDirect \/ Redialed
  BY <1>1, <1>8 DEF SelectRelayed, AwaitDirect, GuardDirect, Redialed
<1>. QED
  BY <1>1, <1>2, <1>4, <1>5, <1>6, <1>7, <1>8, DialFrame DEF DialAct, Race, dials

LEMMA DialsInOrderStep ==
  ASSUME TypeOK, DialsInOrder, SlotsFollowGuard, Next PROVE DialsInOrder'
<1>. USE DEF TypeOK, DialsTyped
<1>n. 1 \in Conns /\ 2 \in Conns /\ \A i \in Conns : i \in Nat /\ i >= 1
  BY FastAssumption DEF Conns
<1>t. "direct" \in Tiers /\ "relayed" \in Tiers
  BY DEF Tiers
<1>u. Unused.st = "unused"
  BY DEF Unused
<1>m. nextConn' >= nextConn /\ nextConn' \in Nat /\ \A i \in Conns : Moves(i)
  BY ConnMoves, DialsTypedStep
<1>1. \A i \in Conns : i >= nextConn' => conn'[i] = Unused
  BY <1>m, <1>n, <1>u DEF DialsInOrder, Moves, Begun, Dialed, Lived
<1>2. \A i \in Conns : conn'[i].st = "opening" => conn'[i].tier = "relayed"
  BY <1>m DEF DialsInOrder, Moves, Begun, Dialed, Lived, Landed
<1>3. ASSUME NEW t \in Tiers, dial'[t] # None
      PROVE  dial'[t] < nextConn' /\ conn'[dial'[t]].tier = t
  <2> DEFINE i == dial[t]
  <2>1. CASE dial'[t] = i
    <3>1. i \in Conns /\ i < nextConn /\ conn[i].tier = t
      BY <1>3, <2>1 DEF DialsInOrder
    <3>. QED BY <2>1, <3>1, <1>m, <1>n DEF Moves, Begun, Dialed, Lived
  <2>2. CASE ConnectFast
    <3>1. Started(conn, 1, "direct") \in [Conns -> Connections]
      BY <1>n, <1>t, StartedTyped
    <3>2. CASE wired
      <4>1. /\ dial' = [direct |-> 1, relayed |-> 2] /\ nextConn' = 3
            /\ conn' = Started(Started(conn, 1, "direct"), 2, "relayed")
        BY <2>2, <3>2 DEF ConnectFast
      <4>2. conn'[1].tier = "direct" /\ conn'[2].tier = "relayed"
        BY <3>1, <4>1, <1>n, <1>t, StartedAt
      <4>. QED BY <4>1, <4>2 DEF Tiers
    <3>3. CASE ~wired
      <4>1. /\ dial' = [direct |-> 1, relayed |-> None] /\ nextConn' = 2
            /\ conn' = Started(conn, 1, "direct")
        BY <2>2, <3>3 DEF ConnectFast
      <4>2. conn'[1].tier = "direct"
        BY <4>1, <1>n, <1>t, StartedAt
      <4>. QED BY <1>3, <4>1, <4>2 DEF Tiers
    <3>. QED BY <3>2, <3>3
  <2>3. CASE AwaitRelayed
    BY <1>3, <2>3, <1>n, <1>t, StartedAt DEF AwaitRelayed, Tiers
  <2>4. CASE BackoffOver
    <3>1. /\ nextConn \in Conns /\ nextConn' = nextConn + 1
          /\ conn' = Started(conn, nextConn, "relayed")
          /\ dial' = [dial EXCEPT !["relayed"] = nextConn]
      BY <2>4 DEF BackoffOver
    <3>2. CASE t = "relayed"
      BY <3>1, <3>2, <1>n, <1>t, StartedAt
    <3>3. CASE t # "relayed"
      BY <2>1, <3>1, <3>3
    <3>. QED BY <3>2, <3>3
  <2>5. CASE SelectRelayed \/ SelectDirect \/ AwaitDirect \/ GuardDirect \/ Redialed
             \/ GuardAborted \/ CancelConnect
    <3>1. dial'[t] = i
      BY <1>3, <2>5
      DEF SelectRelayed, SelectDirect, AwaitDirect, GuardDirect, Redialed, GuardAborted,
          CancelConnect
    <3>. QED BY <2>1, <3>1
  <2>6. ASSUME NEW j \in Conns,
               OpenRelayed(j) \/ DialEnds(j) \/ CircuitEof(j) \/ Driver(j)
                 \/ TransportDies(j)
        PROVE  dial' = dial
    BY <2>6
    DEF OpenRelayed, DialEnds, DialLands, DialFails, CircuitEof, Driver, DriverEnds,
        DriverFrees, TransportDies
  <2>7. UNCHANGED dials => dial' = dial
    BY DEF dials
  <2>. QED
    BY <2>1, <2>2, <2>3, <2>4, <2>5, <2>6, <2>7, DialFrame DEF DialAct, Race
<1>. QED BY <1>1, <1>2, <1>3 DEF DialsInOrder

LEMMA EntryStep ==
  ASSUME TypeOK, EntryHasHolder, DialsInOrder, SlotsFollowGuard, Next
  PROVE  EntryHasHolder'
<1>. USE DEF TypeOK, DialsTyped, RelayTyped
<1>t. /\ "direct" \in Tiers /\ "relayed" \in Tiers /\ "direct" # "relayed"
      /\ dial["direct"] \in Conns \cup {None} /\ dial["relayed"] \in Conns \cup {None}
  BY DEF Tiers
<1>c. \A i \in Conns : conn[i] \in Connections
  OBVIOUS
<1>m. \A i \in Conns : Moves(i)
  BY ConnMoves
<1> DEFINE h == entry'.holder
           Works(i) == conn[i].st \in {"dialing", "live", "closed"}
           Works2(i) == conn'[i].st \in {"dialing", "live", "closed"}
<1>. SUFFICES ASSUME h # None
     PROVE  conn'[h].tier = "relayed" /\ Works2(h)
  BY DEF EntryHasHolder
<1>h. h \in Conns
  BY RelayTypedStep
<1>k. ASSUME h = entry.holder, conn'[h].st \notin {"failed", "freed"}
      PROVE  conn'[h].tier = "relayed" /\ Works2(h)
  <2>1. conn[h].tier = "relayed" /\ Works(h)
    BY <1>k DEF EntryHasHolder
  <2>. QED BY <2>1, <1>k, <1>h, <1>m DEF Moves, Begun, Dialed, Lived, Landed
<1>1. CASE h = entry.holder /\ conn'[h] = conn[h]
  BY <1>1 DEF EntryHasHolder
<1>2. ASSUME NEW i \in Conns, OpenRelayed(i)
      PROVE  conn'[h].tier = "relayed" /\ Works2(h)
  <2>1. conn[i].tier = "relayed" /\ conn[i].st = "opening"
    BY <1>2 DEF OpenRelayed, DialsInOrder
  <2>2. CASE entry' = entry
    <3>1. h # i
      BY <2>1, <2>2 DEF EntryHasHolder
    <3>. QED BY <1>1, <1>2, <2>2, <3>1, <1>h DEF OpenRelayed
  <2>3. CASE entry' = [holder |-> i, fresh |-> TRUE]
             /\ conn' = [conn EXCEPT ![i].st = "dialing"]
    BY <2>1, <2>3, <1>c DEF Connections
  <2>. QED BY <1>2, <2>2, <2>3, Zenon DEF OpenRelayed
<1>3. ASSUME NEW i \in Conns, DialFails(i) \/ DriverFrees(i)
      PROVE  conn'[h].tier = "relayed" /\ Works2(h)
  <2>1. h = entry.holder /\ h # i
    BY <1>3 DEF DialFails, DriverFrees, EntryWithout, NoEntry
  <2>. QED BY <1>1, <1>3, <1>h, <2>1 DEF DialFails, DriverFrees
<1>4. ASSUME NEW i \in Conns, CircuitEof(i)
      PROVE  conn'[h].tier = "relayed" /\ Works2(h)
  BY <1>1, <1>4, <1>h DEF CircuitEof, relay
<1>5. CASE SelectDirect \/ CancelConnect \/ GuardAborted
  <2> DEFINE d == dial["direct"]
             r == dial["relayed"]
  <2>1. h = entry.holder /\ conn[h].tier = "relayed"
    BY <1>5
    DEF SelectDirect, CancelConnect, GuardAborted, EntryAbandoned, EntryWithout, NoEntry,
        EntryHasHolder
  <2>2. d # h
    BY <2>1, <1>t DEF DialsInOrder
  <2>3. entry' = entry \/ ~Pending(r) \/ r # h
    BY <1>5
    DEF SelectDirect, CancelConnect, GuardAborted, EntryAbandoned, EntryWithout, NoEntry
  <2>4. Abandoned(conn, d) \in [Conns -> Connections]
    BY <1>t, AbandonedTyped
  <2>5. Abandoned(conn, d)[h] = conn[h]
    BY <2>2, <1>t, <1>h, AbandonedKeeps
  <2>6. CASE Pending(r) /\ r = h /\ entry' = EntryAbandoned(r)
    BY <2>1, <2>6 DEF EntryAbandoned, EntryWithout, NoEntry
  <2>7. CASE ~(Pending(r) /\ r = h)
    <3>1. Abandoned(conn, r)[h] = conn[h]
          /\ Abandoned(Abandoned(conn, d), r)[h] = Abandoned(conn, d)[h]
      BY <2>4, <2>7, <1>t, <1>h, AbandonedKeeps
    <3>2. conn'[h] = conn[h]
      BY <1>5, <2>5, <3>1 DEF SelectDirect, CancelConnect, GuardAborted
    <3>. QED BY <1>1, <2>1, <3>2
  <2>8. CASE conn' = conn
    BY <1>1, <2>1, <2>8
  <2>. QED BY <1>5, <2>6, <2>7, <2>8 DEF SelectDirect, CancelConnect, GuardAborted
<1>6. CASE ReservationLost \/ ReservationHeld \/ CircuitIdle
  BY <1>1, <1>6 DEF ReservationLost, ReservationHeld, CircuitIdle, NoEntry, dials
<1>others.
  SUFFICES ASSUME /\ ~SelectDirect /\ ~CancelConnect /\ ~GuardAborted
                  /\ ~ReservationLost /\ ~ReservationHeld /\ ~CircuitIdle
                  /\ \A i \in Conns : /\ ~OpenRelayed(i) /\ ~DialFails(i)
                                       /\ ~DriverFrees(i) /\ ~CircuitEof(i)
           PROVE  conn'[h].tier = "relayed" /\ Works2(h)
  BY <1>2, <1>3, <1>4, <1>5, <1>6
<1>7. CASE UNCHANGED relay
  <2>1. h = entry.holder /\ conn[h].tier = "relayed" /\ Works(h)
    BY <1>7 DEF relay, EntryHasHolder
  <2>2. conn'[h].st \notin {"failed", "freed"}
    <3>1. CASE conn'[h] = conn[h]
      BY <2>1, <3>1
    <3>2. ASSUME NEW j \in Conns, NEW t \in Tiers, conn' = Started(conn, j, t)
          PROVE  conn'[h].st \notin {"failed", "freed"}
      <4>1. \/ conn'[h] = conn[h]
            \/ conn'[h].st = IF t = "relayed" THEN "opening" ELSE "dialing"
        BY <3>2, <1>h, StartedAt
      <4>. QED BY <3>1, <4>1
    <3>3. CASE ConnectFast
      <4>1. nextConn = 1 /\ conn[h] = Unused
        BY <3>3, <1>h, FastAssumption
        DEF ConnectFast, SlotsFollowGuard, DialsInOrder, Conns
      <4>. QED BY <2>1, <4>1 DEF Unused
    <3>4. CASE AwaitRelayed
      BY <3>1, <3>2, <3>4, <1>t DEF AwaitRelayed
    <3>5. CASE BackoffOver
      BY <3>2, <3>5, <1>t DEF BackoffOver
    <3>6. ASSUME NEW j \in Conns, NEW b \in BlsKeys, NEW a \in BOOLEAN, DialLands(j, b, a)
          PROVE  conn'[h].st \notin {"failed", "freed"}
      BY <3>1, <3>6, <1>c, <1>h DEF DialLands, Connections
    <3>7. ASSUME NEW j \in Conns, DriverEnds(j) \/ TransportDies(j)
          PROVE  conn'[h].st \notin {"failed", "freed"}
      BY <2>1, <3>1, <3>7, <1>c, <1>h DEF DriverEnds, TransportDies, Connections
    <3>8. CASE SelectRelayed \/ AwaitDirect \/ GuardDirect \/ Redialed \/ UNCHANGED dials
      BY <3>1, <3>8 DEF SelectRelayed, AwaitDirect, GuardDirect, Redialed, dials
    <3>9. \/ ConnectFast \/ AwaitRelayed \/ BackoffOver
          \/ SelectRelayed \/ AwaitDirect \/ GuardDirect \/ Redialed \/ UNCHANGED dials
          \/ \E j \in Conns : \/ \E b \in BlsKeys, a \in BOOLEAN : DialLands(j, b, a)
                              \/ DriverEnds(j) \/ TransportDies(j)
      BY <1>others, DialFrame DEF DialAct, Race, DialEnds, Driver
    <3>. QED BY <3>3, <3>4, <3>5, <3>6, <3>7, <3>8, <3>9
  <2>. QED BY <1>k, <2>1, <2>2
<1>. QED BY <1>others, <1>7, RelayFrame DEF RelayAct

(* What a gate found out about a connection stays true of it. *)
LEMMA LandedStays ==
  ASSUME TypeOK, DialsInOrder, SlotsFollowGuard, Next,
         NEW i \in Conns, conn[i].st \in Landed
  PROVE  /\ conn'[i].st \in Landed /\ conn'[i].tier = conn[i].tier
         /\ conn'[i].bls = conn[i].bls /\ conn'[i].answers = conn[i].answers
BY ConnMoves DEF Moves, Begun, Dialed, Lived, Landed

LEMMA SlotsFollowGuardStep ==
  ASSUME TypeOK, DialsInOrder, SlotsFollowGuard, Next PROVE SlotsFollowGuard'
<1>. USE DEF TypeOK, DialsTyped, SlotsTyped
<1>t. /\ dial["direct"] \in Conns \cup {None} /\ dial["relayed"] \in Conns \cup {None}
      /\ \A i \in Conns : conn[i].tier \in Tiers
  BY DEF Tiers, Connections
<1>l. \A i \in Conns : conn[i].st \in Landed =>
        /\ conn'[i].st \in Landed /\ conn'[i].tier = conn[i].tier
        /\ conn'[i].bls = conn[i].bls /\ conn'[i].answers = conn[i].answers
  BY LandedStays
<1>i. caller' = "idle" => caller = "idle" /\ nextConn' = 1
  BY CallerFrame, DialFrame
  DEF Race, ConnectFast, SelectRelayed, SelectDirect, AwaitDirect, AwaitRelayed, Build,
      CancelConnect, DropConnection, SlotsFollowGuard, DialAct, dials, GuardDirect,
      BackoffOver, Redialed, GuardAborted, OpenRelayed, DialEnds, DialLands, DialFails,
      CircuitEof, Driver, DriverEnds, DriverFrees, TransportDies, Racing
<1>1. CASE UNCHANGED <<slots, caller>>
  BY <1>1, <1>i, <1>l DEF SlotsFollowGuard, slots, InUse
<1>2. ASSUME NEW i \in Conns, Build(i), conn[i].st \in Landed PROVE SlotsFollowGuard'
  <2>1. conn'[i].st \in Landed /\ conn'[i].tier = conn[i].tier
    BY <1>2, <1>l
  <2>2. active' = i /\ caller' = "held" /\ i # None
    BY <1>2, <1>t, FastAssumption DEF Build, Conns, None
  <2>3. /\ guard'.pc \in {"promote", "watch", "end"}
        /\ guard'.pc = "promote" => conn[i].tier = "relayed"
    BY <1>2 DEF Build, Guard
  <2>. QED BY <2>1, <2>2, <2>3, <1>i DEF SlotsFollowGuard, InUse, Racing
<1>3. ASSUME guard' = guard, active' = active,
             caller \in Racing, caller' \in Racing \cup {"failed"}
      PROVE  SlotsFollowGuard'
  BY <1>3, <1>i DEF SlotsFollowGuard, InUse, Racing
<1>4. CASE ConnectFast
  BY <1>4, <1>i DEF ConnectFast, slots, SlotsFollowGuard, InUse, Racing
<1>5. CASE SelectRelayed \/ SelectDirect \/ AwaitDirect \/ AwaitRelayed
  BY <1>5, <1>2, <1>3, <1>t
  DEF SelectRelayed, SelectDirect, AwaitDirect, AwaitRelayed, Landing, Racing
<1>6. CASE DropConnection
  BY <1>6, <1>i, <1>l DEF DropConnection, slots, SlotsFollowGuard, InUse, Racing
<1>7. CASE CancelConnect
  BY <1>7, <1>i DEF CancelConnect, SlotsFollowGuard, InUse, Racing, Guard
<1>8. CASE GuardAborted
  BY <1>8, <1>i, <1>l DEF GuardAborted, SlotsFollowGuard, InUse, Racing, Guard
<1>9. CASE GuardDirect
  <2>1. guard.pc = "promote" /\ active # None /\ active' = active /\ caller' = caller
    BY <1>9 DEF GuardDirect, SlotsFollowGuard, InUse
  <2>2. /\ conn[active].st \in Landed /\ conn[active].tier = "relayed"
        /\ caller \notin Racing \cup {"idle"} /\ active \in Conns
    BY <2>1 DEF SlotsFollowGuard
  <2>3. CASE guard' = Guard("watch", None)
    BY <2>1, <2>2, <2>3, <1>i, <1>l DEF SlotsFollowGuard, InUse, Guard
  <2>4. CASE /\ Landing(dial["direct"]) /\ SameIdentity(dial["direct"])
             /\ guard' = Guard("probe", dial["direct"])
    BY <2>1, <2>2, <2>4, <1>t, <1>i, <1>l
    DEF SlotsFollowGuard, InUse, Guard, Landing, SameIdentity
  <2>. QED BY <1>9, <2>3, <2>4 DEF GuardDirect
<1>10. CASE ProbeAnswers
  <2>1. /\ guard.pc = "probe" /\ guard'.pc = "swap" /\ guard'.hand = guard.hand
        /\ active' = active /\ caller' = caller /\ conn[guard.hand].answers
    BY <1>10 DEF ProbeAnswers
  <2>. QED BY <2>1, <1>i, <1>l DEF SlotsFollowGuard, InUse, Racing
<1>11. CASE HeldStably
  <2>1. /\ guard'.pc = guard.pc /\ guard'.hand = guard.hand
        /\ active' = active /\ caller' = caller
    BY <1>11 DEF HeldStably
  <2>. QED BY <2>1, <1>i, <1>l DEF SlotsFollowGuard, InUse, Racing
<1>12. CASE ProbeFails \/ CloseNoticed \/ BackoffOver
  <2>1. /\ guard.pc \in {"probe", "watch", "backoff"}
        /\ guard'.pc \in {"watch", "backoff", "redial"}
        /\ active' = active /\ caller' = caller
    BY <1>12 DEF ProbeFails, CloseNoticed, BackoffOver, Guard
  <2>. QED BY <2>1, <1>i, <1>l DEF SlotsFollowGuard, InUse
<1>13. CASE Promote
  <2>1. /\ guard.pc = "swap" /\ guard'.pc = "watch"
        /\ active' = guard.hand /\ caller' = caller
    BY <1>13 DEF Promote, Guard
  <2>. QED BY <2>1, <1>i, <1>l DEF SlotsFollowGuard, InUse
<1>14. CASE Redialed
  <2> DEFINE r == dial["relayed"]
  <2>1. guard.pc = "redial" /\ caller' = caller
    BY <1>14 DEF Redialed
  <2>2. CASE Landing(r) /\ active' = r /\ guard' = Guard("watch", None)
    BY <2>1, <2>2, <1>t, <1>i, <1>l DEF SlotsFollowGuard, InUse, Guard, Landing
  <2>3. CASE active' = active /\ guard' = Guard("end", None)
    BY <2>1, <2>3, <1>i, <1>l DEF SlotsFollowGuard, InUse, Guard
  <2>. QED BY <1>14, <2>2, <2>3 DEF Redialed
<1>. QED
  BY <1>1, <1>4, <1>5, <1>6, <1>7, <1>8, <1>9, <1>10, <1>11, <1>12, <1>13, <1>14,
     SlotFrame, CallerFrame
  DEF SlotAct, Race, GuardTask

(* A driver that ends of itself had no holder, and a step adds as holders   *)
(* of a connection only what held it already or has just started it.        *)
LEMMA ReleaseStep ==
  ASSUME TypeOK, DialsInOrder, SlotsFollowGuard, Next,
         NEW i \in Conns, Released(i)'
  PROVE  Released(i) \/ (conn[i].st = "live" /\ ~Held(i))
<1>1. Moves(i) /\ conn[i] \in Connections
  BY ConnMoves DEF TypeOK, DialsTyped
<1>. QED
  BY <1>1 DEF Moves, Begun, Dialed, Lived, Released, Landed, Connections, DriverEnds

LEMMA HoldStep ==
  ASSUME TypeOK, DialsInOrder, SlotsFollowGuard, Next,
         NEW i \in Conns, Held(i)'
  PROVE  Held(i) \/ i >= nextConn
<1>. USE DEF TypeOK, DialsTyped, SlotsTyped
<1>t. "direct" \in Tiers /\ "relayed" \in Tiers /\ i # None
  BY FastAssumption DEF Tiers, Conns, None
<1>n. i \in Nat /\ i >= 1
  BY FastAssumption DEF Conns
<1>1. ASSUME NEW t \in Tiers, dial'[t] = i PROVE Held(i) \/ i >= nextConn
  <2>1. CASE dial'[t] = dial[t]
    BY <1>1, <2>1 DEF Held
  <2>2. CASE ConnectFast
    BY <2>2, <1>n DEF ConnectFast, SlotsFollowGuard
  <2>3. CASE AwaitRelayed \/ BackoffOver
    BY <1>1, <1>t, <2>1, <2>3 DEF AwaitRelayed, BackoffOver, Tiers
  <2>4. CASE SelectRelayed \/ SelectDirect \/ AwaitDirect \/ GuardDirect \/ Redialed
             \/ GuardAborted \/ CancelConnect
    BY <1>1, <1>t, <2>1, <2>4
    DEF SelectRelayed, SelectDirect, AwaitDirect, GuardDirect, Redialed, GuardAborted,
        CancelConnect
  <2>5. ASSUME NEW j \in Conns,
               OpenRelayed(j) \/ DialEnds(j) \/ CircuitEof(j) \/ Driver(j)
                 \/ TransportDies(j)
        PROVE  dial' = dial
    BY <2>5
    DEF OpenRelayed, DialEnds, DialLands, DialFails, CircuitEof, Driver, DriverEnds,
        DriverFrees, TransportDies
  <2>6. UNCHANGED dials => dial' = dial
    BY DEF dials
  <2>. QED BY <2>1, <2>2, <2>3, <2>4, <2>5, <2>6, DialFrame DEF DialAct, Race
<1>2. ASSUME guard'.hand = i PROVE Held(i)
  <2>1. guard'.hand \in {None, guard.hand, dial["direct"]}
    BY SlotFrame
    DEF SlotAct, slots, Race, GuardTask, ConnectFast, SelectRelayed, SelectDirect,
        AwaitDirect, AwaitRelayed, Build, GuardDirect, ProbeAnswers, ProbeFails, Promote,
        HeldStably, CloseNoticed, BackoffOver, Redialed, GuardAborted, CancelConnect, Guard
  <2>. QED BY <1>2, <2>1, <1>t DEF Held
<1>3. ASSUME active' = i, InUse' PROVE Held(i)
  <2>1. CASE active' = active /\ InUse
    BY <1>3, <2>1 DEF Held
  <2>2. CASE UNCHANGED slots
    <3>1. caller' = "held" => caller = "held" \/ Race
      BY CallerFrame DEF CancelConnect, DropConnection
    <3>2. CASE Race
      BY <1>3, <2>1, <2>2, <3>2, <1>t
      DEF Race, ConnectFast, SelectRelayed, SelectDirect, AwaitDirect, AwaitRelayed, Build,
          slots, InUse, SlotsFollowGuard, Held, Racing, Landing, Failed
    <3>. QED BY <1>3, <2>1, <2>2, <3>1, <3>2 DEF slots, InUse
  <2>3. CASE ConnectFast
    BY <1>3, <2>1, <2>3 DEF ConnectFast, slots, InUse
  <2>4. ASSUME NEW j, Build(j), j = dial["direct"] \/ j = dial["relayed"] PROVE Held(i)
    BY <1>3, <2>4, <1>t DEF Build, Held
  <2>5. CASE SelectRelayed \/ SelectDirect \/ AwaitDirect \/ AwaitRelayed
    BY <1>3, <2>1, <2>4, <2>5
    DEF SelectRelayed, SelectDirect, AwaitDirect, AwaitRelayed, InUse
  <2>6. CASE Promote
    BY <1>3, <2>6 DEF Promote, Held
  <2>7. CASE Redialed
    BY <1>3, <2>1, <2>7, <1>t DEF Redialed, Held, InUse
  <2>8. CASE GuardDirect \/ ProbeAnswers \/ ProbeFails \/ HeldStably \/ CloseNoticed
             \/ BackoffOver
    BY <1>3, <2>1, <2>8
    DEF GuardDirect, ProbeAnswers, ProbeFails, HeldStably, CloseNoticed, BackoffOver, InUse
  <2>9. CASE GuardAborted \/ CancelConnect
    BY <1>3, <2>1, <2>9 DEF GuardAborted, CancelConnect, InUse, Guard
  <2>. QED
    BY <2>2, <2>3, <2>5, <2>6, <2>7, <2>8, <2>9, SlotFrame DEF SlotAct, Race, GuardTask
<1>4. ASSUME drain'[i] \in Draining PROVE Held(i)
  <2>1. CASE drain[i] \in Draining
    BY <2>1 DEF Held
  <2>2. CASE Promote
    <3>1. CASE i = active
      BY <2>2, <3>1 DEF Promote, Held, InUse
    <3>2. CASE i # active
      BY <1>4, <2>1, <2>2, <3>2 DEF Promote, StreamsTyped
    <3>. QED BY <3>1, <3>2
  <2>3. ASSUME NEW j \in Conns, DrainTask(j) \/ DrainDeadline(j) PROVE Held(i)
    BY <1>4, <2>1, <2>3
    DEF DrainTask, DrainCheck, DrainArm, DrainWoken, DrainDeadline, Draining, StreamsTyped
  <2>4. ASSUME drain' = drain PROVE Held(i)
    BY <1>4, <2>1, <2>4
  <2>. QED
    BY <2>2, <2>3, <2>4, StreamFrame
    DEF StreamAct, streams, OpenStream, StreamOpened, StreamRefused, StreamDropped
<1>5. ASSUME StreamOn(i)' PROVE Held(i)
  <2>1. PICK k \in Streams : stream'[k].slot = i /\ stream'[k].st \in OpenStates
    BY <1>5 DEF StreamOn
  <2>2. CASE stream[k].slot = i /\ stream[k].st \in OpenStates
    BY <2>2 DEF Held, StreamOn
  <2>3. CASE stream' = stream
    BY <2>1, <2>2, <2>3
  <2>4. ASSUME NEW m \in Streams, OpenStream(m) PROVE Held(i)
    BY <2>1, <2>2, <2>4 DEF OpenStream, StreamsTyped, Held, InUse
  <2>5. ASSUME NEW m \in Streams, StreamOpened(m) \/ StreamRefused(m) \/ StreamDropped(m)
        PROVE  Held(i)
    BY <2>1, <2>2, <2>5
    DEF StreamOpened, StreamRefused, StreamDropped, StreamsTyped, OpenStates
  <2>. QED
    BY <2>3, <2>4, <2>5, StreamFrame
    DEF StreamAct, streams, Promote, DrainTask, DrainCheck, DrainArm, DrainWoken,
        DrainDeadline, DrainUnchanged
<1>. QED BY <1>1, <1>2, <1>3, <1>4, <1>5 DEF Held

LEMMA HeldAreKeptStep ==
  ASSUME TypeOK, DialsInOrder, SlotsFollowGuard, HeldAreKept, Next PROVE HeldAreKept'
<1>. SUFFICES ASSUME NEW i \in Conns, Held(i)', Released(i)' PROVE FALSE
  BY DEF HeldAreKept
<1>1. Released(i) \/ (conn[i].st = "live" /\ ~Held(i))
  BY ReleaseStep
<1>2. Held(i) \/ i >= nextConn
  BY HoldStep
<1>3. i >= nextConn => conn[i].st = "unused"
  <2>1. Unused.st = "unused"
    BY DEF Unused
  <2>. QED BY <2>1 DEF DialsInOrder
<1>. QED BY <1>1, <1>2, <1>3 DEF HeldAreKept, Released

LEMMA OpenOnFinite == \A i \in Conns : IsFiniteSet(OpenOn(i))
<1>1. IsFiniteSet(Streams)
  BY FS_Interval, FastAssumption DEF Streams
<1>. QED BY <1>1, FS_Subset DEF OpenOn

LEMMA StreamsCountedStep ==
  ASSUME TypeOK, SlotsFollowGuard, StreamsCounted, Next PROVE StreamsCounted'
<1>. USE DEF TypeOK, StreamsTyped
<1>o. \A i \in Conns : IsFiniteSet(OpenOn(i))
  BY OpenOnFinite
<1>1. CASE UNCHANGED <<stream, outstanding>>
  BY <1>1 DEF StreamsCounted, OpenOn
<1>2. ASSUME NEW k \in Streams, OpenStream(k) PROVE StreamsCounted'
  <2>1. active # None
    BY <1>2 DEF OpenStream, SlotsFollowGuard, InUse
  <2>2. \A i \in Conns : OpenOn(i)' = OpenOn(i)
    BY <1>2 DEF OpenStream, OpenOn
  <2>. QED BY <1>2, <2>1, <2>2 DEF OpenStream, StreamsCounted
<1>3. ASSUME NEW k \in Streams, StreamRefused(k) PROVE StreamsCounted'
  <2>1. \A i \in Conns : OpenOn(i)' = OpenOn(i)
    BY <1>3 DEF StreamRefused, OpenOn
  <2>. QED BY <1>3, <2>1 DEF StreamRefused, StreamsCounted
<1>4. ASSUME NEW k \in Streams, StreamOpened(k) PROVE StreamsCounted'
  <2>0. PICK s \in Conns : s = stream[k].slot
    BY <1>4 DEF StreamOpened, StreamsCounted
  <2>1. s = stream[k].slot /\ k \notin OpenOn(s)
    BY <1>4, <2>0 DEF StreamOpened, OpenOn
  <2>2. OpenOn(s)' = OpenOn(s) \cup {k} /\ \A i \in Conns \ {s} : OpenOn(i)' = OpenOn(i)
    BY <1>4, <2>1 DEF StreamOpened, OpenOn
  <2>3. Cardinality(OpenOn(s) \cup {k}) = Cardinality(OpenOn(s)) + 1
    BY <1>o, <2>1, FS_AddElement
  <2>4. \A i \in Conns : outstanding'[i] = Cardinality(OpenOn(i)')
    <3>1. outstanding'[s] = Cardinality(OpenOn(s)')
      BY <1>4, <2>1, <2>2, <2>3 DEF StreamOpened, StreamsCounted
    <3>2. \A i \in Conns \ {s} : outstanding'[i] = outstanding[i]
      BY <1>4, <2>1 DEF StreamOpened
    <3>3. ASSUME NEW i \in Conns \ {s} PROVE outstanding'[i] = Cardinality(OpenOn(i)')
      <4>1. OpenOn(i)' = OpenOn(i)
        BY <2>2
      <4>2. outstanding'[i] = Cardinality(OpenOn(i))
        BY <3>2 DEF StreamsCounted
      <4>. QED BY <4>1, <4>2
    <3>. QED BY <3>1, <3>3
  <2>5. \A m \in Streams : stream'[m].slot = stream[m].slot
                        /\ (stream'[m].st = "unused" <=> stream[m].st = "unused")
    BY <1>4 DEF StreamOpened
  <2>. QED BY <2>4, <2>5 DEF StreamsCounted
<1>5. ASSUME NEW k \in Streams, StreamDropped(k) PROVE StreamsCounted'
  <2>0. PICK s \in Conns : s = stream[k].slot
    BY <1>5 DEF StreamDropped, StreamsCounted
  <2>1. s = stream[k].slot /\ k \in OpenOn(s)
    BY <1>5, <2>0 DEF StreamDropped, OpenOn
  <2>2. OpenOn(s)' = OpenOn(s) \ {k} /\ \A i \in Conns \ {s} : OpenOn(i)' = OpenOn(i)
    BY <1>5, <2>1 DEF StreamDropped, OpenOn
  <2>3. Cardinality(OpenOn(s) \ {k}) = Cardinality(OpenOn(s)) - 1
    BY <1>o, <2>1, FS_RemoveElement
  <2>4. \A i \in Conns : outstanding'[i] = Cardinality(OpenOn(i)')
    <3>1. outstanding'[s] = Cardinality(OpenOn(s)')
      BY <1>5, <2>1, <2>2, <2>3 DEF StreamDropped, StreamsCounted
    <3>2. \A i \in Conns \ {s} : outstanding'[i] = outstanding[i]
      BY <1>5, <2>1 DEF StreamDropped
    <3>3. ASSUME NEW i \in Conns \ {s} PROVE outstanding'[i] = Cardinality(OpenOn(i)')
      <4>1. OpenOn(i)' = OpenOn(i)
        BY <2>2
      <4>2. outstanding'[i] = Cardinality(OpenOn(i))
        BY <3>2 DEF StreamsCounted
      <4>. QED BY <4>1, <4>2
    <3>. QED BY <3>1, <3>3
  <2>5. \A m \in Streams : stream'[m].slot = stream[m].slot
                        /\ (stream'[m].st = "unused" <=> stream[m].st = "unused")
    BY <1>5 DEF StreamDropped
  <2>. QED BY <2>4, <2>5 DEF StreamsCounted
<1>. QED
  BY <1>1, <1>2, <1>3, <1>4, <1>5, StreamFrame
  DEF StreamAct, streams, Promote, DrainTask, DrainCheck, DrainArm, DrainWoken,
      DrainDeadline, DrainUnchanged

-----------------------------------------------------------------------------
LEMMA InitFast == Init => FastInv
<1>. SUFFICES ASSUME Init PROVE FastInv
  OBVIOUS
<1>n. \A i \in Conns : i \in Nat /\ i >= 1
  BY FastAssumption DEF Conns
<1>u. Unused \in Connections /\ Unused.st = "unused" /\ Unused.died = FALSE
  BY FastAssumption DEF Unused, Connections, Tiers, ConnStates
<1>1. TypeOK
  BY <1>u, FastAssumption
  DEF Init, TypeOK, DialsTyped, SlotsTyped, StreamsTyped, RelayTyped, Tiers, Guard,
      GuardSteps, NoEntry, Draining, OpenStates
<1>2. EntryHasHolder
  BY DEF Init, EntryHasHolder, NoEntry
<1>3. DialsInOrder
  BY <1>u DEF Init, DialsInOrder
<1>4. SlotsFollowGuard
  BY DEF Init, SlotsFollowGuard, Guard, InUse, Racing
<1>5. HeldAreKept
  BY <1>u DEF Init, HeldAreKept, Released
<1>6. StreamsCounted
  <2>1. \A i \in Conns : OpenOn(i) = {}
    BY DEF Init, OpenOn
  <2>. QED BY <2>1, FS_EmptySet DEF Init, StreamsCounted
<1>. QED BY <1>1, <1>2, <1>3, <1>4, <1>5, <1>6 DEF FastInv

LEMMA FastStep == FastInv /\ [Next]_vars => FastInv'
<1>1. ASSUME FastInv, Next PROVE FastInv'
  BY <1>1, TypeStep, EntryStep, DialsInOrderStep, SlotsFollowGuardStep, HeldAreKeptStep,
     StreamsCountedStep
  DEF FastInv
<1>2. ASSUME FastInv, UNCHANGED vars PROVE FastInv'
  BY <1>2
  DEF FastInv, vars, dials, slots, streams, relay, TypeOK, DialsTyped, SlotsTyped,
      StreamsTyped, RelayTyped, EntryHasHolder, DialsInOrder, SlotsFollowGuard, InUse,
      HeldAreKept, Held, StreamOn, Released, StreamsCounted, OpenOn
<1>. QED BY <1>1, <1>2

(* Whatever the bounds and the BLS keys, connect_fast, its guard, drains,   *)
(* drivers and streams keep FastInv: what anyone holds is never let go of,  *)
(* each slot counts its open streams, and the gates' findings stay true.    *)
THEOREM FastConnectCorrect == Spec => []FastInv
<1>. QED BY InitFast, FastStep, PTL DEF Spec

(* The registry key of the peer is never left to a dial that is over.       *)
THEOREM EntriesHaveHolders == Spec => []EntryHasHolder
<1>1. FastInv => EntryHasHolder
  BY DEF FastInv
<1>. QED BY <1>1, FastConnectCorrect, PTL


-----------------------------------------------------------------------------
LEMMA PromotionStep == FastInv /\ Next =>
  ((active # None /\ active' # active /\ conn[active'].tier = "direct")
     => /\ conn[active].tier = "relayed"
        /\ conn[active'].bls = conn[active].bls
        /\ conn[active'].answers)
<1>. SUFFICES ASSUME FastInv, Next, active # None, active' # active,
                     conn[active'].tier = "direct"
     PROVE  /\ conn[active].tier = "relayed"
            /\ conn[active'].bls = conn[active].bls
            /\ conn[active'].answers
  OBVIOUS
<1>. USE DEF FastInv
<1>1. ~Race /\ ~CancelConnect
  BY DEF Race, ConnectFast, SelectRelayed, SelectDirect, AwaitDirect, AwaitRelayed,
         CancelConnect, SlotsFollowGuard, Racing, slots
<1>2. ~Redialed
  BY DEF Redialed, Landing, DialsInOrder, TypeOK, DialsTyped, Tiers
<1>3. Promote
  BY <1>1, <1>2, SlotFrame
  DEF SlotAct, slots, GuardTask, GuardDirect, ProbeAnswers, ProbeFails, CloseNoticed,
      BackoffOver, GuardAborted, HeldStably
<1>. QED BY <1>3 DEF Promote, SlotsFollowGuard

(* Every promotion passed the gates: the direct transport that replaces the *)
(* relayed one has answered and has the same identity.                      *)
THEOREM PromotionsGated == Spec => PromotionGated
<1>1. FastInv /\ [Next]_vars =>
        [(active # None /\ active' # active /\ conn[active'].tier = "direct")
          => /\ conn[active].tier = "relayed"
             /\ conn[active'].bls = conn[active].bls
             /\ conn[active'].answers]_vars
  BY PromotionStep
<1>. QED BY <1>1, FastConnectCorrect, PTL DEF Spec, PromotionGated

-----------------------------------------------------------------------------
(* The state of StreamRouting that a state of FastConnect stands for.       *)
Current == IF InUse THEN active ELSE None
Carrier == [k \in Streams |-> stream[k].slot]
Ended == {k \in Streams : stream[k].st = "closed"}
ReleasedConns == {i \in Conns : Released(i)}

Switches == \E t \in Conns :
  /\ t \notin ReleasedConns /\ Current' = t
  /\ UNCHANGED <<Carrier, Ended, ReleasedConns>>
Leaves == Current' = None /\ UNCHANGED <<Carrier, Ended, ReleasedConns>>
Opens == \E k \in Streams :
  /\ Current # None /\ Carrier[k] = None
  /\ Carrier' = [Carrier EXCEPT ![k] = Current]
  /\ UNCHANGED <<Current, Ended, ReleasedConns>>
Ends == \E k \in Streams :
  /\ Carrier[k] # None /\ Ended' = Ended \cup {k} /\ k \notin Ended
  /\ UNCHANGED <<Current, Carrier, ReleasedConns>>
Releases == \E t \in Conns :
  /\ t # Current /\ \A k \in Streams : Carrier[k] = t => k \in Ended
  /\ ReleasedConns' = ReleasedConns \cup {t}
  /\ UNCHANGED <<Current, Carrier, Ended>>
Stutters == UNCHANGED <<Current, Carrier, Ended, ReleasedConns>>
Routes == Switches \/ Leaves \/ Opens \/ Ends \/ Releases \/ Stutters

LEMMA ReleasedFrame ==
  ASSUME FastInv, Next, \A i \in Conns : ~DriverEnds(i)
  PROVE  ReleasedConns' = ReleasedConns
<1>1. \A i \in Conns : Moves(i)
  BY ConnMoves DEF FastInv
<1>2. \A i \in Conns : Released(i)' <=> Released(i)
  BY <1>1 DEF Moves, Begun, Dialed, Lived, Released, Landed
<1>. QED BY <1>2 DEF ReleasedConns

LEMMA DriverRoutes ==
  ASSUME FastInv, NEW i \in Conns, DriverEnds(i) PROVE Routes
<1>. USE DEF FastInv, TypeOK, DialsTyped
<1>1. UNCHANGED <<Current, Carrier, Ended>>
  BY DEF DriverEnds, Current, InUse, Carrier, Ended, slots, streams
<1>c. conn[i] \in Connections
  OBVIOUS
<1>2. /\ \A j \in Conns \ {i} : Released(j)' <=> Released(j)
      /\ Released(i)' <=> ~conn[i].died
      /\ ~Released(i)
  BY <1>c DEF DriverEnds, Released, Connections
<1>3. CASE conn[i].died
  <2>1. ReleasedConns' = ReleasedConns
    BY <1>2, <1>3 DEF ReleasedConns
  <2>. QED BY <1>1, <2>1 DEF Routes, Stutters
<1>4. CASE ~conn[i].died
  <2>1. ReleasedConns' = ReleasedConns \cup {i}
    BY <1>2, <1>4 DEF ReleasedConns
  <2>2. ~Held(i)
    BY <1>4 DEF DriverEnds
  <2>3. i # Current
    BY <2>2, FastAssumption DEF Held, Current, Conns, None
  <2>4. ASSUME NEW k \in Streams, Carrier[k] = i PROVE k \in Ended
    <3>1. stream[k].slot = i /\ i # None
      BY <2>4, FastAssumption DEF Carrier, Conns, None
    <3>2. stream[k].st \notin OpenStates /\ stream[k].st # "unused"
      BY <2>2, <3>1 DEF Held, StreamOn, StreamsCounted
    <3>. QED BY <3>2 DEF Ended, StreamsTyped
  <2>. QED BY <1>1, <2>1, <2>3, <2>4 DEF Routes, Releases
<1>. QED BY <1>3, <1>4

LEMMA StreamRoutes ==
  ASSUME FastInv, ReleasedConns' = ReleasedConns,
         NEW k \in Streams,
         OpenStream(k) \/ StreamOpened(k) \/ StreamRefused(k) \/ StreamDropped(k)
  PROVE  Routes
<1>. USE DEF FastInv, TypeOK, StreamsTyped
<1>1. Current' = Current
  BY DEF OpenStream, StreamOpened, StreamRefused, StreamDropped, Current, InUse, slots
<1>2. CASE OpenStream(k)
  <2>1. Current = active /\ Current # None
    BY <1>2 DEF OpenStream, Current, InUse, SlotsFollowGuard
  <2>2. Carrier[k] = None /\ Carrier' = [Carrier EXCEPT ![k] = Current]
    BY <1>2, <2>1 DEF OpenStream, Carrier, StreamsCounted
  <2>3. Ended' = Ended
    BY <1>2 DEF OpenStream, Ended
  <2>. QED BY <1>1, <2>1, <2>2, <2>3 DEF Routes, Opens
<1>3. CASE StreamOpened(k)
  <2>1. Carrier' = Carrier
    BY <1>3 DEF StreamOpened, Carrier
  <2>2. Ended' = Ended
    BY <1>3 DEF StreamOpened, Ended
  <2>. QED BY <1>1, <2>1, <2>2 DEF Routes, Stutters
<1>4. CASE StreamRefused(k) \/ StreamDropped(k)
  <2>1. Carrier' = Carrier
    BY <1>4 DEF StreamRefused, StreamDropped, Carrier
  <2>2. Ended' = Ended \cup {k} /\ k \notin Ended
    BY <1>4 DEF StreamRefused, StreamDropped, Ended
  <2>3. Carrier[k] # None
    BY <1>4 DEF StreamRefused, StreamDropped, Carrier, StreamsCounted
  <2>. QED BY <1>1, <2>1, <2>2, <2>3 DEF Routes, Ends
<1>. QED BY <1>2, <1>3, <1>4

LEMMA SlotRoutes ==
  ASSUME FastInv, ReleasedConns' = ReleasedConns, stream' = stream,
         SlotAct \/ DropConnection
  PROVE  Routes
<1>. USE DEF FastInv, TypeOK, DialsTyped, SlotsTyped
<1>s. Carrier' = Carrier /\ Ended' = Ended
  BY DEF Carrier, Ended
<1>t. dial["direct"] \in Conns \cup {None} /\ dial["relayed"] \in Conns \cup {None}
  BY DEF Tiers
<1>1. ASSUME Current' = Current \/ Current' = None PROVE Routes
  BY <1>1, <1>s DEF Routes, Leaves, Stutters
<1>2. ASSUME NEW i \in Conns, Held(i), Current' = i PROVE Routes
  <2>1. i \notin ReleasedConns
    BY <1>2 DEF HeldAreKept, ReleasedConns
  <2>. QED BY <1>2, <1>s, <2>1 DEF Routes, Switches
<1>3. ASSUME NEW i, i = dial["direct"] \/ i = dial["relayed"], i # None, active' = i
      PROVE  Routes
  <2>1. i \in Conns /\ Held(i)
    BY <1>3, <1>t DEF Held, Tiers
  <2>2. Current' = i \/ Current' = None
    BY <1>3 DEF Current
  <2>. QED BY <1>1, <1>2, <2>1, <2>2
<1>4. ASSUME active' = active, InUse' => InUse PROVE Routes
  BY <1>1, <1>4 DEF Current
<1>5. CASE Race
  BY <1>3, <1>4, <1>5
  DEF Race, ConnectFast, SelectRelayed, SelectDirect, AwaitDirect, AwaitRelayed, Build,
      Landing, Failed, InUse, slots
<1>6. CASE GuardDirect \/ ProbeAnswers \/ ProbeFails \/ HeldStably \/ CloseNoticed
           \/ BackoffOver
  BY <1>4, <1>6
  DEF GuardDirect, ProbeAnswers, ProbeFails, HeldStably, CloseNoticed, BackoffOver, InUse
<1>7. CASE GuardAborted \/ CancelConnect \/ DropConnection
  BY <1>4, <1>7 DEF GuardAborted, CancelConnect, DropConnection, InUse, Guard, slots
<1>8. CASE Redialed
  BY <1>3, <1>4, <1>8 DEF Redialed, Landing, InUse, Guard
<1>9. CASE Promote
  <2>1. guard.hand \in Conns /\ Held(guard.hand)
    BY <1>9 DEF Promote, SlotsFollowGuard, Held
  <2>2. Current' = guard.hand \/ Current' = None
    BY <1>9 DEF Promote, Current
  <2>. QED BY <1>1, <1>2, <2>1, <2>2
<1>. QED BY <1>5, <1>6, <1>7, <1>8, <1>9 DEF SlotAct, GuardTask

LEMMA RoutingStep == ASSUME FastInv, Next PROVE Routes
<1>1. CASE \E i \in Conns : DriverEnds(i)
  BY <1>1, DriverRoutes
<1>2. CASE \A i \in Conns : ~DriverEnds(i)
  <2>1. ReleasedConns' = ReleasedConns
    BY <1>2, ReleasedFrame
  <2>2. CASE \E k \in Streams :
               OpenStream(k) \/ StreamOpened(k) \/ StreamRefused(k) \/ StreamDropped(k)
    BY <2>1, <2>2, StreamRoutes
  <2>3. CASE stream' = stream
    <3>1. CASE SlotAct \/ DropConnection
      BY <2>1, <2>3, <3>1, SlotRoutes
    <3>2. CASE ~SlotAct /\ ~DropConnection
      <4>1. active' = active /\ guard' = guard /\ caller' = caller
        BY <3>2, SlotFrame, CallerFrame DEF FastInv, SlotAct, slots
      <4>. QED
        BY <2>1, <2>3, <4>1 DEF Routes, Stutters, Current, InUse, Carrier, Ended
    <3>. QED BY <3>1, <3>2
  <2>4. \/ stream' = stream
        \/ \E k \in Streams :
             OpenStream(k) \/ StreamOpened(k) \/ StreamRefused(k) \/ StreamDropped(k)
    BY StreamFrame
    DEF StreamAct, streams, Promote, DrainTask, DrainCheck, DrainArm, DrainWoken,
        DrainDeadline, DrainUnchanged
  <2>. QED BY <2>2, <2>3, <2>4
<1>. QED BY <1>1, <1>2

LEMMA RoutesRefine == Routes => [Routing!Next]_(Routing!vars)
<1>. USE DEF Current, Carrier, Ended, ReleasedConns, Routing!vars
<1>1. Stutters => UNCHANGED Routing!vars
  BY DEF Stutters
<1>2. Leaves => Routing!Leave \/ UNCHANGED Routing!vars
  BY DEF Leaves, Routing!Leave
<1>3. Switches => (\E t \in Conns : Routing!Switch(t)) \/ UNCHANGED Routing!vars
  BY DEF Switches, Routing!Switch
<1>4. Opens => \E k \in Streams : Routing!Open(k)
  BY DEF Opens, Routing!Open
<1>5. Ends => \E k \in Streams : Routing!End(k)
  BY DEF Ends, Routing!End
<1>6. Releases => \E t \in Conns : Routing!Release(t)
  BY DEF Releases, Routing!Release, Routing!Carried
<1>. QED BY <1>1, <1>2, <1>3, <1>4, <1>5, <1>6 DEF Routes, Routing!Next

(* FastConnect implements StreamRouting: a stream stays on the transport it *)
(* was opened on, and no transport that is current or carries a stream is   *)
(* let go of, through races, promotions, fallbacks, drops and drains.       *)
THEOREM StreamsAreRouted == Spec => RoutesStreams
<1>1. Init => Routing!Init
  BY DEF Init, Routing!Init, InUse, Guard, Released, Unused
<1>2. FastInv /\ [Next]_vars => [Routing!Next]_(Routing!vars)
  <2>1. ASSUME UNCHANGED vars PROVE UNCHANGED Routing!vars
    BY <2>1
    DEF vars, dials, slots, streams, relay, Routing!vars, InUse, Released
  <2>. QED BY <2>1, RoutingStep, RoutesRefine
<1>. QED
  BY <1>1, <1>2, FastConnectCorrect, PTL DEF Spec, RoutesStreams, Routing!Spec
=============================================================================
