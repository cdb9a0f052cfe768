--------------------------- MODULE ReservationProofs ---------------------------
(***************************************************************************)
(* Proofs about RelayReservation, for every set of ids and every cap: the   *)
(* transport looks ready only while the session that published it serves,   *)
(* what the status shows beside it is of that session, the discovered peers *)
(* and their index agree, and the backoff grows as long as sessions fail.   *)
(***************************************************************************)
EXTENDS RelayReservation, SequenceTheorems, Positions, TLAPS

\* Where a session may show as ready: from the select to clear_transport.
Holding == Serving \cup {"teardown"}

(***************************************************************************)
(* ReadyIsLive is not inductive: that the sink which a failed GetPeers      *)
(* leaves behind never looks ready rests on the state of the attempt, which *)
(* no frame has turned to connected yet.                                    *)
(***************************************************************************)
AttemptShown == pc \in Connecting => state = "connecting"
ConnectedServed == state = "connected" => pc \in Holding \cup {"report"}
SinkHeld == pc \in Holding \cup {"list"} => outbound = "live"
ReportedDown == pc = "report" => state # "connected" \/ outbound = "none"

TransportInv == AttemptShown /\ ConnectedServed /\ SinkHeld /\ ReportedDown
StatusInv == StartsEmpty /\ StatusAgrees
IInv == TransportInv /\ StatusInv

LEMMA InitIInv == Init => IInv
  BY DEF Init, IInv, TransportInv, StatusInv, AttemptShown, ConnectedServed, SinkHeld,
         ReportedDown, StartsEmpty, StatusAgrees, Connecting, Holding, Serving

\* The consumer's calls touch neither the task nor, once it runs, its state.
LEMMA HandlesKeep == IInv /\ Handles => IInv'
  BY DEF Handles, SetDisabled, SetDhtRecordsProvider, OpenTunnel, QueueFrame, task, status,
         transport, IInv, TransportInv, StatusInv, AttemptShown, ConnectedServed, SinkHeld,
         ReportedDown, StartsEmpty, StatusAgrees, Connecting, Holding, Serving

\* An attempt: from the top of an iteration to the first GetPeers.
LEMMA AttemptKeeps ==
  IInv /\ (Connect \/ Dialed \/ Registered \/ Listed) => IInv'
  <1> SUFFICES ASSUME IInv, Connect \/ Dialed \/ Registered \/ Listed PROVE IInv'
    OBVIOUS
  <1> USE DEF status, IInv, TransportInv, StatusInv, AttemptShown, ConnectedServed, SinkHeld,
        ReportedDown, StartsEmpty, StatusAgrees, Connecting, Holding, Serving
  <1>1. CASE Connect
    BY <1>1 DEF Connect, Cleared
  <1>2. CASE Dialed
    BY <1>2 DEF Dialed, Returned
  <1>3. CASE Registered
    BY <1>3 DEF Registered, Returned
  <1>4. CASE Listed
    BY <1>4 DEF Listed, Returned
  <1> QED BY <1>1, <1>2, <1>3, <1>4

\* The session: of its arms only the acknowledgement changes the status.
LEMMA SessionKeeps == IInv /\ Session => IInv'
  <1> SUFFICES ASSUME IInv, Session PROVE IInv'
    OBVIOUS
  <1> USE DEF status, transport, IInv, TransportInv, StatusInv, AttemptShown, ConnectedServed,
        SinkHeld, ReportedDown, StartsEmpty, StatusAgrees, Connecting, Holding, Serving,
        Continues, Sends, Ends
  <1>1. CASE Tick \/ ForwardFrame \/ Sent \/ ReadEnd
    BY <1>1 DEF Tick, ForwardFrame, Sent, ReadEnd
  <1>2. CASE RegisterAck
    BY <1>2 DEF RegisterAck
  <1>3. CASE PeersNews
    BY <1>3 DEF PeersNews
  <1>4. CASE Ignored \/ Refused
    BY <1>4 DEF Ignored, Refused
  <1>5. ASSUME NEW f, Answered(f) PROVE IInv'
    BY <1>5 DEF Answered
  <1> QED BY <1>1, <1>2, <1>3, <1>4, <1>5 DEF Session, Handle

\* Its end: the sink is gone before the loop counts the loss.
LEMMA EndKeeps == IInv /\ (Teardown \/ Report) => IInv'
  BY DEF Teardown, Report, Cleared, Returned, status, transport, IInv, TransportInv, StatusInv,
         AttemptShown, ConnectedServed, SinkHeld, ReportedDown, StartsEmpty, StatusAgrees,
         Connecting, Holding, Serving

LEMMA StutterKeeps == IInv /\ UNCHANGED vars => IInv'
  BY DEF vars, task, status, transport, IInv, TransportInv, StatusInv, AttemptShown,
         ConnectedServed, SinkHeld, ReportedDown, StartsEmpty, StatusAgrees, Connecting,
         Holding, Serving

LEMMA Invariant == Spec => []IInv
  <1>1. IInv /\ [Next]_vars => IInv'
    BY HandlesKeep, AttemptKeeps, SessionKeeps, EndKeeps, StutterKeeps DEF Next, Loop
  <1> QED BY InitIInv, <1>1, PTL DEF Spec

\* relay_transport_ready is true only while the session that published the
\* sink holds its receiver (connect_once, src/relay.rs:1286), for any relay.
THEOREM ReadySinkIsLive == Spec => []ReadyIsLive
  <1>1. IInv => ReadyIsLive
    BY DEF IInv, TransportInv, ConnectedServed, SinkHeld, ReportedDown, ReadyIsLive, Ready,
           Holding
  <1> QED BY Invariant, <1>1, PTL

\* No attempt starts with the peers of an earlier session, and no loss is
\* counted or explained while the state is connected (set_connected,
\* set_disconnected and clear_known_peers, src/relay.rs:470).
THEOREM StatusIsOfSession == Spec => [](StartsEmpty /\ StatusAgrees)
  <1>1. IInv => StartsEmpty /\ StatusAgrees
    BY DEF IInv, StatusInv
  <1> QED BY Invariant, <1>1, PTL

-----------------------------------------------------------------------------
(* The discovered peers. *)

(* The peers discovered so far: each once, in the order and in the index.   *)
Discovered ==
  {k \in [order : Seq(Ids), ids : SUBSET Ids] :
     /\ ToSet(k.order) = k.ids
     /\ IsInjective(k.order)
     /\ Len(k.order) <= MaxKnownPeers}

LEMMA NoPeersDiscovered == NoPeers \in Discovered
<1> DEFINE e == <<>>
<1>1. e \in Seq(Ids) /\ DOMAIN e = {} /\ Len(e) = 0
  OBVIOUS
<1>2. NoPeers.order = e /\ NoPeers.ids = {} /\ NoPeers \in [order : Seq(Ids), ids : SUBSET Ids]
  BY DEF NoPeers
<1> HIDE DEF e
<1> QED
  BY <1>1, <1>2, ReservationAssumption DEF Discovered, ToSet, IsInjective

(* Appending an element that is not there. *)
LEMMA AppendedOnce ==
  ASSUME NEW S, NEW s \in Seq(S), NEW x \in S
  PROVE  /\ Append(s, x) \in Seq(S) /\ Len(Append(s, x)) = Len(s) + 1
         /\ ToSet(Append(s, x)) = ToSet(s) \cup {x}
         /\ IsInjective(s) /\ x \notin ToSet(s) => IsInjective(Append(s, x))
<1> DEFINE t == Append(s, x)
<1>1. /\ t \in Seq(S) /\ Len(t) = Len(s) + 1 /\ Len(s) \in Nat
      /\ DOMAIN s = 1..Len(s) /\ DOMAIN t = 1..(Len(s) + 1)
      /\ \A n \in 1..Len(s) : t[n] = s[n]
      /\ t[Len(s) + 1] = x
  OBVIOUS
<1> HIDE DEF t
<1>2. ToSet(t) = ToSet(s) \cup {x}
  BY <1>1 DEF ToSet
<1>3. IsInjective(s) /\ x \notin ToSet(s) => IsInjective(t)
  BY <1>1 DEF ToSet, IsInjective
<1> QED
  BY <1>1, <1>2, <1>3 DEF t

LEMMA InsertDiscovers ==
  ASSUME NEW k \in Discovered, NEW p \in Ids
  PROVE  Insert(k, p) \in Discovered
<1>1. /\ k.order \in Seq(Ids) /\ k.ids \in SUBSET Ids
      /\ ToSet(k.order) = k.ids /\ IsInjective(k.order) /\ Len(k.order) <= MaxKnownPeers
  BY DEF Discovered
<1>2. CASE Len(k.order) < MaxKnownPeers /\ p \notin k.ids
  <2> DEFINE t == Append(k.order, p)
             d == [order |-> t, ids |-> k.ids \cup {p}]
  <2>1. /\ t \in Seq(Ids) /\ Len(t) = Len(k.order) + 1
        /\ ToSet(t) = k.ids \cup {p} /\ IsInjective(t)
    BY <1>1, <1>2, AppendedOnce
  <2>2. Len(k.order) \in Nat
    BY <1>1
  <2>3. Insert(k, p) = d
    BY <1>2, <2>2, ReservationAssumption DEF Insert
  <2> HIDE DEF t
  <2>4. d \in Discovered
    <3>1. d.order = t /\ d.ids = k.ids \cup {p} /\ d \in [order : Seq(Ids), ids : SUBSET Ids]
      BY <1>1, <2>1
    <3>2. Len(t) <= MaxKnownPeers
      BY <1>2, <2>1, <2>2, ReservationAssumption
    <3> QED
      BY <2>1, <3>1, <3>2 DEF Discovered
  <2> QED
    BY <2>3, <2>4
<1>3. CASE ~(Len(k.order) < MaxKnownPeers /\ p \notin k.ids)
  <2>1. Len(k.order) \in Nat
    BY <1>1
  <2>2. Insert(k, p) = k
    BY <1>3, <2>1, ReservationAssumption DEF Insert
  <2> QED
    BY <2>2
<1> QED
  BY <1>2, <1>3

LEMMA ReplaceDiscovers ==
  ASSUME NEW page \in Seq(Ids)
  PROVE  Replace(page) \in Discovered
<1> DEFINE N == Len(page)
           Built(f) == [n \in 0..N |-> IF n = 0 THEN NoPeers ELSE Insert(f[n - 1], page[n])]
           After == CHOOSE f : f = Built(f)
           step == [n \in 1..N |-> [k \in Discovered |-> Insert(k, page[n])]]
           R == {n \in 0..N : After[n] \in Discovered}
<1>1. N \in Nat /\ \A n \in 1..N : page[n] \in Ids
  OBVIOUS
<1>2. \A n \in 1..N : \A k \in Discovered : step[n][k] \in Discovered
  BY <1>1, InsertDiscovers
<1>3. \A n \in 1..N : \A k \in Discovered : step[n][k] = Insert(k, page[n])
  OBVIOUS
<1> HIDE DEF step, N
<1>4. PICK f : Iterates(f, N, Discovered, NoPeers, step)
  BY <1>1, <1>2, NoPeersDiscovered, Recursion
<1>5. /\ f \in [0..N -> Discovered]
      /\ f[0] = NoPeers /\ \A n \in 1..N : f[n] = step[n][f[n - 1]]
  BY <1>4 DEF Iterates
<1>6. ASSUME NEW n \in 0..N
      PROVE  f[n] = IF n = 0 THEN NoPeers ELSE Insert(f[n - 1], page[n])
  <2>1. CASE n = 0
    BY <1>5, <2>1
  <2>2. CASE n # 0
    <3>1. n \in 1..N /\ n - 1 \in 0..N
      BY <1>1, <2>2
    <3>2. f[n - 1] \in Discovered
      BY <1>5, <3>1
    <3> QED
      BY <1>3, <1>5, <2>2, <3>1, <3>2
  <2> QED
    BY <2>1, <2>2
<1>7. f = Built(f)
  <2>1. f = [n \in 0..N |-> f[n]]
    BY <1>5
  <2> QED
    BY <1>6, <2>1
<1>8. After = Built(After)
  <2> HIDE DEF Built
  <2> QED
    BY <1>7
<1>9. Replace(page) = After[N]
  BY DEF Replace, N
<1> HIDE DEF After
<1>10. \A n \in 0..N : After[n] = IF n = 0 THEN NoPeers ELSE Insert(After[n - 1], page[n])
  BY <1>8
<1> HIDE DEF Built
<1>11. 0 \in R
  BY <1>1, <1>10, NoPeersDiscovered
<1>12. ASSUME NEW n \in 1..N, n - 1 \in R PROVE n \in R
  <2>1. n \in 0..N /\ n # 0 /\ page[n] \in Ids /\ After[n - 1] \in Discovered
    BY <1>1, <1>12
  <2> QED
    BY <1>10, <2>1, InsertDiscovers
<1>13. 0..N \subseteq R
  <2> HIDE DEF R
  <2> QED
    BY <1>1, <1>11, <1>12, PositionInduction
<1> QED
  BY <1>1, <1>9, <1>13

(* What Vec::retain leaves of an order without repetitions. *)
LEMMA RetainedRemoves ==
  ASSUME NEW order \in Seq(Ids), IsInjective(order), NEW p
  PROVE  /\ Retained(order, p) \in Seq(Ids)
         /\ ToSet(Retained(order, p)) = ToSet(order) \ {p}
         /\ IsInjective(Retained(order, p))
         /\ Len(Retained(order, p)) <= Len(order)
<1> DEFINE N == Len(order)
           Built(f) == [n \in 0..N |-> IF n = 0 THEN <<>> ELSE
                          IF order[n] = p THEN f[n - 1] ELSE Append(f[n - 1], order[n])]
           Kept == CHOOSE f : f = Built(f)
           step == [n \in 1..N |-> [s \in Seq(Ids) |->
                      IF order[n] = p THEN s ELSE Append(s, order[n])]]
           Shown(n) == {order[m] : m \in 1..n} \ {p}
           Right(s, n) == /\ s \in Seq(Ids) /\ ToSet(s) = Shown(n)
                          /\ IsInjective(s) /\ Len(s) <= n
           R == {n \in 0..N : Right(Kept[n], n)}
<1>1. N \in Nat /\ (\A n \in 1..N : order[n] \in Ids) /\ DOMAIN order = 1..N
  OBVIOUS
<1>2. \A n \in 1..N : \A s \in Seq(Ids) : step[n][s] \in Seq(Ids)
  BY <1>1
<1>3. \A n \in 1..N : \A s \in Seq(Ids) :
        step[n][s] = IF order[n] = p THEN s ELSE Append(s, order[n])
  OBVIOUS
<1>4. <<>> \in Seq(Ids)
  OBVIOUS
<1> HIDE DEF step, N
<1>5. PICK f : Iterates(f, N, Seq(Ids), <<>>, step)
  BY <1>1, <1>2, <1>4, Recursion
<1>6. /\ f \in [0..N -> Seq(Ids)]
      /\ f[0] = <<>> /\ \A n \in 1..N : f[n] = step[n][f[n - 1]]
  BY <1>5 DEF Iterates
<1>7. ASSUME NEW n \in 0..N
      PROVE  f[n] = IF n = 0 THEN <<>> ELSE
                    IF order[n] = p THEN f[n - 1] ELSE Append(f[n - 1], order[n])
  <2>1. CASE n = 0
    BY <1>6, <2>1
  <2>2. CASE n # 0
    <3>1. n \in 1..N /\ n - 1 \in 0..N
      BY <1>1, <2>2
    <3>2. f[n - 1] \in Seq(Ids)
      BY <1>6, <3>1
    <3> QED
      BY <1>3, <1>6, <2>2, <3>1, <3>2
  <2> QED
    BY <2>1, <2>2
<1>8. f = Built(f)
  <2>1. f = [n \in 0..N |-> f[n]]
    BY <1>6
  <2> QED
    BY <1>7, <2>1
<1>9. Kept = Built(Kept)
  <2> HIDE DEF Built
  <2> QED
    BY <1>8
<1>10. Retained(order, p) = Kept[N]
  BY DEF Retained, N
<1> HIDE DEF Kept
<1>11. \A n \in 0..N : Kept[n] = IF n = 0 THEN <<>> ELSE
                      IF order[n] = p THEN Kept[n - 1] ELSE Append(Kept[n - 1], order[n])
  BY <1>9
<1> HIDE DEF Built
<1>12. 0 \in R
  <2> DEFINE e == <<>>
  <2>1. e \in Seq(Ids) /\ DOMAIN e = {} /\ Len(e) = 0
    OBVIOUS
  <2>2. Kept[0] = e
    BY <1>1, <1>11
  <2>3. Shown(0) = {} /\ 0 \in 0..N
    BY <1>1
  <2> HIDE DEF e, Shown
  <2>4. ToSet(e) = {} /\ IsInjective(e)
    BY <2>1 DEF ToSet, IsInjective
  <2>5. Right(Kept[0], 0)
    BY <2>1, <2>2, <2>3, <2>4
  <2> HIDE DEF Right
  <2> QED
    BY <2>3, <2>5
<1>13. ASSUME NEW n \in 1..N, n - 1 \in R PROVE n \in R
  <2> DEFINE s == Kept[n - 1]
             x == order[n]
  <2>1. x \in Ids /\ n \in 0..N /\ n # 0 /\ n \in Nat
    BY <1>1
  <2>2. Right(s, n - 1)
    <3> HIDE DEF Right
    <3> QED
      BY <1>13
  <2>3. Len(s) \in Nat
    BY <2>2
  <2>4. Right(s, n - 1) /\ x \in Ids /\ n \in 0..N /\ n # 0 /\ Len(s) \in Nat /\ n \in Nat
    BY <2>1, <2>2, <2>3
  <2>5. Kept[n] = IF x = p THEN s ELSE Append(s, x)
    BY <1>11, <2>4
  <2>6. Shown(n) = Shown(n - 1) \cup ({x} \ {p})
    <3>1. 1..n = 1..(n - 1) \cup {n}
      OBVIOUS
    <3> QED
      BY <3>1
  <2>7. x \notin Shown(n - 1)
    <3>1. \A m \in 1..(n - 1) : order[m] # order[n]
      <4>1. \A a, b \in 1..N : order[a] = order[b] => a = b
        BY <1>1 DEF IsInjective
      <4>2. \A m \in 1..(n - 1) : m \in 1..N /\ m # n
        BY <1>1
      <4> QED
        BY <4>1, <4>2
    <3> QED
      BY <3>1
  <2> HIDE DEF s, x, Shown
  <2>8. Right(Kept[n], n)
    <3>1. CASE x = p
      <4>1. Kept[n] = s /\ Shown(n) = Shown(n - 1)
        BY <2>5, <2>6, <3>1
      <4> QED
        BY <2>4, <4>1
    <3>2. CASE x # p
      <4>1. /\ Append(s, x) \in Seq(Ids) /\ Len(Append(s, x)) = Len(s) + 1
            /\ ToSet(Append(s, x)) = ToSet(s) \cup {x} /\ IsInjective(Append(s, x))
        BY <2>4, <2>7, AppendedOnce
      <4> DEFINE t == Append(s, x)
      <4>2. Kept[n] = t /\ Shown(n) = Shown(n - 1) \cup {x}
        BY <2>5, <2>6, <3>2
      <4> HIDE DEF t
      <4>3. t \in Seq(Ids) /\ Len(t) = Len(s) + 1 /\ ToSet(t) = ToSet(s) \cup {x}
            /\ IsInjective(t)
        BY <4>1 DEF t
      <4> QED
        BY <2>4, <4>2, <4>3
    <3> QED
      BY <3>1, <3>2
  <2> HIDE DEF Right
  <2> QED
    BY <2>1, <2>8
<1>14. 0..N \subseteq R
  <2> HIDE DEF R
  <2> QED
    BY <1>1, <1>12, <1>13, PositionInduction
<1>15. ToSet(order) = {order[m] : m \in 1..N}
  BY <1>1 DEF ToSet
<1>16. N \in 0..N
  BY <1>1
<1> QED
  BY <1>10, <1>14, <1>15, <1>16 DEF N

LEMMA ForgetDiscovers ==
  ASSUME NEW k \in Discovered, NEW p PROVE Forget(k, p) \in Discovered
<1>1. /\ k.order \in Seq(Ids) /\ k.ids \in SUBSET Ids
      /\ ToSet(k.order) = k.ids /\ IsInjective(k.order) /\ Len(k.order) <= MaxKnownPeers
  BY DEF Discovered
<1>2. CASE p \in k.ids
  <2> DEFINE t == Retained(k.order, p)
             d == [order |-> t, ids |-> k.ids \ {p}]
  <2>1. /\ t \in Seq(Ids) /\ ToSet(t) = k.ids \ {p} /\ IsInjective(t)
        /\ Len(t) <= Len(k.order)
    BY <1>1, RetainedRemoves
  <2>2. Forget(k, p) = d
    BY <1>2 DEF Forget
  <2> HIDE DEF t
  <2>3. d.order = t /\ d.ids = k.ids \ {p} /\ d \in [order : Seq(Ids), ids : SUBSET Ids]
    BY <1>1, <2>1
  <2>4. Len(t) <= MaxKnownPeers
    <3>1. Len(t) \in Nat /\ Len(k.order) \in Nat
      BY <1>1, <2>1
    <3> QED
      BY <1>1, <2>1, <3>1, ReservationAssumption
  <2> QED
    BY <2>1, <2>2, <2>3, <2>4 DEF Discovered
<1>3. CASE p \notin k.ids
  BY <1>3 DEF Forget
<1> QED
  BY <1>2, <1>3

\* The types of what the task and the handles keep.
LEMMA InitTyped == Init => TypeOK /\ known \in Discovered
<1> SUFFICES ASSUME Init PROVE TypeOK /\ known \in Discovered
  OBVIOUS
<1>1. known \in Discovered /\ known \in [order : Seq(Ids), ids : SUBSET Ids]
  BY NoPeersDiscovered DEF Init, Discovered
<1>2. 0 \in 0..(Counters - 1)
  BY ReservationAssumption
<1> QED
  BY <1>1, <1>2 DEF Init, TypeOK, Steps, States

\* News of peers keeps order and index together, whatever a relay sends.
LEMMA NewsDiscovers ==
  ASSUME known \in Discovered, PeersNews PROVE known' \in Discovered
<1>1. CASE \E page \in Pages : known' = Replace(page)
  <2>1. PICK page \in Pages : known' = Replace(page)
    BY <1>1
  <2>2. page \in Seq(Ids)
    BY DEF Pages, BoundedSeq, SeqOf
  <2> QED
    BY <2>1, <2>2, ReplaceDiscovers
<1>2. ASSUME NEW p \in Ids, known' \in {Insert(known, p), Forget(known, p)}
      PROVE  known' \in Discovered
  BY <1>2, InsertDiscovers, ForgetDiscovers
<1> QED
  BY <1>1, <1>2 DEF PeersNews

LEMMA PeersKeep == known \in Discovered /\ [Next]_vars => known' \in Discovered
<1> SUFFICES ASSUME known \in Discovered, [Next]_vars PROVE known' \in Discovered
  OBVIOUS
<1>1. CASE Handles \/ UNCHANGED vars
  BY <1>1 DEF Handles, SetDisabled, SetDhtRecordsProvider, OpenTunnel, QueueFrame, vars
<1>2. CASE Connect
  BY <1>2, NoPeersDiscovered DEF Connect
<1>3. CASE Dialed \/ Registered \/ Listed \/ Teardown \/ Report
  BY <1>3 DEF Dialed, Registered, Listed, Teardown, Report
<1>4. CASE Session
  <2>1. CASE PeersNews
    BY <2>1, NewsDiscovers
  <2>2. CASE Tick \/ ForwardFrame \/ Sent \/ ReadEnd \/ Ignored \/ RegisterAck \/ Refused
    BY <2>2 DEF Tick, ForwardFrame, Sent, ReadEnd, Ignored, RegisterAck, Refused
  <2>3. ASSUME NEW f, Answered(f) PROVE known' \in Discovered
    BY <2>3 DEF Answered
  <2> QED
    BY <1>4, <2>1, <2>2, <2>3 DEF Session, Handle
<1> QED
  BY <1>1, <1>2, <1>3, <1>4 DEF Next, Loop

LEMMA TypesKeep ==
  TypeOK /\ known \in Discovered /\ [Next]_vars => TypeOK'
<1> SUFFICES ASSUME TypeOK, known \in Discovered, [Next]_vars PROVE TypeOK'
  OBVIOUS
<1>1. known' \in [order : Seq(Ids), ids : SUBSET Ids]
  BY PeersKeep DEF Discovered
<1> USE DEF TypeOK, Steps, States, Connecting, Serving, task, status, transport
<1>2. CASE Handles \/ UNCHANGED vars
  <2>1. CASE SetDisabled
    BY <1>1, <2>1 DEF SetDisabled
  <2>2. CASE SetDhtRecordsProvider
    BY <1>1, <2>2 DEF SetDhtRecordsProvider
  <2>3. CASE OpenTunnel
    BY <1>1, <2>3 DEF OpenTunnel
  <2>4. CASE QueueFrame
    BY <1>1, <2>4 DEF QueueFrame
  <2>5. CASE UNCHANGED vars
    BY <1>1, <2>5 DEF vars
  <2> QED
    BY <1>2, <2>1, <2>2, <2>3, <2>4, <2>5 DEF Handles
<1>3. CASE Connect \/ Dialed \/ Registered \/ Listed
  <2>1. CASE Connect
    BY <1>1, <2>1 DEF Connect, Cleared
  <2>2. CASE Dialed
    <3>1. UNCHANGED <<failures, state, attempts, lastError, known, provider, outbound>>
      BY <2>2 DEF Dialed
    <3>2. /\ pc' \in Steps /\ outcome' \in {"ok", "err"} /\ queued' \in Nat
      BY <2>2, SMT DEF Dialed, Returned
    <3>3. tunnel' \in BOOLEAN
      BY <2>2, Zenon DEF Dialed, Returned
    <3> QED
      BY <1>1, <3>1, <3>2, <3>3
  <2>3. CASE Registered
    <3>1. UNCHANGED <<failures, state, attempts, lastError, known, provider>>
      BY <2>3 DEF Registered
    <3>2. /\ pc' \in Steps /\ outcome' \in {"ok", "err"} /\ queued' \in Nat
          /\ outbound' \in {"none", "live", "dead"}
      BY <2>3, SMT DEF Registered, Returned
    <3>3. tunnel' \in BOOLEAN
      BY <2>3, Zenon DEF Registered, Returned
    <3> QED
      BY <1>1, <3>1, <3>2, <3>3
  <2>4. CASE Listed
    <3>1. UNCHANGED <<failures, state, attempts, lastError, known, provider>>
      BY <2>4 DEF Listed
    <3>2. /\ pc' \in Steps /\ outcome' \in {"ok", "err"} /\ queued' \in Nat
          /\ outbound' \in {"none", "live", "dead"}
      BY <2>4, SMT DEF Listed, Returned
    <3>3. tunnel' \in BOOLEAN
      BY <2>4, Zenon DEF Listed, Returned
    <3> QED
      BY <1>1, <3>1, <3>2, <3>3
  <2> QED
    BY <1>3, <2>1, <2>2, <2>3, <2>4
<1>4. CASE Teardown
  BY <1>1, <1>4 DEF Teardown, Cleared, Returned
<1>5. CASE Report
  <2>1. failures' \in 0..(Counters - 1)
    BY <1>5, ReservationAssumption DEF Report
  <2>2. (attempts + 1) % Counters \in 0..(Counters - 1)
    BY ReservationAssumption
  <2> QED
    BY <1>1, <1>5, <2>1, <2>2 DEF Report
<1>6. CASE Session
  <2> USE DEF Continues, Sends, Ends
  <2>1. CASE Tick \/ ForwardFrame \/ Sent \/ ReadEnd
    BY <1>1, <2>1 DEF Tick, ForwardFrame, Sent, ReadEnd
  <2>2. CASE Ignored \/ RegisterAck \/ Refused \/ PeersNews
    <3>1. CASE Ignored \/ Refused
      BY <1>1, <3>1 DEF Ignored, Refused
    <3>2. CASE RegisterAck
      <4>1. 0 \in 0..(Counters - 1)
        BY ReservationAssumption
      <4> QED
        BY <1>1, <3>2, <4>1 DEF RegisterAck
    <3>3. CASE PeersNews
      BY <1>1, <3>3 DEF PeersNews
    <3> QED
      BY <2>2, <3>1, <3>2, <3>3
  <2>3. ASSUME NEW f, Answered(f) PROVE TypeOK'
    BY <1>1, <2>3 DEF Answered
  <2> QED
    BY <1>6, <2>1, <2>2, <2>3 DEF Session, Handle
<1> QED
  BY <1>2, <1>3, <1>4, <1>5, <1>6 DEF Next, Loop

LEMMA TypesInvariant == Spec => [](TypeOK /\ known \in Discovered)
<1>1. TypeOK /\ known \in Discovered /\ [Next]_vars => (TypeOK /\ known \in Discovered)'
  BY PeersKeep, TypesKeep
<1> QED
  BY InitTyped, <1>1, PTL DEF Spec

\* The order and the index of the discovered peers hold the same ids, each
\* once and within the cap, whatever pages and notices the relay sends, and the
\* status beside them is of one session (DiscoveredPeers, src/relay.rs:284).
THEOREM ReservationCorrect == Spec => []ReservationInv
<1>1. TypeOK /\ known \in Discovered /\ IInv => ReservationInv
  BY DEF Discovered, IInv, StatusInv, ReservationInv, PeersInLockstep
<1> QED
  BY TypesInvariant, Invariant, <1>1, PTL

-----------------------------------------------------------------------------
(* The backoff. *)

\* The powers of two up to the word's.
LEMMA PowersAre ==
  /\ Power[0] = 1
  /\ \A n \in 1..WordBits : Power[n] = 2 * Power[n - 1]
<1> DEFINE Built(f) == [n \in 0..WordBits |-> IF n = 0 THEN 1 ELSE 2 * f[n - 1]]
           step == [n \in 1..WordBits |-> [v \in Nat |-> 2 * v]]
<1>1. WordBits \in Nat
  BY ReservationAssumption
<1>2. \A n \in 1..WordBits : \A v \in Nat : step[n][v] = 2 * v /\ step[n][v] \in Nat
  OBVIOUS
<1> HIDE DEF step
<1>3. PICK f : Iterates(f, WordBits, Nat, 1, step)
  BY <1>1, <1>2, Recursion
<1>4. /\ f \in [0..WordBits -> Nat]
      /\ f[0] = 1 /\ \A n \in 1..WordBits : f[n] = step[n][f[n - 1]]
  BY <1>3 DEF Iterates
<1>5. ASSUME NEW n \in 0..WordBits PROVE f[n] = IF n = 0 THEN 1 ELSE 2 * f[n - 1]
  <2>1. CASE n = 0
    BY <1>4, <2>1
  <2>2. CASE n # 0
    <3>1. n \in 1..WordBits /\ n - 1 \in 0..WordBits
      BY <1>1, <2>2
    <3>2. f[n - 1] \in Nat
      BY <1>4, <3>1
    <3> QED
      BY <1>2, <1>4, <2>2, <3>1, <3>2
  <2> QED
    BY <2>1, <2>2
<1>6. f = Built(f)
  <2>1. f = [n \in 0..WordBits |-> f[n]]
    BY <1>4
  <2> QED
    BY <1>5, <2>1
<1>7. Power = Built(Power)
  <2>1. Power = CHOOSE g : g = Built(g)
    BY DEF Power
  <2> HIDE DEF Built
  <2> QED
    BY <1>6, <2>1
<1>8. \A n \in 0..WordBits : Power[n] = IF n = 0 THEN 1 ELSE 2 * Power[n - 1]
  BY <1>7
<1> QED
  BY <1>1, <1>8

LEMMA PowersPositive == \A n \in 0..WordBits : Power[n] \in Nat /\ Power[n] > 0
<1> DEFINE S == {n \in 0..WordBits : Power[n] \in Nat /\ Power[n] > 0}
<1>1. WordBits \in Nat
  BY ReservationAssumption
<1>2. 0 \in S
  BY <1>1, PowersAre
<1>3. ASSUME NEW n \in 1..WordBits, n - 1 \in S PROVE n \in S
  <2>1. Power[n - 1] \in Nat /\ Power[n - 1] > 0 /\ Power[n] = 2 * Power[n - 1]
    BY <1>3, PowersAre
  <2> QED
    BY <1>1, <2>1
<1>4. 0..WordBits \subseteq S
  <2> HIDE DEF S
  <2> QED
    BY <1>1, <1>2, <1>3, PositionInduction
<1> QED
  BY <1>4

LEMMA PowersSplit ==
  \A n \in 0..WordBits : Power[WordBits] = Power[n] * Power[WordBits - n]
<1> DEFINE S == {n \in 0..WordBits : Power[WordBits] = Power[n] * Power[WordBits - n]}
<1>1. WordBits \in Nat
  BY ReservationAssumption
<1>2. 0 \in S
  <2>1. WordBits \in 0..WordBits /\ WordBits - 0 = WordBits
    BY <1>1
  <2>2. Power[WordBits] \in Nat /\ Power[0] = 1
    BY <2>1, PowersAre, PowersPositive
  <2> QED
    BY <1>1, <2>1, <2>2
<1>3. ASSUME NEW n \in 1..WordBits, n - 1 \in S PROVE n \in S
  <2> DEFINE m == WordBits - n
  <2>1. /\ m \in 0..WordBits /\ m + 1 \in 1..WordBits /\ WordBits - (n - 1) = m + 1
        /\ n - 1 \in 0..WordBits /\ (m + 1) - 1 = m /\ n \in 0..WordBits
    BY <1>1
  <2>2. Power[m + 1] = 2 * Power[m]
    BY <2>1, PowersAre
  <2>3. Power[WordBits] = Power[n - 1] * Power[m + 1]
    BY <1>3, <2>1
  <2>4. Power[n] = 2 * Power[n - 1]
    BY PowersAre
  <2>5. Power[n - 1] \in Nat /\ Power[m] \in Nat
    BY <2>1, PowersPositive
  <2>6. Power[WordBits] = Power[n] * Power[m]
    BY <2>2, <2>3, <2>4, <2>5
  <2> QED
    BY <2>1, <2>6
<1>4. 0..WordBits \subseteq S
  <2> HIDE DEF S
  <2> QED
    BY <1>1, <1>2, <1>3, PositionInduction
<1> QED
  BY <1>4

\* What a remainder is.
LEMMA Remainder ==
  ASSUME NEW a \in Nat, NEW b \in Nat, b > 0
  PROVE  a % b \in 0..(b - 1) /\ \E q \in Nat : a = b * q + (a % b)
<1>1. a % b \in 0..(b - 1) /\ a \div b \in Nat /\ a = b * (a \div b) + (a % b)
  OBVIOUS
<1> QED
  BY <1>1

LEMMA RemainderOf ==
  ASSUME NEW a \in Nat, NEW b \in Nat, b > 0, NEW q \in Nat, NEW r \in 0..(b - 1),
         a = b * q + r
  PROVE  a % b = r
<1>1. PICK k \in Nat : a = b * k + (a % b)
  BY Remainder
<1>2. a % b \in 0..(b - 1)
  BY Remainder
<1> DEFINE s == a % b
<1>3. s \in 0..(b - 1) /\ b * k + s = b * q + r
  BY <1>1, <1>2
<1> HIDE DEF s
<1>4. b * (k - q) = r - s /\ k - q \in Int
  BY <1>3
<1>5. k - q = 0
  <2>1. CASE k - q >= 1
    <3>1. b * (k - q) >= b
      BY <1>4, <2>1
    <3> QED
      BY <1>3, <1>4, <3>1
  <2>2. CASE k - q <= -1
    <3>1. b * (k - q) <= -b
      BY <1>4, <2>2
    <3> QED
      BY <1>3, <1>4, <3>1
  <2> QED
    BY <1>4, <2>1, <2>2
<1>6. s = r
  BY <1>3, <1>4, <1>5
<1> QED
  BY <1>6 DEF s

\* The shift is safe: no bit of the base is lost before the delay is past the
\* cap, and the lowest bit is never lost.
ShiftIsSafe ==
  /\ BaseSecs % 2 = 1
  /\ BaseSecs * CapSecs <= Power[WordBits]

\* A shift that loses bits is past the cap.
LEMMA ShiftPastCap ==
  ASSUME ShiftIsSafe, NEW n \in 0..(WordBits - 1), BaseSecs * Power[n] >= Power[WordBits]
  PROVE  (BaseSecs * Power[n]) % Power[WordBits] >= CapSecs
<1> DEFINE k == WordBits - n
           P == Power[n]
           Q == Power[k]
           W == Power[WordBits]
<1>1. /\ WordBits \in Nat /\ WordBits > 0 /\ BaseSecs \in Nat /\ CapSecs \in Nat
      /\ BaseSecs > 0
  BY ReservationAssumption
<1>2. k \in 1..WordBits /\ k - 1 \in 0..WordBits /\ n \in 0..WordBits /\ WordBits \in 0..WordBits
  BY <1>1
<1>3. P \in Nat /\ P > 0 /\ Q \in Nat /\ Q > 0 /\ W \in Nat /\ W > 0
  BY <1>2, PowersPositive
<1>4. W = P * Q
  BY <1>2, PowersSplit
<1>5. PICK h \in Nat : Q = 2 * h
  BY <1>2, PowersAre, PowersPositive
<1>6. PICK q \in Nat, r \in 0..(Q - 1) : BaseSecs = Q * q + r
  <2>1. BaseSecs % Q \in 0..(Q - 1) /\ \E q \in Nat : BaseSecs = Q * q + (BaseSecs % Q)
    BY <1>1, <1>3, Remainder
  <2> QED
    BY <2>1
<1> HIDE DEF P, Q, W, k
<1>7. r # 0
  <2>1. CASE r = 0
    <3>1. BaseSecs = 2 * (h * q) /\ h * q \in Nat
      BY <1>1, <1>5, <1>6, <2>1
    <3> DEFINE z == h * q
    <3>2. z \in Nat /\ BaseSecs = 2 * z
      BY <3>1
    <3> HIDE DEF z
    <3>3. BaseSecs % 2 = 0
      BY <3>2
    <3> QED
      BY <3>3 DEF ShiftIsSafe
  <2> QED
    BY <2>1
<1>8. (BaseSecs * P) % W = P * r
  <2>1. BaseSecs * P = W * q + P * r
    BY <1>1, <1>3, <1>4, <1>6
  <2>2. P * r \in Nat /\ P * r <= P * (Q - 1) /\ P * (Q - 1) = W - P
    BY <1>3, <1>4, <1>6
  <2>3. P * r \in 0..(W - 1)
    BY <1>3, <2>2
  <2>4. BaseSecs * P \in Nat
    BY <1>1, <1>3
  <2> QED
    BY <1>3, <1>6, <2>1, <2>3, <2>4, RemainderOf
<1>9. P >= CapSecs
  <2>1. BaseSecs * P >= BaseSecs * CapSecs
    <3>1. BaseSecs * P >= W /\ W >= BaseSecs * CapSecs
      BY DEF ShiftIsSafe, P, W
    <3>2. BaseSecs * P \in Nat /\ BaseSecs * CapSecs \in Nat
      BY <1>1, <1>3
    <3> QED
      BY <1>3, <3>1, <3>2
  <2>2. CASE P < CapSecs
    <3>1. BaseSecs * P < BaseSecs * CapSecs
      BY <1>1, <1>3, <2>2
    <3> QED
      BY <1>1, <1>3, <2>1, <3>1
  <2> QED
    BY <1>1, <1>3, <2>2
<1>10. P * r >= P
  BY <1>3, <1>6, <1>7
<1>11. (BaseSecs * P) % W >= CapSecs
  BY <1>1, <1>3, <1>6, <1>8, <1>9, <1>10
<1> QED
  BY <1>11 DEF P, W

LEMMA ShiftTyped == \A n \in Nat : Shifted(n) \in Nat
<1> SUFFICES ASSUME NEW n \in Nat PROVE Shifted(n) \in Nat
  OBVIOUS
<1>1. CASE n < WordBits
  <2>1. n \in 0..WordBits /\ WordBits \in 0..WordBits /\ BaseSecs \in Nat
    BY <1>1, ReservationAssumption
  <2>2. /\ Power[n] \in Nat /\ Power[WordBits] \in Nat /\ Power[WordBits] > 0
        /\ BaseSecs * Power[n] \in Nat
    BY <2>1, PowersPositive
  <2>3. (BaseSecs * Power[n]) % Power[WordBits] \in 0..(Power[WordBits] - 1)
    BY <2>2, Remainder
  <2> QED
    BY <1>1, <2>2, <2>3 DEF Shifted
<1>2. CASE ~(n < WordBits)
  BY <1>2, ReservationAssumption DEF Shifted
<1> QED
  BY <1>1, <1>2

\* The wait is between the base and the cap.
LEMMA BackoffTyped == \A n \in Nat : Backoff(n) \in BaseSecs..CapSecs
  BY ShiftTyped, ReservationAssumption DEF Backoff, Clamped

LEMMA BackoffGrows ==
  ASSUME ShiftIsSafe, NEW n \in Nat
  PROVE  Backoff(n + 1) >= Backoff(n)
<1>1. /\ WordBits \in Nat /\ BaseSecs \in Nat /\ CapSecs \in Nat
      /\ 0 < BaseSecs /\ BaseSecs <= CapSecs
  BY ReservationAssumption
<1>2. Shifted(n) \in Nat /\ Shifted(n + 1) \in Nat
  BY ShiftTyped
<1>3. Shifted(n + 1) >= CapSecs \/ Shifted(n + 1) >= Shifted(n)
  <2>1. CASE ~(n + 1 < WordBits)
    BY <1>1, <2>1 DEF Shifted
  <2>2. CASE n + 1 < WordBits /\ BaseSecs * Power[n + 1] >= Power[WordBits]
    <3>1. n + 1 \in 0..(WordBits - 1)
      BY <1>1, <2>2
    <3> QED
      BY <2>2, <3>1, ShiftPastCap DEF Shifted
  <2>3. CASE n + 1 < WordBits /\ ~(BaseSecs * Power[n + 1] >= Power[WordBits])
    <3> DEFINE a == BaseSecs * Power[n]
               b == BaseSecs * Power[n + 1]
               W == Power[WordBits]
    <3>1. n + 1 \in 1..WordBits /\ (n + 1) - 1 = n /\ n \in 0..WordBits /\ n < WordBits
          /\ WordBits \in 0..WordBits /\ n + 1 \in 0..WordBits
      BY <1>1, <2>3
    <3>2. Power[n + 1] = 2 * Power[n] /\ Power[n] \in Nat /\ W \in Nat /\ W > 0
      BY <3>1, PowersAre, PowersPositive
    <3>3. a \in Nat /\ b \in Nat /\ b = 2 * a
      BY <1>1, <3>2
    <3>4. Shifted(n) = a % W /\ Shifted(n + 1) = b % W
      BY <2>3, <3>1 DEF Shifted
    <3>5. b < W
      BY <2>3, <3>2, <3>3
    <3> HIDE DEF a, b, W
    <3>6. a \in 0..(W - 1) /\ b \in 0..(W - 1) /\ a = W * 0 + a /\ b = W * 0 + b
      BY <3>2, <3>3, <3>5
    <3>7. a % W = a /\ b % W = b
      BY <3>2, <3>3, <3>6, RemainderOf
    <3> QED
      BY <3>3, <3>4, <3>7
  <2> QED
    BY <2>1, <2>2, <2>3
<1> QED
  BY <1>1, <1>2, <1>3 DEF Backoff, Clamped

\* The first wait is the base: its shift by nothing is within the word.
LEMMA BackoffStarts ==
  ASSUME ShiftIsSafe PROVE Backoff(0) = BaseSecs
<1>1. /\ WordBits \in Nat /\ WordBits > 0 /\ BaseSecs \in Nat /\ CapSecs \in Nat
      /\ 0 < BaseSecs /\ BaseSecs <= CapSecs
  BY ReservationAssumption
<1>2. WordBits \in 1..WordBits /\ WordBits \in 0..WordBits /\ WordBits - 1 \in 0..WordBits
  BY <1>1
<1> DEFINE W == Power[WordBits]
           H == Power[WordBits - 1]
<1>3. W = 2 * H /\ H \in Nat /\ W \in Nat /\ W > 0 /\ Power[0] = 1
  BY <1>2, PowersAre, PowersPositive
<1>4. BaseSecs <= BaseSecs * CapSecs /\ BaseSecs * CapSecs <= W /\ BaseSecs * CapSecs \in Nat
  BY <1>1 DEF ShiftIsSafe
<1> HIDE DEF W, H
<1>5. BaseSecs <= W /\ BaseSecs # W
  <2>1. BaseSecs % 2 = 1
    BY DEF ShiftIsSafe
  <2> QED
    BY <1>1, <1>3, <1>4, <2>1
<1>6. BaseSecs \in 0..(W - 1) /\ BaseSecs = W * 0 + BaseSecs
  BY <1>1, <1>3, <1>5
<1>7. BaseSecs % W = BaseSecs
  BY <1>1, <1>3, <1>6, RemainderOf
<1>8. Shifted(0) = BaseSecs
  BY <1>1, <1>3, <1>7 DEF Shifted, W
<1> QED
  BY <1>1, <1>8 DEF Backoff, Clamped

\* Only the end of an iteration counts a failure.
LEMMA FailuresStep == [Next]_vars => Report \/ failures' = failures
<1> SUFFICES ASSUME [Next]_vars PROVE Report \/ failures' = failures
  OBVIOUS
<1>1. CASE Handles \/ UNCHANGED vars
  BY <1>1 DEF Handles, SetDisabled, SetDhtRecordsProvider, OpenTunnel, QueueFrame, vars, task
<1>2. CASE Connect \/ Dialed \/ Registered \/ Listed \/ Teardown
  BY <1>2 DEF Connect, Dialed, Registered, Listed, Teardown
<1>3. CASE Session
  <2>1. CASE Tick \/ ForwardFrame \/ Sent \/ ReadEnd
    BY <2>1 DEF Tick, ForwardFrame, Sent, ReadEnd
  <2>2. CASE Ignored \/ RegisterAck \/ Refused \/ PeersNews
    BY <2>2 DEF Ignored, RegisterAck, Refused, PeersNews
  <2>3. ASSUME NEW f, Answered(f) PROVE failures' = failures
    BY <2>3 DEF Answered
  <2> QED
    BY <1>3, <2>1, <2>2, <2>3 DEF Session, Handle
<1> QED
  BY <1>1, <1>2, <1>3 DEF Next, Loop

\* One more failure never shortens the wait when the shift is safe, as it is of
\* the default 5 and 300 seconds in a word of 64 bits (backoff_secs_with).
THEOREM BackoffHolds == ShiftIsSafe => (Spec => BackoffNeverShrinks)
<1> SUFFICES ASSUME ShiftIsSafe PROVE Spec => BackoffNeverShrinks
  OBVIOUS
<1>1. TypeOK /\ [Next]_vars => [failures' > failures => Backoff(failures') >= Backoff(failures)]_vars
  <2> SUFFICES ASSUME TypeOK, [Next]_vars, failures' > failures
               PROVE  Backoff(failures') >= Backoff(failures)
    OBVIOUS
  <2>1. failures \in Nat
    BY ReservationAssumption DEF TypeOK
  <2>2. failures' = failures + 1
    BY <2>1, FailuresStep DEF Report
  <2> QED
    BY <2>1, <2>2, BackoffGrows
<1> QED
  BY TypesInvariant, <1>1, PTL DEF Spec, BackoffNeverShrinks

-----------------------------------------------------------------------------
(* The loop as its status shows it.                                         *)

LEMMA RetryInit == ShiftIsSafe /\ Init => Retry!Init
  BY BackoffStarts DEF Init, Retry!Init

LEMMA RetryStep == ShiftIsSafe /\ TypeOK /\ [Next]_vars => [Retry!Next]_Retry!vars
<1> SUFFICES ASSUME ShiftIsSafe, TypeOK, [Next]_vars PROVE [Retry!Next]_Retry!vars
  OBVIOUS
<1> DEFINE shown == IF pc = "off" THEN "idle" ELSE IF pc = "sleep" THEN "waiting"
                    ELSE IF state = "connected" THEN "held" ELSE "trying"
           wait == Backoff(failures)
<1>1. failures \in Nat /\ wait \in BaseSecs..CapSecs
  BY BackoffTyped, ReservationAssumption DEF TypeOK
<1>2. CASE Report
  <2>1. shown \in {"trying", "held"} /\ shown' = "waiting"
    BY <1>2 DEF Report
  <2>2. CASE outcome = "ok"
    <3>1. wait' = BaseSecs
      BY <1>2, <2>2, BackoffStarts DEF Report
    <3> QED
      BY <2>1, <3>1 DEF Retry!Next, Retry!Close
  <2>3. CASE outcome # "ok"
    <3>1. failures' \in Nat /\ (failures' = failures \/ failures' = failures + 1)
      BY <1>1, <1>2, <2>3 DEF Report
    <3>2. wait' \in BaseSecs..CapSecs /\ wait' >= wait
      BY <1>1, <3>1, BackoffTyped, BackoffGrows, ReservationAssumption
    <3>3. wait' \in wait..CapSecs
      BY <1>1, <3>2, ReservationAssumption
    <3> QED
      BY <2>1, <3>3 DEF Retry!Next, Retry!Fail
  <2> QED
    BY <2>2, <2>3
<1>3. CASE ~Report
  <2>1. wait' = wait
    BY <1>3, FailuresStep
  <2>2. CASE Connect
    <3>1. shown \in {"idle", "waiting"} /\ shown' = "trying"
      BY <2>2 DEF Connect
    <3> QED
      BY <2>1, <3>1 DEF Retry!Next, Retry!Try
  <2>3. CASE RegisterAck
    <3>1. shown \in {"trying", "held"} /\ shown' = "held"
      BY <2>3 DEF RegisterAck, Continues
    <3> QED
      BY <2>1, <3>1 DEF Retry!Next, Retry!Hold, Retry!vars
  <2>4. ASSUME shown' = shown PROVE [Retry!Next]_Retry!vars
    BY <2>1, <2>4 DEF Retry!vars
  <2>5. CASE Handles \/ UNCHANGED vars
    <3>1. shown' = shown
      BY <2>5 DEF Handles, SetDisabled, SetDhtRecordsProvider, OpenTunnel, QueueFrame, vars,
             task, status
    <3> QED
      BY <2>4, <3>1
  <2>6. CASE Dialed \/ Registered \/ Listed \/ Teardown
    <3>1. shown' = shown
      BY <2>6 DEF Dialed, Registered, Listed, Teardown, Returned, status
    <3> QED
      BY <2>4, <3>1
  <2>7. CASE Session /\ ~RegisterAck
    <3> USE DEF Continues, Sends, Ends, status
    <3>1. CASE Tick \/ ForwardFrame \/ Sent \/ ReadEnd
      <4>1. shown' = shown
        BY <3>1 DEF Tick, ForwardFrame, Sent, ReadEnd
      <4> QED
        BY <2>4, <4>1
    <3>2. CASE Ignored \/ Refused \/ PeersNews
      <4>1. shown' = shown
        BY <3>2 DEF Ignored, Refused, PeersNews
      <4> QED
        BY <2>4, <4>1
    <3>3. ASSUME NEW f, Answered(f) PROVE [Retry!Next]_Retry!vars
      <4>1. shown' = shown
        BY <3>3 DEF Answered
      <4> QED
        BY <2>4, <4>1
    <3> QED
      BY <2>7, <3>1, <3>2, <3>3 DEF Session, Handle
  <2> QED
    BY <1>3, <2>2, <2>3, <2>5, <2>6, <2>7 DEF Next, Loop
<1> QED
  BY <1>2, <1>3

\* What the status shows is a loop that tries, perhaps holds, and waits between
\* the base and the cap, no shorter after one more failure: RetryLoop, but for
\* its fairness (run_relay_connection_with, src/relay.rs:1200).
THEOREM LoopRetries == ShiftIsSafe => (Spec => Retry!Loop)
<1> SUFFICES ASSUME ShiftIsSafe PROVE Spec => Retry!Loop
  OBVIOUS
<1>1. Init => Retry!Init
  BY RetryInit
<1>2. TypeOK /\ [Next]_vars => [Retry!Next]_Retry!vars
  BY RetryStep
<1> QED
  BY TypesInvariant, <1>1, <1>2, PTL DEF Spec, Retry!Loop
================================================================================
