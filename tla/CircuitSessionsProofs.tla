------------------------ MODULE CircuitSessionsProofs ------------------------
(***************************************************************************)
(* OneSessionPerPair, for every set of peers and every bound: SessionsInv   *)
(* of CircuitSessions is inductive beside RegistryInv.                      *)
(***************************************************************************)
EXTENDS CircuitSessions, RelayCircuitsProofs

-----------------------------------------------------------------------------
(* What a step does to the dials of a pair.  Every action is shown to be    *)
(* one of these, and PairInv follows from them alone.                       *)

(* The ClientHello of the dial i of p to q becomes the opening frame of q's *)
(* registered server.                                                       *)
Accepted(p, q, i) == Pending(p, q, i) /\ ~Pending(p, q, i)' /\ Serves(q, p, i)'

PendingFollows ==
  \A p, q \in Peers, i \in TunnelIds :
    Pending(p, q, i)' =>
      \/ Pending(p, q, i)
      \/ i = nextId[p] /\ nextId'[p] = i + 1 /\ Entry(p, q)'.id = i

HeardFollows ==
  \A p, q \in Peers, i \in TunnelIds :
    Heard(p, q, i)' => Heard(p, q, i) \/ Accepted(p, q, i)

AnsweredFollows ==
  \A p, q \in Peers, i \in TunnelIds :
    Answered(p, q, i)' =>
      \/ Answered(p, q, i)
      \/ /\ Entry(p, q).role = "client" /\ Entry(p, q).id = i
         /\ Entry(p, q)'.role = "client" /\ Heard(p, q, i)

ServesFollows ==
  \A p, q \in Peers, i \in TunnelIds :
    Serves(q, p, i)' => Serves(q, p, i) \/ Pending(p, q, i)

SameEntry(p, q) ==
  /\ Entry(p, q) # NoEntry
  /\ Entry(p, q)'.id = Entry(p, q).id /\ Entry(p, q)'.role = Entry(p, q).role

EntriesFollow ==
  \A p, q \in Peers :
    /\ nextId[p] <= nextId'[p]
    /\ Entry(p, q)' = NoEntry \/ SameEntry(p, q) \/ Entry(p, q)'.id = nextId[p]

PairStep ==
  PendingFollows /\ HeardFollows /\ AnsweredFollows /\ ServesFollows /\ EntriesFollow

LEMMA EntryTypes ==
  ASSUME TypeOK, NEW p \in Peers, NEW q \in Peers
  PROVE  /\ nextId[p] \in Nat
         /\ Entry(p, q) \in Entries
         /\ Entry(p, q) # NoEntry => Entry(p, q).id \in TunnelIds
         /\ Entry(p, q).role = "client" \/ Entry(p, q).role = "server" => Entry(p, q) # NoEntry
<1>1. nextId[p] \in Nat /\ tunnels[p][q] \in Entries
  BY DEF TypeOK
<1>2. tunnels[p][q] # NoEntry => tunnels[p][q].id \in TunnelIds
  BY <1>1 DEF Entries
<1>3. tunnels[p][q].role = "client" \/ tunnels[p][q].role = "server" =>
        tunnels[p][q] # NoEntry
  BY DEF NoEntry
<1> QED
  BY <1>1, <1>2, <1>3 DEF Entry

LEMMA AnsweredIsHeard ==
  ASSUME NEW p, NEW q, NEW i, Answered(p, q, i) PROVE Heard(p, q, i)
BY DEF Heard

LEMMA PairStepKeeps ==
  ASSUME TypeOK, TypeOK', PairInv, PairStep
  PROVE  PairInv'
<1> USE DEF PairStep, PairInv
<1>1. ASSUME NEW p \in Peers, NEW q \in Peers, NEW i \in TunnelIds,
             Pending(p, q, i)' \/ Heard(p, q, i)'
      PROVE  /\ i < nextId'[p]
             /\ Entry(p, q)' # NoEntry => i <= Entry(p, q)'.id
  <2>1. nextId[p] \in Nat /\ nextId'[p] \in Nat /\ i \in Nat
    BY EntryTypes DEF TypeOK, TunnelIds
  <2>2. CASE Pending(p, q, i) \/ Heard(p, q, i)
    <3>1. i < nextId[p] /\ (Entry(p, q) # NoEntry => i <= Entry(p, q).id)
      BY <2>2 DEF LatestEntry
    <3>2. nextId[p] <= nextId'[p]
      BY DEF EntriesFollow
    <3>3. Entry(p, q)' = NoEntry \/ SameEntry(p, q) \/ Entry(p, q)'.id = nextId[p]
      BY DEF EntriesFollow
    <3> QED
      BY <2>1, <3>1, <3>2, <3>3 DEF SameEntry
  <2>3. CASE i = nextId[p] /\ nextId'[p] = i + 1 /\ Entry(p, q)'.id = i
    BY <2>1, <2>3
  <2> QED
    BY <1>1, <2>2, <2>3 DEF PendingFollows, HeardFollows, Accepted
<1>2. ASSUME NEW p \in Peers, NEW q \in Peers
      PROVE  nextId[p] \in TunnelIds => ~Pending(p, q, nextId[p]) /\ ~Heard(p, q, nextId[p])
  BY EntryTypes DEF LatestEntry
<1>3. ASSUME NEW p \in Peers, NEW q \in Peers, NEW i \in TunnelIds,
             Pending(p, q, i)', Heard(p, q, i)'
      PROVE  FALSE
  BY <1>2, <1>3 DEF PendingFollows, HeardFollows, Accepted, PendingUnheard
<1>4. ASSUME NEW p \in Peers, NEW q \in Peers, NEW i \in TunnelIds,
             Entry(p, q)'.role = "client", Entry(p, q)'.id = i, Heard(p, q, i)',
             Entry(q, p)'.role = "client"
      PROVE  Entry(p, q).role = "client" /\ Entry(p, q).id = i /\ Heard(p, q, i)
  <2>1. Entry(p, q)' # NoEntry
    BY <1>4 DEF NoEntry
  <2>2. Heard(p, q, i)
    <3>1. ~Accepted(p, q, i)
      BY <1>4 DEF Accepted, Serves
    <3> QED
      BY <1>4, <2>1, <3>1 DEF HeardFollows
  <2>3. i # nextId[p]
    BY <1>2, <2>1, <2>2
  <2> QED
    BY <1>4, <2>1, <2>2, <2>3 DEF EntriesFollow, SameEntry
<1>5. OneDialHeard'
  <2> SUFFICES ASSUME NEW p \in Peers, NEW q \in Peers,
                      Entry(p, q)'.role = "client", Heard(p, q, Entry(p, q).id)',
                      Entry(q, p)'.role = "client", Heard(q, p, Entry(q, p).id)'
               PROVE  FALSE
    BY DEF OneDialHeard
  <2>a. Entry(p, q)' \in Entries /\ Entry(q, p)' \in Entries
    BY DEF TypeOK, Entry
  <2>1. PICK i \in TunnelIds : i = Entry(p, q)'.id
    BY <2>a DEF Entries, NoEntry
  <2>2. PICK j \in TunnelIds : j = Entry(q, p)'.id
    BY <2>a DEF Entries, NoEntry
  <2>3. Heard(p, q, i)' /\ Heard(q, p, j)'
    BY <2>1, <2>2 
  <2> QED
    BY <1>4, <2>1, <2>2, <2>3 DEF OneDialHeard
<1>6. ASSUME NEW p \in Peers, NEW q \in Peers, NEW i \in TunnelIds,
             Serves(q, p, i)', Answered(p, q, i)
      PROVE  Serves(q, p, i)
  BY <1>6, AnsweredIsHeard DEF ServesFollows, PendingUnheard
<1>7. OneDialAnswered'
  <2> SUFFICES ASSUME NEW p \in Peers, NEW q \in Peers,
                      NEW i \in TunnelIds, NEW j \in TunnelIds,
                      Serves(p, q, j)', Answered(q, p, j)',
                      Serves(q, p, i)', Answered(p, q, i)'
               PROVE  FALSE
    BY DEF OneDialAnswered
  <2>1. Entry(p, q)'.role = "server" /\ Entry(q, p)'.role = "server"
    BY DEF Serves
  <2>2. Answered(q, p, j) /\ Answered(p, q, i)
    BY <2>1 DEF AnsweredFollows
  <2>3. Serves(p, q, j) /\ Serves(q, p, i)
    BY <1>6, <2>2
  <2> QED
    BY <2>2, <2>3 DEF OneDialAnswered
<1>8. LastDialServed'
  <2> SUFFICES ASSUME NEW p \in Peers, NEW q \in Peers,
                      NEW i \in TunnelIds, NEW k \in TunnelIds,
                      Serves(q, p, k)', Answered(p, q, k)', Heard(p, q, i)'
               PROVE  i <= k
    BY DEF LastDialServed
  <2>1. CASE Accepted(p, q, i)
    <3>1. i = k
      BY <2>1 DEF Accepted, Serves, OpenedBy, Hello, Frame
    <3> QED
      BY <3>1 DEF TunnelIds
  <2>2. CASE Heard(p, q, i) /\ ~Answered(p, q, k)
    <3>1. Entry(p, q).role = "client" /\ Entry(p, q).id = k
      BY <2>2 DEF AnsweredFollows
    <3>2. Entry(p, q) # NoEntry
      BY <3>1, EntryTypes
    <3> QED
      BY <2>2, <3>1, <3>2 DEF LatestEntry
  <2>3. CASE Heard(p, q, i) /\ Answered(p, q, k)
    <3>1. Serves(q, p, k)
      BY <1>6, <2>3
    <3> QED
      BY <2>3, <3>1 DEF LastDialServed
  <2> QED
    BY <2>1, <2>2, <2>3 DEF HeardFollows
<1>9. LatestEntry'
  BY <1>1 DEF LatestEntry
<1>10. PendingUnheard'
  BY <1>3 DEF PendingUnheard
<1> QED
  BY <1>5, <1>7, <1>8, <1>9, <1>10

-----------------------------------------------------------------------------
(* Where a frame, a circuit and the reservation loop of the next state come *)
(* from.                                                                    *)

LEMMA HoldsAppend ==
  ASSUME NEW S, NEW s \in Seq(S), NEW g \in S, NEW f
  PROVE  /\ Holds(Append(s, g), f) <=> Holds(s, f) \/ f = g
         /\ Once(s, f) /\ (f = g => ~Holds(s, f)) => Once(Append(s, g), f)
<1>1. /\ Len(Append(s, g)) = Len(s) + 1 /\ Len(s) \in Nat
      /\ \A n \in 1..Len(s) : Append(s, g)[n] = s[n]
      /\ Append(s, g)[Len(s) + 1] = g
  OBVIOUS
<1> QED
  BY <1>1 DEF Holds, Once

LEMMA HoldsTail ==
  ASSUME NEW S, NEW s \in Seq(S), s # <<>>, NEW f
  PROVE  /\ Holds(Tail(s), f) => Holds(s, f)
         /\ Holds(s, Head(s))
         /\ Once(s, f) => Once(Tail(s), f)
         /\ Once(s, f) /\ Head(s) = f => ~Holds(Tail(s), f)
<1>1. /\ Len(Tail(s)) = Len(s) - 1 /\ Len(s) \in Nat /\ Len(s) > 0
      /\ \A n \in 1..(Len(s) - 1) : Tail(s)[n] = s[n + 1]
      /\ Head(s) = s[1]
  OBVIOUS
<1> QED
  BY <1>1 DEF Holds, Once

LEMMA HoldsFront ==
  ASSUME NEW S, NEW s \in Seq(S), s # <<>>, NEW f
  PROVE  /\ Holds(SubSeq(s, 1, Len(s) - 1), f) => Holds(s, f)
         /\ Once(s, f) => Once(SubSeq(s, 1, Len(s) - 1), f)
<1> DEFINE t == SubSeq(s, 1, Len(s) - 1)
<1>1. Len(s) \in Nat /\ Len(s) > 0
  OBVIOUS
<1>2. Len(t) = Len(s) - 1 /\ \A n \in 1..(Len(s) - 1) : t[n] = s[n]
  <2> DEFINE n == Len(s) - 1
  <2>1. n \in Int /\ 1 \in Int /\ n \in Nat /\ n - 1 + 1 = n
    BY <1>1
  <2>2. \A i \in 1..n : s[i] \in S /\ 1 + i - 1 = i
    BY <1>1
  <2>3. t = SubSeq(s, 1, n)
    OBVIOUS
  <2> HIDE DEF n, t
  <2>4. /\ Len(t) = IF 1 <= n THEN n - 1 + 1 ELSE 0
        /\ \A i \in 1..(n - 1 + 1) : t[i] = s[1 + i - 1]
    BY <2>1, <2>2, <2>3, SubSeqProperties
  <2>5. Len(t) = n
    BY <2>1, <2>4
  <2>6. \A i \in 1..n : t[i] = s[i]
    BY <2>1, <2>2, <2>4
  <2> QED
    BY <2>5, <2>6 DEF n
<1> HIDE DEF t
<1> QED
  BY <1>1, <1>2 DEF Holds, Once

(* The circuit j of q is the server's end that the frame in the reservation *)
(* loop's hand opens.                                                       *)
Opens(q, j, p, i) ==
  /\ InGap(q, p) /\ router[q].frame = Hello(p, i) /\ router'[q].pc # "accept"
  /\ tunnels'[q][p].role = "server" /\ tunnels'[q][p].id = j

CircuitFollows(r, j) ==
  LET c == circ[r][j]
      d == circ'[r][j]
  IN
  /\ d.st = "open" =>
       \/ c.st = "open" /\ c.peer = d.peer
       \/ j = nextId[r] /\ nextId'[r] = j + 1 /\ tunnels'[r][d.peer].id = j
  /\ \A p \in Peers, i \in TunnelIds :
       OpenedBy(d, p, i) => OpenedBy(c, p, i) \/ Opens(r, j, p, i)
  /\ \A q \in Peers :
       GivenAnswer(d, r, q, j) =>
         \/ GivenAnswer(c, r, q, j)
         \/ /\ Holds(wire[q][r], ServerHello(r, j))
            /\ tunnels[r][q].role = "client" /\ tunnels[r][q].id = j
            /\ tunnels'[r][q].role = "client"
  /\ \A p \in Peers, i \in TunnelIds :
       GivenFinish(d, p, i) =>
         GivenFinish(c, p, i) \/ Holds(wire[p][r], Finished(p, i))
  /\ OwnTag(d, r, j)

WireFollows(p, q) ==
  /\ \A f \in Frames : Holds(wire'[p][q], f) =>
       \/ Holds(wire[p][q], f)
       \/ f.kind \in {"record", "alert"}
       \/ \E i \in TunnelIds :
            \/ /\ f = Hello(p, i)
               /\ circ[p][i].st = "open" /\ circ[p][i].peer = q
               /\ circ'[p][i].st # "open"
            \/ f = Finished(p, i) /\ GivenAnswer(circ[p][i], p, q, i)
            \/ f = ServerHello(q, i) /\ \E j \in TunnelIds : OpenedBy(circ[p][j], q, i)
  /\ \A i \in TunnelIds : Once(wire[p][q], Hello(p, i)) => Once(wire'[p][q], Hello(p, i))

RouterFollows(q) ==
  router'[q].pc = "accept" =>
    \/ router'[q] = router[q]
    \/ LET s == wire[router'[q].from][q] IN
       /\ s # <<>> /\ router'[q].frame = Head(s)
       /\ wire'[router'[q].from][q] = Tail(s)

StepFollows ==
  /\ \A r \in Peers, j \in TunnelIds : CircuitFollows(r, j)
  /\ \A p, q \in Peers : WireFollows(p, q)
  /\ \A q \in Peers : RouterFollows(q)
  /\ EntriesFollow
  /\ NoSelf'

(* Where a flight under way between two peers comes from. *)
LEMMA HelloSent ==
  ASSUME StepFollows, NEW p \in Peers, NEW q \in Peers, NEW i \in TunnelIds,
         Holds(wire'[p][q], Hello(p, i))
  PROVE  \/ Holds(wire[p][q], Hello(p, i))
         \/ /\ circ[p][i].st = "open" /\ circ[p][i].peer = q
            /\ circ'[p][i].st # "open"
<1>1. Hello(p, i) \in Frames /\ Hello(p, i).kind \notin {"record", "alert"}
  BY DEF Hello, Frame, Frames, Kinds, Tags
<1>2. \A k \in TunnelIds : /\ Hello(p, i) # Finished(p, k) /\ Hello(p, i) # ServerHello(q, k)
                           /\ Hello(p, i) = Hello(p, k) => i = k
  BY DEF Hello, ServerHello, Finished, Frame
<1> QED
  BY <1>1, <1>2 DEF StepFollows, WireFollows

LEMMA FinishedSent ==
  ASSUME StepFollows, NEW p \in Peers, NEW q \in Peers, NEW i \in TunnelIds,
         Holds(wire'[p][q], Finished(p, i))
  PROVE  Holds(wire[p][q], Finished(p, i)) \/ GivenAnswer(circ[p][i], p, q, i)
<1>1. Finished(p, i) \in Frames /\ Finished(p, i).kind \notin {"record", "alert"}
  BY DEF Finished, Frame, Frames, Kinds, Tags
<1>2. \A k \in TunnelIds : /\ Finished(p, i) # Hello(p, k) /\ Finished(p, i) # ServerHello(q, k)
                           /\ Finished(p, i) = Finished(p, k) => i = k
  BY DEF Hello, ServerHello, Finished, Frame
<1> QED
  BY <1>1, <1>2 DEF StepFollows, WireFollows

LEMMA ServerHelloSent ==
  ASSUME StepFollows, NEW p \in Peers, NEW q \in Peers, NEW i \in TunnelIds,
         Holds(wire'[q][p], ServerHello(p, i))
  PROVE  \/ Holds(wire[q][p], ServerHello(p, i))
         \/ \E j \in TunnelIds : OpenedBy(circ[q][j], p, i)
<1>1. ServerHello(p, i) \in Frames /\ ServerHello(p, i).kind \notin {"record", "alert"}
  BY DEF ServerHello, Frame, Frames, Kinds, Tags
<1>2. \A k \in TunnelIds : /\ ServerHello(p, i) # Hello(q, k) /\ ServerHello(p, i) # Finished(q, k)
                           /\ ServerHello(p, i) = ServerHello(p, k) => i = k
  BY DEF Hello, ServerHello, Finished, Frame
<1> QED
  BY <1>1, <1>2 DEF StepFollows, WireFollows

(* The ClientHello that opens a server is nowhere else after the step. *)
LEMMA OpenedWasPending ==
  ASSUME TypeOK, SessionsInv, StepFollows,
         NEW p \in Peers, NEW q \in Peers, NEW i \in TunnelIds, NEW j \in TunnelIds,
         Opens(q, j, p, i)
  PROVE  Pending(p, q, i) /\ ~Pending(p, q, i)'
<1>1. Pending(p, q, i)
  BY DEF Opens, Pending
<1>2. /\ ~Holds(wire[p][q], Hello(p, i))
      /\ ~(circ[p][i].st = "open" /\ circ[p][i].peer = q)
  BY DEF Opens, SessionsInv, HelloOnce
<1>3. ~(circ'[p][i].st = "open" /\ circ'[p][i].peer = q)
  <2>1. i < nextId[p]
    BY <1>1 DEF SessionsInv, PairInv, LatestEntry
  <2> QED
    BY <1>2, <2>1 DEF StepFollows, CircuitFollows, TypeOK
<1>4. ~Holds(wire'[p][q], Hello(p, i))
  BY <1>2, HelloSent
<1>5. ~InGap(q, p)'
  BY DEF Opens, InGap
<1> QED
  BY <1>1, <1>3, <1>4, <1>5 DEF Pending

LEMMA FollowsPending ==
  ASSUME TypeOK, SessionsInv, StepFollows PROVE PendingFollows
<1> SUFFICES ASSUME NEW p \in Peers, NEW q \in Peers, NEW i \in TunnelIds,
                    Pending(p, q, i)', ~Pending(p, q, i)
             PROVE  i = nextId[p] /\ nextId'[p] = i + 1 /\ Entry(p, q)'.id = i
  BY DEF PendingFollows
<1>1. CASE circ'[p][i].st = "open" /\ circ'[p][i].peer = q
  BY <1>1 DEF StepFollows, CircuitFollows, Pending, Entry
<1>2. ~Holds(wire'[p][q], Hello(p, i))
  BY HelloSent DEF Pending
<1>3. ~(InGap(q, p)' /\ router'[q].frame = Hello(p, i))
  <2> SUFFICES ASSUME InGap(q, p)', router'[q].frame = Hello(p, i) PROVE FALSE
    OBVIOUS
  <2>1. router'[q].pc = "accept" /\ router'[q].from = p
    BY DEF InGap
  <2>2. CASE router'[q] = router[q]
    BY <2>1, <2>2 DEF Pending, InGap
  <2>3. CASE wire[p][q] # <<>> /\ Hello(p, i) = Head(wire[p][q])
    <3>1. wire[p][q] \in Seq(Frames)
      BY DEF TypeOK
    <3> QED
      BY <2>3, <3>1, HoldsTail DEF Pending
  <2> QED
    BY <2>1, <2>2, <2>3 DEF StepFollows, RouterFollows
<1> QED
  BY <1>1, <1>2, <1>3 DEF Pending

LEMMA FollowsAnswered ==
  ASSUME TypeOK, SessionsInv, StepFollows PROVE AnsweredFollows
<1> SUFFICES ASSUME NEW p \in Peers, NEW q \in Peers, NEW i \in TunnelIds,
                    Answered(p, q, i)', ~Answered(p, q, i)
             PROVE  /\ Entry(p, q).role = "client" /\ Entry(p, q).id = i
                    /\ Entry(p, q)'.role = "client" /\ Heard(p, q, i)
  BY DEF AnsweredFollows
<1>1. ~Holds(wire'[p][q], Finished(p, i))
  BY FinishedSent DEF Answered
<1>2. ASSUME NEW j \in TunnelIds, GivenFinish(circ'[q][j], p, i) PROVE FALSE
  BY <1>2 DEF StepFollows, CircuitFollows, Answered
<1>3. GivenAnswer(circ'[p][i], p, q, i)
  BY <1>1, <1>2 DEF Answered
<1> QED
  BY <1>3 DEF StepFollows, CircuitFollows, Answered, Heard, Entry

LEMMA FollowsHeard ==
  ASSUME TypeOK, SessionsInv, StepFollows PROVE HeardFollows
<1> SUFFICES ASSUME NEW p \in Peers, NEW q \in Peers, NEW i \in TunnelIds,
                    Heard(p, q, i)', ~Heard(p, q, i)
             PROVE  Accepted(p, q, i)
  BY DEF HeardFollows
<1>1. ~Holds(wire'[q][p], ServerHello(p, i))
  BY ServerHelloSent DEF Heard
<1>2. ~Answered(p, q, i)'
  BY AnsweredIsHeard, FollowsAnswered DEF AnsweredFollows
<1>3. PICK j \in TunnelIds : OpenedBy(circ'[q][j], p, i)
  BY <1>1, <1>2 DEF Heard
<1>4. Opens(q, j, p, i)
  BY <1>3 DEF StepFollows, CircuitFollows, Heard
<1>5. Serves(q, p, i)'
  BY <1>3, <1>4 DEF Opens, Serves, Entry, Current
<1> QED
  BY <1>4, <1>5, OpenedWasPending DEF Accepted

LEMMA FollowsServes ==
  ASSUME TypeOK, TypeOK', UnusedAbove, SessionsInv, StepFollows PROVE ServesFollows
<1> SUFFICES ASSUME NEW p \in Peers, NEW q \in Peers, NEW i \in TunnelIds,
                    Serves(q, p, i)', ~Pending(p, q, i)
             PROVE  Serves(q, p, i)
  BY DEF ServesFollows
<1>1. tunnels'[q][p].role = "server"
  BY DEF Serves, Entry
<1>2. PICK j \in TunnelIds : j = tunnels'[q][p].id
  <2>1. tunnels'[q][p] \in Entries
    BY DEF TypeOK
  <2> QED
    BY <1>1, <2>1 DEF Entries, NoEntry
<1>3. OpenedBy(circ'[q][j], p, i)
  BY <1>2 DEF Serves, Current
<1>4. OpenedBy(circ[q][j], p, i)
  BY <1>3, OpenedWasPending DEF StepFollows, CircuitFollows
<1>5. tunnels'[q][p] # NoEntry
  BY <1>1 DEF NoEntry
<1>6. j # nextId[q]
  BY <1>4 DEF UnusedAbove, OpenedBy, TunnelIds
<1>7. SameEntry(q, p)
  BY <1>2, <1>5, <1>6 DEF StepFollows, EntriesFollow, Entry
<1> QED
  BY <1>1, <1>2, <1>4, <1>7 DEF SameEntry, Serves, Entry, Current

LEMMA FollowsHelloOnce ==
  ASSUME TypeOK, SessionsInv, StepFollows PROVE HelloOnce'
<1> SUFFICES ASSUME NEW p \in Peers, NEW q \in Peers, NEW i \in TunnelIds
             PROVE  /\ Once(wire'[p][q], Hello(p, i))
                    /\ circ'[p][i].st = "open" /\ circ'[p][i].peer = q =>
                         ~Holds(wire'[p][q], Hello(p, i))
                    /\ InGap(q, p)' /\ router'[q].frame = Hello(p, i) =>
                         /\ ~Holds(wire'[p][q], Hello(p, i))
                         /\ ~(circ'[p][i].st = "open" /\ circ'[p][i].peer = q)
  BY DEF HelloOnce
<1>1. /\ Once(wire[p][q], Hello(p, i))
      /\ circ[p][i].st = "open" /\ circ[p][i].peer = q =>
           ~Holds(wire[p][q], Hello(p, i))
      /\ InGap(q, p) /\ router[q].frame = Hello(p, i) =>
           /\ ~Holds(wire[p][q], Hello(p, i))
           /\ ~(circ[p][i].st = "open" /\ circ[p][i].peer = q)
  BY DEF SessionsInv, HelloOnce
<1>2. Once(wire'[p][q], Hello(p, i))
  BY <1>1 DEF StepFollows, WireFollows
<1>3. circ'[p][i].st = "open" /\ circ'[p][i].peer = q =>
        \/ circ[p][i].st = "open" /\ circ[p][i].peer = q
        \/ i = nextId[p]
  BY DEF StepFollows, CircuitFollows
<1>4. i = nextId[p] => ~Pending(p, q, i)
  BY DEF SessionsInv, PairInv, LatestEntry, TunnelIds
<1>5. ASSUME circ'[p][i].st = "open", circ'[p][i].peer = q
      PROVE  ~Holds(wire'[p][q], Hello(p, i))
  BY <1>1, <1>3, <1>4, <1>5, HelloSent DEF Pending
<1>6. ASSUME InGap(q, p)', router'[q].frame = Hello(p, i)
      PROVE  /\ ~Holds(wire'[p][q], Hello(p, i))
             /\ ~(circ'[p][i].st = "open" /\ circ'[p][i].peer = q)
  <2>1. router'[q].pc = "accept" /\ router'[q].from = p
    BY <1>6 DEF InGap
  <2>2. CASE router'[q] = router[q]
    <3>1. InGap(q, p) /\ router[q].frame = Hello(p, i)
      BY <1>6, <2>1, <2>2 DEF InGap
    <3> QED
      BY <1>1, <1>3, <1>4, <3>1, HelloSent DEF Pending
  <2>3. CASE /\ wire[p][q] # <<>> /\ Hello(p, i) = Head(wire[p][q])
             /\ wire'[p][q] = Tail(wire[p][q])
    <3>1. wire[p][q] \in Seq(Frames)
      BY DEF TypeOK
    <3>2. Holds(wire[p][q], Hello(p, i)) /\ ~Holds(Tail(wire[p][q]), Hello(p, i))
      BY <1>1, <2>3, <3>1, HoldsTail
    <3> QED
      BY <1>1, <1>3, <1>4, <2>3, <3>2 DEF Pending
  <2> QED
    BY <1>6, <2>1, <2>2, <2>3 DEF StepFollows, RouterFollows
<1> QED
  BY <1>2, <1>5, <1>6

LEMMA FollowsOwnTags ==
  ASSUME TypeOK, TypeOK', SessionsInv, StepFollows PROVE OwnTags'
<1>1. \A p \in Peers, i \in TunnelIds : OwnTag(circ'[p][i], p, i)
  BY DEF StepFollows, CircuitFollows
<1>2. ASSUME NEW p \in Peers, NEW q \in Peers, NEW f, Holds(wire[p][q], f)
      PROVE  OwnHello(f, p)
  BY <1>2 DEF SessionsInv, OwnTags, Holds
<1>3. ASSUME NEW p \in Peers, NEW q \in Peers, NEW n \in 1..Len(wire'[p][q])
      PROVE  OwnHello(wire'[p][q][n], p)
  <2> DEFINE f == wire'[p][q][n]
  <2>1. f \in Frames
    <3>1. wire'[p][q] \in Seq(Frames)
      BY DEF TypeOK
    <3> QED
      BY <3>1
  <2>2. Holds(wire'[p][q], f)
    BY DEF Holds
  <2>3. f.kind \in {"record", "alert"} => OwnHello(f, p)
    BY DEF OwnHello, IsClientHello
  <2>4. ASSUME NEW i \in TunnelIds, f = Hello(p, i) \/ f = Finished(p, i) \/ f = ServerHello(q, i)
        PROVE  OwnHello(f, p)
    BY <2>4 DEF OwnHello, IsClientHello, Hello, Finished, ServerHello, Frame
  <2>5. OwnHello(f, p)
    <3> HIDE DEF f
    <3>1. \/ Holds(wire[p][q], f) \/ f.kind \in {"record", "alert"}
          \/ \E i \in TunnelIds : f = Hello(p, i) \/ f = Finished(p, i) \/ f = ServerHello(q, i)
      BY <2>1, <2>2 DEF StepFollows, WireFollows
    <3> QED
      BY <1>2, <2>3, <2>4, <3>1
  <2> QED
    BY <2>5
<1>4. ASSUME NEW p \in Peers, NEW q \in Peers, InGap(q, p)'
      PROVE  OwnHello(router'[q].frame, p)
  <2>1. router'[q].pc = "accept" /\ router'[q].from = p
    BY <1>4 DEF InGap
  <2>2. CASE router'[q] = router[q]
    BY <2>1, <2>2 DEF InGap, SessionsInv, OwnTags
  <2>3. CASE wire[p][q] # <<>> /\ router'[q].frame = Head(wire[p][q])
    <3>1. wire[p][q] \in Seq(Frames)
      BY DEF TypeOK
    <3> QED
      BY <1>2, <2>3, <3>1, HoldsTail
  <2> QED
    BY <2>1, <2>2, <2>3 DEF StepFollows, RouterFollows
<1> QED
  BY <1>1, <1>3, <1>4 DEF OwnTags

LEMMA FollowsSessionsInv ==
  ASSUME TypeOK, TypeOK', UnusedAbove, SessionsInv, StepFollows
  PROVE  SessionsInv'
<1>1. PairInv'
  BY FollowsPending, FollowsHeard, FollowsAnswered, FollowsServes, PairStepKeeps
     DEF SessionsInv, StepFollows, PairStep
<1> QED
  BY <1>1, FollowsHelloOnce, FollowsOwnTags DEF SessionsInv, StepFollows

-----------------------------------------------------------------------------
(* Every action is such a step.  First what most actions leave alone.       *)

LEMMA SameCircuit ==
  ASSUME SessionsInv, NEW r \in Peers, NEW j \in TunnelIds, circ'[r][j] = circ[r][j]
  PROVE  CircuitFollows(r, j)
BY DEF CircuitFollows, SessionsInv, OwnTags

LEMMA DroppedCircuit ==
  ASSUME NEW r \in Peers, NEW j \in TunnelIds, circ'[r][j] = Blank(r, "gone")
  PROVE  CircuitFollows(r, j)
<1> DEFINE d == circ'[r][j]
<1>1. d.st = "gone" /\ d.role = "client" /\ d.inbox = <<>>
  BY DEF Blank
<1>2. \A f : ~Holds(d.inbox, f)
  BY <1>1 DEF Holds
<1> QED
  BY <1>1, <1>2 DEF CircuitFollows, OpenedBy, GivenAnswer, GivenFinish, OwnTag,
                    HeldPhases, ClientPhases, ServerPhases

LEMMA OneCircuit ==
  ASSUME TypeOK, SessionsInv, NEW p \in Peers, NEW i \in TunnelIds, NEW d,
         circ' = [circ EXCEPT ![p][i] = d],
         circ'[p][i] = d => CircuitFollows(p, i)
  PROVE  \A r \in Peers, j \in TunnelIds : CircuitFollows(r, j)
<1> SUFFICES ASSUME NEW r \in Peers, NEW j \in TunnelIds PROVE CircuitFollows(r, j)
  OBVIOUS
<1>1. circ \in [Peers -> [TunnelIds -> Circuits]]
  BY DEF TypeOK
<1>2. CASE r = p /\ j = i
  BY <1>1, <1>2
<1>3. CASE ~(r = p /\ j = i)
  <2>1. circ'[r][j] = circ[r][j]
    BY <1>1, <1>3
  <2> QED
    BY <2>1, SameCircuit
<1> QED
  BY <1>2, <1>3

LEMMA SameWire ==
  ASSUME NEW p, NEW q, wire'[p][q] = wire[p][q] PROVE WireFollows(p, q)
BY DEF WireFollows

(* A frame leaves a link, at either end. *)
LEMMA FrameLeaves ==
  ASSUME TypeOK, NEW p \in Peers, NEW q \in Peers, wire[p][q] # <<>>,
         \/ wire' = [wire EXCEPT ![p][q] = Tail(wire[p][q])]
         \/ wire' = [wire EXCEPT ![p][q] = SubSeq(wire[p][q], 1, Len(wire[p][q]) - 1)],
         NEW a \in Peers, NEW b \in Peers
  PROVE  WireFollows(a, b)
<1>1. wire[p][q] \in Seq(Frames) /\ wire \in [Peers -> [Peers -> Seq(Frames)]]
  BY DEF TypeOK
<1>2. CASE a = p /\ b = q
  <2>1. \/ wire'[p][q] = Tail(wire[p][q])
        \/ wire'[p][q] = SubSeq(wire[p][q], 1, Len(wire[p][q]) - 1)
    BY <1>1
  <2>2. ASSUME NEW f PROVE /\ Holds(wire'[p][q], f) => Holds(wire[p][q], f)
                           /\ Once(wire[p][q], f) => Once(wire'[p][q], f)
    <3>1. CASE wire'[p][q] = Tail(wire[p][q])
      BY <1>1, <3>1, HoldsTail
    <3>2. CASE wire'[p][q] = SubSeq(wire[p][q], 1, Len(wire[p][q]) - 1)
      BY <1>1, <3>2, HoldsFront
    <3> QED
      BY <2>1, <3>1, <3>2
  <2> QED
    BY <1>2, <2>2 DEF WireFollows
<1>3. CASE ~(a = p /\ b = q)
  <2>1. wire'[a][b] = wire[a][b]
    BY <1>1, <1>3
  <2> QED
    BY <2>1, SameWire
<1> QED
  BY <1>2, <1>3

(* A frame is sent on a link, for a reason. *)
LEMMA FrameSent ==
  ASSUME TypeOK, NEW p \in Peers, NEW q \in Peers, NEW f \in Frames, Send(p, q, f),
         \/ f.kind \in {"record", "alert"}
         \/ \E i \in TunnelIds :
              \/ /\ f = Hello(p, i) /\ ~Holds(wire[p][q], Hello(p, i))
                 /\ circ[p][i].st = "open" /\ circ[p][i].peer = q
                 /\ circ'[p][i].st # "open"
              \/ f = Finished(p, i) /\ GivenAnswer(circ[p][i], p, q, i)
              \/ f = ServerHello(q, i) /\ \E j \in TunnelIds : OpenedBy(circ[p][j], q, i),
         NEW a \in Peers, NEW b \in Peers
  PROVE  WireFollows(a, b)
<1>1. wire[p][q] \in Seq(Frames) /\ wire \in [Peers -> [Peers -> Seq(Frames)]]
  BY DEF TypeOK
<1>2. CASE a = p /\ b = q
  <2>1. wire'[p][q] = Append(wire[p][q], f)
    BY <1>1 DEF Send
  <2>2. \A g : Holds(wire'[p][q], g) => Holds(wire[p][q], g) \/ g = f
    BY <1>1, <2>1, HoldsAppend
  <2>3. ASSUME NEW i \in TunnelIds, Once(wire[p][q], Hello(p, i))
        PROVE  Once(wire'[p][q], Hello(p, i))
    <3>1. Hello(p, i) = f => ~Holds(wire[p][q], f)
      <4>1. Hello(p, i).kind = "hello"
        BY DEF Hello, Frame
      <4>2. \A k \in TunnelIds : Hello(p, i) # Finished(p, k) /\ Hello(p, i) # ServerHello(q, k)
        BY DEF Hello, Finished, ServerHello, Frame
      <4> QED
        BY <4>1, <4>2
    <3> QED
      BY <1>1, <2>1, <2>3, <3>1, HoldsAppend
  <2> QED
    BY <1>2, <2>2, <2>3 DEF WireFollows
<1>3. CASE ~(a = p /\ b = q)
  <2>1. wire'[a][b] = wire[a][b]
    BY <1>1, <1>3 DEF Send
  <2> QED
    BY <2>1, SameWire
<1> QED
  BY <1>2, <1>3

LEMMA KeptEntriesFollow ==
  ASSUME TypeOK, EntriesKept, nextId' = nextId PROVE EntriesFollow
BY DEF EntriesFollow, EntriesKept, SameEntry, Entry, TypeOK

(* A step that registers nothing: the circuits, the links and the loops     *)
(* follow, and nobody turns to itself.                                      *)
LEMMA UnregisteredFollows ==
  ASSUME TypeOK, SessionsInv, EntriesKept, nextId' = nextId,
         \A r \in Peers, j \in TunnelIds : CircuitFollows(r, j),
         \A a, b \in Peers : WireFollows(a, b),
         \A r \in Peers : RouterFollows(r),
         \A r \in Peers : r \notin dialing'[r] /\ ~InGap(r, r)'
  PROVE  StepFollows
<1>1. \A r \in Peers : tunnels'[r][r] = NoEntry
  BY DEF EntriesKept, SessionsInv, NoSelf
<1> QED
  BY <1>1, KeptEntriesFollow DEF StepFollows, NoSelf

LEMMA SameRouter ==
  ASSUME SessionsInv, router' = router
  PROVE  \A r \in Peers : RouterFollows(r) /\ ~InGap(r, r)'
BY DEF RouterFollows, InGap, SessionsInv, NoSelf

LEMMA IdleRouter ==
  ASSUME TypeOK, SessionsInv, NEW p \in Peers, router' = [router EXCEPT ![p] = Idle(p)]
  PROVE  \A r \in Peers : RouterFollows(r) /\ ~InGap(r, r)'
<1> SUFFICES ASSUME NEW r \in Peers PROVE RouterFollows(r) /\ ~InGap(r, r)'
  OBVIOUS
<1>1. router'[r] = router[r] \/ router'[r].pc = "idle"
  BY DEF TypeOK, Idle
<1> QED
  BY <1>1 DEF RouterFollows, InGap, SessionsInv, NoSelf

LEMMA DropFollows ==
  ASSUME TypeOK, SessionsInv, NEW p \in Peers, NEW i \in TunnelIds, DropTunnel(p, i),
         \A a, b \in Peers : WireFollows(a, b),
         router' = router \/ router' = [router EXCEPT ![p] = Idle(p)],
         dialing' = dialing
  PROVE  StepFollows
<1>1. EntriesKept /\ nextId' = nextId
  BY DropKeepsEntries DEF DropTunnel
<1>2. \A r \in Peers, j \in TunnelIds : CircuitFollows(r, j)
  BY OneCircuit, DroppedCircuit DEF DropTunnel
<1>3. \A r \in Peers : RouterFollows(r) /\ ~InGap(r, r)'
  BY SameRouter, IdleRouter
<1>4. \A r \in Peers : r \notin dialing'[r]
  BY DEF SessionsInv, NoSelf
<1> QED
  BY <1>1, <1>2, <1>3, <1>4, UnregisteredFollows

-----------------------------------------------------------------------------
(* The dialer, the consumer, the reservation and the network.               *)

LEMMA ReservationFollows ==
  ASSUME TypeOK, SessionsInv, NEW p \in Peers,
         \/ EnableAccept(p) \/ LinkRegister(p) \/ LinkUp(p) \/ LinkDown(p)
         \/ \E q \in Peers : LoseFrame(p, q) \/ Age(p, q)
  PROVE  StepFollows
<1>1. UNCHANGED <<nextId, circ, router, dialing>>
  BY DEF EnableAccept, LinkRegister, LinkUp, LinkDown, LoseFrame, Age
<1>2. EntriesKept
  BY ReservationKeepsEntries
<1>3. \A a, b \in Peers : WireFollows(a, b)
  <2>1. CASE wire' = wire
    BY <2>1, SameWire
  <2>2. ASSUME NEW q \in Peers, LoseFrame(p, q) PROVE \A a, b \in Peers : WireFollows(a, b)
    BY <2>2, FrameLeaves DEF LoseFrame
  <2> QED
    BY <2>1, <2>2 DEF EnableAccept, LinkRegister, LinkUp, LinkDown, Age
<1>4. \A r \in Peers, j \in TunnelIds : CircuitFollows(r, j)
  BY <1>1, SameCircuit
<1>5. \A r \in Peers : r \notin dialing'[r]
  BY <1>1 DEF SessionsInv, NoSelf
<1> QED
  BY <1>1, <1>2, <1>3, <1>4, <1>5, SameRouter, UnregisteredFollows

LEMMA CheckFollows ==
  ASSUME TypeOK, SessionsInv, NEW p \in Peers, NEW q \in Peers, OpenTunnelCheck(p, q)
  PROVE  StepFollows
<1>1. UNCHANGED <<nextId, circ, router, wire, tunnels>>
  BY DEF OpenTunnelCheck
<1>2. EntriesKept
  BY <1>1 DEF EntriesKept
<1>3. \A r \in Peers : r \notin dialing'[r]
  BY DEF OpenTunnelCheck, SessionsInv, NoSelf, TypeOK
<1> QED
  BY <1>1, <1>2, <1>3, SameCircuit, SameWire, SameRouter, UnregisteredFollows

(* A registration overwrites one key with the next id. *)
LEMMA InsertedEntry ==
  ASSUME TypeOK, NEW p \in Peers, NEW q \in Peers, NEW role, NEW st, NEW inbox,
         InsertEntry(p, q, role, st, inbox)
  PROVE  /\ nextId[p] \in TunnelIds /\ nextId'[p] = nextId[p] + 1
         /\ tunnels'[p][q].id = nextId[p] /\ tunnels'[p][q].role = role
         /\ \A a, b \in Peers : ~(a = p /\ b = q) => tunnels'[a][b] = tunnels[a][b]
         /\ EntriesFollow
<1>1. nextId \in [Peers -> Nat \ {0}] /\ tunnels \in [Peers -> [Peers -> Entries]]
  BY DEF TypeOK
<1>2. nextId[p] \in TunnelIds /\ nextId'[p] = nextId[p] + 1
  BY <1>1 DEF InsertEntry
<1>3. tunnels'[p][q] = [role |-> role, id |-> nextId[p], fresh |-> TRUE]
  BY <1>1 DEF InsertEntry
<1>4. \A a, b \in Peers : ~(a = p /\ b = q) => tunnels'[a][b] = tunnels[a][b]
  BY <1>1 DEF InsertEntry
<1>5. \A a \in Peers : nextId[a] <= nextId'[a]
  BY <1>1 DEF InsertEntry
<1>6. EntriesFollow
  BY <1>3, <1>4, <1>5 DEF EntriesFollow, SameEntry, Entry
<1> QED
  BY <1>2, <1>3, <1>4, <1>6

LEMMA RegisterFollows ==
  ASSUME TypeOK, SessionsInv, NEW p \in Peers, NEW q \in Peers, OpenTunnelRegister(p, q)
  PROVE  StepFollows
<1>1. router' = router /\ wire' = wire /\ p # q
  BY DEF OpenTunnelRegister, SessionsInv, NoSelf
<1>2. \A r \in Peers : r \notin dialing'[r]
  BY DEF OpenTunnelRegister, SessionsInv, NoSelf, TypeOK
<1>3. CASE UNCHANGED <<tunnels, nextId, circ>>
  <2>1. EntriesKept
    BY <1>3 DEF EntriesKept
  <2> QED
    BY <1>1, <1>2, <1>3, <2>1, SameCircuit, SameWire, SameRouter, UnregisteredFollows
<1>4. CASE InsertEntry(p, q, "client", "open", <<>>)
  <2> DEFINE n == nextId[p]
             d == [peer |-> q, role |-> "client", st |-> "open", inbox |-> <<>>,
                   tag |-> <<p, n>>]
  <2>1. /\ n \in TunnelIds /\ nextId'[p] = n + 1 /\ tunnels'[p][q].id = n
        /\ \A a \in Peers : tunnels'[a][a] = tunnels[a][a]
        /\ EntriesFollow
    BY <1>1, <1>4, InsertedEntry
  <2>2. circ' = [circ EXCEPT ![p][n] = d]
    BY <1>4 DEF InsertEntry
  <2>3. /\ d.peer = q /\ d.role = "client" /\ d.st = "open" /\ d.tag = <<p, n>>
        /\ \A f : ~Holds(d.inbox, f)
    BY DEF Holds
  <2> HIDE DEF d
  <2>4. circ'[p][n] = d => CircuitFollows(p, n)
    BY <2>1, <2>3 DEF CircuitFollows, OpenedBy, GivenAnswer, GivenFinish, OwnTag, ClientPhases
  <2>5. \A r \in Peers, j \in TunnelIds : CircuitFollows(r, j)
    BY <2>1, <2>2, <2>4, OneCircuit
  <2>6. NoSelf'
    BY <1>1, <1>2, <2>1, SameRouter DEF NoSelf, SessionsInv
  <2> QED
    BY <1>1, <2>1, <2>5, <2>6, SameWire, SameRouter DEF StepFollows
<1> QED
  BY <1>3, <1>4 DEF OpenTunnelRegister

(* The roles of the phases, from OwnTags. *)
LEMMA PhaseRoles ==
  ASSUME TypeOK, SessionsInv, NEW p \in Peers, NEW i \in TunnelIds
  PROVE  LET c == circ[p][i] IN
         /\ c.st \in ClientPhases => c.role = "client" /\ c.tag = <<p, i>>
         /\ c.st \in {"handoff", "queued", "start", "sent"} =>
              c.role = "server" /\ \E k \in TunnelIds : OpenedBy(c, c.peer, k)
         /\ c.st = "up" /\ c.role = "client" => c.tag = <<p, i>>
<1>1. OwnTag(circ[p][i], p, i)
  BY DEF SessionsInv, OwnTags
<1> QED
  BY <1>1 DEF OwnTag, OpenedBy, HeldPhases, ClientPhases, ServerPhases

-----------------------------------------------------------------------------
(* The endpoints of the circuits.                                           *)

(* The circuit i of p reads or writes; the registry stays. *)
LEMMA EndpointFollows ==
  ASSUME TypeOK, SessionsInv, NEW p \in Peers, NEW i \in TunnelIds, NEW d,
         circ' = [circ EXCEPT ![p][i] = d],
         circ'[p][i] = d => CircuitFollows(p, i),
         \A a, b \in Peers : WireFollows(a, b),
         UNCHANGED <<tunnels, nextId, dialing, router>>
  PROVE  StepFollows
<1>1. EntriesKept
  BY DEF EntriesKept
<1>2. \A r \in Peers, j \in TunnelIds : CircuitFollows(r, j)
  BY OneCircuit
<1>3. \A r \in Peers : r \notin dialing'[r]
  BY DEF SessionsInv, NoSelf
<1> QED
  BY <1>1, <1>2, <1>3, SameRouter, UnregisteredFollows

LEMMA AlertSent ==
  ASSUME TypeOK, NEW p \in Peers, NEW q \in Peers,
         Send(p, q, Frame("alert", NoTag(p))) \/ wire' = wire
  PROVE  \A a, b \in Peers : WireFollows(a, b)
<1>1. Frame("alert", NoTag(p)) \in Frames /\ Frame("alert", NoTag(p)).kind = "alert"
  BY DEF Frame, Frames, Kinds, Tags, NoTag
<1> QED
  BY <1>1, FrameSent, SameWire

LEMMA EndFollows ==
  ASSUME TypeOK, SessionsInv, NEW p \in Peers, NEW i \in TunnelIds,
         DialTimeout(p, i) \/ ReadError(p, i) \/ Eof(p, i) \/ Hangup(p, i)
  PROVE  StepFollows
<1>1. DropTunnel(p, i) /\ router' = router /\ dialing' = dialing
  BY DEF DialTimeout, ReadError, Eof, Hangup
<1>2. \A a, b \in Peers : WireFollows(a, b)
  <2>1. circ[p][i].peer \in Peers
    BY TypeOKParts, CircuitFields
  <2> QED
    BY <2>1, AlertSent DEF DialTimeout, ReadError, Eof, Hangup
<1> QED
  BY <1>1, <1>2, DropFollows

LEMMA RecordFollows ==
  ASSUME TypeOK, SessionsInv, NEW p \in Peers, NEW i \in TunnelIds, WriteRecord(p, i)
  PROVE  StepFollows
<1> DEFINE c == circ[p][i]
           f == Frame("record", c.tag)
<1>1. c.peer \in Peers /\ c.tag \in Tags
  BY TypeOKParts, CircuitFields
<1>2. f \in Frames /\ f.kind = "record"
  BY <1>1 DEF Frame, Frames, Kinds
<1>3. \A a, b \in Peers : WireFollows(a, b)
  <2>1. Send(p, c.peer, f)
    BY DEF WriteRecord
  <2> HIDE DEF f, c
  <2> QED
    BY <1>1, <1>2, <2>1, FrameSent
<1>4. UNCHANGED <<tunnels, nextId, circ, dialing, router>>
  BY DEF WriteRecord
<1>5. EntriesKept /\ \A r \in Peers : r \notin dialing'[r]
  BY <1>4 DEF EntriesKept, SessionsInv, NoSelf
<1> QED
  BY <1>3, <1>4, <1>5, SameCircuit, SameRouter, UnregisteredFollows

LEMMA HelloFollows ==
  ASSUME TypeOK, SessionsInv, NEW p \in Peers, NEW i \in TunnelIds, WriteClientHello(p, i)
  PROVE  StepFollows
<1> DEFINE c == circ[p][i]
           d == [c EXCEPT !.st = "wait"]
<1>1. CASE ~CanSend(p)
  BY <1>1, SameWire, DropFollows DEF WriteClientHello
<1>2. CASE CanSend(p)
  <2>1. /\ c.st = "open" /\ Send(p, c.peer, Frame("hello", c.tag))
        /\ circ' = [circ EXCEPT ![p][i] = d]
        /\ UNCHANGED <<tunnels, nextId, dialing, router>>
    BY <1>2 DEF WriteClientHello
  <2>2. c.role = "client" /\ c.tag = <<p, i>>
    BY <2>1, PhaseRoles DEF ClientPhases
  <2>3. c \in Circuits /\ c.peer \in Peers
    BY TypeOKParts, CircuitFields
  <2>4. /\ d.st = "wait" /\ d.role = c.role /\ d.peer = c.peer /\ d.tag = c.tag
        /\ d.inbox = c.inbox
    <3> HIDE DEF c
    <3> QED
      BY <2>3 DEF Circuits
  <2>5. Hello(p, i) \in Frames /\ Send(p, c.peer, Hello(p, i))
    BY <2>1, <2>2 DEF Hello, Frame, Frames, Kinds, Tags
  <2>6. ~Holds(wire[p][c.peer], Hello(p, i))
    BY <2>1, <2>3 DEF SessionsInv, HelloOnce
  <2>7. circ'[p][i] = d
    BY <2>1 DEF TypeOK
  <2> HIDE DEF d
  <2>8. \A a, b \in Peers : WireFollows(a, b)
    BY <2>1, <2>3, <2>4, <2>5, <2>6, <2>7, FrameSent
  <2>9. CircuitFollows(p, i)
    BY <2>1, <2>2, <2>4, <2>7
       DEF CircuitFollows, OpenedBy, GivenAnswer, GivenFinish, OwnTag, ClientPhases
  <2> QED
    BY <2>1, <2>8, <2>9, EndpointFollows
<1> QED
  BY <1>1, <1>2

LEMMA ReadFollows ==
  ASSUME TypeOK, SessionsInv, NEW p \in Peers, NEW i \in TunnelIds, Read(p, i)
  PROVE  StepFollows
<1> DEFINE c == circ[p][i]
           f == Head(c.inbox)
           d == [c EXCEPT !.st = Phase(c), !.tag = f.tag, !.inbox = Tail(c.inbox)]
           Reply == IF c.st = "wait" THEN "finished" ELSE "server_hello"
<1>1. /\ c \in Circuits /\ c.peer \in Peers /\ c.tag \in Tags /\ c.inbox \in Seq(Frames)
      /\ c.inbox # <<>>
  BY TypeOKParts, CircuitFields DEF Read
<1>2. /\ Awaited(c, f)
      /\ circ' = [circ EXCEPT ![p][i] = d]
      /\ UNCHANGED <<tunnels, nextId, dialing, router>>
      /\ \/ c.st \in {"wait", "start"} /\ Send(p, c.peer, Frame(Reply, f.tag))
         \/ c.st \in {"sent", "up"} /\ wire' = wire
  BY DEF Read
<1>3. f \in Frames /\ f = Frame(f.kind, f.tag) /\ f.tag \in Tags
  <2>1. f \in Frames
    BY <1>1
  <2> HIDE DEF f
  <2> QED
    BY <2>1 DEF Frames, Frame
<1>4. Holds(c.inbox, f) /\ \A g : Holds(Tail(c.inbox), g) => Holds(c.inbox, g)
  BY <1>1, HoldsTail
<1>5. circ'[p][i] = d
  BY <1>2 DEF TypeOK
<1>6. /\ d.st = Phase(c) /\ d.role = c.role /\ d.peer = c.peer /\ d.tag = f.tag
      /\ d.inbox = Tail(c.inbox)
  <2> HIDE DEF c, f
  <2> QED
    BY <1>1 DEF Circuits
<1>7. /\ c.st = "wait" => c.role = "client" /\ c.tag = <<p, i>>
      /\ c.st \in {"start", "sent"} =>
           c.role = "server" /\ \E k \in TunnelIds : OpenedBy(c, c.peer, k)
      /\ c.st = "up" /\ c.role = "client" => c.tag = <<p, i>>
  BY PhaseRoles DEF ClientPhases
<1>8. OwnTag(c, p, i)
  BY DEF SessionsInv, OwnTags
<1> HIDE DEF d, c, f
<1>9. CASE c.st = "wait"
  <2>1. /\ f = ServerHello(p, i) /\ d.st = "up" /\ d.tag = <<p, i>>
        /\ c.role = "client" /\ Send(p, c.peer, Finished(p, i))
    BY <1>2, <1>6, <1>7, <1>9 DEF Awaited, Phase, ServerHello, Finished, Frame
  <2>2. GivenAnswer(c, p, c.peer, i)
    BY <1>4, <2>1 DEF GivenAnswer
  <2>3. Finished(p, i) \in Frames
    BY DEF Finished, Frame, Frames, Kinds, Tags
  <2>4. \A a, b \in Peers : WireFollows(a, b)
    BY <1>1, <2>1, <2>2, <2>3, FrameSent DEF c
  <2>5. CircuitFollows(p, i)
    BY <1>4, <1>5, <1>6, <2>1, <2>2
       DEF CircuitFollows, OpenedBy, GivenAnswer, GivenFinish, OwnTag, c
  <2> QED
    BY <1>2, <2>4, <2>5, EndpointFollows
<1>10. CASE c.st = "start"
  <2>1. f.kind = "hello" /\ d.st = "sent" /\ c.role = "server"
    BY <1>2, <1>6, <1>7, <1>10 DEF Awaited, Phase
  <2>2. PICK k \in TunnelIds : OpenedBy(c, c.peer, k)
    BY <1>7, <1>10
  <2>3. f = Hello(c.peer, k)
    BY <1>10, <2>2 DEF OpenedBy, f
  <2>4. Send(p, c.peer, ServerHello(c.peer, k))
    BY <1>2, <1>10, <2>3 DEF ServerHello, Hello, Frame
  <2>5. ServerHello(c.peer, k) \in Frames
    BY <1>1 DEF ServerHello, Frame, Frames, Kinds, Tags
  <2>6. \A a, b \in Peers : WireFollows(a, b)
    BY <1>1, <2>2, <2>4, <2>5, FrameSent DEF c
  <2>7. ASSUME NEW x \in Peers, NEW m \in TunnelIds, OpenedBy(d, x, m)
        PROVE  OpenedBy(c, x, m)
    <3>1. x = c.peer /\ <<x, m>> = f.tag
      BY <1>6, <2>1, <2>7 DEF OpenedBy
    <3>2. m = k
      BY <2>3, <3>1 DEF Hello, Frame
    <3> QED
      BY <2>2, <3>1, <3>2
  <2>8. OpenedBy(d, d.peer, k)
    BY <1>6, <2>1, <2>3 DEF OpenedBy, Hello, Frame
  <2>9. CircuitFollows(p, i)
    BY <1>4, <1>5, <1>6, <2>1, <2>7, <2>8
       DEF CircuitFollows, GivenAnswer, GivenFinish, OwnTag, c
  <2> QED
    BY <1>2, <2>6, <2>9, EndpointFollows
<1>11. CASE c.st \in {"sent", "up"}
  <2>1. /\ d.st = "up" /\ d.tag = c.tag
        /\ c.st = "sent" => f = Frame("finished", c.tag) /\ c.role = "server"
    BY <1>2, <1>6, <1>7, <1>11 DEF Awaited, Phase, Frame
  <2>2. \A a, b \in Peers : WireFollows(a, b)
    BY <1>2, <1>11, SameWire DEF c
  <2>3. ASSUME NEW x \in Peers, NEW m \in TunnelIds
        PROVE  /\ OpenedBy(d, x, m) <=> OpenedBy(c, x, m)
               /\ GivenFinish(d, x, m) => GivenFinish(c, x, m)
    BY <1>4, <1>6, <1>11, <2>1 DEF OpenedBy, GivenFinish, Finished
  <2>4. ASSUME NEW x \in Peers, GivenAnswer(d, p, x, i)
        PROVE  GivenAnswer(c, p, x, i)
    BY <1>4, <1>6, <1>11, <2>1, <2>4 DEF GivenAnswer
  <2>5. OwnTag(d, p, i)
    BY <1>1, <1>6, <1>8, <1>11, <2>1, <2>3
       DEF OwnTag, HeldPhases, ClientPhases, ServerPhases
  <2>6. CircuitFollows(p, i)
    BY <1>5, <2>1, <2>3, <2>4, <2>5 DEF CircuitFollows, c
  <2> QED
    BY <1>2, <2>2, <2>6, EndpointFollows
<1> QED
  BY <1>2, <1>9, <1>10, <1>11

-----------------------------------------------------------------------------
(* The reservation loop and the accept channel.                             *)

(* The frame f, first on its way from q, is put in the inbox of p's entry.  *)
LEMMA DeliveredCircuit ==
  ASSUME TypeOK, EntryIsHeld, ServerHearsHello, SessionsInv,
         NEW p \in Peers, NEW q \in Peers, NEW i \in TunnelIds, NEW f \in Frames,
         tunnels[p][q] # NoEntry, tunnels[p][q].id = i,
         tunnels'[p][q].role = tunnels[p][q].role, Holds(wire[q][p], f),
         circ'[p][i] = [circ[p][i] EXCEPT !.inbox = Append(circ[p][i].inbox, f)]
  PROVE  CircuitFollows(p, i)
<1> DEFINE c == circ[p][i]
           d == circ'[p][i]
<1>1. c \in Circuits /\ c.inbox \in Seq(Frames)
  BY TypeOKParts, CircuitFields
<1>2. /\ d.st = c.st /\ d.role = c.role /\ d.peer = c.peer /\ d.tag = c.tag
      /\ d.inbox = Append(c.inbox, f)
  <2> HIDE DEF c
  <2> QED
    BY <1>1 DEF Circuits, c
<1>3. c.peer = q /\ c.role = tunnels[p][q].role
  BY DEF EntryIsHeld, Entry, Current
<1>4. c.st \in {"handoff", "queued", "start"} => Head(d.inbox) = Head(c.inbox)
  <2>1. c.st \in {"handoff", "queued", "start"} => c.inbox # <<>>
    BY DEF ServerHearsHello
  <2> QED
    BY <1>1, <1>2, <2>1
<1>5. \A g : Holds(d.inbox, g) => Holds(c.inbox, g) \/ g = f
  BY <1>1, <1>2, HoldsAppend
<1>6. OwnTag(c, p, i)
  BY DEF SessionsInv, OwnTags
<1>7. \A x, m : OpenedBy(d, x, m) <=> OpenedBy(c, x, m)
  <2> HIDE DEF c, d
  <2> QED
    BY <1>2, <1>4 DEF OpenedBy
<1>8. OwnTag(d, p, i)
  <2> HIDE DEF c, d
  <2> QED
    BY <1>2, <1>6, <1>7 DEF OwnTag
<1>9. \A x \in Peers : GivenAnswer(d, p, x, i) =>
        \/ GivenAnswer(c, p, x, i)
        \/ x = q /\ c.role = "client" /\ f = ServerHello(p, i)
  <2> HIDE DEF c, d
  <2> QED
    BY <1>2, <1>3, <1>5 DEF GivenAnswer
<1>10. \A x \in Peers, m \in TunnelIds : GivenFinish(d, x, m) =>
         GivenFinish(c, x, m) \/ (x = q /\ f = Finished(x, m))
  <2> HIDE DEF c, d
  <2> QED
    BY <1>2, <1>3, <1>5 DEF GivenFinish
<1> QED
  BY <1>2, <1>3, <1>7, <1>8, <1>9, <1>10 DEF CircuitFollows

LEMMA RouteFollows ==
  ASSUME RegistryInv, SessionsInv, NEW p \in Peers, NEW q \in Peers, RouteRelayed(p, q)
  PROVE  StepFollows
<1> DEFINE f == Head(wire[q][p])
           e == tunnels[p][q]
           i == e.id
<1> USE DEF RegistryInv
<1>1. /\ wire[q][p] \in Seq(Frames) /\ wire[q][p] # <<>> /\ p # q
      /\ wire' = [wire EXCEPT ![q][p] = Tail(wire[q][p])]
      /\ UNCHANGED <<nextId, dialing>>
  BY DEF RouteRelayed, TypeOK
<1>2. f \in Frames /\ Holds(wire[q][p], f)
  BY <1>1, HoldsTail
<1>3. \A a, b \in Peers : WireFollows(a, b)
  BY <1>1, FrameLeaves
<1>4. \A r \in Peers : r \notin dialing'[r]
  BY <1>1 DEF SessionsInv, NoSelf
<1>5. ASSUME tunnels' = [tunnels EXCEPT ![p] = Stamp(tunnels[p], q)]
      PROVE  EntriesKept /\ (e # NoEntry => tunnels'[p][q].role = e.role)
  <2>1. EntriesKept
    BY <1>5, StampKeepsEntries
  <2>2. tunnels \in [Peers -> [Peers -> Entries]] /\ e \in Entries
    BY DEF TypeOK
  <2>3. e # NoEntry => tunnels'[p][q] = [e EXCEPT !.fresh = TRUE]
    BY <1>5, <2>2 DEF Stamp
  <2>4. e # NoEntry => [e EXCEPT !.fresh = TRUE].role = e.role
    <3> HIDE DEF e
    <3> QED
      BY <2>2 DEF Entries
  <2> QED
    BY <2>1, <2>3, <2>4
<1>6. CASE /\ Delivers(e, f) /\ Deliver(p, i, f)
           /\ tunnels' = [tunnels EXCEPT ![p] = Stamp(tunnels[p], q)]
           /\ UNCHANGED router
  <2>1. e # NoEntry /\ i \in TunnelIds
    <3>1. e \in Entries
      BY DEF TypeOK
    <3> QED
      BY <1>6, <3>1 DEF Delivers, Entries
  <2>2. CASE circ' = circ
    BY <1>3, <1>4, <1>5, <1>6, <1>1, <2>2, SameCircuit, SameRouter, UnregisteredFollows
  <2>3. CASE circ' = [circ EXCEPT ![p][i] =
                       [circ[p][i] EXCEPT !.inbox = Append(circ[p][i].inbox, f)]]
    <3>1. tunnels'[p][q].role = e.role /\ EntriesKept
      BY <1>5, <1>6, <2>1
    <3> DEFINE d == [circ[p][i] EXCEPT !.inbox = Append(circ[p][i].inbox, f)]
    <3>2. circ'[p][i] = d => CircuitFollows(p, i)
      BY <1>2, <2>1, <3>1, DeliveredCircuit
    <3>3. \A r \in Peers, j \in TunnelIds : CircuitFollows(r, j)
      <4> HIDE DEF d, f, i
      <4> QED
        BY <2>1, <2>3, <3>2, OneCircuit DEF d
    <3> QED
      BY <1>1, <1>3, <1>4, <1>6, <3>1, <3>3, SameRouter, UnregisteredFollows
  <2> QED
    BY <1>6, <2>2, <2>3 DEF Deliver
<1>7. CASE /\ tunnels' = [tunnels EXCEPT ![p] = Stamp(tunnels[p], q)]
           /\ UNCHANGED <<circ, router>>
  BY <1>1, <1>3, <1>4, <1>5, <1>7, SameCircuit, SameRouter, UnregisteredFollows
<1>8. CASE /\ tunnels' = [tunnels EXCEPT ![p][q] = NoEntry]
           /\ router' = [router EXCEPT ![p] =
                [pc |-> "accept", from |-> q, frame |-> f, id |-> 0]]
           /\ UNCHANGED circ
  <2>1. EntriesKept
    BY <1>8, RemoveKeepsEntries
  <2>2. \A r \in Peers : RouterFollows(r) /\ ~InGap(r, r)'
    <3> SUFFICES ASSUME NEW r \in Peers PROVE RouterFollows(r) /\ ~InGap(r, r)'
      OBVIOUS
    <3>1. CASE r = p
      <4>1. router'[p] = [pc |-> "accept", from |-> q, frame |-> f, id |-> 0]
        BY <1>8 DEF TypeOK
      <4>2. router'[p].from = q /\ router'[p].frame = f
        BY <4>1
      <4>3. wire'[q][p] = Tail(wire[q][p])
        BY <1>1 DEF TypeOK
      <4> QED
        BY <1>1, <3>1, <4>2, <4>3 DEF RouterFollows, InGap
    <3>2. CASE r # p
      <4>1. router'[r] = router[r]
        BY <1>8, <3>2 DEF TypeOK
      <4> QED
        BY <4>1 DEF RouterFollows, InGap, SessionsInv, NoSelf
    <3> QED
      BY <3>1, <3>2
  <2> QED
    BY <1>1, <1>3, <1>4, <1>8, <2>1, <2>2, SameCircuit, UnregisteredFollows
<1> QED
  BY <1>6, <1>7, <1>8 DEF RouteRelayed

LEMMA AcceptFollows ==
  ASSUME RegistryInv, SessionsInv, NEW p \in Peers, AcceptIntroduced(p)
  PROVE  StepFollows
<1> USE DEF RegistryInv
<1> DEFINE q == router[p].from
           f == router[p].frame
           n == nextId[p]
           d == [peer |-> q, role |-> "server", st |-> "handoff", inbox |-> <<f>>,
                 tag |-> NoTag(p)]
<1>1. /\ q \in Peers /\ p # q /\ InGap(p, q) /\ f \in Frames
      /\ UNCHANGED <<dialing, wire>>
  <2>1. router[p] \in RouterStates /\ router[p].pc = "accept"
    BY DEF TypeOK, AcceptIntroduced
  <2>2. q \in Peers /\ f \in Frames
    BY <2>1 DEF RouterStates
  <2> QED
    BY <2>1, <2>2 DEF AcceptIntroduced, InGap, SessionsInv, NoSelf
<1>2. \A r \in Peers : r \notin dialing'[r]
  BY <1>1 DEF SessionsInv, NoSelf
<1>3. \A a, b \in Peers : WireFollows(a, b)
  BY <1>1, SameWire
<1>4. CASE router' = [router EXCEPT ![p] = Idle(p)] /\ UNCHANGED <<tunnels, nextId, circ>>
  <2>1. EntriesKept
    BY <1>4 DEF EntriesKept
  <2> QED
    BY <1>2, <1>3, <1>4, <2>1, SameCircuit, IdleRouter, UnregisteredFollows
<1>5. CASE /\ Admits(p, q, f) /\ InsertEntry(p, q, "server", "handoff", <<f>>)
           /\ router' = [router EXCEPT ![p].pc = "handoff", ![p].id = n]
  <2>1. /\ n \in TunnelIds /\ tunnels'[p][q].id = n /\ tunnels'[p][q].role = "server"
        /\ \A a \in Peers : tunnels'[a][a] = tunnels[a][a]
        /\ EntriesFollow
    BY <1>1, <1>5, InsertedEntry
  <2>2. circ' = [circ EXCEPT ![p][n] = d]
    BY <1>5 DEF InsertEntry
  <2>3. \A r \in Peers : RouterFollows(r) /\ ~InGap(r, r)'
    <3>1. router'[p].pc = "handoff"
      BY <1>5 DEF TypeOK, RouterStates
    <3>2. \A r \in Peers : r # p => router'[r] = router[r]
      BY <1>5 DEF TypeOK
    <3> QED
      BY <3>1, <3>2 DEF RouterFollows, InGap, SessionsInv, NoSelf
  <2>4. router'[p].pc # "accept"
    BY <1>5 DEF TypeOK, RouterStates
  <2>5. f.kind = "hello" /\ \E k \in TunnelIds : f = Hello(q, k)
    BY <1>1, <1>5 DEF Admits, IsClientHello, OwnHello, OwnTags, SessionsInv
  <2>6. /\ d.peer = q /\ d.role = "server" /\ d.st = "handoff" /\ Head(d.inbox) = f
        /\ \A g : Holds(d.inbox, g) => g = f
    BY DEF Holds
  <2> HIDE DEF d, f, q
  <2>7. \A x \in Peers, m \in TunnelIds : OpenedBy(d, x, m) <=> x = q /\ f = Hello(x, m)
    BY <2>6 DEF OpenedBy
  <2>8. \A x \in Peers, m \in TunnelIds : OpenedBy(d, x, m) => Opens(p, n, x, m)
    BY <1>1, <2>1, <2>4, <2>7 DEF Opens, f
  <2>9. \A x \in Peers, m \in TunnelIds : ~GivenFinish(d, x, m) /\ ~GivenAnswer(d, p, x, n)
    BY <2>5, <2>6 DEF GivenFinish, GivenAnswer, Finished, Frame
  <2>10. OwnTag(d, p, n)
    BY <1>1, <2>5, <2>6, <2>7 DEF OwnTag
  <2>11. ASSUME circ'[p][n] = d PROVE CircuitFollows(p, n)
    <3>1. circ'[p][n].st # "open"
      BY <2>6, <2>11
    <3>2. \A x \in Peers, m \in TunnelIds : OpenedBy(circ'[p][n], x, m) => Opens(p, n, x, m)
      BY <2>8, <2>11
    <3>3. \A x \in Peers, m \in TunnelIds :
            ~GivenFinish(circ'[p][n], x, m) /\ ~GivenAnswer(circ'[p][n], p, x, n)
      BY <2>9, <2>11
    <3>4. OwnTag(circ'[p][n], p, n)
      BY <2>10, <2>11
    <3> HIDE DEF n
    <3> QED
      BY <2>1, <3>1, <3>2, <3>3, <3>4 DEF CircuitFollows
  <2>12. \A r \in Peers, j \in TunnelIds : CircuitFollows(r, j)
    BY <2>1, <2>2, <2>11, OneCircuit
  <2>13. NoSelf'
    BY <1>2, <2>1, <2>3 DEF NoSelf, SessionsInv
  <2> QED
    BY <1>3, <2>1, <2>3, <2>12, <2>13 DEF StepFollows
<1> QED
  BY <1>4, <1>5 DEF AcceptIntroduced

(* A server circuit on its way to the consumer changes hands. *)
LEMMA HandedCircuit ==
  ASSUME TypeOK, SessionsInv, NEW p \in Peers, NEW i \in TunnelIds,
         NEW st \in {"queued", "start"}, circ[p][i].st \in {"handoff", "queued"},
         circ'[p][i] = [circ[p][i] EXCEPT !.st = st]
  PROVE  CircuitFollows(p, i)
<1> DEFINE c == circ[p][i]
           d == circ'[p][i]
<1>1. c \in Circuits
  BY TypeOKParts, CircuitFields
<1>2. /\ d.st = st /\ d.role = c.role /\ d.peer = c.peer /\ d.tag = c.tag
      /\ d.inbox = c.inbox
  <2> HIDE DEF c
  <2> QED
    BY <1>1 DEF Circuits, c
<1>3. OwnTag(c, p, i)
  BY DEF SessionsInv, OwnTags
<1> HIDE DEF c, d
<1>4. \A x, m : OpenedBy(d, x, m) <=> OpenedBy(c, x, m)
  BY <1>2 DEF OpenedBy, c
<1>5. \A x, m : GivenFinish(d, x, m) => GivenFinish(c, x, m)
  BY <1>2 DEF GivenFinish
<1>6. \A x : GivenAnswer(d, p, x, i) => GivenAnswer(c, p, x, i)
  BY <1>2 DEF GivenAnswer
<1>7. OwnTag(d, p, i)
  BY <1>2, <1>3, <1>4 DEF OwnTag, HeldPhases, ServerPhases, ClientPhases, c
<1> QED
  BY <1>2, <1>4, <1>5, <1>6, <1>7 DEF CircuitFollows, c, d

LEMMA HandOffFollows ==
  ASSUME RegistryInv, SessionsInv, NEW p \in Peers, HandOff(p)
  PROVE  StepFollows
<1> USE DEF RegistryInv
<1> DEFINE i == router[p].id
<1>1. /\ router[p].pc = "handoff" /\ router' = [router EXCEPT ![p] = Idle(p)]
      /\ UNCHANGED <<dialing, wire>>
  BY DEF HandOff
<1>2. i \in TunnelIds
  <2>1. router[p] \in RouterStates
    BY DEF TypeOK
  <2> QED
    BY <1>1, <2>1 DEF RouterStates
<1>3. circ[p][i].st = "handoff"
  BY <1>1 DEF InOneHand
<1>4. \A a, b \in Peers : WireFollows(a, b)
  BY <1>1, SameWire
<1>5. CASE DropTunnel(p, i)
  BY <1>1, <1>2, <1>4, <1>5, DropFollows
<1>6. CASE circ' = [circ EXCEPT ![p][i].st = "queued"] /\ UNCHANGED <<tunnels, nextId>>
  <2> DEFINE d == [circ[p][i] EXCEPT !.st = "queued"]
  <2>1. circ'[p][i] = d => CircuitFollows(p, i)
    BY <1>2, <1>3, HandedCircuit
  <2>2. circ' = [circ EXCEPT ![p][i] = d]
    BY <1>6
  <2>3. \A r \in Peers, j \in TunnelIds : CircuitFollows(r, j)
    <3> HIDE DEF d, i
    <3> QED
      BY <1>2, <2>1, <2>2, OneCircuit
  <2>4. EntriesKept
    BY <1>6 DEF EntriesKept
  <2>5. \A r \in Peers : r \notin dialing'[r]
    BY <1>1 DEF SessionsInv, NoSelf
  <2> QED
    BY <1>1, <1>4, <1>6, <2>3, <2>4, <2>5, IdleRouter, UnregisteredFollows
<1> QED
  BY <1>5, <1>6 DEF HandOff

LEMMA TakeFollows ==
  ASSUME RegistryInv, SessionsInv, NEW p \in Peers, TakeCircuit(p)
  PROVE  StepFollows
<1> USE DEF RegistryInv
<1> DEFINE i == Head(acceptq[p])
           d == [circ[p][i] EXCEPT !.st = "start"]
<1>1. /\ circ' = [circ EXCEPT ![p][i] = d]
      /\ UNCHANGED <<tunnels, nextId, dialing, router, wire>>
      /\ acceptq[p] # <<>>
  BY DEF TakeCircuit
<1>2. i \in TunnelIds /\ circ[p][i].st = "queued"
  <2>1. acceptq[p] \in Seq(TunnelIds)
    BY DEF TypeOK
  <2>2. i = acceptq[p][1] /\ 1 \in 1..Len(acceptq[p]) /\ i \in TunnelIds
    BY <1>1, <2>1
  <2> QED
    BY <2>2 DEF InOneHand
<1>3. circ'[p][i] = d => CircuitFollows(p, i)
  BY <1>2, HandedCircuit
<1>4. \A r \in Peers, j \in TunnelIds : CircuitFollows(r, j)
  <2> HIDE DEF d, i
  <2> QED
    BY <1>1, <1>2, <1>3, OneCircuit
<1>5. EntriesKept /\ \A r \in Peers : r \notin dialing'[r]
  BY <1>1 DEF EntriesKept, SessionsInv, NoSelf
<1> QED
  BY <1>1, <1>4, <1>5, SameWire, SameRouter, UnregisteredFollows

-----------------------------------------------------------------------------
(* The invariant.                                                           *)

LEMMA InitSessionsInv == Init => SessionsInv
<1> SUFFICES ASSUME Init PROVE SessionsInv
  OBVIOUS
<1>1. /\ tunnels = [p \in Peers |-> [q \in Peers |-> NoEntry]]
      /\ circ = [p \in Peers |-> [i \in TunnelIds |-> Blank(p, "unused")]]
      /\ dialing = [p \in Peers |-> {}]
      /\ router = [p \in Peers |-> Idle(p)]
      /\ wire = [p \in Peers |-> [q \in Peers |-> <<>>]]
  BY DEF Init, InitWith
<1>2. \A p, q \in Peers : wire[p][q] = <<>> /\ ~InGap(p, q)
  BY <1>1 DEF InGap, Idle
<1>3. \A p, q \in Peers : \A f : ~Holds(wire[p][q], f)
  BY <1>2 DEF Holds
<1>4. \A p \in Peers, i \in TunnelIds :
        circ[p][i].st = "unused" /\ circ[p][i].role = "client" /\ circ[p][i].inbox = <<>>
  BY <1>1 DEF Blank
<1>5. \A p, q, x \in Peers, i, j \in TunnelIds :
        /\ ~OpenedBy(circ[q][j], p, i)
        /\ ~GivenAnswer(circ[p][i], x, q, i)
        /\ ~GivenFinish(circ[q][j], p, i)
  BY <1>4 DEF OpenedBy, GivenAnswer, GivenFinish, Holds
<1>6. \A p, q \in Peers, i \in TunnelIds : ~Heard(p, q, i) /\ ~Pending(p, q, i)
  BY <1>2, <1>3, <1>4, <1>5 DEF Heard, Answered, Pending
<1>7. \A p, q \in Peers : Entry(p, q) = NoEntry
  BY <1>1 DEF Entry
<1>8. NoSelf
  BY <1>1, <1>2 DEF NoSelf
<1>9. OwnTags
  BY <1>2, <1>4 DEF OwnTags, OwnTag, HeldPhases, ClientPhases, ServerPhases
<1>10. HelloOnce
  BY <1>2, <1>3, <1>4 DEF HelloOnce, Once
<1>11. PairInv
  <2>1. LatestEntry /\ PendingUnheard
    BY <1>6 DEF LatestEntry, PendingUnheard
  <2>2. OneDialHeard /\ OneDialAnswered /\ LastDialServed
    BY <1>7 DEF OneDialHeard, OneDialAnswered, LastDialServed, Serves, NoEntry
  <2> QED
    BY <2>1, <2>2 DEF PairInv
<1> QED
  BY <1>8, <1>9, <1>10, <1>11 DEF SessionsInv

LEMMA NextSessionsInv ==
  ASSUME RegistryInv, SessionsInv, [Next]_vars PROVE SessionsInv'
<1>1. TypeOK /\ UnusedAbove
  BY DEF RegistryInv
<1>2. TypeOK'
  BY <1>1, NextTypeOK
<1>3. CASE UNCHANGED vars
  <2>1. UNCHANGED <<tunnels, nextId, circ, dialing, router, wire>>
    BY <1>3 DEF vars
  <2>2. EntriesKept /\ \A r \in Peers : r \notin dialing'[r]
    BY <2>1 DEF EntriesKept, SessionsInv, NoSelf
  <2>3. StepFollows
    BY <1>1, <2>1, <2>2, SameCircuit, SameWire, SameRouter, UnregisteredFollows
  <2> QED
    BY <1>1, <1>2, <2>3, FollowsSessionsInv
<1>4. CASE Next
  <2>1. PICK p \in Peers : Step(p) \/ Consumer(p) \/ Disturbance(p)
    BY <1>4 DEF Next
  <2>2. StepFollows
    <3>1. CASE Step(p)
      BY <1>1, <3>1, ReservationFollows, AcceptFollows, HandOffFollows, TakeFollows,
         RegisterFollows, RouteFollows, HelloFollows, ReadFollows, EndFollows DEF Step
    <3>2. CASE Consumer(p)
      BY <1>1, <3>2, ReservationFollows, CheckFollows, RecordFollows DEF Consumer
    <3>3. CASE Disturbance(p)
      BY <1>1, <3>3, ReservationFollows, EndFollows DEF Disturbance
    <3> QED
      BY <2>1, <3>1, <3>2, <3>3
  <2> QED
    BY <1>1, <1>2, <2>2, FollowsSessionsInv
<1> QED
  BY <1>3, <1>4

(* SessionsInv holds in every reachable state: the frames under way between *)
(* two peers, the loops that route them and the circuits that sent them     *)
(* agree on which dial of the pair was heard and answered (route_relayed,   *)
(* accept_introduced, open_tunnel of relay.rs).                             *)
THEOREM SessionsCorrect == Spec => []SessionsInv
<1>1. RegistryInv /\ SessionsInv /\ [Next]_vars => SessionsInv'
  BY NextSessionsInv
<1> QED
  BY <1>1, InitSessionsInv, RegistryCorrect, PTL DEF Spec

(* Both ends of a pair are up under each other's key. *)
LEMMA SessionsAgree ==
  ASSUME RegistryInv, SessionsInv, NEW p \in Peers, NEW q \in Peers,
         Entry(p, q) # NoEntry, Current(p, q).st = "up",
         Entry(q, p) # NoEntry, Current(q, p).st = "up"
  PROVE  /\ Current(p, q).tag = Current(q, p).tag
         /\ Current(p, q).role # Current(q, p).role
<1> USE DEF RegistryInv
<1> DEFINE Up(a, b, i) == /\ Entry(a, b).id = i /\ Entry(a, b) # NoEntry
                          /\ Current(a, b) = circ[a][i] /\ circ[a][i].st = "up"
                          /\ circ[a][i].peer = b
                          /\ circ[a][i].role = Entry(a, b).role
<1>1. ASSUME NEW a \in Peers, NEW b \in Peers,
             Entry(a, b) # NoEntry, Current(a, b).st = "up"
      PROVE  \E i \in TunnelIds : Up(a, b, i)
  <2>1. Entry(a, b).id \in TunnelIds
    BY <1>1, EntryTypes
  <2> QED
    BY <1>1, <2>1 DEF EntryIsHeld, Current, Entry
<1>2. ASSUME NEW a \in Peers, NEW b \in Peers, NEW i \in TunnelIds, Up(a, b, i),
             circ[a][i].role = "client"
      PROVE  circ[a][i].tag = <<a, i>> /\ Answered(a, b, i)
  <2>1. circ[a][i].tag = <<a, i>>
    BY <1>2, PhaseRoles
  <2> QED
    BY <1>2, <2>1 DEF Answered, GivenAnswer
<1>3. ASSUME NEW a \in Peers, NEW b \in Peers, NEW i \in TunnelIds, Up(a, b, i),
             circ[a][i].role = "server"
      PROVE  \E k \in TunnelIds :
               circ[a][i].tag = <<b, k>> /\ Serves(a, b, k) /\ Answered(b, a, k)
  <2>1. OwnTag(circ[a][i], a, i)
    BY DEF SessionsInv, OwnTags
  <2>2. PICK k \in TunnelIds : OpenedBy(circ[a][i], b, k)
    BY <1>3, <2>1 DEF OwnTag, HeldPhases
  <2>3. circ[a][i].tag = <<b, k>>
    BY <1>3, <2>2 DEF OpenedBy
  <2>4. Serves(a, b, k)
    BY <1>3, <2>2 DEF Serves
  <2>5. GivenFinish(circ[a][i], b, k)
    BY <1>3, <2>3 DEF GivenFinish
  <2> QED
    BY <2>3, <2>4, <2>5 DEF Answered
<1>4. ASSUME NEW a \in Peers, NEW b \in Peers, NEW i \in TunnelIds, NEW j \in TunnelIds,
             Up(a, b, i), Up(b, a, j),
             circ[a][i].role = "client", circ[b][j].role = "server"
      PROVE  circ[a][i].tag = circ[b][j].tag
  <2>1. circ[a][i].tag = <<a, i>> /\ Answered(a, b, i)
    BY <1>2, <1>4
  <2>2. PICK k \in TunnelIds :
          circ[b][j].tag = <<a, k>> /\ Serves(b, a, k) /\ Answered(a, b, k)
    BY <1>3, <1>4
  <2>3. i <= k
    BY <2>1, <2>2, AnsweredIsHeard DEF SessionsInv, PairInv, LastDialServed
  <2>4. k <= i
    BY <1>4, <2>2, AnsweredIsHeard DEF SessionsInv, PairInv, LatestEntry
  <2> QED
    BY <2>1, <2>2, <2>3, <2>4 DEF TunnelIds
<1>5. PICK i \in TunnelIds : Up(p, q, i)
  BY <1>1
<1>6. PICK j \in TunnelIds : Up(q, p, j)
  BY <1>1
<1>7. circ[p][i].role \in Roles /\ circ[q][j].role \in Roles
  BY TypeOKParts, CircuitFields
<1>8. ~(circ[p][i].role = "client" /\ circ[q][j].role = "client")
  <2> SUFFICES ASSUME circ[p][i].role = "client", circ[q][j].role = "client" PROVE FALSE
    OBVIOUS
  <2>1. Answered(p, q, i) /\ Answered(q, p, j)
    BY <1>2, <1>5, <1>6
  <2> QED
    BY <1>5, <1>6, <2>1, AnsweredIsHeard DEF SessionsInv, PairInv, OneDialHeard
<1>9. ~(circ[p][i].role = "server" /\ circ[q][j].role = "server")
  <2> SUFFICES ASSUME circ[p][i].role = "server", circ[q][j].role = "server" PROVE FALSE
    OBVIOUS
  <2>1. PICK k \in TunnelIds : Serves(p, q, k) /\ Answered(q, p, k)
    BY <1>3, <1>5
  <2>2. PICK m \in TunnelIds : Serves(q, p, m) /\ Answered(p, q, m)
    BY <1>3, <1>6
  <2> QED
    BY <2>1, <2>2 DEF SessionsInv, PairInv, OneDialAnswered
<1> QED
  BY <1>4, <1>5, <1>6, <1>7, <1>8, <1>9 DEF Roles

(* When both ends of a pair are established under each other's key they are *)
(* the client and the server of one session, for every number of peers,     *)
(* dials, sessions and lost frames (the double-session harm of #1536 in     *)
(* relay.rs: glare in route_relayed, redials in open_tunnel).               *)
THEOREM OneSession == Spec => []OneSessionPerPair
<1>1. RegistryInv /\ SessionsInv => OneSessionPerPair
  BY SessionsAgree DEF OneSessionPerPair
<1> QED
  BY <1>1, RegistryCorrect, SessionsCorrect, PTL
=============================================================================
