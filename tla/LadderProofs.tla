---------------------------- MODULE LadderProofs ----------------------------
(***************************************************************************)
(* Proofs about Ladder, for any configurations, runtimes and mailboxes.     *)
(***************************************************************************)
EXTENDS Ladder, SequenceTheorems, TLAPS

(* LadderInv is not inductive: nothing is returned before connect has       *)
(* returned, and no handshake is with ourselves.                            *)
NotYet == pc # "returned" => result = "none"
NotWithUs == pc = "handshake" => ~SelfDial

IInv == LadderInv /\ NotYet /\ NotWithUs

(* What the steps do, apart from who takes them.                            *)
Fails == \E c \in Causes : pc \in Stages /\ FailWith(c)
Goes ==
  \E s \in Stages :
    /\ pc \in Stages /\ To(s) /\ answerer' \in Parties \cup {"none"}
    /\ s = "handshake" => ~SelfDial
Connects ==
  /\ pc = "handshake" /\ Verifies(answerer) /\ pc' = "returned" /\ result' = current
  /\ UNCHANGED <<call, todo, failures, attempt, ready>>
Waits ==
  /\ mail' \in Seq(Datagrams) /\ Len(mail') <= MailCap
  /\ UNCHANGED <<call, pc, todo, failures, answerer, result, ready>>
Else == UNCHANGED <<call, pc, todo, failures, attempt, result>> /\ ready' \in BOOLEAN

LEMMA EmptyTyped == ASSUME NEW S PROVE <<>> \in Seq(S) /\ Len(<<>>) = 0
OBVIOUS

LEMMA Shapes ==
  ASSUME TypeOK, [Next]_vars
  PROVE  Connect \/ Fails \/ Goes \/ Connects \/ Waits \/ Else
<1> USE DEF Stages, Transactions, Causes
<1>0. /\ answerer \in Parties \cup {"none"} /\ ready \in BOOLEAN
      /\ mail \in Seq(Datagrams) /\ Len(mail) <= MailCap
  BY DEF TypeOK
<1>1. CASE Timeout
  BY <1>1 DEF Timeout, Fails
<1>2. CASE NoAddress \/ SocketFails \/ RefuseSelf \/ HandshakeFails
  BY <1>2 DEF NoAddress, SocketFails, RefuseSelf, HandshakeFails, Fail, Fails
<1>3. CASE AttemptDirect \/ AttemptAsked \/ AttemptMapping \/ AttemptRelayed
  BY <1>0, <1>3 DEF AttemptDirect, AttemptAsked, AttemptMapping, AttemptRelayed, Outcome, Fail,
     Fails, Goes
<1>4. CASE NatPmpReads
  BY <1>0, <1>4 DEF NatPmpReads, Outcome, Fail, Fails, Goes
<1>5. CASE PcpReads
  <2>1. CASE ~FromGateway(Head(mail))
    <3>1. Tail(mail) \in Seq(Datagrams) /\ Len(Tail(mail)) <= MailCap
      BY <1>0, <1>5, HeadTailProperties, EmptySeq, LadderAssumption DEF PcpReads
    <3> QED BY <1>5, <2>1, <3>1 DEF PcpReads, Waits
  <2>2. CASE FromGateway(Head(mail))
    BY <1>0, <1>5, <2>2 DEF PcpReads, Outcome, Fail, Fails, Goes
  <2> QED BY <2>1, <2>2
<1>6. CASE DialAddress
  BY <1>6 DEF DialAddress, Fail, Fails, Goes, TypeOK, Calls
<1>7. CASE DialRelayed
  BY <1>7 DEF DialRelayed, Fail, Fails, Goes, Parties
<1>8. CASE Handshake
  BY <1>8 DEF Handshake, Fail, Fails, Connects
<1>9. CASE RelayChanges
  BY <1>0, <1>9 DEF RelayChanges, Else
<1>10. ASSUME NEW d \in Datagrams, Arrives(d) PROVE Waits
  <2>1. mail' \in Seq(Datagrams) /\ Len(mail') = Len(mail) + 1 /\ Len(mail) < MailCap
    BY <1>0, <1>10 DEF Arrives
  <2> QED BY <1>0, <1>10, <2>1, LadderAssumption DEF Arrives, Waits
<1>11. CASE UNCHANGED vars
  BY <1>0, <1>11 DEF vars, Else
<1> QED BY <1>1, <1>2, <1>3, <1>4, <1>5, <1>6, <1>7, <1>8, <1>9, <1>10, <1>11
     DEF Next, Attempt, Dial, World

LEMMA LadderTyped == ComposeLadder \in Seq(Kinds)
<1>1. \A kind \in Kinds : Offered(kind) \in Seq(Kinds)
  BY DEF Offered
<1>2. /\ Offered("Direct") \in Seq(Kinds) /\ Offered("Upnp") \in Seq(Kinds)
      /\ Offered("NatPmp") \in Seq(Kinds) /\ Offered("Pcp") \in Seq(Kinds)
      /\ Offered("HolePunch") \in Seq(Kinds) /\ Offered("Relayed") \in Seq(Kinds)
  BY <1>1 DEF Kinds
<1> QED BY <1>2, ConcatProperties DEF ComposeLadder

LEMMA TypeStep == ASSUME TypeOK, NotYet, Accounted, [Next]_vars PROVE TypeOK'
<1> USE DEF TypeOK
<1>1. CASE Connect
  BY <1>1, LadderTyped DEF Connect, attempt, Stages
<1>2. CASE Fails
  <2>1. PICK c \in Causes : pc \in Stages /\ FailWith(c)
    BY <1>2 DEF Fails
  <2>2. todo # <<>> /\ Head(todo) \in Kinds /\ Tail(todo) \in Seq(Kinds)
    BY <2>1, HeadTailProperties DEF Accounted
  <2>3. failures' \in Seq([kind : Kinds, cause : Causes])
    <3>1. [kind |-> Head(todo), cause |-> c] \in [kind : Kinds, cause : Causes]
      BY <2>2
    <3> QED BY <2>1, <3>1 DEF FailWith, current
  <2>4. mail' \in Seq(Datagrams) /\ Len(mail') <= MailCap /\ answerer' \in Parties \cup {"none"}
    BY <2>1, EmptyTyped, LadderAssumption DEF FailWith
  <2>5. pc' \in Stages \cup {"idle", "returned"} /\ result' \in {"none", "no_methods", "all_failed"} \cup Kinds
    BY <2>1 DEF FailWith, Stages
  <2> QED BY <2>1, <2>2, <2>3, <2>4, <2>5 DEF FailWith
<1>3. CASE Goes
  <2>1. PICK s \in Stages : To(s) /\ answerer' \in Parties \cup {"none"}
    BY <1>3 DEF Goes
  <2>2. mail' \in Seq(Datagrams) /\ Len(mail') <= MailCap
    BY <2>1, EmptyTyped, LadderAssumption DEF To
  <2> QED BY <2>1, <2>2 DEF To
<1>4. CASE Connects
  <2>1. todo # <<>> /\ Head(todo) \in Kinds
    BY <1>4, HeadTailProperties DEF Accounted, Connects, Stages
  <2> QED BY <1>4, <2>1 DEF Connects, current, attempt
<1>5. CASE Waits BY <1>5 DEF Waits
<1>6. CASE Else BY <1>6 DEF Else, attempt
<1> QED BY <1>1, <1>2, <1>3, <1>4, <1>5, <1>6, Shapes

(* Each failure takes the method it is of from the head of what is left.    *)
Names(fs) == [i \in DOMAIN fs |-> fs[i].kind]
Records == [kind : Kinds, cause : Causes]

LEMMA NamesAppend ==
  ASSUME NEW fs \in Seq(Records), NEW r \in Records
  PROVE  /\ Names(fs) \in Seq(Kinds)
         /\ Names(Append(fs, r)) = Append(Names(fs), r.kind)
<1>1. Len(fs) \in Nat /\ DOMAIN fs = 1..Len(fs) /\ \A i \in 1..Len(fs) : fs[i] \in Records
  OBVIOUS
<1>2. \A x \in Records : x.kind \in Kinds
  BY DEF Records
<1>3. Names(fs) \in Seq(Kinds) /\ Len(Names(fs)) = Len(fs)
  BY <1>1, <1>2 DEF Names
<1>4. /\ Append(fs, r) \in Seq(Records) /\ Len(Append(fs, r)) = Len(fs) + 1
      /\ \A i \in 1..(Len(fs) + 1) : Append(fs, r)[i] = IF i <= Len(fs) THEN fs[i] ELSE r
  BY <1>1
<1>5. Names(Append(fs, r)) = [i \in 1..(Len(fs) + 1) |-> Append(fs, r)[i].kind]
  BY <1>4 DEF Names
<1>6. /\ Append(Names(fs), r.kind) \in Seq(Kinds)
      /\ Len(Append(Names(fs), r.kind)) = Len(fs) + 1
      /\ \A i \in 1..(Len(fs) + 1) :
           Append(Names(fs), r.kind)[i] = IF i <= Len(fs) THEN Names(fs)[i] ELSE r.kind
  BY <1>1, <1>2, <1>3
<1>7. \A i \in 1..Len(fs) : Names(fs)[i] = fs[i].kind
  BY <1>1 DEF Names
<1>8. Append(Names(fs), r.kind) = [i \in 1..(Len(fs) + 1) |-> Append(fs, r)[i].kind]
  BY <1>1, <1>4, <1>6, <1>7
<1> QED BY <1>3, <1>5, <1>8

LEMMA MoveHead ==
  ASSUME NEW S, NEW s \in Seq(S), NEW t \in Seq(S), t # <<>>
  PROVE  Append(s, Head(t)) \o Tail(t) = s \o t
<1>1. Len(t) \in Nat \ {0} /\ Len(s) \in Nat
  BY EmptySeq
<1>2. /\ Head(t) \in S /\ Tail(t) \in Seq(S) /\ Len(Tail(t)) = Len(t) - 1
      /\ Head(t) = t[1] /\ \A i \in 1..(Len(t) - 1) : Tail(t)[i] = t[i + 1]
  BY HeadTailProperties
<1>3. /\ Append(s, Head(t)) \in Seq(S) /\ Len(Append(s, Head(t))) = Len(s) + 1
      /\ \A i \in 1..(Len(s) + 1) : Append(s, Head(t))[i] = IF i <= Len(s) THEN s[i] ELSE t[1]
  BY <1>1, <1>2
<1>4. /\ Append(s, Head(t)) \o Tail(t) \in Seq(S)
      /\ Len(Append(s, Head(t)) \o Tail(t)) = Len(s) + Len(t)
      /\ \A i \in 1..(Len(s) + Len(t)) :
           (Append(s, Head(t)) \o Tail(t))[i] =
             IF i <= Len(s) + 1 THEN Append(s, Head(t))[i] ELSE Tail(t)[i - (Len(s) + 1)]
  BY <1>1, <1>2, <1>3, ConcatProperties
<1>5. /\ s \o t \in Seq(S) /\ Len(s \o t) = Len(s) + Len(t)
      /\ \A i \in 1..(Len(s) + Len(t)) :
           (s \o t)[i] = IF i <= Len(s) THEN s[i] ELSE t[i - Len(s)]
  BY <1>1, ConcatProperties
<1>6. ASSUME NEW i \in 1..(Len(s) + Len(t))
      PROVE  (Append(s, Head(t)) \o Tail(t))[i] = (s \o t)[i]
  <2>1. CASE i <= Len(s)
    BY <1>1, <1>3, <1>4, <1>5, <2>1
  <2>2. CASE i = Len(s) + 1
    BY <1>1, <1>3, <1>4, <1>5, <2>2
  <2>3. CASE i > Len(s) + 1
    <3>1. i - (Len(s) + 1) \in 1..(Len(t) - 1) /\ (i - (Len(s) + 1)) + 1 = i - Len(s)
      BY <1>1, <2>3
    <3>2. Tail(t)[i - (Len(s) + 1)] = t[i - Len(s)]
      BY <1>2, <3>1
    <3> QED BY <1>1, <1>4, <1>5, <2>3, <3>2
  <2> QED BY <1>1, <2>1, <2>2, <2>3
<1> QED BY <1>4, <1>5, <1>6, SeqEqual

LEMMA AccountedStep ==
  ASSUME TypeOK, NotYet, Accounted, [Next]_vars
  PROVE  Accounted' /\ NotYet'
<1>0. pc \in Stages \cup {"idle", "returned"} /\ "idle" \notin Stages /\ "returned" \notin Stages
  BY DEF TypeOK, Stages
<1>1. CASE Connect
  <2>1. failures = <<>> /\ result = "none"
    BY <1>1 DEF Connect, Accounted
  <2>2. ComposeLadder' = ComposeLadder
    BY <1>1 DEF Connect, ComposeLadder, Offered, Composed
  <2>3. /\ failures' = <<>> /\ todo' = ComposeLadder
        /\ \/ todo' = <<>> /\ pc' = "returned" /\ result' = "no_methods"
           \/ todo' # <<>> /\ pc' = "attempt" /\ result' = "none"
    BY <1>1, <2>1 DEF Connect
  <2>4. Names(failures') \o todo' = ComposeLadder
    <3>1. Names(failures') = <<>>
      BY <2>3 DEF Names
    <3> QED BY <2>3, <3>1, LadderTyped, ConcatEmptySeq
  <2> QED BY <1>0, <2>2, <2>3, <2>4 DEF Accounted, NotYet, Names, Kinds, Stages
<1>2. CASE Fails
  <2>1. PICK c \in Causes : pc \in Stages /\ FailWith(c)
    BY <1>2 DEF Fails
  <2>2. /\ todo # <<>> /\ todo \in Seq(Kinds) /\ failures \in Seq(Records)
        /\ Names(failures) \o todo = ComposeLadder /\ result = "none"
    BY <1>0, <2>1 DEF Accounted, TypeOK, NotYet, Names, Records
  <2> DEFINE r == [kind |-> Head(todo), cause |-> c]
  <2>3. /\ failures' = Append(failures, r) /\ todo' = Tail(todo)
        /\ \/ todo' = <<>> /\ pc' = "returned" /\ result' = "all_failed"
           \/ todo' # <<>> /\ pc' = "attempt" /\ result' = "none"
    BY <2>1, <2>2 DEF FailWith, current
  <2>4. Names(failures') \o todo' = ComposeLadder
    <3>1. r \in Records /\ r.kind = Head(todo)
      BY <2>2, HeadTailProperties DEF Records
    <3>2. /\ Names(failures) \in Seq(Kinds)
          /\ Names(failures') = Append(Names(failures), Head(todo))
      BY <2>2, <2>3, <3>1, NamesAppend
    <3> QED BY <2>2, <2>3, <3>2, MoveHead
  <2>5. ComposeLadder' = ComposeLadder
    BY <2>1 DEF FailWith, ComposeLadder, Offered, Composed
  <2>6. failures' # <<>>
    BY <2>2, <2>3
  <2> QED BY <1>0, <2>3, <2>4, <2>5, <2>6 DEF Accounted, NotYet, Names, Kinds, Stages
<1>3. CASE Goes
  <2>1. PICK s \in Stages : pc \in Stages /\ To(s)
    BY <1>3 DEF Goes
  <2>2. ComposeLadder' = ComposeLadder
    BY <2>1 DEF To, ComposeLadder, Offered, Composed
  <2>3. /\ pc' = s /\ pc # "idle" /\ pc' # "idle" /\ pc' # "returned" /\ result = "none"
        /\ UNCHANGED <<todo, failures, result>>
    BY <1>0, <2>1 DEF To, NotYet
  <2> QED BY <1>0, <2>1, <2>2, <2>3 DEF Accounted, NotYet, Kinds
<1>4. CASE Connects
  <2>1. ComposeLadder' = ComposeLadder
    BY <1>4 DEF Connects, ComposeLadder, Offered, Composed
  <2>2. /\ pc \in Stages /\ pc # "idle" /\ pc' = "returned" /\ todo # <<>>
        /\ Head(todo) \in Kinds /\ result' = Head(todo) /\ UNCHANGED <<todo, failures>>
    BY <1>4, HeadTailProperties DEF Connects, Accounted, TypeOK, Stages, current
  <2> QED BY <1>0, <2>1, <2>2 DEF Accounted, NotYet, Kinds, current
<1>5. CASE Waits \/ Else
  <2>1. ComposeLadder' = ComposeLadder
    BY <1>5 DEF Waits, Else, ComposeLadder, Offered, Composed
  <2>2. UNCHANGED <<pc, todo, failures, result>>
    BY <1>5 DEF Waits, Else
  <2> QED BY <2>1, <2>2 DEF Accounted, NotYet, current
<1> QED BY <1>1, <1>2, <1>3, <1>4, <1>5, Shapes

LEMMA AuthenticatedStep ==
  ASSUME TypeOK, NotYet, Accounted, Authenticated, NotWithUs, [Next]_vars
  PROVE  Authenticated' /\ NotWithUs'
<1>1. CASE Connect
  BY <1>1 DEF Connect, NotYet, Authenticated, NotWithUs, Kinds
<1>2. CASE Fails
  <2>1. PICK c \in Causes : pc \in Stages /\ FailWith(c)
    BY <1>2 DEF Fails
  <2>2. result = "none"
    BY <2>1 DEF NotYet, Stages
  <2> QED BY <2>1, <2>2 DEF FailWith, Authenticated, NotWithUs, Kinds
<1>3. CASE Goes
  <2>1. PICK s \in Stages : pc \in Stages /\ To(s) /\ (s = "handshake" => ~SelfDial)
    BY <1>3 DEF Goes
  <2>2. result' = "none" /\ pc' = s /\ call' = call
    BY <2>1 DEF NotYet, Stages, To
  <2> QED BY <2>1, <2>2 DEF Authenticated, NotWithUs, SelfDial, Kinds
<1>4. CASE Connects
  BY <1>4 DEF Connects, Authenticated, NotWithUs, SelfDial, Verifies, attempt
<1>5. CASE Waits \/ Else
  BY <1>5 DEF Waits, Else, attempt, Authenticated, NotWithUs, SelfDial
<1> QED BY <1>1, <1>2, <1>3, <1>4, <1>5, Shapes

LEMMA InitInv == Init => IInv
<1> SUFFICES ASSUME Init PROVE IInv
  OBVIOUS
<1>1. /\ todo \in Seq(Kinds) /\ failures \in Seq([kind : Kinds, cause : Causes])
      /\ mail \in Seq(Datagrams) /\ Len(mail) <= MailCap
  BY EmptyTyped, LadderAssumption DEF Init
<1>2. ready \in BOOLEAN
  BY DEF Init, Calls
<1>3. TypeOK
  BY <1>1, <1>2 DEF Init, TypeOK
<1> QED BY <1>3 DEF Init, IInv, LadderInv, Accounted, Authenticated, NotYet, NotWithUs, Kinds, Stages

LEMMA StepInv == ASSUME IInv, [Next]_vars PROVE IInv'
BY TypeStep, AccountedStep, AuthenticatedStep DEF IInv, LadderInv

(* Whatever a configuration enables and a runtime carries: every composed   *)
(* method is accounted for once, in order, and a connection is to the peer  *)
(* that was asked for and not to ourselves (connect_with_strategy,          *)
(* MtlsDialer::dial).                                                       *)
THEOREM LadderCorrect == Spec => []LadderInv
<1>1. Spec => []IInv
  BY InitInv, StepInv, PTL DEF Spec
<1>2. IInv => LadderInv
  BY DEF IInv
<1> QED BY <1>1, <1>2, PTL

(* A timer or a socket that fails is told apart from an answer.             *)
LEMMA FailureCause ==
  ASSUME TypeOK, NEW c \in Causes, FailWith(c), todo # <<>>
  PROVE  failures' # failures /\ failures'[Len(failures')].cause = c
<1>1. current \in Kinds
  BY HeadTailProperties DEF TypeOK, current
<1> DEFINE f == [kind |-> current, cause |-> c]
<1>2. f \in [kind : Kinds, cause : Causes] /\ f.cause = c
  BY <1>1
<1> HIDE DEF f
<1>3. /\ Len(failures') = Len(failures) + 1 /\ failures'[Len(failures) + 1] = f
      /\ Len(failures) \in Nat
  BY <1>2, AppendProperties, LenProperties DEF TypeOK, FailWith, f
<1> QED BY <1>2, <1>3

LEMMA GatewayStep ==
  ASSUME IInv, [Next]_vars, pc = "map", current = "Pcp", pc' # "map",
         failures' # failures => failures'[Len(failures')].cause = "answer"
  PROVE  mail # <<>> /\ Head(mail).from = "gateway"
<1>1. TypeOK /\ todo # <<>>
  BY DEF IInv, LadderInv, Accounted, Stages
<1>2. ASSUME NEW c \in {"timer", "io"}, FailWith(c) PROVE FALSE
  <2>1. failures' # failures /\ failures'[Len(failures')].cause = c
    BY <1>1, <1>2, FailureCause DEF Causes
  <2> QED BY <2>1
<1>3. CASE Timeout \/ SocketFails
  BY <1>2, <1>3 DEF Timeout, SocketFails
<1>4. CASE PcpReads
  BY <1>4 DEF PcpReads, FromGateway
<1>5. CASE Connect \/ NoAddress \/ AttemptDirect \/ AttemptAsked \/ AttemptMapping
           \/ NatPmpReads \/ AttemptRelayed
  BY <1>5 DEF Connect, NoAddress, AttemptDirect, AttemptAsked, AttemptMapping, NatPmpReads,
              AttemptRelayed
<1>6. CASE Dial
  BY <1>6 DEF Dial, RefuseSelf, DialAddress, DialRelayed, Handshake, HandshakeFails
<1>7. CASE World
  BY <1>7 DEF World, RelayChanges, Arrives
<1>8. CASE UNCHANGED vars
  BY <1>8 DEF vars
<1> QED BY <1>3, <1>4, <1>5, <1>6, <1>7, <1>8 DEF Next, Attempt

(* A PCP transaction ends on a datagram of the gateway, or on none at all:  *)
(* those of strangers decide nothing (PcpMethod::transact).                 *)
THEOREM OnlyGatewayDecides == Spec => GatewayDecides
<1>1. Spec => []IInv
  BY InitInv, StepInv, PTL DEF Spec
<1>2. IInv /\ [Next]_vars =>
        [(pc = "map" /\ current = "Pcp" /\ pc' # "map" /\
          (failures' # failures => failures'[Len(failures')].cause = "answer"))
         => mail # <<>> /\ Head(mail).from = "gateway"]_vars
  BY GatewayStep
<1> QED BY <1>1, <1>2, PTL DEF Spec, GatewayDecides
=============================================================================
