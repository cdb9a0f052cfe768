-------------------------- MODULE PeerSessionProofs --------------------------
(***************************************************************************)
(* Proofs about PeerSession, for any number of watchers and any capacities. *)
(***************************************************************************)
EXTENDS PeerSession, TLAPS

(* SessionInv is not inductive: a driver that awaits nothing in its select  *)
(* arm has no opener in hand, one that has returned has dropped the         *)
(* commands, and the flag is up before anybody is notified.                 *)
InHand == driver.awaited => driver.pc = "opening"
DoneIsEmpty == driver.pc = "done" => commands = <<>>

FlagFirst == driver.pc \in {"flagged", "notified", "done"} => flag

IInv == SessionInv /\ InHand /\ DoneIsEmpty /\ FlagFirst

LEMMA EmptyTyped == ASSUME NEW S PROVE <<>> \in Seq(S) /\ Len(<<>>) = 0
OBVIOUS

LEMMA TailTyped ==
  ASSUME NEW S, NEW s \in Seq(S), s # <<>>
  PROVE  Head(s) \in S /\ Tail(s) \in Seq(S) /\ Len(Tail(s)) = Len(s) - 1
OBVIOUS

LEMMA ConstantTyped ==
  ASSUME NEW S, NEW s \in Seq(S), NEW T, NEW x \in T
  PROVE  /\ [i \in DOMAIN s |-> x] \in Seq(T)
         /\ Len([i \in DOMAIN s |-> x]) = Len(s)
<1>1. DOMAIN s = 1..Len(s) /\ Len(s) \in Nat
  OBVIOUS
<1> QED BY <1>1

LEMMA InitInv == Init => IInv
<1> SUFFICES ASSUME Init PROVE IInv
  OBVIOUS
<1>1. TypeOK
  <2>1. driver \in [pc : DriverSteps, awaited : BOOLEAN]
    BY DEF Init, At, DriverSteps
  <2>2. /\ commands \in Seq(BOOLEAN) /\ Len(commands) <= CommandCap
        /\ inbound \in Seq(Nat) /\ Len(inbound) <= InboundCap
    BY EmptyTyped, SessionAssumption DEF Init
  <2>3. watcher \in [Watchers -> WatcherSteps] /\ woken \in SUBSET Watchers
    BY DEF Init, WatcherSteps
  <2>4. alive \in BOOLEAN /\ flag \in BOOLEAN
    BY DEF Init
  <2>5. unacked \in 0..AckBacklog /\ opened \in Nat /\ accepted \in Nat
    BY SessionAssumption DEF Init
  <2>6. owner \in OwnerSteps
    BY DEF Init, OwnerSteps
  <2> QED BY <2>1, <2>2, <2>3, <2>4, <2>5, <2>6 DEF TypeOK
<1>2. InOrder
  BY DEF Init, InOrder
<1>3. driver.pc = "select" /\ driver.awaited = FALSE /\ Due = {}
  BY DEF Init, At, Due
<1> QED BY <1>1, <1>2, <1>3 DEF Init, IInv, SessionInv, OneAnswerDue, InHand, DoneIsEmpty,
          FlagFirst, SleepersWoken

(* The type invariant.                                                      *)
LEMMA TypeStep == ASSUME TypeOK, [Next]_vars PROVE TypeOK'
<1> USE SessionAssumption DEF TypeOK
<1>1. ASSUME Owner PROVE TypeOK'
  <2> USE DEF connection, observers
  <2>1. CASE Call BY <2>1 DEF Call, channels, OwnerSteps
  <2>2. CASE SendCommand BY <2>2 DEF SendCommand, OwnerSteps
  <2>3. CASE DriverClosed BY <2>3 DEF DriverClosed, channels, OwnerSteps
  <2>4. CASE Exchanged BY <2>4 DEF Exchanged, channels, OwnerSteps
  <2>5. CASE AcceptStream
    <3>1. accepted' \in Nat /\ inbound' \in Seq(Nat) /\ Len(inbound') <= InboundCap
      <4>1. CASE inbound # <<>> /\ inbound' = Tail(inbound) /\ accepted' = Head(inbound)
        <5>1. Head(inbound) \in Nat /\ Tail(inbound) \in Seq(Nat)
              /\ Len(Tail(inbound)) = Len(inbound) - 1
          BY <4>1, TailTyped
        <5>2. Len(inbound) \in Nat /\ InboundCap \in Nat /\ Len(inbound) <= InboundCap
          OBVIOUS
        <5> QED BY <4>1, <5>1, <5>2
      <4>2. CASE UNCHANGED <<accepted, inbound>> BY <4>2
      <4> QED BY <2>5, <4>1, <4>2 DEF AcceptStream
    <3> QED BY <2>5, <3>1 DEF AcceptStream, OwnerSteps
  <2>6. CASE Cancel
    <3>1. commands' \in Seq(BOOLEAN) /\ Len(commands') <= CommandCap
      BY <2>6, ConstantTyped DEF Cancel, Abandoned
    <3> QED BY <2>6, <3>1 DEF Cancel, OwnerSteps, DriverSteps
  <2>7. CASE DropSession BY <2>7 DEF DropSession, OwnerSteps
  <2> QED BY <1>1, <2>1, <2>2, <2>3, <2>4, <2>5, <2>6, <2>7 DEF Owner
<1>2. ASSUME Driver PROVE TypeOK'
  <2> USE DEF observers, DriverSteps, At
  <2>1. CASE TakeCommand BY <2>1 DEF TakeCommand
  <2>2. CASE Opened BY <2>2 DEF Opened, channels, OwnerSteps
  <2>3. CASE Acked BY <2>3 DEF Acked, channels
  <2>4. CASE Inbound BY <2>4 DEF Inbound, connection
  <2>5. CASE ConnectionEnds BY <2>5 DEF ConnectionEnds, channels
  <2>6. CASE CommandsEnd BY <2>6 DEF CommandsEnd, channels
  <2>7. CASE Leaving
    <3>1. CASE ConnectionClosed BY <3>1 DEF ConnectionClosed, channels
    <3>2. CASE StoreFlag BY <3>2 DEF StoreFlag, channels
    <3>3. CASE NotifyWaiters
      <4>1. woken' \in SUBSET Watchers BY <3>3 DEF NotifyWaiters, Armed
      <4> QED BY <3>3, <4>1 DEF NotifyWaiters, channels
    <3>4. CASE DriverReturns
      <4>1. commands' \in Seq(BOOLEAN) /\ Len(commands') <= CommandCap
        BY <3>4, EmptyTyped DEF DriverReturns
      <4> QED BY <3>4, <4>1 DEF DriverReturns
    <3> QED BY <2>7, <3>1, <3>2, <3>3, <3>4 DEF Leaving
  <2> QED BY <1>2, <2>1, <2>2, <2>3, <2>4, <2>5, <2>6, <2>7 DEF Driver
<1>3. ASSUME NEW w \in Watchers, Watch(w) \/ Watcher(w) PROVE TypeOK'
  BY <1>3 DEF Watch, Watcher, Check, Arm, Recheck, Wake, Goes, connection, channels, WatcherSteps
<1>4. CASE Die BY <1>4 DEF Die, channels, observers
<1>5. CASE UNCHANGED vars BY <1>5 DEF vars, connection, channels, observers
<1> QED BY <1>1, <1>2, <1>3, <1>4, <1>5 DEF Next

(* Inbound streams wait in the peer's order.                                *)
LEMMA OrderFrame ==
  ASSUME [Next]_vars
  PROVE  \/ AcceptStream \/ DropSession \/ Inbound
         \/ UNCHANGED <<inbound, opened, accepted>>
BY DEF Next, Owner, Driver, Leaving, Die, Watcher, vars, channels, Call, SendCommand,
  DriverClosed, Exchanged, Cancel, TakeCommand, Opened, Acked, ConnectionEnds, CommandsEnd,
  ConnectionClosed, StoreFlag, NotifyWaiters, DriverReturns, Watch, Check, Arm, Recheck,
  Wake, Goes

LEMMA OrderStep == ASSUME TypeOK, InOrder, [Next]_vars PROVE InOrder'
<1>0. inbound \in Seq(Nat) /\ opened \in Nat /\ accepted \in Nat
  BY DEF TypeOK
<1>1. CASE AcceptStream
  <2>1. opened' = opened
    BY <1>1 DEF AcceptStream
  <2>2. CASE UNCHANGED <<accepted, inbound>>
    BY <2>1, <2>2 DEF InOrder
  <2>3. CASE inbound # <<>> /\ accepted' = Head(inbound) /\ inbound' = Tail(inbound)
    <3>1. /\ accepted' = inbound[1] /\ 1 \in DOMAIN inbound
          /\ \A i \in DOMAIN inbound' : i + 1 \in DOMAIN inbound /\ inbound'[i] = inbound[i + 1]
          /\ \A i \in DOMAIN inbound' : i \in Nat /\ i > 0
      BY <1>0, <2>3
    <3>2. \A i \in DOMAIN inbound : inbound[i] \in Nat
      BY <1>0
    <3> QED BY <1>0, <2>1, <3>1, <3>2 DEF InOrder
  <2> QED BY <1>1, <2>2, <2>3 DEF AcceptStream
<1>2. CASE DropSession
  BY <1>0, <1>2 DEF DropSession, InOrder
<1>3. CASE Inbound
  <2>1. opened' = opened + 1 /\ accepted' = accepted
    BY <1>3 DEF Inbound
  <2>2. CASE inbound' = inbound
    BY <1>0, <2>1, <2>2 DEF InOrder
  <2>3. CASE inbound' = Append(inbound, opened')
    <3>1. /\ DOMAIN inbound' = DOMAIN inbound \cup {Len(inbound) + 1}
          /\ inbound'[Len(inbound) + 1] = opened + 1
          /\ \A i \in DOMAIN inbound : inbound'[i] = inbound[i] /\ i < Len(inbound) + 1
          /\ \A i \in DOMAIN inbound : i \in Nat /\ inbound[i] \in Nat
          /\ Len(inbound) \in Nat
      BY <1>0, <2>1, <2>3
    <3> QED BY <1>0, <2>1, <3>1 DEF InOrder
  <2> QED BY <1>3, <2>2, <2>3 DEF Inbound
<1>4. CASE UNCHANGED <<inbound, opened, accepted>>
  BY <1>4 DEF InOrder
<1> QED BY <1>1, <1>2, <1>3, <1>4, OrderFrame

(* One answer is due to the call that waits for one.                        *)
LEMMA AnswerFrame ==
  ASSUME [Next]_vars
  PROVE  \/ Owner \/ TakeCommand \/ Opened \/ ConnectionEnds \/ CommandsEnd \/ Leaving
         \/ UNCHANGED <<driver, commands, owner>>
BY DEF Next, Driver, Die, Watcher, vars, channels, connection, Acked, Inbound, Watch, Check,
  Arm, Recheck, Wake, Goes

LEMMA HandStep ==
  ASSUME TypeOK, InHand, DoneIsEmpty, [Next]_vars
  PROVE  InHand' /\ DoneIsEmpty'
<1>0. driver \in [pc : DriverSteps, awaited : BOOLEAN]
  BY DEF TypeOK
<1>1. CASE Owner
  <2>1. CASE Cancel
    <3>1. driver'.pc = driver.pc /\ driver'.awaited = FALSE
      BY <1>0, <2>1 DEF Cancel
    <3>2. commands = <<>> => commands' = <<>>
      BY <2>1 DEF Cancel, Abandoned
    <3> QED BY <3>1, <3>2 DEF InHand, DoneIsEmpty
  <2>2. CASE SendCommand
    BY <2>2 DEF SendCommand, connection, InHand, DoneIsEmpty
  <2>3. CASE ~Cancel /\ ~SendCommand
    BY <1>1, <2>3 DEF Owner, Call, DriverClosed, Exchanged, AcceptStream, DropSession,
       connection, channels, InHand, DoneIsEmpty
  <2> QED BY <2>1, <2>2, <2>3
<1>2. CASE TakeCommand BY <1>2 DEF TakeCommand, InHand, DoneIsEmpty
<1>3. CASE Opened BY <1>3 DEF Opened, At, InHand, DoneIsEmpty
<1>4. CASE ConnectionEnds BY <1>4 DEF ConnectionEnds, At, InHand, DoneIsEmpty
<1>5. CASE CommandsEnd BY <1>5 DEF CommandsEnd, At, InHand, DoneIsEmpty
<1>6. CASE Leaving
  BY <1>6 DEF Leaving, ConnectionClosed, StoreFlag, NotifyWaiters, DriverReturns, At, InHand,
     DoneIsEmpty
<1>7. CASE UNCHANGED <<driver, commands, owner>>
  BY <1>7 DEF InHand, DoneIsEmpty
<1> QED BY <1>1, <1>2, <1>3, <1>4, <1>5, <1>6, <1>7, AnswerFrame

LEMMA DueAppend ==
  ASSUME commands \in Seq(BOOLEAN), Due = {}, commands' = Append(commands, TRUE)
  PROVE  Due' = {Len(commands) + 1}
<1>0. DOMAIN commands = 1..Len(commands) /\ Len(commands) \in Nat
  OBVIOUS
<1>1. /\ DOMAIN commands' = DOMAIN commands \cup {Len(commands) + 1}
      /\ commands'[Len(commands) + 1] = TRUE
      /\ \A i \in DOMAIN commands : commands'[i] = commands[i]
  <2>1. DOMAIN commands' = 1..(Len(commands) + 1)
    BY <1>0
  <2> QED BY <1>0, <2>1
<1>2. \A i \in DOMAIN commands : ~commands[i]
  BY DEF Due
<1>3. \A i \in DOMAIN commands' : commands'[i] <=> i = Len(commands) + 1
  BY <1>1, <1>2
<1> QED BY <1>1, <1>3 DEF Due

LEMMA DueTail ==
  ASSUME commands \in Seq(BOOLEAN), commands # <<>>, commands' = Tail(commands)
  PROVE  /\ 1 \in Due <=> Head(commands)
         /\ \A i \in Due' : i \in Nat /\ i > 0 /\ i + 1 \in Due
         /\ \A i \in Due : i \in Nat /\ (i # 1 => i - 1 \in Due')
<1>1. /\ Head(commands) = commands[1] /\ 1 \in DOMAIN commands
      /\ \A i \in DOMAIN commands : i \in Nat /\ (i # 1 => i - 1 \in DOMAIN commands')
      /\ \A i \in DOMAIN commands' : i \in Nat /\ i > 0 /\ i + 1 \in DOMAIN commands
      /\ \A i \in DOMAIN commands' : commands'[i] = commands[i + 1]
  OBVIOUS
<1>2. \A i \in Due : i \in DOMAIN commands /\ commands[i]
  BY DEF Due
<1>3. \A i \in Due' : i \in DOMAIN commands' /\ commands'[i]
  BY DEF Due
<1>4. ASSUME NEW i \in Due, i # 1 PROVE i - 1 \in Due'
  <2>1. i \in Nat /\ i - 1 \in DOMAIN commands'
    BY <1>1, <1>2, <1>4
  <2>2. commands'[i - 1] = commands[i - 1 + 1] /\ i - 1 + 1 = i
    BY <1>1, <2>1
  <2>3. commands'[i - 1]
    BY <1>2, <2>2
  <2> QED BY <2>1, <2>3 DEF Due
<1>5. ASSUME NEW i \in Due' PROVE i + 1 \in Due
  <2>1. i + 1 \in DOMAIN commands /\ commands'[i] = commands[i + 1]
    BY <1>1, <1>3
  <2>2. commands[i + 1]
    BY <1>3, <2>1
  <2> QED BY <2>1, <2>2 DEF Due
<1> QED BY <1>1, <1>2, <1>3, <1>4, <1>5 DEF Due

LEMMA AnswerStep ==
  ASSUME TypeOK, OneAnswerDue, InHand, DoneIsEmpty, [Next]_vars
  PROVE  OneAnswerDue'
<1>0. /\ driver \in [pc : DriverSteps, awaited : BOOLEAN] /\ commands \in Seq(BOOLEAN)
  BY DEF TypeOK
<1>1. CASE SendCommand
  <2>1. /\ owner = "send" /\ owner' = "reply" /\ driver' = driver /\ driver.pc # "done"
        /\ commands' = Append(commands, TRUE)
    BY <1>1 DEF SendCommand, connection
  <2>2. ~driver.awaited /\ Due = {}
    BY <2>1 DEF OneAnswerDue
  <2>3. Due' = {Len(commands) + 1}
    BY <1>0, <2>1, <2>2, DueAppend
  <2> QED BY <2>1, <2>2, <2>3 DEF OneAnswerDue
<1>2. CASE Cancel
  <2>1. owner' = "idle" /\ driver'.awaited = FALSE
    BY <1>0, <1>2 DEF Cancel
  <2>2. commands' = [i \in DOMAIN commands |-> FALSE]
    BY <1>2 DEF Cancel, Abandoned
  <2>3. Due' = {}
    BY <2>2 DEF Due
  <2> QED BY <2>1, <2>3 DEF OneAnswerDue
<1>3. CASE Owner /\ ~SendCommand /\ ~Cancel
  <2>1. commands' = commands /\ driver' = driver
    BY <1>3 DEF Owner, Call, DriverClosed, Exchanged, AcceptStream, DropSession, connection,
       channels
  <2>2. (owner' = "reply" /\ driver'.pc # "done") <=> (owner = "reply" /\ driver.pc # "done")
    BY <1>3, <2>1 DEF Owner, Call, DriverClosed, Exchanged, AcceptStream, DropSession
  <2>3. Due' = Due
    BY <2>1 DEF Due
  <2> QED BY <2>1, <2>2, <2>3 DEF OneAnswerDue
<1>4. CASE TakeCommand
  <2>1. /\ driver.pc = "select" /\ commands # <<>> /\ commands' = Tail(commands)
        /\ driver' = [pc |-> "opening", awaited |-> Head(commands)] /\ owner' = owner
    BY <1>4 DEF TakeCommand
  <2>2. ~driver.awaited
    BY <2>1 DEF InHand
  <2>3. /\ 1 \in Due <=> Head(commands)
        /\ \A i \in Due' : i \in Nat /\ i > 0 /\ i + 1 \in Due
        /\ \A i \in Due : i \in Nat /\ (i # 1 => i - 1 \in Due')
    BY <1>0, <2>1, DueTail
  <2>4. driver'.pc = "opening" /\ (driver'.awaited <=> 1 \in Due)
    BY <2>1, <2>3
  <2>5. \A i, j \in Due : i = j
    BY DEF OneAnswerDue
  <2>6. 1 \in Due => Due' = {}
    <3>1. ASSUME 1 \in Due, NEW i \in Due' PROVE FALSE
      <4>0. i + 1 \in Due /\ i \in Nat /\ i > 0
        BY <2>3, <3>1
      <4>1. i + 1 \in Due /\ i + 1 # 1
        BY <4>0
      <4>2. i + 1 = 1
        BY <2>5, <3>1, <4>1
      <4> QED BY <4>1, <4>2
    <3> QED BY <3>1
  <2>7. \A i, j \in Due' : i = j
    <3>1. ASSUME NEW i \in Due', NEW j \in Due' PROVE i = j
      <4>1. i + 1 = j + 1 /\ i \in Nat /\ j \in Nat
        BY <2>3, <2>5, <3>1
      <4> QED BY <4>1
    <3> QED BY <3>1
  <2>8. Due # {} <=> (1 \in Due \/ Due' # {})
    BY <2>3
  <2>9. (owner = "reply" /\ driver.pc # "done") <=> Due # {}
    BY <2>2 DEF OneAnswerDue
  <2> QED BY <2>1, <2>4, <2>6, <2>7, <2>8, <2>9 DEF OneAnswerDue
<1>5. CASE Opened
  <2>1. /\ driver.pc = "opening" /\ driver'.pc = "select" /\ driver'.awaited = FALSE
        /\ commands' = commands
    BY <1>5 DEF Opened, At, channels
  <2>2. Due' = Due
    BY <2>1 DEF Due
  <2>3. CASE driver.awaited
    <3>1. owner' # "reply" /\ Due = {}
      BY <1>5, <2>3 DEF Opened, OneAnswerDue
    <3> QED BY <2>1, <2>2, <3>1 DEF OneAnswerDue
  <2>4. CASE ~driver.awaited
    <3>1. owner' = owner
      BY <1>5, <2>4 DEF Opened
    <3>2. (owner = "reply" /\ driver.pc # "done") <=> Due # {}
      BY <2>4 DEF OneAnswerDue
    <3>3. driver.pc # "done" /\ driver'.pc # "done" /\ ~driver'.awaited
      BY <2>1
    <3> QED BY <2>2, <3>1, <3>2, <3>3 DEF OneAnswerDue
  <2> QED BY <2>3, <2>4
<1>6. CASE ConnectionEnds \/ CommandsEnd \/ ConnectionClosed \/ StoreFlag \/ NotifyWaiters
  <2>1. /\ driver.pc \in {"select", "closing", "left", "flagged"}
        /\ driver'.pc \in {"closing", "left", "flagged", "notified"} /\ driver'.awaited = FALSE
        /\ commands' = commands /\ owner' = owner
    BY <1>6 DEF ConnectionEnds, CommandsEnd, ConnectionClosed, StoreFlag, NotifyWaiters, At,
       channels
  <2>2. ~driver.awaited /\ driver.pc # "done" /\ driver'.pc # "done"
    BY <2>1 DEF InHand
  <2>3. Due' = Due
    BY <2>1 DEF Due
  <2> QED BY <2>1, <2>2, <2>3 DEF OneAnswerDue
<1>7. CASE DriverReturns
  <2>1. driver'.pc = "done" /\ driver'.awaited = FALSE /\ commands' = <<>>
    BY <1>7 DEF DriverReturns, At
  <2>2. Due' = {}
    BY <2>1 DEF Due
  <2> QED BY <2>1, <2>2 DEF OneAnswerDue
<1>8. CASE UNCHANGED <<driver, commands, owner>>
  BY <1>8 DEF OneAnswerDue, Due
<1> QED BY <1>1, <1>2, <1>3, <1>4, <1>5, <1>6, <1>7, <1>8, AnswerFrame DEF Leaving

(* No wakeup is lost: the driver notifies after the flag is up, and a        *)
(* watcher reads the flag between arming its wait and sleeping.             *)
LEMMA WakeStep ==
  ASSUME TypeOK, FlagFirst, SleepersWoken, [Next]_vars
  PROVE  FlagFirst' /\ SleepersWoken'
<1>0. watcher \in [Watchers -> WatcherSteps]
  BY DEF TypeOK
<1> USE DEF FlagFirst, SleepersWoken, observers, At
<1>1. CASE Owner
  <2>1. driver'.pc = driver.pc /\ UNCHANGED observers
    <3>1. CASE Cancel
      <4>1. driver \in [pc : DriverSteps, awaited : BOOLEAN]
        BY DEF TypeOK
      <4> QED BY <3>1, <4>1 DEF Cancel
    <3> QED BY <1>1, <3>1 DEF Owner, Call, SendCommand, DriverClosed, Exchanged, AcceptStream,
              DropSession, connection
  <2> QED BY <2>1
<1>2. CASE TakeCommand \/ Opened \/ Acked \/ Inbound \/ ConnectionEnds \/ CommandsEnd
           \/ ConnectionClosed \/ Die \/ UNCHANGED vars
  <2>1. /\ UNCHANGED observers
        /\ driver' = driver \/ driver'.pc \in {"select", "opening", "closing", "left"}
    BY <1>2 DEF TakeCommand, Opened, Acked, Inbound, ConnectionEnds, CommandsEnd,
       ConnectionClosed, Die, vars, connection
  <2> QED BY <2>1
<1>3. CASE StoreFlag \/ DriverReturns
  BY <1>3 DEF StoreFlag, DriverReturns
<1>4. CASE NotifyWaiters
  BY <1>4 DEF NotifyWaiters, Armed
<1>5. ASSUME NEW w \in Watchers, Watch(w) \/ Watcher(w) PROVE FlagFirst' /\ SleepersWoken'
  <2>1. UNCHANGED <<driver, flag>>
    BY <1>5 DEF Watch, Watcher, Check, Arm, Recheck, Wake, Goes, connection
  <2>2. ASSUME NEW v \in Watchers, driver.pc \in {"notified", "done"}, watcher'[v] = "await"
        PROVE  v \in woken'
    <3>1. flag /\ (watcher[v] = "await" => v \in woken)
      BY <2>2
    <3>2. watcher[v] = "await" /\ (woken' = woken \/ (watcher[w] = "arm" /\ woken' = woken \ {w}))
      BY <1>0, <1>5, <2>2, <3>1 DEF Watch, Watcher, Check, Arm, Recheck, Wake, Goes
    <3> QED BY <1>0, <3>1, <3>2
  <2> QED BY <2>1, <2>2
<1> QED BY <1>1, <1>2, <1>3, <1>4, <1>5 DEF Next, Driver, Leaving

LEMMA StepInv == ASSUME IInv, [Next]_vars PROVE IInv'
BY TypeStep, OrderStep, HandStep, AnswerStep, WakeStep DEF IInv, SessionInv

(* The session of any size keeps its invariant: types, the order of inbound *)
(* streams, exactly one command that will answer the call that waits for    *)
(* one, abandoned calls or not, and no watcher asleep that the driver's     *)
(* notification has not reached (drive_connection, ClosedHandle::closed).   *)
THEOREM SessionCorrect == Spec => []SessionInv
<1>1. Spec => []IInv
  BY InitInv, StepInv, PTL DEF Spec
<1>2. IInv => SessionInv
  BY DEF IInv
<1> QED BY <1>1, <1>2, PTL
=============================================================================
