------------------------------ MODULE PeerSession ------------------------------
(***************************************************************************)
(* PeerSession of dig-nat (src/mux.rs): the yamux connection to one peer is *)
(* owned by a driver task; the session's owner asks it for outbound streams *)
(* over a command channel and takes inbound streams from another; any       *)
(* number of ClosedHandles wait for the driver to end.  The owner borrows   *)
(* the session mutably, so it is inside one call at a time; it may abandon  *)
(* the call (its future is dropped) and leave a command behind.             *)
(***************************************************************************)
EXTENDS Naturals, Sequences

CONSTANTS
  Watchers,   \* tasks that await ClosedHandle::closed
  CommandCap, \* capacity of the command channel, 64
  InboundCap, \* capacity of the inbound channel, 64
  AckBacklog, \* yamux: outbound streams that may wait for their first answer
  MaxInbound  \* bound: streams the peer opens

ASSUME SessionAssumption ==
  /\ CommandCap \in Nat \ {0} /\ InboundCap \in Nat \ {0}
  /\ AckBacklog \in Nat \ {0} /\ MaxInbound \in Nat

VARIABLES
  driver,    \* the driver task: where it is, and whether its opener still waits
  alive,     \* the byte stream under the connection works
  unacked,   \* outbound streams the peer has not acknowledged
  commands,  \* the command channel: per command, whether its opener still waits
  inbound,   \* the inbound channel: streams the peer opened, in its order
  opened,    \* streams the peer has opened so far
  accepted,  \* the last one the owner accepted
  owner,     \* the call the session's owner is in, or what became of it
  flag,      \* closed_flag
  watcher,   \* watcher[w]: where w is in ClosedHandle::closed
  woken      \* watchers whose Notified future has been notified

connection == <<driver, alive, unacked>>
channels == <<commands, inbound, opened, accepted>>
observers == <<flag, watcher, woken>>
vars == <<connection, channels, owner, observers>>

(***************************************************************************)
(* The driver is in its select, awaits poll_new_outbound ("opening") or     *)
(* poll_close ("closing"), has left the loop ("left"), has stored the flag  *)
(* ("flagged"), has notified ("notified"), or has returned ("done") and     *)
(* dropped the channels and the connection with it.  The owner is "idle",   *)
(* waits for room in the command channel ("send"), for the reply ("reply"), *)
(* for the rest of a range or availability request it wrote ("exchange"),   *)
(* for an inbound stream ("accept"), or has dropped the session ("gone").   *)
(***************************************************************************)
DriverSteps == {"select", "opening", "closing", "left", "flagged", "notified", "done"}
OwnerSteps == {"idle", "send", "reply", "exchange", "accept", "gone"}
WatcherSteps == {"idle", "check", "arm", "recheck", "await", "seen"}

TypeOK ==
  /\ driver \in [pc : DriverSteps, awaited : BOOLEAN]
  /\ alive \in BOOLEAN /\ unacked \in 0..AckBacklog
  /\ commands \in Seq(BOOLEAN) /\ Len(commands) <= CommandCap
  /\ inbound \in Seq(Nat) /\ Len(inbound) <= InboundCap
  /\ opened \in Nat /\ accepted \in Nat
  /\ owner \in OwnerSteps
  /\ flag \in BOOLEAN
  /\ watcher \in [Watchers -> WatcherSteps] /\ woken \in SUBSET Watchers

At(step) == [pc |-> step, awaited |-> FALSE]

Init ==
  /\ driver = At("select") /\ alive = TRUE /\ unacked = 0
  /\ commands = <<>> /\ inbound = <<>> /\ opened = 0 /\ accepted = 0
  /\ owner = "idle"
  /\ flag = FALSE /\ watcher = [w \in Watchers |-> "idle"] /\ woken = {}

-----------------------------------------------------------------------------
(* The owner.                                                                *)

\* open_stream, open_range_stream, query_availability, accept_stream.
Call ==
  /\ owner = "idle"
  /\ owner' \in {"send", "accept"}
  /\ UNCHANGED <<connection, channels, observers>>

SendCommand ==
  /\ owner = "send" /\ driver.pc # "done" /\ Len(commands) < CommandCap
  /\ commands' = Append(commands, TRUE)
  /\ owner' = "reply"
  /\ UNCHANGED <<connection, inbound, opened, accepted, observers>>

\* The driver dropped the channel, or the request in it.
DriverClosed ==
  /\ owner \in {"send", "reply"} /\ driver.pc = "done"
  /\ owner' = "idle"
  /\ UNCHANGED <<connection, channels, observers>>

\* The request was written and answered, or failed.
Exchanged ==
  /\ owner = "exchange"
  /\ owner' = "idle"
  /\ UNCHANGED <<connection, channels, observers>>
\* Variant: only a stream ends the call.
AcceptStream_NoNone ==
  /\ owner = "accept" /\ inbound # <<>>
  /\ accepted' = Head(inbound) /\ inbound' = Tail(inbound)
  /\ owner' = "idle"
  /\ UNCHANGED <<connection, commands, opened, observers>>

AcceptStream ==
  /\ owner = "accept"
  /\ \/ inbound # <<>> /\ accepted' = Head(inbound) /\ inbound' = Tail(inbound)
     \/ inbound = <<>> /\ driver.pc = "done" /\ UNCHANGED <<accepted, inbound>>
  /\ owner' = "idle"
  /\ UNCHANGED <<connection, commands, opened, observers>>

\* The oneshot receiver of the call goes; its command stays, wherever it is.
Abandoned == commands' = [i \in DOMAIN commands |-> FALSE]

\* The future of the call is dropped.
Cancel ==
  /\ owner \in {"send", "reply", "exchange", "accept"}
  /\ owner' = "idle"
  /\ Abandoned /\ driver' = [driver EXCEPT !.awaited = FALSE]
  /\ UNCHANGED <<alive, unacked, inbound, opened, accepted, observers>>

\* The session is dropped: no sender of commands, no receiver of streams.
DropSession ==
  /\ owner = "idle"
  /\ owner' = "gone" /\ inbound' = <<>>
  /\ UNCHANGED <<connection, commands, opened, accepted, observers>>

-----------------------------------------------------------------------------
(* The driver.                                                               *)
\* Variant: the command that is served stays in the channel.
TakeCommand_Peek ==
  /\ driver.pc = "select" /\ commands # <<>>
  /\ driver' = [pc |-> "opening", awaited |-> Head(commands)]
  /\ UNCHANGED <<alive, unacked, channels, owner, observers>>

TakeCommand ==
  /\ driver.pc = "select" /\ commands # <<>>
  /\ driver' = [pc |-> "opening", awaited |-> Head(commands)]
  /\ commands' = Tail(commands)
  /\ UNCHANGED <<alive, unacked, inbound, opened, accepted, owner, observers>>
\* Variant: a refusal is not sent back, and the reply is kept.
Opened_KeepsReply ==
  /\ driver.pc = "opening" /\ unacked < AckBacklog
  /\ driver' = At("select")
  /\ \/ unacked' = unacked + 1 /\ owner' = IF driver.awaited THEN "idle" ELSE owner
     \/ UNCHANGED <<unacked, owner>>
  /\ UNCHANGED <<alive, channels, observers>>

\* poll_new_outbound gives a stream, or refuses one over yamux's limit.  It
\* pends while the backlog is full, and looks at nothing but the backlog.
Opened ==
  /\ driver.pc = "opening" /\ unacked < AckBacklog
  /\ driver' = At("select")
  /\ \/ unacked' = unacked + 1 /\ (driver.awaited => owner' \in {"idle", "exchange"})
     \/ unacked' = unacked /\ (driver.awaited => owner' = "idle")
  /\ ~driver.awaited => owner' = owner
  /\ UNCHANGED <<alive, channels, observers>>

\* poll_next_inbound reads the socket: an acknowledgement, the end of a stream
\* that had none.
Acked ==
  /\ driver.pc = "select" /\ alive /\ unacked > 0
  /\ unacked' = unacked - 1
  /\ UNCHANGED <<driver, alive, channels, owner, observers>>

\* A stream of the peer, dropped if the channel is full or has no receiver.
Inbound ==
  /\ driver.pc = "select" /\ alive /\ opened < MaxInbound
  /\ opened' = opened + 1
  /\ inbound' = IF owner # "gone" /\ Len(inbound) < InboundCap
                THEN Append(inbound, opened') ELSE inbound
  /\ UNCHANGED <<connection, commands, accepted, owner, observers>>
\* Variant: the loop goes on after an error of the connection.
ConnectionEnds_Retried == driver.pc = "select" /\ ~alive /\ UNCHANGED vars

\* The connection ended or failed.
ConnectionEnds ==
  /\ driver.pc = "select" /\ ~alive
  /\ driver' = At("left")
  /\ UNCHANGED <<alive, unacked, channels, owner, observers>>
\* Variant: the arm does not match None.
CommandsEnd_Unmatched ==
  driver.pc = "select" /\ owner = "gone" /\ commands = <<>> /\ UNCHANGED vars

\* recv yields None: every sender is gone and the channel is empty.
CommandsEnd ==
  /\ driver.pc = "select" /\ owner = "gone" /\ commands = <<>>
  /\ driver' = At("closing")
  /\ UNCHANGED <<alive, unacked, channels, owner, observers>>

\* poll_close is over, with or without an error.
ConnectionClosed ==
  /\ driver.pc = "closing"
  /\ driver' = At("left")
  /\ UNCHANGED <<alive, unacked, channels, owner, observers>>

StoreFlag ==
  /\ driver.pc = "left"
  /\ driver' = At("flagged")
  /\ flag' = TRUE
  /\ UNCHANGED <<alive, unacked, channels, owner, watcher, woken>>

Armed == {w \in Watchers : watcher[w] \in {"recheck", "await"}}

NotifyWaiters ==
  /\ driver.pc = "flagged"
  /\ driver' = At("notified")
  /\ woken' = Armed
  /\ UNCHANGED <<alive, unacked, channels, owner, flag, watcher>>

\* The task returns: its ends of the channels go, and the connection.
DriverReturns ==
  /\ driver.pc = "notified"
  /\ driver' = At("done")
  /\ alive' = FALSE /\ commands' = <<>>
  /\ UNCHANGED <<unacked, inbound, opened, accepted, owner, observers>>

-----------------------------------------------------------------------------
(* ClosedHandle::closed, whose Notified future receives a notification from  *)
(* the moment it is made ("recheck").                                        *)

Goes(w, step) ==
  /\ watcher' = [watcher EXCEPT ![w] = step]
  /\ UNCHANGED <<connection, channels, owner, flag>>

Watch(w) == watcher[w] = "idle" /\ Goes(w, "check") /\ UNCHANGED woken
Check(w) ==
  /\ watcher[w] = "check"
  /\ Goes(w, IF flag THEN "seen" ELSE "arm")
  /\ UNCHANGED woken
Arm(w) == watcher[w] = "arm" /\ Goes(w, "recheck") /\ woken' = woken \ {w}
\* Variant: the flag is not read again once the wait is armed.
Recheck_Skipped(w) == watcher[w] = "recheck" /\ Goes(w, "await") /\ UNCHANGED woken

Recheck(w) ==
  /\ watcher[w] = "recheck"
  /\ Goes(w, IF flag THEN "seen" ELSE "await")
  /\ UNCHANGED woken
Wake(w) ==
  /\ watcher[w] = "await" /\ w \in woken
  /\ Goes(w, "check") /\ UNCHANGED woken

\* The peer or the path is lost.
Die ==
  /\ alive
  /\ alive' = FALSE
  /\ UNCHANGED <<driver, unacked, channels, owner, observers>>

-----------------------------------------------------------------------------
Owner ==
  Call \/ SendCommand \/ DriverClosed \/ Exchanged \/ AcceptStream \/ Cancel \/ DropSession
Leaving == ConnectionClosed \/ StoreFlag \/ NotifyWaiters \/ DriverReturns
Driver ==
  TakeCommand \/ Opened \/ Acked \/ Inbound \/ ConnectionEnds \/ CommandsEnd \/ Leaving
Watcher(w) == Check(w) \/ Arm(w) \/ Recheck(w) \/ Wake(w)
Next == Owner \/ Driver \/ Die \/ \E w \in Watchers : Watch(w) \/ Watcher(w)

Spec == Init /\ [][Next]_vars

(***************************************************************************)
(* Tasks run when they can.  The select of the driver polls its arms in     *)
(* random order, so an arm that is ready over and over is taken.            *)
(* ConnectionClosed assumes that poll_close ends, as it does once the       *)
(* socket takes the last frames or fails.                                   *)
(***************************************************************************)
TaskFairness ==
  /\ SF_vars(TakeCommand) /\ SF_vars(ConnectionEnds) /\ SF_vars(CommandsEnd)
  /\ WF_vars(Opened) /\ WF_vars(Leaving)
  /\ SF_vars(SendCommand) /\ WF_vars(DriverClosed) /\ WF_vars(AcceptStream)
  /\ \A w \in Watchers : WF_vars(Watcher(w))

FairSpec == Spec /\ TaskFairness

-----------------------------------------------------------------------------
\* The driver awaits poll_new_outbound inside its select arm and reads no
\* frame meanwhile, acknowledgements included (src/mux.rs:1359): with the
\* backlog full it stays there.
Stuck == driver.pc = "opening" /\ unacked = AckBacklog

\* Inbound streams wait in the order the peer opened them, after everything
\* the owner took already, and none twice.
InOrder ==
  /\ \A i, j \in DOMAIN inbound : i < j => inbound[i] < inbound[j]
  /\ \A i \in DOMAIN inbound : accepted < inbound[i] /\ inbound[i] <= opened
  /\ accepted <= opened

\* A call that waits for a reply has exactly one command that will answer it,
\* and an abandoned one none: no stream is handed to another call.
Due == {i \in DOMAIN commands : commands[i]}
OneAnswerDue ==
  /\ (owner = "reply" /\ driver.pc # "done") <=> (driver.awaited \/ Due # {})
  /\ driver.awaited => Due = {}
  /\ \A i, j \in Due : i = j

\* Once the driver has notified, every watcher that sleeps has been woken.
SleepersWoken ==
  driver.pc \in {"notified", "done"} =>
    \A w \in Watchers : watcher[w] = "await" => w \in woken

SessionInv == TypeOK /\ InOrder /\ OneAnswerDue /\ SleepersWoken

\* Nobody that awaits the close of the session misses it, wherever the store
\* and the notification fall between its own steps (ClosedHandle::closed).
NoLostWakeup ==
  \A w \in Watchers : (watcher[w] # "idle" /\ flag) ~> watcher[w] = "seen"

\* The end of the byte stream is published, unless the driver is stuck.
DeathIsPublished == ~alive ~> (flag \/ Stuck)

\* Every call that waits on the driver returns, unless the driver is stuck.
OpenAnswered == owner \in {"send", "reply"} ~> (owner \notin {"send", "reply"} \/ Stuck)
AcceptSeesClose == (owner = "accept" /\ ~alive) ~> (owner # "accept" \/ Stuck)

\* Dropping the session ends its driver and with it the connection, although
\* commands of abandoned calls are served first (src/mux.rs:1179), unless the
\* driver is stuck.
DropEndsDriver == owner = "gone" ~> (driver.pc = "done" \/ Stuck)
=============================================================================
